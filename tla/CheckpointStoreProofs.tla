------------------------ MODULE CheckpointStoreProofs ------------------------
(***************************************************************************)
(* What saving and finding checkpoints guarantees for any number of        *)
(* organisms, saves and faults, any window and any configuration of the    *)
(* storage: proofs for module CheckpointStore, and that it implements      *)
(* CheckpointLog.                                                          *)
(***************************************************************************)
EXTENDS CheckpointStore, Extremes, FiniteSetTheorems, TLAPS

-----------------------------------------------------------------------------
(* Records *)

Written(w) == w.at > 0

\* A record of these fields is a write.
LEMMA WriteType ==
  ASSUME NEW h \in BOOLEAN, NEW n \in Nat, NEW a \in Nat,
         NEW t \in SUBSET Stores, NEW m \in SUBSET Stores
  PROVE  [healthy |-> h, name |-> n, at |-> a, todo |-> t, missed |-> m] \in Write
  BY DEF Write

\* The fields of a write, and that they are all there is to it.
LEMMA WriteFields ==
  ASSUME NEW w \in Write
  PROVE  /\ w.healthy \in BOOLEAN /\ w.name \in Nat /\ w.at \in Nat
         /\ w.todo \in SUBSET Stores /\ w.missed \in SUBSET Stores
         /\ w = [healthy |-> w.healthy, name |-> w.name, at |-> w.at,
                 todo |-> w.todo, missed |-> w.missed]
  BY DEF Write

\* What a change of the stores left to write to leaves of it.
LEMMA WriteExcept ==
  ASSUME NEW w \in Write, NEW T, NEW M
  PROVE  [w EXCEPT !.todo = T, !.missed = M] =
           [healthy |-> w.healthy, name |-> w.name, at |-> w.at,
            todo |-> T, missed |-> M]
<1> DEFINE v == [w EXCEPT !.todo = T]
<1>1. v = [healthy |-> w.healthy, name |-> w.name, at |-> w.at,
           todo |-> T, missed |-> w.missed]
  BY DEF Write
<1> HIDE DEF v
<1>2. [v EXCEPT !.missed = M] =
        [healthy |-> w.healthy, name |-> w.name, at |-> w.at,
         todo |-> T, missed |-> M]
  BY <1>1
<1>3. QED
  BY <1>2 DEF v

\* What a write is to leave is an entry.
LEMMA EntryType ==
  ASSUME NEW o \in Owners, NEW w \in Write
  PROVE  EntryOf(o, w) \in Entry
  BY DEF EntryOf, Entry, Write

\* The fields of an entry.
LEMMA EntryFields ==
  ASSUME NEW e \in Entry
  PROVE  e.name \in Nat /\ e.at \in Nat /\ e.owner \in Owners /\ e.healthy \in BOOLEAN
  BY DEF Entry

\* The database a dual write turns to is one of those still to do.
LEMMA NextStoreType ==
  ASSUME NEW w \in Write, w.todo # {}
  PROVE  NextStore(w) \in w.todo /\ NextStore(w) \in Stores
  BY DEF NextStore, Write, Stores

\* The stores of a setup in use.
LEMMA SetupFields ==
  ASSUME TypeOK
  PROVE  /\ setup.stores \in SUBSET Stores /\ setup.first \in setup.stores
         /\ setup.strict \in BOOLEAN
  BY StoreAssumption DEF TypeOK, Configs

-----------------------------------------------------------------------------
(* Steps, as what they do to the writes *)

\* A busy owner has a write under way.
LEMMA BusyWrite ==
  ASSUME TypeOK, NEW o \in Owners, Busy(o)
  PROVE  writes[o] \in Write
  BY DEF TypeOK, Busy

\* A dual write that is under way moves on by one database.
LEMMA InsertMoves ==
  ASSUME TypeOK, NEW o \in Owners, Inserting(o),
         \/ Insert(o) \/ InsertUnheard(o) \/ InsertMisses(o)
  PROVE  /\ writes[o] \in Write /\ writes'[o] \in Write
         /\ NextStore(writes[o]) \in writes[o].todo
         /\ writes'[o].healthy = writes[o].healthy
         /\ writes'[o].name = writes[o].name /\ writes'[o].at = writes[o].at
         /\ writes'[o].todo = writes[o].todo \ {NextStore(writes[o])}
         /\ \/ writes'[o].missed = writes[o].missed
            \/ writes'[o].missed = writes[o].missed \cup {NextStore(writes[o])}
         /\ writes' = [writes EXCEPT ![o] = writes'[o]]
         /\ EntryOf(o, writes'[o]) = EntryOf(o, writes[o])
<1> DEFINE w == writes[o]
           s == NextStore(w)
<1>1. w \in Write
  BY BusyWrite DEF Inserting
<1>2. s \in w.todo /\ s \in Stores
  BY <1>1, NextStoreType DEF Inserting
<1>3. /\ w.healthy \in BOOLEAN /\ w.name \in Nat /\ w.at \in Nat
      /\ w.todo \in SUBSET Stores /\ w.missed \in SUBSET Stores
  BY <1>1, WriteFields
<1>4. writes \in [Owners -> Write \cup {None}]
  BY DEF TypeOK
<1>5. \E m \in {w.missed, w.missed \cup {s}} :
        writes' = [writes EXCEPT ![o] = [healthy |-> w.healthy, name |-> w.name,
                     at |-> w.at, todo |-> w.todo \ {s}, missed |-> m]]
  <2>1. CASE Insert(o)
    <3>1. writes' = [writes EXCEPT ![o].todo = w.todo \ {s}]
      BY <2>1 DEF Insert
    <3>2. writes' = [writes EXCEPT ![o] = [w EXCEPT !.todo = w.todo \ {s}]]
      BY <3>1
    <3>3. [w EXCEPT !.todo = w.todo \ {s}] =
            [healthy |-> w.healthy, name |-> w.name, at |-> w.at,
             todo |-> w.todo \ {s}, missed |-> w.missed]
      BY <1>1 DEF Write
    <3>4. QED
      BY <3>2, <3>3
  <2>2. CASE InsertUnheard(o) \/ InsertMisses(o)
    <3>1. writes' = [writes EXCEPT ![o].todo = w.todo \ {s},
                                   ![o].missed = w.missed \cup {s}]
      BY <2>2 DEF InsertUnheard, InsertMisses
    <3>2. writes' = [writes EXCEPT ![o] = [w EXCEPT !.todo = w.todo \ {s},
                                                    !.missed = w.missed \cup {s}]]
      BY <3>1, <1>4
    <3>3. [w EXCEPT !.todo = w.todo \ {s}, !.missed = w.missed \cup {s}] =
            [healthy |-> w.healthy, name |-> w.name, at |-> w.at,
             todo |-> w.todo \ {s}, missed |-> w.missed \cup {s}]
      BY <1>1, WriteExcept
    <3>4. QED
      BY <3>2, <3>3
  <2>3. QED
    BY <2>1, <2>2
<1> HIDE DEF w, s
<1>6. PICK m \in {w.missed, w.missed \cup {s}} :
        writes' = [writes EXCEPT ![o] = [healthy |-> w.healthy, name |-> w.name,
                     at |-> w.at, todo |-> w.todo \ {s}, missed |-> m]]
  BY <1>5
<1>7. m \in SUBSET Stores /\ w.todo \ {s} \in SUBSET Stores
  BY <1>2, <1>3
<1>8. writes'[o] = [healthy |-> w.healthy, name |-> w.name, at |-> w.at,
                    todo |-> w.todo \ {s}, missed |-> m]
  BY <1>4, <1>6
<1>9. writes'[o] \in Write
  BY <1>3, <1>7, <1>8, WriteType
<1>10. EntryOf(o, writes'[o]) = EntryOf(o, w)
  BY <1>8 DEF EntryOf
<1>11. writes' = [writes EXCEPT ![o] = writes'[o]]
  BY <1>6, <1>8
<1>12. /\ writes'[o].healthy = w.healthy
       /\ writes'[o].name = w.name /\ writes'[o].at = w.at
       /\ writes'[o].todo = w.todo \ {s} /\ writes'[o].missed = m
  BY <1>8
<1>13. QED
  BY <1>1, <1>2, <1>6, <1>9, <1>10, <1>11, <1>12 DEF w, s

\* Opening a file begins a write under a new name.
LEMMA OpenFileMoves ==
  ASSUME TypeOK, NEW o \in Owners, OpenFile(o)
  PROVE  /\ writes'[o] \in Write
         /\ writes'[o].name = saves + 1 /\ writes'[o].at = 0
         /\ writes'[o].todo = setup.stores /\ writes'[o].missed = {}
         /\ writes' = [writes EXCEPT ![o] = writes'[o]]
         /\ saves + 1 \in Names /\ saves \in Nat
<1>1. saves \in Nat /\ saves + 1 \in Names
  BY StoreAssumption DEF TypeOK, OpenFile, Names
<1>2. PICK h \in BOOLEAN :
        writes' = [writes EXCEPT ![o] = [healthy |-> h, name |-> saves + 1, at |-> 0,
                                         todo |-> setup.stores, missed |-> {}]]
  BY DEF OpenFile
<1>3. setup.stores \in SUBSET Stores
  BY SetupFields
<1>4. writes'[o] = [healthy |-> h, name |-> saves + 1, at |-> 0,
                    todo |-> setup.stores, missed |-> {}]
  BY <1>2 DEF TypeOK
<1>5. writes'[o] \in Write
  BY <1>1, <1>3, <1>4, WriteType
<1>6. writes' = [writes EXCEPT ![o] = writes'[o]]
  BY <1>2, <1>4
<1>7. /\ writes'[o].name = saves + 1 /\ writes'[o].at = 0
      /\ writes'[o].todo = setup.stores /\ writes'[o].missed = {}
  BY <1>4
<1>8. QED
  BY <1>1, <1>5, <1>6, <1>7

\* Closing it dates the write, and changes nothing else of it.
LEMMA CloseFileMoves ==
  ASSUME TypeOK, NEW o \in Owners, CloseFile(o)
  PROVE  /\ writes[o] \in Write /\ writes'[o] \in Write
         /\ writes'[o].healthy = writes[o].healthy
         /\ writes'[o].name = writes[o].name /\ writes'[o].at = clock + 1
         /\ writes'[o].todo = writes[o].todo /\ writes'[o].missed = writes[o].missed
         /\ writes' = [writes EXCEPT ![o] = writes'[o]]
<1> DEFINE w == writes[o]
<1>1. w \in Write
  BY BusyWrite DEF CloseFile
<1>2. writes' = [writes EXCEPT ![o] = [w EXCEPT !.at = clock + 1]]
  BY DEF CloseFile
<1>3. writes'[o] = [w EXCEPT !.at = clock + 1]
  BY <1>2 DEF TypeOK
<1>4. [w EXCEPT !.at = clock + 1] =
        [healthy |-> w.healthy, name |-> w.name, at |-> clock + 1,
         todo |-> w.todo, missed |-> w.missed]
  BY <1>1 DEF Write
<1>5. clock + 1 \in Nat
  BY DEF TypeOK
<1>6. writes'[o] \in Write
  <2>1. /\ w.healthy \in BOOLEAN /\ w.name \in Nat
        /\ w.todo \in SUBSET Stores /\ w.missed \in SUBSET Stores
    BY <1>1, WriteFields
  <2> HIDE DEF w
  <2>2. QED
    BY <1>3, <1>4, <1>5, <2>1, WriteType
<1>7. QED
  BY <1>1, <1>2, <1>3, <1>4, <1>6

-----------------------------------------------------------------------------
(* Types *)

\* The types hold at first.
LEMMA TypeInit == Init => TypeOK
  BY StoreAssumption DEF Init, TypeOK

\* No step breaks them.
LEMMA TypeStep ==
  ASSUME TypeOK, [Next]_vars
  PROVE  TypeOK'
<1> USE DEF TypeOK
<1>a. MaxSaves \in Nat /\ MaxFaults \in Nat
  BY StoreAssumption
<1>1. ASSUME NEW o \in Owners, OpenFile(o) PROVE TypeOK'
  <2>1. /\ writes'[o] \in Write /\ writes' = [writes EXCEPT ![o] = writes'[o]]
        /\ saves + 1 \in Names /\ saves \in Nat
    BY <1>1, OpenFileMoves
  <2>2. writes' \in [Owners -> Write \cup {None}]
    BY <2>1
  <2>3. files' \in [Names -> {"none", "torn", "whole"}]
    BY <1>1 DEF OpenFile
  <2>4. saves' \in 0..MaxSaves
    BY <1>1, <1>a DEF OpenFile
  <2>5. QED
    BY <1>1, <2>2, <2>3, <2>4 DEF OpenFile
<1>2. ASSUME NEW o \in Owners, CloseFile(o) PROVE TypeOK'
  <2>1. writes'[o] \in Write /\ writes' = [writes EXCEPT ![o] = writes'[o]]
    BY <1>2, CloseFileMoves
  <2>2. writes' \in [Owners -> Write \cup {None}]
    BY <2>1
  <2>3. files' \in [Names -> {"none", "torn", "whole"}]
    BY <1>2 DEF CloseFile
  <2>4. clock' \in Nat
    BY <1>2 DEF CloseFile
  <2>5. QED
    BY <1>2, <2>2, <2>3, <2>4 DEF CloseFile
<1>3. ASSUME NEW o \in Owners, Insert(o) \/ InsertMisses(o) \/ InsertUnheard(o)
      PROVE  TypeOK'
  <2>1. Inserting(o)
    BY <1>3 DEF Insert, InsertMisses, InsertUnheard
  <2>2. /\ writes'[o] \in Write /\ writes' = [writes EXCEPT ![o] = writes'[o]]
        /\ writes[o] \in Write /\ NextStore(writes[o]) \in writes[o].todo
    BY <1>3, <2>1, InsertMoves
  <2>3. writes' \in [Owners -> Write \cup {None}]
    BY <2>2
  <2>4. NextStore(writes[o]) \in Stores /\ EntryOf(o, writes[o]) \in Entry
    BY <2>2, WriteFields, EntryType
  <2>5. rows' \in [Stores -> SUBSET Entry]
    BY <1>3, <2>4 DEF Insert, InsertMisses, InsertUnheard
  <2>6. faults' \in 0..MaxFaults /\ down' \subseteq Stores
    BY <1>3, <1>a, <2>4 DEF Insert, InsertMisses, InsertUnheard
  <2>7. QED
    BY <1>3, <2>3, <2>5, <2>6 DEF Insert, InsertMisses, InsertUnheard
<1>4. ASSUME NEW o \in Owners, Finish(o) PROVE TypeOK'
  <2>1. EntryOf(o, writes[o]) \in Entry
    BY <1>4, BusyWrite, EntryType DEF Finish
  <2>2. acked' \subseteq Entry
    BY <1>4, <2>1 DEF Finish
  <2>3. QED
    BY <1>4, <2>2 DEF Finish
<1>5. ASSUME NEW o \in Owners, Crash(o) PROVE TypeOK'
  BY <1>5, <1>a DEF Crash
<1>6. ASSUME NEW o \in Owners, LoadLatest(o) PROVE TypeOK'
  BY <1>6 DEF LoadLatest
<1>7. ASSUME NEW s \in Stores, Outage(s) \/ Recovery(s) PROVE TypeOK'
  BY <1>7, <1>a DEF Outage, Recovery
<1>8. CASE UNCHANGED vars
  BY <1>8 DEF vars
<1>9. QED
  BY <1>1, <1>2, <1>3, <1>4, <1>5, <1>6, <1>7, <1>8 DEF Next, Save

\* Every reachable state of the store is of the expected types, for any
\* organisms and configurations.
THEOREM StoreTypeCorrect == Spec => []TypeOK
<1>1. QED
  BY TypeInit, TypeStep, PTL DEF Spec
-----------------------------------------------------------------------------
(* Files before rows, and what a write in progress has done *)

\* Rows and writes have names of their own that were given out, and once a
\* record is built its file is whole.
RowsHaveFiles ==
  /\ \A s \in Stores : \A e \in rows[s] : e.name <= saves /\ files[e.name] = "whole"
  /\ \A o \in Owners : Busy(o) =>
       /\ writes[o].name \in 1..saves
       /\ Written(writes[o]) => files[writes[o].name] = "whole"

\* Each database of the setup is still to do, was missed, or has the row.
RowsFollow ==
  \A o \in Owners : Busy(o) =>
    /\ writes[o].todo \subseteq setup.stores
    /\ ~Written(writes[o]) => writes[o].todo = setup.stores
    /\ \A s \in setup.stores :
         s \in writes[o].todo \/ s \in writes[o].missed
           \/ EntryOf(o, writes[o]) \in rows[s]

\* An entry that was reported is not that of a write in progress.
NamesDiffer ==
  /\ \A e \in acked : e.name <= saves
  /\ \A o \in Owners : Busy(o) =>
       /\ \A e \in acked : e.name # writes[o].name
       /\ \A p \in Owners : Busy(p) /\ p # o => writes[p].name # writes[o].name

\* Without a fault nothing is away or missed, and a row that a database lacks
\* is about to be inserted there.
Untroubled ==
  faults = 0 =>
    /\ down = {}
    /\ \A o \in Owners : Busy(o) => writes[o].missed = {}
    /\ \A s, t \in setup.stores : \A e \in rows[s] :
         \/ e \in rows[t]
         \/ \E o \in Owners :
              Busy(o) /\ t \in writes[o].todo /\ e = EntryOf(o, writes[o])
                /\ Written(writes[o])

\* Records are dated by the clock.
RowsDated ==
  /\ \A s \in Stores : \A e \in rows[s] : e.at <= clock
  /\ \A o \in Owners : Busy(o) => writes[o].at <= clock

FiniteRows == \A s \in Stores : IsFiniteSet(rows[s])

IInv ==
  /\ TypeOK /\ RowsHaveFiles /\ RowsFollow /\ NamesDiffer /\ Untroubled
  /\ FiniteRows /\ AckedIsKept /\ RowsDated

\* So does the invariant: nothing is written yet.
LEMMA InvInit == Init => IInv
<1> SUFFICES ASSUME Init PROVE IInv
  OBVIOUS
<1>1. TypeOK
  BY TypeInit
<1>2. RowsHaveFiles /\ RowsFollow /\ NamesDiffer
  BY DEF Init, RowsHaveFiles, RowsFollow, NamesDiffer, Busy
<1>3. setup.stores \in SUBSET Stores
  BY <1>1, SetupFields
<1>4. Untroubled /\ AckedIsKept
  BY <1>3 DEF Init, Untroubled, AckedIsKept, Busy
<1>5. FiniteRows /\ RowsDated
  BY FS_EmptySet DEF Init, FiniteRows, RowsDated, Busy
<1>6. QED
  BY <1>1, <1>2, <1>4, <1>5 DEF IInv

\* The other kernels' writes are as they were.
Others(o) == \A p \in Owners : p # o => writes'[p] = writes[p]

\* A step of one owner leaves the writes of the others.
LEMMA OneWrite ==
  ASSUME TypeOK, NEW o \in Owners, NEW v, writes' = [writes EXCEPT ![o] = v]
  PROVE  Others(o) /\ writes'[o] = v
  BY DEF TypeOK, Others

\* A file that is opened has no row, and a name of its own.
LEMMA OpenFileKeeps ==
  ASSUME IInv, NEW o \in Owners, OpenFile(o)
  PROVE  RowsHaveFiles' /\ RowsFollow' /\ NamesDiffer' /\ Untroubled' /\ AckedIsKept'
<1> USE DEF IInv
<1>1. /\ writes'[o] \in Write
      /\ writes'[o].name = saves + 1 /\ writes'[o].at = 0
      /\ writes'[o].todo = setup.stores /\ writes'[o].missed = {}
      /\ writes' = [writes EXCEPT ![o] = writes'[o]]
      /\ saves + 1 \in Names /\ saves \in Nat
  BY OpenFileMoves
<1>2. Others(o) /\ ~Busy(o)
  BY <1>1, OneWrite DEF OpenFile
<1>3. /\ rows' = rows /\ setup' = setup /\ acked' = acked /\ down' = down
      /\ faults' = faults /\ saves' = saves + 1
      /\ files' = [files EXCEPT ![saves + 1] = "torn"]
  BY DEF OpenFile
<1>4. \A n \in Nat : n <= saves => files'[n] = files[n]
  BY <1>1, <1>3 DEF TypeOK
<1>5. \A s \in Stores : \A e \in rows[s] : e.name \in Nat
  BY EntryFields DEF TypeOK
<1>6. \A p \in Owners : Busy(p) => p # o /\ writes[p].name \in 1..saves
  BY <1>2 DEF RowsHaveFiles
<1>7. \A e \in acked : e.name \in Nat /\ e.name <= saves
  BY EntryFields DEF TypeOK, NamesDiffer
<1>8. RowsHaveFiles'
  <2>1. \A s \in Stores : \A e \in rows'[s] : e.name <= saves' /\ files'[e.name] = "whole"
    BY <1>1, <1>3, <1>4, <1>5 DEF RowsHaveFiles
  <2>2. ASSUME NEW p \in Owners, Busy(p)'
        PROVE  /\ writes'[p].name \in 1..saves'
               /\ Written(writes'[p]) => files'[writes'[p].name] = "whole"
    <3>1. CASE p = o
      BY <3>1, <1>1, <1>3 DEF Written
    <3>2. CASE p # o
      <4>1. writes'[p] = writes[p] /\ Busy(p)
        BY <2>2, <3>2, <1>2 DEF Others, Busy
      <4>2. writes[p].name \in 1..saves
        BY <4>1, <1>6
      <4>3. Written(writes[p]) => files[writes[p].name] = "whole"
        BY <4>1 DEF RowsHaveFiles
      <4>4. QED
        BY <4>1, <4>2, <4>3, <1>1, <1>3, <1>4
    <3>3. QED
      BY <3>1, <3>2
  <2>3. QED
    BY <2>1, <2>2 DEF RowsHaveFiles
<1>9. RowsFollow'
  <2>1. ASSUME NEW p \in Owners, Busy(p)', p # o
        PROVE  writes'[p] = writes[p] /\ Busy(p)
    BY <2>1, <1>2 DEF Others, Busy
  <2>2. QED
    BY <2>1, <1>1, <1>3 DEF RowsFollow
<1>10. NamesDiffer'
  <2>1. ASSUME NEW p \in Owners, Busy(p)', p # o
        PROVE  writes'[p] = writes[p] /\ Busy(p) /\ writes[p].name # saves + 1
    BY <2>1, <1>1, <1>2, <1>6 DEF Others, Busy
  <2>2. \A e \in acked : e.name # saves + 1 /\ e.name <= saves + 1
    BY <1>1, <1>7
  <2>3. QED
    BY <2>1, <2>2, <1>1, <1>3 DEF NamesDiffer
<1>11. Untroubled'
  <2>1. ASSUME NEW p \in Owners, Busy(p)', p # o
        PROVE  writes'[p] = writes[p] /\ Busy(p)
    BY <2>1, <1>2 DEF Others, Busy
  <2>2. ASSUME NEW p \in Owners, Busy(p)
        PROVE  writes'[p] = writes[p] /\ Busy(p)'
    BY <2>2, <1>2 DEF Others, Busy
  <2>3. ASSUME faults = 0, NEW p \in Owners, Busy(p)' PROVE writes'[p].missed = {}
    BY <2>3, <2>1, <1>1 DEF Untroubled
  <2>4. ASSUME faults = 0, NEW s \in setup.stores, NEW t \in setup.stores,
               NEW e \in rows[s], e \notin rows[t]
        PROVE  \E p \in Owners :
                 Busy(p)' /\ t \in writes'[p].todo /\ e = EntryOf(p, writes'[p])
                   /\ Written(writes'[p])
    BY <2>4, <2>2 DEF Untroubled
  <2>5. faults = 0 => down = {}
    BY DEF Untroubled
  <2>6. QED
    BY <2>3, <2>4, <2>5, <1>3 DEF Untroubled
<1>12. AckedIsKept'
  BY <1>3 DEF AckedIsKept
<1>13. QED
  BY <1>8, <1>9, <1>10, <1>11, <1>12

\* A file that is written has no row yet.
LEMMA CloseFileKeeps ==
  ASSUME IInv, NEW o \in Owners, CloseFile(o)
  PROVE  RowsHaveFiles' /\ RowsFollow' /\ NamesDiffer' /\ Untroubled' /\ AckedIsKept'
<1> USE DEF IInv
<1>1. /\ writes'[o].name = writes[o].name /\ writes'[o].at = clock + 1
      /\ writes'[o].todo = writes[o].todo /\ writes'[o].missed = writes[o].missed
      /\ writes' = [writes EXCEPT ![o] = writes'[o]]
  BY CloseFileMoves
<1>2. Others(o) /\ Busy(o) /\ ~Written(writes[o])
  <2>1. Others(o)
    BY <1>1, OneWrite
  <2>2. Busy(o) /\ writes[o].at = 0
    BY DEF CloseFile
  <2>3. QED
    BY <2>1, <2>2 DEF Written
<1>3. /\ rows' = rows /\ setup' = setup /\ acked' = acked /\ down' = down
      /\ faults' = faults /\ saves' = saves
      /\ files' = [files EXCEPT ![writes[o].name] = "whole"]
  BY DEF CloseFile
<1>4. writes[o].name \in Names
  BY <1>2, StoreAssumption DEF RowsHaveFiles, Names, TypeOK
<1>5. files'[writes[o].name] = "whole" /\ \A n : files[n] = "whole" => files'[n] = "whole"
  BY <1>3, <1>4 DEF TypeOK
<1>6. ASSUME NEW p \in Owners
      PROVE  /\ Busy(p)' => Busy(p)
             /\ Busy(p) /\ p # o => writes'[p] = writes[p] /\ Busy(p)'
  BY <1>2 DEF Others, Busy
<1>7. RowsHaveFiles'
  <2>1. \A s \in Stores : \A e \in rows'[s] : e.name <= saves' /\ files'[e.name] = "whole"
    BY <1>3, <1>5 DEF RowsHaveFiles
  <2>2. ASSUME NEW p \in Owners, Busy(p)'
        PROVE  /\ writes'[p].name \in 1..saves'
               /\ Written(writes'[p]) => files'[writes'[p].name] = "whole"
    BY <2>2, <1>1, <1>2, <1>3, <1>5, <1>6 DEF RowsHaveFiles
  <2>3. QED
    BY <2>1, <2>2 DEF RowsHaveFiles
<1>8. RowsFollow'
  BY <1>1, <1>2, <1>3, <1>6 DEF RowsFollow
<1>9. NamesDiffer'
  BY <1>1, <1>2, <1>3, <1>6 DEF NamesDiffer
<1>10. Untroubled'
  <2>1. ASSUME faults = 0, NEW p \in Owners, Busy(p)' PROVE writes'[p].missed = {}
    BY <2>1, <1>1, <1>2, <1>6 DEF Untroubled
  <2>2. ASSUME faults = 0, NEW s \in setup.stores, NEW t \in setup.stores,
               NEW e \in rows[s], e \notin rows[t]
        PROVE  \E p \in Owners :
                 Busy(p)' /\ t \in writes'[p].todo /\ e = EntryOf(p, writes'[p])
                   /\ Written(writes'[p])
    BY <2>2, <1>2, <1>6 DEF Untroubled
  <2>3. faults = 0 => down = {}
    BY DEF Untroubled
  <2>4. QED
    BY <2>1, <2>2, <2>3, <1>3 DEF Untroubled
<1>11. AckedIsKept'
  BY <1>3 DEF AckedIsKept
<1>12. QED
  BY <1>7, <1>8, <1>9, <1>10, <1>11

\* Whatever becomes of an insertion, a row has its file and its date, two databases
\* differ about no save without a fault, and what was acknowledged is where it was.
LEMMA InsertKeeps ==
  ASSUME IInv, NEW o \in Owners, Insert(o) \/ InsertMisses(o) \/ InsertUnheard(o)
  PROVE  RowsHaveFiles' /\ RowsFollow' /\ NamesDiffer' /\ Untroubled' /\ AckedIsKept'
<1> USE DEF IInv
<1> DEFINE s == NextStore(writes[o])
           e == EntryOf(o, writes[o])
<1>1. Inserting(o) /\ Busy(o) /\ Written(writes[o])
  BY DEF Insert, InsertMisses, InsertUnheard, Inserting, Written
<1>2. /\ writes[o] \in Write /\ s \in writes[o].todo
      /\ writes'[o].name = writes[o].name /\ writes'[o].at = writes[o].at
      /\ writes'[o].todo = writes[o].todo \ {s}
      /\ \/ writes'[o].missed = writes[o].missed
         \/ writes'[o].missed = writes[o].missed \cup {s}
      /\ writes' = [writes EXCEPT ![o] = writes'[o]]
      /\ EntryOf(o, writes'[o]) = e
  BY <1>1, InsertMoves
<1>3. Others(o)
  BY <1>2, OneWrite
<1>4. /\ setup' = setup /\ acked' = acked /\ saves' = saves /\ files' = files
  BY DEF Insert, InsertMisses, InsertUnheard
<1>5. s \in setup.stores /\ setup.stores \in SUBSET Stores
  BY <1>1, <1>2, SetupFields DEF RowsFollow
<1>6. \/ rows' = rows /\ s \in writes'[o].missed
      \/ rows' = [rows EXCEPT ![s] = @ \cup {e}]
  <2>1. CASE InsertMisses(o)
    <3>1. writes' = [writes EXCEPT ![o].todo = writes[o].todo \ {s},
                                   ![o].missed = writes[o].missed \cup {s}]
      BY <2>1 DEF InsertMisses
    <3>2. writes'[o].missed = writes[o].missed \cup {s}
      BY <3>1, <1>2 DEF TypeOK, Write
    <3>3. QED
      BY <2>1, <3>2 DEF InsertMisses
  <2>2. CASE Insert(o) \/ InsertUnheard(o)
    BY <2>2 DEF Insert, InsertUnheard
  <2>3. QED
    BY <2>1, <2>2
<1>7. /\ \A t \in Stores : rows[t] \subseteq rows'[t]
      /\ \A t \in Stores : rows'[t] \subseteq rows[t] \cup {e}
      /\ \A t \in Stores : t # s => rows'[t] = rows[t]
      /\ s \in writes'[o].missed \/ e \in rows'[s]
  BY <1>5, <1>6 DEF TypeOK
<1>8. e.name = writes[o].name
  BY DEF EntryOf
<1>9. ASSUME NEW p \in Owners
      PROVE  /\ Busy(p)' => Busy(p)
             /\ Busy(p) /\ p # o => writes'[p] = writes[p] /\ Busy(p)'
             /\ Busy(p) => writes'[p].name = writes[p].name /\ writes'[p].at = writes[p].at
  BY <1>1, <1>2, <1>3 DEF Others, Busy
<1>10. Busy(o)'
  <2>1. writes'[o] \in Write
    BY <1>1, InsertMoves
  <2>2. QED
    BY <2>1, NothingAssumption DEF Busy, Write
<1> HIDE DEF s, e
<1>11. RowsHaveFiles'
  <2>1. \A t \in Stores : \A f \in rows'[t] : f.name <= saves' /\ files'[f.name] = "whole"
    <3>1. e.name <= saves /\ files[e.name] = "whole"
      BY <1>1, <1>8 DEF RowsHaveFiles, TypeOK
    <3>2. QED
      BY <3>1, <1>4, <1>7 DEF RowsHaveFiles
  <2>2. ASSUME NEW p \in Owners, Busy(p)'
        PROVE  /\ writes'[p].name \in 1..saves'
               /\ Written(writes'[p]) => files'[writes'[p].name] = "whole"
    BY <2>2, <1>4, <1>9 DEF RowsHaveFiles, Written
  <2>3. QED
    BY <2>1, <2>2 DEF RowsHaveFiles
<1>12. RowsFollow'
  <2>1. ASSUME NEW p \in Owners, Busy(p)', p # o
        PROVE  /\ writes'[p].todo \subseteq setup.stores
               /\ ~Written(writes'[p]) => writes'[p].todo = setup.stores
               /\ \A t \in setup.stores :
                    t \in writes'[p].todo \/ t \in writes'[p].missed
                      \/ EntryOf(p, writes'[p]) \in rows'[t]
    BY <2>1, <1>5, <1>7, <1>9 DEF RowsFollow
  <2>2. /\ writes'[o].todo \subseteq setup.stores
        /\ Written(writes'[o])
        /\ \A t \in setup.stores :
             t \in writes'[o].todo \/ t \in writes'[o].missed
               \/ EntryOf(o, writes'[o]) \in rows'[t]
    <3>1. writes'[o].todo \subseteq setup.stores /\ Written(writes'[o])
      BY <1>1, <1>2, <1>9 DEF RowsFollow, Written
    <3>2. ASSUME NEW t \in setup.stores, t \notin writes'[o].todo,
                 t \notin writes'[o].missed
          PROVE  e \in rows'[t]
      <4>1. CASE t = s
        BY <4>1, <3>2, <1>7
      <4>2. CASE t # s
        <5>1. t \notin writes[o].todo /\ t \notin writes[o].missed
          BY <4>2, <3>2, <1>2
        <5>2. e \in rows[t]
          BY <5>1, <1>1 DEF RowsFollow, e
        <5>3. QED
          BY <5>2, <1>5, <1>7
      <4>3. QED
        BY <4>1, <4>2
    <3>3. QED
      BY <3>1, <3>2, <1>2
  <2>3. QED
    BY <2>1, <2>2, <1>4 DEF RowsFollow
<1>13. NamesDiffer'
  BY <1>4, <1>9 DEF NamesDiffer
<1>14. Untroubled'
  <2> SUFFICES ASSUME faults' = 0
               PROVE  /\ down' = {}
                      /\ \A p \in Owners : Busy(p)' => writes'[p].missed = {}
                      /\ \A r, t \in setup.stores : \A f \in rows'[r] :
                           \/ f \in rows'[t]
                           \/ \E p \in Owners :
                                Busy(p)' /\ t \in writes'[p].todo
                                  /\ f = EntryOf(p, writes'[p]) /\ Written(writes'[p])
    BY <1>4 DEF Untroubled
  <2>1. Insert(o) /\ faults = 0
    BY DEF Insert, InsertMisses, InsertUnheard, Untroubled, TypeOK
  <2>2. down = {} /\ down' = {} /\ rows' = [rows EXCEPT ![s] = @ \cup {e}]
    BY <2>1 DEF Insert, Untroubled, s, e
  <2>3. \A p \in Owners : Busy(p) => writes[p].missed = {}
    BY <2>1 DEF Untroubled
  <2>4. writes'[o].missed = {}
    <3>1. writes' = [writes EXCEPT ![o].todo = writes[o].todo \ {s}]
      BY <2>1 DEF Insert, s
    <3>2. writes'[o].missed = writes[o].missed
      BY <3>1, <1>2 DEF TypeOK, Write
    <3>3. QED
      BY <3>2, <2>3, <1>1
  <2>5. \A p \in Owners : Busy(p)' => writes'[p].missed = {}
    BY <2>3, <2>4, <1>9
  <2>6. ASSUME NEW r \in setup.stores, NEW t \in setup.stores, NEW f \in rows'[r],
               f \notin rows'[t]
        PROVE  \E p \in Owners :
                 Busy(p)' /\ t \in writes'[p].todo
                   /\ f = EntryOf(p, writes'[p]) /\ Written(writes'[p])
    <3>0. Written(writes'[o])
      BY <1>1, <1>2 DEF Written
    <3>1. CASE f = e
      <4>1. e \in rows'[s]
        BY <1>5, <2>2 DEF TypeOK
      <4>2. t # s /\ e \notin rows[t]
        BY <4>1, <3>1, <2>6, <1>5, <1>7
      <4>3. t \in writes[o].todo
        BY <4>2, <2>3, <1>1 DEF RowsFollow, e
      <4>4. QED
        BY <4>2, <4>3, <3>0, <3>1, <1>2, <1>10
    <3>2. CASE f # e
      <4>1. f \in rows[r] /\ f \notin rows[t]
        BY <3>2, <2>6, <1>5, <1>7
      <4>2. PICK p \in Owners :
              Busy(p) /\ t \in writes[p].todo /\ f = EntryOf(p, writes[p])
                /\ Written(writes[p])
        BY <4>1, <2>1 DEF Untroubled
      <4>3. p # o
        BY <4>2, <3>2 DEF e
      <4>4. QED
        BY <4>2, <4>3, <1>9
    <3>3. QED
      BY <3>1, <3>2
  <2>7. QED
    BY <2>2, <2>5, <2>6
<1>15. AckedIsKept'
  BY <1>4, <1>5, <1>7 DEF AckedIsKept
<1>16. QED
  BY <1>11, <1>12, <1>13, <1>14, <1>15

\* A write comes to an end, with its entry reported or not.
LEMMA EndKeeps ==
  ASSUME IInv, NEW o \in Owners, Finish(o) \/ Crash(o)
  PROVE  RowsHaveFiles' /\ RowsFollow' /\ NamesDiffer' /\ Untroubled' /\ AckedIsKept'
<1> USE DEF IInv
<1> DEFINE e == EntryOf(o, writes[o])
<1>1. /\ rows' = rows /\ setup' = setup /\ saves' = saves /\ files' = files
      /\ down' = down /\ writes' = [writes EXCEPT ![o] = None] /\ Busy(o)
  BY DEF Finish, Crash
<1>2. Others(o) /\ ~Busy(o)'
  BY <1>1, OneWrite DEF Busy
<1>3. ASSUME NEW p \in Owners
      PROVE  /\ Busy(p)' => p # o /\ Busy(p) /\ writes'[p] = writes[p]
             /\ Busy(p) /\ p # o => writes'[p] = writes[p] /\ Busy(p)'
  BY <1>2 DEF Others, Busy
<1>4. e.name = writes[o].name
  BY DEF EntryOf
<1>5. acked' = acked \/ acked' = acked \cup {e}
  BY DEF Finish, Crash
<1>6. acked' # acked =>
        /\ \/ setup.strict /\ \A s \in setup.stores : e \in rows[s]
           \/ ~setup.strict /\ \E s \in setup.stores : e \in rows[s]
  <2> SUFFICES ASSUME acked' # acked
               PROVE  \/ setup.strict /\ \A s \in setup.stores : e \in rows[s]
                      \/ ~setup.strict /\ \E s \in setup.stores : e \in rows[s]
    OBVIOUS
  <2>1. Finish(o) /\ ~Refused(writes[o].missed) /\ writes[o].todo = {}
    BY DEF Finish, Crash
  <2>2. \A s \in setup.stores : s \in writes[o].missed \/ e \in rows[s]
    BY <2>1, <1>1 DEF RowsFollow
  <2>3. QED
    BY <2>1, <2>2 DEF Refused
<1> HIDE DEF e
<1>7. RowsHaveFiles'
  BY <1>1, <1>3 DEF RowsHaveFiles
<1>8. RowsFollow'
  BY <1>1, <1>3 DEF RowsFollow
<1>9. NamesDiffer'
  <2>1. e.name <= saves
    BY <1>1, <1>4 DEF RowsHaveFiles, TypeOK
  <2>2. \A p \in Owners : Busy(p)' => e.name # writes'[p].name
    BY <1>1, <1>3, <1>4 DEF NamesDiffer
  <2>3. QED
    BY <2>1, <2>2, <1>1, <1>3, <1>5 DEF NamesDiffer
<1>10. Untroubled'
  <2> SUFFICES ASSUME faults' = 0
               PROVE  /\ down' = {}
                      /\ \A p \in Owners : Busy(p)' => writes'[p].missed = {}
                      /\ \A r, t \in setup.stores : \A f \in rows'[r] :
                           \/ f \in rows'[t]
                           \/ \E p \in Owners :
                                Busy(p)' /\ t \in writes'[p].todo
                                  /\ f = EntryOf(p, writes'[p]) /\ Written(writes'[p])
    BY <1>1 DEF Untroubled
  <2>1. Finish(o) /\ faults = 0 /\ writes[o].todo = {}
    BY DEF Finish, Crash, TypeOK
  <2>2. down' = {} /\ \A p \in Owners : Busy(p)' => writes'[p].missed = {}
    BY <2>1, <1>1, <1>3 DEF Untroubled
  <2>3. ASSUME NEW r \in setup.stores, NEW t \in setup.stores, NEW f \in rows[r],
               f \notin rows[t]
        PROVE  \E p \in Owners :
                 Busy(p)' /\ t \in writes'[p].todo
                   /\ f = EntryOf(p, writes'[p]) /\ Written(writes'[p])
    <3>1. PICK p \in Owners :
            Busy(p) /\ t \in writes[p].todo /\ f = EntryOf(p, writes[p])
              /\ Written(writes[p])
      BY <2>1, <2>3 DEF Untroubled
    <3>2. p # o
      BY <2>1, <3>1
    <3>3. QED
      BY <3>1, <3>2, <1>3
  <2>4. QED
    BY <2>2, <2>3, <1>1
<1>11. AckedIsKept'
  BY <1>1, <1>5, <1>6 DEF AckedIsKept
<1>12. QED
  BY <1>7, <1>8, <1>9, <1>10, <1>11

\* A step that leaves files, rows and writes alone.
LEMMA OtherKeeps ==
  ASSUME IInv,
         \/ \E s \in Stores : Outage(s) \/ Recovery(s)
         \/ \E o \in Owners : LoadLatest(o)
         \/ UNCHANGED vars
  PROVE  RowsHaveFiles' /\ RowsFollow' /\ NamesDiffer' /\ Untroubled' /\ AckedIsKept'
<1> USE DEF IInv
<1>1. /\ rows' = rows /\ setup' = setup /\ saves' = saves /\ files' = files
      /\ writes' = writes /\ acked' = acked
      /\ \A o \in Owners : Busy(o)' <=> Busy(o)
  BY DEF Outage, Recovery, LoadLatest, vars, Busy
<1>2. faults' = 0 => faults = 0 /\ down' \subseteq down
  BY DEF Outage, Recovery, LoadLatest, vars, TypeOK
<1>3. RowsHaveFiles' /\ RowsFollow' /\ NamesDiffer' /\ AckedIsKept'
  BY <1>1 DEF RowsHaveFiles, RowsFollow, NamesDiffer, AckedIsKept
<1>4. Untroubled'
  BY <1>1, <1>2 DEF Untroubled
<1>5. QED
  BY <1>3, <1>4

\* A step adds one row at most.
LEMMA FiniteStep ==
  ASSUME IInv, [Next]_vars
  PROVE  FiniteRows'
<1>1. \/ rows' = rows
      \/ \E s, e : rows' = [rows EXCEPT ![s] = @ \cup {e}]
  BY DEF Next, Save, OpenFile, CloseFile, Insert, InsertMisses, InsertUnheard,
         Finish, Crash, LoadLatest, Outage, Recovery, vars
<1>2. ASSUME NEW s, NEW e, rows' = [rows EXCEPT ![s] = @ \cup {e}], NEW t \in Stores
      PROVE  IsFiniteSet(rows'[t])
  <2>1. IsFiniteSet(rows[t])
    BY DEF IInv, FiniteRows
  <2>2. IsFiniteSet(rows[t] \cup {e})
    BY <2>1, FS_AddElement
  <2>3. rows'[t] = rows[t] \/ rows'[t] = rows[t] \cup {e}
    BY <1>2 DEF IInv, TypeOK
  <2>4. QED
    BY <2>1, <2>2, <2>3
<1>3. QED
  BY <1>1, <1>2 DEF IInv, FiniteRows

\* A row is dated by the time of its write.
LEMMA DatedStep ==
  ASSUME IInv, [Next]_vars
  PROVE  RowsDated'
<1> USE DEF IInv
<1>1. ASSUME NEW o \in Owners, OpenFile(o) PROVE RowsDated'
  <2>1. /\ rows' = rows /\ clock' = clock /\ clock \in Nat
    BY <1>1 DEF OpenFile, TypeOK
  <2>2. writes'[o].at = 0 /\ Others(o)
    BY <1>1, OpenFileMoves, OneWrite
  <2>3. QED
    BY <2>1, <2>2 DEF RowsDated, Others, Busy
<1>2. ASSUME NEW o \in Owners, CloseFile(o) PROVE RowsDated'
  <2>1. rows' = rows /\ clock' = clock + 1 /\ clock \in Nat
    BY <1>2 DEF CloseFile, TypeOK
  <2>2. writes'[o].at = clock + 1 /\ Others(o)
    BY <1>2, CloseFileMoves, OneWrite
  <2>3. \A s \in Stores : \A e \in rows[s] : e.at \in Nat
    BY EntryFields DEF TypeOK
  <2>4. \A p \in Owners : Busy(p) => writes[p].at \in Nat
    BY BusyWrite, WriteFields
  <2>5. QED
    BY <2>1, <2>2, <2>3, <2>4 DEF RowsDated, Others, Busy
<1>3. ASSUME NEW o \in Owners, Insert(o) \/ InsertMisses(o) \/ InsertUnheard(o)
      PROVE  RowsDated'
  <2>1. Inserting(o)
    BY <1>3 DEF Insert, InsertMisses, InsertUnheard
  <2>2. writes'[o].at = writes[o].at /\ Others(o) /\ Busy(o) /\ clock' = clock
    BY <1>3, <2>1, InsertMoves, OneWrite
    DEF Inserting, Insert, InsertMisses, InsertUnheard
  <2>3. \A s \in Stores : rows'[s] \subseteq rows[s] \cup {EntryOf(o, writes[o])}
    BY <1>3 DEF Insert, InsertMisses, InsertUnheard, TypeOK
  <2>4. EntryOf(o, writes[o]).at = writes[o].at
    BY DEF EntryOf
  <2>5. QED
    BY <2>2, <2>3, <2>4 DEF RowsDated, Others, Busy
<1>4. ASSUME NEW o \in Owners, Finish(o) \/ Crash(o) PROVE RowsDated'
  <2>1. /\ rows' = rows /\ clock' = clock /\ writes' = [writes EXCEPT ![o] = None]
    BY <1>4 DEF Finish, Crash
  <2>2. Others(o) /\ writes'[o] = None
    BY <2>1, OneWrite
  <2>3. QED
    BY <2>1, <2>2 DEF RowsDated, Others, Busy
<1>5. CASE UNCHANGED <<rows, clock, writes>>
  BY <1>5 DEF RowsDated, Busy
<1>6. QED
  BY <1>1, <1>2, <1>3, <1>4, <1>5 DEF Next, Save, LoadLatest, Outage, Recovery, vars

\* No step breaks the invariant.
LEMMA InvStep ==
  ASSUME IInv, [Next]_vars
  PROVE  IInv'
<1>1. TypeOK' /\ FiniteRows' /\ RowsDated'
  BY TypeStep, FiniteStep, DatedStep DEF IInv
<1>2. RowsHaveFiles' /\ RowsFollow' /\ NamesDiffer' /\ Untroubled' /\ AckedIsKept'
  BY OpenFileKeeps, CloseFileKeeps, InsertKeeps, EndKeeps, OtherKeeps DEF Next, Save
<1>3. QED
  BY <1>1, <1>2 DEF IInv

\* It always holds.
LEMMA InvHolds == Spec => []IInv
<1>1. QED
  BY InvInit, InvStep, PTL DEF Spec

\* No row is visible before its file is whole, whatever is killed or away.
THEOREM RowsAreNoGhosts == Spec => []NoGhostRow
<1>1. IInv => NoGhostRow
  BY DEF IInv, RowsHaveFiles, NoGhostRow
<1>2. QED
  BY <1>1, InvHolds, PTL

\* A save that was reported is in every database, or without strict dual
\* write in one.
THEOREM AckedStays == Spec => []AckedIsKept
<1>1. IInv => AckedIsKept
  BY DEF IInv
<1>2. QED
  BY <1>1, InvHolds, PTL

\* Two databases only drift apart by a fault.
THEOREM TwinsStayEqual == Spec => []TwinsAgree
<1>1. ASSUME IInv PROVE TwinsAgree
  <2> SUFFICES ASSUME faults = 0, \A o \in Owners : ~Busy(o),
                      NEW s \in setup.stores, NEW t \in setup.stores
               PROVE  rows[s] = rows[t]
    BY DEF TwinsAgree
  <2>1. rows[s] \subseteq rows[t] /\ rows[t] \subseteq rows[s]
    BY <1>1 DEF IInv, Untroubled
  <2>2. QED
    BY <2>1
<1>2. QED
  BY <1>1, InvHolds, PTL
-----------------------------------------------------------------------------
(* The log that this implements *)

\* The newest of some entries is one of them that no other is newer than.
LEMMA NewestIsNewest ==
  ASSUME NEW F \in SUBSET Entry, F # {}, NEW c \in Nat, \A e \in F : e.at <= c
  PROVE  NewestOf(F) \in F /\ \A e \in F : e.at <= NewestOf(F).at
<1>1. \A e \in F : e.at \in Nat /\ c - e.at \in Nat
  BY EntryFields
<1> DEFINE T == {c - e.at : e \in F}
<1>2. T \in SUBSET Nat /\ T # {}
  BY <1>1
<1>3. PICK x \in T : \A y \in T : x <= y
  BY <1>2, Least
<1>4. PICK e \in F : x = c - e.at
  OBVIOUS
<1>5. ASSUME NEW f \in F PROVE f.at <= e.at
  <2>1. c - e.at <= c - f.at
    BY <1>3, <1>4
  <2>2. QED
    BY <1>1, <2>1
<1>6. QED
  BY <1>5 DEF NewestOf

\* How many entries are newer than n.
Newer(entries, n) == Cardinality({f \in entries : f.at > n})

\* Of a smaller set of entries fewer are newer.
LEMMA FewerAreNewer ==
  ASSUME NEW S, IsFiniteSet(S), NEW T \in SUBSET S, NEW n \in Nat, NEW w \in Nat,
         Newer(S, n) < w
  PROVE  Newer(T, n) < w
<1> DEFINE U == {f \in S : f.at > n}
           V == {f \in T : f.at > n}
<1>1. IsFiniteSet(U)
  BY FS_Subset
<1>2. V \in SUBSET U
  OBVIOUS
<1> HIDE DEF U, V
<1>3. IsFiniteSet(V) /\ Cardinality(V) <= Cardinality(U)
  BY <1>1, <1>2, FS_Subset
<1>4. Cardinality(U) \in Nat /\ Cardinality(V) \in Nat
  BY <1>1, <1>3, FS_CardinalityType
<1>5. Cardinality(U) < w
  BY DEF U, Newer
<1>6. Cardinality(V) < w
  BY <1>3, <1>4, <1>5
<1>7. QED
  BY <1>6 DEF V, Newer

\* Finitely many entries are saved, in whatever table.
LEMMA SavedIsFinite ==
  ASSUME TypeOK, FiniteRows
  PROVE  /\ IsFiniteSet(Saved) /\ Saved \subseteq Entry
         /\ \A s \in Stores : rows[s] \subseteq Saved
<1>1. Saved = rows["primary"] \cup rows["fallback"]
  BY DEF Saved, Stores
<1>2. IsFiniteSet(rows["primary"]) /\ IsFiniteSet(rows["fallback"])
  BY DEF FiniteRows, Stores
<1>3. IsFiniteSet(Saved)
  BY <1>1, <1>2, FS_Union
<1>4. QED
  BY <1>3 DEF Saved, TypeOK

\* The instance counts as the store does.
LEMMA SameCardinality == \A S : Log!Cardinality(S) = Cardinality(S)
  BY DEF Log!Cardinality, Cardinality

\* The store begins as the log does.
LEMMA LogBegins == Init => Log!LogInit
<1> SUFFICES ASSUME Init PROVE Saved = {} /\ Promised = {} /\ answer = None
  BY DEF Log!LogInit
<1>1. Saved = {}
  BY DEF Init, Saved
<1>2. Promised = {}
  BY DEF Init, Promised, Kept
<1>3. QED
  BY <1>1, <1>2 DEF Init

\* A row becomes visible: nothing is promised that was not.
LEMMA InsertIsSave ==
  ASSUME IInv, IInv', NEW o \in Owners, Insert(o) \/ InsertUnheard(o)
  PROVE  Log!Save
<1> DEFINE s == NextStore(writes[o])
           e == EntryOf(o, writes[o])
<1>1. Inserting(o) /\ TypeOK /\ TypeOK'
  BY DEF Insert, InsertUnheard, IInv
<1>2. s \in Stores /\ e \in Entry
  BY <1>1, BusyWrite, NextStoreType, EntryType DEF Inserting
<1>3. e \notin acked
  BY <1>1 DEF IInv, NamesDiffer, Inserting, EntryOf
<1>4. /\ rows' = [rows EXCEPT ![s] = @ \cup {e}] /\ acked' = acked
      /\ setup' = setup /\ answer' = None
  BY DEF Insert, InsertUnheard
<1> HIDE DEF s, e
<1>5. \A t \in Stores : rows'[t] = IF t = s THEN rows[t] \cup {e} ELSE rows[t]
  BY <1>1, <1>4 DEF TypeOK
<1>6. Saved' = Saved \cup {e}
  BY <1>2, <1>5 DEF Saved
<1>7. Kept' = Kept
  <2>1. \A f \in acked, t \in Stores : f \in rows'[t] <=> f \in rows[t]
    BY <1>3, <1>5
  <2>2. setup.stores \in SUBSET Stores
    BY <1>1, SetupFields
  <2>3. QED
    BY <2>1, <2>2, <1>4 DEF Kept
<1>8. Promised' = {p \in Promised : Cardinality({f \in Saved' : f.at > p.at}) < Window}
  <2>1. ASSUME NEW p \in Kept, Newer(Saved', p.at) < Window
        PROVE  Newer(Saved, p.at) < Window
    <3>1. IsFiniteSet(Saved') /\ Saved \in SUBSET Saved'
      BY <1>2, <1>6, SavedIsFinite, FS_AddElement DEF IInv
    <3>2. p.at \in Nat
      BY <1>1, EntryFields DEF Kept, TypeOK
    <3>3. Window \in Nat
      BY StoreAssumption
    <3>4. QED
      BY <2>1, <3>1, <3>2, <3>3, FewerAreNewer
  <2>2. Promised' = {p \in Kept : Newer(Saved', p.at) < Window}
    BY <1>7 DEF Promised, Newer
  <2>3. Promised = {p \in Kept : Newer(Saved, p.at) < Window}
    BY DEF Promised, Newer
  <2>4. Promised' = {p \in Promised : Newer(Saved', p.at) < Window}
    BY <2>1, <2>2, <2>3
  <2>5. QED
    BY <2>4 DEF Newer
<1>9. \E f \in Saved' : f \in Log!Entry /\ Saved' = Saved \cup {f}
  BY <1>2, <1>6 DEF Log!Entry, Entry
<1>10. Promised' = {p \in Promised : Log!InWindow(p, Saved')}
  BY <1>8, SameCardinality DEF Log!InWindow
<1>11. QED
  BY <1>4, <1>9, <1>10 DEF Log!Save

\* A save is reported, and promised if every database has it.
LEMMA FinishPromises ==
  ASSUME IInv, NEW o \in Owners, Finish(o)
  PROVE  Log!Promise \/ Log!Idle
<1> DEFINE e == EntryOf(o, writes[o])
<1>1. /\ acked' = acked \/ acked' = acked \cup {e}
      /\ rows' = rows /\ setup' = setup /\ answer' = None
  BY DEF Finish
<1> HIDE DEF e
<1>2. Saved' = Saved
  BY <1>1 DEF Saved
<1>3. \/ Promised' = Promised
      \/ /\ Promised' = Promised \cup {e}
         /\ e \in Kept'
  <2>1. \/ Kept' = Kept
        \/ /\ Kept' = Kept \cup {e}
           /\ e \in Kept'
    BY <1>1 DEF Kept
  <2>2. Promised' = {p \in Kept' : Cardinality({f \in Saved : f.at > p.at}) < Window}
    BY <1>2 DEF Promised
  <2>3. QED
    BY <2>1, <2>2 DEF Promised
<1>4. e \in Kept' => e \in Saved
  BY <1>1, SetupFields DEF Kept, Saved, IInv
<1>5. CASE Promised' = Promised
  BY <1>1, <1>2, <1>5 DEF Log!Idle
<1>6. CASE Promised' = Promised \cup {e} /\ e \in Kept'
  BY <1>1, <1>2, <1>4, <1>6 DEF Log!Promise
<1>7. QED
  BY <1>3, <1>5, <1>6

\* What a look-up finds is as new as any promised entry that fits.
LEMMA LoadIsLookUp ==
  ASSUME IInv, NEW o \in Owners, LoadLatest(o)
  PROVE  Log!LookUp
<1>1. PICK s \in Stores, healthyOnly \in BOOLEAN :
        /\ ReadsFrom(s)
        /\ answer' = [owner |-> o, healthyOnly |-> healthyOnly,
                      found |-> NewestOf(Fitting(rows[s], o, healthyOnly))]
  BY DEF LoadLatest
<1>2. /\ rows' = rows /\ acked' = acked /\ setup' = setup
      /\ TypeOK /\ FiniteRows /\ s \in setup.stores
  BY <1>1 DEF LoadLatest, IInv, ReadsFrom
<1>3. Saved' = Saved /\ Promised' = Promised
  BY <1>2 DEF Saved, Promised, Kept
<1> DEFINE F == Fitting(rows[s], o, healthyOnly)
           found == NewestOf(F)
<1>4. F \subseteq rows[s] /\ rows[s] \subseteq Saved /\ F \in SUBSET Entry
  BY <1>2, SavedIsFinite DEF Fitting, Listed
<1>5. ASSUME NEW p \in Promised, Log!Fits(p, o, healthyOnly)
      PROVE  p \in F
  <2>1. p \in rows[s] /\ p \in acked
    BY <1>2 DEF Promised, Kept
  <2>2. p.at \in Nat
    BY <1>2, <2>1, EntryFields DEF TypeOK
  <2>3. Newer(Saved, p.at) < Window
    BY DEF Promised, Newer
  <2>4. Newer(rows[s], p.at) < Window
    <3>1. IsFiniteSet(Saved) /\ rows[s] \in SUBSET Saved
      BY <1>2, <1>4, SavedIsFinite
    <3>2. Window \in Nat
      BY StoreAssumption
    <3>3. QED
      BY <2>2, <2>3, <3>1, <3>2, FewerAreNewer
  <2>5. files[p.name] = "whole"
    BY <2>1 DEF IInv, RowsHaveFiles
  <2>6. QED
    BY <1>5, <2>1, <2>4, <2>5 DEF Fitting, Listed, Log!Fits, Newer
<1>6. F # {} => found \in F /\ \A e \in F : e.at <= found.at
  <2>1. clock \in Nat /\ \A e \in F : e.at <= clock
    BY <1>2, <1>4 DEF IInv, RowsDated, TypeOK
  <2> HIDE DEF F
  <2>2. QED
    BY <1>4, <2>1, NewestIsNewest
<1>7. F = {} => found = None
  BY DEF NewestOf
<1>8. \A e \in F : e # None /\ Log!Fits(e, o, healthyOnly)
  <2>1. None \notin Entry
    BY NothingAssumption DEF Entry
  <2>2. QED
    BY <2>1, <1>4 DEF Fitting, Log!Fits
<1> HIDE DEF F, found
<1>9. /\ found \in Saved \cup {None}
      /\ found # None => Log!Fits(found, o, healthyOnly)
      /\ \A p \in Promised :
           Log!Fits(p, o, healthyOnly) => found # None /\ p.at <= found.at
  BY <1>4, <1>5, <1>6, <1>7, <1>8
<1>10. answer' = [owner |-> o, healthyOnly |-> healthyOnly, found |-> found]
  BY <1>1 DEF found, F
<1>11. QED
  BY <1>3, <1>9, <1>10 DEF Log!LookUp

\* Every step of the store is one of the log, or none.
LEMMA LogSteps ==
  ASSUME IInv, IInv', [Next]_vars
  PROVE  [Log!LogNext]_(Log!logVars)
<1>1. ASSUME NEW o \in Owners, Insert(o) \/ InsertUnheard(o) PROVE Log!Save
  BY <1>1, InsertIsSave
<1>2. ASSUME NEW o \in Owners, Finish(o) PROVE Log!Promise \/ Log!Idle
  BY <1>2, FinishPromises
<1>3. ASSUME NEW o \in Owners, LoadLatest(o) PROVE Log!LookUp
  BY <1>3, LoadIsLookUp
<1>4. ASSUME UNCHANGED <<rows, acked, setup>> PROVE UNCHANGED <<Saved, Promised>>
  BY <1>4 DEF Saved, Promised, Kept
<1>5. ASSUME NEW o \in Owners, OpenFile(o) \/ CloseFile(o) \/ InsertMisses(o) \/ Crash(o)
      PROVE  Log!Idle
  BY <1>4, <1>5 DEF OpenFile, CloseFile, InsertMisses, Crash, Log!Idle
<1>6. ASSUME NEW s \in Stores, Outage(s) \/ Recovery(s) PROVE Log!Idle
  BY <1>4, <1>6 DEF Outage, Recovery, Log!Idle
<1>7. CASE UNCHANGED vars
  BY <1>4, <1>7 DEF vars, Log!logVars
<1>8. QED
  BY <1>1, <1>2, <1>3, <1>5, <1>6, <1>7 DEF Next, Save, Log!LogNext

\* The storage keeps the promises of CheckpointLog, for any organisms, window,
\* configuration and number of saves and faults.
THEOREM StoreKeepsPromises == Spec => KeepsPromises
<1>1. QED
  BY LogBegins, LogSteps, InvHolds, PTL DEF KeepsPromises, Log!LogSpec, Spec
=============================================================================
