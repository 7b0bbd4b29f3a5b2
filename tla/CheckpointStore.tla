--------------------------- MODULE CheckpointStore ---------------------------
(***************************************************************************)
(* Saving and finding checkpoints (life/checkpoints.py) through the        *)
(* storage facade: a file is written, its row is inserted into one         *)
(* database or, in hybrid mode, into PostgreSQL ("primary") and then into  *)
(* SQLite ("fallback"), and an event announces it.  Several organisms'     *)
(* kernels share the storage; each is one thread.  A kernel may be killed  *)
(* and a database may be away, at any point, also after it has committed   *)
(* and before it has answered.                                             *)
(*                                                                         *)
(* Left out: what happens to files later (LifeKernel models it), a look-up *)
(* by run, other kinds of artifact, and what a row says of its file beyond *)
(* its place.                                                              *)
(***************************************************************************)
EXTENDS Naturals, FiniteSets

CONSTANTS
  Owners,    \* the organisms whose kernels save
  None,      \* no write under way, nothing found
  Setups,    \* the storage configurations considered
  Window,    \* limit of list_artifacts in load_latest_payload (400 there)
  MaxSaves,  \* bound on saves begun
  MaxFaults  \* bound on kills and on databases going away

VARIABLES
  setup,   \* StorageConfig: databases, strict_dual_write, the one read first
  files,   \* the file of each save
  rows,    \* the rows of each database
  saves,   \* saves begun
  clock,   \* created_at of the newest record
  writes,  \* what each kernel's save has come to
  acked,   \* the entries whose save returned
  down,    \* the databases that are away
  faults,
  answer   \* what this step looked up

vars == <<setup, files, rows, saves, clock, writes, acked, down, faults, answer>>

Stores == {"primary", "fallback"}

Configs == [stores : SUBSET Stores, strict : BOOLEAN, first : Stores]

ASSUME StoreAssumption ==
  /\ Setups \subseteq Configs
  /\ \A s \in Setups : s.first \in s.stores
  /\ Window \in Nat /\ MaxSaves \in Nat /\ MaxFaults \in Nat

ASSUME NothingAssumption ==
  /\ None \notin [owner : Owners, healthy : BOOLEAN, name : Nat, at : Nat]
  /\ None \notin [healthy : BOOLEAN, name : Nat, at : Nat,
                  todo : SUBSET Stores, missed : SUBSET Stores]

\* ArtifactRecord and its metadata; name stands for the digest.
Entry == [owner : Owners, healthy : BOOLEAN, name : Nat, at : Nat]

\* A save under way: at is 0 until the file is written.
Write ==
  [healthy : BOOLEAN, name : Nat, at : Nat, todo : SUBSET Stores,
   missed : SUBSET Stores]

Names == 1..MaxSaves

\* Each variable holds what it should.
TypeOK ==
  /\ setup \in Setups
  /\ files \in [Names -> {"none", "torn", "whole"}]
  /\ rows \in [Stores -> SUBSET Entry]
  /\ saves \in 0..MaxSaves
  /\ clock \in Nat
  /\ writes \in [Owners -> Write \cup {None}]
  /\ acked \subseteq Entry
  /\ down \subseteq Stores
  /\ faults \in 0..MaxFaults

Init ==
  /\ setup \in Setups
  /\ files = [n \in Names |-> "none"]
  /\ rows = [s \in Stores |-> {}]
  /\ saves = 0 /\ clock = 0 /\ faults = 0
  /\ writes = [o \in Owners |-> None]
  /\ acked = {} /\ down = {}
  /\ answer = None
-----------------------------------------------------------------------------
(* Saving *)

EntryOf(o, w) == [owner |-> o, healthy |-> w.healthy, name |-> w.name, at |-> w.at]

Busy(o) == writes[o] # None

\* materialize_artifact: the file is opened under its own name.
OpenFile(o) ==
  /\ ~Busy(o) /\ saves < MaxSaves
  /\ saves' = saves + 1
  /\ files' = [files EXCEPT ![saves + 1] = "torn"]
  /\ \E healthy \in BOOLEAN :
       writes' = [writes EXCEPT ![o] = [healthy |-> healthy, name |-> saves + 1,
                                        at |-> 0, todo |-> setup.stores,
                                        missed |-> {}]]
  /\ answer' = None
  /\ UNCHANGED <<setup, rows, clock, acked, down, faults>>

\* A variant: the record is built before the bytes are written.
RegisterFirst(o) ==
  /\ Busy(o) /\ writes[o].at = 0
  /\ clock' = clock + 1
  /\ writes' = [writes EXCEPT ![o].at = clock + 1]
  /\ answer' = None
  /\ UNCHANGED <<setup, files, rows, saves, acked, down, faults>>

\* It is written, and register_artifact builds its record.
CloseFile(o) ==
  /\ Busy(o) /\ writes[o].at = 0
  /\ files' = [files EXCEPT ![writes[o].name] = "whole"]
  /\ clock' = clock + 1
  /\ writes' = [writes EXCEPT ![o].at = clock + 1]
  /\ answer' = None
  /\ UNCHANGED <<setup, rows, saves, acked, down, faults>>

NextStore(w) == IF "primary" \in w.todo THEN "primary" ELSE "fallback"

Inserting(o) == Busy(o) /\ writes[o].at > 0 /\ writes[o].todo # {}

\* A variant: one database that took the row is enough.
InsertOnce(o) ==
  /\ Inserting(o)
  /\ LET w == writes[o]
         s == NextStore(w)
     IN  /\ s \notin down
         /\ rows' = [rows EXCEPT ![s] = @ \cup {EntryOf(o, w)}]
         /\ writes' = [writes EXCEPT ![o].todo = {}]
  /\ answer' = None
  /\ UNCHANGED <<setup, files, saves, clock, acked, down, faults>>

\* _dual_write, one database after the other; each commits by itself.
Insert(o) ==
  /\ Inserting(o)
  /\ LET w == writes[o]
         s == NextStore(w)
     IN  /\ s \notin down
         /\ rows' = [rows EXCEPT ![s] = @ \cup {EntryOf(o, w)}]
         /\ writes' = [writes EXCEPT ![o].todo = @ \ {s}]
  /\ answer' = None
  /\ UNCHANGED <<setup, files, saves, clock, acked, down, faults>>

\* The database is away: the exception is kept, and the next one is tried.
InsertMisses(o) ==
  /\ Inserting(o)
  /\ LET s == NextStore(writes[o])
     IN  /\ s \in down
         /\ writes' = [writes EXCEPT ![o].todo = @ \ {s},
                                     ![o].missed = @ \cup {s}]
  /\ answer' = None
  /\ UNCHANGED <<setup, files, rows, saves, clock, acked, down, faults>>

\* The row is committed, and the connection lost before the answer.
InsertUnheard(o) ==
  /\ Inserting(o) /\ faults < MaxFaults
  /\ LET w == writes[o]
         s == NextStore(w)
     IN  /\ s \notin down
         /\ rows' = [rows EXCEPT ![s] = @ \cup {EntryOf(o, w)}]
         /\ writes' = [writes EXCEPT ![o].todo = @ \ {s},
                                     ![o].missed = @ \cup {s}]
         /\ down' = down \cup {s}
  /\ faults' = faults + 1
  /\ answer' = None
  /\ UNCHANGED <<setup, files, saves, clock, acked>>

\* A variant: an error is only reported when no database took the row.
RefusedByAll(missed) == setup.stores \subseteq missed

\* A dual write that missed these databases raises.
Refused(missed) ==
  IF setup.strict THEN missed \cap setup.stores # {} ELSE setup.stores \subseteq missed

\* save_checkpoint appends its event, a dual write as well, and returns; or
\* one of the two raises.
Finish(o) ==
  /\ Busy(o) /\ writes[o].at > 0 /\ writes[o].todo = {}
  /\ acked' = IF Refused(writes[o].missed) \/ Refused(down) THEN acked
              ELSE acked \cup {EntryOf(o, writes[o])}
  /\ writes' = [writes EXCEPT ![o] = None]
  /\ answer' = None
  /\ UNCHANGED <<setup, files, rows, saves, clock, down, faults>>

\* The process is killed.
Crash(o) ==
  /\ Busy(o) /\ faults < MaxFaults
  /\ faults' = faults + 1
  /\ writes' = [writes EXCEPT ![o] = None]
  /\ answer' = None
  /\ UNCHANGED <<setup, files, rows, saves, clock, acked, down>>

Outage(s) ==
  /\ s \in setup.stores \ down /\ faults < MaxFaults
  /\ faults' = faults + 1
  /\ down' = down \cup {s}
  /\ answer' = None
  /\ UNCHANGED <<setup, files, rows, saves, clock, writes, acked>>

Recovery(s) ==
  /\ s \in down
  /\ down' = down \ {s}
  /\ answer' = None
  /\ UNCHANGED <<setup, files, rows, saves, clock, writes, acked, faults>>
-----------------------------------------------------------------------------
(* Finding *)

\* A variant: ordered as the events of PostgreSQL are, oldest first.
ListedFromOldest(entries) ==
  {e \in entries : Cardinality({f \in entries : f.at < e.at}) < Window}

\* list_artifacts: the newest Window rows, of whatever organism.
Listed(entries) ==
  {e \in entries : Cardinality({f \in entries : f.at > e.at}) < Window}

\* _read_with_fallback: a database that is away, or has no rows, is passed over.
ReadsFrom(s) ==
  /\ s \in setup.stores \ down
  /\ \/ s = setup.first /\ (rows[s] # {} \/ setup.stores = {s})
     \/ s # setup.first /\ (setup.first \in down \/ rows[setup.first] = {})

\* load_latest_payload by organism: the newest row that fits, if its file is
\* readable.
Fitting(entries, o, healthyOnly) ==
  {e \in Listed(entries) : /\ e.owner = o
                           /\ healthyOnly => e.healthy
                           /\ files[e.name] = "whole"}

NewestOf(entries) ==
  IF entries = {} THEN None
  ELSE CHOOSE e \in entries : \A f \in entries : f.at <= e.at

LoadLatest(o) ==
  /\ \E s \in Stores, healthyOnly \in BOOLEAN :
       /\ ReadsFrom(s)
       /\ answer' = [owner |-> o, healthyOnly |-> healthyOnly,
                     found |-> NewestOf(Fitting(rows[s], o, healthyOnly))]
  /\ UNCHANGED <<setup, files, rows, saves, clock, writes, acked, down, faults>>

Save(o) ==
  \/ OpenFile(o) \/ CloseFile(o) \/ Finish(o)
  \/ Insert(o) \/ InsertMisses(o) \/ InsertUnheard(o)

Next ==
  \/ \E o \in Owners : Save(o) \/ Crash(o) \/ LoadLatest(o)
  \/ \E s \in Stores : Outage(s) \/ Recovery(s)

Spec == Init /\ [][Next]_vars
-----------------------------------------------------------------------------
(* Properties *)

\* No row is ever seen, in either database, whose file is not all there, in
\* whatever order kernels save, and wherever one is killed
\* (materialize_artifact writes the file, then the row).
NoGhostRow ==
  \A s \in Stores : \A e \in rows[s] : files[e.name] = "whole"

\* A save that returned has left its row in every database under
\* strict_dual_write, and in one at least otherwise.
AckedIsKept ==
  \A e \in acked :
    IF setup.strict THEN \A s \in setup.stores : e \in rows[s]
                    ELSE \E s \in setup.stores : e \in rows[s]

\* The databases of a hybrid drift apart only by a fault: without one they
\* hold the same once no save is under way.
TwinsAgree ==
  faults = 0 /\ (\A o \in Owners : ~Busy(o)) =>
    \A s, t \in setup.stores : rows[s] = rows[t]

\* The log the kernel counts on.  A save that returned is promised if every
\* database took its row: always in a single database and under
\* strict_dual_write; otherwise a look-up may read a database that missed it.
Saved == UNION {rows[s] : s \in Stores}

Kept == {e \in acked : \A s \in setup.stores : e \in rows[s]}

Promised == {e \in Kept : Cardinality({f \in Saved : f.at > e.at}) < Window}

Log == INSTANCE CheckpointLog WITH
         saved <- Saved, promised <- Promised, answer <- answer

\* The storage keeps the promises of CheckpointLog, whatever its setup,
\* whichever kernels interleave and whatever fails.
KeepsPromises == Log!LogSpec
=============================================================================
