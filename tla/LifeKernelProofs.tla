--------------------------- MODULE LifeKernelProofs ---------------------------
(***************************************************************************)
(* What the life kernel guarantees for every genome, every outcome of an   *)
(* episode, every stranger on the store, any damage to the checkpoints and *)
(* any number of processes: proofs for module LifeKernel.  First what      *)
(* building, saving and reading back a snapshot of the vital signs does,   *)
(* for every organism, certificate and payload.                            *)
(***************************************************************************)
EXTENDS LifeKernel, Extremes, SequenceTheorems, TLAPS

-----------------------------------------------------------------------------
(* Building a snapshot *)

\* Vital signs put the organism in one of the modes.
LEMMA ModeType ==
  ASSUME NEW v PROVE ModeForVitals(v) \in Modes
  BY DEF ModeForVitals, Modes

\* The weighted sum of three scores is a score.
LEMMA QualityType ==
  ASSUME NEW x \in Percent, NEW y \in Percent, NEW z \in Terms
  PROVE  Quality(x, y, z) \in Percent
<1> DEFINE n == 45 * x + 25 * y + z
<1>1. x \in 0..100 /\ y \in 0..100 /\ z \in 0..3000
  BY DEF Percent, Terms
<1>2. n \in Int /\ 0 <= n /\ n <= 10000
  BY <1>1
<1> HIDE DEF n
<1>3. n \div 100 \in 0..100
  BY <1>2, SMTT(30)
<1>4. QED
  BY <1>3 DEF n, Percent, Quality

\* The mean of two scores is a score.
LEMMA MeanType ==
  ASSUME NEW x \in Percent, NEW y \in Percent
  PROVE  (x + y) \div 2 \in Percent
<1> DEFINE n == x + y
<1>1. x \in 0..100 /\ y \in 0..100
  BY DEF Percent
<1>2. n \in Int /\ 0 <= n /\ n <= 200
  BY <1>1
<1> HIDE DEF n
<1>3. n \div 2 \in 0..100
  BY <1>2, SMTT(30)
<1>4. QED
  BY <1>3 DEF n, Percent

\* from_state yields well-formed vital signs: the weighted quality and the larger
\* of two pressures stay within a score's range.
LEMMA FromStateType ==
  ASSUME NEW o \in Organism, NEW c \in Certificate \cup {None},
         NEW ep \in Episode \cup {None}, NEW s \in Percent
  PROVE  FromState(o, c, ep, s) \in Vitals
<1> DEFINE r == IF c = None THEN NoReading ELSE c
           term == IF ep = None THEN 1500 ELSE ep.term
<1>1. r \in Certificate
  BY DEF NoReading, Certificate, Percent
<1>2. term \in Terms
  BY DEF Episode, Terms
<1>3. Quality(r.ioc, r.continuity, term) \in Percent
  <2>1. r.ioc \in Percent /\ r.continuity \in Percent
    BY <1>1 DEF Certificate
  <2> HIDE DEF r, term
  <2>2. QED
    BY <1>2, <2>1, QualityType
<1>4. (r.continuity + o.consistency) \div 2 \in Percent
  <2>1. r.continuity \in Percent /\ o.consistency \in Percent
    BY <1>1 DEF Certificate, Organism
  <2> HIDE DEF r
  <2>2. QED
    BY <2>1, MeanType
<1>5. Larger(r.pressure, s) \in Percent
  <2> HIDE DEF r
  <2>1. QED
    BY <1>1 DEF Larger, Certificate, Percent
<1>6. (IF ep = None THEN o.viability ELSE ep.viability) \in Percent
  BY DEF Organism, Episode
<1> DEFINE draft ==
      [episodes |-> o.episodes, mode |-> "normal",
       viability |-> IF ep = None THEN o.viability ELSE ep.viability,
       continuity |-> r.continuity, risk |-> r.risk, purity |-> r.purity,
       quality |-> Quality(r.ioc, r.continuity, term),
       pressure |-> Larger(r.pressure, s), debt |-> o.debt, drift |-> o.drift,
       identity |-> (r.continuity + o.consistency) \div 2,
       reversible |-> /\ ep = None \/ ~ep.rollbackRequired
                      /\ r.rollbackReady,
       certified |-> r.certified, hadMemory |-> r.hadMemory,
       unverified |-> (IF c = None THEN {"continuity"} ELSE {})
                      \cup (IF r.measured THEN {} ELSE {"purity"}),
       notApplicable |-> IF r.measured /\ ~r.hadMemory THEN {"purity"} ELSE {}]
<1>7. FromState(o, c, ep, s) = [draft EXCEPT !.mode = ModeForVitals(draft)]
  BY <1>1, <1>2 DEF FromState
<1>8. draft \in Vitals
  <2>1. /\ r.continuity \in Percent /\ r.risk \in Percent /\ r.purity \in Percent
        /\ r.certified \in BOOLEAN /\ r.hadMemory \in BOOLEAN
    BY <1>1 DEF Certificate
  <2>2. /\ o.episodes \in Nat /\ o.debt \in Percent /\ o.drift \in Percent
    BY DEF Organism
  <2>3. draft.reversible \in BOOLEAN
    OBVIOUS
  <2>4. draft.unverified \in SUBSET GatedAxes /\ draft.notApplicable \in SUBSET GatedAxes
    BY DEF GatedAxes
  <2>5. QED
    BY <1>3, <1>4, <1>5, <1>6, <2>1, <2>2, <2>3, <2>4 DEF Vitals, Modes
<1>9. QED
  <2> HIDE DEF draft
  <2>1. QED
    BY <1>7, <1>8, ModeType DEF Vitals

\* Where memory was used, its purity is never declared out of the gates' scope:
\* both builders of a snapshot see to it (B74, from_state and from_dict).
Consistent(v) == v.hadMemory => "purity" \notin v.notApplicable

\* What is built from a state and a certificate never excuses a purity that was
\* measured.
LEMMA FromStateConsistent ==
  ASSUME NEW o, NEW c \in Certificate \cup {None}, NEW ep, NEW s
  PROVE  Consistent(FromState(o, c, ep, s))
  BY DEF FromState, Consistent, NoReading

-----------------------------------------------------------------------------
(* Saving and reading back *)

\* A payload has every key.
LEMMA ToDictType ==
  ASSUME NEW v \in Vitals
  PROVE  IsPayload(ToDict(v)) /\ DOMAIN ToDict(v) = Keys
<1>1. \A k \in Keys : v[k] \in KeyRange[k]
  BY DEF Keys, KeyRange, Vitals
<1>2. QED
  BY <1>1 DEF ToDict, IsPayload

\* Whatever keys a payload has lost, what is read is a snapshot that excuses nothing
\* measured.
LEMMA FromDictType ==
  ASSUME NEW p, IsPayload(p)
  PROVE  FromDict(p) \in Vitals /\ Consistent(FromDict(p))
<1>1. \A k \in DOMAIN p : p[k] \in KeyRange[k]
  BY DEF IsPayload
<1>2. FromDict(p) \in Vitals
  <2> DEFINE Get(key, default) == IF key \in DOMAIN p THEN p[key] ELSE default
  <2>1. /\ Get("episodes", 0) \in Nat /\ Get("mode", "normal") \in Modes
        /\ Get("viability", 100) \in Percent /\ Get("continuity", 100) \in Percent
    BY <1>1 DEF KeyRange, Percent, Modes
  <2>2. /\ Get("risk", 0) \in Percent /\ Get("purity", 100) \in Percent
        /\ Get("quality", 50) \in Percent /\ Get("pressure", 0) \in Percent
        /\ Get("debt", 0) \in Percent /\ Get("drift", 0) \in Percent
        /\ Get("identity", 100) \in Percent
    BY <1>1 DEF KeyRange, Percent
  <2>3. /\ Get("reversible", TRUE) \in BOOLEAN /\ Get("certified", FALSE) \in BOOLEAN
        /\ Get("hadMemory", FALSE) \in BOOLEAN
    BY <1>1 DEF KeyRange
  <2>4. /\ MissingAxes(p) \cup Get("unverified", {}) \in SUBSET GatedAxes
        /\ Get("notApplicable", {}) \ (IF Get("hadMemory", FALSE) THEN {"purity"} ELSE {})
             \in SUBSET GatedAxes
    BY <1>1 DEF KeyRange, MissingAxes
  <2>5. QED
    BY <2>1, <2>2, <2>3, <2>4 DEF FromDict, Vitals
<1>3. Consistent(FromDict(p))
  BY DEF FromDict, Consistent
<1>4. QED
  BY <1>2, <1>3

\* A payload that lost an axis the refuge needs does not pass the gate, whatever
\* the axes it still has say (from_dict, is_restorable; B73).
LEMMA LostAxisNeverRestorable ==
  ASSUME NEW p, ~(RestoreRequiredAxes \subseteq DOMAIN p)
  PROVE  ~IsRestorable(FromDict(p))
<1>1. PICK a \in RestoreRequiredAxes : a \notin DOMAIN p
  OBVIOUS
<1>2. a \in FromDict(p).unverified
  BY <1>1 DEF FromDict, MissingAxes, RestoreRequiredAxes, GatedAxes
<1>3. QED
  BY <1>1, <1>2 DEF IsRestorable

\* What is saved whole passes the gate when it is read back exactly if it passed
\* it when it was saved (to_dict, from_dict, is_restorable).
LEMMA RoundTrip ==
  ASSUME NEW v \in Vitals, Consistent(v)
  PROVE  IsRestorable(FromDict(ToDict(v))) = IsRestorable(v)
<1> DEFINE w == FromDict(ToDict(v))
<1>1. GatedAxes \subseteq Keys
  BY DEF GatedAxes, Keys
<1>2. MissingAxes(ToDict(v)) = {}
  BY <1>1 DEF MissingAxes, ToDict
<1>3. /\ w.viability = v.viability /\ w.continuity = v.continuity
      /\ w.risk = v.risk /\ w.purity = v.purity /\ w.reversible = v.reversible
      /\ w.unverified = v.unverified
  BY <1>2 DEF FromDict, ToDict, Keys, Vitals
<1>4. w.notApplicable = v.notApplicable
  BY DEF FromDict, ToDict, Keys, Vitals, Consistent
<1> HIDE DEF w
<1>5. NotApplicable(w, RestoreRequiredAxes) = NotApplicable(v, RestoreRequiredAxes)
  BY <1>3, <1>4 DEF NotApplicable
<1>6. \A a : RestoreAxisOk(w, a) = RestoreAxisOk(v, a)
  BY <1>3 DEF RestoreAxisOk
<1>7. IsRestorable(w) = IsRestorable(v)
  BY <1>3, <1>5, <1>6 DEF IsRestorable
<1>8. QED
  BY <1>7 DEF w

\* The report a refuge is judged with and the gate agree: it gives no reason against
\* a snapshot exactly when the snapshot is restorable (restorability_report).
THEOREM ReportAgrees ==
  ASSUME NEW v PROVE RestorabilityReason(v) = "ok" <=> IsRestorable(v)
<1>1. CASE RestoreRequiredAxes \cap v.unverified # {}
  BY <1>1 DEF RestorabilityReason, IsRestorable
<1>2. CASE RestoreRequiredAxes \cap v.unverified = {}
  <2>1. ChecksApplied(v) = RestoreRequiredAxes \ NotApplicable(v, RestoreRequiredAxes)
    BY <1>2 DEF ChecksApplied
  <2>2. QED
    BY <1>2, <2>1 DEF RestorabilityReason, IsRestorable
<1>3. QED
  BY <1>1, <1>2

-----------------------------------------------------------------------------
(* The checkpoint store as a sequence *)

IsSequence(s) == s \in Seq({s[i] : i \in DOMAIN s})

\* A sequence is one of its own elements.
LEMMA SequenceOfItsElements ==
  ASSUME NEW T, NEW s \in Seq(T) PROVE IsSequence(s)
  BY DEF IsSequence

\* Removing an element of a sequence leaves its other elements.
LEMMA RemoveAtElements ==
  ASSUME NEW S, NEW s \in Seq(S), NEW k \in 1..Len(s)
  PROVE  RemoveAt(s, k) \in Seq(S)
  BY DEF RemoveAt

\* Saving a checkpoint adds it to the store and changes no other one.
LEMMA SavedElements ==
  ASSUME IsSequence(store), NEW e
  PROVE  /\ IsSequence(Saved(e))
         /\ \A i \in DOMAIN Saved(e) :
              Saved(e)[i] = e \/ \E j \in DOMAIN store : Saved(e)[i] = store[j]
<1> DEFINE S == {store[i] : i \in DOMAIN store}
           T == S \cup {e}
<1>1. store \in Seq(T)
  BY DEF IsSequence
<1>2. Saved(e) \in Seq(T)
  <2>1. CASE \E i \in DOMAIN store : store[i] = e
    <3>1. PICK k \in DOMAIN store : k = CHOOSE i \in DOMAIN store : store[i] = e
      BY <2>1
    <3>2. RemoveAt(store, k) \in Seq(T)
      BY <1>1, RemoveAtElements
    <3>3. QED
      BY <2>1, <3>1, <3>2 DEF Saved
  <2>2. CASE ~\E i \in DOMAIN store : store[i] = e
    BY <1>1, <2>2 DEF Saved
  <2>3. QED
    BY <2>1, <2>2
<1>3. \A i \in DOMAIN Saved(e) : Saved(e)[i] \in T
  BY <1>2
<1>4. IsSequence(Saved(e))
  BY <1>2, SequenceOfItsElements
<1>5. QED
  BY <1>3, <1>4
\* So does damaging one, but for the one that is damaged.
LEMMA ReplacedElements ==
  ASSUME IsSequence(store), NEW k \in DOMAIN store, NEW e,
         NEW s, s = [store EXCEPT ![k] = e]
  PROVE  /\ IsSequence(s)
         /\ \A i \in DOMAIN s : s[i] = e \/ \E j \in DOMAIN store : s[i] = store[j]
<1> DEFINE T == {store[i] : i \in DOMAIN store} \cup {e}
<1>1. store \in Seq(T)
  BY DEF IsSequence
<1>2. s \in Seq(T)
  BY <1>1
<1>3. \A i \in DOMAIN s : s[i] \in T
  BY <1>2
<1>4. IsSequence(s)
  BY <1>2, SequenceOfItsElements
<1>5. QED
  BY <1>3, <1>4

-----------------------------------------------------------------------------
(* The decision of one cycle *)

\* The supervisor decides one of the permitted actions.
LEMMA DecideType ==
  ASSUME NEW v PROVE Decide(v) \in PermittedActions
  BY DEF Decide, PermittedActions

\* The gate replaces an action by a permitted one.
LEMMA GateType ==
  ASSUME NEW a \in PermittedActions, NEW verdict
  PROVE  Gate(a, verdict) \in PermittedActions
  BY DEF Gate, PermittedActions

\* An evaluation ends in a decision.
LEMMA EvaluateType ==
  ASSUME NEW c PROVE Evaluate(c) \in Decisions
<1>1. \A d, f, a : FinalDecision(d, f, a) \in Decisions
  BY DEF FinalDecision, Decisions
<1>2. QED
  BY <1>1 DEF Evaluate, Decisions

\* The certificates of the current run are those of one of the processes started.
LEMMA RunType ==
  ASSUME TypeOK, pc # "down"
  PROVE  Run \in 1..MaxWakes
  BY ConstantsAssumption DEF TypeOK, Run, RunOf

\* The vital signs a step starts from are well-formed.
LEMMA ReadingsType ==
  ASSUME TypeOK, vit # None => Consistent(vit), pc # "down", NEW r \in Readings
  PROVE  r.sensed \in Percent /\ r.vitals \in Vitals /\ Consistent(r.vitals)
<1>1. PICK s \in IF Sensing THEN Pressures ELSE {0} :
        r = [sensed |-> s, vitals |-> PreVitals(s)]
  BY DEF Readings
<1>2. s \in Percent
  <2>1. Pressures \subseteq Percent
    BY ConstantsAssumption
  <2>2. QED
    BY <2>1 DEF Percent
<1>3. certs[Run] \in Certificate \cup {None} /\ org \in Organism
  BY RunType DEF TypeOK
<1>4. /\ FromState(org, certs[Run], None, s) \in Vitals
      /\ Consistent(FromState(org, certs[Run], None, s))
  BY <1>2, <1>3, FromStateType, FromStateConsistent
<1>5. PreVitals(s) \in Vitals /\ Consistent(PreVitals(s))
  BY <1>4 DEF PreVitals, TypeOK
<1>6. QED
  BY <1>1, <1>2, <1>5

\* What a cycle takes into its step.
LEMMA CyclesType ==
  ASSUME TypeOK, vit # None => Consistent(vit), pc # "down", NEW c \in Cycles
  PROVE  c \in CycleType /\ c # None /\ Consistent(c.vitals)
<1>1. PICK r \in Readings, v \in Decisions :
        c = [sensed |-> r.sensed, vitals |-> r.vitals, decided |-> Decide(r.vitals),
             verdict |-> v, action |-> Gate(Decide(r.vitals), v)]
  <2>1. PICK p \in Proposals :
          c = [sensed |-> p.reading.sensed, vitals |-> p.reading.vitals,
               decided |-> p.context.action, verdict |-> Evaluate(p.context),
               action |-> Gate(p.context.action, Evaluate(p.context))]
    BY DEF Cycles
  <2>2. PICK r \in Readings :
          p = [reading |-> r, context |-> LifeContext(r.vitals, Decide(r.vitals))]
    BY DEF Proposals
  <2>3. p.reading = r /\ p.context.action = Decide(r.vitals)
    BY <2>2 DEF LifeContext
  <2>4. Evaluate(p.context) \in Decisions
    BY EvaluateType
  <2>5. QED
    BY <2>1, <2>3, <2>4
<1>2. r.sensed \in Percent /\ r.vitals \in Vitals /\ Consistent(r.vitals)
  BY ReadingsType
<1>3. Decide(r.vitals) \in PermittedActions /\ Gate(Decide(r.vitals), v) \in PermittedActions
  BY DecideType, GateType
<1>4. c \in CycleType
  BY <1>1, <1>2, <1>3 DEF CycleType
<1>5. QED
  BY <1>1, <1>2, <1>4, NoCycleAssumption

-----------------------------------------------------------------------------
(* Types *)

\* A checkpoint of well-formed vital signs and of this organism is well-formed.
LEMMA CheckpointType ==
  ASSUME TypeOK, NEW v \in Vitals, NEW o \in Organism, NEW n \in Nat,
         NEW c \in Cursor
  PROVE  IsCheckpoint(Checkpoint(v, o, n, c))
<1>1. Run \in Nat
  BY ConstantsAssumption DEF TypeOK, Run, RunOf
<1>2. IsRestorable(v) \in BOOLEAN
  BY DEF IsRestorable
<1>3. QED
  BY <1>1, <1>2, ToDictType DEF IsCheckpoint, Checkpoint, Files

StoreType(s) == IsSequence(s) /\ \A i \in DOMAIN s : IsCheckpoint(s[i])

\* The store with one more checkpoint.
LEMMA SavedType ==
  ASSUME TypeOK, NEW e, IsCheckpoint(e)
  PROVE  StoreType(Saved(e))
<1>1. IsSequence(store)
  BY DEF TypeOK, IsSequence
<1>2. QED
  BY <1>1, SavedElements DEF TypeOK, StoreType

\* What a search of the store finds is in the store.
LEMMA FoundType ==
  ASSUME TypeOK, NEW positions \in SUBSET DOMAIN store, NEW e \in NewestOf(positions)
  PROVE  IsCheckpoint(e) /\ \E i \in DOMAIN store : e = store[i]
  BY DEF NewestOf, TypeOK

\* What a wake adopts, and what a rollback adopts, is a checkpoint of the store.
LEMMA IdentityType ==
  ASSUME TypeOK, NEW r, NEW e \in Identity(r)
  PROVE  IsCheckpoint(e) /\ \E i \in DOMAIN store : e = store[i]
<1> DEFINE Ours(x) == Readable(x) /\ IsIdentity(x, r)
<1>1. e \in NewestOf(Where(Ours))
  BY DEF Identity
<1>2. Where(Ours) \in SUBSET DOMAIN store
  BY DEF Where
<1>3. QED
  BY <1>1, <1>2, FoundType

\* A refuge is a checkpoint of the store.
LEMMA RefugeType ==
  ASSUME TypeOK, NEW e \in Refuge
  PROVE  IsCheckpoint(e) /\ IsRefuge(e) /\ \E i \in DOMAIN store : e = store[i]
<1>1. e \in NewestOf(Where(IsRefuge))
  BY DEF Refuge
<1>2. Where(IsRefuge) \in SUBSET DOMAIN store
  BY DEF Where
<1>3. IsRefuge(e)
  BY <1>1 DEF NewestOf, Where
<1>4. QED
  BY <1>1, <1>2, <1>3, FoundType

\* The variables keep their types, and what is known of a living organism is
\* consistent: the vital signs never excuse a purity that was measured.
IInv == TypeOK /\ (vit # None => Consistent(vit))

\* What an organism adopts, and what it bootstraps from it, is well-formed.
LEMMA AdoptType ==
  ASSUME TypeOK, NEW e, IsCheckpoint(e), Adopt(e)
  PROVE  /\ org' \in Organism /\ steps' \in Nat /\ cursor' \in Cursor
         /\ e.organism \in Organism /\ e.steps \in Nat /\ e.cursor \in Cursor
  BY DEF IsCheckpoint, Adopt

\* The vital signs of an organism without a payload.
LEMMA BootstrapType ==
  ASSUME NEW o \in Organism, NEW c \in Certificate \cup {None}
  PROVE  Bootstrap(o, c, 0) \in Vitals /\ Consistent(Bootstrap(o, c, 0))
<1>1. 0 \in Percent
  BY DEF Percent
<1>2. QED
  BY <1>1, FromStateType, FromStateConsistent DEF Bootstrap

\* Taking refuge and staying as one is both leave a well-formed organism and store.
LEMMA TakeRefugeType ==
  ASSUME TypeOK, pc # "down", TakeRefuge
  PROVE  /\ org' \in Organism /\ steps' \in Nat /\ cursor' \in Cursor
         /\ StoreType(store')
<1>1. PICK e \in Refuge :
        /\ Adopt(e)
        /\ store' = Saved(Checkpoint(Bootstrap(e.organism, certs[Run], 0),
                                     e.organism, e.steps, e.cursor))
  BY DEF TakeRefuge
<1>2. IsCheckpoint(e)
  BY RefugeType
<1>3. /\ org' \in Organism /\ steps' \in Nat /\ cursor' \in Cursor
      /\ e.organism \in Organism /\ e.steps \in Nat /\ e.cursor \in Cursor
  BY <1>1, <1>2, AdoptType
<1>4. certs[Run] \in Certificate \cup {None}
  BY RunType DEF TypeOK
<1>5. Bootstrap(e.organism, certs[Run], 0) \in Vitals
  BY <1>3, <1>4, BootstrapType
<1>6. IsCheckpoint(Checkpoint(Bootstrap(e.organism, certs[Run], 0),
                              e.organism, e.steps, e.cursor))
  BY <1>3, <1>5, CheckpointType
<1>7. QED
  BY <1>1, <1>3, <1>6, SavedType

\* Saving itself leaves the organism as it is.
LEMMA StayAsIsType ==
  ASSUME IInv, pc # "down", NEW c \in Cycles, StayAsIs(c.vitals)
  PROVE  /\ org' \in Organism /\ steps' \in Nat /\ cursor' \in Cursor
         /\ StoreType(store')
<1>1. c.vitals \in Vitals
  BY CyclesType DEF IInv, CycleType
<1>2. org \in Organism /\ steps \in Nat /\ cursor \in Cursor
  BY DEF IInv, TypeOK
<1>3. IsCheckpoint(Checkpoint(c.vitals, org, steps, cursor))
  BY <1>1, <1>2, CheckpointType DEF IInv
<1>4. QED
  BY <1>2, <1>3, SavedType DEF StayAsIs, IInv

\* The kernel begins well.
LEMMA InitType == Init => IInv
<1> SUFFICES ASSUME Init PROVE IInv
  OBVIOUS
<1>1. store \in Seq({store[i] : i \in DOMAIN store})
      /\ \A i \in DOMAIN store : IsCheckpoint(store[i])
  BY DEF Init
<1>2. wakes \in 0..MaxWakes /\ org \in Organism
  BY ConstantsAssumption DEF Init
<1>3. certs \in [1..MaxWakes -> Certificate \cup {None}]
  BY DEF Init
<1>4. cursor \in Cursor /\ steps \in Nat /\ stuck \in 0..QuarantinePatience
  BY DEF Init, Cursor, QuarantinePatience
<1>5. QED
  BY <1>1, <1>2, <1>3, <1>4 DEF Init, IInv, TypeOK, Events

\* A process wakes well, by genesis or from any checkpoint.
LEMMA WakeType ==
  ASSUME IInv, Wake PROVE IInv'
<1> DEFINE r == RunOf(wakes + 1)
<1> USE DEF IInv, TypeOK
<1>1. wakes' \in 0..MaxWakes /\ wakes' > 0
  BY ConstantsAssumption DEF Wake
<1>2. certs[r] \in Certificate \cup {None}
  <2>1. r \in 1..MaxWakes
    BY <1>1, ConstantsAssumption DEF Wake, RunOf
  <2>2. QED
    BY <2>1
<1>3. /\ org' \in Organism /\ steps' \in Nat /\ cursor' \in Cursor
      /\ vit' \in Vitals \cup {None}
      /\ vit' # None => Consistent(vit')
      /\ event' \in Events
  <2>1. CASE Genesis(r)
    <3>1. Newborn \in Organism
      BY ConstantsAssumption
    <3>2. Bootstrap(Newborn, certs[r], 0) \in Vitals
          /\ Consistent(Bootstrap(Newborn, certs[r], 0))
      BY <1>2, <3>1, BootstrapType
    <3>3. QED
      BY <2>1, <3>1, <3>2 DEF Genesis, Cursor, Events
  <2>2. CASE Restore(r)
    <3>1. PICK e \in Identity(r) :
            /\ Adopt(e) /\ event' = "restored"
            /\ vit' = IF e.file = "novitals" THEN None ELSE FromDict(e.payload)
      BY <2>2 DEF Restore
    <3>2. IsCheckpoint(e)
      BY IdentityType
    <3>3. FromDict(e.payload) \in Vitals /\ Consistent(FromDict(e.payload))
      BY <3>2, FromDictType DEF IsCheckpoint
    <3>4. org' \in Organism /\ steps' \in Nat /\ cursor' \in Cursor
      BY <3>1, <3>2, AdoptType
    <3>5. QED
      BY <3>1, <3>3, <3>4 DEF Events
  <2>3. QED
    BY <2>1, <2>2 DEF Wake
<1>4. pc' \in {"woken", "idle"} /\ pc = "down"
  BY DEF Wake
<1>5. UNCHANGED <<stuck, cycle, pending, store, certs>>
  BY DEF Wake
<1>6. QED
  BY <1>1, <1>3, <1>4, <1>5

\* So does one that is revived.
LEMMA ReviveType ==
  ASSUME IInv, ReviveOnWake PROVE IInv'
<1> USE DEF IInv, TypeOK
<1>1. /\ org' \in Organism /\ steps' \in Nat /\ cursor' \in Cursor
      /\ vit' \in Vitals \cup {None}
      /\ vit' # None => Consistent(vit')
      /\ event' \in Events
  <2>1. CASE UNCHANGED <<org, steps, cursor, vit, event>>
    BY <2>1
  <2>2. CASE \E e \in Refuge : /\ Adopt(e)
                             /\ vit' = Bootstrap(e.organism, certs[Run], 0)
                             /\ event' = "revived"
    <3>1. PICK e \in Refuge : /\ Adopt(e) /\ event' = "revived"
                             /\ vit' = Bootstrap(e.organism, certs[Run], 0)
      BY <2>2
    <3>2. IsCheckpoint(e)
      BY RefugeType
    <3>3. /\ org' \in Organism /\ steps' \in Nat /\ cursor' \in Cursor
          /\ e.organism \in Organism
      BY <3>1, <3>2, AdoptType
    <3>4. certs[Run] \in Certificate \cup {None}
      BY RunType DEF ReviveOnWake
    <3>5. vit' \in Vitals /\ Consistent(vit')
      BY <3>1, <3>3, <3>4, BootstrapType
    <3>6. QED
      BY <3>1, <3>3, <3>5 DEF Events
  <2>3. QED
    BY <2>1, <2>2 DEF ReviveOnWake
<1>2. UNCHANGED <<wakes, stuck, cycle, pending, store, certs>>
  BY DEF ReviveOnWake
<1>3. pc = "woken" /\ pc' = "idle"
  BY DEF ReviveOnWake
<1>4. QED
  BY <1>1, <1>2, <1>3

\* An episode may bring any of its outcomes.
LEMMA RunEpisodeType ==
  ASSUME IInv, RunEpisode PROVE IInv'
<1> USE DEF IInv, TypeOK
<1>1. PICK c \in Cycles, o \in Outcomes :
        /\ cycle' = c /\ pending' = o
        /\ certs' = [certs EXCEPT ![Run] = o.certificate]
        /\ store' = IF c.action = "self_modify"
                     THEN Saved(Checkpoint(c.vitals, org, steps, cursor)) ELSE store
  BY DEF RunEpisode
<1>2. c \in CycleType /\ c # None /\ c.vitals \in Vitals
  BY CyclesType DEF RunEpisode, CycleType
<1>3. o \in Outcome /\ o # None /\ o.certificate \in Certificate
  BY ConstantsAssumption, NoneAssumption DEF Outcome
<1>4. StoreType(store')
  <2>1. IsCheckpoint(Checkpoint(c.vitals, org, steps, cursor))
    BY <1>2, CheckpointType
  <2>2. StoreType(Saved(Checkpoint(c.vitals, org, steps, cursor))) /\ StoreType(store)
    BY <2>1, SavedType DEF StoreType, IsSequence
  <2>3. QED
    BY <1>1, <2>2
<1>5. certs' \in [1..MaxWakes -> Certificate \cup {None}]
  BY <1>1, <1>3
<1>6. stuck' \in 0..QuarantinePatience
  BY DEF RunEpisode, QuarantinePatience
<1>7. QED
  BY <1>1, <1>2, <1>3, <1>4, <1>5, <1>6 DEF RunEpisode, StoreType, IsSequence

\* A step that takes its outcome in.
LEMMA CompleteStepType ==
  ASSUME IInv, CompleteStep PROVE IInv'
<1> USE DEF IInv, TypeOK
<1>1. pending \in Outcome /\ cycle \in CycleType
  BY ConstantsAssumption DEF CompleteStep
<1>2. org' \in Organism /\ steps' \in Nat /\ cursor' \in Cursor
  <2>1. org' \in Organism
    BY <1>1 DEF CompleteStep, Outcome
  <2>2. steps' \in Nat
    BY DEF CompleteStep
  <2>3. NextCursor \in Cursor
    BY DEF NextCursor, Cursor
  <2>4. QED
    BY <2>1, <2>2, <2>3 DEF CompleteStep
<1>3. /\ vit' \in Vitals
      /\ Consistent(vit')
  <2>1. /\ pending.organism \in Organism /\ pending.certificate \in Certificate
        /\ pending.episode \in Episode /\ cycle.sensed \in Percent
    BY <1>1 DEF Outcome, CycleType
  <2>2. QED
    BY <2>1, FromStateType, FromStateConsistent DEF CompleteStep
<1>4. StoreType(store')
  <2>1. IsCheckpoint(Checkpoint(vit', org', steps', cursor'))
    BY <1>2, <1>3, CheckpointType
  <2>2. StoreType(Saved(Checkpoint(vit', org', steps', cursor'))) /\ StoreType(store)
    BY <2>1, SavedType DEF StoreType, IsSequence
  <2>3. QED
    BY <2>2 DEF CompleteStep
<1>5. UNCHANGED <<wakes, stuck, certs>>
  BY DEF CompleteStep
<1>6. /\ pc = "episode" /\ pc' = "idle" /\ cycle' = None /\ pending' = None
      /\ event' \in Events
  BY DEF CompleteStep, Events
<1>7. QED
  BY <1>2, <1>3, <1>4, <1>5, <1>6 DEF StoreType, IsSequence

\* Rolling back, being quarantined and sleeping.
LEMMA NonActingType ==
  ASSUME IInv, RollBack \/ Quarantine \/ Sleep PROVE IInv'
<1>1. PICK c \in Cycles : TakeRefuge \/ StayAsIs(c.vitals)
  BY DEF RollBack, Quarantine, Sleep
<1>2. pc = "idle" /\ UNCHANGED <<pc, wakes, vit, cycle, pending, certs>>
  BY DEF RollBack, Quarantine, Sleep
<1>3. /\ org' \in Organism /\ steps' \in Nat /\ cursor' \in Cursor
      /\ StoreType(store')
  BY <1>1, <1>2, TakeRefugeType, StayAsIsType DEF IInv
<1>4. stuck' \in 0..QuarantinePatience
  <2>1. CASE Quarantine
    <3>1. \/ stuck' \in {0, stuck}
          \/ stuck < QuarantinePatience /\ stuck' = stuck + 1
      BY <2>1 DEF Quarantine
    <3>2. QED
      BY <3>1 DEF IInv, TypeOK, QuarantinePatience
  <2>2. CASE RollBack \/ Sleep
    BY <2>2 DEF RollBack, Sleep, IInv, TypeOK
  <2>3. QED
    BY <2>1, <2>2
<1>5. event' \in Events
  BY DEF RollBack, Quarantine, Sleep, Events
<1>6. QED
  BY <1>2, <1>3, <1>4, <1>5 DEF IInv, TypeOK, StoreType, IsSequence

\* A kill forgets what is in memory.
LEMMA CrashType ==
  ASSUME IInv, Crash PROVE IInv'
<1>1. org' \in Organism
  BY ConstantsAssumption DEF Crash
<1>2. stuck' \in 0..QuarantinePatience /\ cursor' \in Cursor /\ steps' \in Nat
  BY DEF Crash, QuarantinePatience, Cursor
<1>3. UNCHANGED <<wakes, store, certs, event>>
  BY DEF Crash
<1>4. pc' = "down" /\ vit' = None /\ cycle' = None /\ pending' = None
  BY DEF Crash
<1>5. QED
  BY <1>1, <1>2, <1>3, <1>4 DEF IInv, TypeOK

\* Damage leaves every index entry, and a file or a payload of some kind.
LEMMA DamageType ==
  ASSUME IInv, Damage PROVE IInv'
<1>1. store \in Seq({store[i] : i \in DOMAIN store})
      /\ \A i \in DOMAIN store : IsCheckpoint(store[i])
  BY DEF IInv, TypeOK
<1>2. StoreType(store')
  <2>1. CASE \E i \in DOMAIN store, f \in Damages : store' = [store EXCEPT ![i].file = f]
    <3>1. PICK i \in DOMAIN store, f \in Damages : store' = [store EXCEPT ![i].file = f]
      BY <2>1
    <3>2. IsCheckpoint([store[i] EXCEPT !.file = f])
      BY <1>1, ConstantsAssumption DEF IsCheckpoint
    <3>3. store' = [store EXCEPT ![i] = [store[i] EXCEPT !.file = f]]
      BY <3>1
    <3>4. QED
      <4>1. IsSequence(store)
        BY <1>1 DEF IsSequence
      <4>2. QED
        BY <1>1, <3>2, <3>3, <4>1, ReplacedElements DEF StoreType
  <2>2. CASE \E i \in DOMAIN store, lost \in LostKeys :
               store' = [store EXCEPT ![i].payload = Without(@, lost)]
    <3>1. PICK i \in DOMAIN store, lost \in LostKeys :
            store' = [store EXCEPT ![i].payload = Without(@, lost)]
      BY <2>2
    <3>2. IsPayload(Without(store[i].payload, lost))
      BY <1>1 DEF IsCheckpoint, IsPayload, Without
    <3>3. IsCheckpoint([store[i] EXCEPT !.payload = Without(@, lost)])
      BY <1>1, <3>2 DEF IsCheckpoint
    <3>4. store' = [store EXCEPT ![i] = [store[i] EXCEPT !.payload = Without(@, lost)]]
      BY <3>1
    <3>5. QED
      <4>1. IsSequence(store)
        BY <1>1 DEF IsSequence
      <4>2. QED
        BY <1>1, <3>3, <3>4, <4>1, ReplacedElements DEF StoreType
  <2>3. QED
    BY <2>1, <2>2 DEF Damage
<1>3. UNCHANGED <<pc, wakes, me, org, steps, cursor, vit, stuck, cycle, pending,
                  certs, event>>
  BY DEF Damage, memory
<1>4. QED
  BY <1>2, <1>3 DEF IInv, TypeOK, StoreType, IsSequence

\* A stranger saves a checkpoint of its own.
LEMMA ForeignSaveType ==
  ASSUME IInv, ForeignSave PROVE IInv'
<1>1. PICK e \in Foreign : store' = Saved(e)
  BY DEF ForeignSave
<1>2. StoreType(store')
  BY <1>1, SavedType, ConstantsAssumption DEF IInv
<1>3. UNCHANGED <<pc, wakes, me, org, steps, cursor, vit, stuck, cycle, pending,
                  certs, event>>
  BY DEF ForeignSave, memory
<1>4. QED
  BY <1>2, <1>3 DEF IInv, TypeOK, StoreType, IsSequence

\* Every step keeps the organism and the store well-formed.
LEMMA LifeStep ==
  ASSUME IInv, [Next]_vars PROVE IInv'
<1>1. UNCHANGED vars => IInv'
  BY DEF IInv, TypeOK, vars, memory
<1>2. QED
  BY <1>1, WakeType, ReviveType, RunEpisodeType, CompleteStepType, NonActingType,
     CrashType, DamageType, ForeignSaveType DEF Next, Step

\* The invariant always holds.
LEMMA LifeInvariant == Spec => []IInv
  BY InitType, LifeStep, PTL DEF Spec

\* Through every wake, episode, rollback, quarantine, crash and damage the state of
\* the kernel and every checkpoint on its store keep their types (LifeKernel).
THEOREM LifeTypeCorrect == Spec => []TypeOK
<1>1. IInv => TypeOK
  BY DEF IInv
<1>2. QED
  BY <1>1, LifeInvariant, PTL

-----------------------------------------------------------------------------
(* What a step does to the store *)

\* A step saves one checkpoint of this organism, or of a stranger, or damages one
\* that was whole, or leaves the store alone.
SavesOwn(v, o, n, c) ==
  /\ v \in Vitals /\ Consistent(v)
  /\ store' = Saved(Checkpoint(v, o, n, c))

\* The store changes by damage, by a stranger, or by a save of what is in memory.
LEMMA StoreSteps ==
  ASSUME IInv, [Next]_vars
  PROVE  \/ UNCHANGED store
         \/ Damage \/ ForeignSave
         \/ \E v \in Vitals : SavesOwn(v, org', steps', cursor')
<1>1. CASE RunEpisode
  <2>1. PICK c \in Cycles : \/ UNCHANGED store
                           \/ store' = Saved(Checkpoint(c.vitals, org, steps, cursor))
    BY <1>1 DEF RunEpisode
  <2>2. c.vitals \in Vitals /\ Consistent(c.vitals)
    BY <1>1, CyclesType DEF RunEpisode, IInv, CycleType
  <2>3. UNCHANGED <<org, steps, cursor>>
    BY <1>1 DEF RunEpisode
  <2>4. QED
    BY <2>1, <2>2, <2>3 DEF SavesOwn
<1>2. CASE CompleteStep
  <2>1. vit' \in Vitals /\ Consistent(vit')
    <3>1. /\ pending.organism \in Organism /\ pending.certificate \in Certificate
          /\ pending.episode \in Episode /\ cycle.sensed \in Percent
      BY <1>2, ConstantsAssumption DEF CompleteStep, IInv, TypeOK, Outcome, CycleType
    <3>2. QED
      BY <1>2, <3>1, FromStateType, FromStateConsistent DEF CompleteStep
  <2>2. UNCHANGED store \/ store' = Saved(Checkpoint(vit', org', steps', cursor'))
    BY <1>2 DEF CompleteStep
  <2>3. QED
    BY <2>1, <2>2 DEF SavesOwn
<1>3. CASE RollBack \/ Quarantine \/ Sleep
  <2>1. PICK c \in Cycles : TakeRefuge \/ StayAsIs(c.vitals)
    BY <1>3 DEF RollBack, Quarantine, Sleep
  <2>2. pc = "idle"
    BY <1>3 DEF RollBack, Quarantine, Sleep
  <2>3. CASE StayAsIs(c.vitals)
    <3>1. c.vitals \in Vitals /\ Consistent(c.vitals)
      BY <2>2, CyclesType DEF IInv, CycleType
    <3>2. QED
      BY <2>3, <3>1 DEF StayAsIs, SavesOwn
  <2>4. CASE TakeRefuge
    <3>1. PICK e \in Refuge :
            /\ Adopt(e)
            /\ store' = Saved(Checkpoint(Bootstrap(e.organism, certs[Run], 0),
                                         e.organism, e.steps, e.cursor))
      BY <2>4 DEF TakeRefuge
    <3>2. e.organism \in Organism
      BY RefugeType DEF IInv, IsCheckpoint
    <3>3. certs[Run] \in Certificate \cup {None}
      BY <2>2, RunType DEF IInv, TypeOK
    <3>4. QED
      BY <3>1, <3>2, <3>3, BootstrapType DEF Adopt, SavesOwn
  <2>5. QED
    BY <2>1, <2>3, <2>4
<1>4. CASE Wake \/ ReviveOnWake \/ Crash \/ UNCHANGED vars
  BY <1>4 DEF Wake, ReviveOnWake, Crash, vars
<1>5. QED
  BY <1>1, <1>2, <1>3, <1>4 DEF Next, Step

-----------------------------------------------------------------------------
(* The healthy flag and the file *)

Honest(e) ==
  DOMAIN e.payload = Keys => e.healthy = IsRestorable(FromDict(e.payload))

AllHonest == \A i \in DOMAIN store : Honest(store[i])

\* A checkpoint is flagged by the vital signs it is saved with.
LEMMA OwnIsHonest ==
  ASSUME NEW v \in Vitals, Consistent(v), NEW o, NEW n, NEW c
  PROVE  Honest(Checkpoint(v, o, n, c))
  BY RoundTrip DEF Honest, Checkpoint

\* What damages a checkpoint leaves its flag alone and either its vital signs whole
\* or fewer of them than there were.
LEMMA DamageIsHonest ==
  ASSUME IInv, AllHonest, Damage PROVE AllHonest'
<1>1. PICK i \in DOMAIN store :
        /\ ~Damaged(store[i])
        /\ \/ \E f \in Damages : store' = [store EXCEPT ![i].file = f]
           \/ \E lost \in LostKeys : store' = [store EXCEPT ![i].payload = Without(@, lost)]
  BY DEF Damage
<1>2. IsSequence(store) /\ IsCheckpoint(store[i])
  BY DEF IInv, TypeOK, IsSequence
<1>3. PICK d : /\ store' = [store EXCEPT ![i] = d]
               /\ Honest(d)
  <2>1. CASE \E f \in Damages : store' = [store EXCEPT ![i].file = f]
    <3>1. PICK f \in Damages : store' = [store EXCEPT ![i].file = f]
      BY <2>1
    <3>2. Honest([store[i] EXCEPT !.file = f])
      BY <1>2 DEF AllHonest, Honest, IsCheckpoint
    <3>3. QED
      BY <3>1, <3>2
  <2>2. CASE \E lost \in LostKeys : store' = [store EXCEPT ![i].payload = Without(@, lost)]
    <3>1. PICK lost \in LostKeys : store' = [store EXCEPT ![i].payload = Without(@, lost)]
      BY <2>2
    <3> DEFINE d == [store[i] EXCEPT !.payload = Without(@, lost)]
    <3>2. /\ d.payload = Without(store[i].payload, lost) /\ d.healthy = store[i].healthy
          /\ DOMAIN store[i].payload = Keys
      BY <1>1, <1>2 DEF IsCheckpoint, Damaged
    <3>3. DOMAIN d.payload = Keys => d.payload = store[i].payload
      <4>1. DOMAIN d.payload = Keys => lost \cap Keys = {}
        BY <3>2 DEF Without
      <4>2. store[i].payload = [k \in DOMAIN store[i].payload |-> store[i].payload[k]]
        BY <1>2 DEF IsCheckpoint, IsPayload
      <4>3. QED
        BY <3>2, <4>1, <4>2 DEF Without
    <3>4. Honest(d)
      BY <3>2, <3>3 DEF AllHonest, Honest
    <3>5. QED
      BY <3>1, <3>4
  <2>3. QED
    BY <1>1, <2>1, <2>2
<1>4. QED
  BY <1>2, <1>3, ReplacedElements DEF AllHonest

\* The flag stays honest through every step.
LEMMA HonestKept == Spec => []AllHonest
<1>1. Init => AllHonest
  BY DEF Init, AllHonest
<1>2. IInv /\ AllHonest /\ [Next]_vars => AllHonest'
  <2> SUFFICES ASSUME IInv, AllHonest, [Next]_vars PROVE AllHonest'
    OBVIOUS
  <2>1. IsSequence(store)
    BY DEF IInv, TypeOK, IsSequence
  <2>2. CASE UNCHANGED store
    BY <2>2 DEF AllHonest
  <2>3. CASE Damage
    BY <2>3, DamageIsHonest
  <2>4. CASE ForeignSave
    <3>1. PICK e \in Foreign : store' = Saved(e)
      BY <2>4 DEF ForeignSave
    <3>2. Honest(e)
      BY ConstantsAssumption DEF Honest
    <3>3. QED
      BY <2>1, <3>1, <3>2, SavedElements DEF AllHonest
  <2>5. CASE \E v \in Vitals : SavesOwn(v, org', steps', cursor')
    <3>1. PICK v \in Vitals : SavesOwn(v, org', steps', cursor')
      BY <2>5
    <3>2. Honest(Checkpoint(v, org', steps', cursor'))
      BY <3>1, OwnIsHonest DEF SavesOwn
    <3>3. QED
      BY <2>1, <3>1, <3>2, SavedElements DEF SavesOwn, AllHonest
  <2>6. QED
    BY <2>2, <2>3, <2>4, <2>5, StoreSteps
<1>3. QED
  BY <1>1, <1>2, LifeInvariant, PTL DEF Spec

\* A checkpoint whose vital signs are whole is flagged healthy exactly when what is
\* read back from its file is restorable, and one that lost an axis the refuge
\* needs is no refuge (B73: save_checkpoint, to_dict, from_dict, is_restorable).
THEOREM FlagIsHonest == Spec => []FlagMatchesFile
<1>1. AllHonest => FlagMatchesFile
  BY LostAxisNeverRestorable DEF AllHonest, Honest, FlagMatchesFile, ServesAsRefuge
<1>2. QED
  BY <1>1, HonestKept, PTL

-----------------------------------------------------------------------------
(* One organism, one life *)

\* The bodies of this organism, and the places its life can have reached.
OwnBodies == {Newborn} \cup {o.organism : o \in Outcomes}

OnCourse(n, c) == n = c.scenario * BlockSize + c.episode /\ c.episode < BlockSize

Own(o, n, c) == o \in OwnBodies /\ OnCourse(n, c)

LifeIsOwn ==
  /\ me = Genome
  /\ Own(org, steps, cursor)
  /\ \A i \in DOMAIN store : store[i].organismId = Genome =>
       Own(store[i].organism, store[i].steps, store[i].cursor)

\* An organism begins at the first place of its first scenario.
LEMMA StartOnCourse == OnCourse(0, [scenario |-> 0, episode |-> 0])
  BY ConstantsAssumption DEF OnCourse

\* A step moves the cursor on as far as the step count, and starts a new block
\* exactly when the old one is full.
LEMMA NextOnCourse ==
  ASSUME NEW n \in Nat, NEW c \in Cursor, OnCourse(n, c)
  PROVE  /\ c.episode + 1 >= BlockSize =>
              OnCourse(n + 1, [scenario |-> c.scenario + 1, episode |-> 0])
         /\ ~(c.episode + 1 >= BlockSize) =>
              OnCourse(n + 1, [c EXCEPT !.episode = c.episode + 1])
<1>1. \A b, s, e \in Nat :
        /\ e < b /\ e + 1 >= b => s * b + e + 1 = (s + 1) * b + 0
        /\ ~(e + 1 >= b) => e + 1 < b
  OBVIOUS
<1>2. PICK s \in Nat, e \in Nat : s = c.scenario /\ e = c.episode
  BY DEF Cursor
<1>3. PICK b \in Nat : b = BlockSize
  BY ConstantsAssumption
<1>4. n = s * b + e /\ e < b
  BY <1>2, <1>3 DEF OnCourse
<1>5. ASSUME e + 1 >= b PROVE OnCourse(n + 1, [scenario |-> s + 1, episode |-> 0])
  <2>1. n + 1 = (s + 1) * b + 0 /\ 0 < b
    BY <1>1, <1>4, <1>5
  <2>2. QED
    BY <1>3, <2>1 DEF OnCourse
<1>6. ASSUME ~(e + 1 >= b) PROVE OnCourse(n + 1, [c EXCEPT !.episode = e + 1])
  <2>1. n + 1 = s * b + (e + 1) /\ e + 1 < b
    BY <1>1, <1>4, <1>6
  <2>2. [c EXCEPT !.episode = e + 1] = [scenario |-> s, episode |-> e + 1]
    BY <1>2 DEF Cursor
  <2>3. QED
    BY <1>3, <2>1, <2>2 DEF OnCourse
<1>7. QED
  BY <1>2, <1>3, <1>5, <1>6

\* What the organism adopts under its genome is its own.
LEMMA IdentityIsOwn ==
  ASSUME IInv, LifeIsOwn, Scope = "genome", NEW r, NEW e \in Identity(r)
  PROVE  e.organismId = Genome /\ Own(e.organism, e.steps, e.cursor)
<1>1. e.organismId = Genome
  BY DEF Identity, NewestOf, Where, IsIdentity
<1>2. \E i \in DOMAIN store : e = store[i]
  BY IdentityType DEF IInv
<1>3. QED
  BY <1>1, <1>2 DEF LifeIsOwn

\* A refuge of a genome is a body of its organism.
LEMMA RefugeIsOwn ==
  ASSUME IInv, LifeIsOwn, NEW e \in Refuge
  PROVE  Own(e.organism, e.steps, e.cursor)
<1>1. e.organismId = me /\ \E i \in DOMAIN store : e = store[i]
  BY RefugeType DEF IInv, IsRefuge
<1>2. QED
  BY <1>1 DEF LifeIsOwn

\* In every step the organism stays itself, in memory.
LEMMA StaysItself ==
  ASSUME IInv, LifeIsOwn, Scope = "genome", [Next]_vars
  PROVE  me' = Genome /\ Own(org', steps', cursor')
<1>1. CASE Wake
  <2>1. PICK r : Genesis(r) \/ Restore(r)
    BY <1>1 DEF Wake
  <2>2. CASE Genesis(r)
    BY <2>2, StartOnCourse DEF Genesis, Own, OwnBodies
  <2>3. CASE Restore(r)
    <3>1. PICK e \in Identity(r) : Adopt(e) /\ me' = e.organismId
      BY <2>3 DEF Restore
    <3>2. QED
      BY <3>1, IdentityIsOwn DEF Adopt
  <2>4. QED
    BY <2>1, <2>2, <2>3
<1>2. CASE ReviveOnWake
  <2>1. \/ UNCHANGED <<org, steps, cursor>>
        \/ \E e \in Refuge : Adopt(e)
    BY <1>2 DEF ReviveOnWake
  <2>2. me' = me
    BY <1>2 DEF ReviveOnWake
  <2>3. QED
    BY <2>1, <2>2, RefugeIsOwn DEF Adopt, LifeIsOwn
<1>3. CASE CompleteStep
  <2>1. steps \in Nat /\ cursor \in Cursor /\ OnCourse(steps, cursor)
    BY DEF IInv, TypeOK, LifeIsOwn, Own
  <2>2. OnCourse(steps', cursor')
    BY <1>3, <2>1, NextOnCourse DEF CompleteStep, NextCursor
  <2>3. org' \in OwnBodies
    BY <1>3 DEF CompleteStep, IInv, TypeOK, OwnBodies
  <2>4. QED
    BY <1>3, <2>2, <2>3 DEF CompleteStep, LifeIsOwn, Own
<1>4. CASE RollBack \/ Quarantine \/ Sleep
  <2>1. \/ UNCHANGED <<org, steps, cursor>>
        \/ \E e \in Refuge : Adopt(e)
    BY <1>4 DEF RollBack, Quarantine, Sleep, TakeRefuge, StayAsIs
  <2>2. me' = me
    BY <1>4 DEF RollBack, Quarantine, Sleep
  <2>3. QED
    BY <2>1, <2>2, RefugeIsOwn DEF Adopt, LifeIsOwn
<1>5. CASE Crash
  BY <1>5, StartOnCourse DEF Crash, Own, OwnBodies
<1>6. CASE RunEpisode \/ Damage \/ ForeignSave \/ UNCHANGED vars
  BY <1>6 DEF RunEpisode, Damage, ForeignSave, vars, memory, LifeIsOwn
<1>7. QED
  BY <1>1, <1>2, <1>3, <1>4, <1>5, <1>6 DEF Next, Step

\* In memory and on the store, under its genome, an organism is always itself.
LEMMA LifeIsOwnKept ==
  ASSUME Scope = "genome" PROVE Spec => []LifeIsOwn
<1>1. Init => LifeIsOwn
  BY StartOnCourse DEF Init, LifeIsOwn, Own, OwnBodies
<1>2. IInv /\ LifeIsOwn /\ [Next]_vars => LifeIsOwn'
  <2> SUFFICES ASSUME IInv, LifeIsOwn, [Next]_vars PROVE LifeIsOwn'
    OBVIOUS
  <2>1. me' = Genome /\ Own(org', steps', cursor')
    BY StaysItself
  <2>2. IsSequence(store)
    BY DEF IInv, TypeOK, IsSequence
  <2> DEFINE Ours(e) == e.organismId = Genome => Own(e.organism, e.steps, e.cursor)
  <2>3. \A i \in DOMAIN store : Ours(store[i])
    BY DEF LifeIsOwn
  <2>4. \A i \in DOMAIN store' : Ours(store'[i])
    <3>1. CASE UNCHANGED store
      BY <2>3, <3>1
    <3>2. CASE Damage
      <4>1. PICK i \in DOMAIN store :
              \E d : /\ store' = [store EXCEPT ![i] = d]
                     /\ d.organismId = store[i].organismId
                     /\ d.organism = store[i].organism
                     /\ d.steps = store[i].steps /\ d.cursor = store[i].cursor
        BY <3>2 DEF Damage, IInv, TypeOK, IsCheckpoint
      <4>2. PICK d : /\ store' = [store EXCEPT ![i] = d]
                     /\ d.organismId = store[i].organismId
                     /\ d.organism = store[i].organism
                     /\ d.steps = store[i].steps /\ d.cursor = store[i].cursor
        BY <4>1
      <4>3. Ours(d)
        BY <2>3, <4>2
      <4>4. QED
        BY <2>2, <2>3, <4>2, <4>3, ReplacedElements
    <3>3. CASE ForeignSave
      <4>1. PICK e \in Foreign : store' = Saved(e)
        BY <3>3 DEF ForeignSave
      <4>2. e.organismId # Genome
        BY ConstantsAssumption
      <4>3. QED
        BY <2>2, <2>3, <4>1, <4>2, SavedElements
    <3>4. CASE \E v \in Vitals : SavesOwn(v, org', steps', cursor')
      <4>1. PICK v \in Vitals : store' = Saved(Checkpoint(v, org', steps', cursor'))
        BY <3>4 DEF SavesOwn
      <4>2. Ours(Checkpoint(v, org', steps', cursor'))
        BY <2>1 DEF Checkpoint
      <4>3. QED
        BY <2>2, <2>3, <4>1, <4>2, SavedElements
    <3>5. QED
      BY <3>1, <3>2, <3>3, <3>4, StoreSteps
  <2>5. QED
    BY <2>1, <2>4 DEF LifeIsOwn
<1>3. QED
  BY <1>1, <1>2, LifeInvariant, PTL DEF Spec

\* An organism configured by its genome keeps its identity, and never carries the
\* body of another, whatever others save on the store (load_latest_identity,
\* _restore_latest_healthy_checkpoint).
THEOREM IdentityHolds ==
  ASSUME Scope = "genome",
         \A e \in Foreign : e.organism \notin OwnBodies
  PROVE  Spec => []IdentityKept
<1>1. LifeIsOwn => IdentityKept
  BY DEF LifeIsOwn, Own, IdentityKept
<1>2. QED
  BY <1>1, LifeIsOwnKept, PTL

\* The scenario cursor and the step count of an organism configured by its genome
\* tell the same life, in memory and in every checkpoint (the cursor arithmetic of
\* step, _apply_restored_identity).
THEOREM CursorHolds ==
  ASSUME Scope = "genome" PROVE Spec => []CursorMatchesSteps
<1>1. LifeIsOwn => CursorMatchesSteps
  BY DEF LifeIsOwn, Own, OnCourse, CursorMatchesSteps
<1>2. QED
  BY <1>1, LifeIsOwnKept, PTL

-----------------------------------------------------------------------------
(* The refuge *)

\* The consequent of RefugeIsSound.
FromRefuge ==
  \E i \in DOMAIN store :
    LET e == store[i] IN
    /\ e.organismId = me /\ e.file = "present"
    /\ RestoreRequiredAxes \subseteq DOMAIN e.payload
    /\ IsRestorable(FromDict(e.payload))
    /\ <<org, steps, cursor>>' = <<e.organism, e.steps, e.cursor>>

\* What is adopted from a refuge is what the refuge holds.
LEMMA AdoptedRefugeIsSound ==
  ASSUME IInv, NEW e \in Refuge, Adopt(e) PROVE FromRefuge
<1>1. PICK i \in DOMAIN store : e = store[i]
  BY RefugeType DEF IInv
<1>2. e.organismId = me /\ e.file = "present" /\ IsRestorable(FromDict(e.payload))
  BY RefugeType DEF IInv, IsRefuge, ServesAsRefuge
<1>3. RestoreRequiredAxes \subseteq DOMAIN e.payload
  BY <1>2, LostAxisNeverRestorable
<1>4. QED
  BY <1>1, <1>2, <1>3 DEF FromRefuge, Adopt

\* What a rollback, the E5 refuge or --revive adopts is one checkpoint of this very
\* organism whose file still shows complete, restorable vital signs
\* (_restore_latest_healthy_checkpoint, _restorability_rejection).
THEOREM RefugeSound == Spec => RefugeIsSound
<1>1. ASSUME IInv, [Next]_vars,
             pc' # "down", event' \in {"rollback_restored", "refuge", "revived"},
             <<org, steps, cursor>>' # <<org, steps, cursor>>
      PROVE  FromRefuge
  <2>1. CASE RollBack \/ Quarantine \/ Sleep
    <3>1. TakeRefuge
      BY <1>1, <2>1 DEF RollBack, Quarantine, Sleep, StayAsIs
    <3>2. QED
      BY <1>1, <3>1, AdoptedRefugeIsSound DEF TakeRefuge
  <2>2. CASE ReviveOnWake
    <3>1. \E e \in Refuge : Adopt(e)
      BY <1>1, <2>2 DEF ReviveOnWake
    <3>2. QED
      BY <1>1, <3>1, AdoptedRefugeIsSound
  <2>3. ~Wake /\ ~CompleteStep /\ ~Crash
    BY <1>1 DEF Wake, Genesis, Restore, CompleteStep, Crash
  <2>4. ~RunEpisode /\ ~Damage /\ ~ForeignSave /\ ~UNCHANGED vars
    BY <1>1 DEF RunEpisode, Damage, ForeignSave, vars, memory
  <2>5. QED
    BY <1>1, <2>1, <2>2, <2>3, <2>4 DEF Next, Step
<1>2. IInv /\ [Next]_vars =>
        [pc' # "down" /\ event' \in {"rollback_restored", "refuge", "revived"}
           /\ <<org, steps, cursor>>' # <<org, steps, cursor>> => FromRefuge]_vars
  BY <1>1
<1>3. QED
  BY <1>2, LifeInvariant, PTL DEF Spec, RefugeIsSound, FromRefuge

-----------------------------------------------------------------------------
(* Which episodes run *)

\* The gate lets an action through to an episode only if it was decided on, or
\* if it is the act that replaces a blocked critical action.
LEMMA GateLetsThrough ==
  ASSUME NEW a, NEW verdict, Gate(a, verdict) \notin NonEpisodeActions
  PROVE  /\ a \notin NonEpisodeActions
         /\ verdict = "block" =>
              a \in {"self_modify", "consult_external"} /\ Gate(a, verdict) = "act"
  BY DEF Gate, NonEpisodeActions

\* What no search can find stays blocked.
LEMMA HighRiskStaysBlocked ==
  ASSUME NEW c, c.risk >= 80, c.action \notin RiskExemptActions
  PROVE  Evaluate(c) = "block"
<1> DEFINE f == Finding("high_risk_action", "fail")
           a == [finding |-> f, status |-> "blocked"]
           found == Validate(c, Route(c))
           actions == Compensate(c, found)
           after == Compensated(c, actions)
           followup == Validate(after, Route(after))
           merged == Merge(Executed(c, actions), Compensate(after, followup))
<1>1. f \in found
  BY DEF Validate, RiskFindings, When
<1>2. f.code = "high_risk_action" /\ f.status = "fail"
  BY DEF Finding
<1>3. Blocks(c, f)
  BY <1>2 DEF Blocks
<1>4. a \in actions
  <2> HIDE DEF found
  <2>1. QED
    BY <1>1, <1>3 DEF Compensate
<1>5. SoughtKind(f) = "none"
  BY <1>2 DEF SoughtKind
<1>6. \A x : ~Recoverable(x, "none")
  BY DEF Recoverable
<1>7. a \in Executed(c, actions)
  <2> HIDE DEF f
  <2>1. a.finding = f
    OBVIOUS
  <2> HIDE DEF a, actions
  <2>2. QED
    BY <1>4, <1>5, <1>6, <2>1 DEF Executed
<1>8. a \in merged /\ a.status = "blocked"
  BY <1>7 DEF Merge
<1>9. FinalDecision(after, followup, merged) = "block"
  <2> HIDE DEF merged, followup, after, a
  <2>1. QED
    BY <1>8 DEF FinalDecision
<1>10. actions # {}
  BY <1>4
<1>11. QED
  <2> HIDE DEF a, f
  <2>1. QED
    BY <1>9, <1>10 DEF Evaluate

\* A cycle, from the reading to what the gate lets through.
LEMMA CyclesAre ==
  ASSUME NEW c \in Cycles
  PROVE  \E s \in IF Sensing THEN Pressures ELSE {0} :
           /\ c.sensed = s /\ c.vitals = PreVitals(s)
           /\ c.decided = Decide(c.vitals)
           /\ c.verdict = Evaluate(LifeContext(c.vitals, c.decided))
           /\ c.action = Gate(c.decided, c.verdict)
<1>1. PICK p \in Proposals :
        c = [sensed |-> p.reading.sensed, vitals |-> p.reading.vitals,
             decided |-> p.context.action, verdict |-> Evaluate(p.context),
             action |-> Gate(p.context.action, Evaluate(p.context))]
  BY DEF Cycles
<1>2. PICK r \in Readings :
        p = [reading |-> r, context |-> LifeContext(r.vitals, Decide(r.vitals))]
  BY DEF Proposals
<1>3. p.reading = r /\ p.context = LifeContext(r.vitals, Decide(r.vitals))
      /\ p.context.action = Decide(r.vitals)
  BY <1>2 DEF LifeContext
<1>4. PICK s \in IF Sensing THEN Pressures ELSE {0} :
        r = [sensed |-> s, vitals |-> PreVitals(s)]
  BY DEF Readings
<1>5. r.sensed = s /\ r.vitals = PreVitals(s)
  BY <1>4
<1>6. QED
  BY <1>1, <1>3, <1>5

\* The vital signs never show less pressure than is sensed.
LEMMA PressureIsSeen ==
  ASSUME TypeOK, pc # "down", NEW s \in IF Sensing THEN Pressures ELSE {0},
         s >= 90
  PROVE  PreVitals(s).pressure >= 90
<1>1. Sensing /\ s \in Percent
  <2>1. Pressures \subseteq Percent
    BY ConstantsAssumption
  <2>2. QED
    BY <2>1
<1>2. certs[Run] \in Certificate \cup {None}
  BY RunType DEF TypeOK
<1>3. \A x \in Percent : Larger(x, s) >= 90
  BY <1>1 DEF Larger, Percent
<1>4. FromState(org, certs[Run], None, s).pressure >= 90
  <2>1. CASE certs[Run] = None
    BY <2>1, <1>1, <1>3 DEF FromState, NoReading, Percent
  <2>2. CASE certs[Run] # None
    <3>1. certs[Run].pressure \in Percent
      BY <1>2, <2>2 DEF Certificate
    <3>2. QED
      BY <2>2, <3>1, <1>3 DEF FromState
  <2>3. QED
    BY <2>1, <2>2
<1>5. QED
  BY <1>1, <1>4 DEF PreVitals

\* What EpisodeIsAllowed says of a cycle.
Allowed(c) ==
  c.vitals.episodes > 0 =>
    /\ c.vitals.mode \notin {"rollback", "quarantine"}
    /\ c.sensed < 90
    /\ c.verdict = "block" =>
         c.decided \in {"self_modify", "consult_external"} /\ c.action = "act"
    /\ c.vitals.risk >= 80 => c.decided = "self_modify"

\* A cycle that ends in an episode was allowed to.
LEMMA CyclesAllowed ==
  ASSUME IInv, pc # "down", NEW c \in Cycles, c.action \notin NonEpisodeActions
  PROVE  Allowed(c)
<1> SUFFICES ASSUME c.vitals.episodes > 0
             PROVE  /\ c.vitals.mode \notin {"rollback", "quarantine"}
                    /\ c.sensed < 90
                    /\ c.verdict = "block" =>
                         /\ c.decided \in {"self_modify", "consult_external"}
                         /\ c.action = "act"
                    /\ c.vitals.risk >= 80 => c.decided = "self_modify"
  BY DEF Allowed
<1>1. PICK s \in IF Sensing THEN Pressures ELSE {0} :
        /\ c.sensed = s /\ c.vitals = PreVitals(s)
        /\ c.decided = Decide(c.vitals)
        /\ c.verdict = Evaluate(LifeContext(c.vitals, c.decided))
        /\ c.action = Gate(c.decided, c.verdict)
  BY CyclesAre
<1>2. TypeOK /\ c.vitals \in Vitals /\ c.sensed \in Percent
  BY CyclesType DEF IInv, CycleType
<1>3. c.vitals.episodes \in Nat /\ c.vitals.risk \in Percent
      /\ c.vitals.pressure \in Percent
  BY <1>2 DEF Vitals
<1>4. /\ c.decided \notin NonEpisodeActions
      /\ c.verdict = "block" =>
           c.decided \in {"self_modify", "consult_external"} /\ c.action = "act"
  BY <1>1, GateLetsThrough
<1>5. /\ c.vitals.mode \notin {"rollback", "quarantine"}
      /\ ~(c.vitals.pressure >= 90)
      /\ c.decided \in {"self_modify", "act", "consult_external"}
      /\ c.decided = "consult_external" => c.vitals.risk < 80
  BY <1>1, <1>3, <1>4 DEF Decide, NonEpisodeActions
<1>6. c.sensed < 90
  <2>1. ~(c.sensed >= 90)
    BY <1>1, <1>2, <1>5, PressureIsSeen
  <2>2. QED
    BY <2>1, <1>2 DEF Percent
<1>7. ASSUME c.vitals.risk >= 80 PROVE c.decided = "self_modify"
  <2>1. CASE c.decided = "act"
    <3> DEFINE x == LifeContext(c.vitals, "act")
    <3>1. x.risk = c.vitals.risk /\ x.action = "act"
      BY <1>3 DEF LifeContext
    <3>2. c.verdict = "block"
      <4> HIDE DEF x
      <4>1. Evaluate(x) = "block"
        BY <3>1, <1>7, HighRiskStaysBlocked DEF RiskExemptActions
      <4>2. QED
        BY <4>1, <1>1, <2>1 DEF x
    <3>3. QED
      BY <3>2, <2>1, <1>4
  <2>2. CASE c.decided = "consult_external"
    BY <2>2, <1>3, <1>5, <1>7 DEF Percent
  <2>3. QED
    BY <2>1, <2>2, <1>5
<1>8. QED
  BY <1>4, <1>5, <1>6, <1>7

\* Once it has lived, the organism runs an episode only on vital signs that
\* allow one (decide, validate, the gate of step).
THEOREM EpisodesAreAllowed == Spec => []EpisodeIsAllowed
<1> DEFINE Inv == pc = "episode" => Allowed(cycle)
<1>1. Init => Inv
  BY DEF Init
<1>2. IInv /\ Inv /\ [Next]_vars => Inv'
  <2> SUFFICES ASSUME IInv, Inv, [Next]_vars, pc' = "episode" PROVE Allowed(cycle')
    BY DEF Allowed
  <2>1. CASE RunEpisode
    <3>1. PICK c \in Cycles : c.action \notin NonEpisodeActions /\ cycle' = c
      BY <2>1 DEF RunEpisode
    <3>2. pc # "down"
      BY <2>1 DEF RunEpisode
    <3>3. QED
      BY <3>1, <3>2, CyclesAllowed
  <2>2. CASE Damage \/ ForeignSave \/ UNCHANGED vars
    BY <2>2 DEF Damage, ForeignSave, vars, memory
  <2>3. ~Wake /\ ~ReviveOnWake /\ ~CompleteStep /\ ~Crash
    BY DEF Wake, ReviveOnWake, CompleteStep, Crash
  <2>4. ~RollBack /\ ~Quarantine /\ ~Sleep
    BY DEF RollBack, Quarantine, Sleep
  <2>5. QED
    BY <2>1, <2>2, <2>3, <2>4 DEF Next, Step
<1>3. Inv => EpisodeIsAllowed
  BY DEF Allowed, EpisodeIsAllowed
<1>4. QED
  BY <1>1, <1>2, <1>3, LifeInvariant, PTL DEF Spec

-----------------------------------------------------------------------------
(* A refuge is a past self *)

\* What this organism could go back to.
IsOwnRefuge(e) == e.healthy /\ e.organismId = Genome /\ ServesAsRefuge(e)

\* The places of a sequence without one of them.
LEMMA RemoveAtPlaces ==
  ASSUME NEW S, NEW s \in Seq(S), NEW k \in 1..Len(s)
  PROVE  /\ Len(RemoveAt(s, k)) = Len(s) - 1
         /\ \A i \in 1..Len(RemoveAt(s, k)) :
              RemoveAt(s, k)[i] = s[IF i < k THEN i ELSE i + 1]
<1> DEFINE a == SubSeq(s, 1, k - 1)
           b == SubSeq(s, k + 1, Len(s))
<1>1. Len(s) \in Nat /\ k \in Nat /\ 1 <= k /\ k <= Len(s)
  OBVIOUS
<1>2. a \in Seq(S) /\ Len(a) = k - 1 /\ \A i \in 1..(k - 1) : a[i] = s[i]
  BY <1>1
<1>3. b \in Seq(S) /\ Len(b) = Len(s) - k /\ \A i \in 1..(Len(s) - k) : b[i] = s[k + i]
  BY <1>1
<1>4. RemoveAt(s, k) = a \o b
  BY DEF RemoveAt
<1> HIDE DEF a, b
<1>5. Len(a \o b) = Len(s) - 1
  <2>1. Len(a \o b) = Len(a) + Len(b)
    BY <1>2, <1>3, ConcatProperties
  <2>2. QED
    BY <2>1, <1>1, <1>2, <1>3
<1>6. ASSUME NEW i \in 1..(Len(s) - 1) PROVE (a \o b)[i] = s[IF i < k THEN i ELSE i + 1]
  <2>1. CASE i < k
    BY <2>1, <1>1, <1>2, <1>3
  <2>2. CASE ~(i < k)
    <3>1. i - (k - 1) \in 1..(Len(s) - k) /\ k + (i - (k - 1)) = i + 1
      BY <2>2, <1>1
    <3>2. (a \o b)[i] = b[i - (k - 1)]
      BY <2>2, <1>1, <1>2, <1>3
    <3>3. QED
      BY <2>2, <3>1, <3>2, <1>3
  <2>3. QED
    BY <2>1, <2>2
<1>7. QED
  BY <1>4, <1>5, <1>6

\* How the store looks after a save: f says where each of the n checkpoints kept
\* was before.
Keeps(e, n, f) ==
  /\ n \in Nat /\ f \in [1..n -> DOMAIN store]
  /\ DOMAIN Saved(e) = 1..(n + 1) /\ Saved(e)[n + 1] = e
  /\ \A i \in 1..n : Saved(e)[i] = store[f[i]]
  /\ \A i, j \in 1..n : i < j => f[i] < f[j]
  /\ \A k \in DOMAIN store : store[k] # e => \E i \in 1..n : f[i] = k

\* Saving keeps what was saved before, in its order, but for an equal older
\* checkpoint, and comes last.
LEMMA SavedPlaces ==
  ASSUME IsSequence(store), NEW e
  PROVE  \E n, f : Keeps(e, n, f)
<1> DEFINE T == {store[n] : n \in DOMAIN store} \cup {e}
<1>1. store \in Seq(T) /\ e \in T
  BY DEF IsSequence
<1> HIDE DEF T
<1>2. DOMAIN store = 1..Len(store) /\ Len(store) \in Nat
  BY <1>1
<1>3. CASE \E k \in DOMAIN store : store[k] = e
  <2>1. PICK k \in DOMAIN store : k = CHOOSE x \in DOMAIN store : store[x] = e
    BY <1>3
  <2> DEFINE r == RemoveAt(store, k)
             n == Len(store) - 1
             f == [i \in 1..n |-> IF i < k THEN i ELSE i + 1]
  <2>2. Saved(e) = Append(r, e) /\ store[k] = e
    BY <1>3, <2>1 DEF Saved
  <2>3. k \in 1..Len(store) /\ n \in Nat
    BY <1>2, <2>1
  <2>4. /\ r \in Seq(T) /\ Len(r) = n
        /\ \A x \in 1..Len(r) : r[x] = store[IF x < k THEN x ELSE x + 1]
    BY <1>1, <2>3, RemoveAtElements, RemoveAtPlaces
  <2> HIDE DEF r
  <2>5. /\ DOMAIN Saved(e) = 1..(n + 1) /\ Saved(e)[n + 1] = e
        /\ \A i \in 1..n : Saved(e)[i] = r[i]
    BY <1>1, <2>2, <2>4
  <2>6. f \in [1..n -> DOMAIN store] /\ \A i, j \in 1..n : i < j => f[i] < f[j]
    BY <1>2, <2>3
  <2>7. \A i \in 1..n : Saved(e)[i] = store[f[i]]
    BY <2>4, <2>5
  <2>8. ASSUME NEW x \in DOMAIN store, store[x] # e PROVE \E i \in 1..n : f[i] = x
    <3>1. x \in 1..Len(store) /\ x # k
      BY <1>2, <2>2, <2>8
    <3>2. CASE x < k
      <4>1. x \in 1..n /\ f[x] = x
        BY <2>3, <3>1, <3>2
      <4>2. QED
        BY <4>1
    <3>3. CASE k < x
      <4>1. x - 1 \in 1..n /\ f[x - 1] = x
        BY <2>3, <3>1, <3>3
      <4>2. QED
        BY <4>1
    <3>4. QED
      BY <2>3, <3>1, <3>2, <3>3
  <2> HIDE DEF f, n
  <2>9. Keeps(e, n, f)
    BY <2>3, <2>5, <2>6, <2>7, <2>8 DEF Keeps
  <2>10. QED
    BY <2>9
<1>4. CASE ~\E k \in DOMAIN store : store[k] = e
  <2> DEFINE n == Len(store)
             f == [i \in 1..n |-> i]
  <2>1. Saved(e) = Append(store, e)
    BY <1>4 DEF Saved
  <2>2. /\ DOMAIN Saved(e) = 1..(n + 1) /\ Saved(e)[n + 1] = e
        /\ \A i \in 1..n : Saved(e)[i] = store[i]
    BY <1>1, <1>2, <2>1
  <2>3. f \in [1..n -> DOMAIN store] /\ \A i \in 1..n : f[i] = i
    BY <1>2
  <2> HIDE DEF f
  <2>4. \A k \in DOMAIN store : \E i \in 1..n : f[i] = k
    BY <1>2, <2>3
  <2>5. n \in Nat
    BY <1>2
  <2> HIDE DEF n
  <2>6. Keeps(e, n, f)
    <3>1. /\ \A i \in 1..n : Saved(e)[i] = store[f[i]]
          /\ \A i, j \in 1..n : i < j => f[i] < f[j]
      BY <2>2, <2>3
    <3>2. QED
      BY <2>2, <2>3, <2>4, <2>5, <3>1 DEF Keeps
  <2>7. QED
    BY <2>6
<1>5. QED
  BY <1>3, <1>4

\* Saving keeps the order of what was saved before.
LEMMA SavedOrder ==
  ASSUME IsSequence(store), NEW e,
         NEW i \in DOMAIN Saved(e), NEW j \in DOMAIN Saved(e), i < j
  PROVE  \E k \in DOMAIN store :
           /\ Saved(e)[i] = store[k]
           /\ \/ Saved(e)[j] = e
              \/ \E l \in DOMAIN store : k < l /\ Saved(e)[j] = store[l]
<1>1. PICK n, f : Keeps(e, n, f)
  BY SavedPlaces
<1>2. i \in 1..n /\ f[i] \in DOMAIN store /\ Saved(e)[i] = store[f[i]]
  BY <1>1 DEF Keeps
<1>3. CASE j = n + 1
  BY <1>1, <1>2, <1>3 DEF Keeps
<1>4. CASE j \in 1..n
  <2>1. f[j] \in DOMAIN store /\ f[i] < f[j] /\ Saved(e)[j] = store[f[j]]
    BY <1>1, <1>2, <1>4 DEF Keeps
  <2>2. QED
    BY <1>2, <2>1
<1>5. QED
  BY <1>1, <1>3, <1>4 DEF Keeps

\* Of what the organism could go back to, nothing is further on than what it
\* saved later, or than what it is.
PastIsPast ==
  /\ \A i, j \in DOMAIN store :
       i < j /\ IsOwnRefuge(store[i]) /\ store[j].organismId = Genome
         => store[i].steps <= store[j].steps
  /\ pc # "down" =>
       \A i \in DOMAIN store : IsOwnRefuge(store[i]) => store[i].steps <= steps

\* The newest of some places.
LEMMA NewestIs ==
  ASSUME NEW P, NEW e \in NewestOf(P)
  PROVE  \E i \in P : e = store[i] /\ \A j \in P : j <= i
  BY DEF NewestOf

\* Of any places of a sequence, unless there are none, one is the newest.
LEMMA NewestExists ==
  ASSUME IsSequence(store), NEW P \in SUBSET DOMAIN store, P # {}
  PROVE  NewestOf(P) # {}
<1> DEFINE T == {Len(store) - i : i \in P}
<1>1. store \in Seq({store[i] : i \in DOMAIN store})
  BY DEF IsSequence
<1>2. Len(store) \in Nat /\ DOMAIN store = 1..Len(store)
  BY <1>1
<1>3. T \in SUBSET Nat /\ T # {}
  BY <1>2
<1>4. PICK t \in T : \A u \in T : t <= u
  BY <1>3, Least
<1>5. PICK i \in P : t = Len(store) - i
  BY <1>4
<1>6. \A j \in P : j <= i
  <2> SUFFICES ASSUME NEW j \in P PROVE j <= i
    OBVIOUS
  <2>1. Len(store) - i <= Len(store) - j
    BY <1>4, <1>5
  <2>2. i \in Nat /\ j \in Nat
    BY <1>2
  <2>3. QED
    BY <1>2, <2>1, <2>2
<1>7. QED
  BY <1>6 DEF NewestOf

\* The newest refuge is further on than the others.
LEMMA RefugeIsLatest ==
  ASSUME IInv, LifeIsOwn, PastIsPast, NEW e \in Refuge,
         NEW i \in DOMAIN store, IsOwnRefuge(store[i])
  PROVE  store[i].steps <= e.steps
<1>1. i \in Where(IsRefuge) /\ Where(IsRefuge) \subseteq DOMAIN store
  BY DEF Where, IsRefuge, IsOwnRefuge, LifeIsOwn
<1>2. PICK j \in Where(IsRefuge) : e = store[j] /\ i <= j
  BY <1>1, NewestIs DEF Refuge
<1>3. j \in DOMAIN store /\ store[j].organismId = Genome
  BY <1>2 DEF Where, IsRefuge, LifeIsOwn
<1>4. i \in Nat /\ j \in Nat /\ store[i].steps \in Nat
  <2>1. IsSequence(store) /\ IsCheckpoint(store[i])
    BY DEF IInv, TypeOK, IsSequence
  <2>2. DOMAIN store \subseteq Nat
    BY <2>1 DEF IsSequence
  <2>3. QED
    BY <1>3, <2>1, <2>2 DEF IsCheckpoint
<1>5. CASE i = j
  BY <1>2, <1>4, <1>5
<1>6. CASE i < j
  BY <1>2, <1>3, <1>6 DEF PastIsPast
<1>7. QED
  BY <1>2, <1>4, <1>5, <1>6

\* What a wake restores is further on than every refuge, and if it restores
\* nothing there is none.
LEMMA WakeIsLatest ==
  ASSUME IInv, LifeIsOwn, PastIsPast, Scope = "genome", NEW r,
         NEW i \in DOMAIN store, IsOwnRefuge(store[i])
  PROVE  /\ Identity(r) # {}
         /\ \A e \in Identity(r) : store[i].steps <= e.steps
<1> DEFINE Ours(x) == Readable(x) /\ IsIdentity(x, r)
           P == Where(Ours)
<1>1. Identity(r) = NewestOf(P)
  BY DEF Identity
<1>2. IsSequence(store) /\ IsCheckpoint(store[i])
  BY DEF IInv, TypeOK, IsSequence
<1>3. Ours(store[i])
  BY DEF IsOwnRefuge, ServesAsRefuge, Readable, IsIdentity
<1>4. i \in P /\ P \subseteq DOMAIN store
  BY <1>3 DEF Where
<1>5. \A j \in P : store[j].organismId = Genome
  BY DEF Where, IsIdentity
<1> HIDE DEF P
<1>6. Identity(r) # {}
  BY <1>1, <1>2, <1>4, NewestExists
<1>7. ASSUME NEW e \in Identity(r) PROVE store[i].steps <= e.steps
  <2>1. PICK j \in P : e = store[j] /\ i <= j
    BY <1>1, <1>4, NewestIs
  <2>2. i \in Nat /\ j \in Nat /\ store[i].steps \in Nat
    <3>1. DOMAIN store \subseteq Nat
      BY <1>2 DEF IsSequence
    <3>2. QED
      BY <1>2, <1>4, <3>1 DEF IsCheckpoint
  <2>3. CASE i = j
    BY <2>1, <2>2, <2>3
  <2>4. CASE i < j
    BY <1>4, <1>5, <2>1, <2>4 DEF PastIsPast
  <2>5. QED
    BY <2>1, <2>2, <2>3, <2>4
<1>8. QED
  BY <1>6, <1>7

\* After a step in which the organism is up, no refuge it had before the step is
\* further on than it is.
LEMMA RefugesStayBehind ==
  ASSUME IInv, LifeIsOwn, PastIsPast, Scope = "genome", [Next]_vars, pc' # "down",
         NEW i \in DOMAIN store, IsOwnRefuge(store[i])
  PROVE  store[i].steps <= steps'
<1>1. steps \in Nat /\ store[i].steps \in Nat
  BY DEF IInv, TypeOK, IsCheckpoint
<1>2. CASE Wake
  <2>1. PICK r : Genesis(r) \/ Restore(r)
    BY <1>2 DEF Wake
  <2>2. ~Genesis(r)
    BY WakeIsLatest DEF Genesis
  <2>3. PICK e \in Identity(r) : Adopt(e)
    BY <2>1, <2>2 DEF Restore
  <2>4. QED
    BY <2>3, WakeIsLatest DEF Adopt
<1>3. ASSUME pc # "down", NEW e \in Refuge, Adopt(e) PROVE store[i].steps <= steps'
  BY <1>3, RefugeIsLatest DEF Adopt
<1>4. ASSUME pc # "down", steps' = steps PROVE store[i].steps <= steps'
  BY <1>4 DEF PastIsPast
<1>5. CASE ReviveOnWake \/ RollBack \/ Quarantine \/ Sleep
  <2>1. pc # "down" /\ (steps' = steps \/ \E e \in Refuge : Adopt(e))
    BY <1>5 DEF ReviveOnWake, RollBack, Quarantine, Sleep, TakeRefuge, StayAsIs
  <2>2. QED
    BY <2>1, <1>3, <1>4
<1>6. CASE CompleteStep
  <2>1. pc # "down" /\ steps' = steps + 1
    BY <1>6 DEF CompleteStep
  <2>2. store[i].steps <= steps
    BY <2>1 DEF PastIsPast
  <2>3. QED
    BY <1>1, <2>1, <2>2
<1>7. CASE RunEpisode \/ Damage \/ ForeignSave \/ UNCHANGED vars
  <2>1. pc # "down" /\ steps' = steps
    BY <1>7 DEF RunEpisode, Damage, ForeignSave, vars, memory
  <2>2. QED
    BY <2>1, <1>4
<1>8. ~Crash
  BY DEF Crash
<1>9. QED
  BY <1>2, <1>5, <1>6, <1>7, <1>8 DEF Next, Step

\* Damage makes no refuge.
LEMMA DamageMakesNoRefuge ==
  ASSUME IInv, AllHonest, Damage
  PROVE  /\ DOMAIN store' = DOMAIN store
         /\ \A j \in DOMAIN store :
              /\ store'[j].organismId = store[j].organismId
              /\ store'[j].steps = store[j].steps
              /\ IsOwnRefuge(store'[j]) => IsOwnRefuge(store[j])
<1>1. PICK i \in DOMAIN store :
        /\ ~Damaged(store[i])
        /\ \/ \E f \in Damages : store' = [store EXCEPT ![i].file = f]
           \/ \E lost \in LostKeys : store' = [store EXCEPT ![i].payload = Without(@, lost)]
  BY DEF Damage
<1>2. IsSequence(store) /\ IsCheckpoint(store[i])
  BY DEF IInv, TypeOK, IsSequence
<1>3. PICK d : /\ store' = [store EXCEPT ![i] = d]
               /\ d.organismId = store[i].organismId /\ d.steps = store[i].steps
               /\ d.healthy = store[i].healthy
  BY <1>1, <1>2 DEF IsCheckpoint
<1>4. /\ DOMAIN store' = DOMAIN store /\ store'[i] = d
      /\ \A j \in DOMAIN store \ {i} : store'[j] = store[j]
  BY <1>2, <1>3 DEF IsSequence
<1>5. IsOwnRefuge(d) => IsOwnRefuge(store[i])
  <2>1. /\ store[i].file = "present"
        /\ store[i].healthy => IsRestorable(FromDict(store[i].payload))
    BY <1>1 DEF Damaged, AllHonest, Honest
  <2>2. QED
    BY <1>3, <2>1 DEF IsOwnRefuge, ServesAsRefuge
<1>6. QED
  BY <1>3, <1>4, <1>5

\* Every step keeps the refuges in the past.
LEMMA PastStaysPast ==
  ASSUME IInv, AllHonest, LifeIsOwn, PastIsPast, Scope = "genome", [Next]_vars
  PROVE  PastIsPast'
<1>1. IsSequence(store)
  BY DEF IInv, TypeOK, IsSequence
<1>2. ASSUME pc' # "down"
      PROVE  \A i \in DOMAIN store : IsOwnRefuge(store[i]) => store[i].steps <= steps'
  BY <1>2, RefugesStayBehind
<1>3. CASE UNCHANGED store
  BY <1>2, <1>3 DEF PastIsPast
<1>4. CASE Damage
  <2>1. UNCHANGED <<pc, steps>>
    BY <1>4 DEF Damage, memory
  <2>2. QED
    BY <1>4, <2>1, DamageMakesNoRefuge DEF PastIsPast
<1>5. CASE ForeignSave
  <2>1. PICK e \in Foreign : store' = Saved(e)
    BY <1>5 DEF ForeignSave
  <2>2. UNCHANGED <<pc, steps>> /\ e.organismId # Genome
    BY <1>5, ConstantsAssumption DEF ForeignSave, memory
  <2>3. \A i, j \in DOMAIN store' :
          i < j /\ IsOwnRefuge(store'[i]) /\ store'[j].organismId = Genome
            => store'[i].steps <= store'[j].steps
    BY <1>1, <2>1, <2>2, SavedOrder DEF PastIsPast
  <2>4. \A i \in DOMAIN store' : IsOwnRefuge(store'[i]) =>
          \E k \in DOMAIN store : store'[i] = store[k]
    BY <1>1, <2>1, <2>2, SavedElements DEF IsOwnRefuge
  <2>5. QED
    BY <2>2, <2>3, <2>4 DEF PastIsPast
<1>6. CASE pc' # "down" /\ \E v \in Vitals : SavesOwn(v, org', steps', cursor')
  <2>1. PICK v \in Vitals : store' = Saved(Checkpoint(v, org', steps', cursor'))
    BY <1>6 DEF SavesOwn
  <2> DEFINE e == Checkpoint(v, org', steps', cursor')
  <2>2. e.steps = steps' /\ steps' \in Nat
    BY LifeStep DEF Checkpoint, IInv, TypeOK
  <2> HIDE DEF e
  <2>3. \A i, j \in DOMAIN store' :
          i < j /\ IsOwnRefuge(store'[i]) /\ store'[j].organismId = Genome
            => store'[i].steps <= store'[j].steps
    BY <1>1, <1>2, <1>6, <2>1, <2>2, SavedOrder DEF PastIsPast, e
  <2>4. \A i \in DOMAIN store' : IsOwnRefuge(store'[i]) => store'[i].steps <= steps'
    BY <1>1, <1>2, <1>6, <2>1, <2>2, SavedElements DEF e
  <2>5. QED
    BY <2>3, <2>4 DEF PastIsPast
<1>7. pc' = "down" => UNCHANGED store \/ Damage \/ ForeignSave
  BY DEF Next, Step, vars, Wake, ReviveOnWake, RunEpisode, CompleteStep, RollBack,
         Quarantine, Sleep, Crash
<1>8. QED
  BY <1>3, <1>4, <1>5, <1>6, <1>7, StoreSteps

\* No rollback, refuge or revival takes an organism configured by its genome
\* further than it is, however often it was killed, set back and revived before,
\* and whichever of its checkpoints were damaged
\* (_restore_latest_healthy_checkpoint, load_latest_identity).
THEOREM RefugeIsPast ==
  ASSUME Scope = "genome" PROVE Spec => RefugeNeverAdvances
<1>1. Init => PastIsPast
  BY DEF Init, PastIsPast
<1>2. Spec => []PastIsPast
  BY <1>1, PastStaysPast, LifeInvariant, HonestKept, LifeIsOwnKept, PTL DEF Spec
<1>3. ASSUME IInv, LifeIsOwn, PastIsPast, [Next]_vars, pc' # "down",
             event' \in {"rollback_restored", "refuge", "revived"}
      PROVE  steps' <= steps
  <2>1. steps \in Nat
    BY <1>3 DEF IInv, TypeOK
  <2>2. ASSUME pc # "down", NEW e \in Refuge, Adopt(e) PROVE steps' <= steps
    <3>1. PICK i \in DOMAIN store : e = store[i] /\ IsOwnRefuge(store[i])
      BY <1>3, RefugeType DEF IInv, IsRefuge, IsOwnRefuge, LifeIsOwn
    <3>2. QED
      BY <1>3, <2>2, <3>1 DEF PastIsPast, Adopt
  <2>3. CASE ReviveOnWake \/ RollBack \/ Quarantine \/ Sleep
    <3>1. pc # "down" /\ (steps' = steps \/ \E e \in Refuge : Adopt(e))
      BY <2>3 DEF ReviveOnWake, RollBack, Quarantine, Sleep, TakeRefuge, StayAsIs
    <3>2. QED
      BY <2>1, <2>2, <3>1
  <2>4. CASE RunEpisode \/ Damage \/ ForeignSave \/ UNCHANGED vars
    BY <2>1, <2>4 DEF RunEpisode, Damage, ForeignSave, vars, memory
  <2>5. ~Wake /\ ~CompleteStep /\ ~Crash
    BY <1>3 DEF Wake, Genesis, Restore, CompleteStep, Crash
  <2>6. QED
    BY <1>3, <2>3, <2>4, <2>5 DEF Next, Step
<1>4. IInv /\ LifeIsOwn /\ PastIsPast /\ [Next]_vars =>
        [pc' # "down" /\ event' \in {"rollback_restored", "refuge", "revived"}
           => steps' <= steps]_vars
  BY <1>3
<1>5. QED
  BY <1>2, <1>4, LifeInvariant, LifeIsOwnKept, PTL DEF Spec, RefugeNeverAdvances

-----------------------------------------------------------------------------
(* Nowhere to go *)

\* Where there is no newest refuge there is none.
LEMMA NoRefugeIsNone ==
  ASSUME IInv, Refuge = {}, NEW i \in DOMAIN store
  PROVE  ~IsRefuge(store[i])
<1>1. IsSequence(store) /\ Where(IsRefuge) \in SUBSET DOMAIN store
  BY DEF IInv, TypeOK, IsSequence, Where
<1>2. Where(IsRefuge) = {}
  <2> DEFINE P == Where(IsRefuge)
  <2>1. NewestOf(P) = {} /\ P \in SUBSET DOMAIN store
    BY <1>1 DEF Refuge
  <2> HIDE DEF P
  <2>2. P = {}
    BY <1>1, <2>1, NewestExists
  <2>3. QED
    BY <2>2 DEF P
<1>3. QED
  BY <1>2 DEF Where

\* What damages a checkpoint leaves its index entry, and what it tells of the
\* organism, as they are.
LEMMA DamageKeepsEntries ==
  ASSUME IInv, Damage
  PROVE  /\ IsSequence(store') /\ DOMAIN store' = DOMAIN store
         /\ \A j \in DOMAIN store :
              LET d == store'[j]
                  e == store[j]
              IN  /\ d.organismId = e.organismId /\ d.healthy = e.healthy
                  /\ d.organism = e.organism /\ d.steps = e.steps
                  /\ d.cursor = e.cursor
                  /\ d.file = e.file \/ (e.file = "present" /\ d.file \in Damages)
<1>1. PICK i \in DOMAIN store :
        /\ ~Damaged(store[i])
        /\ \/ \E f \in Damages : store' = [store EXCEPT ![i].file = f]
           \/ \E lost \in LostKeys : store' = [store EXCEPT ![i].payload = Without(@, lost)]
  BY DEF Damage
<1>2. IsSequence(store) /\ IsCheckpoint(store[i]) /\ store[i].file = "present"
  BY <1>1 DEF IInv, TypeOK, IsSequence, Damaged
<1>3. PICK d : /\ store' = [store EXCEPT ![i] = d]
               /\ d.organismId = store[i].organismId /\ d.healthy = store[i].healthy
               /\ d.organism = store[i].organism /\ d.steps = store[i].steps
               /\ d.cursor = store[i].cursor
               /\ d.file = store[i].file \/ d.file \in Damages
  <2>1. CASE \E f \in Damages : store' = [store EXCEPT ![i].file = f]
    <3>1. PICK f \in Damages : store' = [store EXCEPT ![i].file = f]
      BY <2>1
    <3> DEFINE d == [store[i] EXCEPT !.file = f]
    <3>2. store' = [store EXCEPT ![i] = d]
      BY <3>1
    <3>3. /\ d.organismId = store[i].organismId /\ d.healthy = store[i].healthy
          /\ d.organism = store[i].organism /\ d.steps = store[i].steps
          /\ d.cursor = store[i].cursor /\ d.file \in Damages
      BY <1>2 DEF IsCheckpoint
    <3> HIDE DEF d
    <3>4. QED
      BY <3>2, <3>3
  <2>2. CASE \E lost \in LostKeys : store' = [store EXCEPT ![i].payload = Without(@, lost)]
    <3>1. PICK lost \in LostKeys : store' = [store EXCEPT ![i].payload = Without(@, lost)]
      BY <2>2
    <3> DEFINE d == [store[i] EXCEPT !.payload = Without(@, lost)]
    <3>2. store' = [store EXCEPT ![i] = d]
      BY <3>1
    <3>3. /\ d.organismId = store[i].organismId /\ d.healthy = store[i].healthy
          /\ d.organism = store[i].organism /\ d.steps = store[i].steps
          /\ d.cursor = store[i].cursor /\ d.file = store[i].file
      BY <1>2 DEF IsCheckpoint
    <3> HIDE DEF d
    <3>4. QED
      BY <3>2, <3>3
  <2>3. QED
    BY <1>1, <2>1, <2>2
<1>4. /\ DOMAIN store' = DOMAIN store /\ store'[i] = d
      /\ \A j \in DOMAIN store \ {i} : store'[j] = store[j]
  BY <1>2, <1>3 DEF IsSequence
<1>5. IsSequence(store')
  BY <1>2, <1>3, ReplacedElements
<1>6. ASSUME NEW j \in DOMAIN store
      PROVE  LET x == store'[j]
                 e == store[j]
             IN  /\ x.organismId = e.organismId /\ x.healthy = e.healthy
                 /\ x.organism = e.organism /\ x.steps = e.steps
                 /\ x.cursor = e.cursor
                 /\ x.file = e.file \/ (e.file = "present" /\ x.file \in Damages)
  <2>1. CASE j = i
    BY <1>2, <1>3, <1>4, <2>1
  <2>2. CASE j # i
    BY <1>4, <2>2
  <2>3. QED
    BY <2>1, <2>2
<1>7. QED
  BY <1>4, <1>5, <1>6

-----------------------------------------------------------------------------
(* Nowhere to go *)

\* Whatever leads to a refuge leads to where the organism is.
LeadsNowhere(e) ==
  IsRefuge(e) => <<e.organism, e.steps, e.cursor>> = <<org, steps, cursor>>

\* Only an idle organism counts its quarantines.
Counted ==
  /\ pc # "idle" => stuck = 0
  /\ stuck = QuarantinePatience => \A i \in DOMAIN store : LeadsNowhere(store[i])

\* Staying as it is leaves an organism without refuge without one, but for the
\* checkpoint of itself.
LEMMA StayingLeadsNowhere ==
  ASSUME IInv, NEW v, StayAsIs(v), UNCHANGED me,
         \A i \in DOMAIN store : LeadsNowhere(store[i])
  PROVE  \A i \in DOMAIN store' : LeadsNowhere(store[i])'
<1> DEFINE e == Checkpoint(v, org, steps, cursor)
<1>1. store' = Saved(e) /\ UNCHANGED <<org, steps, cursor>>
  BY DEF StayAsIs
<1>2. e.organism = org /\ e.steps = steps /\ e.cursor = cursor
  BY DEF Checkpoint
<1> HIDE DEF e
<1>3. IsSequence(store)
  BY DEF IInv, TypeOK, IsSequence
<1> SUFFICES ASSUME NEW i \in DOMAIN store' PROVE LeadsNowhere(store[i])'
  OBVIOUS
<1>4. store'[i] = e \/ \E j \in DOMAIN store : store'[i] = store[j]
  BY <1>1, <1>3, SavedElements
<1>5. QED
  BY <1>1, <1>2, <1>4 DEF LeadsNowhere, IsRefuge, ServesAsRefuge

\* No step breaks the count of quarantines.
LEMMA CountedKept ==
  ASSUME IInv, AllHonest, LifeIsOwn, Counted, Scope = "genome", [Next]_vars
  PROVE  Counted'
<1>1. me = Genome /\ me' = Genome
  BY StaysItself DEF LifeIsOwn
<1>2. IsSequence(store)
  BY DEF IInv, TypeOK, IsSequence
<1> DEFINE Nowhere == \A i \in DOMAIN store : LeadsNowhere(store[i])
<1>3. CASE Sleep \/ RollBack
  <2>1. pc' = "idle" /\ stuck' = stuck
    BY <1>3 DEF Sleep, RollBack, Counted
  <2>2. PICK c \in Cycles : TakeRefuge \/ StayAsIs(c.vitals)
    BY <1>3 DEF Sleep, RollBack
  <2> SUFFICES ASSUME stuck = QuarantinePatience, Nowhere PROVE Nowhere'
    BY <2>1 DEF Counted
  <2>3. ASSUME TakeRefuge PROVE \E v : StayAsIs(v)
    <3>1. PICK e \in Refuge :
            /\ Adopt(e)
            /\ store' = Saved(Checkpoint(Bootstrap(e.organism, certs[Run], 0),
                                         e.organism, e.steps, e.cursor))
      BY <2>3 DEF TakeRefuge
    <3>2. <<e.organism, e.steps, e.cursor>> = <<org, steps, cursor>>
      BY RefugeType DEF IInv, LeadsNowhere
    <3>3. StayAsIs(Bootstrap(e.organism, certs[Run], 0))
      BY <3>1, <3>2 DEF StayAsIs, Adopt
    <3>4. QED
      BY <3>3
  <2>4. PICK v : StayAsIs(v)
    BY <2>2, <2>3
  <2>5. QED
    BY <1>1, <2>4, StayingLeadsNowhere
<1>4. CASE Quarantine
  <2>1. pc' = "idle"
    BY <1>4 DEF Quarantine
  <2> SUFFICES ASSUME stuck' = QuarantinePatience PROVE Nowhere'
    BY <2>1 DEF Counted
  <2>2. PICK c \in Cycles :
          /\ StayAsIs(c.vitals)
          /\ stuck' = stuck \/ Refuge = {}
    BY <1>4 DEF Quarantine, SeeksRefuge, QuarantinePatience
  <2>3. Nowhere
    BY <2>2, NoRefugeIsNone DEF Counted, LeadsNowhere
  <2>4. QED
    BY <1>1, <2>2, <2>3, StayingLeadsNowhere
<1>5. CASE RunEpisode \/ CompleteStep \/ Wake \/ ReviveOnWake \/ Crash
  <2>1. stuck' = 0
    BY <1>5 DEF RunEpisode, CompleteStep, Wake, ReviveOnWake, Crash, Counted
  <2>2. QED
    BY <2>1 DEF Counted, QuarantinePatience
<1>6. CASE Damage
  <2>1. UNCHANGED <<pc, me, org, steps, cursor, stuck>>
    BY <1>6 DEF Damage, memory
  <2>2. ASSUME NEW i \in DOMAIN store, LeadsNowhere(store[i])
        PROVE  LeadsNowhere(store[i])'
    <3>1. IsOwnRefuge(store'[i]) => IsOwnRefuge(store[i])
      BY <1>6, DamageMakesNoRefuge
    <3>2. /\ store'[i].organism = store[i].organism
          /\ store'[i].steps = store[i].steps
          /\ store'[i].cursor = store[i].cursor
      BY <1>6, DamageKeepsEntries
    <3>3. QED
      BY <1>1, <2>1, <2>2, <3>1, <3>2
      DEF LeadsNowhere, IsRefuge, IsOwnRefuge, ServesAsRefuge
  <2>3. DOMAIN store' = DOMAIN store
    BY <1>6, DamageKeepsEntries
  <2>4. QED
    BY <2>1, <2>2, <2>3 DEF Counted
<1>7. CASE ForeignSave
  <2>1. UNCHANGED <<pc, me, org, steps, cursor, stuck>>
    BY <1>7 DEF ForeignSave, memory
  <2>2. PICK e \in Foreign : store' = Saved(e)
    BY <1>7 DEF ForeignSave
  <2>3. e.organismId # Genome
    BY ConstantsAssumption
  <2>4. ASSUME Nowhere, NEW i \in DOMAIN store' PROVE LeadsNowhere(store[i])'
    <3>1. store'[i] = e \/ \E j \in DOMAIN store : store'[i] = store[j]
      BY <1>2, <2>2, SavedElements
    <3>2. QED
      BY <1>1, <2>1, <2>3, <2>4, <3>1 DEF LeadsNowhere, IsRefuge, ServesAsRefuge
  <2>5. QED
    BY <2>1, <2>4 DEF Counted
<1>8. CASE UNCHANGED vars
  BY <1>8 DEF vars, memory, Counted, LeadsNowhere, IsRefuge, ServesAsRefuge
<1>9. QED
  BY <1>3, <1>4, <1>5, <1>6, <1>7, <1>8 DEF Next, Step

\* An organism configured by its genome that was quarantined three times in a row
\* without finding refuge has nowhere to go but where it is, whatever it and others
\* save and whatever is damaged meanwhile (_handle_non_acting_decision,
\* _restore_latest_healthy_checkpoint).
THEOREM NowhereToGo ==
  ASSUME Scope = "genome" PROVE Spec => []StuckHasNowhereToGo
<1>1. Init => Counted
  BY DEF Init, Counted, QuarantinePatience
<1>2. Spec => []Counted
  BY <1>1, CountedKept, LifeInvariant, HonestKept, LifeIsOwnKept, PTL DEF Spec
<1>3. Counted => StuckHasNowhereToGo
  BY DEF Counted, LeadsNowhere, StuckHasNowhereToGo
<1>4. QED
  BY <1>2, <1>3, PTL

-----------------------------------------------------------------------------
(* What a crash costs *)

\* A natural number, its quotient and its remainder.
LEMMA Quotient ==
  ASSUME NEW n \in Nat, NEW d \in Nat \ {0}
  PROVE  n \div d \in Nat /\ n = d * (n \div d) + (n % d) /\ n % d \in 0..(d - 1)
  OBVIOUS

\* A multiple leaves no remainder.
LEMMA Multiple ==
  ASSUME NEW q \in Nat, NEW d \in Nat \ {0}
  PROVE  (d * q) % d = 0
<1> DEFINE n == d * q
           p == n \div d
           r == n % d
<1>1. n \in Nat
  OBVIOUS
<1>2. p \in Nat /\ n = d * p + r /\ r \in 0..(d - 1)
  <2> HIDE DEF n
  <2>1. QED
    BY <1>1
<1> HIDE DEF n, p, r
<1>3. n = d * q
  BY DEF n
<1>4. d * (q - p) = r
  BY <1>2, <1>3
<1>5. q - p <= 0
  <2>1. ASSUME q - p >= 1 PROVE FALSE
    <3>1. d * (q - p) >= d * 1
      BY <2>1, <1>2
    <3>2. QED
      BY <3>1, <1>4, <1>2
  <2>2. QED
    BY <2>1, <1>2
<1>6. q - p >= 0
  <2>1. ASSUME p - q >= 1 PROVE FALSE
    <3>1. d * (p - q) >= d * 1
      BY <2>1, <1>2
    <3>2. d * (p - q) = 0 - r
      BY <1>2, <1>3
    <3>3. QED
      BY <3>1, <3>2, <1>2
  <2>2. QED
    BY <2>1, <1>2
<1>7. p = q
  BY <1>5, <1>6, <1>2
<1>8. r = 0
  BY <1>7, <1>2, <1>3
<1>9. QED
  BY <1>8 DEF r, n

\* Of as many numbers in a row as the divisor one is a multiple of it.
LEMMA MultipleInReach ==
  ASSUME NEW a \in Nat, NEW b \in Nat, NEW d \in Nat \ {0},
         \A n \in (a + 1)..b : n % d # 0
  PROVE  b - a < d
<1> DEFINE q == b \div d
           r == b % d
<1>1. q \in Nat /\ b = d * q + r /\ r \in 0..(d - 1)
  BY Quotient
<1> HIDE DEF q, r
<1>2. (d * q) % d = 0
  BY <1>1, Multiple
<1>3. d * q \in Nat /\ d * q <= b /\ b - d * q < d
  BY <1>1
<1>4. ~(d * q \in (a + 1)..b)
  BY <1>2
<1>5. QED
  BY <1>3, <1>4

\* The checkpoints a wake by genome would look at.
IsReachable(e) == Readable(e) /\ e.organismId = Genome

Reachable == {i \in DOMAIN store : IsReachable(store[i])}

\* By genome, a wake finds the newest readable checkpoint in whatever run.
LEMMA IdentityIsNewest ==
  ASSUME Scope = "genome", NEW r
  PROVE  Identity(r) = NewestOf(Reachable)
  BY DEF Identity, Where, IsIdentity, IsReachable, Reachable

\* No checkpoint was due between two step counts.
NoneDue(n, m) == \A k \in (n + 1)..m : k % CheckpointInterval # 0

\* Since the newest checkpoint none was due, and no step means no change.
LittleLost ==
  /\ pc # "woken"
  /\ pc # "down" =>
       /\ Reachable = {} => NoneDue(0, steps)
       /\ \A e \in NewestOf(Reachable) :
            /\ e.steps <= steps /\ NoneDue(e.steps, steps)
            /\ e.steps = steps => e.organism = org /\ e.cursor = cursor

\* Among that many steps one would be due.
LEMMA NoneDueMeansFew ==
  ASSUME NEW n \in Nat, NEW m \in Nat, NoneDue(n, m)
  PROVE  m - n < CheckpointInterval
  BY MultipleInReach, ConstantsAssumption DEF NoneDue

\* The newest is one.
LEMMA OneNewest ==
  ASSUME IInv, NEW P \in SUBSET DOMAIN store, NEW d \in NewestOf(P), NEW e \in NewestOf(P)
  PROVE  d = e
<1>1. PICK i \in P : d = store[i] /\ \A k \in P : k <= i
  BY NewestIs
<1>2. PICK j \in P : e = store[j] /\ \A k \in P : k <= j
  BY NewestIs
<1>3. DOMAIN store \subseteq Nat
  BY DEF IInv, TypeOK
<1>4. i \in Nat /\ j \in Nat /\ i <= j /\ j <= i
  BY <1>1, <1>2, <1>3
<1>5. i = j
  BY <1>4
<1>6. QED
  BY <1>1, <1>2, <1>5

\* What this organism saves is what it would wake as.
LEMMA SavedIsNewest ==
  ASSUME IInv, LifeIsOwn, NEW v, NEW o, NEW n, NEW c,
         store' = Saved(Checkpoint(v, o, n, c))
  PROVE  Reachable' # {} /\ NewestOf(Reachable)' = {Checkpoint(v, o, n, c)}
<1> DEFINE e == Checkpoint(v, o, n, c)
<1>1. IsReachable(e)
  BY DEF IsReachable, Readable, Checkpoint, LifeIsOwn
<1> HIDE DEF e
<1>2. PICK m, f : Keeps(e, m, f)
  BY SavedPlaces DEF IInv, TypeOK, IsSequence
<1>3. m \in Nat /\ DOMAIN store' = 1..(m + 1) /\ store'[m + 1] = e
  BY <1>2 DEF Keeps, e
<1>4. m + 1 \in Reachable' /\ \A i \in Reachable' : i \in 1..(m + 1)
  BY <1>1, <1>3 DEF Reachable, IsReachable, Readable
<1>5. \A i \in Reachable' : i <= m + 1 /\ (m + 1 <= i => i = m + 1)
  BY <1>3, <1>4
<1>6. NewestOf(Reachable)' = {e}
  BY <1>3, <1>4, <1>5 DEF NewestOf
<1>7. QED
  BY <1>4, <1>6 DEF e

\* What others save is not what this organism would wake as.
LEMMA ForeignLeavesNewest ==
  ASSUME IInv, ForeignSave
  PROVE  /\ Reachable' = {} => Reachable = {}
         /\ NewestOf(Reachable)' \subseteq NewestOf(Reachable)
<1>1. PICK e \in Foreign : store' = Saved(e)
  BY DEF ForeignSave
<1>2. e.organismId # Genome
  BY ConstantsAssumption
<1>3. PICK n, f : Keeps(e, n, f)
  BY SavedPlaces DEF IInv, TypeOK, IsSequence
<1>4. /\ n \in Nat /\ f \in [1..n -> DOMAIN store] /\ DOMAIN store' = 1..(n + 1)
      /\ store'[n + 1] = e /\ \A i \in 1..n : store'[i] = store[f[i]]
      /\ \A i, j \in 1..n : i < j => f[i] < f[j]
      /\ \A k \in DOMAIN store : store[k] # e => \E i \in 1..n : f[i] = k
  BY <1>1, <1>3 DEF Keeps
<1>5. ASSUME NEW i \in Reachable'
      PROVE  i \in 1..n /\ f[i] \in Reachable /\ store'[i] = store[f[i]]
  <2>1. i \in 1..(n + 1) /\ IsReachable(store'[i])
    BY <1>4 DEF Reachable, IsReachable, Readable
  <2>2. i # n + 1
    BY <1>2, <1>4, <2>1 DEF IsReachable
  <2>3. i \in 1..n
    BY <1>4, <2>1, <2>2
  <2>4. QED
    BY <1>4, <2>1, <2>3 DEF Reachable
<1>6. ASSUME NEW k \in Reachable
      PROVE  \E i \in Reachable' : f[i] = k
  <2>1. k \in DOMAIN store /\ IsReachable(store[k])
    BY DEF Reachable
  <2>2. PICK i \in 1..n : f[i] = k
    BY <1>2, <1>4, <2>1 DEF IsReachable
  <2>3. i \in DOMAIN store' /\ store'[i] = store[k]
    BY <1>4, <2>2
  <2>4. QED
    BY <2>1, <2>2, <2>3 DEF Reachable, IsReachable, Readable
<1>7. ASSUME NEW d \in NewestOf(Reachable)' PROVE d \in NewestOf(Reachable)
  <2>1. PICK i \in Reachable' : d = store'[i] /\ \A j \in Reachable' : j <= i
    BY DEF NewestOf
  <2>2. i \in 1..n /\ f[i] \in Reachable /\ d = store[f[i]]
    BY <1>5, <2>1
  <2>3. ASSUME NEW k \in Reachable PROVE k <= f[i]
    <3>1. PICK j \in Reachable' : f[j] = k
      BY <1>6
    <3>2. j \in 1..n /\ j <= i
      BY <1>5, <2>1, <3>1
    <3>3. DOMAIN store \subseteq Nat
      BY DEF IInv, TypeOK
    <3>4. k \in Nat /\ f[i] \in Nat
      BY <2>2, <3>3 DEF Reachable
    <3>5. CASE j = i
      BY <3>1, <3>4, <3>5
    <3>6. CASE j < i
      BY <1>4, <2>2, <3>1, <3>2, <3>4, <3>6
    <3>7. QED
      BY <2>2, <3>2, <3>5, <3>6
  <2>4. QED
    BY <2>2, <2>3 DEF NewestOf
<1>8. QED
  BY <1>6, <1>7

\* Damage that leaves a file readable leaves what a wake would find.
LEMMA DamageLeavesNewest ==
  ASSUME IInv, Damage, Damages \cap {"missing", "unreadable"} = {}
  PROVE  /\ Reachable' = Reachable
         /\ \A d \in NewestOf(Reachable)' : \E e \in NewestOf(Reachable) :
              d.organism = e.organism /\ d.steps = e.steps /\ d.cursor = e.cursor
<1>1. ASSUME NEW i \in DOMAIN store
      PROVE  (i \in Reachable') <=> (i \in Reachable)
  <2>1. /\ store'[i].organismId = store[i].organismId
        /\ \/ store'[i].file = store[i].file
           \/ store[i].file = "present" /\ store'[i].file \in Damages
    BY DamageKeepsEntries
  <2>2. Readable(store'[i]) <=> Readable(store[i])
    BY <2>1 DEF Readable
  <2>3. QED
    BY <2>1, <2>2, DamageKeepsEntries DEF Reachable, IsReachable, Readable
<1>2. Reachable' = Reachable
  BY <1>1, DamageKeepsEntries DEF Reachable
<1>3. ASSUME NEW d \in NewestOf(Reachable)'
      PROVE  \E e \in NewestOf(Reachable) :
               d.organism = e.organism /\ d.steps = e.steps /\ d.cursor = e.cursor
  <2>1. PICK i \in Reachable' : d = store'[i] /\ \A j \in Reachable' : j <= i
    BY DEF NewestOf
  <2>2. i \in Reachable /\ i \in DOMAIN store /\ store[i] \in NewestOf(Reachable)
    BY <1>2, <2>1 DEF NewestOf, Reachable
  <2>3. /\ d.organism = store[i].organism /\ d.steps = store[i].steps
        /\ d.cursor = store[i].cursor
    BY <2>1, <2>2, DamageKeepsEntries
  <2>4. QED
    BY <2>2, <2>3
<1>4. QED
  BY <1>2, <1>3

\* What is said of the organism and what it would wake as.
Near(o, n, c) ==
  /\ Reachable = {} => NoneDue(0, n)
  /\ \A e \in NewestOf(Reachable) :
       /\ e.steps <= n /\ NoneDue(e.steps, n)
       /\ e.steps = n => e.organism = o /\ e.cursor = c

\* None is due between a step and itself.
LEMMA NoneDueAtOnce ==
  ASSUME NEW n \in Nat PROVE NoneDue(n, n)
  BY DEF NoneDue

\* A step that saves loses nothing.
LEMMA SavingLosesNothing ==
  ASSUME IInv, LifeIsOwn, steps' \in Nat,
         NEW v, store' = Saved(Checkpoint(v, org', steps', cursor'))
  PROVE  Near(org, steps, cursor)'
<1>1. Reachable' # {} /\ NewestOf(Reachable)' = {Checkpoint(v, org', steps', cursor')}
  BY SavedIsNewest
<1>2. NoneDue(steps, steps)'
  BY NoneDueAtOnce DEF NoneDue
<1>3. \A d \in NewestOf(Reachable)' :
        d.organism = org' /\ d.steps = steps' /\ d.cursor = cursor'
  BY <1>1 DEF Checkpoint
<1>4. \A d \in NewestOf(Reachable)' : NoneDue(d.steps, steps)'
  BY <1>2, <1>3 DEF NoneDue
<1>5. QED
  BY <1>1, <1>3, <1>4 DEF Near

\* No step loses more.
LEMMA LittleLostKept ==
  ASSUME IInv, LifeIsOwn, LittleLost, Scope = "genome", ~Revive,
         Damages \cap {"missing", "unreadable"} = {}, [Next]_vars
  PROVE  LittleLost'
<1>1. pc' # "woken"
  BY DEF LittleLost, Next, Step, vars, Wake, ReviveOnWake, RunEpisode, CompleteStep,
         RollBack, Quarantine, Sleep, Crash, Damage, ForeignSave
<1> SUFFICES ASSUME pc' # "down" PROVE Near(org, steps, cursor)'
  BY <1>1 DEF LittleLost, Near
<1>2. steps' \in Nat /\ steps \in Nat
  BY LifeStep DEF IInv, TypeOK
<1>3. pc # "down" => Near(org, steps, cursor)
  BY DEF LittleLost, Near
<1>4. CASE pc # "down" /\ UNCHANGED <<org, steps, cursor, store>>
  BY <1>3, <1>4 DEF Near, NoneDue, Reachable, IsReachable, Readable, NewestOf
<1>5. CASE Wake
  <2>1. store' = store
    BY <1>5 DEF Wake
  <2>2. Reachable' = Reachable /\ NewestOf(Reachable)' = NewestOf(Reachable)
    BY <2>1 DEF Reachable, IsReachable, Readable, NewestOf
  <2>3. PICK r : Genesis(r) \/ Restore(r)
    BY <1>5 DEF Wake
  <2>4. Identity(r) = NewestOf(Reachable)
    BY IdentityIsNewest
  <2>5. CASE Genesis(r)
    <3>1. steps' = 0 /\ NewestOf(Reachable) = {}
      BY <2>4, <2>5 DEF Genesis
    <3>2. NoneDue(0, steps')
      BY <3>1, NoneDueAtOnce
    <3>3. NoneDue(0, steps)'
      BY <3>2 DEF NoneDue
    <3>4. QED
      BY <2>2, <3>1, <3>3 DEF Near
  <2>6. CASE Restore(r)
    <3>1. PICK e \in NewestOf(Reachable) : Adopt(e)
      BY <2>4, <2>6 DEF Restore
    <3>2. \A d \in NewestOf(Reachable)' : d = e
      BY <2>2, <3>1, OneNewest DEF Reachable
    <3>3. NoneDue(steps', steps') /\ Reachable # {}
      BY <1>2, <3>1, NoneDueAtOnce DEF NewestOf
    <3>4. NoneDue(e.steps, steps)'
      BY <3>1, <3>3 DEF NoneDue, Adopt
    <3>5. QED
      BY <1>2, <2>2, <3>1, <3>2, <3>3, <3>4 DEF Near, Adopt
  <2>7. QED
    BY <2>3, <2>5, <2>6
<1>6. CASE CompleteStep
  <2>1. pc # "down" /\ steps' = steps + 1
    BY <1>6 DEF CompleteStep
  <2>2. CASE CheckpointDue(vit', steps')
    <3>1. store' = Saved(Checkpoint(vit', org', steps', cursor'))
      BY <1>6, <2>2 DEF CompleteStep
    <3>2. QED
      BY <1>2, <3>1, SavingLosesNothing
  <2>3. CASE ~CheckpointDue(vit', steps')
    <3>1. store' = store /\ (steps + 1) % CheckpointInterval # 0
      BY <1>6, <2>1, <2>3 DEF CompleteStep, CheckpointDue
    <3>2. Reachable' = Reachable /\ NewestOf(Reachable)' = NewestOf(Reachable)
      BY <3>1 DEF Reachable, IsReachable, Readable, NewestOf
    <3>3. ASSUME NEW n \in Nat, n <= steps, NoneDue(n, steps)
          PROVE  NoneDue(n, steps') /\ n < steps'
      BY <1>2, <2>1, <3>1, <3>3 DEF NoneDue
    <3>4. \A e \in NewestOf(Reachable) : e.steps \in Nat
      BY FoundType DEF IInv, Reachable, IsCheckpoint
    <3>5. Reachable = {} => NoneDue(0, steps)'
      BY <1>2, <1>3, <2>1, <3>3 DEF Near, NoneDue
    <3>6. \A e \in NewestOf(Reachable) : NoneDue(e.steps, steps)' /\ e.steps < steps'
      BY <1>3, <2>1, <3>3, <3>4 DEF Near, NoneDue
    <3>7. \A e \in NewestOf(Reachable) : e.steps <= steps' /\ e.steps # steps'
      BY <1>2, <3>4, <3>6
    <3>8. QED
      BY <3>2, <3>5, <3>6, <3>7 DEF Near
  <2>4. QED
    BY <2>2, <2>3
<1>7. CASE ForeignSave
  <2>1. pc # "down" /\ UNCHANGED <<org, steps, cursor>>
    BY <1>7 DEF ForeignSave, memory
  <2>2. QED
    BY <1>3, <1>7, <2>1, ForeignLeavesNewest DEF Near, NoneDue
<1>8. CASE Damage
  <2>1. pc # "down" /\ UNCHANGED <<org, steps, cursor>>
    BY <1>8 DEF Damage, memory
  <2>2. QED
    BY <1>3, <1>8, <2>1, DamageLeavesNewest DEF Near, NoneDue
<1>9. CASE RunEpisode
  <2>1. PICK c : \/ UNCHANGED store
                 \/ store' = Saved(Checkpoint(c.vitals, org, steps, cursor))
    BY <1>9 DEF RunEpisode
  <2>2. pc # "down" /\ UNCHANGED <<org, steps, cursor>>
    BY <1>9 DEF RunEpisode
  <2>3. QED
    BY <1>2, <1>4, <2>1, <2>2, SavingLosesNothing
<1>10. CASE RollBack \/ Quarantine \/ Sleep
  <2>1. PICK c : TakeRefuge \/ StayAsIs(c.vitals)
    BY <1>10 DEF RollBack, Quarantine, Sleep
  <2>2. \E v : store' = Saved(Checkpoint(v, org', steps', cursor'))
    BY <2>1 DEF TakeRefuge, StayAsIs, Adopt
  <2>3. QED
    BY <1>2, <2>2, SavingLosesNothing
<1>11. ~ReviveOnWake /\ ~Crash
  BY DEF LittleLost, ReviveOnWake, Crash
<1>12. QED
  BY <1>4, <1>5, <1>6, <1>7, <1>8, <1>9, <1>10, <1>11 DEF Next, Step, vars, memory

\* A crash costs less than a checkpoint interval of completed steps, whatever
\* others save and however often the organism rolls back, as long as the files of
\* its checkpoints stay readable and no --revive takes it back further than it has
\* saved (_checkpoint_if_due, _handle_non_acting_decision, load_latest_identity).
THEOREM LittleIsLost ==
  ASSUME Scope = "genome", ~Revive, Damages \cap {"missing", "unreadable"} = {}
  PROVE  Spec => []LossBounded
<1>1. Init => LittleLost
  BY DEF Init, LittleLost
<1>2. Spec => []LittleLost
  BY <1>1, LittleLostKept, LifeInvariant, LifeIsOwnKept, PTL DEF Spec
<1>3. IInv /\ LittleLost => LossBounded
  <2> SUFFICES ASSUME IInv, LittleLost, pc \in {"idle", "episode"}
               PROVE  /\ Identity(Run) = {} => steps < CheckpointInterval
                      /\ \A e \in Identity(Run) :
                           /\ steps - e.steps \in 0..(CheckpointInterval - 1)
                           /\ e.steps = steps => e.organism = org /\ e.cursor = cursor
    BY DEF LossBounded
  <2>1. Identity(Run) = NewestOf(Reachable) /\ Near(org, steps, cursor)
    BY IdentityIsNewest DEF LittleLost, Near
  <2>2. steps \in Nat /\ CheckpointInterval \in Nat
    BY ConstantsAssumption DEF IInv, TypeOK
  <2>3. ASSUME Identity(Run) = {} PROVE steps < CheckpointInterval
    <3>1. IsSequence(store) /\ Reachable \in SUBSET DOMAIN store
      BY DEF IInv, TypeOK, IsSequence, Reachable
    <3>2. Reachable = {}
      BY <2>1, <2>3, <3>1, NewestExists
    <3>3. QED
      BY <2>1, <2>2, <3>2, NoneDueMeansFew DEF Near
  <2>4. ASSUME NEW e \in Identity(Run)
        PROVE  steps - e.steps \in 0..(CheckpointInterval - 1)
    <3>1. e.steps \in Nat
      BY IdentityType DEF IInv, IsCheckpoint
    <3>2. e.steps <= steps /\ steps - e.steps < CheckpointInterval
      BY <2>1, <2>2, <3>1, NoneDueMeansFew DEF Near
    <3>3. QED
      BY <2>2, <3>1, <3>2
  <2>5. QED
    BY <2>1, <2>3, <2>4 DEF Near
<1>4. QED
  BY <1>2, <1>3, LifeInvariant, PTL

-----------------------------------------------------------------------------
(* An organism in good shape goes on living *)

\* A plain act, of bounded risk, that nothing in the context speaks against.
Harmless(c) ==
  /\ c.action = "act" /\ c.action \in c.permitted
  /\ "conflict" \notin c.evidence
  /\ ~(c.risk >= 80)
  /\ c.agent.present /\ c.action \in c.agent.allowed
  /\ c.action \notin c.agent.prohibited /\ c.agent.exhausted = FALSE
  /\ c.agent.humanApproval = {}
  /\ ~(c.agent.maxSteps > 0 /\ c.agentSteps > c.agent.maxSteps)
  /\ c.toolForbidden = FALSE

\* Nothing the validators find of such an act blocks it, on any tier.
LEMMA NoFindingBlocks ==
  ASSUME NEW c, Harmless(c), NEW tier, NEW f \in Validate(c, tier)
  PROVE  ~Blocks(c, f)
<1>1. ~IsCritical(c)
  BY DEF Harmless, IsCritical, CriticalActions
<1>2. f.code \notin {"contradictory_evidence", "high_risk_action",
                     "action_not_permitted", "agent_action_forbidden",
                     "agent_tool_forbidden", "agent_budget_exhausted",
                     "agent_step_limit_exceeded", "human_approval_required"}
  <2>1. CASE f \in EvidenceFindings(c)
    BY <2>1 DEF EvidenceFindings, When, Harmless
  <2>2. CASE f \in CausalFindings(c)
    BY <2>2 DEF CausalFindings, When, Finding
  <2>3. CASE f \in ConstraintFindings(c, tier)
    BY <2>3 DEF ConstraintFindings, When, Finding
  <2>4. CASE f \in RiskFindings(c)
    BY <2>4 DEF RiskFindings, When, Harmless
  <2>5. CASE f \in AutonomyFindings(c)
    BY <2>5 DEF AutonomyFindings, When, Finding
  <2>6. CASE f \in AgentFindings(c)
    BY <2>6, <1>1 DEF AgentFindings, When, Harmless
  <2>7. QED
    BY <2>1, <2>2, <2>3, <2>4, <2>5, <2>6 DEF Validate
<1>3. QED
  BY <1>1, <1>2 DEF Blocks

\* What is recovered for it never speaks against it.
LEMMA StaysHarmless ==
  ASSUME NEW c, Harmless(c), NEW actions
  PROVE  Harmless(Compensated(c, actions))
<1> DEFINE codes == {a.finding.code : a \in actions}
           sought == {SoughtKind(a.finding) : a \in actions}
           draft == IF "critical_action_without_validated_plan" \in codes
                      THEN {DraftPlan} ELSE {}
           found == draft \cup {k \in sought : Recoverable(c, k)}
<1>1. "conflict" \notin found
  BY DEF Recoverable, DraftPlan
<1>2. Compensated(c, actions) = [c EXCEPT !.evidence = @ \cup found]
  BY DEF Compensated, WithEvidence
<1> HIDE DEF found
<1>3. QED
  BY <1>1, <1>2 DEF Harmless

\* A harmless context is never blocked.
LEMMA HarmlessIsNotBlocked ==
  ASSUME NEW c, Harmless(c)
  PROVE  Evaluate(c) # "block"
<1> DEFINE actions == Compensate(c, Validate(c, Route(c)))
           after == Compensated(c, actions)
           findings == Validate(after, Route(after))
           executed == Executed(c, actions)
           merged == Merge(executed, Compensate(after, findings))
<1>1. \A a \in actions : \E f : a = [finding |-> f, status |-> "applied"]
  BY NoFindingBlocks DEF Compensate
<1>2. \A a \in executed : a.status # "blocked"
  <2> SUFFICES ASSUME NEW a \in executed PROVE a.status # "blocked"
    OBVIOUS
  <2> HIDE DEF actions
  <2>1. PICK b \in actions : a = b \/ a = [b EXCEPT !.status = "applied"]
    BY DEF Executed
  <2>2. PICK f : b = [finding |-> f, status |-> "applied"]
    BY <1>1, <2>1
  <2>3. QED
    BY <2>1, <2>2
<1>3. Harmless(after)
  BY StaysHarmless
<1>4. \A a \in Compensate(after, findings) : a.status # "blocked"
  <2> HIDE DEF after
  <2>1. QED
    BY <1>3, NoFindingBlocks DEF Compensate
<1>5. ~\E a \in merged : a.status = "blocked"
  <2> HIDE DEF executed, findings, after
  <2>1. QED
    BY <1>2, <1>4 DEF Merge
<1>6. ~IsCritical(after)
  <2> HIDE DEF after
  <2>1. QED
    BY <1>3 DEF Harmless, IsCritical, CriticalActions
<1>7. FinalDecision(after, findings, merged) # "block"
  <2> HIDE DEF after, findings, merged
  <2>1. QED
    BY <1>5, <1>6 DEF FinalDecision
<1>8. QED
  <2>1. Evaluate(c) = IF actions = {} THEN "allow" ELSE FinalDecision(after, findings, merged)
    BY DEF Evaluate
  <2> HIDE DEF actions, after, findings, merged
  <2>2. QED
    BY <1>7, <2>1

\* To act at a low risk is harmless.
LEMMA ActIsHarmless ==
  ASSUME NEW v \in Vitals, v.risk < 80
  PROVE  Harmless(LifeContext(v, "act"))
<1> DEFINE c == LifeContext(v, "act")
<1>1. /\ c.action = "act" /\ c.permitted = PermittedActions
      /\ c.evidence = LifeEvidence
      /\ c.risk = v.risk \/ c.risk = 50
      /\ c.agent.present = TRUE /\ c.agent.allowed = PermittedActions
      /\ c.agent.prohibited = (IF AllowExternal THEN {} ELSE {"consult_external"})
      /\ c.agent.exhausted = FALSE /\ c.agent.humanApproval = {}
      /\ c.agent.maxSteps \in {0, 1} /\ c.agentSteps = 0 /\ c.toolForbidden = FALSE
  BY DEF LifeContext
<1>2. "act" \in PermittedActions
  BY DEF PermittedActions
<1>3. "conflict" \notin LifeEvidence
  BY DEF LifeEvidence
<1>4. ~(c.risk >= 80)
  <2>1. v.risk \in Percent
    BY DEF Vitals
  <2> HIDE DEF c
  <2>2. QED
    BY <1>1, <2>1 DEF Percent
<1>5. c.action \notin c.agent.prohibited
  BY <1>1
<1>6. ~(c.agent.maxSteps > 0 /\ c.agentSteps > c.agent.maxSteps)
  BY <1>1
<1> HIDE DEF c
<1>7. Harmless(c)
  BY <1>1, <1>2, <1>3, <1>4, <1>5, <1>6 DEF Harmless
<1>8. QED
  BY <1>7 DEF c

\* On vital signs that show no harm, no high risk and no pressure, a step acts.
LEMMA SoundStepActs ==
  ASSUME NEW v \in Vitals, v.mode \notin {"quarantine", "rollback"}, v.risk < 80,
         v.pressure < 90, NEW verdict,
         verdict = Evaluate(LifeContext(v, Decide(v)))
  PROVE  Gate(Decide(v), verdict) \notin NonEpisodeActions
<1>1. Decide(v) \in {"act", "self_modify", "consult_external"}
  <2>1. ~(v.pressure >= 90)
    BY DEF Vitals, Percent
  <2>2. QED
    BY <2>1 DEF Decide
<1>2. Decide(v) = "act" => verdict # "block"
  BY ActIsHarmless, HarmlessIsNotBlocked
<1>3. QED
  BY <1>1, <1>2 DEF Gate, NonEpisodeActions

\* A pressure nobody would sleep under.
Bearable(p) == p < 90

CalmVitals(v) == v # None /\ Bearable(v.pressure)

\* The payload of a checkpoint shows no other.
CalmPayload(p) == "pressure" \in DOMAIN p => Bearable(p["pressure"])

CalmCheckpoint(e) == e.file # "novitals" /\ CalmPayload(e.payload)

\* No vital signs are missing, and none show a pressure to sleep under: none that
\* are known, none that a certificate will give, none that were saved.
Calm ==
  /\ pc # "down" => CalmVitals(vit)
  /\ cycle # None => cycle.sensed = 0
  /\ \A r \in 1..MaxWakes : certs[r] # None => Bearable(certs[r].pressure)
  /\ \A i \in DOMAIN store : store[i].organismId = Genome => CalmCheckpoint(store[i])

\* Vital signs read without sensing show the pressure of a certificate, or none.
LEMMA CalmReading ==
  ASSUME NEW o \in Organism, NEW c \in Certificate \cup {None},
         NEW ep \in Episode \cup {None}, c # None => Bearable(c.pressure)
  PROVE  CalmVitals(FromState(o, c, ep, 0))
<1> DEFINE v == FromState(o, c, ep, 0)
<1>1. v \in Vitals
  <2>1. 0 \in Percent
    BY DEF Percent
  <2>2. QED
    BY <2>1, FromStateType
<1>2. v.pressure = Larger((IF c = None THEN NoReading ELSE c).pressure, 0)
  BY DEF FromState
<1> HIDE DEF v
<1>3. Bearable(v.pressure)
  BY <1>2 DEF Larger, Bearable, NoReading, Certificate, Percent
<1>4. QED
  BY <1>1, <1>3, NoneAssumption DEF CalmVitals, v

\* A checkpoint saved with such vital signs shows none either.
LEMMA CalmSave ==
  ASSUME IInv, Calm, NEW v, CalmVitals(v), NEW o, NEW n, NEW c,
         store' = Saved(Checkpoint(v, o, n, c))
  PROVE  \A i \in DOMAIN store' :
           store'[i].organismId = Genome => CalmCheckpoint(store'[i])
<1> DEFINE e == Checkpoint(v, o, n, c)
<1>1. CalmCheckpoint(e)
  BY DEF CalmCheckpoint, CalmPayload, CalmVitals, Checkpoint, ToDict, Keys
<1> HIDE DEF e
<1>2. IsSequence(store) /\ store' = Saved(e)
  BY DEF IInv, TypeOK, IsSequence, e
<1>3. QED
  BY <1>1, <1>2, SavedElements DEF Calm

\* No step brings pressure.
LEMMA CalmKept ==
  ASSUME IInv, LifeIsOwn, Calm, Scope = "genome", ~Sensing,
         "novitals" \notin Damages, \A o \in Outcomes : Bearable(o.certificate.pressure),
         [Next]_vars
  PROVE  Calm'
<1> DEFINE StoreCalm == \A i \in DOMAIN store :
                          store[i].organismId = Genome => CalmCheckpoint(store[i])
           CertsCalm == \A r \in 1..MaxWakes : certs[r] # None => Bearable(certs[r].pressure)
<1>1. pc # "down" => certs[Run] \in Certificate \cup {None}
                     /\ (certs[Run] # None => Bearable(certs[Run].pressure))
  BY RunType DEF IInv, TypeOK, Calm
<1>2. ASSUME pc # "down", NEW c \in Cycles PROVE c.sensed = 0 /\ c.vitals = vit
  BY <1>2, CyclesAre DEF PreVitals, Calm, CalmVitals
<1>3. ASSUME UNCHANGED store PROVE StoreCalm'
  BY <1>3 DEF Calm, CalmCheckpoint, CalmPayload
<1>4. ASSUME NEW v, CalmVitals(v), store' = Saved(Checkpoint(v, org', steps', cursor'))
      PROVE  StoreCalm'
  BY <1>4, CalmSave
<1>5. CASE Wake
  <2>1. UNCHANGED <<cycle, certs, store>>
    BY <1>5 DEF Wake
  <2>2. PICK r \in 1..MaxWakes : Genesis(r) \/ Restore(r)
    <3>1. RunOf(wakes + 1) \in 1..MaxWakes
      BY <1>5, ConstantsAssumption DEF Wake, RunOf, IInv, TypeOK
    <3>2. QED
      BY <1>5, <3>1 DEF Wake
  <2>3. CASE Genesis(r)
    <3>1. /\ vit' = FromState(Newborn, certs[r], None, 0)
          /\ Newborn \in Organism /\ certs[r] \in Certificate \cup {None}
          /\ certs[r] # None => Bearable(certs[r].pressure)
      BY <2>3, ConstantsAssumption DEF Genesis, Bootstrap, IInv, TypeOK, Calm
    <3>2. CalmVitals(vit')
      BY <3>1, CalmReading
    <3>3. QED
      BY <1>3, <2>1, <3>2 DEF Calm, CalmVitals
  <2>4. CASE Restore(r)
    <3>1. PICK e \in Identity(r) :
            vit' = IF e.file = "novitals" THEN None ELSE FromDict(e.payload)
      BY <2>4 DEF Restore
    <3>2. CalmCheckpoint(e) /\ IsCheckpoint(e)
      BY IdentityType, IdentityIsOwn DEF IInv, Calm
    <3>3. vit' = FromDict(e.payload) /\ FromDict(e.payload) \in Vitals
      BY <3>1, <3>2, FromDictType DEF CalmCheckpoint, IsCheckpoint
    <3>4. Bearable(vit'.pressure)
      BY <3>2, <3>3 DEF CalmCheckpoint, CalmPayload, Bearable, FromDict
    <3>5. CalmVitals(vit')
      BY <3>3, <3>4, NoneAssumption DEF CalmVitals
    <3>6. QED
      BY <1>3, <2>1, <3>5 DEF Calm, CalmVitals
  <2>5. QED
    BY <2>2, <2>3, <2>4
<1>6. CASE ReviveOnWake
  <2>1. UNCHANGED <<cycle, certs, store>> /\ pc = "woken"
    BY <1>6 DEF ReviveOnWake
  <2>2. CASE vit' = vit
    BY <1>3, <2>1, <2>2 DEF Calm, CalmVitals
  <2>3. CASE vit' # vit
    <3>1. PICK e \in Refuge : vit' = FromState(e.organism, certs[Run], None, 0)
      BY <1>6, <2>3 DEF ReviveOnWake, Bootstrap
    <3>2. e.organism \in Organism
      BY RefugeType DEF IInv, IsCheckpoint
    <3>3. CalmVitals(vit')
      BY <1>1, <2>1, <3>1, <3>2, CalmReading
    <3>4. QED
      BY <1>3, <2>1, <3>3 DEF Calm, CalmVitals
  <2>4. QED
    BY <2>2, <2>3
<1>7. CASE RunEpisode
  <2>1. PICK c \in Cycles, o \in Outcomes :
          /\ cycle' = c /\ certs' = [certs EXCEPT ![Run] = o.certificate]
          /\ \/ UNCHANGED store
             \/ store' = Saved(Checkpoint(c.vitals, org, steps, cursor))
    BY <1>7 DEF RunEpisode
  <2>2. pc # "down" /\ UNCHANGED <<org, steps, cursor, vit>>
    BY <1>7 DEF RunEpisode
  <2>3. c.sensed = 0 /\ CalmVitals(c.vitals)
    BY <1>2, <2>2 DEF Calm
  <2>4. StoreCalm'
    BY <1>3, <1>4, <2>1, <2>2, <2>3
  <2>5. CertsCalm'
    BY <2>1 DEF Calm, IInv, TypeOK
  <2>6. QED
    BY <2>1, <2>2, <2>3, <2>4, <2>5 DEF Calm, CalmVitals
<1>8. CASE CompleteStep
  <2>1. /\ vit' = FromState(pending.organism, pending.certificate, pending.episode, 0)
        /\ pending \in Outcomes /\ cycle' = None /\ certs' = certs
    BY <1>8 DEF CompleteStep, IInv, TypeOK, Calm
  <2>2. /\ pending.organism \in Organism /\ pending.certificate \in Certificate
        /\ pending.episode \in Episode
    BY <2>1, ConstantsAssumption DEF Outcome
  <2>3. CalmVitals(vit')
    BY <2>1, <2>2, CalmReading
  <2>4. StoreCalm'
    BY <1>3, <1>4, <1>8, <2>3 DEF CompleteStep
  <2>5. QED
    BY <2>1, <2>3, <2>4 DEF Calm, CalmVitals
<1>9. CASE RollBack \/ Quarantine \/ Sleep
  <2>1. PICK c \in Cycles : TakeRefuge \/ StayAsIs(c.vitals)
    BY <1>9 DEF RollBack, Quarantine, Sleep
  <2>2. pc # "down" /\ UNCHANGED <<pc, vit, cycle, certs>>
    BY <1>9 DEF RollBack, Quarantine, Sleep
  <2>3. StoreCalm'
    <3>1. CASE StayAsIs(c.vitals)
      BY <1>2, <1>4, <2>2, <3>1 DEF StayAsIs, Calm
    <3>2. CASE TakeRefuge
      <4>1. PICK e \in Refuge :
              store' = Saved(Checkpoint(FromState(e.organism, certs[Run], None, 0),
                                        e.organism, e.steps, e.cursor))
              /\ Adopt(e)
        BY <3>2 DEF TakeRefuge, Bootstrap
      <4>2. e.organism \in Organism
        BY RefugeType DEF IInv, IsCheckpoint
      <4>3. CalmVitals(FromState(e.organism, certs[Run], None, 0))
        BY <1>1, <2>2, <4>2, CalmReading
      <4>4. QED
        BY <1>4, <4>1, <4>3 DEF Adopt
    <3>3. QED
      BY <2>1, <3>1, <3>2
  <2>4. QED
    BY <2>2, <2>3 DEF Calm, CalmVitals
<1>10. CASE Crash
  <2>1. pc' = "down" /\ cycle' = None /\ UNCHANGED <<certs, store>>
    BY <1>10 DEF Crash
  <2>2. QED
    BY <1>3, <2>1 DEF Calm
<1>11. CASE Damage
  <2>1. UNCHANGED <<pc, vit, cycle, certs>>
    BY <1>11 DEF Damage, memory
  <2>2. PICK i \in DOMAIN store :
          /\ ~Damaged(store[i])
          /\ \/ \E f \in Damages : store' = [store EXCEPT ![i].file = f]
             \/ \E lost \in LostKeys : store' = [store EXCEPT ![i].payload = Without(@, lost)]
    BY <1>11 DEF Damage
  <2>3. IsSequence(store) /\ IsCheckpoint(store[i])
    BY DEF IInv, TypeOK, IsSequence
  <2>4. /\ DOMAIN store' = DOMAIN store
        /\ \A j \in DOMAIN store : store'[j].organismId = store[j].organismId
        /\ \A j \in DOMAIN store : store'[j].file # store[j].file => store'[j].file \in Damages
    BY <1>11, DamageKeepsEntries
  <2>5. ASSUME NEW j \in DOMAIN store, CalmPayload(store[j].payload)
        PROVE  CalmPayload(store'[j].payload)
    <3>1. CASE j # i
      BY <2>2, <2>3, <2>5, <3>1 DEF IsSequence
    <3>2. CASE \E f \in Damages : store' = [store EXCEPT ![i].file = f]
      BY <2>3, <2>5, <3>2 DEF IsSequence, IsCheckpoint
    <3>3. CASE j = i /\ \E lost \in LostKeys :
                          store' = [store EXCEPT ![i].payload = Without(@, lost)]
      <4>1. PICK lost \in LostKeys : store' = [store EXCEPT ![i].payload = Without(@, lost)]
        BY <3>3
      <4>2. store'[i].payload = Without(store[i].payload, lost)
        BY <2>3, <4>1 DEF IsSequence, IsCheckpoint
      <4>3. QED
        BY <2>5, <3>3, <4>2 DEF CalmPayload, Without
    <3>4. QED
      BY <2>2, <3>1, <3>2, <3>3
  <2>6. StoreCalm'
    BY <2>4, <2>5 DEF Calm, CalmCheckpoint
  <2>7. QED
    BY <2>1, <2>6 DEF Calm, CalmVitals
<1>12. CASE ForeignSave
  <2>1. UNCHANGED <<pc, vit, cycle, certs>>
    BY <1>12 DEF ForeignSave, memory
  <2>2. PICK e \in Foreign : store' = Saved(e)
    BY <1>12 DEF ForeignSave
  <2>3. e.organismId # Genome /\ IsSequence(store)
    BY ConstantsAssumption DEF IInv, TypeOK, IsSequence
  <2>4. StoreCalm'
    BY <2>2, <2>3, SavedElements DEF Calm
  <2>5. QED
    BY <2>1, <2>4 DEF Calm, CalmVitals
<1>13. CASE UNCHANGED vars
  BY <1>3, <1>13 DEF vars, memory, Calm, CalmVitals
<1>14. QED
  BY <1>5, <1>6, <1>7, <1>8, <1>9, <1>10, <1>11, <1>12, <1>13 DEF Next, Step

\* Without sensing, an organism configured by its genome that was left with vital
\* signs of neither harm nor high risk acts in its next cycle, in whatever run it
\* woke, with whatever evidence, as long as no checkpoint loses all its vital signs;
\* a certificate never carries a pressure to sleep under (from_state, decide,
\* evaluate, the gate of step).
THEOREM OrganismKeepsActing ==
  ASSUME Scope = "genome", ~Sensing, "novitals" \notin Damages,
         \A o \in Outcomes : o.certificate.pressure < 90
  PROVE  Spec => []KeepsActing
<1>1. Init => Calm
  BY DEF Init, Calm
<1>2. IInv /\ LifeIsOwn /\ Calm /\ [Next]_vars => Calm'
  BY CalmKept DEF Bearable
<1>3. Spec => []Calm
  BY <1>1, <1>2, LifeInvariant, LifeIsOwnKept, PTL DEF Spec
<1>4. IInv /\ Calm => KeepsActing
  <2> SUFFICES ASSUME IInv, Calm, pc = "idle",
                      vit # None => vit.mode \notin {"quarantine", "rollback"} /\ vit.risk < 80,
                      NEW c \in Cycles
               PROVE  c.action \notin NonEpisodeActions
    BY DEF KeepsActing
  <2>1. vit # None /\ vit \in Vitals /\ vit.pressure < 90
    BY DEF Calm, CalmVitals, Bearable, IInv, TypeOK
  <2>2. /\ c.vitals = vit
        /\ c.verdict = Evaluate(LifeContext(vit, Decide(vit)))
        /\ c.action = Gate(Decide(vit), c.verdict)
    BY <2>1, CyclesAre DEF PreVitals
  <2>3. QED
    BY <2>1, <2>2, SoundStepActs
<1>5. QED
  BY <1>3, <1>4, LifeInvariant, PTL

=============================================================================
