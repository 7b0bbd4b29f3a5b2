----------------------------- MODULE LifeKernel -----------------------------
(***************************************************************************)
(* The sovereign life kernel, runtime/life/kernel.py, with the supervisor, *)
(* the vital signs, the operational conjunction and the checkpoint store   *)
(* it drives: one organism that wakes, decides, lives episodes, sleeps, is *)
(* quarantined, rolls back to its last healthy self, is killed at any      *)
(* moment and wakes again, on a store other organisms also write to.       *)
(*                                                                         *)
(* Left out: goals (they steer only exploration, which the survival goal's *)
(* priority excludes), MSRC and the neural state, lessons and memories,    *)
(* the trace.  Scenario names are known to the registry.  Only whether an  *)
(* organism ever lived an episode is told apart, so episodes is 0 or 1.    *)
(* Storage calls succeed, and a search reaches every checkpoint: the       *)
(* window of 400 entries the artifact index is read through is left out.   *)
(***************************************************************************)
EXTENDS VitalSigns, Conjunction, Sequences, SequencesExt

CONSTANTS
  Genome,              \* the organism_id of this organism
  Newborn,             \* its organism state at genesis
  Outcomes,            \* what an episode may bring
  Foreign,             \* checkpoints other organisms may save to the store
  Scope,               \* how a wake looks for its identity: "genome", "run", "any"
  FixedRun,            \* config.run_id is given: every process is the same run
  Revive,              \* scripts/life_kernel.py --revive
  Sensing,             \* RNFE_HOST_SENSING or a resource snapshot override
  Pressures,           \* what the sensors may read, if sensing
  Experience,          \* RNFE_EXPERIENCE: the store of past blows
  AllowExternal,       \* config.allow_external_reasoner
  WantsUnbounded,      \* config.autonomy_policy asks for unbounded autonomy
  MaxTier,             \* config.max_compute_tier, as its rank
  BlockSize,           \* config.block_size
  CheckpointInterval,  \* config.checkpoint_interval
  Damages,             \* what may happen to a checkpoint's file
  LostKeys,            \* sets of keys a checkpoint's vital signs may lose
  MaxDamages,          \* bound on damaged checkpoints
  MaxWakes,            \* bound on processes started
  MaxSteps             \* bound on steps lived

VARIABLES
  pc,        \* "down", "woken" (before --revive), "idle" or "episode"
  wakes,     \* how many processes have been started
  me,        \* self.organism_id
  org,       \* self.organism_state and self.lineage
  steps,     \* self.total_steps
  cursor,    \* self.scenario_index, self.scenario_episode_index
  vit,       \* self.last_vitals
  stuck,     \* self._consecutive_quarantine, counted up to QuarantinePatience
  cycle,     \* the decision an episode is running under, or None
  pending,   \* the outcome of that episode, or None
  store,     \* the checkpoints, oldest first
  certs,     \* the newest episode certificate of each run, or None
  event      \* the last life event appended to the log

memory == <<me, org, steps, cursor, vit, stuck, cycle, pending>>
vars == <<pc, wakes, memory, store, certs, event>>
-----------------------------------------------------------------------------
(* Types and assumptions *)

Cursor == [scenario: Nat, episode: Nat]

Outcome == [organism: Organism, certificate: Certificate, episode: Episode]

Files == {"present", "missing", "unreadable", "novitals", "mistyped"}

IsCheckpoint(e) ==
  /\ DOMAIN e = {"organismId", "run", "healthy", "file", "payload",
                 "organism", "steps", "cursor"}
  /\ e.run \in Nat
  /\ e.healthy \in BOOLEAN
  /\ e.file \in Files
  /\ IsPayload(e.payload)
  /\ e.organism \in Organism
  /\ e.steps \in Nat
  /\ e.cursor \in Cursor

ASSUME ConstantsAssumption ==
  /\ Newborn \in Organism /\ Newborn.episodes = 0
  /\ Outcomes \subseteq Outcome
  /\ \A o \in Outcomes : o.organism.episodes = 1
  /\ \A e \in Foreign :
       /\ IsCheckpoint(e) /\ e.organismId # Genome
       /\ e.healthy = IsRestorable(FromDict(e.payload))
  /\ Scope \in {"genome", "run", "any"}
  /\ {FixedRun, Revive, Sensing, Experience, AllowExternal, WantsUnbounded}
       \subseteq BOOLEAN
  /\ Pressures \subseteq Percent
  /\ MaxTier \in 0..3
  /\ BlockSize \in Nat \ {0} /\ CheckpointInterval \in Nat \ {0}
  /\ Damages \subseteq Files
  /\ \A lost \in LostKeys : lost \subseteq Keys
  /\ MaxDamages \in Nat /\ MaxWakes \in Nat /\ MaxSteps \in Nat

ASSUME NoneAssumption ==
  /\ None \notin Vitals /\ None \notin Certificate /\ None \notin Outcome
-----------------------------------------------------------------------------
(* The checkpoint store *)

RunOf(n) == IF FixedRun THEN 1 ELSE n
Run == RunOf(wakes)

\* The newest of some positions of the store: one checkpoint, or none.
NewestOf(positions) ==
  {store[i] : i \in {i \in positions : \A j \in positions : j <= i}}

Where(Test(_)) == {i \in DOMAIN store : Test(store[i])}

\* save_checkpoint: the file and its index entry.  An equal older checkpoint
\* is forgotten: no search, newest first, reaches it before the new one.
Saved(e) ==
  IF \E i \in DOMAIN store : store[i] = e
    THEN Append(RemoveAt(store, CHOOSE i \in DOMAIN store : store[i] = e), e)
    ELSE Append(store, e)

Checkpoint(v, o, n, c) ==
  [organismId |-> me, run |-> Run, healthy |-> IsRestorable(v),
   file |-> "present", payload |-> ToDict(v), organism |-> o, steps |-> n,
   cursor |-> c]

\* load_latest_payload skips what it cannot read.
Readable(e) == e.file \notin {"missing", "unreadable"}

\* A variant: a wake takes the newest checkpoint, whoever saved it.
AnyIdentity(e, r) == TRUE

\* load_latest_identity: the organism id if one is configured, else the run
\* id, else whichever checkpoint is newest.
IsIdentity(e, r) ==
  /\ Scope = "genome" => e.organismId = Genome
  /\ Scope = "run" => e.run = r

Identity(r) ==
  LET Ours(e) == Readable(e) /\ IsIdentity(e, r)
  IN  NewestOf(Where(Ours))

\* A variant: the flag in the index is believed (before B73).
FlagServes(e) == e.file = "present"

\* _restorability_rejection: the gate is derived again from the file.
ServesAsRefuge(e) == e.file = "present" /\ IsRestorable(FromDict(e.payload))

\* A variant: the refuge is the newest healthy checkpoint of anyone.
IsAnyonesRefuge(e) == e.healthy /\ ServesAsRefuge(e)

\* load_latest_payload(healthy_only=True): flagged, own and still restorable.
IsRefuge(e) == e.healthy /\ e.organismId = me /\ ServesAsRefuge(e)

Refuge == NewestOf(Where(IsRefuge))

\* _latest_checkpoint of the conjunction service: by run, whatever its health.
RunCheckpoint ==
  LET OfRun(e) == e.run = Run
      newest == NewestOf(Where(OfRun))
  IN  IF newest = {} THEN "none"
      ELSE IF \E e \in newest : e.healthy THEN "healthy" ELSE "unhealthy"
-----------------------------------------------------------------------------
(* One cycle: vital signs, decision, verdict, gate *)

\* Variants: the last vital signs are never refreshed; they always are.
StaleVitals(sensed) ==
  IF vit = None THEN FromState(org, certs[Run], None, sensed) ELSE vit
FreshVitals(sensed) == FromState(org, certs[Run], None, sensed)

\* The vital signs a step starts from.
PreVitals(sensed) ==
  IF vit = None \/ Sensing THEN FromState(org, certs[Run], None, sensed) ELSE vit

\* AutonomySupervisor.decide
Decide(v) ==
  IF v.episodes <= 0 THEN "act"
  ELSE IF v.mode = "rollback" THEN "rollback"
  ELSE IF v.mode = "quarantine" THEN "quarantine"
  ELSE IF v.pressure >= 90 THEN "sleep"
  ELSE IF v.purity < 65 \/ v.drift > 55 THEN "self_modify"
  ELSE IF v.mode = "recovery" THEN "act"
  ELSE IF AllowExternal /\ v.quality < 35 /\ v.risk < 80 THEN "consult_external"
  ELSE "act"

NonEpisodeActions == {"shutdown", "sleep", "quarantine", "rollback"}

PermittedActions ==
  {"act", "observe", "explore", "sleep", "self_modify", "rollback",
   "quarantine", "shutdown"}
  \cup (IF AllowExternal THEN {"consult_external"} ELSE {})

TaskType(action) ==
  CASE action = "self_modify"      -> "self_modification"
    [] action = "consult_external" -> "external_consultation"
    [] action = "act"              -> "life_cycle"
    [] OTHER                       -> "maintenance"

RequiredEvidence(action) ==
  {"vital_signs", "causal_signature"}
  \cup (CASE action = "self_modify"      -> {"healthy_checkpoint", "validated_plan",
                                             "rollback_plan"}
          [] action = "consult_external" -> {"validated_plan"}
          [] action = "rollback"         -> {"healthy_checkpoint"}
          [] OTHER                       -> {})

\* _life_evidence: any checkpoint of the run counts, healthy or not.  Memory
\* hits are left out: no life action requires them.
LifeEvidence ==
  {"vital_signs", "causal_signature"}
  \cup (IF RunCheckpoint = "none" THEN {} ELSE {"healthy_checkpoint", "rollback_plan"})

\* _build_life_context, with Python's "x or default" on a score of zero.
LifeContext(v, action) ==
  LET risk == IF v.episodes <= 0 /\ action = "act" /\ v.risk > 50 THEN 50 ELSE v.risk
      autonomy == Autonomy(WantsUnbounded, risk, v.pressure,
                           IF v.purity = 0 THEN 100 ELSE v.purity)
  IN  [action |-> action, task |-> TaskType(action),
       required |-> RequiredEvidence(action), evidence |-> LifeEvidence,
       causal |-> "supported", risk |-> risk, pressure |-> v.pressure,
       uncertainty |-> 100 - (IF v.quality = 0 THEN 50 ELSE v.quality),
       complexity |-> IF action \in {"self_modify", "rollback", "consult_external"}
                        THEN 80 ELSE 50,
       maxTier |-> IF v.pressure >= 90 THEN 0 ELSE MaxTier,
       allowExternal |-> AllowExternal, vramSaturated |-> FALSE,
       permitted |-> PermittedActions,
       agent |-> [present |-> TRUE, allowed |-> PermittedActions,
                  prohibited |-> IF AllowExternal THEN {} ELSE {"consult_external"},
                  exhausted |-> FALSE,
                  maxSteps |-> IF autonomy.active = "governed_unbounded" THEN 0 ELSE 1,
                  humanApproval |-> {}],
       agentSteps |-> 0, toolForbidden |-> FALSE, autonomy |-> autonomy,
       checkpoint |-> RunCheckpoint, memoryHits |-> FALSE,
       scenarioKnown |-> TRUE, humanApproved |-> FALSE]

\* A variant: a blocked action that is not critical goes through (before B48).
AnnotatingGate(action, verdict) ==
  IF verdict = "block" /\ action \in {"self_modify", "consult_external"} THEN "act"
  ELSE action

\* _apply_operational_gate: what is done instead of a blocked action.
Gate(action, verdict) ==
  IF verdict # "block" THEN action
  ELSE IF action \in {"self_modify", "consult_external"} THEN "act"
  ELSE IF action = "rollback" /\ "healthy_checkpoint" \notin LifeEvidence
         THEN "quarantine"
  ELSE IF action \notin NonEpisodeActions THEN "sleep"
  ELSE action

\* What a step remembers of its decision.
CycleType ==
  [sensed: Percent, vitals: Vitals,
   decided: PermittedActions, verdict: Decisions, action: PermittedActions]

ASSUME NoCycleAssumption == None \notin CycleType

\* What the sensors read this cycle, and the vital signs that follow.
Readings ==
  {[sensed |-> s, vitals |-> PreVitals(s)] : s \in IF Sensing THEN Pressures ELSE {0}}

\* What the supervisor proposes, as the context the conjunction evaluates.
Proposals ==
  {[reading |-> r, context |-> LifeContext(r.vitals, Decide(r.vitals))] : r \in Readings}

\* The cycles of step: a proposal, the verdict on it, and what the gate lets
\* through.
Cycles ==
  {LET verdict == Evaluate(p.context) IN
     [sensed |-> p.reading.sensed, vitals |-> p.reading.vitals,
      decided |-> p.context.action, verdict |-> verdict,
      action |-> Gate(p.context.action, verdict)] : p \in Proposals}
-----------------------------------------------------------------------------
Init ==
  /\ pc = "down" /\ wakes = 0
  /\ me = Genome /\ org = Newborn /\ steps = 0
  /\ cursor = [scenario |-> 0, episode |-> 0]
  /\ vit = None /\ stuck = 0 /\ cycle = None /\ pending = None
  /\ store = <<>>
  /\ certs = [r \in 1..MaxWakes |-> None]
  /\ event = "none"

Adopt(e) ==
  /\ org' = e.organism
  /\ steps' = e.steps
  /\ cursor' = e.cursor

\* _genesis
Genesis(r) ==
  /\ Identity(r) = {}
  /\ me' = Genome /\ org' = Newborn /\ steps' = 0
  /\ cursor' = [scenario |-> 0, episode |-> 0]
  /\ vit' = Bootstrap(Newborn, certs[r], 0)
  /\ event' = "genesis"

\* A variant: a checkpoint without vital signs does not parse either.
ParsesFully(e) == e.file = "present"

Parses(e) == e.file # "mistyped"

\* _restore_initial_identity.  Vital signs that do not parse raise out of
\* __init__: no process comes up on such a checkpoint.
Restore(r) ==
  \E e \in Identity(r) :
    /\ Parses(e)
    /\ Adopt(e)
    /\ me' = e.organismId
    /\ vit' = IF e.file = "novitals" THEN None ELSE FromDict(e.payload)
    /\ event' = "restored"

\* A process starts: LifeKernel.__init__.
Wake ==
  /\ pc = "down" /\ wakes < MaxWakes
  /\ wakes' = wakes + 1
  /\ Genesis(RunOf(wakes + 1)) \/ Restore(RunOf(wakes + 1))
  /\ pc' = IF Revive THEN "woken" ELSE "idle"
  /\ UNCHANGED <<stuck, cycle, pending, store, certs>>

\* scripts/life_kernel.py --revive: an organism that wakes hurt goes back to
\* its last healthy self.
ReviveOnWake ==
  /\ pc = "woken"
  /\ pc' = "idle"
  /\ IF vit # None /\ vit.mode \in {"quarantine", "rollback"} /\ Refuge # {}
       THEN \E e \in Refuge :
              /\ Adopt(e)
              /\ vit' = Bootstrap(e.organism, certs[Run], 0)
              /\ event' = "revived"
       ELSE UNCHANGED <<org, steps, cursor, vit, event>>
  /\ UNCHANGED <<wakes, me, stuck, cycle, pending, store, certs>>

\* step, up to the end of the episode: its certificate is already stored under
\* the run when the kernel has not yet taken the new state in.
RunEpisode ==
  /\ pc = "idle" /\ steps < MaxSteps
  /\ \E c \in Cycles, o \in Outcomes :
       /\ c.action \notin NonEpisodeActions
       /\ cycle' = c
       /\ pending' = o
       /\ certs' = [certs EXCEPT ![Run] = o.certificate]
       /\ store' = IF c.action = "self_modify"
                     THEN Saved(Checkpoint(c.vitals, org, steps, cursor)) ELSE store
  /\ stuck' = 0
  /\ pc' = "episode"
  /\ UNCHANGED <<wakes, me, org, steps, cursor, vit, event>>

\* A variant: a block is one episode too long.
LateCursor ==
  IF cursor.episode + 1 > BlockSize
    THEN [scenario |-> cursor.scenario + 1, episode |-> 0]
    ELSE [cursor EXCEPT !.episode = @ + 1]

NextCursor ==
  IF cursor.episode + 1 >= BlockSize
    THEN [scenario |-> cursor.scenario + 1, episode |-> 0]
    ELSE [cursor EXCEPT !.episode = @ + 1]

\* A variant: only a stable organism is saved.
OnlyIfStable(v, n) == IsStable(v)

\* _checkpoint_if_due
CheckpointDue(v, n) == IsStable(v) \/ n % CheckpointInterval = 0

\* The rest of step: the organism, its vital signs and the checkpoint if due.
CompleteStep ==
  /\ pc = "episode"
  /\ org' = pending.organism
  /\ vit' = FromState(pending.organism, pending.certificate, pending.episode,
                      cycle.sensed)
  /\ steps' = steps + 1
  /\ cursor' = NextCursor
  /\ store' = IF CheckpointDue(vit', steps')
                THEN Saved(Checkpoint(vit', org', steps', cursor')) ELSE store
  /\ pc' = "idle" /\ cycle' = None /\ pending' = None
  /\ event' = "step"
  /\ UNCHANGED <<wakes, me, stuck, certs>>
-----------------------------------------------------------------------------
(* _handle_non_acting_decision.  None of the branches assigns last_vitals. *)

\* _restore_latest_healthy_checkpoint, then the checkpoint of the new state.
TakeRefuge ==
  \E e \in Refuge :
    /\ Adopt(e)
    /\ store' = Saved(Checkpoint(Bootstrap(e.organism, certs[Run], 0),
                                 e.organism, e.steps, e.cursor))

StayAsIs(v) ==
  /\ store' = Saved(Checkpoint(v, org, steps, cursor))
  /\ UNCHANGED <<org, steps, cursor>>

RollBack ==
  /\ pc = "idle"
  /\ \E c \in Cycles :
       /\ c.action = "rollback"
       /\ \/ TakeRefuge /\ event' = "rollback_restored"
          \/ Refuge = {} /\ StayAsIs(c.vitals) /\ event' = "rollback_exhausted"
  /\ UNCHANGED <<pc, wakes, me, vit, stuck, cycle, pending, certs>>

\* E5: after this many quarantines in a row the organism seeks its refuge.
QuarantinePatience == 3

\* A variant: one quarantine too late.
SeeksRefugeLate(count) == Experience /\ count > QuarantinePatience

SeeksRefuge(count) == Experience /\ count >= QuarantinePatience

Quarantine ==
  /\ pc = "idle"
  /\ \E c \in Cycles :
       LET count == IF stuck < QuarantinePatience THEN stuck + 1 ELSE stuck
           seeks == SeeksRefuge(count)
       IN  /\ c.action = "quarantine"
           /\ \/ /\ seeks /\ TakeRefuge
                 /\ stuck' = 0 /\ event' = "refuge"
              \/ /\ seeks => Refuge = {}
                 /\ StayAsIs(c.vitals)
                 /\ stuck' = IF Experience THEN count ELSE stuck
                 /\ event' = "quarantine"
  /\ UNCHANGED <<pc, wakes, me, vit, cycle, pending, certs>>

Sleep ==
  /\ pc = "idle"
  /\ \E c \in Cycles : c.action = "sleep" /\ StayAsIs(c.vitals)
  /\ event' = "sleep"
  /\ UNCHANGED <<pc, wakes, me, vit, stuck, cycle, pending, certs>>

Step == RunEpisode \/ CompleteStep \/ RollBack \/ Quarantine \/ Sleep
-----------------------------------------------------------------------------
(* The environment *)

\* The process is killed: what it held in memory is gone.
Crash ==
  /\ pc # "down"
  /\ pc' = "down"
  /\ me' = Genome /\ org' = Newborn /\ steps' = 0
  /\ cursor' = [scenario |-> 0, episode |-> 0]
  /\ vit' = None /\ stuck' = 0 /\ cycle' = None /\ pending' = None
  /\ UNCHANGED <<wakes, store, certs, event>>

\* The file of a checkpoint is deleted, torn or mangled; its index entry stays.
Damaged(e) == e.file # "present" \/ DOMAIN e.payload # Keys

Damage ==
  /\ Cardinality({i \in DOMAIN store : Damaged(store[i])}) < MaxDamages
  /\ \E i \in DOMAIN store :
     /\ ~Damaged(store[i])
     /\ \/ \E f \in Damages : store' = [store EXCEPT ![i].file = f]
        \/ \E lost \in LostKeys :
             store' = [store EXCEPT ![i].payload = Without(@, lost)]
  /\ UNCHANGED <<pc, wakes, memory, certs, event>>

\* Another organism's kernel saves a checkpoint.
ForeignSave ==
  /\ \E e \in Foreign : store' = Saved(e)
  /\ UNCHANGED <<pc, wakes, memory, certs, event>>

Next ==
  \/ Wake \/ ReviveOnWake \/ Step
  \/ Crash \/ Damage \/ ForeignSave

Spec == Init /\ [][Next]_vars

\* run_until_stopped loops without waiting on anything, and whoever operates
\* the organism starts it again after a crash.
FairSpec == Spec /\ WF_vars(Step) /\ WF_vars(Wake) /\ WF_vars(ReviveOnWake)
-----------------------------------------------------------------------------
(* Properties *)

Events == {"none", "genesis", "restored", "revived", "step", "rollback_restored",
           "rollback_exhausted", "quarantine", "refuge", "sleep"}

TypeOK ==
  /\ pc \in {"down", "woken", "idle", "episode"}
  /\ wakes \in 0..MaxWakes
  /\ org \in Organism /\ steps \in Nat /\ cursor \in Cursor
  /\ vit \in Vitals \cup {None}
  /\ stuck \in 0..QuarantinePatience
  /\ cycle \in CycleType \cup {None}
  /\ pending \in Outcomes \cup {None}
  /\ pc = "episode" <=> pending # None
  /\ pc = "episode" <=> cycle # None
  /\ pc # "down" => wakes > 0
  /\ store \in Seq({store[i] : i \in DOMAIN store})
  /\ \A i \in DOMAIN store : IsCheckpoint(store[i])
  /\ certs \in [1..MaxWakes -> Certificate \cup {None}]
  /\ event \in Events

\* The scenario cursor tells the same life as the step counter, in memory and
\* in every checkpoint, through crashes, wakes and rollbacks: an organism never
\* resumes a scenario block at a place its step count does not lead to.
CursorMatchesSteps ==
  /\ steps = cursor.scenario * BlockSize + cursor.episode
  /\ \A i \in DOMAIN store : store[i].organismId = Genome =>
       LET e == store[i] IN e.steps = e.cursor.scenario * BlockSize + e.cursor.episode

\* A crash costs less than checkpoint_interval completed steps: what the next
\* wake would find is that close to what is in memory, and the same organism if
\* no step lies between (_checkpoint_if_due, _handle_non_acting_decision).
LossBounded ==
  pc \in {"idle", "episode"} =>
    /\ Identity(Run) = {} => steps < CheckpointInterval
    /\ \A e \in Identity(Run) :
         /\ steps - e.steps \in 0..(CheckpointInterval - 1)
         /\ e.steps = steps => e.organism = org /\ e.cursor = cursor

\* Once it has lived, the organism runs an episode only on vital signs that
\* allow one: not at the viability edge, not quarantined, not under sensed
\* pressure of 90 or more, and not under a block unless the blocked action was
\* a critical one replaced by a plain act (decide, validate, the gate of step).
EpisodeIsAllowed ==
  pc = "episode" /\ cycle.vitals.episodes > 0 =>
    /\ cycle.vitals.mode \notin {"rollback", "quarantine"}
    /\ cycle.sensed < 90
    /\ cycle.verdict = "block" =>
         cycle.decided \in {"self_modify", "consult_external"} /\ cycle.action = "act"
    /\ cycle.vitals.risk >= 80 => cycle.decided = "self_modify"

\* A checkpoint whose vital signs are complete is flagged healthy exactly when
\* they are restorable once read back, and one that lost an axis the refuge
\* needs is never a refuge, whatever its flag says (B73, to_dict, from_dict).
FlagMatchesFile ==
  \A i \in DOMAIN store :
    LET e == store[i] IN
    /\ DOMAIN e.payload = Keys => e.healthy = IsRestorable(FromDict(e.payload))
    /\ ~(RestoreRequiredAxes \subseteq DOMAIN e.payload) => ~ServesAsRefuge(e)

\* What a rollback, the E5 refuge or --revive adopts is a checkpoint of this very
\* organism whose file still shows restorable vital signs, and it is adopted
\* whole: state, step count and cursor come from one checkpoint.
RefugeIsSound ==
  [][pc' # "down" /\ event' \in {"rollback_restored", "refuge", "revived"}
       /\ <<org, steps, cursor>>' # <<org, steps, cursor>> =>
       \E i \in DOMAIN store :
         LET e == store[i] IN
         /\ e.organismId = me /\ e.file = "present"
         /\ RestoreRequiredAxes \subseteq DOMAIN e.payload
         /\ IsRestorable(FromDict(e.payload))
         /\ <<org, steps, cursor>>' = <<e.organism, e.steps, e.cursor>>]_vars

\* A refuge is a past self: no rollback, refuge or revival raises the step count.
RefugeNeverAdvances ==
  [][pc' # "down" /\ event' \in {"rollback_restored", "refuge", "revived"} => steps' <= steps]_vars

\* An organism configured by its genome stays itself: whatever other organisms
\* save, no process of it ever carries another identity or another's body.
IdentityKept ==
  /\ me = Genome
  /\ \A e \in Foreign : org # e.organism

\* An experienced organism that was quarantined three times in a row without
\* finding refuge has nowhere to go: whatever it saves while it waits, and
\* whatever others save, every refuge there is leads back to the self it is.
StuckHasNowhereToGo ==
  pc = "idle" /\ stuck = QuarantinePatience =>
    \A i \in DOMAIN store :
      LET e == store[i] IN
      IsRefuge(e) => <<e.organism, e.steps, e.cursor>> = <<org, steps, cursor>>

\* An organism in good shape goes on living: if its body is sound and the
\* vital signs it was left with show neither harm nor a high risk, its next
\* cycle acts, whatever run it woke in, with whatever evidence, and however
\* often it was killed or rolled back before (from_state, the gate of step).
KeepsActing ==
  pc = "idle" /\ org.viability >= 50 /\ org.drift <= 10
    /\ (vit # None => vit.mode \notin {"quarantine", "rollback"} /\ vit.risk < 80) =>
    \A c \in Cycles : c.action \notin NonEpisodeActions
-----------------------------------------------------------------------------
(* Liveness *)

\* An organism that is down comes up as long as processes are started for it:
\* missing and torn checkpoints are skipped.
ComesUp == [](pc = "down" /\ wakes < MaxWakes => <>(pc # "down"))

\* Taking refuge leads back to life: after it the organism runs an episode,
\* unless its process is killed first.
RefugeLeadsBack ==
  event \in {"rollback_restored", "refuge"} /\ pc = "idle" /\ steps < MaxSteps
    ~> pc # "idle"
-----------------------------------------------------------------------------
(* What a comment of the code says, and the code does not keep *)

\* The refuge is sought by genome, even if it lives under another run
\* (kernel.py): an organism at the viability edge that has one is not
\* quarantined for lack of a checkpoint.
RefugeIsSoughtByGenome ==
  [][event' = "quarantine" /\ event' # event /\ PreVitals(0).mode = "rollback"
       => Refuge = {}]_vars
=============================================================================
