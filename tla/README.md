# RNFE/AEON: formal models of an organism's life

This directory specifies, model-checks and proves properties of the decision core
of the RNFE runtime: the *sovereign life kernel* (`runtime/life`), which keeps one
artificial organism alive across processes; the *operational conjunction*
(`runtime/conjunction`), the gate every decision of the kernel passes through; the
storage its checkpoints lie in (`runtime/storage`); the control of the scale it
runs at (`runtime/control/msrc`); the loop in which it modifies itself
(`runtime/organism/autoevolution.py`); and the scheduler that chooses how an episode
reasons, with the selector and the colony that learn from it
(`runtime/reasoning/scheduler_meta`, `runtime/organism/ecology.py`).

## 1. Inventory

The repository is a Python research runtime. One "organism" is a genome
(`organism_id`), an `OrganismState` and a `LineageState`; it lives *episodes*
(simulated scenarios), each of which leaves a certificate. The kernel decides,
cycle after cycle, whether to act, sleep, modify itself, be quarantined or roll
back, and checkpoints the organism so that it survives its process.

| Part | Files | State | Operations | What is hard | What makes it correct |
|---|---|---|---|---|---|
| Vital signs | `life/contracts.py`, `life/vitals.py` | none; a snapshot and its payload | `from_state`, `bootstrap`, `to_dict`, `from_dict`, `is_stable`, `is_restorable` | defaults that pass for measurements; axes that are missing or do not apply | a lost axis never passes a gate; reading back gives the same verdict |
| Life kernel | `life/kernel.py`, `life/supervisor.py`, `life/goals.py` | organism, lineage, step count, scenario cursor, last vital signs, quarantine counter | wake (genesis or restore), step, checkpoint, rollback, quarantine with refuge E5, sleep | kill at any moment; restarts under fresh run ids; decisions on stale vital signs | bounded loss, identity, no episode against the gates, a way back to life |
| Checkpoints and identity | `life/checkpoints.py`, `life/persistence.py`, `life/serialization.py` | JSON files and an index with a `healthy` flag | save, newest of an organism or run, newest healthy one | files lost or torn after the flag was written; other organisms on the store | the flag tells the truth; a refuge is whole and its own |
| Operational conjunction | `conjunction/*.py` | none of its own; reads the store | route, validate, compensate, route and validate again, decide | the context changes between the two passes, also through other processes | no proof is fabricated; critical and high-risk actions are gated; policy ceilings hold |
| Life kernel script | `scripts/life_kernel.py` | the process | start, `--revive`, loop | restart after a crash | revival adopts a sound refuge |
| Storage | `storage/facade.py`, `storage/factory.py`, `storage/backends/*` | SQLite and PostgreSQL tables, artifact files | append, list, materialize, dual write, read with fallback | a kill between file and row; a dual write half done; a commit whose answer is lost; stale reads; look-ups through a window | an indexed artifact exists; a write reported as done is found again |
| MSRC scale control | `control/msrc/*` | current scale, cooldown, lock, evidence counters, pending probe | `step`: decide, execute, commit, record | a probe in flight across steps, records that fail after the commit, two callers that treat results and exceptions differently | one commit point of the scale; what is committed was measured; hysteresis |
| Autoevolution | `organism/autoevolution.py`, `organism/self_modification.py` | knobs, degraded count, cooldown, last healthy state, modification under watch | observe an episode: checkpoint, propose, apply, watch, commit, revert, roll back | a hard rollback during a watch; backups used episodes later; the kernel replaces the runner | a reverted change leaves nothing behind; a rollback goes to a healthy state; quiet after a setback |
| Reasoning scheduler | `reasoning/scheduler_meta/policy.py` and its neighbours, `reasoning/families/*` | none | features, regime, budget, proposal, validation, correction, fallback, execution | truncation, ranking, correction and early stop after one another | the core of families is always run whole; directives are heeded |
| Organism ecology | `organism/ecology.py`, `reasoning/scheduler_meta/reward_guided.py` | population, evidence of each selector, rewards on the store | run a generation, share, rank, select, reproduce; direct, observe, merge | evidence travels through intermediaries and births; restart on the same store | evidence stays among comparable scenarios; only the certified go on |
| Episodes and world | `world/scenario_runner.py`, `world/*` | scenario state inside an episode | `run_episode` | numeric simulation | — (an input here) |
| Homeostasis and crisis | `control/homeostasis/*`, `control/crisis_router.py` | | | | not wired to the runtime: stubs of an earlier architecture |
| Core services | `core/*` | subscribers, quarantined modules | publish, hooks, quarantine | a failing subscriber | delivery to the others |
| Trajectory and lineage | `organism/trajectory*.py`, `organism/lineage.py`, `organism/life_transition.py`, `organism/experience.py` | append-only records | record, read | — | records of what the parts above decide |
| Certification | `certification/*` | none | certificate, promotion gate, continuity guard | numeric scores | monotone gates |
| Neural runtime | `neural/*` | organ registry, trace buffer, sessions and receipts | shadow or advisory inference | — | traces lost with the runner; a receipt without its event |
| Memory, reality, telemetry | `memory/*`, `reality/*`, `telemetry/*`, `symbolic/*`, `smg/*`, `lotf/*`, `evolution/*` | records | store, retrieve, assess | — | numeric |
| Not program logic | `hnet`, `mamba_ssm`, `engines`, `archive`, `data`, `exocortex`, `ingest`, `lab`, `infra`, `ai`, `docs`, `canon` | | | vendored engines, archives, data, documents | |

How they interact: the script constructs a `LifeKernel`; its constructor asks
`OrganismPersistence` (and through it `LifeCheckpointManager` and the storage) for
the identity to restore, or performs genesis. Each `step` senses resources, asks
`VitalSignsService` for vital signs (which read the newest certificate **of the
run**), asks the `AutonomySupervisor` for a decision, hands it to the
`OperationalConjunctionLayer` (which looks up the newest checkpoint **of the
run**), lets `_apply_operational_gate` replace a blocked action, and then either
runs an episode or handles the non-acting decision; a rollback looks up the newest
healthy checkpoint **of the genome**. That run and genome are different keys is
where several of the findings below come from.

An episode is run by a `ScenarioEpisodeRunner`, which asks the reward-guided
selector for directives, lets the `MetaScheduler` choose and run the families, stores
and observes the reward, and hands the episode to its `AutoEvolutionController`,
which may change the runner's knobs or give it an older organism. The kernel keeps
one runner for a block of episodes and then builds another. After the episode the
kernel lets the `MSRCController` evaluate the scale. A colony runs several runners
without a kernel; they meet in `OrganismEcology`.

## 2. Modules

| Module | Models | Kind |
|---|---|---|
| `VitalSigns` | `VitalSignsSnapshot`, its gates and its serialisation, `from_state`, `bootstrap`, `mode_for_vitals` | operators |
| `Conjunction` | router, validator stack, compensation matrix, evidence recovery, final decision, `AutonomyPolicy.resolve` | operators; `Evaluate(ctx)` is `evaluate` as one function |
| `ConjunctionCycle` | one `evaluate`, stage by stage, with other processes saving checkpoints in between | state machine |
| `LifeKernel` | the kernel, the supervisor, the checkpoints; uses the two operator modules | state machine |
| `CheckpointLog` | what the kernel counts on when it saves and looks up checkpoints | abstract specification |
| `CheckpointStore` | files, tables, dual writes, outages, kills, the search window | state machine, implements `CheckpointLog` |
| `ScaleEstimate` | demand, catalog, recommendation, lexicographic objective, regime | operators |
| `ScalePolicy` | `ScalePolicyEngine.decide` under its three profiles | operators |
| `ScaleControl` | `MSRCController.step` and its two callers, with appends that fail | state machine |
| `AutoEvolution` | `AutoEvolutionController.observe_episode` and the runner's replacement | state machine |
| `FamilySchedule` | from a context to the families that are run | operators |
| `RewardGuided` | `RewardGuidedOverlaySelector` | operators |
| `Ecology` | the episode loop of an organism under the selector, and the colony | state machine |
| `MCConjunctionCycle`, `MCLifeKernel`, `MCCheckpointStore`, `MCScaleControl`, `MCAutoEvolution`, `MCEcology` | small instances | model checking |
| `LifeKernelProofs` (with the vital signs), `ConjunctionProofs`, `CheckpointStoreProofs`, `ScaleProofs`, `AutoEvolutionProofs`, `EcologyProofs` | theorems of these | proofs |
| `FamilyProofs`, `Extremes` | what `SelectSequence` and `Executed` give; least and greatest of finite sets | lemmas |

Composition: `LifeKernel` EXTENDS `VitalSigns` and `Conjunction` and evaluates a
decision atomically with `Evaluate`; `ConjunctionCycle` justifies that: its
invariant `AgreesWithEvaluate` says that the staged evaluation decides what
`Evaluate` decides unless another process saves a checkpoint meanwhile.
`LifeKernel` saves and finds checkpoints in one step; `CheckpointStore` takes that
step apart, and `CheckpointLog` is what is left of it for the kernel. `ScaleControl`
EXTENDS `ScalePolicy`, which EXTENDS `ScaleEstimate`; `Ecology` EXTENDS
`RewardGuided`, which EXTENDS `FamilySchedule`.

### VitalSigns

A score in [0, 1] is an integer percentage; every threshold in the code is a
multiple of 0.01. A payload is a function on the keys it has, so a lost key is a
smaller domain, which `from_dict` turns into an unverified axis. Rounding to four
digits, the Bayesian bound inside the cognitive quality (one already weighted term)
and descriptive metadata are left out. `Certificate.hadMemory` stands for the
memory purity basis the gates read.

### Conjunction and ConjunctionCycle

Evidence is the set of its kinds; a finding is its code, status and missing kind; a
compensation is the finding it answers and a status. Confidence, costs, reasons and
persisted reports are left out, since no decision reads them.

| Code (`conjunction/service.py`) | Action |
|---|---|
| `evaluate`, first route, validation, compensation lookup | `RouteAndValidate` |
| `_execute_compensation`, one call | `ExecuteCompensation` |
| `evaluate` without compensations | `DecideAtOnce` |
| second route and validation, merge, `_final_decision` | `Recheck` |
| another process's `save_checkpoint` | `CheckpointMoves` |

### LifeKernel

| Code | Variable |
|---|---|
| where the process is: down, constructed, between steps, between the end of an episode and the rest of `step` | `pc` |
| processes started so far; the run id is `Run` | `wakes` |
| `organism_id`; `organism_state` and `lineage` | `me`; `org` |
| `total_steps`; `scenario_index` and `scenario_episode_index` | `steps`; `cursor` |
| `last_vitals`; `_consecutive_quarantine` | `vit`; `stuck` |
| the decision of the running step and the episode's result | `cycle`; `pending` |
| checkpoint index and files | `store` |
| newest certificate of each run | `certs` |
| newest life event | `event` |

| Code | Action |
|---|---|
| `LifeKernel.__init__` with `_restore_initial_identity`, `_apply_restored_identity`, `_genesis` | `Wake` |
| `--revive` in `scripts/life_kernel.py` | `ReviveOnWake` |
| `step` up to the end of the episode (its certificate is stored) | `RunEpisode` |
| the rest of `step`, with `_checkpoint_if_due` | `CompleteStep` |
| `_handle_non_acting_decision` | `RollBack`, `Quarantine`, `Sleep` |
| the process is killed | `Crash` |
| a checkpoint file is lost, torn or mangled | `Damage` |
| another organism's kernel saves | `ForeignSave` |

`step` is split where a crash leaves something behind: the episode's certificate is
on the store before the kernel has taken the new state in.

Abstractions: an episode is any member of `Outcomes` (a certificate, an organism, a
viability assessment); `episode_count` is 0 or 1, because only "has it lived" is
told apart; an older checkpoint equal to a new one is forgotten, which no
newest-first search can notice and which keeps the store finite; goals are left out
because the survival goal's priority keeps exploration from being chosen; the
neural state, lessons, reflection and traces are left out because no decision of
the kernel reads them; storage calls succeed here and fail in `CheckpointStore`,
which also has the search window; MSRC is in `ScaleControl`; the conjunction is
enabled and `restore` is true.

### CheckpointLog and CheckpointStore

`CheckpointLog` is a set of saved entries, a set of promised ones and the answer of
the last look-up: an entry that was promised is found, or a newer one is, until
`Window` newer entries have been saved, by whatever organism.

| Code | Action of `CheckpointStore` | In `CheckpointLog` |
|---|---|---|
| `materialize_artifact` opens the file under a name of its own | `OpenFile` | — |
| it is written, and `register_artifact` builds the record | `CloseFile` | — |
| `_dual_write` on the next database | `Insert` | `Save` |
| the database is away; its exception is kept | `InsertMisses` | — |
| the database commits and its answer is lost | `InsertUnheard` | `Save` |
| `save_checkpoint` appends its event and returns, or raises | `Finish` | `Promise`, or — |
| `load_latest_payload` by organism, perhaps healthy ones only | `LoadLatest` | `LookUp` |
| a kill; a database goes away; it comes back | `Crash`, `Outage`, `Recovery` | — |

The refinement mapping: `saved` is the union of the tables, `promised` the entries
that were acknowledged, lie in every database and are in the window. A save that
returned although one of two databases missed it is *not* promised: without
`strict_dual_write` a later look-up may read the database that has not got it, and
the code has no reconciliation. Names stand for digests. Event rows and the other
record kinds go through the same two helpers and are left out, as are SQL text and
migrations.

### ScaleEstimate, ScalePolicy, ScaleControl

Signals are percentages; scores are integers in the units in which the code's
weights are whole (given at the head of `ScaleEstimate`), so comparisons and ties
come out as in exact arithmetic. `Decide` is `ScalePolicyEngine.decide` with
`_decide_regime_v3`, both probe handlers, both upgrade and both downgrade paths.

| Code (`msrc/controller.py`) | Action |
|---|---|
| `step` up to `policy_engine.decide` | `Weighs` |
| `execute_action` and the line that commits `current_scale` | `Applies` |
| `log_decision`, `log_transition`; the caller keeps or drops the probe result | `Records` |
| an event about a probe is not appended: the exception comes before the commit | `ProbeEventFails` |
| a record after the commit is not appended | `RecordFails` |

The life kernel catches what `step` raises, drops probe results and uses the
baseline profile on the two scales that run today; the policy benchmark keeps a probe
result for its next step and lets an exception end its run.

Worth knowing, and modelled as the code has it: `signals["recent_oscillation"]` is
read by the engine's penalties and written by nobody; the prior of 5x5 outweighs
every other term of the cognitive score, so the larger scale is always selected
(`NeverComesDown`, `KernelClimbs`, and for every demand the lemma
`SelectedShipped`), although the ADR of MSRC speaks of a downgrade on evidence; the
kernel never forks a probe, because its epistemic insufficiency is at most 1 %; an
aborted fork leaves the probe's target in flight; the evidence for an upgrade is
kept when scores are equal and when a probe is committed; when the log fails after
the commit, the scale has moved and the log is wrong until the next step
(`LedgerCatchesUp`); the kernel's rollbacks do not restore the scale state.

### AutoEvolution

One action for each way through `observe_episode`: `Rollback`; under watch
`KeepWatching`, `Revert`, `Commit`; otherwise `Thrive`, `Endure`, `Refuse`, `Apply`;
and `Rebuild` for the new runner the kernel builds at the end of a block or for
another directive. An episode is what the controller reads of it, at and on both
sides of each threshold. States of the organism are told apart by identities drawn
from those not in use. Changes of the index of closure are −2 or 1: only the sign of
their sum is read.

Worth knowing: a hard rollback under watch without a checkpoint leaves the
modification in force, unwatched; healthy episodes under watch are not
checkpointed, so a rollback after a commit may undo it; a new runner drops watch,
cooldown and knobs without a lineage entry, though the header of
`autoevolution.py` says that a window watches and reverts; a commit starts no
cooldown; with the runner as it is wired the pipeline's verdict "rejected" cannot be
reached from `OutOfPatience`.

### FamilySchedule, RewardGuided, Ecology

`SelectSequence(ask, directives)` is `select_sequence` with everything it calls:
`extract_context_features`, the regime, `compute_budget`, `score_families`, the
non-adaptive, the legacy adaptive and the second ecology's proposals,
`validate_reasoning_sequence` with its correction and its fallback. Measurements of
a context are percentages, features hundredths of a percent and scores millionths,
in which the code's weights are whole. Compared with the code's own scheduler on
3800 random asks the operators gave the same sequence, but for one tie that floating
point breaks in the last bit.

| Code | Action of `Ecology` |
|---|---|
| `_run_member`, one episode: directives, `MetaScheduler.run`, reward observed and stored | `Live` |
| `_share_knowledge`, one donor | `Share` |
| `_fitness`, `_select_and_reproduce`, `_reproduce` | `Select` |
| a script builds the colony again on the same store | `Restart` |

The evidence of a selector is a bag of observations; each carries `origin`, the run
it comes from, which nothing in the code has and only the properties read. A colony
of one organism is what the kernel's runner does with its selector on. The ranking
is described, not computed: `Rankings` holds the one order in which fitter members
come first and equals keep their places, and its use in `\E order \in Rankings`
would deadlock if there were none.

Worth knowing: sharing echoes. A later donor exports what it was given a moment
before, its recipient's own observations among them; two members with one
observation each hold 3 and 2 after one sharing, then 8 and 5, 21 and 13. So
`MinObs`, which guards against judging on too little (`reward_guided.py:142`), can be
reached from a single real observation. Isolated colonies still inherit at birth,
although the head of `ecology.py` says they do not. `_morphism_for` turns any exception into
"comparable". Evidence that was merged is not persisted; a member built again has
only the rewards of its own run. The second ecology ignores directives. The profile
`full_family_deep_v1` proposes `nesy` and `evo_search`, and the correction drops
them. Under a tight budget a family that is switched on may give way to one that no
directive governs: with experimental families enabled, `heur` and `ind` on, the rest
off and a limit of eight, `full_family_exploration` drops `ind` and keeps `eml_sr`. In adaptive mode an early stop never stops anything, because prob is last and a
stop waits for it.

## 3. Runs

| Run | Question | Bounds |
|---|---|---|
| `ConjunctionCycle` | Is an evaluation safe whatever its compensations recover and others save? | 5184 contexts in two families on both sides of every threshold |
| `KernelCrash` | What does a kill at any moment cost, beside a stranger? Does an unhurt organism go on acting? | 3 processes, 3 steps, blocks of 2, checkpoint interval 2, 6 outcomes |
| `KernelDamage` | What is adopted when a file is mangled, and does an episode ever run against the gates? | pressure 20 or 90, 4 outcomes, external reasoner, unbounded autonomy asked for; 1 damage, 2 processes with `--revive`, 2 steps |
| `KernelSensedRefuge` | Does the organism come back to life, and up? | one run, sensing, one damaged checkpoint, 2 processes |
| `ScaleSteps` | Does the scale rest, and move only on measured evidence, whoever calls? | both callers, 3 profiles, shipped and all scales, 3 worlds for the kernel and 7 for the benchmark, 4 probe results, 2 failing appends |
| `StoreFaults` | Is a promised checkpoint found again? | 2 organisms (symmetric), 4 storage configurations, window 2, 3 saves, 1 fault |
| `AutoEvolution` | Can a modification be taken back whatever happens meanwhile? | 14 kinds of episode, knob 1–3, patience 2, window 3, cooldown 4; no bound on episodes |
| `EcologyLearns` | Does the core survive every schedule, and evidence stay where it may go? | one organism, 11 profiles, 46 situations; two colonies of 2 and 3 members; 2 generations of 1 episode, 1 restart |
| `ConjunctionRecovered`, `KernelFreshSensed`, `KernelRefuge`, `KernelGenome` | the disagreements of section 5 | 2 processes, 3 steps |

Why the bounds are enough. `MaxWakes`, `MaxSteps` and `MaxDamages` bound processes,
lived steps and damaged checkpoints: three steps with blocks and intervals of two
cross one block boundary and one missed checkpoint; two processes give one restart,
three a restart of a restart; more damages than one are covered by the theorems of
section 4. The outcomes sit on both sides of the gates' thresholds (restorable,
merely stable, irreversible, below the quarantine threshold, at the risk limit, with
contaminated memory, of poor quality). The quarantine patience of three is the
code's own and is not bounded away. In `StoreFaults`, three saves in a window of two
push one out; one fault makes every half-done write, and the theorems hold for any
number. In `ScaleSteps` nothing but failing appends is bounded: locks, cooldowns and
counters have the code's values. `AutoEvolution` is finite without a bound. In
`EcologyLearns` two generations make children who inherit and share, and the restart
finds the rewards of the first life; `Epsilon` 5, `MinObs` 1 and `MaxActive` 2 keep
exploration, judgement and the limit of active families within reach of one episode
each; resources are the adversary of the other scenarios, as the shipped morphisms
have it.

Deadlock is not checked where the system stops: at the kernel's `max_steps` (here
the bounds), at the end of an evaluation, when an append ends a benchmark run, after
the last generation.

What the properties say:

- `CriticalNeedsProof`, `HighRiskBlocked`, `NoFabricatedProof`, `BlockedOnlyForCause`,
  `RecheckOnlyImproves`, `RouteWithinPolicy`: the two passes of `evaluate` and the
  compensations between them cannot be talked into, or out of, anything.
- `CursorMatchesSteps`, `LossBounded`, `IdentityKept`: what survives a crash is this
  organism, less than a checkpoint interval ago, at the right place of its scenarios.
- `FlagMatchesFile`, `RefugeIsSound`, `RefugeNeverAdvances`, `StuckHasNowhereToGo`: a
  refuge is what it claims to be, and is used when there is one; an organism that is
  stuck after three quarantines has no refuge but those that lead back to itself.
- `EpisodeIsAllowed`: no episode runs at the viability edge, under sensed pressure
  of 90, or under a block, except the documented replacement of a blocked critical
  action by a plain act.
- `KeepsActing`: an organism in good shape is not silenced by waking in a fresh run.
- `NoGhostRow`, `AckedIsKept`, `TwinsAgree`, `KeepsPromises`: a row has its file, an
  acknowledged save lies where it must, two databases differ only about saves a
  fault struck, and all of it implements `CheckpointLog`.
- `CommitIsMeasured`, `FailedStepMovesNothing`, `DwellHolds`, `FlipsOnlyByRegime`,
  `NeverComesDown`: the engine's record and the caller's result agree; one line
  commits; the scale rests although probe results are judged before the lock.
- `RevertRestores`, `RollbackToHealthy`, `QuietAfterSetback`: taking back is exact.
- `ClosureKept`, `DirectivesHeeded`: through proposal, truncation, correction,
  fallback and early stop the core is run whole (no caller reads `validated_passed`,
  and none needs to); no family switched off is run, and every one switched on is,
  when the budget has room for the core and all of the profile's own families that
  are left.
- `EvidenceFromKin`, `OnlyCertifiedStay`: who learns from whom, and who goes on.
- Liveness: `ComesUp` and `RefugeLeadsBack` (a quarantined organism lives again),
  `KernelClimbs`, `LedgerCatchesUp`, `WatchEnds`.

Fairness. `LifeKernel`: weak fairness of `Step` because `run_until_stopped` loops
and waits on nothing but its interval; of `Wake` because an operator or supervisor
restarts the process, as the script's use as a service assumes; of `ReviveOnWake`
because the script runs it right after construction. None on crashes, damage or
foreign saves; the bounds make crashes finitely many, so the liveness properties
speak of the time after the last one. `ScaleControl`: weak fairness of a step that
moves `pc`, because both callers are loops in one thread; none on which of a step's
outcomes happens. `AutoEvolution`: weak fairness of `Observe`, because the kernel
goes on living episodes; none on `Rebuild`, nor on what an episode is like.

Every property of a passing run is paired with a mutation of a mapped definition
(operators commented "A variant"), which breaks it under the same configuration.

## 4. Proofs

TLAPS proves, for all values of the constants under the assumptions named in the
modules:

| Theorem | Statement |
|---|---|
| `TypeCorrect`, `LifeTypeCorrect`, `EvolutionTypeCorrect`, `StoreTypeCorrect`, `ScaleTypeCorrect` | `TypeOK` of each state machine |
| `PolicyHolds`, `HighRiskIsBlocked`, `CriticalHasProof`, `NothingFabricated`, `BlockedForCause`, `RecheckImproves`, `EvaluationIsAtomic` | every property of `ConjunctionCycle`'s run |
| `ReportAgrees` | the restorability report and `is_restorable` agree |
| `FlagIsHonest`, `RefugeSound`, `EpisodesAreAllowed` | `FlagMatchesFile`, `RefugeIsSound`, `EpisodeIsAllowed` |
| `IdentityHolds`, `CursorHolds`, `RefugeIsPast`, `NowhereToGo` | `IdentityKept`, `CursorMatchesSteps`, `RefugeNeverAdvances`, `StuckHasNowhereToGo`, for `Scope = "genome"` |
| `LittleIsLost` | `LossBounded`, for `Scope = "genome"`, without `--revive` and with no checkpoint missing or unreadable |
| `OrganismKeepsActing` | `KeepsActing`, for `Scope = "genome"`, without sensing, with no checkpoint stripped of its vital signs and no certificate of a pressure of 90 or more |
| `RowsAreNoGhosts`, `AckedStays`, `TwinsStayEqual` | the invariants of `StoreFaults` |
| `StoreKeepsPromises` | `CheckpointStore` implements `CheckpointLog` |
| `CommitsAreMeasured`, `FailuresMoveNothing`, `OnlyRegimesFlip`, `ScaleRests`, `ScaleStaysUp` | the safety properties of `ScaleSteps` |
| `RevertIsExact`, `RollbackIsHealthy`, `SetbackIsQuiet` | the safety properties of `AutoEvolution` |
| `CoreIsAlwaysRun`, `DirectivesAreHeeded` | `ClosureKept`, `DirectivesHeeded` |
| `IdsAreDistinct`, `EvidenceStaysWithKin`, `CertifiedGoOn` | members never share an id; `EvidenceFromKin`; `OnlyCertifiedStay` |

Arguments.

*Conjunction.* The invariants relate the findings of the first pass to the
compensations pending and executed, and evidence only grows. `EvaluationIsAtomic`
adds `InStep`: while nobody disturbs the evaluation, context and report are the
original ones with the compensations executed so far, and those that answer missing
evidence come first. No two compensations look for the same thing (`SoughtOnce`),
so executing one more gives what executing it among all would (`OneMore`).

*LifeKernel.* `IInv` is `TypeOK` and "vital signs never excuse a purity that was
measured" (`Consistent`), without which a checkpoint's flag could differ from what
`from_dict` reads back. It is preserved action by action, over lemmas on the store
(what `Saved` adds and keeps) and on building and reading snapshots
(`RoundTrip`, `LostAxisNeverRestorable`). `FlagIsHonest`
strengthens it with `AllHonest`, `IdentityHolds` and `CursorHolds` with `LifeIsOwn`:
what is in memory and every checkpoint under the genome is a body of this organism at
a place `OnCourse`. `RefugeSound` needs only `IInv`: the two kinds of refuge and the
revival adopt a member of `Refuge`, and a payload without a required axis is never
restorable. `EpisodesAreAllowed`: the compensation of a high-risk action finds
nothing, so it stays blocked in both passes; the vital signs never hide sensed
pressure; the gate replaces blocked critical actions by an act and lets nothing else
through. `RefugeIsPast`: the steps of a refuge never exceed those of what the
organism saved later, nor its own (`PastIsPast`); `Saved` keeps that order, damage
makes no refuge because the flag is honest, and a wake restores the newest readable
checkpoint, which is why the configuration by genome is needed.

`NowhereToGo` keeps count of the quarantines (`Counted`): only an idle organism
counts them, and when the third is counted without refuge every refuge on the store
already leads back. Staying as it is saves nothing but the organism itself, a
stranger's checkpoint is no refuge of its, and damage makes none. `LittleIsLost`
rests on `LittleLost`: after the newest readable checkpoint of the genome no step was
due for saving, up to the step the organism is at. A completed step that is due saves,
a rollback saves too and takes the count back to a refuge that is on the store, and
among as many consecutive steps as the interval one is due (`NoneDueMeansFew`). The
extra assumptions are what the property needs: a lost file is a loss the code does not
repair, and `--revive` goes back to a healthy checkpoint, however old.
`OrganismKeepsActing` rests on `Calm`: no vital signs are missing, and none that are
known, will be read or were saved show a pressure to sleep under. Then the supervisor
acts or explores, to act at a bearable risk is harmless, and nothing harmless is
blocked (`HarmlessIsNotBlocked`), by either pass.

*CheckpointStore.* `IInv` says that rows have files, rows follow the clock and the
writes under way, names differ, a configuration without faults is in step
(`Untroubled`), and the tables are finite. From it each step maps to a step of
`CheckpointLog` or a stutter; the cardinalities of the window need
`FiniteSetTheorems`, the newest entry of a finite set needs `Extremes`.

*ScaleControl.* `IInv` is `TypeOK` with `Rested`, `Decides`, `Awaits`, `Steady`,
`Upward`. The scale rests because what is left of the lock covers the rest that is
missing, or falls short by one with no evidence gathered after a downgrade; a probe
result is consumed in the step after its fork only, and a fork needs the lock at
zero. `ScaleStaysUp` rests on arithmetic over every demand (`LargerIsWorthMore`).

*AutoEvolution.* `IInv` is `TypeOK` and `Bookkeeping`: a watch holds exactly what was
in force before its modification, a checkpoint a healthy state with its knobs, and
the cooldown left covers the quiet that is missing.

*FamilySchedule.* `FamilyProofs` follows a sequence through the code. `Composed` is
its eight insertions, one after the other (`ComposedBySteps`); each leaves the core
whole, in its order, prob at the end (`Inserted`), and adds its own family only. A
proposal of any profile has whatever it has of the core in order (`Tidy`), and
truncation keeps that. The best first, or worst first, orders list every family of
their set exactly once, because scores with names to break ties order them strictly
and in a finite strict order every rank is taken (`RanksAreTaken`). What is validated
is then the proposal if it passes; or its correction, which passes when it fits the
limit, and overlays give way until it does, but for an external reasoner, which has
no turn to; or the fallback, which always passes (`FallbackPasses`). An early stop
waits for prob, which is last, so nothing is cut (`ExecutionIsWhole`). That is
`ClosureKept`. For `DirectivesHeeded`: what is off is filtered out of the proposal,
and neither correction nor fallback brings it back (`NothingElseIsValidated`: the
correction passes unless there is room for the core alone, and then the fallback is
the core alone); what is on is proposed, and not truncated if there is room for all that
is left (`WhatIsLeftIsRun`). `LastReasoned` carries both to the colony: the last
reasoning is always that of `SelectSequence` and `Executed` for some ask and some
directives.

*Ecology.* Ids are distinct because a child's id ends in the number of its birth,
which is greater than any before (`BornBy`). Every observation a selector holds was
made by its own line in its own scenario, or in a comparable one of a sharing colony;
sharing composes two comparabilities, birth extends the line, and a selection keeps
fit members and gives birth to their children (`RankingSparesTheFit`).

Assumptions worth naming: strangers have bodies of their own and another genome
(`LifeKernel`); comparability of scenarios is reflexive and transitive, as it is
among the scenarios shipped (`MorphismAssumption`); founders have different names;
situations ask with a context of the declared shape (`Asks` in `EcologyAssumption`);
a storage configuration reads first from a database it has; the kernel's caller uses
the baseline profile and the shipped scales.

Only model-checked: liveness (`ComesUp`, `RefugeLeadsBack`, `KernelClimbs`,
`LedgerCatchesUp`, `WatchEnds`), which this prover does not reach. Every invariant and
every other action property of a passing run is stated by a theorem.

## 5. Disagreements found

1. **A healthy organism sleeps forever in a fresh run** (`KernelFreshSensed`). With
   host sensing, a restored organism's vital signs are recomputed from the new
   run's certificates, of which there are none: risk 1.0 (`vitals.py:93`), mode
   recovery, act blocked as high-risk, sleep; no episode ever runs.
2. **A refuge that leads nowhere** (`KernelRefuge`). Neither rollback nor the E5
   refuge assigns `last_vitals`; without sensing the organism decides rollback
   again, forever.
3. **A refuge sought by run** (`KernelGenome`). The conjunction looks for
   `healthy_checkpoint` by run, so in a fresh run a rollback becomes a quarantine
   beside the refuge the comment in `kernel.py:891` promises.
4. **Recovered evidence does not unblock** (`ConjunctionRecovered`). A rollback plan
   recovered by `expand_retrieval` leaves `require_rollback_plan` blocked.

Four more in the kernel are modelled as the code has them, and listed as hazards
without a run of their own: with sensing the episode's `rollback_required` is
dropped (`kernel.py:198`); the newest checkpoint counts as `healthy_checkpoint`
whatever its health (`service.py:330`); a blocked self-modification is replaced by an
act that the risk validator would block (`validators.py:154`); a memory purity of
exactly zero reads as one (`service.py:212`). About the storage: `list_events`
answers with the oldest events in PostgreSQL and the newest in SQLite
(`postgres_store.py:141`); in strict mode a refused save may be visible in one
database; the window of 400 rows is applied before the organism and the health are
looked at, and decisions that do not act save an unhealthy checkpoint in every cycle
(`kernel.py:689`), so after 400 of them a healthy refuge is out of reach. Section 2
has those of the other parts under "Worth knowing".

## 6. Not modelled, and why

Numeric scoring (certification, reality, memory ranking, what a family of reasoning
or a neural organ computes), the simulated worlds and the vendored engines, which are
the greater part of the lines of the repository: nothing in them is a protocol, and
the models take their results as inputs. SQL text, migrations, telemetry, report
formatting, benchmarks and campaign scripts: input and output only. Homeostasis, the
crisis router and the core services are not wired to the runtime. Trajectory and
lineage are append-only records of decisions made elsewhere.

Two stateful parts are left for later, because no modelled part reads what they keep
(an error they raise ends the step like any other): the chain of life transitions
(`organism/life_transition.py`, a hash chain whose append to the ledger may fail and
whose head is not moved then) and the inference port of the neural runtime (its modes
and authority, its bounded buffer of traces, its sessions and receipts). Of the
modelled parts, what is left out is said in section 2.

## 7. Plan

Done: vital signs, conjunction and kernel; the checkpoint store with its abstract
specification; scale control; autoevolution; reasoning and ecology; for each the
theorems of section 4. Left, in this order:

1. `DurableLife`: an abstract life (a sequence of selves; lose a bounded suffix, go
   back to an earlier self) that `LifeKernel` is shown to implement. Its parts are
   proved already (`IdentityHolds`, `RefugeIsPast`, `LittleIsLost`).
2. `LifeChain`: the chain of life transitions with the inference port that reports to
   it. What can go wrong there: an append that fails, or one that is kept without an
   answer, leaves the same index to be committed twice, as does a restart or a
   rollback to an older checkpoint; the buffer of traces is lost without a word
   whenever the kernel replaces the runner (the end of a block, a rollback), since the
   exported neural state leaves it out; an adaptation may fail after its commit.
3. `LifeKernel` over `CheckpointLog`: the kernel with look-ups that may miss an
   entry that was not promised.
4. The degradation executor and the tier directives of the runner, as far as they
   are stateful.
