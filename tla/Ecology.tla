------------------------------- MODULE Ecology ------------------------------
(***************************************************************************)
(* A colony of organisms (runtime/organism/ecology.py): in a generation    *)
(* each member lives some episodes, reasoning as its selector directs;     *)
(* then members share what they learned, the fittest survive, and their    *)
(* children take the places of the others.  A colony of one whose          *)
(* situations are those of a run of its own is the kernel's runner with    *)
(* reward-guided selection.                                                *)
(*                                                                         *)
(* The selectors are memory; rewards and certificates are on the store,    *)
(* under the run of the member, so a colony started again on the same      *)
(* store finds them.  Rules induced by a family, the knobs a child mutates *)
(* and the windows of 256 and 1024 events of the lookups are left out.     *)
(***************************************************************************)
EXTENDS RewardGuided

CONSTANTS
  Colonies,        \* sequences of members a colony may begin with
  Names,           \* of founders, numbers
  Scenarios,
  Incomparable,    \* pairs of scenarios whose morphism blocks a transfer
  TransferModes,
  Situations,      \* scenario -> what an episode in it may bring: what is asked
                   \* of the scheduler, what comes of it
  Episodes,        \* of a member in a generation
  MaxGenerations,
  MaxRestarts

VARIABLES
  transfer,    \* what members pass on
  founders,    \* the members the colony is started with
  members,     \* the population, in order
  evidence,    \* member id -> what its selector has observed or been told
  ledger,      \* member id -> rewards on the store, a bag
  generation, spawned, restarts,
  pc,          \* "live", "share" or "select"
  turn,        \* the member whose turn it is to live or to share
  lived,       \* episodes it has lived in this turn
  last         \* the reasoning of the last episode of this generation

vars == <<transfer, founders, members, evidence, ledger, generation, spawned,
          restarts, pc, turn, lived, last>>

Modes == {"isolated", "inheritance_only", "reasoning_policy",
          "reasoning_policy_plus_rules"}
Sharing == {"reasoning_policy", "reasoning_policy_plus_rules"}

\* A founder's id is a sequence of one number; a child's is that of the parent,
\* the generation and the number of the birth.
Member(id, scenario, profile) ==
  [id |-> id, scenario |-> scenario, profile |-> profile, rolledBack |-> FALSE]
ChildId(id, born, number) == id \o <<born, number>>
Ids(some) == {m.id : m \in ToSet(some)}

Founder(name, scenario, profile) == Member(<<name>>, scenario, profile)
Founders ==
  {Founder(n, s, p) : n \in Names, s \in Scenarios, p \in DOMAIN Profiles}

ASSUME EcologyAssumption ==
  /\ TransferModes \subseteq Modes
  /\ \A colony \in Colonies :
       /\ colony \in Seq(Founders)
       /\ colony # <<>>
       /\ \A i, j \in DOMAIN colony : colony[i].id = colony[j].id => i = j
  /\ \A scenario \in Scenarios : \A s \in Situations[scenario] :
       s.ask \in Asks /\ s.rolledBack \in BOOLEAN
  /\ Names \subseteq Nat

\* To be comparable is an equivalence, as it is among the scenarios the
\* repository ships.
Comparable(from, to) == <<from, to>> \notin Incomparable
ASSUME MorphismAssumption ==
  \A a, b, c \in Scenarios :
    /\ Comparable(a, a)
    /\ Comparable(a, b) /\ Comparable(b, c) => Comparable(a, c)

NoReasoning == [ask |-> "none"]

Rows(id) == IF id \in DOMAIN ledger THEN ledger[id] ELSE EmptyBag

\* What a new selector finds on the store of its run.
Seed(id, scenario) ==
  LET rows == Rows(id)
      Seen(row) == Observation(row.reward, row.overlays, scenario, id)
  IN  [o \in {Seen(row) : row \in DOMAIN rows} |->
         Count(rows, {row \in DOMAIN rows : Seen(row) = o})]

Init ==
  /\ transfer \in TransferModes
  /\ founders \in Colonies
  /\ members = founders
  /\ evidence = [id \in Ids(founders) |-> EmptyBag]
  /\ ledger = [id \in {} |-> EmptyBag]
  /\ generation = 1 /\ spawned = 0 /\ restarts = 0
  /\ pc = "live" /\ turn = 1 /\ lived = 0
  /\ last = NoReasoning

-----------------------------------------------------------------------------
(* Living.                                                                 *)

\* After an episode: the same member again, the next one, or the end of the
\* generation.
Advance ==
  IF lived + 1 < Episodes
  THEN lived' = lived + 1 /\ UNCHANGED <<turn, pc>>
  ELSE /\ lived' = 0
       /\ IF turn < Len(members)
          THEN turn' = turn + 1 /\ UNCHANGED pc
          ELSE turn' = 1 /\ pc' = IF transfer \in Sharing THEN "share" ELSE "select"

\* The scheduler chooses and runs the families.
Ran(ask, directives, result, s) ==
  [ask |-> ask, directives |-> directives, result |-> result,
   executed |-> Executed(result.validated, ask, s.failing, s.deduced)]
Reason(ask, directives, s) ==
  Ran(ask, directives, SelectSequence(ask, directives), s)

\* What a situation asks of the scheduler, asked with the profile of a member.
AskedBy(m, ask) ==
  [field \in DOMAIN ask \cup {"profile"} |->
     IF field = "profile" THEN m.profile ELSE ask[field]]

\* An episode: the selector directs, families are run, and the reward of what
\* was run is observed and stored.
Live(s) ==
  LET m == members[turn]
      overlays == OverlaysOf(last'.executed)
      observed == Observation(s.reward, overlays, m.scenario, m.id)
      stored == [reward |-> s.reward, overlays |-> overlays,
                 certified |-> s.certified]
  IN  /\ pc = "live"
      /\ last' = Reason(AskedBy(m, s.ask),
                        Directives(evidence[m.id], m.scenario), s)
      /\ members' = [members EXCEPT ![turn].rolledBack = @ \/ s.rolledBack]
      /\ evidence' = [evidence EXCEPT ![m.id] = @ (+) SetToBag({observed})]
      /\ ledger' = (m.id :> (Rows(m.id) (+) SetToBag({stored}))) @@ ledger
      /\ Advance
      /\ UNCHANGED <<transfer, founders, generation, spawned, restarts>>

-----------------------------------------------------------------------------
(* Sharing: one donor after the other, so a later donor passes on what it  *)
(* has just been given.                                                    *)

Transfers(donor, recipient) ==
  \/ donor.scenario = recipient.scenario
  \/ Comparable(donor.scenario, recipient.scenario)

Share ==
  LET donor == members[turn]
      Recipient(id) == CHOOSE m \in ToSet(members) : m.id = id
  IN  /\ pc = "share"
      /\ evidence' = [id \in DOMAIN evidence |->
                        MergeFrom(evidence[id], evidence[donor.id],
                                  id # donor.id /\ Transfers(donor, Recipient(id)))]
      /\ IF turn < Len(members) THEN turn' = turn + 1 /\ UNCHANGED pc
                                ELSE turn' = 1 /\ pc' = "select"
      /\ UNCHANGED <<transfer, founders, members, ledger, generation, spawned,
                     restarts, lived, last>>

-----------------------------------------------------------------------------
(* Selection and reproduction.  Fitness is the mean reward of certified    *)
(* episodes; who has none is not fit at all.                               *)

Certified(id) == {row \in DOMAIN Rows(id) : row.certified}
IsFit(id) == Certified(id) # {}

\* Member i comes before member j; equally fit ones keep their order.
Fitter(i, j) ==
  LET a == members[i].id
      b == members[j].id
      fa == Reward(Rows(a), Certified(a)) * Count(Rows(b), Certified(b))
      fb == Reward(Rows(b), Certified(b)) * Count(Rows(a), Certified(a))
  IN  IF IsFit(a) /\ IsFit(b) THEN fa > fb \/ (fa = fb /\ i < j)
      ELSE IF IsFit(a) \/ IsFit(b) THEN IsFit(a) ELSE i < j

\* Half of the population, rounded to even, and at least one.
Places(n) == Max({1, IF n % 4 = 3 THEN (n + 1) \div 2 ELSE n \div 2})

\* A variant: whoever comes first survives, fit or not.
RankingsOfAll ==
  {order \in Injection(DOMAIN members, DOMAIN members) :
     \A a, b \in DOMAIN order : a < b => Fitter(order[a], order[b])}

\* The ranking of those who are fit, by place in the population.  There is one.
Rankings ==
  LET fit == {i \in DOMAIN members : IsFit(members[i].id)}
  IN  {order \in Injection(1 .. Cardinality(fit), fit) :
         \A a, b \in DOMAIN order : a < b => Fitter(order[a], order[b])}

\* How many of them survive, and who.
Spared(order) == 1 .. Min({Places(Len(members)), Cardinality(DOMAIN order)})
Survivors(order) == [k \in Spared(order) |-> members[order[k]]]

\* What may be inherited: the parent is certified, and was never rolled back.
Eligible(parent) == IsFit(parent.id) /\ ~parent.rolledBack

\* The parent of the k-th member of the next generation.
ParentOf(survivors, k) == survivors[((k - Len(survivors) - 1) % Len(survivors)) + 1]

Child(survivors, k) ==
  LET parent == ParentOf(survivors, k)
  IN  Member(ChildId(parent.id, generation, spawned + k - Len(survivors)),
             parent.scenario, parent.profile)

\* The survivors, and a child of theirs in every other place.
NextMembers(survivors) ==
  [k \in DOMAIN members |->
     IF k \in DOMAIN survivors THEN survivors[k] ELSE Child(survivors, k)]

\* What a child begins with: what its run has on the store, and what its
\* parent knows.
Brought(survivors, k) ==
  LET parent == ParentOf(survivors, k)
      child == Child(survivors, k)
  IN  MergeFrom(Seed(child.id, child.scenario), evidence[parent.id],
                Eligible(parent))

NextEvidence(survivors) ==
  LET next == NextMembers(survivors)
      Index(id) == CHOOSE k \in DOMAIN next : next[k].id = id
  IN  [id \in Ids(next) |->
         IF Index(id) \in DOMAIN survivors THEN evidence[id]
         ELSE Brought(survivors, Index(id))]

\* Nobody fit: the population stays as it is.
Reproduce(survivors) ==
  IF survivors = <<>> THEN UNCHANGED <<members, evidence, spawned>>
  ELSE /\ members' = NextMembers(survivors)
       /\ evidence' = NextEvidence(survivors)
       /\ spawned' = spawned + Len(members) - Len(survivors)

Select ==
  /\ pc = "select"
  /\ \E order \in Rankings : Reproduce(Survivors(order))
  /\ generation < MaxGenerations
  /\ generation' = generation + 1
  /\ pc' = "live"
  /\ last' = NoReasoning
  /\ UNCHANGED <<transfer, founders, ledger, restarts, turn, lived>>

\* The colony is started again on the same store: the founders are built
\* anew, children are forgotten, their runs stay.
Restart ==
  /\ restarts < MaxRestarts
  /\ restarts' = restarts + 1
  /\ transfer' \in TransferModes
  /\ members' = founders
  /\ evidence' = [id \in Ids(founders) |->
                    Seed(id, (CHOOSE m \in ToSet(founders) : m.id = id).scenario)]
  /\ generation' = 1 /\ spawned' = 0
  /\ pc' = "live" /\ turn' = 1 /\ lived' = 0
  /\ last' = NoReasoning
  /\ UNCHANGED <<founders, ledger>>

Next ==
  \/ \E s \in Situations[members[turn].scenario] : Live(s)
  \/ Share
  \/ Select
  \/ Restart

Spec == Init /\ [][Next]_vars

-----------------------------------------------------------------------------
(* Properties.                                                             *)

\* Whatever the context, the profile, the budget, the directives and the
\* failures: what is executed is the validated sequence, and the whole core in
\* its order with the overlays between, prob at the end, in at most ten steps.
\* No correction leaves a sequence that its own validator would refuse, which
\* no caller looks at, and no early stop cuts it short
\* (policy.py: validate_reasoning_sequence, meta_scheduler.py: run).
ClosureKept ==
  last # NoReasoning =>
    /\ last.result.passed
    /\ last.executed = last.result.validated
    /\ Only(last.executed, ToSet(Core)) = Core
    /\ Last(last.executed) = "prob"
    /\ Len(last.executed) <= HardMaxSteps

\* The selector's directives survive proposal, truncation, validation and
\* trimming: a profile other than the second ecology, which ignores them, runs
\* no family that is switched off, and every family of its own that is switched
\* on, provided the budget has room for the core and every family of its own
\* that is not switched off (reward_guided.py: directives;
\* policy.py: select_sequence).
DirectivesHeeded ==
  (last # NoReasoning /\ last.ask.profile # "adaptive_family_ecology_v2") =>
    LET own == Optional(last.ask)
        left == Enabled(own, last.directives)
    IN  \A c \in Candidates :
          /\ last.directives[c] = "off" => ~Contains(last.executed, c)
          /\ (/\ last.directives[c] = "on"
              /\ Contains(own, c)
              /\ last.result.limit >= Len(Core) + Len(left))
             => Contains(last.executed, c)

\* Evidence comes to a selector from its own episodes, by birth from its
\* ancestors, and, when the colony shares, from members in comparable
\* scenarios; never, through any chain of sharings and births, from a scenario
\* whose morphism blocks the transfer (reward_guided.py: merge_from).
EvidenceFromKin ==
  \A m \in ToSet(members) : \A o \in DOMAIN evidence[m.id] :
    \/ IsPrefix(o.origin, m.id)
    \/ transfer \in Sharing /\ Comparable(o.regime, m.scenario)

\* When somebody has a certified episode, a selection leaves nobody without
\* one but children of those who have, and as many members as before
\* (ecology.py: _fitness, _select_and_reproduce).
OnlyCertifiedStay ==
  [][(pc = "select" /\ pc' = "live" /\ restarts' = restarts
        /\ \E m \in ToSet(members) : IsFit(m.id)) =>
       /\ Len(members') = Len(members)
       /\ \A child \in ToSet(members') :
            \E m \in ToSet(members) : IsFit(m.id) /\ IsPrefix(m.id, child.id)]_vars
=============================================================================
