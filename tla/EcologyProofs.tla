---------------------------- MODULE EcologyProofs ----------------------------
(***************************************************************************)
(* What is proved of Ecology for every colony, every comparison of its     *)
(* scenarios and every number of generations and restarts: that evidence   *)
(* travels between kin and comparable scenarios only, that selection       *)
(* keeps the certified and their children, and that every episode runs the *)
(* whole core and what the selector directs.                               *)
(***************************************************************************)
EXTENDS Ecology, FamilyProofs

Members ==
  [id : Seq(Nat), scenario : Scenarios, profile : DOMAIN Profiles,
   rolledBack : BOOLEAN]

\* The types, with what a program counter tells of the mode.
TypeOK ==
  /\ transfer \in TransferModes
  /\ founders \in Colonies
  /\ members \in Seq(Members) /\ members # <<>>
  /\ evidence = [id \in Ids(members) |-> evidence[id]]
  /\ generation \in Nat /\ spawned \in Nat /\ restarts \in Nat /\ lived \in Nat
  /\ turn \in DOMAIN members
  /\ pc \in {"live", "share", "select"}
  /\ pc = "share" => transfer \in Sharing

\* An id names one member, and no member bears the id of a birth to come.
Distinct(some) == \A i, j \in DOMAIN some : some[i].id = some[j].id => i = j
BornBy(id, number) == Len(id) = 1 \/ (Len(id) >= 3 /\ id[Len(id)] <= number)
Named ==
  /\ Distinct(members)
  /\ \A i \in DOMAIN members : BornBy(members[i].id, spawned)

\* An observation a member may hold: of its own line and scenario, or from a
\* comparable scenario while the colony shares.
MayHold(o, m, mode) ==
  /\ o.regime \in Scenarios
  /\ o.origin \in Seq(Nat)
  /\ \/ o.regime = m.scenario /\ IsPrefix(o.origin, m.id)
     \/ mode \in Sharing /\ Comparable(o.regime, m.scenario)
Taught ==
  \A i \in DOMAIN members : \A o \in DOMAIN evidence[members[i].id] :
    MayHold(o, members[i], transfer)

IInv == TypeOK /\ Named /\ Taught

-----------------------------------------------------------------------------
(* Prefixes, bags, minima.                                                 *)

\* A line begins with itself.
LEMMA OwnPrefix ==
  ASSUME NEW s \in Seq(Nat)
  PROVE  IsPrefix(s, s)
BY DEF IsPrefix

\* What begins an id begins the ids of its children.
LEMMA PrefixGrows ==
  ASSUME NEW s \in Seq(Nat), NEW t \in Seq(Nat), NEW u \in Seq(Nat), IsPrefix(s, t)
  PROVE  IsPrefix(s, t \o u)
<1>1. /\ Len(s) <= Len(t)
      /\ SubSeq(s, 1, Len(s)) = SubSeq(t, 1, Len(s))
  BY DEF IsPrefix
<1>2. Len(t \o u) = Len(t) + Len(u)
  OBVIOUS
<1>3. SubSeq(t \o u, 1, Len(s)) = SubSeq(t, 1, Len(s))
  BY <1>1
<1> QED
  BY <1>1, <1>2, <1>3 DEF IsPrefix

\* A merge brings nothing but what either side holds.
LEMMA MergeBringsNothingNew ==
  ASSUME NEW own, NEW others, NEW allowed \in BOOLEAN,
         NEW o \in DOMAIN MergeFrom(own, others, allowed)
  PROVE  o \in DOMAIN own \/ (allowed /\ o \in DOMAIN others)
BY DEF MergeFrom, (+)

\* At least one place, and no more than there are members.
LEMMA PlacesAreFew ==
  ASSUME NEW n \in Nat, n >= 1
  PROVE  Places(n) \in 1 .. n
<1> DEFINE h == IF n % 4 = 3 THEN (n + 1) \div 2 ELSE n \div 2
<1>1. h \in Nat /\ h <= n
  OBVIOUS
<1> HIDE DEF h
<1>2. Max({1, h}) \in {1, h} /\ Max({1, h}) >= 1
  <2>1. 1 \in Int /\ h \in Int
    BY <1>1
  <2>2. QED
    BY <2>1, MaxOfTwo
<1>3. Max({1, h}) \in 1 .. n
  BY <1>1, <1>2
<1> QED BY <1>3 DEF Places, h

-----------------------------------------------------------------------------
(* The colony as it begins, and as it begins again.                        *)

\* The founders are members, each with a name of its own.
LEMMA FoundersAreMembers ==
  ASSUME NEW colony \in Colonies
  PROVE  /\ colony \in Seq(Members) /\ colony # <<>>
         /\ 1 \in DOMAIN colony
         /\ Distinct(colony)
         /\ \A i \in DOMAIN colony : Len(colony[i].id) = 1
<1>1. /\ colony \in Seq(Founders)
      /\ colony # <<>>
      /\ \A i, j \in DOMAIN colony : colony[i].id = colony[j].id => i = j
  BY EcologyAssumption
<1>2. \A f \in Founders : f \in Members /\ Len(f.id) = 1
  <2>1. TAKE f \in Founders
  <2>2. PICK n \in Names, s \in Scenarios, p \in DOMAIN Profiles : f = Founder(n, s, p)
    BY DEF Founders
  <2>3. n \in Nat
    BY EcologyAssumption
  <2>4. <<n>> \in Seq(Nat) /\ Len(<<n>>) = 1
    BY <2>3
  <2> QED BY <2>2, <2>4 DEF Founder, Member, Members
<1>3. \A i \in DOMAIN colony : colony[i] \in Founders
  BY <1>1
<1>4. colony \in Seq(Members)
  BY <1>1, <1>2, <1>3
<1>5. 1 \in DOMAIN colony
  BY <1>1
<1> QED BY <1>1, <1>2, <1>3, <1>4, <1>5 DEF Distinct

\* What a new selector finds on the store is its own.
LEMMA SeedIsOwn ==
  ASSUME NEW m \in Members, NEW o \in DOMAIN Seed(m.id, m.scenario), NEW mode
  PROVE  MayHold(o, m, mode)
<1>1. PICK row : o = Observation(row.reward, row.overlays, m.scenario, m.id)
  BY DEF Seed
<1>2. o.regime = m.scenario /\ o.origin = m.id
  BY <1>1 DEF Observation
<1>3. m.scenario \in Scenarios /\ m.id \in Seq(Nat)
  BY DEF Members
<1> QED BY <1>2, <1>3, OwnPrefix DEF MayHold

\* The colony begins well.
LEMMA InitHolds == Init => IInv
<1> SUFFICES ASSUME Init PROVE IInv
  OBVIOUS
<1> USE DEF Init
<1>0. founders \in Colonies
  OBVIOUS
<1>1. TypeOK
  BY <1>0, FoundersAreMembers DEF TypeOK
<1>2. Named
  BY <1>0, FoundersAreMembers DEF Named, BornBy
<1>3. Taught
  <2>1. \A i \in DOMAIN members : members[i].id \in Ids(founders)
    BY DEF Ids, ToSet
  <2>2. DOMAIN EmptyBag = {}
    BY DEF EmptyBag, SetToBag
  <2> QED BY <2>1, <2>2 DEF Taught
<1> QED BY <1>1, <1>2, <1>3 DEF IInv

\* It begins again as well.
LEMMA RestartKeeps == IInv /\ Restart => IInv'
<1> SUFFICES ASSUME IInv, Restart PROVE IInv'
  OBVIOUS
<1>0. /\ founders \in Colonies
      /\ members' = founders /\ founders' = founders
      /\ restarts \in Nat
  BY DEF IInv, TypeOK, Restart
<1> DEFINE Named_(id) == CHOOSE m \in ToSet(founders) : m.id = id
<1>1. evidence' = [id \in Ids(founders) |-> Seed(id, Named_(id).scenario)]
  BY DEF Restart
<1>2. TypeOK'
  BY <1>0, <1>1, FoundersAreMembers DEF TypeOK, Restart
<1>3. Named'
  BY <1>0, FoundersAreMembers DEF Named, BornBy, Restart
<1>4. Taught'
  <2> SUFFICES ASSUME NEW i \in DOMAIN founders, NEW o \in DOMAIN evidence'[founders[i].id]
               PROVE  MayHold(o, founders[i], transfer')
    BY <1>0 DEF Taught
  <2>1. founders[i] \in ToSet(founders) /\ founders[i].id \in Ids(founders)
    BY DEF Ids, ToSet
  <2>2. Named_(founders[i].id) \in ToSet(founders) /\ Named_(founders[i].id).id = founders[i].id
    BY <2>1
  <2>3. Named_(founders[i].id) = founders[i]
    BY <1>0, <2>2, FoundersAreMembers DEF ToSet, Distinct
  <2>4. o \in DOMAIN Seed(founders[i].id, founders[i].scenario)
    BY <1>1, <2>1, <2>3
  <2>5. founders[i] \in Members
    BY <1>0, FoundersAreMembers
  <2> QED BY <2>4, <2>5, SeedIsOwn
<1> QED BY <1>2, <1>3, <1>4 DEF IInv

-----------------------------------------------------------------------------
(* Living and sharing.                                                     *)

\* A member is in the list of ids, and evidence is kept for it.
LEMMA MembersAreKnown ==
  ASSUME IInv, NEW i \in DOMAIN members
  PROVE  /\ members[i] \in Members
         /\ members[i] \in ToSet(members)
         /\ members[i].id \in Ids(members)
         /\ members[i].id \in DOMAIN evidence
<1>1. members[i] \in Members
  BY DEF IInv, TypeOK
<1>2. members[i] \in ToSet(members) /\ members[i].id \in Ids(members)
  BY DEF Ids, ToSet
<1>3. DOMAIN evidence = Ids(members)
  BY DEF IInv, TypeOK
<1> QED BY <1>1, <1>2, <1>3

\* An episode teaches a member what it has lived.
LEMMA LiveKeeps ==
  ASSUME IInv, NEW s \in Situations[members[turn].scenario], Live(s)
  PROVE  IInv'
<1> DEFINE m == members[turn]
<1>0. turn \in DOMAIN members /\ m \in Members /\ s.rolledBack \in BOOLEAN
      /\ members \in Seq(Members) /\ members # <<>>
  <2>1. turn \in DOMAIN members /\ members \in Seq(Members) /\ members # <<>>
    BY DEF IInv, TypeOK
  <2>2. m \in Members
    BY <2>1
  <2>3. m.scenario \in Scenarios
    BY <2>2 DEF Members
  <2> QED BY <2>1, <2>2, <2>3, EcologyAssumption
<1>1. members' = [members EXCEPT ![turn].rolledBack = @ \/ s.rolledBack]
  BY DEF Live
<1>2. /\ members' \in Seq(Members)
      /\ DOMAIN members' = DOMAIN members
      /\ \A i \in DOMAIN members :
           members'[i].id = members[i].id /\ members'[i].scenario = members[i].scenario
  <2>1. [m EXCEPT !.rolledBack = @ \/ s.rolledBack] \in Members
    BY <1>0 DEF Members
  <2>2. members' = [members EXCEPT ![turn] = [m EXCEPT !.rolledBack = @ \/ s.rolledBack]]
    BY <1>1
  <2>3. /\ [m EXCEPT !.rolledBack = @ \/ s.rolledBack].id = m.id
        /\ [m EXCEPT !.rolledBack = @ \/ s.rolledBack].scenario = m.scenario
    BY <1>0 DEF Members
  <2> HIDE DEF m
  <2>4. DOMAIN members' = DOMAIN members
    BY <2>2
  <2>5. \A i \in DOMAIN members :
          members'[i].id = members[i].id /\ members'[i].scenario = members[i].scenario
    BY <1>0, <2>2, <2>3 DEF m
  <2>6. members' \in Seq(Members)
    BY <1>0, <2>1, <2>2
  <2> QED BY <2>4, <2>5, <2>6
<1>3. PICK overlays :
        evidence' = [evidence EXCEPT ![m.id] =
                       @ (+) SetToBag({Observation(s.reward, overlays, m.scenario, m.id)})]
  BY DEF Live
<1>4. UNCHANGED <<transfer, founders, generation, spawned, restarts>> /\ Advance
  BY DEF Live
<1>5. Ids(members') = Ids(members)
  BY <1>2 DEF Ids, ToSet
<1>6. TypeOK'
  <2>1. evidence = [id \in Ids(members) |-> evidence[id]]
    BY DEF IInv, TypeOK
  <2>2. evidence' = [id \in Ids(members') |-> evidence'[id]]
    BY <1>3, <1>5, <2>1
  <2>3. members' # <<>>
    BY <1>0, <1>2
  <2>4. turn' \in DOMAIN members' /\ lived' \in Nat /\ pc' \in {"live", "share", "select"}
        /\ (pc' = "share" => transfer' \in Sharing)
    <3>1. lived \in Nat /\ pc \in {"live", "share", "select"} /\ (pc = "share" => transfer \in Sharing)
      BY DEF IInv, TypeOK
    <3>2. 1 \in DOMAIN members /\ (turn < Len(members) => turn + 1 \in DOMAIN members)
      BY <1>0
    <3> QED BY <1>0, <1>2, <1>4, <3>1, <3>2 DEF Advance
  <2> QED BY <1>2, <1>4, <2>2, <2>3, <2>4 DEF IInv, TypeOK
<1>7. Named'
  BY <1>2, <1>4 DEF IInv, Named, Distinct
<1>8. Taught'
  <2> SUFFICES ASSUME NEW i \in DOMAIN members, NEW o \in DOMAIN evidence'[members[i].id]
               PROVE  MayHold(o, members[i], transfer)
    BY <1>2, <1>4 DEF Taught, MayHold
  <2>1. CASE o \in DOMAIN evidence[members[i].id]
    BY <2>1 DEF IInv, Taught
  <2>2. CASE o \notin DOMAIN evidence[members[i].id]
    <3> DEFINE new == Observation(s.reward, overlays, m.scenario, m.id)
    <3>1. members[i].id \in DOMAIN evidence
      BY MembersAreKnown
    <3>2. members[i].id = m.id
      BY <1>3, <2>2, <3>1
    <3>3. i = turn
      BY <1>0, <3>2 DEF IInv, Named, Distinct
    <3>4. evidence'[m.id] = evidence[m.id] (+) SetToBag({new})
      BY <1>3, <3>1, <3>2
    <3>5. o \in DOMAIN SetToBag({new})
      BY <2>2, <3>2, <3>4 DEF (+)
    <3>6. o = new
      BY <3>5 DEF SetToBag
    <3>7. o.regime = m.scenario /\ o.origin = m.id
      BY <3>6 DEF Observation
    <3>8. m.scenario \in Scenarios /\ m.id \in Seq(Nat)
      BY <1>0 DEF Members
    <3> QED BY <3>3, <3>7, <3>8, OwnPrefix DEF MayHold
  <2> QED BY <2>1, <2>2
<1> QED BY <1>6, <1>7, <1>8 DEF IInv

\* What a member may hold, those it shares with may hold.
LEMMA HandedOn ==
  ASSUME NEW donor \in Members, NEW m \in Members, NEW mode \in Sharing, NEW o,
         MayHold(o, donor, mode), Transfers(donor, m)
  PROVE  MayHold(o, m, mode)
<1>1. /\ o.regime \in Scenarios /\ donor.scenario \in Scenarios /\ m.scenario \in Scenarios
  BY DEF MayHold, Members
<1>2. Comparable(o.regime, donor.scenario)
  BY <1>1, MorphismAssumption DEF MayHold
<1>3. Comparable(donor.scenario, m.scenario)
  BY <1>1, MorphismAssumption DEF Transfers
<1>4. Comparable(o.regime, m.scenario)
  BY <1>1, <1>2, <1>3, MorphismAssumption
<1> QED BY <1>4 DEF MayHold

\* A donor tells nobody what he may not know.
LEMMA ShareKeeps == IInv /\ Share => IInv'
<1> SUFFICES ASSUME IInv, Share PROVE IInv'
  OBVIOUS
<1> DEFINE donor == members[turn]
           Recipient(id) == CHOOSE m \in ToSet(members) : m.id = id
<1>0. /\ pc = "share" /\ transfer \in Sharing
      /\ turn \in DOMAIN members /\ members \in Seq(Members) /\ members # <<>>
  BY DEF IInv, TypeOK, Share
<1>1. /\ evidence' = [id \in DOMAIN evidence |->
                        MergeFrom(evidence[id], evidence[donor.id],
                                  id # donor.id /\ Transfers(donor, Recipient(id)))]
      /\ UNCHANGED <<transfer, founders, members, ledger, generation, spawned,
                     restarts, lived, last>>
  BY DEF Share
<1>2. /\ turn' \in DOMAIN members
      /\ pc' \in {"live", "share", "select"}
  <2>1. 1 \in DOMAIN members /\ (turn < Len(members) => turn + 1 \in DOMAIN members)
    BY <1>0
  <2> QED BY <1>0, <2>1 DEF Share
<1>3. TypeOK'
  <2>1. DOMAIN evidence = Ids(members)
    BY DEF IInv, TypeOK
  <2>2. evidence' = [id \in Ids(members) |-> evidence'[id]]
    BY <1>1, <2>1
  <2> QED BY <1>0, <1>1, <1>2, <2>2 DEF IInv, TypeOK
<1>4. Named'
  BY <1>1 DEF IInv, Named
<1>5. Taught'
  <2> SUFFICES ASSUME NEW i \in DOMAIN members, NEW o \in DOMAIN evidence'[members[i].id]
               PROVE  MayHold(o, members[i], transfer)
    BY <1>1 DEF Taught
  <2>1. /\ members[i] \in Members /\ members[i] \in ToSet(members)
        /\ members[i].id \in DOMAIN evidence
    BY MembersAreKnown
  <2>2. Recipient(members[i].id) = members[i]
    <3>1. /\ Recipient(members[i].id) \in ToSet(members)
          /\ Recipient(members[i].id).id = members[i].id
      BY <2>1
    <3> QED BY <3>1 DEF IInv, Named, Distinct, ToSet
  <2> DEFINE allowed == members[i].id # donor.id /\ Transfers(donor, members[i])
  <2>3. evidence'[members[i].id] = MergeFrom(evidence[members[i].id], evidence[donor.id], allowed)
    BY <1>1, <2>1, <2>2
  <2>4. allowed \in BOOLEAN
    BY DEF Transfers, Comparable
  <2>5. o \in DOMAIN evidence[members[i].id] \/ (allowed /\ o \in DOMAIN evidence[donor.id])
    <3> HIDE DEF allowed
    <3> QED BY <2>3, <2>4, MergeBringsNothingNew
  <2>6. CASE o \in DOMAIN evidence[members[i].id]
    BY <2>6 DEF IInv, Taught
  <2>7. CASE allowed /\ o \in DOMAIN evidence[donor.id]
    <3>1. MayHold(o, donor, transfer)
      BY <1>0, <2>7 DEF IInv, Taught
    <3>2. donor \in Members
      BY <1>0
    <3> QED BY <1>0, <2>1, <2>7, <3>1, <3>2, HandedOn
  <2> QED BY <2>5, <2>6, <2>7
<1> QED BY <1>3, <1>4, <1>5 DEF IInv

-----------------------------------------------------------------------------
(* Selection and reproduction.                                             *)

\* The members who are fit, by place.
Fit == {i \in DOMAIN members : IsFit(members[i].id)}

\* How many of a ranking survive.
NumberSpared(order) == Min({Places(Len(members)), Cardinality(DOMAIN order)})

\* A ranking names different fit members, and spares at least one when there
\* is one and no more than there are.
LEMMA RankingSparesTheFit ==
  ASSUME IInv, NEW order \in Rankings
  PROVE  /\ NumberSpared(order) \in Nat
         /\ NumberSpared(order) <= Len(members)
         /\ (Fit # {} => NumberSpared(order) >= 1)
         /\ Spared(order) = 1 .. NumberSpared(order)
         /\ \A k \in Spared(order) : order[k] \in Fit
         /\ \A j, k \in Spared(order) : order[j] = order[k] => j = k
<1>1. members \in Seq(Members) /\ members # <<>>
  BY DEF IInv, TypeOK
<1>2. Len(members) \in Nat /\ Len(members) >= 1 /\ DOMAIN members = 1 .. Len(members)
  BY <1>1
<1>3. IsFiniteSet(DOMAIN members) /\ Cardinality(DOMAIN members) = Len(members)
  BY <1>2, FS_Interval
<1>4. Fit \subseteq DOMAIN members
  BY DEF Fit
<1>5. IsFiniteSet(Fit) /\ Cardinality(Fit) <= Len(members) /\ Cardinality(Fit) \in Nat
  BY <1>3, <1>4, FS_Subset, FS_CardinalityType
<1>6. order \in Injection(1 .. Cardinality(Fit), Fit)
  BY DEF Rankings, Fit
<1>7. /\ order \in [1 .. Cardinality(Fit) -> Fit]
      /\ \A j, k \in DOMAIN order : order[j] = order[k] => j = k
  BY <1>6 DEF Injection, IsInjective
<1>8. DOMAIN order = 1 .. Cardinality(Fit)
  BY <1>7
<1>9. Cardinality(DOMAIN order) = Cardinality(Fit)
  BY <1>5, <1>8, FS_Interval
<1>10. Places(Len(members)) \in 1 .. Len(members)
  BY <1>2, PlacesAreFew
<1>11. /\ NumberSpared(order) \in {Places(Len(members)), Cardinality(Fit)}
       /\ NumberSpared(order) <= Cardinality(Fit)
  <2> DEFINE a == Places(Len(members))
             b == Cardinality(Fit)
  <2>1. a \in Int /\ b \in Int
    BY <1>5, <1>10
  <2>2. NumberSpared(order) = Min({a, b})
    BY <1>9 DEF NumberSpared
  <2> HIDE DEF a, b
  <2>3. Min({a, b}) \in {a, b} /\ Min({a, b}) <= b
    BY <2>1, MinOfTwo
  <2>4. QED
    BY <2>2, <2>3 DEF a, b
<1>12. Fit # {} => Cardinality(Fit) >= 1
  BY <1>5, FS_EmptySet
<1>13. Spared(order) = 1 .. NumberSpared(order)
  BY DEF Spared, NumberSpared
<1>14. NumberSpared(order) \in Nat /\ NumberSpared(order) <= Len(members)
  BY <1>2, <1>5, <1>10, <1>11
<1>15. Fit # {} => NumberSpared(order) >= 1
  BY <1>10, <1>11, <1>12
<1>16. Spared(order) \subseteq DOMAIN order
  BY <1>5, <1>8, <1>11, <1>13, <1>14
<1> QED BY <1>7, <1>13, <1>14, <1>15, <1>16

\* Survivors are a sequence of fit members.
LEMMA SurvivorsAreFit ==
  ASSUME IInv, NEW order \in Rankings
  PROVE  /\ Survivors(order) \in Seq(Members)
         /\ DOMAIN Survivors(order) = 1 .. NumberSpared(order)
         /\ Len(Survivors(order)) = NumberSpared(order)
         /\ \A k \in DOMAIN Survivors(order) :
              /\ order[k] \in Fit
              /\ Survivors(order)[k] = members[order[k]]
              /\ Survivors(order)[k] \in Members
<1>1. /\ Spared(order) = 1 .. NumberSpared(order) /\ NumberSpared(order) \in Nat
      /\ \A k \in Spared(order) : order[k] \in Fit
  BY RankingSparesTheFit
<1>2. Survivors(order) = [k \in 1 .. NumberSpared(order) |-> members[order[k]]]
  BY <1>1 DEF Survivors
<1>3. \A k \in 1 .. NumberSpared(order) : members[order[k]] \in Members
  BY <1>1, MembersAreKnown DEF Fit
<1> HIDE DEF NumberSpared
<1>4. Survivors(order) \in Seq(Members)
  BY <1>1, <1>2, <1>3
<1>5. Len(Survivors(order)) = NumberSpared(order)
  BY <1>1, <1>2
<1> QED BY <1>1, <1>2, <1>3, <1>4, <1>5

\* Who is in the next generation: survivors, and children of survivors.
LEMMA NextMembersAre ==
  ASSUME IInv, NEW order \in Rankings, Survivors(order) # <<>>
  PROVE  LET S == Survivors(order)
             N == NextMembers(S)
         IN  /\ N \in Seq(Members)
             /\ DOMAIN N = DOMAIN members
             /\ \A k \in DOMAIN N \cap DOMAIN S : N[k] = S[k]
             /\ \A k \in DOMAIN N \ DOMAIN S :
                  /\ N[k] = Child(S, k)
                  /\ ParentOf(S, k) \in ToSet(S)
                  /\ N[k].scenario = ParentOf(S, k).scenario
                  /\ N[k].id = ParentOf(S, k).id
                               \o <<generation, spawned + k - Len(S)>>
                  /\ spawned + k - Len(S) \in (spawned + 1) .. (spawned + Len(members) - Len(S))
<1> DEFINE S == Survivors(order)
           N == NextMembers(S)
<1>1. /\ S \in Seq(Members) /\ S # <<>>
      /\ \A k \in DOMAIN S : S[k] \in Members
      /\ Len(S) = NumberSpared(order)
  BY SurvivorsAreFit
<1>2. Len(S) \in Nat /\ Len(S) >= 1 /\ Len(S) <= Len(members) /\ DOMAIN S = 1 .. Len(S)
  BY <1>1, RankingSparesTheFit
<1>3. /\ members \in Seq(Members) /\ DOMAIN members = 1 .. Len(members)
      /\ Len(members) \in Nat /\ generation \in Nat /\ spawned \in Nat
  BY DEF IInv, TypeOK
<1> HIDE DEF S
<1>4. N = [k \in 1 .. Len(members) |-> IF k \in DOMAIN S THEN S[k] ELSE Child(S, k)]
  BY <1>3 DEF NextMembers
<1>5. ASSUME NEW k \in 1 .. Len(members), k \notin DOMAIN S
      PROVE  /\ ParentOf(S, k) \in ToSet(S)
             /\ Child(S, k) \in Members
             /\ Child(S, k).scenario = ParentOf(S, k).scenario
             /\ Child(S, k).id = ParentOf(S, k).id \o <<generation, spawned + k - Len(S)>>
             /\ spawned + k - Len(S) \in (spawned + 1) .. (spawned + Len(members) - Len(S))
  <2>1. ((k - Len(S) - 1) % Len(S)) + 1 \in DOMAIN S
    BY <1>2, <1>5
  <2>2. ParentOf(S, k) \in ToSet(S) /\ ParentOf(S, k) \in Members
    BY <1>1, <2>1 DEF ParentOf, ToSet
  <2>3. spawned + k - Len(S) \in (spawned + 1) .. (spawned + Len(members) - Len(S))
    BY <1>2, <1>3, <1>5
  <2>4. spawned + k - Len(S) \in Nat
    BY <1>2, <1>3, <2>3
  <2> DEFINE P == ParentOf(S, k)
             id == P.id \o <<generation, spawned + k - Len(S)>>
  <2>5. P.id \in Seq(Nat) /\ P.scenario \in Scenarios /\ P.profile \in DOMAIN Profiles
    BY <2>2 DEF Members
  <2>6. id \in Seq(Nat)
    BY <1>3, <2>4, <2>5
  <2>7. Child(S, k) = [id |-> id, scenario |-> P.scenario, profile |-> P.profile,
                       rolledBack |-> FALSE]
    BY DEF Child, Member, ChildId
  <2> HIDE DEF id, P
  <2>8. Child(S, k) \in Members /\ Child(S, k).scenario = P.scenario /\ Child(S, k).id = id
    BY <2>5, <2>6, <2>7 DEF Members
  <2> QED BY <2>2, <2>3, <2>8 DEF id, P
<1>6. N \in Seq(Members)
  <2>1. \A k \in 1 .. Len(members) : (IF k \in DOMAIN S THEN S[k] ELSE Child(S, k)) \in Members
    BY <1>1, <1>5
  <2> QED BY <1>3, <1>4, <2>1
<1> QED BY <1>1, <1>3, <1>4, <1>5, <1>6 DEF S

\* An id is not empty.
LEMMA BornNotEmpty ==
  ASSUME NEW id \in Seq(Nat), NEW number, BornBy(id, number)
  PROVE  Len(id) >= 1
<1>1. Len(id) = 1 \/ Len(id) >= 3
  BY Zenon DEF BornBy
<1>2. Len(id) \in Nat
  OBVIOUS
<1> QED BY <1>1, <1>2

\* No two of the next generation have the same id, and none the id of a birth
\* to come.
LEMMA NextAreNamed ==
  ASSUME IInv, NEW order \in Rankings, Survivors(order) # <<>>
  PROVE  LET S == Survivors(order)
             N == NextMembers(S)
         IN  /\ Distinct(N)
             /\ \A k \in DOMAIN N : BornBy(N[k].id, spawned + Len(members) - Len(S))
<1> DEFINE S == Survivors(order)
           N == NextMembers(S)
           upTo == spawned + Len(members) - Len(S)
<1>1. /\ DOMAIN N = DOMAIN members
      /\ \A k \in DOMAIN N \cap DOMAIN S : N[k] = S[k]
      /\ \A k \in DOMAIN N \ DOMAIN S :
           /\ ParentOf(S, k) \in ToSet(S)
           /\ N[k].id = ParentOf(S, k).id \o <<generation, spawned + k - Len(S)>>
           /\ spawned + k - Len(S) \in (spawned + 1) .. upTo
  BY NextMembersAre
<1>2. /\ Len(S) = NumberSpared(order)
      /\ DOMAIN S = 1 .. Len(S)
      /\ \A k \in DOMAIN S :
           order[k] \in DOMAIN members /\ S[k] = members[order[k]] /\ S[k] \in Members
  BY SurvivorsAreFit DEF Fit
<1>3. /\ Len(S) \in Nat /\ Len(S) <= Len(members)
      /\ \A j, k \in DOMAIN S : order[j] = order[k] => j = k
  BY <1>2, RankingSparesTheFit
<1>4. /\ DOMAIN members = 1 .. Len(members)
      /\ Len(members) \in Nat /\ generation \in Nat /\ spawned \in Nat
  BY DEF IInv, TypeOK
<1>5. \A k \in DOMAIN S : BornBy(S[k].id, spawned) /\ S[k].id \in Seq(Nat)
  BY <1>2 DEF IInv, Named, Members
<1> HIDE DEF S, N
<1>6. ASSUME NEW k \in DOMAIN N \ DOMAIN S
      PROVE  /\ Len(N[k].id) >= 3
             /\ N[k].id[Len(N[k].id)] = spawned + k - Len(S)
             /\ spawned + k - Len(S) \in (spawned + 1) .. upTo
  <2> DEFINE a == ParentOf(S, k).id
             n == spawned + k - Len(S)
  <2>1. a \in Seq(Nat) /\ Len(a) >= 1
    <3>1. PICK j \in DOMAIN S : ParentOf(S, k) = S[j]
      BY <1>1 DEF ToSet
    <3>2. a \in Seq(Nat) /\ BornBy(a, spawned)
      BY <1>5, <3>1
    <3> QED BY <3>2, BornNotEmpty
  <2>2. N[k].id = a \o <<generation, n>> /\ n \in (spawned + 1) .. upTo
    BY <1>1
  <2>3. n \in Nat
    BY <1>3, <1>4, <2>2
  <2> HIDE DEF a, n
  <2>4. Len(a \o <<generation, n>>) = Len(a) + 2
    BY <1>4, <2>1, <2>3
  <2>5. (a \o <<generation, n>>)[Len(a) + 2] = n
    BY <1>4, <2>1, <2>3
  <2> QED BY <2>1, <2>2, <2>4, <2>5 DEF n
<1>7. ASSUME NEW k \in DOMAIN N \cap DOMAIN S
      PROVE  BornBy(N[k].id, spawned)
  BY <1>1, <1>5
<1>8. Distinct(N)
  <2> SUFFICES ASSUME NEW j \in DOMAIN N, NEW k \in DOMAIN N, N[j].id = N[k].id
               PROVE  j = k
    BY DEF Distinct
  <2>1. CASE j \in DOMAIN S /\ k \in DOMAIN S
    <3>1. members[order[j]].id = members[order[k]].id
      BY <1>1, <1>2, <2>1
    <3>2. order[j] = order[k]
      BY <1>2, <2>1, <3>1 DEF IInv, Named, Distinct
    <3> QED BY <1>3, <2>1, <3>2
  <2>2. ASSUME NEW x \in DOMAIN N \cap DOMAIN S, NEW y \in DOMAIN N \ DOMAIN S
        PROVE  N[x].id # N[y].id
    <3>1. SUFFICES ASSUME N[x].id = N[y].id PROVE FALSE
      OBVIOUS
    <3>2. Len(N[y].id) >= 3 /\ N[y].id[Len(N[y].id)] \in (spawned + 1) .. upTo
      BY <1>6
    <3>3. Len(N[y].id) = 1 \/ (Len(N[y].id) >= 3 /\ N[y].id[Len(N[y].id)] <= spawned)
      BY <1>7, <3>1, Zenon DEF BornBy
    <3>4. spawned \in Nat /\ upTo \in Int
      BY <1>3, <1>4
    <3> HIDE DEF upTo
    <3> QED BY <3>2, <3>3, <3>4
  <2>3. j \in DOMAIN S <=> k \in DOMAIN S
    BY <2>2
  <2>4. CASE j \notin DOMAIN S /\ k \notin DOMAIN S
    <3>1. spawned + j - Len(S) = spawned + k - Len(S)
      BY <1>6, <2>4
    <3> QED BY <1>1, <1>3, <1>4, <3>1
  <2> QED BY <2>1, <2>3, <2>4
<1>9. ASSUME NEW k \in DOMAIN N PROVE BornBy(N[k].id, upTo)
  <2>1. CASE k \in DOMAIN S
    <3>1. BornBy(N[k].id, spawned) /\ N[k].id \in Seq(Nat)
      BY <1>1, <1>5, <2>1
    <3>2. Len(N[k].id) >= 3 => N[k].id[Len(N[k].id)] \in Nat
      BY <3>1
    <3> QED BY <1>3, <1>4, <3>1, <3>2 DEF BornBy
  <2>2. CASE k \notin DOMAIN S
    BY <1>3, <1>4, <1>6, <2>2 DEF BornBy
  <2> QED BY <2>1, <2>2
<1> QED BY <1>8, <1>9 DEF S, N

\* What a member of the next generation knows, it may know: a survivor what
\* it knew, a child what its line did.
LEMMA NextAreTaught ==
  ASSUME IInv, NEW order \in Rankings, Survivors(order) # <<>>,
         NEW i \in DOMAIN NextMembers(Survivors(order)),
         NEW o \in DOMAIN NextEvidence(Survivors(order))
                             [NextMembers(Survivors(order))[i].id]
  PROVE  MayHold(o, NextMembers(Survivors(order))[i], transfer)
<1> DEFINE S == Survivors(order)
           N == NextMembers(S)
           Index(id) == CHOOSE k \in DOMAIN N : N[k].id = id
<1>1. /\ N \in Seq(Members)
      /\ \A k \in DOMAIN N \cap DOMAIN S : N[k] = S[k]
      /\ \A k \in DOMAIN N \ DOMAIN S :
           /\ N[k] = Child(S, k)
           /\ ParentOf(S, k) \in ToSet(S)
           /\ N[k].scenario = ParentOf(S, k).scenario
           /\ N[k].id = ParentOf(S, k).id \o <<generation, spawned + k - Len(S)>>
           /\ spawned + k - Len(S) \in (spawned + 1) .. (spawned + Len(members) - Len(S))
  BY NextMembersAre
<1>2. \A k \in DOMAIN S : order[k] \in DOMAIN members /\ S[k] = members[order[k]]
  BY SurvivorsAreFit DEF Fit
<1>3. Distinct(N)
  BY NextAreNamed
<1>4. N[i].id \in Ids(N) /\ N[i] \in Members
  BY <1>1 DEF Ids, ToSet
<1>5. Index(N[i].id) = i
  BY <1>3 DEF Distinct
<1>6. o \in DOMAIN (IF i \in DOMAIN S THEN evidence[N[i].id] ELSE Brought(S, i))
  BY <1>4, <1>5 DEF NextEvidence
<1> HIDE DEF S, N
<1>7. CASE i \in DOMAIN S
  <2>1. N[i] = members[order[i]] /\ order[i] \in DOMAIN members
    BY <1>1, <1>2, <1>7 DEF N, S
  <2>2. o \in DOMAIN evidence[members[order[i]].id]
    BY <1>6, <1>7, <2>1
  <2> QED BY <2>1, <2>2 DEF IInv, Taught, S, N
<1>8. CASE i \notin DOMAIN S
  <2> DEFINE P == ParentOf(S, i)
  <2>1. N[i] = Child(S, i) /\ P \in ToSet(S) /\ N[i].scenario = P.scenario
        /\ N[i].id = P.id \o <<generation, spawned + i - Len(S)>>
        /\ spawned + i - Len(S) \in (spawned + 1) .. (spawned + Len(members) - Len(S))
    BY <1>1, <1>8 DEF N, S
  <2>2. PICK j \in DOMAIN members : P = members[j]
    BY <1>2, <2>1 DEF ToSet
  <2>3. Brought(S, i) = MergeFrom(Seed(N[i].id, N[i].scenario), evidence[P.id], Eligible(P))
    BY <2>1 DEF Brought
  <2>4. Eligible(P) \in BOOLEAN
    BY DEF Eligible, IsFit
  <2>5. o \in DOMAIN Seed(N[i].id, N[i].scenario) \/ o \in DOMAIN evidence[P.id]
    BY <1>6, <1>8, <2>3, <2>4, MergeBringsNothingNew
  <2>6. CASE o \in DOMAIN Seed(N[i].id, N[i].scenario)
    BY <1>4, <2>6, SeedIsOwn DEF S, N
  <2>7. CASE o \in DOMAIN evidence[P.id]
    <3>1. MayHold(o, P, transfer) /\ P \in Members
      BY <2>2, <2>7, MembersAreKnown DEF IInv, Taught
    <3>2. generation \in Nat /\ spawned \in Nat
      BY DEF IInv, TypeOK
    <3>3. <<generation, spawned + i - Len(S)>> \in Seq(Nat)
      <4>1. Len(S) \in Nat /\ Len(members) \in Nat
        BY RankingSparesTheFit, SurvivorsAreFit DEF S, IInv, TypeOK
      <4>2. spawned + i - Len(S) \in Nat
        BY <2>1, <3>2, <4>1
      <4> QED BY <3>2, <4>2
    <3>4. P.id \in Seq(Nat)
      BY <3>1 DEF Members
    <3>5. o.origin \in Seq(Nat) /\ (IsPrefix(o.origin, P.id) => IsPrefix(o.origin, N[i].id))
      BY <2>1, <3>1, <3>3, <3>4, PrefixGrows DEF MayHold
    <3> QED BY <2>1, <3>1, <3>5 DEF MayHold, S, N
  <2> QED BY <2>5, <2>6, <2>7
<1> QED BY <1>7, <1>8

\* A selection keeps all of it.
LEMMA SelectKeeps == IInv /\ Select => IInv'
<1> SUFFICES ASSUME IInv, Select PROVE IInv'
  OBVIOUS
<1>1. PICK order \in Rankings : Reproduce(Survivors(order))
  BY DEF Select
<1>2. /\ pc = "select" /\ pc' = "live" /\ generation' = generation + 1
      /\ UNCHANGED <<transfer, founders, restarts, turn, lived>>
  BY DEF Select
<1>3. CASE Survivors(order) = <<>>
  <2>1. UNCHANGED <<members, evidence, spawned>>
    BY <1>1, <1>3 DEF Reproduce
  <2>2. TypeOK'
    BY <1>2, <2>1 DEF IInv, TypeOK
  <2>3. Named' /\ Taught'
    BY <1>2, <2>1 DEF IInv, Named, Taught
  <2> QED BY <2>2, <2>3 DEF IInv
<1>4. CASE Survivors(order) # <<>>
  <2> DEFINE S == Survivors(order)
             N == NextMembers(S)
  <2>1. members' = N /\ evidence' = NextEvidence(S) /\ spawned' = spawned + Len(members) - Len(S)
    BY <1>1, <1>4 DEF Reproduce
  <2>2. N \in Seq(Members) /\ DOMAIN N = DOMAIN members
    BY <1>4, NextMembersAre
  <2>3. spawned' \in Nat
    <3>1. Len(S) \in Nat /\ Len(S) <= Len(members)
      BY RankingSparesTheFit, SurvivorsAreFit
    <3>2. spawned \in Nat /\ Len(members) \in Nat
      BY DEF IInv, TypeOK
    <3> QED BY <2>1, <3>1, <3>2
  <2>4. TypeOK'
    <3>1. evidence' = [id \in Ids(members') |-> evidence'[id]]
      BY <2>1 DEF NextEvidence
    <3>2. turn \in DOMAIN N /\ N # <<>>
      BY <2>2 DEF IInv, TypeOK
    <3> QED BY <1>2, <2>1, <2>2, <2>3, <3>1, <3>2 DEF IInv, TypeOK
  <2>5. Named'
    BY <1>4, <2>1, NextAreNamed DEF Named
  <2>6. Taught'
    BY <1>2, <1>4, <2>1, NextAreTaught DEF Taught
  <2> QED BY <2>4, <2>5, <2>6 DEF IInv
<1> QED BY <1>3, <1>4

-----------------------------------------------------------------------------
(* The theorems.                                                           *)

\* No step breaks the invariant.
LEMMA StepKeeps == IInv /\ [Next]_vars => IInv'
<1> SUFFICES ASSUME IInv, [Next]_vars PROVE IInv'
  OBVIOUS
<1>1. CASE \E s \in Situations[members[turn].scenario] : Live(s)
  BY <1>1, LiveKeeps
<1>2. CASE Share
  BY <1>2, ShareKeeps
<1>3. CASE Select
  BY <1>3, SelectKeeps
<1>4. CASE Restart
  BY <1>4, RestartKeeps
<1>5. CASE UNCHANGED vars
  BY <1>5 DEF vars, IInv, TypeOK, Named, Distinct, Taught, MayHold
<1> QED BY <1>1, <1>2, <1>3, <1>4, <1>5 DEF Next

\* Members keep ids of their own, and hold what they may.
LEMMA Invariance == Spec => []IInv
BY InitHolds, StepKeeps, PTL DEF Spec

\* Every id is one member's, whatever is born: the selectors of two members,
\* and their runs on the store, are never mixed up (ecology.py: _reproduce).
THEOREM IdsAreDistinct == Spec => []Distinct(members)
<1>1. IInv => Distinct(members)
  BY DEF IInv, Named
<1> QED BY <1>1, Invariance, PTL

\* Through any chain of sharings, births and restarts, evidence stays with kin
\* and comparable scenarios (ecology.py: _share_knowledge, reward_guided.py:
\* merge_from).
THEOREM EvidenceStaysWithKin == Spec => []EvidenceFromKin
<1>1. IInv => EvidenceFromKin
  <2> SUFFICES ASSUME IInv, NEW m \in ToSet(members), NEW o \in DOMAIN evidence[m.id]
               PROVE  \/ IsPrefix(o.origin, m.id)
                      \/ transfer \in Sharing /\ Comparable(o.regime, m.scenario)
    BY DEF EvidenceFromKin
  <2>1. PICK i \in DOMAIN members : m = members[i]
    BY DEF ToSet
  <2>2. MayHold(o, m, transfer)
    BY <2>1 DEF IInv, Taught
  <2> QED BY <2>2 DEF MayHold
<1> QED BY <1>1, Invariance, PTL

\* When somebody is certified, those who go on are the certified and children
\* of theirs, and the population keeps its size (ecology.py:
\* _select_and_reproduce).
THEOREM CertifiedGoOn == Spec => OnlyCertifiedStay
<1> DEFINE Selects == /\ pc = "select" /\ pc' = "live" /\ restarts' = restarts
                      /\ \E m \in ToSet(members) : IsFit(m.id)
           Kept == /\ Len(members') = Len(members)
                   /\ \A child \in ToSet(members') :
                        \E m \in ToSet(members) : IsFit(m.id) /\ IsPrefix(m.id, child.id)
<1>1. IInv /\ [Next]_vars => (Selects => Kept)
  <2> SUFFICES ASSUME IInv, [Next]_vars, Selects PROVE Kept
    OBVIOUS
  <2>1. Select
    <3>1. ~ \E s \in Situations[members[turn].scenario] : Live(s)
      BY DEF Live
    <3>2. ~ Share
      BY DEF Share
    <3>3. ~ Restart
      BY DEF Restart, IInv, TypeOK
    <3>4. ~ UNCHANGED vars
      BY DEF vars
    <3> QED BY <3>1, <3>2, <3>3, <3>4 DEF Next
  <2>2. PICK order \in Rankings : Reproduce(Survivors(order))
    BY <2>1 DEF Select
  <2> DEFINE S == Survivors(order)
             N == NextMembers(S)
  <2>3. S # <<>>
    <3>1. PICK m \in ToSet(members) : IsFit(m.id)
      OBVIOUS
    <3>2. Fit # {}
      BY <3>1 DEF Fit, ToSet
    <3> QED BY <3>2, RankingSparesTheFit, SurvivorsAreFit
  <2>4. members' = N
    BY <2>2, <2>3 DEF Reproduce
  <2>5. N \in Seq(Members) /\ DOMAIN N = DOMAIN members
        /\ (\A k \in DOMAIN N \cap DOMAIN S : N[k] = S[k])
        /\ (\A k \in DOMAIN N \ DOMAIN S :
              /\ ParentOf(S, k) \in ToSet(S)
              /\ N[k].id = ParentOf(S, k).id \o <<generation, spawned + k - Len(S)>>
              /\ spawned + k - Len(S) \in (spawned + 1) .. (spawned + Len(members) - Len(S)))
    BY <2>3, NextMembersAre
  <2>6. \A k \in DOMAIN S :
          S[k] \in ToSet(members) /\ IsFit(S[k].id) /\ S[k].id \in Seq(Nat)
    <3>1. TAKE k \in DOMAIN S
    <3>2. order[k] \in Fit /\ S[k] = members[order[k]] /\ S[k] \in Members
      BY SurvivorsAreFit
    <3> QED BY <3>2 DEF Fit, ToSet, Members
  <2>7. generation \in Nat /\ spawned \in Nat /\ Len(S) \in Nat /\ Len(members) \in Nat
    BY SurvivorsAreFit, RankingSparesTheFit DEF IInv, TypeOK
  <2>8. Len(N) = Len(members)
    BY <2>5 DEF IInv, TypeOK
  <2> HIDE DEF S, N
  <2>9. ASSUME NEW k \in DOMAIN N
        PROVE  \E m \in ToSet(members) : IsFit(m.id) /\ IsPrefix(m.id, N[k].id)
    <3>1. CASE k \in DOMAIN S
      <4>1. N[k] = S[k]
        BY <2>5, <3>1
      <4> QED BY <2>6, <3>1, <4>1, OwnPrefix
    <3>2. CASE k \notin DOMAIN S
      <4>1. PICK j \in DOMAIN S : ParentOf(S, k) = S[j]
        BY <2>5, <3>2 DEF ToSet
      <4>2. N[k].id = S[j].id \o <<generation, spawned + k - Len(S)>>
        BY <2>5, <3>2, <4>1
      <4>3. <<generation, spawned + k - Len(S)>> \in Seq(Nat)
        BY <2>5, <2>7, <3>2
      <4>4. IsPrefix(S[j].id, N[k].id)
        BY <2>6, <4>2, <4>3, OwnPrefix, PrefixGrows
      <4> QED BY <2>6, <4>4
    <3> QED BY <3>1, <3>2
  <2> QED BY <2>4, <2>8, <2>9 DEF ToSet
<1>2. IInv /\ [Next]_vars => [Selects => Kept]_vars
  BY <1>1
<1> QED BY <1>2, Invariance, PTL DEF Spec, OnlyCertifiedStay

-----------------------------------------------------------------------------
(* Reasoning.                                                              *)

\* What an episode leaves as its reasoning: of some ask and some directives,
\* the sequence that is selected and what is run of it.
Reasoned(r) ==
  \E ask, directives, failing, deduced :
    /\ ask.context \in Context /\ ask.override \in Int
    /\ ask.profile \in DOMAIN Profiles
    /\ r = [ask |-> ask, directives |-> directives,
            result |-> SelectSequence(ask, directives),
            executed |-> Executed(SelectSequence(ask, directives).validated, ask,
                                  failing, deduced)]
    /\ DOMAIN directives = Candidates

LastReasoned == last = NoReasoning \/ Reasoned(last)

\* An episode asks what its situation brings, with the profile of its member.
LEMMA LiveReasons ==
  ASSUME IInv, NEW s \in Situations[members[turn].scenario], Live(s)
  PROVE  Reasoned(last')
<1> DEFINE m == members[turn]
           ask == AskedBy(m, s.ask)
           directives == Directives(evidence[m.id], m.scenario)
<1>1. m \in Members
  BY DEF IInv, TypeOK
<1>2. m.scenario \in Scenarios /\ m.profile \in DOMAIN Profiles
  BY <1>1 DEF Members
<1>3. s.ask \in Asks
  BY <1>2, EcologyAssumption
<1>4. /\ ask.profile = m.profile
      /\ ask.context = s.ask.context
      /\ ask.override = s.ask.override
  <2>1. "context" \in DOMAIN s.ask /\ "override" \in DOMAIN s.ask
    BY <1>3 DEF Asks
  <2>2. /\ ask["profile"] = m.profile
        /\ ask["context"] = s.ask["context"]
        /\ ask["override"] = s.ask["override"]
    BY <2>1 DEF AskedBy
  <2>3. QED
    BY <2>2
<1>5. ask.context \in Context /\ ask.override \in Int
  BY <1>3, <1>4 DEF Asks
<1>6. last' = [ask |-> ask, directives |-> directives,
               result |-> SelectSequence(ask, directives),
               executed |-> Executed(SelectSequence(ask, directives).validated, ask,
                                     s.failing, s.deduced)]
  BY DEF Live, Reason, Ran
<1>7. DOMAIN directives = Candidates
  BY DEF Directives
<1> HIDE DEF ask, directives, m
<1>8. QED
  BY <1>2, <1>4, <1>5, <1>6, <1>7 DEF Reasoned

\* No other step reasons.
LEMMA StepReasons == IInv /\ LastReasoned /\ [Next]_vars => LastReasoned'
<1> SUFFICES ASSUME IInv, LastReasoned, [Next]_vars PROVE LastReasoned'
  OBVIOUS
<1>1. CASE \E s \in Situations[members[turn].scenario] : Live(s)
  BY <1>1, LiveReasons DEF LastReasoned
<1>2. CASE Share
  BY <1>2 DEF Share, LastReasoned
<1>3. CASE Select
  BY <1>3 DEF Select, LastReasoned, NoReasoning
<1>4. CASE Restart
  BY <1>4 DEF Restart, LastReasoned, NoReasoning
<1>5. CASE UNCHANGED vars
  BY <1>5 DEF vars, LastReasoned
<1> QED BY <1>1, <1>2, <1>3, <1>4, <1>5 DEF Next

\* Whatever reasoning is looked at is that of an episode.
LEMMA Reasonings == Spec => []LastReasoned
<1>1. Init => LastReasoned
  BY DEF Init, LastReasoned
<1> QED BY <1>1, StepReasons, Invariance, PTL DEF Spec

\* Whatever a member is asked, in any colony, at any time: every sequence that
\* is run passed its own validator, is run to its end, holds the whole core in
\* its order and prob last, and has ten steps at most (policy.py:
\* validate_reasoning_sequence, meta_scheduler.py: run).
THEOREM CoreIsAlwaysRun == Spec => []ClosureKept
<1>1. LastReasoned => ClosureKept
  <2> SUFFICES ASSUME Reasoned(last)
               PROVE  /\ last.result.passed
                      /\ last.executed = last.result.validated
                      /\ Only(last.executed, ToSet(Core)) = Core
                      /\ Last(last.executed) = "prob"
                      /\ Len(last.executed) <= HardMaxSteps
    BY DEF LastReasoned, ClosureKept
  <2>1. PICK ask, directives, failing, deduced :
          /\ ask.context \in Context /\ ask.override \in Int
          /\ ask.profile \in DOMAIN Profiles
          /\ last = [ask |-> ask, directives |-> directives,
                     result |-> SelectSequence(ask, directives),
                     executed |-> Executed(SelectSequence(ask, directives).validated,
                                           ask, failing, deduced)]
    BY DEF Reasoned
  <2> DEFINE r == SelectSequence(ask, directives)
  <2>2. r.passed /\ Good(r.validated)
    BY <2>1, SelectionIsGood
  <2>3. last.result = r /\ last.executed = Executed(r.validated, ask, failing, deduced)
    BY <2>1
  <2> HIDE DEF r
  <2>4. QED
    BY <2>2, <2>3, ExecutionIsWhole
<1> QED BY <1>1, Reasonings, PTL

\* Whatever the selector has learned: no family it switches off is run, and
\* every family it switches on is, if the budget has room for all that are left
\* (reward_guided.py: directives; policy.py: select_sequence).
THEOREM DirectivesAreHeeded == Spec => []DirectivesHeeded
<1>1. LastReasoned => DirectivesHeeded
  <2> SUFFICES ASSUME Reasoned(last), last.ask.profile # "adaptive_family_ecology_v2",
                      NEW c \in Candidates
               PROVE  /\ last.directives[c] = "off" => ~Contains(last.executed, c)
                      /\ (/\ last.directives[c] = "on"
                          /\ Contains(Optional(last.ask), c)
                          /\ last.result.limit
                               >= Len(Core) + Len(Enabled(Optional(last.ask),
                                                          last.directives)))
                         => Contains(last.executed, c)
    BY DEF LastReasoned, DirectivesHeeded
  <2>1. PICK ask, directives, failing, deduced :
          /\ ask.context \in Context /\ ask.override \in Int
          /\ ask.profile \in DOMAIN Profiles
          /\ last = [ask |-> ask, directives |-> directives,
                     result |-> SelectSequence(ask, directives),
                     executed |-> Executed(SelectSequence(ask, directives).validated,
                                           ask, failing, deduced)]
          /\ DOMAIN directives = Candidates
    BY DEF Reasoned
  <2> DEFINE r == SelectSequence(ask, directives)
             own == Optional(ask)
             left == Enabled(own, directives)
  <2>2. /\ last.ask = ask /\ last.directives = directives /\ last.result = r
        /\ last.executed = Executed(r.validated, ask, failing, deduced)
    BY <2>1
  <2>3. ask.profile # "adaptive_family_ecology_v2"
    BY <2>2
  <2>4. last.executed = r.validated
    BY <2>1, <2>2, SelectionIsGood, ExecutionIsWhole
  <2>5. /\ ToSet(r.validated) \subseteq ToSet(Core) \cup ToSet(left)
        /\ r.limit >= 6 + Len(left) => ToSet(left) \subseteq ToSet(r.validated)
    BY <2>1, <2>3, WhatIsLeftIsRun
  <2>6. ToSet(left) = {x \in ToSet(own) : ~Directed(directives, x, "off")}
    BY <2>1, LeftAre
  <2>7. c \notin ToSet(Core)
    BY SelectorAssumption
  <2>8. Directed(directives, c, "off") <=> directives[c] = "off"
    BY <2>1 DEF Directed
  <2>9. Len(Core) = 6
    BY CoreIs
  <2> HIDE DEF r, own, left
  <2>10. \A t : Contains(t, c) <=> c \in ToSet(t)
    BY DEF Contains, ToSet
  <2>11. ASSUME directives[c] = "off" PROVE c \notin ToSet(r.validated)
    BY <2>5, <2>6, <2>7, <2>8, <2>11
  <2>12. ASSUME directives[c] = "on", c \in ToSet(own), r.limit >= 6 + Len(left)
         PROVE  c \in ToSet(r.validated)
    BY <2>5, <2>6, <2>8, <2>12
  <2>13. QED
    BY <2>2, <2>4, <2>9, <2>10, <2>11, <2>12 DEF own, left
<1> QED BY <1>1, Reasonings, PTL
=============================================================================
