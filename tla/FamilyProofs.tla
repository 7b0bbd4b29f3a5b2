---------------------------- MODULE FamilyProofs ----------------------------
(***************************************************************************)
(* What is proved of the scheduler for every context, regime, budget,      *)
(* profile, set of directives and failures: every sequence it validates    *)
(* has the whole core in its order with prob at the end, passes its own    *)
(* validator and is run to its end, and holds the families the directives  *)
(* leave and no other.                                                     *)
(***************************************************************************)
EXTENDS FamilySchedule, Extremes, FiniteSetTheorems, SequenceTheorems, TLAPS

-----------------------------------------------------------------------------
(* Minima, orders and what a sequence keeps.                               *)

\* A set of natural numbers has its minimum.
LEMMA MinIsLeast ==
  ASSUME NEW T \in SUBSET Nat, T # {}
  PROVE  Min(T) \in T /\ \A y \in T : Min(T) <= y
<1>1. PICK x \in T : \A y \in T : x <= y
  BY Least
<1>2. QED
  BY <1>1 DEF Min

\* The place of a family that is there is where it is.
LEMMA PlaceIsThere ==
  ASSUME NEW S, NEW s \in Seq(S), NEW a, Contains(s, a)
  PROVE  Place(s, a) \in 1 .. Len(s) /\ s[Place(s, a)] = a
<1> DEFINE I == {i \in 1 .. Len(s) : s[i] = a}
<1>1. I \in SUBSET Nat /\ I # {}
  BY DEF Contains
<1>2. Place(s, a) = Min(I)
  BY <1>1 DEF Place, SelectInSeq
<1>3. Min(I) \in I
  BY <1>1, MinIsLeast
<1>4. QED
  BY <1>2, <1>3

\* In a finite set that is strictly ordered by R, a member has as many before it
\* as its rank says, and every rank is taken.
StrictOrder(R, F) ==
  /\ \A x \in F : <<x, x>> \notin R
  /\ \A x, y, z \in F : <<x, y>> \in R /\ <<y, z>> \in R => <<x, z>> \in R
  /\ \A x, y \in F : x = y \/ <<x, y>> \in R \/ <<y, x>> \in R

\* The rank of an element: how many come before it.
Rank(R, F) == [x \in F |-> Cardinality({y \in F : <<y, x>> \in R})]

\* The elements of a finite strict order bear the ranks from 0 on, each once.
LEMMA RanksAreTaken ==
  ASSUME NEW F, IsFiniteSet(F), NEW R, StrictOrder(R, F)
  PROVE  /\ Cardinality(F) \in Nat
         /\ Rank(R, F) \in [F -> 0 .. Cardinality(F) - 1]
         /\ \A x, y \in F : <<x, y>> \in R <=> Rank(R, F)[x] < Rank(R, F)[y]
         /\ \A i \in 0 .. Cardinality(F) - 1 : \E x \in F : Rank(R, F)[x] = i
<1> DEFINE B(x) == {y \in F : <<y, x>> \in R}
           r == Rank(R, F)
           n == Cardinality(F)
           N == 0 .. n - 1
<1>1. n \in Nat
  BY FS_CardinalityType
<1>2. ASSUME NEW x \in F PROVE IsFiniteSet(B(x)) /\ Cardinality(B(x)) \in N
  <2>1. B(x) \in SUBSET F /\ B(x) # F
    BY DEF StrictOrder
  <2>2. IsFiniteSet(B(x)) /\ Cardinality(B(x)) <= n /\ Cardinality(B(x)) # n
    BY <2>1, FS_Subset
  <2>3. Cardinality(B(x)) \in Nat
    BY <2>2, FS_CardinalityType
  <2>4. QED
    BY <1>1, <2>2, <2>3
<1>3. \A x \in F : r[x] = Cardinality(B(x))
  BY DEF Rank
<1>4. r \in [F -> N]
  BY <1>2 DEF Rank
<1>5. ASSUME NEW x \in F, NEW y \in F, <<x, y>> \in R PROVE r[x] < r[y]
  <2>1. B(x) \in SUBSET B(y) /\ B(x) # B(y)
    BY <1>5 DEF StrictOrder
  <2>2. Cardinality(B(x)) <= Cardinality(B(y)) /\ Cardinality(B(x)) # Cardinality(B(y))
    BY <1>2, <2>1, FS_Subset
  <2> HIDE DEF B
  <2>3. QED
    BY <1>2, <1>3, <2>2
<1>6. ASSUME NEW x \in F, NEW y \in F, r[x] < r[y] PROVE <<x, y>> \in R
  <2>1. r[x] \in Int /\ r[y] \in Int
    BY <1>4
  <2>2. ~(r[y] < r[x]) /\ r[x] # r[y]
    BY <1>6, <2>1
  <2>3. QED
    BY <1>5, <2>2 DEF StrictOrder
<1>7. ASSUME NEW x \in F, NEW y \in F, r[x] = r[y] PROVE x = y
  <2>1. r[x] \in Int
    BY <1>4
  <2>2. ~(r[x] < r[y]) /\ ~(r[y] < r[x])
    BY <1>7, <2>1
  <2>3. QED
    BY <1>5, <2>2 DEF StrictOrder
<1>8. IsFiniteSet(N) /\ Cardinality(N) = n
  BY <1>1, FS_Interval
<1>9. r \in Surjection(F, N)
  <2>1. r \in Injection(F, N)
    BY <1>4, <1>7 DEF Injection, IsInjective
  <2>2. QED
    BY <1>8, <2>1, FS_Injection
<1>10. \A i \in N : \E x \in F : r[x] = i
  BY <1>9 DEF Surjection
<1>11. QED
  BY <1>1, <1>4, <1>5, <1>6, <1>10

-----------------------------------------------------------------------------
(* What Only keeps.                                                        *)

\* The places of s whose families are in K, in their order.
PlacesKept(s, K) == {i \in DOMAIN s : s[i] \in K}

\* Those places in order.
PlacesOf(s, K) == Ordered(PlacesKept(s, K), <)

\* Every place that is kept is listed once, in ascending order.
LEMMA PlacesAscend ==
  ASSUME NEW S, NEW s \in Seq(S), NEW K
  PROVE  /\ PlacesOf(s, K) \in Seq(PlacesKept(s, K))
         /\ \A m, n \in DOMAIN PlacesOf(s, K) :
              m < n <=> PlacesOf(s, K)[m] < PlacesOf(s, K)[n]
         /\ \A i \in PlacesKept(s, K) :
              \E n \in DOMAIN PlacesOf(s, K) : PlacesOf(s, K)[n] = i
<1> DEFINE F == PlacesKept(s, K)
           R == {p \in F \X F : p[1] < p[2]}
           r == Rank(R, F)
           at == PlacesOf(s, K)
           n0 == Cardinality(F)
<1>1. F \in SUBSET (1 .. Len(s)) /\ IsFiniteSet(F)
  <2>1. F \in SUBSET (1 .. Len(s))
    BY DEF PlacesKept
  <2>2. IsFiniteSet(1 .. Len(s))
    BY FS_Interval
  <2>3. QED
    BY <2>1, <2>2, FS_Subset
<1>2. \A x, y \in F : <<x, y>> \in R <=> x < y
  OBVIOUS
<1>3. StrictOrder(R, F)
  <2>1. \A x \in F : x \in Int
    BY <1>1
  <2> HIDE DEF F, R
  <2>2. QED
    BY <1>2, <2>1 DEF StrictOrder
<1>4. /\ n0 \in Nat
      /\ r \in [F -> 0 .. n0 - 1]
      /\ \A x, y \in F : <<x, y>> \in R <=> r[x] < r[y]
      /\ \A i \in 0 .. n0 - 1 : \E x \in F : r[x] = i
  <2> HIDE DEF R, F
  <2>1. QED
    BY <1>1, <1>3, RanksAreTaken
<1>5. \A x \in F : r[x] = Cardinality({y \in F : y < x})
  <2>1. ASSUME NEW x \in F PROVE {y \in F : <<y, x>> \in R} = {y \in F : y < x}
    BY <1>2
  <2>2. QED
    BY <2>1 DEF Rank
<1>6. at = [i \in 1 .. n0 |-> CHOOSE x \in F : Cardinality({y \in F : y < x}) = i - 1]
  BY DEF PlacesOf, Ordered
<1>7. \A i \in 1 .. n0 : at[i] \in F /\ r[at[i]] = i - 1
  <2>1. TAKE i \in 1 .. n0
  <2>2. i - 1 \in 0 .. n0 - 1
    BY <1>4
  <2>3. \E x \in F : Cardinality({y \in F : y < x}) = i - 1
    BY <1>4, <1>5, <2>2
  <2>4. at[i] \in F /\ Cardinality({y \in F : y < at[i]}) = i - 1
    BY <1>6, <2>3
  <2>5. QED
    BY <1>5, <2>4
<1> HIDE DEF F, R, r, at, n0
<1>8. at \in Seq(F) /\ DOMAIN at = 1 .. n0
  <2>1. at \in [1 .. n0 -> F]
    BY <1>6, <1>7
  <2>2. QED
    BY <1>4, <2>1, IsASeq
<1>9. ASSUME NEW m \in 1 .. n0, NEW n \in 1 .. n0 PROVE m < n <=> at[m] < at[n]
  <2>1. m < n <=> r[at[m]] < r[at[n]]
    BY <1>4, <1>7
  <2>2. QED
    BY <1>2, <1>4, <1>7, <2>1
<1>10. ASSUME NEW i \in F PROVE \E n \in 1 .. n0 : at[n] = i
  <2> DEFINE n == r[i] + 1
             x == at[n]
  <2>1. n \in 1 .. n0 /\ n - 1 = r[i] /\ r[i] \in Int
    BY <1>4
  <2> HIDE DEF n
  <2>2. x \in F /\ r[x] = r[i]
    BY <1>7, <2>1
  <2> HIDE DEF x
  <2>3. x \in Int /\ i \in Int
    <3>1. F \in SUBSET Int
      BY <1>1
    <3>2. QED
      BY <2>2, <3>1
  <2>4. (i < x <=> r[i] < r[x]) /\ (x < i <=> r[x] < r[i])
    BY <1>2, <1>4, <2>2
  <2>5. ~(r[i] < r[i])
    BY <2>1
  <2>6. x = i
    BY <2>2, <2>3, <2>4, <2>5
  <2>7. QED
    BY <2>1, <2>6 DEF x
<1>11. QED
  BY <1>8, <1>9, <1>10 DEF F, at

\* Only takes of s what is in K, all of it, in its order.
LEMMA OnlyIs ==
  ASSUME NEW S, NEW s \in Seq(S), NEW K
  PROVE  /\ Only(s, K) \in Seq(S)
         /\ DOMAIN Only(s, K) = DOMAIN PlacesOf(s, K)
         /\ \A n \in DOMAIN Only(s, K) :
              /\ PlacesOf(s, K)[n] \in DOMAIN s
              /\ Only(s, K)[n] = s[PlacesOf(s, K)[n]]
              /\ Only(s, K)[n] \in K
<1> DEFINE at == PlacesOf(s, K)
<1>1. at \in Seq(PlacesKept(s, K))
  BY PlacesAscend
<1>2. Only(s, K) = [n \in DOMAIN at |-> s[at[n]]]
  BY DEF Only, PlacesOf, PlacesKept
<1> HIDE DEF at
<1>3. \A n \in DOMAIN at : at[n] \in DOMAIN s /\ s[at[n]] \in K
  BY <1>1 DEF PlacesKept
<1>4. \A n \in DOMAIN at : s[at[n]] \in S
  BY <1>3
<1>5. QED
  BY <1>1, <1>2, <1>3, <1>4 DEF at

-----------------------------------------------------------------------------
(* The families, and the order of the core.                                *)

\* Whatever there is of the core stands once and in the order of the core.
InOrder(s) ==
  \A k, l \in DOMAIN s : \A i, j \in 1 .. 6 :
    s[k] = Core[i] /\ s[l] = Core[j] => (k < l <=> i < j)

\* The families there are.
Families == ToSet(ByName)

\* The families of the core are six, and families.
LEMMA CoreIs ==
  /\ Len(Core) = 6 /\ DOMAIN Core = 1 .. 6
  /\ Core \in Seq(Families)
  /\ ToSet(Core) = {"abd", "ana", "cau", "ctf", "ded", "prob"}
  /\ Core[1] = "abd" /\ Core[2] = "ana" /\ Core[3] = "cau"
  /\ Core[4] = "ctf" /\ Core[5] = "ded" /\ Core[6] = "prob"
<1>1. Core \in Seq(Families)
  BY DEF Core, Families, ByName, ToSet
<1>2. Len(Core) = 6 /\ DOMAIN Core = 1 .. 6
  BY DEF Core
<1>3. ToSet(Core) = {"abd", "ana", "cau", "ctf", "ded", "prob"}
  BY DEF Core, ToSet
<1>4. QED
  BY <1>1, <1>2, <1>3 DEF Core

\* No family of the core stands in it twice.
LEMMA CoreIsOnce ==
  \A i, j \in 1 .. 6 : Core[i] = Core[j] => i = j
BY DEF Core

\* The core is in its own order.
LEMMA CoreInOrder == InOrder(Core)
BY CoreIs, CoreIsOnce DEF InOrder

\* Only leaves the order as it was.
LEMMA OnlyIsInOrder ==
  ASSUME NEW S, NEW s \in Seq(S), InOrder(s), NEW K
  PROVE  InOrder(Only(s, K))
<1> DEFINE t == Only(s, K)
           at == PlacesOf(s, K)
<1>1. \A m, n \in DOMAIN t : m < n <=> at[m] < at[n]
  BY OnlyIs, PlacesAscend
<1>2. \A n \in DOMAIN t : at[n] \in DOMAIN s /\ t[n] = s[at[n]]
  BY OnlyIs
<1> HIDE DEF t, at
<1>3. InOrder(t)
  <2> SUFFICES ASSUME NEW k \in DOMAIN t, NEW l \in DOMAIN t,
                      NEW i \in 1 .. 6, NEW j \in 1 .. 6,
                      t[k] = Core[i] /\ t[l] = Core[j]
               PROVE  k < l <=> i < j
    BY DEF InOrder
  <2>1. at[k] < at[l] <=> i < j
    BY <1>2 DEF InOrder
  <2>2. QED
    BY <1>1, <2>1
<1>4. QED
  BY <1>3 DEF t

\* A beginning of the natural numbers has as many as it ends with.
LEMMA Initial ==
  ASSUME NEW n \in Nat
  PROVE  IsFiniteSet(1 .. n) /\ Cardinality(1 .. n) = n
<1>1. Cardinality(1 .. n) = IF 1 > n THEN 0 ELSE n - 1 + 1
  BY FS_Interval
<1>2. QED
  BY <1>1, FS_Interval

\* Six numbers of one to six that ascend are one to six.
LEMMA SixAscend ==
  ASSUME NEW c, \A n \in 1 .. 6 : c[n] \in 1 .. 6,
         \A m, n \in 1 .. 6 : m < n => c[m] < c[n]
  PROVE  \A n \in 1 .. 6 : c[n] = n
<1>1. c[1] < c[2] /\ c[2] < c[3] /\ c[3] < c[4] /\ c[4] < c[5] /\ c[5] < c[6]
  OBVIOUS
<1>2. /\ c[1] \in 1 .. 6 /\ c[2] \in 1 .. 6 /\ c[3] \in 1 .. 6
      /\ c[4] \in 1 .. 6 /\ c[5] \in 1 .. 6 /\ c[6] \in 1 .. 6
  OBVIOUS
<1>3. c[1] = 1 /\ c[2] = 2 /\ c[3] = 3 /\ c[4] = 4 /\ c[5] = 5 /\ c[6] = 6
  BY <1>1, <1>2
<1>4. \A n \in 1 .. 6 : n = 1 \/ n = 2 \/ n = 3 \/ n = 4 \/ n = 5 \/ n = 6
  OBVIOUS
<1>5. QED
  BY <1>3, <1>4

\* A sequence that has the whole core, in order, is the core without the rest.
LEMMA CoreIsLeft ==
  ASSUME NEW S, NEW s \in Seq(S), InOrder(s), ToSet(Core) \subseteq ToSet(s)
  PROVE  Only(s, ToSet(Core)) = Core
<1> DEFINE t == Only(s, ToSet(Core))
           at == PlacesOf(s, ToSet(Core))
           Which(n) == CHOOSE i \in 1 .. 6 : t[n] = Core[i]
           D == 1 .. Len(t)
           c == [n \in D |-> Which(n)]
<1>1. t \in Seq(S) /\ DOMAIN t = D
  BY OnlyIs
<1>2. Len(t) \in Nat
  BY <1>1
<1>3. InOrder(t)
  BY OnlyIsInOrder
<1>4. ASSUME NEW n \in D PROVE c[n] \in 1 .. 6 /\ t[n] = Core[c[n]]
  <2>1. t[n] \in ToSet(Core)
    BY <1>1, OnlyIs
  <2>2. \E i \in 1 .. 6 : t[n] = Core[i]
    BY <2>1, CoreIs DEF ToSet
  <2>3. Which(n) \in 1 .. 6 /\ t[n] = Core[Which(n)]
    BY <2>2
  <2>4. QED
    BY <2>3
<1>5. ASSUME NEW i \in 1 .. 6 PROVE \E n \in D : t[n] = Core[i]
  <2>1. Core[i] \in ToSet(Core)
    BY CoreIs DEF ToSet
  <2>2. PICK k \in DOMAIN s : s[k] = Core[i]
    BY <2>1 DEF ToSet
  <2>3. k \in PlacesKept(s, ToSet(Core))
    BY <2>1, <2>2 DEF PlacesKept
  <2>4. PICK n \in DOMAIN at : at[n] = k
    BY <2>3, PlacesAscend
  <2>5. n \in DOMAIN t /\ t[n] = s[k]
    BY <2>4, OnlyIs
  <2>6. QED
    BY <1>1, <2>2, <2>5
<1> HIDE DEF t, at, c, Which
<1>6. ASSUME NEW m \in D, NEW n \in D PROVE m < n <=> c[m] < c[n]
  <2>1. /\ c[m] \in 1 .. 6 /\ t[m] = Core[c[m]]
        /\ c[n] \in 1 .. 6 /\ t[n] = Core[c[n]]
    BY <1>4
  <2>2. m \in DOMAIN t /\ n \in DOMAIN t
    BY <1>1
  <2>3. QED
    BY <1>3, <2>1, <2>2 DEF InOrder
<1>7. c \in Bijection(D, 1 .. 6)
  <2>1. c \in [D -> 1 .. 6]
    BY <1>4 DEF c
  <2>2. ASSUME NEW m \in D, NEW n \in D, c[m] = c[n] PROVE m = n
    <3>1. ~(c[m] < c[n]) /\ ~(c[n] < c[m])
      BY <2>1, <2>2
    <3>2. ~(m < n) /\ ~(n < m)
      BY <1>6, <3>1
    <3>3. QED
      BY <3>2
  <2>3. ASSUME NEW i \in 1 .. 6 PROVE \E n \in D : c[n] = i
    <3>1. PICK n \in D : t[n] = Core[i]
      BY <1>5
    <3>2. Core[c[n]] = Core[i] /\ c[n] \in 1 .. 6
      BY <1>4, <3>1
    <3>3. QED
      BY <3>2, CoreIsOnce
  <2>4. QED
    BY <2>1, <2>2, <2>3 DEF Bijection, Injection, Surjection, IsInjective
<1>8. Len(t) = 6
  <2>1. IsFiniteSet(D) /\ Cardinality(D) = Len(t)
    BY <1>2, Initial
  <2>2. Cardinality(1 .. 6) = 6
    BY Initial
  <2>3. Cardinality(1 .. 6) = Cardinality(D)
    BY <1>7, <2>1, FS_Bijection DEF ExistsBijection
  <2>4. QED
    BY <2>1, <2>2, <2>3
<1>9. \A n \in 1 .. 6 : c[n] = n
  BY <1>4, <1>6, <1>8, SixAscend
<1>10. \A n \in 1 .. 6 : t[n] = Core[n]
  BY <1>4, <1>8, <1>9
<1>11. t = Core
  BY <1>1, <1>8, <1>10, CoreIs, SeqEqual
<1>12. QED
  BY <1>11 DEF t

-----------------------------------------------------------------------------
(* Inserting an overlay leaves the core whole.                             *)

\* A sequence that has the whole core in order, prob at its end.
Whole(s) ==
  /\ s \in Seq(Families) /\ s # <<>>
  /\ InOrder(s)
  /\ ToSet(Core) \subseteq ToSet(s)
  /\ Last(s) = "prob"

\* The core alone is whole.
LEMMA CoreIsWhole == Whole(Core)
BY CoreIs, CoreInOrder DEF Whole, Last

\* What an insertion after place p does.
LEMMA Inserted ==
  ASSUME NEW S, NEW s \in Seq(S), NEW p \in 1 .. Len(s), NEW f \in S
  PROVE  LET t == InsertAt(s, p + 1, f)
         IN  /\ t \in Seq(S) /\ Len(t) = Len(s) + 1
             /\ DOMAIN t = 1 .. Len(s) + 1
             /\ \A k \in 1 .. p : t[k] = s[k]
             /\ t[p + 1] = f
             /\ \A k \in p + 1 .. Len(s) : t[k + 1] = s[k]
<1> DEFINE a == SubSeq(s, 1, p)
           b == SubSeq(s, p + 1, Len(s))
           c == a \o <<f>>
           t == InsertAt(s, p + 1, f)
<1>1. t = c \o b
  <2>1. (p + 1) - 1 = p
    OBVIOUS
  <2>2. QED
    BY <2>1 DEF InsertAt
<1>2. a \in Seq(S) /\ Len(a) = p /\ \A k \in 1 .. p : a[k] = s[k]
  OBVIOUS
<1>3. b \in Seq(S) /\ Len(b) = Len(s) - p /\ \A k \in 1 .. Len(s) - p : b[k] = s[k + p]
  OBVIOUS
<1> HIDE DEF a, b, t
<1>4. /\ c \in Seq(S) /\ Len(c) = p + 1
      /\ \A k \in 1 .. p : c[k] = s[k]
      /\ c[p + 1] = f
  BY <1>2
<1> HIDE DEF c
<1>5. t \in Seq(S) /\ Len(t) = Len(s) + 1 /\ DOMAIN t = 1 .. Len(s) + 1
  BY <1>1, <1>3, <1>4
<1>6. (\A k \in 1 .. p : t[k] = s[k]) /\ t[p + 1] = f
  BY <1>1, <1>3, <1>4
<1>7. ASSUME NEW k \in p + 1 .. Len(s) PROVE t[k + 1] = s[k]
  <2>1. t[k + 1] = b[k - p]
    BY <1>1, <1>3, <1>4
  <2>2. k - p \in 1 .. Len(s) - p /\ (k - p) + p = k
    OBVIOUS
  <2>3. QED
    BY <1>3, <2>1, <2>2
<1>8. QED
  BY <1>5, <1>6, <1>7 DEF t

\* Before the insertion a place k was at Old(k), if it is not the new one.
Old(k, p) == IF k <= p THEN k ELSE k - 1

\* After an insertion every other element is one from before, in the same order.
LEMMA InsertedFrom ==
  ASSUME NEW S, NEW s \in Seq(S), NEW p \in 1 .. Len(s), NEW f \in S
  PROVE  LET t == InsertAt(s, p + 1, f)
         IN  /\ \A k \in DOMAIN t \ {p + 1} :
                  Old(k, p) \in DOMAIN s /\ t[k] = s[Old(k, p)]
             /\ \A k, l \in DOMAIN t \ {p + 1} : k < l <=> Old(k, p) < Old(l, p)
             /\ ToSet(t) = ToSet(s) \cup {f}
<1> DEFINE t == InsertAt(s, p + 1, f)
<1>1. /\ DOMAIN t = 1 .. Len(s) + 1
      /\ \A k \in 1 .. p : t[k] = s[k]
      /\ t[p + 1] = f
      /\ \A k \in p + 1 .. Len(s) : t[k + 1] = s[k]
  BY Inserted
<1> HIDE DEF t
<1>2. ASSUME NEW k \in DOMAIN t \ {p + 1}
      PROVE  Old(k, p) \in DOMAIN s /\ t[k] = s[Old(k, p)]
  <2>1. CASE k <= p
    BY <1>1, <2>1 DEF Old
  <2>2. CASE ~(k <= p)
    <3>1. k - 1 \in p + 1 .. Len(s) /\ (k - 1) + 1 = k
      BY <1>1, <2>2
    <3>2. t[k] = s[k - 1]
      BY <1>1, <3>1
    <3>3. QED
      BY <2>2, <3>1, <3>2 DEF Old
  <2>3. QED
    BY <2>1, <2>2
<1>3. \A k, l \in DOMAIN t \ {p + 1} : k < l <=> Old(k, p) < Old(l, p)
  BY <1>1 DEF Old
<1>4. ToSet(t) \subseteq ToSet(s) \cup {f}
  BY <1>1, <1>2 DEF ToSet
<1>5. ASSUME NEW k \in DOMAIN s PROVE s[k] \in ToSet(t)
  <2>1. CASE k <= p
    BY <1>1, <2>1 DEF ToSet
  <2>2. CASE ~(k <= p)
    <3>1. k \in p + 1 .. Len(s) /\ k + 1 \in DOMAIN t
      BY <1>1, <2>2
    <3>2. QED
      BY <1>1, <3>1 DEF ToSet
  <2>3. QED
    BY <2>1, <2>2
<1>6. f \in ToSet(t)
  BY <1>1 DEF ToSet
<1>7. ToSet(s) \cup {f} \subseteq ToSet(t)
  BY <1>5, <1>6 DEF ToSet
<1>8. QED
  BY <1>2, <1>3, <1>4, <1>7 DEF t

\* The families the composition knows a place for.
Overlays == ToSet(InsertionOrder)

\* The overlays are families outside the core.
LEMMA OverlaysAre ==
  /\ Overlays = {"heur", "ind", "dia_adv", "plan", "opt", "eml_sr",
                 "ext_open_thinker", "fal_guard"}
  /\ Overlays \subseteq Families
  /\ \A x \in Overlays : x \notin ToSet(Core)
<1>1. Overlays = {"heur", "ind", "dia_adv", "plan", "opt", "eml_sr",
                  "ext_open_thinker", "fal_guard"}
  BY DEF Overlays, InsertionOrder, ToSet
<1>2. {"heur", "ind", "dia_adv", "plan", "opt", "eml_sr",
       "ext_open_thinker", "fal_guard"} \subseteq Families
  BY DEF Families, ByName, ToSet
<1>3. \A x \in {"heur", "ind", "dia_adv", "plan", "opt", "eml_sr",
                "ext_open_thinker", "fal_guard"} : x \notin ToSet(Core)
  BY CoreIs
<1>4. QED
  BY <1>1, <1>2, <1>3

\* A whole sequence has the anchor of any overlay, and it is not prob.
LEMMA AnchorIsThere ==
  ASSUME NEW s, Whole(s), NEW f
  PROVE  Contains(s, Anchor(s, f)) /\ Anchor(s, f) # "prob"
<1>1. ASSUME NEW x \in ToSet(Core) PROVE Contains(s, x)
  <2>1. s \in Seq(Families) /\ x \in ToSet(s)
    BY DEF Whole
  <2>2. QED
    BY <2>1 DEF Contains, ToSet
<1>2. /\ Contains(s, "abd") /\ Contains(s, "ana") /\ Contains(s, "ctf")
      /\ Contains(s, "ded")
  BY <1>1, CoreIs
<1>3. \/ Anchor(s, f) \in {"abd", "ana", "ctf", "ded"}
      \/ Anchor(s, f) = "heur" /\ Contains(s, "heur")
      \/ Anchor(s, f) = "plan" /\ Contains(s, "plan")
  BY DEF Anchor
<1>4. QED
  BY <1>2, <1>3

\* An overlay goes right after its anchor, before the end.
LEMMA InsertOverlayIs ==
  ASSUME NEW s, Whole(s), NEW f \in Overlays
  PROVE  LET p == Place(s, Anchor(s, f))
         IN  /\ p \in 1 .. Len(s) /\ p < Len(s)
             /\ s[p] = Anchor(s, f)
             /\ InsertOverlay(s, f) = InsertAt(s, p + 1, f)
             /\ Whole(InsertOverlay(s, f))
<1> DEFINE p == Place(s, Anchor(s, f))
           t == InsertAt(s, p + 1, f)
<1>1. s \in Seq(Families) /\ InOrder(s) /\ s[Len(s)] = "prob"
  BY DEF Whole, Last
<1>2. p \in 1 .. Len(s) /\ s[p] = Anchor(s, f) /\ Anchor(s, f) # "prob"
  BY <1>1, AnchorIsThere, PlaceIsThere
<1>3. p < Len(s)
  <2>1. p # Len(s)
    BY <1>1, <1>2
  <2>2. QED
    BY <1>1, <1>2, <2>1
<1>4. f \in Families /\ f \notin ToSet(Core)
  BY OverlaysAre
<1> HIDE DEF p
<1>5. /\ t \in Seq(Families) /\ Len(t) = Len(s) + 1 /\ DOMAIN t = 1 .. Len(s) + 1
      /\ \A k \in 1 .. p : t[k] = s[k]
      /\ t[p + 1] = f
      /\ \A k \in p + 1 .. Len(s) : t[k + 1] = s[k]
  <2>1. s \in Seq(Families) /\ p \in 1 .. Len(s) /\ f \in Families
    BY <1>1, <1>2, <1>4
  <2>2. QED
    BY <2>1, Inserted
<1>6. /\ \A k \in DOMAIN t \ {p + 1} : Old(k, p) \in DOMAIN s /\ t[k] = s[Old(k, p)]
      /\ \A k, l \in DOMAIN t \ {p + 1} : k < l <=> Old(k, p) < Old(l, p)
      /\ ToSet(t) = ToSet(s) \cup {f}
  BY <1>1, <1>2, <1>4, InsertedFrom
<1> HIDE DEF t
<1>7. Last(t) = "prob"
  <2>1. Len(s) \in p + 1 .. Len(s)
    BY <1>1, <1>2, <1>3
  <2>2. t[Len(s) + 1] = "prob"
    BY <1>1, <1>5, <2>1
  <2>3. QED
    BY <1>5, <2>2 DEF Last
<1>8. InsertOverlay(s, f) = t
  BY <1>7 DEF InsertOverlay, ProbLast, p, t
<1>9. InOrder(t)
  <2>1. ASSUME NEW k \in DOMAIN t, NEW i \in 1 .. 6, t[k] = Core[i]
        PROVE  k \in DOMAIN t \ {p + 1}
    BY <1>4, <1>5, <2>1, CoreIs DEF ToSet
  <2>2. SUFFICES ASSUME NEW k \in DOMAIN t, NEW l \in DOMAIN t,
                        NEW i \in 1 .. 6, NEW j \in 1 .. 6,
                        t[k] = Core[i], t[l] = Core[j]
                 PROVE  k < l <=> i < j
    BY DEF InOrder
  <2>3. k \in DOMAIN t \ {p + 1} /\ l \in DOMAIN t \ {p + 1}
    BY <2>1, <2>2
  <2>4. Old(k, p) < Old(l, p) <=> i < j
    BY <1>1, <1>6, <2>2, <2>3 DEF InOrder
  <2>5. QED
    BY <1>6, <2>3, <2>4
<1>10. Whole(t)
  BY <1>1, <1>5, <1>6, <1>7, <1>9 DEF Whole
<1>11. QED
  BY <1>2, <1>3, <1>8, <1>10 DEF p, t

\* The composition, step by step.
LEMMA ComposedBySteps ==
  ASSUME NEW overlays
  PROVE  \E b : /\ b[0] = Core
                /\ \A n \in 1 .. 8 : b[n] = With(b[n - 1], InsertionOrder[n], overlays)
                /\ Composed(overlays) = b[8]
<1> DEFINE W(s, n) == With(s, InsertionOrder[n], overlays)
           Built(b) == b = [n \in 0 .. 8 |-> IF n = 0 THEN Core ELSE W(b[n - 1], n)]
<1>1. Len(InsertionOrder) = 8
  BY DEF InsertionOrder
<1> HIDE DEF W
<1>2. \E b : Built(b)
  <2> DEFINE s1 == W(Core, 1)
             s2 == W(s1, 2)
             s3 == W(s2, 3)
             s4 == W(s3, 4)
             s5 == W(s4, 5)
             s6 == W(s5, 6)
             s7 == W(s6, 7)
             s8 == W(s7, 8)
             b == [n \in 0 .. 8 |->
                     CASE n = 0 -> Core [] n = 1 -> s1 [] n = 2 -> s2 [] n = 3 -> s3
                       [] n = 4 -> s4 [] n = 5 -> s5 [] n = 6 -> s6 [] n = 7 -> s7
                       [] n = 8 -> s8]
  <2>1. /\ b[0] = Core /\ b[1] = s1 /\ b[2] = s2 /\ b[3] = s3 /\ b[4] = s4
        /\ b[5] = s5 /\ b[6] = s6 /\ b[7] = s7 /\ b[8] = s8
    <3> HIDE DEF s1, s2, s3, s4, s5, s6, s7, s8
    <3>1. QED
      OBVIOUS
  <2>2. b = [n \in 0 .. 8 |-> b[n]]
    OBVIOUS
  <2> HIDE DEF b
  <2>3. /\ b[1] = W(b[0], 1) /\ b[2] = W(b[1], 2) /\ b[3] = W(b[2], 3)
        /\ b[4] = W(b[3], 4) /\ b[5] = W(b[4], 5) /\ b[6] = W(b[5], 6)
        /\ b[7] = W(b[6], 7) /\ b[8] = W(b[7], 8)
    BY <2>1
  <2>4. ASSUME NEW n \in 0 .. 8
        PROVE  b[n] = IF n = 0 THEN Core ELSE W(b[n - 1], n)
    <3>1. \/ n = 0 \/ n = 1 \/ n = 2 \/ n = 3 \/ n = 4 \/ n = 5 \/ n = 6 \/ n = 7
          \/ n = 8
      OBVIOUS
    <3>2. QED
      BY <2>1, <2>3, <3>1
  <2>5. Built(b)
    BY <2>2, <2>4
  <2>6. QED
    BY <2>5
<1>3. Built(CHOOSE b : Built(b))
  BY <1>2
<1>4. Composed(overlays) = (CHOOSE b : Built(b))[8]
  BY <1>1 DEF Composed, W
<1>5. PICK b : Built(b) /\ Composed(overlays) = b[8]
  BY <1>3, <1>4
<1>6. b[0] = Core /\ \A n \in 1 .. 8 : b[n] = W(b[n - 1], n)
  BY <1>5
<1>7. QED
  BY <1>5, <1>6 DEF W

\* Whatever overlays are asked for, the core stays whole.
LEMMA ComposedIsWhole ==
  ASSUME NEW overlays
  PROVE  Whole(Composed(overlays))
<1>1. PICK b : /\ b[0] = Core
               /\ \A n \in 1 .. 8 : b[n] = With(b[n - 1], InsertionOrder[n], overlays)
               /\ Composed(overlays) = b[8]
  BY ComposedBySteps
<1>2. ASSUME NEW n \in 1 .. 8, Whole(b[n - 1]) PROVE Whole(b[n])
  <2>1. InsertionOrder[n] \in Overlays
    BY DEF Overlays, ToSet, InsertionOrder
  <2>2. Whole(InsertOverlay(b[n - 1], InsertionOrder[n]))
    BY <1>2, <2>1, InsertOverlayIs
  <2>3. QED
    BY <1>1, <1>2, <2>2 DEF With
<1>3. Whole(b[0])
  BY <1>1, CoreIsWhole
<1>4. Whole(b[1])
  BY <1>2, <1>3
<1>5. Whole(b[2])
  BY <1>2, <1>4
<1>6. Whole(b[3])
  BY <1>2, <1>5
<1>7. Whole(b[4])
  BY <1>2, <1>6
<1>8. Whole(b[5])
  BY <1>2, <1>7
<1>9. Whole(b[6])
  BY <1>2, <1>8
<1>10. Whole(b[7])
  BY <1>2, <1>9
<1>11. Whole(b[8])
  BY <1>2, <1>10
<1>12. QED
  BY <1>1, <1>11

-----------------------------------------------------------------------------
(* The overlays of the safe profiles stand where the validator wants them. *)

\* The overlays of the safe profiles, and what each comes after and before.
Safe == {"heur", "eml_sr", "fal_guard"}

\* The member of the core a safe overlay comes after.
After(f) == CASE f = "heur" -> 1 [] f = "eml_sr" -> 4 [] OTHER -> 5

\* Wherever both stand, a comes before b.
Precede(s, a, b) == \A k, l \in DOMAIN s : s[k] = a /\ s[l] = b => k < l

\* The core with the overlays K of the safe ones, each at its place.
Settled(s, K) ==
  /\ Whole(s)
  /\ ToSet(s) = ToSet(Core) \cup K
  /\ IsFiniteSet(K) /\ Len(s) = 6 + Cardinality(K)
  /\ \A f \in K : Precede(s, Core[After(f)], f) /\ Precede(s, f, Core[After(f) + 1])

\* A safe overlay is anchored at the same member of the core in any sequence.
LEMMA SafeAre ==
  ASSUME NEW f \in Safe
  PROVE  /\ f \in Overlays /\ f \notin ToSet(Core)
         /\ After(f) \in 1 .. 5
         /\ \A s : Anchor(s, f) = Core[After(f)]
<1>1. f = "heur" \/ f = "eml_sr" \/ f = "fal_guard"
  BY DEF Safe
<1>2. f \in Overlays /\ f \notin ToSet(Core)
  BY <1>1, OverlaysAre
<1>3. After(f) \in 1 .. 5
  BY DEF After
<1>4. \A s : Anchor(s, f) = Core[After(f)]
  BY <1>1, CoreIs DEF Anchor, After
<1>5. QED
  BY <1>2, <1>3, <1>4

\* One more safe overlay, and all of them are still in their places.
LEMMA SettlesOneMore ==
  ASSUME NEW s, NEW K \in SUBSET Safe, Settled(s, K), NEW f \in Safe, f \notin K
  PROVE  Settled(InsertOverlay(s, f), K \cup {f})
<1> DEFINE p == Place(s, Anchor(s, f))
           t == InsertOverlay(s, f)
           i == After(f)
<1>1. Whole(s) /\ s \in Seq(Families) /\ InOrder(s) /\ Len(s) = 6 + Cardinality(K)
  BY DEF Settled, Whole
<1>2. f \in Overlays /\ f \notin ToSet(Core) /\ f \in Families
  BY SafeAre, OverlaysAre
<1>3. f \notin ToSet(s)
  BY <1>2 DEF Settled
<1>4. i \in 1 .. 5 /\ Anchor(s, f) = Core[i]
  BY SafeAre
<1>5. /\ p \in 1 .. Len(s) /\ s[p] = Core[i]
      /\ t = InsertAt(s, p + 1, f)
      /\ Whole(t)
  BY <1>1, <1>2, <1>4, InsertOverlayIs
<1> HIDE DEF p
<1>6. /\ Len(t) = Len(s) + 1 /\ DOMAIN t = 1 .. Len(s) + 1 /\ t[p + 1] = f
      /\ \A k \in 1 .. p : t[k] = s[k]
  <2> DEFINE u == InsertAt(s, p + 1, f)
  <2>1. s \in Seq(Families) /\ p \in 1 .. Len(s) /\ f \in Families
    BY <1>1, <1>2, <1>5
  <2>2. /\ Len(u) = Len(s) + 1 /\ DOMAIN u = 1 .. Len(s) + 1 /\ u[p + 1] = f
        /\ \A k \in 1 .. p : u[k] = s[k]
    BY <2>1, Inserted
  <2>3. t = u
    BY <1>5
  <2> HIDE DEF t, u
  <2>4. QED
    BY <2>2, <2>3
<1>7. /\ \A k \in DOMAIN t \ {p + 1} : Old(k, p) \in DOMAIN s /\ t[k] = s[Old(k, p)]
      /\ \A k, l \in DOMAIN t \ {p + 1} : k < l <=> Old(k, p) < Old(l, p)
      /\ ToSet(t) = ToSet(s) \cup {f}
  BY <1>1, <1>2, <1>5, InsertedFrom
<1> HIDE DEF t
<1>8. ASSUME NEW k \in DOMAIN t, t[k] # f PROVE k \in DOMAIN t \ {p + 1}
  BY <1>6, <1>8
<1>9. ASSUME NEW k \in DOMAIN t, t[k] = f PROVE k = p + 1
  BY <1>3, <1>7, <1>9 DEF ToSet
<1>10. ASSUME NEW a, NEW b, a # f, b # f, Precede(s, a, b) PROVE Precede(t, a, b)
  <2>1. SUFFICES ASSUME NEW k \in DOMAIN t, NEW l \in DOMAIN t, t[k] = a, t[l] = b
                 PROVE  k < l
    BY DEF Precede
  <2>2. k \in DOMAIN t \ {p + 1} /\ l \in DOMAIN t \ {p + 1}
    BY <1>8, <1>10, <2>1
  <2>3. Old(k, p) < Old(l, p)
    BY <1>7, <1>10, <2>1, <2>2 DEF Precede
  <2>4. QED
    BY <1>7, <2>2, <2>3
<1>11. \A j \in 1 .. 6 : Core[j] # f
  BY <1>2, CoreIs DEF ToSet
<1>12. Precede(t, Core[i], f)
  <2>1. SUFFICES ASSUME NEW k \in DOMAIN t, NEW l \in DOMAIN t, t[k] = Core[i], t[l] = f
                 PROVE  k < l
    BY DEF Precede
  <2>2. l = p + 1 /\ k \in DOMAIN t \ {p + 1}
    BY <1>4, <1>8, <1>9, <1>11, <2>1
  <2>3. Old(k, p) \in DOMAIN s /\ s[Old(k, p)] = Core[i]
    BY <1>7, <2>1, <2>2
  <2>4. ~(p < Old(k, p))
    BY <1>1, <1>4, <1>5, <2>3 DEF InOrder
  <2>5. p \in Int /\ k \in Int
    BY <1>5, <1>6
  <2>6. k <= p
    BY <1>6, <2>2, <2>4, <2>5 DEF Old
  <2>7. QED
    BY <2>2, <2>5, <2>6
<1>13. Precede(t, f, Core[i + 1])
  <2>1. SUFFICES ASSUME NEW k \in DOMAIN t, NEW l \in DOMAIN t,
                        t[k] = f, t[l] = Core[i + 1]
                 PROVE  k < l
    BY DEF Precede
  <2>2. i + 1 \in 1 .. 6 /\ i \in 1 .. 6 /\ i < i + 1
    BY <1>4
  <2>3. k = p + 1 /\ l \in DOMAIN t \ {p + 1}
    BY <1>8, <1>9, <1>11, <2>1, <2>2
  <2>4. Old(l, p) \in DOMAIN s /\ s[Old(l, p)] = Core[i + 1]
    BY <1>7, <2>1, <2>3
  <2>5. p < Old(l, p)
    BY <1>1, <1>5, <2>2, <2>4 DEF InOrder
  <2>6. p \in Int /\ l \in Int
    BY <1>5, <1>6
  <2>7. QED
    BY <2>3, <2>5, <2>6 DEF Old
<1>14. \A g \in K \cup {f} : Precede(t, Core[After(g)], g)
                             /\ Precede(t, g, Core[After(g) + 1])
  <2>1. SUFFICES ASSUME NEW g \in K, g # f
                 PROVE  /\ Precede(t, Core[After(g)], g)
                        /\ Precede(t, g, Core[After(g) + 1])
    BY <1>12, <1>13
  <2>2. After(g) \in 1 .. 6 /\ After(g) + 1 \in 1 .. 6
    BY DEF After
  <2>3. Precede(s, Core[After(g)], g) /\ Precede(s, g, Core[After(g) + 1])
    BY DEF Settled
  <2>4. QED
    BY <1>10, <1>11, <2>1, <2>2, <2>3
<1>15. IsFiniteSet(K \cup {f}) /\ Cardinality(K \cup {f}) = Cardinality(K) + 1
  BY FS_AddElement DEF Settled
<1>16. Cardinality(K) \in Nat
  BY FS_CardinalityType DEF Settled
<1>17. ToSet(t) = ToSet(Core) \cup (K \cup {f})
  BY <1>7 DEF Settled
<1>18. Len(t) = 6 + Cardinality(K \cup {f})
  BY <1>1, <1>6, <1>15, <1>16
<1>19. QED
  BY <1>5, <1>14, <1>15, <1>17, <1>18 DEF Settled, t

\* The core with no overlay is where the composition starts.
LEMMA CoreIsSettled == Settled(Core, {})
BY CoreIs, CoreIsWhole, FS_EmptySet DEF Settled

\* The composition of safe overlays has each of them at its place.
LEMMA SafeIsSettled ==
  ASSUME NEW overlays \in SUBSET Safe
  PROVE  Settled(Composed(overlays), overlays)
<1>1. PICK b : /\ b[0] = Core
               /\ \A n \in 1 .. 8 : b[n] = With(b[n - 1], InsertionOrder[n], overlays)
               /\ Composed(overlays) = b[8]
  BY ComposedBySteps
<1>2. ASSUME NEW s, NEW f \in Safe, NEW D \in SUBSET Safe, f \notin D,
             Settled(s, overlays \cap D)
      PROVE  Settled(With(s, f, overlays), overlays \cap (D \cup {f}))
  <2>1. CASE f \in overlays
    <3>1. overlays \cap (D \cup {f}) = (overlays \cap D) \cup {f}
      BY <2>1
    <3>2. Settled(InsertOverlay(s, f), (overlays \cap D) \cup {f})
      BY <1>2, SettlesOneMore
    <3>3. QED
      BY <2>1, <3>1, <3>2 DEF With
  <2>2. CASE f \notin overlays
    <3>1. overlays \cap (D \cup {f}) = overlays \cap D
      BY <2>2
    <3>2. QED
      BY <1>2, <2>2, <3>1 DEF With
  <2>3. QED
    BY <2>1, <2>2
<1>3. /\ InsertionOrder[1] = "heur" /\ InsertionOrder[6] = "eml_sr"
      /\ InsertionOrder[8] = "fal_guard"
      /\ \A n \in {2, 3, 4, 5, 7} : InsertionOrder[n] \notin overlays
  BY DEF InsertionOrder, Safe
<1>4. b[1] = With(Core, "heur", overlays)
  BY <1>1, <1>3
<1>5. b[2] = b[1] /\ b[3] = b[2] /\ b[4] = b[3] /\ b[5] = b[4] /\ b[7] = b[6]
  BY <1>1, <1>3 DEF With
<1>6. b[6] = With(b[5], "eml_sr", overlays) /\ b[8] = With(b[7], "fal_guard", overlays)
  BY <1>1, <1>3
<1>7. "heur" \in Safe /\ "eml_sr" \in Safe /\ "fal_guard" \in Safe
  BY DEF Safe
<1>8. Settled(b[1], overlays \cap {"heur"})
  <2>1. Settled(Core, overlays \cap {})
    BY CoreIsSettled
  <2>2. Settled(b[1], overlays \cap ({} \cup {"heur"}))
    BY <1>2, <1>4, <1>7, <2>1
  <2>3. QED
    BY <2>2
<1>9. Settled(b[6], overlays \cap {"heur", "eml_sr"})
  <2>1. Settled(b[5], overlays \cap {"heur"})
    BY <1>5, <1>8
  <2>2. Settled(b[6], overlays \cap ({"heur"} \cup {"eml_sr"}))
    BY <1>2, <1>6, <1>7, <2>1
  <2>3. {"heur"} \cup {"eml_sr"} = {"heur", "eml_sr"}
    OBVIOUS
  <2>4. QED
    BY <2>2, <2>3
<1>10. Settled(b[8], overlays)
  <2>1. Settled(b[7], overlays \cap {"heur", "eml_sr"})
    BY <1>5, <1>9
  <2>2. Settled(b[8], overlays \cap ({"heur", "eml_sr"} \cup {"fal_guard"}))
    BY <1>2, <1>6, <1>7, <2>1
  <2>3. overlays \cap ({"heur", "eml_sr"} \cup {"fal_guard"}) = overlays
    BY DEF Safe
  <2>4. QED
    BY <2>2, <2>3
<1>11. QED
  BY <1>1, <1>10

-----------------------------------------------------------------------------
(* Orders by score and by place.                                           *)

\* The smaller of two numbers.
LEMMA MinOfTwo ==
  ASSUME NEW a \in Int, NEW b \in Int
  PROVE  /\ Min({a, b}) \in {a, b}
         /\ Min({a, b}) <= a
         /\ Min({a, b}) <= b
<1>1. \E x \in {a, b} : \A y \in {a, b} : x <= y
  <2>1. CASE a <= b
    BY <2>1
  <2>2. CASE b < a
    BY <2>2
  <2> QED BY <2>1, <2>2
<1> QED BY <1>1 DEF Min

\* The larger of two numbers.
LEMMA MaxOfTwo ==
  ASSUME NEW a \in Int, NEW b \in Int
  PROVE  /\ Max({a, b}) \in {a, b}
         /\ Max({a, b}) >= a
         /\ Max({a, b}) >= b
<1>1. \E x \in {a, b} : \A y \in {a, b} : x >= y
  <2>1. CASE a >= b
    BY <2>1
  <2>2. CASE b > a
    BY <2>2
  <2> QED BY <2>1, <2>2
<1> QED BY <1>1 DEF Max

\* Names differ in their place.
LEMMA NamesApart ==
  ASSUME NEW a \in Families, NEW b \in Families
  PROVE  /\ Place(ByName, a) \in Int
         /\ Place(ByName, a) = Place(ByName, b) => a = b
<1>1. ByName \in Seq(Families)
  BY DEF ByName, Families, ToSet
<1>2. ASSUME NEW x \in Families
      PROVE  Place(ByName, x) \in 1 .. Len(ByName) /\ ByName[Place(ByName, x)] = x
  <2>1. Contains(ByName, x)
    BY <1>1 DEF Contains, Families, ToSet
  <2>2. QED
    BY <1>1, <2>1, PlaceIsThere
<1>3. Place(ByName, a) \in 1 .. Len(ByName) /\ ByName[Place(ByName, a)] = a
  BY <1>2
<1>4. Place(ByName, b) \in 1 .. Len(ByName) /\ ByName[Place(ByName, b)] = b
  BY <1>2
<1>5. QED
  BY <1>1, <1>3, <1>4

\* Scores, and names where they are equal, order families strictly.
ScoreOrder(F, v) == {p \in F \X F : ByScore(p[1], v[p[1]], p[2], v[p[2]])}

\* By score and then by name: a strict order.
LEMMA ScoresOrder ==
  ASSUME NEW F \in SUBSET Families, NEW v \in [F -> Int]
  PROVE  StrictOrder(ScoreOrder(F, v), F)
<1> DEFINE R == ScoreOrder(F, v)
           name == [x \in F |-> Place(ByName, x)]
<1>1. name \in [F -> Int] /\ \A x, y \in F : name[x] = name[y] => x = y
  BY NamesApart
<1>2. \A x, y \in F :
        <<x, y>> \in R <=> v[x] > v[y] \/ (v[x] = v[y] /\ name[x] < name[y])
  BY DEF ScoreOrder, ByScore, NamedBefore
<1> HIDE DEF R, name
<1>3. \A x \in F : v[x] \in Int /\ name[x] \in Int
  BY <1>1
<1>4. ASSUME NEW x \in F PROVE <<x, x>> \notin R
  BY <1>2, <1>3
<1>5. ASSUME NEW x \in F, NEW y \in F, NEW z \in F, <<x, y>> \in R, <<y, z>> \in R
      PROVE  <<x, z>> \in R
  <2>1. v[x] > v[y] \/ (v[x] = v[y] /\ name[x] < name[y])
    BY <1>2, <1>5
  <2>2. v[y] > v[z] \/ (v[y] = v[z] /\ name[y] < name[z])
    BY <1>2, <1>5
  <2>3. /\ v[x] \in Int /\ v[y] \in Int /\ v[z] \in Int
        /\ name[x] \in Int /\ name[y] \in Int /\ name[z] \in Int
    BY <1>3
  <2>4. v[x] > v[z] \/ (v[x] = v[z] /\ name[x] < name[z])
    BY <2>1, <2>2, <2>3
  <2>5. QED
    BY <1>2, <2>4
<1>6. ASSUME NEW x \in F, NEW y \in F, x # y PROVE <<x, y>> \in R \/ <<y, x>> \in R
  <2>1. /\ v[x] \in Int /\ v[y] \in Int /\ name[x] \in Int /\ name[y] \in Int
        /\ name[x] # name[y]
    BY <1>1, <1>3, <1>6
  <2>2. \/ v[x] > v[y] \/ (v[x] = v[y] /\ name[x] < name[y])
        \/ v[y] > v[x] \/ (v[y] = v[x] /\ name[y] < name[x])
    BY <2>1
  <2>3. QED
    BY <1>2, <2>2
<1>7. QED
  BY <1>4, <1>5, <1>6 DEF StrictOrder, R

\* A sequence whose i-th family has i - 1 others before it lists them all.
LEMMA ListsThemAll ==
  ASSUME NEW F \in SUBSET Families, IsFiniteSet(F), NEW v \in [F -> Int],
         NEW C, NEW o \in [1 .. Cardinality(F) -> C],
         \A i \in 1 .. Cardinality(F) :
           (\E x \in F : Rank(ScoreOrder(F, v), F)[x] = i - 1)
             => o[i] \in F /\ Rank(ScoreOrder(F, v), F)[o[i]] = i - 1
  PROVE  o \in Seq(F) /\ ToSet(o) = F
<1> DEFINE R == ScoreOrder(F, v)
           r == Rank(R, F)
           n == Cardinality(F)
<1>1. /\ n \in Nat
      /\ r \in [F -> 0 .. n - 1]
      /\ \A x, y \in F : <<x, y>> \in R <=> r[x] < r[y]
      /\ \A i \in 0 .. n - 1 : \E x \in F : r[x] = i
  BY ScoresOrder, RanksAreTaken
<1>2. StrictOrder(R, F)
  BY ScoresOrder
<1> HIDE DEF R, r, n
<1>3. ASSUME NEW i \in 1 .. n PROVE o[i] \in F /\ r[o[i]] = i - 1
  <2>1. i - 1 \in 0 .. n - 1
    BY <1>1
  <2>2. \E x \in F : r[x] = i - 1
    BY <1>1, <2>1
  <2>3. QED
    BY <2>2 DEF n, r, R
<1>4. o \in [1 .. n -> F]
  BY <1>3 DEF n
<1>5. o \in Seq(F) /\ DOMAIN o = 1 .. n
  <2>1. n \in Nat /\ (\A i \in 1 .. n : o[i] \in F)
    BY <1>1, <1>4
  <2>2. o \in Seq(F)
    BY <1>4, <2>1, IsASeq
  <2>3. QED
    BY <1>4, <2>2
<1>6. ASSUME NEW x \in F PROVE \E i \in 1 .. n : o[i] = x
  <2>1. r[x] + 1 \in 1 .. n
    BY <1>1
  <2>2. PICK y \in F : y = o[r[x] + 1] /\ r[y] = r[x]
    <3>1. o[r[x] + 1] \in F /\ r[o[r[x] + 1]] = (r[x] + 1) - 1
      BY <1>3, <2>1
    <3>2. (r[x] + 1) - 1 = r[x]
      BY <1>1
    <3>3. QED
      BY <3>1, <3>2
  <2>3. ~(r[x] < r[y]) /\ ~(r[y] < r[x])
    BY <1>1, <2>2
  <2>4. <<x, y>> \notin R /\ <<y, x>> \notin R
    BY <1>1, <2>3
  <2>5. x = y
    BY <1>2, <2>4 DEF StrictOrder
  <2>6. QED
    BY <2>1, <2>2, <2>5
<1>7. ToSet(o) = F
  BY <1>4, <1>5, <1>6 DEF ToSet
<1>8. QED
  BY <1>5, <1>7

\* The families of a set best first are those of the set.
LEMMA RankedIsAll ==
  ASSUME NEW F \in SUBSET Families, IsFiniteSet(F), NEW f, NEW label,
         \A x \in F : Score(x, f, label) \in Int
  PROVE  Ranked(F, f, label) \in Seq(F) /\ ToSet(Ranked(F, f, label)) = F
<1> DEFINE v == [x \in F |-> Score(x, f, label)]
           o == Ranked(F, f, label)
           r == Rank(ScoreOrder(F, v), F)
<1>1. v \in [F -> Int]
  OBVIOUS
<1>2. o = [i \in 1 .. Cardinality(F) |->
             CHOOSE x \in F : Cardinality({y \in F : Better(y, x, f, label)}) = i - 1]
  BY DEF Ranked, Ordered
<1>3. ASSUME NEW x \in F PROVE r[x] = Cardinality({y \in F : Better(y, x, f, label)})
  <2>1. {y \in F : <<y, x>> \in ScoreOrder(F, v)} = {y \in F : Better(y, x, f, label)}
    BY DEF ScoreOrder, Better
  <2>2. QED
    BY <2>1 DEF Rank
<1> HIDE DEF r, v
<1>4. PICK C : o \in [1 .. Cardinality(F) -> C]
  <2>1. o \in [1 .. Cardinality(F) -> {o[i] : i \in 1 .. Cardinality(F)}]
    BY <1>2
  <2>2. QED
    BY <2>1
<1>5. ASSUME NEW i \in 1 .. Cardinality(F), \E x \in F : r[x] = i - 1
      PROVE  o[i] \in F /\ r[o[i]] = i - 1
  <2>1. \E x \in F : Cardinality({y \in F : Better(y, x, f, label)}) = i - 1
    BY <1>3, <1>5
  <2>2. o[i] \in F /\ Cardinality({y \in F : Better(y, o[i], f, label)}) = i - 1
    BY <1>2, <2>1
  <2>3. QED
    BY <1>3, <2>2
<1> HIDE DEF o
<1>6. o \in Seq(F) /\ ToSet(o) = F
  BY <1>1, <1>4, <1>5, ListsThemAll DEF r
<1>7. QED
  BY <1>6 DEF o

\* And so are they worst first.
LEMMA ExpendableIsAll ==
  ASSUME NEW F \in SUBSET Families, IsFiniteSet(F), NEW f, NEW label,
         \A x \in F : Score(x, f, label) \in Int
  PROVE  Expendable(F, f, label) \in Seq(F) /\ ToSet(Expendable(F, f, label)) = F
<1> DEFINE v == [x \in F |-> -Score(x, f, label)]
           o == Expendable(F, f, label)
           r == Rank(ScoreOrder(F, v), F)
<1>1. v \in [F -> Int]
  OBVIOUS
<1>2. o = [i \in 1 .. Cardinality(F) |->
             CHOOSE x \in F : Cardinality({y \in F : Worse(y, x, f, label)}) = i - 1]
  BY DEF Expendable, Ordered
<1>3. ASSUME NEW x \in F PROVE r[x] = Cardinality({y \in F : Worse(y, x, f, label)})
  <2>1. {y \in F : <<y, x>> \in ScoreOrder(F, v)} = {y \in F : Worse(y, x, f, label)}
    BY DEF ScoreOrder, Worse
  <2>2. QED
    BY <2>1 DEF Rank
<1> HIDE DEF r, v
<1>4. PICK C : o \in [1 .. Cardinality(F) -> C]
  <2>1. o \in [1 .. Cardinality(F) -> {o[i] : i \in 1 .. Cardinality(F)}]
    BY <1>2
  <2>2. QED
    BY <2>1
<1>5. ASSUME NEW i \in 1 .. Cardinality(F), \E x \in F : r[x] = i - 1
      PROVE  o[i] \in F /\ r[o[i]] = i - 1
  <2>1. \E x \in F : Cardinality({y \in F : Worse(y, x, f, label)}) = i - 1
    BY <1>3, <1>5
  <2>2. o[i] \in F /\ Cardinality({y \in F : Worse(y, o[i], f, label)}) = i - 1
    BY <1>2, <2>1
  <2>3. QED
    BY <1>3, <2>2
<1> HIDE DEF o
<1>6. o \in Seq(F) /\ ToSet(o) = F
  BY <1>1, <1>4, <1>5, ListsThemAll DEF r
<1>7. QED
  BY <1>6 DEF o

-----------------------------------------------------------------------------
(* Features and scores are numbers.                                        *)

\* The features, all of them numbers.
Numbers ==
  {"uncertainty", "contradiction", "continuity", "edge", "causalRisk", "regularity",
   "lawFit", "heterogeneity", "level", "viabilityEdge", "ambiguity", "fragility",
   "pattern", "vram", "gpu", "hardware"}

\* The larger of two numbers is a number.
LEMMA LargerIsWhole ==
  ASSUME NEW x \in Int
  PROVE  /\ \A least \in Int : AtLeast(x, least) \in Int
         /\ AtLeast(x, 40) \in Int /\ AtLeast(x, 30) \in Int /\ AtLeast(x, 86) \in Int
<1>1. ASSUME NEW least \in Int PROVE AtLeast(x, least) \in Int
  BY MaxOfTwo DEF AtLeast
<1>2. QED
  BY <1>1

\* Measurements are whole, so are the features made of them.
LEMMA FeaturesAreWhole ==
  ASSUME NEW c \in Context
  PROVE  \A n \in Numbers : Features(c)[n] \in Int
<1>1. ASSUME NEW x \in Int, NEW least \in Int PROVE AtLeast(x, least) \in Int
  BY LargerIsWhole
<1>2. ASSUME NEW x \in Int PROVE Unit(x) \in Int
  <2>1. Min({x, 10000}) \in {x, 10000}
    BY MinOfTwo
  <2>2. QED
    BY <2>1 DEF Unit
<1> DEFINE contradiction == IF c.alarm THEN AtLeast(c.contradiction, 40)
                                       ELSE c.contradiction
           edge == IF c.alarm THEN AtLeast(c.edge, 30) ELSE c.edge
           level == IF c.alarm THEN AtLeast(c.level, 86) ELSE c.level
           ambiguity == 45 * c.uncertainty + 30 * contradiction + 25 * c.gap
           fragility == Unit(45 * contradiction + 35 * (100 - c.continuity)
                             + (IF c.alarm THEN 2000 ELSE 0))
           Caused(x, onFail, onWarn) ==
             CASE c.causal = "fail" -> AtLeast(x, onFail)
               [] c.causal = "warn" -> AtLeast(x, onWarn)
               [] OTHER             -> x
           Remembered(x, onFail, onWarn) ==
             CASE c.memory = "fail" -> AtLeast(x, onFail)
               [] c.memory = "warn" -> AtLeast(x, onWarn)
               [] OTHER             -> x
           viabilityEdge == Unit(40 * edge + 35 * level + 20 * (100 - c.margin)
                                 + (IF c.alarm THEN 1500 ELSE 0))
           f == Features(c)
<1>3. ASSUME NEW x \in Int
      PROVE  /\ Caused(x, 7500, 5000) \in Int /\ Caused(x, 8500, 5500) \in Int
             /\ Caused(x, 7000, 5000) \in Int /\ Caused(x, 7500, 5500) \in Int
             /\ Remembered(x, 5500, 4000) \in Int /\ Remembered(x, 7000, 5000) \in Int
  <2>1. ASSUME NEW a \in Int, NEW b \in Int
        PROVE  Caused(x, a, b) \in Int /\ Remembered(x, a, b) \in Int
    BY <1>1
  <2> HIDE DEF Caused, Remembered
  <2>2. QED
    BY <2>1
<1>4. /\ c.uncertainty \in Int /\ c.contradiction \in Int /\ c.continuity \in Int
      /\ c.edge \in Int /\ c.regularity \in Int /\ c.lawFit \in Int /\ c.margin \in Int
      /\ c.vram \in Int /\ c.gap \in Int /\ c.spread \in Int /\ c.level \in Int
      /\ c.pressure \in Int /\ c.thermal \in Int /\ c.gpu \in Int
  BY DEF Context
<1>5. contradiction \in Int /\ edge \in Int /\ level \in Int
  <2>1. /\ AtLeast(c.contradiction, 40) \in Int
        /\ AtLeast(c.edge, 30) \in Int
        /\ AtLeast(c.level, 86) \in Int
    BY <1>4, LargerIsWhole
  <2>2. QED
    BY <1>4, <2>1
<1> HIDE DEF contradiction, edge, level
<1>6. ambiguity \in Int
  BY <1>4, <1>5
<1>7. fragility \in Int
  <2>1. 45 * contradiction + 35 * (100 - c.continuity)
        + (IF c.alarm THEN 2000 ELSE 0) \in Int
    BY <1>4, <1>5
  <2>2. QED
    BY <1>2, <2>1
<1>8. viabilityEdge \in Int
  <2>1. 40 * edge + 35 * level + 20 * (100 - c.margin)
        + (IF c.alarm THEN 1500 ELSE 0) \in Int
    BY <1>4, <1>5
  <2>2. QED
    BY <1>2, <2>1
<1>9. /\ f.uncertainty = Remembered(100 * c.uncertainty, 5500, 4000)
      /\ f.contradiction = Caused(100 * contradiction, 7500, 5000)
      /\ f.continuity = 100 * c.continuity
      /\ f.edge = 100 * edge
      /\ f.causalRisk = Caused(100 * c.gap, 8500, 5500)
      /\ f.regularity = 100 * c.regularity
      /\ f.lawFit = 100 * c.lawFit
      /\ f.heterogeneity = 100 * c.spread
      /\ f.level = 100 * level
      /\ f.viabilityEdge = viabilityEdge
      /\ f.ambiguity = Caused(ambiguity, 7000, 5000)
      /\ f.fragility = Remembered(Caused(fragility, 7500, 5500), 7000, 5000)
      /\ f.pattern = 70 * c.spread + (IF c.structured THEN 0 ELSE 3000)
      /\ f.vram = 100 * c.vram
      /\ f.gpu = IF c.thermal >= 85 THEN Min({100 * c.gpu, 2500}) ELSE 100 * c.gpu
      /\ f.hardware = 100 * AtLeast(c.pressure, c.thermal)
  BY DEF Features, contradiction, edge, level
<1> HIDE DEF f, ambiguity, fragility, viabilityEdge, Caused, Remembered
<1>10. f.uncertainty \in Int /\ f.contradiction \in Int /\ f.continuity \in Int
  <2>1. 100 * c.uncertainty \in Int /\ 100 * contradiction \in Int
        /\ 100 * c.continuity \in Int
    BY <1>4, <1>5
  <2>2. QED
    <3>1. Remembered(100 * c.uncertainty, 5500, 4000) \in Int
      BY <1>3, <2>1
    <3>2. Caused(100 * contradiction, 7500, 5000) \in Int
      <4> DEFINE x == 100 * contradiction
      <4>1. x \in Int
        BY <2>1
      <4> HIDE DEF x
      <4>2. Caused(x, 7500, 5000) \in Int
        BY <1>3, <4>1
      <4>3. QED
        BY <4>2 DEF x
    <3>3. QED
      BY <1>9, <2>1, <3>1, <3>2
<1>11. f.edge \in Int /\ f.causalRisk \in Int /\ f.regularity \in Int /\ f.lawFit \in Int
  <2>1. 100 * c.gap \in Int
    BY <1>4
  <2>2. QED
    <3>1. Caused(100 * c.gap, 8500, 5500) \in Int
      BY <1>3, <2>1
    <3>2. QED
      BY <1>4, <1>5, <1>9, <3>1
<1>12. f.heterogeneity \in Int /\ f.level \in Int /\ f.viabilityEdge \in Int
  BY <1>4, <1>5, <1>8, <1>9
<1>13. f.ambiguity \in Int
  BY <1>3, <1>6, <1>9
<1>14. f.fragility \in Int
  <2>1. Caused(fragility, 7500, 5500) \in Int
    BY <1>3, <1>7
  <2>2. QED
    BY <1>3, <1>9, <2>1
<1>15. f.pattern \in Int /\ f.vram \in Int
  BY <1>4, <1>9
<1>16. f.gpu \in Int
  <2> DEFINE g == 100 * c.gpu
  <2>1. g \in Int /\ f.gpu = IF c.thermal >= 85 THEN Min({g, 2500}) ELSE g
    BY <1>4, <1>9
  <2> HIDE DEF g
  <2>2. Min({g, 2500}) \in {g, 2500}
    <3>1. ASSUME NEW x \in Int PROVE Min({x, 2500}) \in {x, 2500}
      BY MinOfTwo
    <3>2. QED
      BY <2>1, <3>1
  <2>3. QED
    BY <2>1, <2>2
<1>17. f.hardware \in Int
  <2>1. AtLeast(c.pressure, c.thermal) \in Int
    BY <1>1, <1>4
  <2>2. QED
    BY <1>9, <2>1
<1>18. QED
  BY <1>10, <1>11, <1>12, <1>13, <1>14, <1>15, <1>16, <1>17 DEF Numbers, f

\* And the scores of the families.
LEMMA ScoresAreWhole ==
  ASSUME NEW c \in Context, NEW family, NEW label
  PROVE  Score(family, Features(c), label) \in Int
<1> DEFINE f == Features(c)
<1>1. \A n \in Numbers : f[n] \in Int
  BY FeaturesAreWhole
<1> HIDE DEF f
<1>2. /\ f.uncertainty \in Int /\ f.contradiction \in Int /\ f.continuity \in Int
      /\ f.edge \in Int /\ f.causalRisk \in Int /\ f.regularity \in Int
      /\ f.lawFit \in Int /\ f.heterogeneity \in Int /\ f.level \in Int
      /\ f.viabilityEdge \in Int /\ f.ambiguity \in Int /\ f.fragility \in Int
      /\ f.pattern \in Int /\ f.hardware \in Int
  BY <1>1 DEF Numbers
<1>3. BaseScore(family, f) \in Int
  <2>1. /\ 300000 + 22 * f.ambiguity \in Int
        /\ 220000 + 30 * f.heterogeneity \in Int
        /\ 220000 + 30 * f.causalRisk \in Int
        /\ 200000 + 32 * f.causalRisk \in Int
        /\ 180000 + 20 * (10000 - f.continuity) \in Int
        /\ 250000 + 25 * f.uncertainty \in Int
        /\ 120000 + 30 * f.edge \in Int
        /\ 100000 + 30 * f.contradiction \in Int
        /\ 100000 + 30 * f.fragility \in Int
        /\ 80000 + 32 * f.pattern \in Int
        /\ 80000 + 30 * f.regularity + 22 * f.lawFit \in Int
        /\ 80000 + 24 * f.ambiguity + 24 * f.contradiction + 18 * f.viabilityEdge \in Int
        /\ 100000 + 30 * f.viabilityEdge + 12 * f.level \in Int
        /\ 100000 + 28 * f.causalRisk + 12 * f.viabilityEdge \in Int
        /\ 100000 \in Int
    BY <1>2
  <2>2. QED
    BY <2>1 DEF BaseScore
<1>4. ASSUME NEW p, NEW D, NEW g \in [D -> Int]
      PROVE  Adds(p, g, family) \in Int
  BY DEF Adds
<1> DEFINE
  a1 == [ana |-> 250000, cau |-> 200000, ctf |-> 200000, heur |-> 280000]
  a2 == [cau |-> 240000, ctf |-> 240000, dia_adv |-> 220000, fal_guard |-> 280000]
  a3 == [heur |-> 180000, ana |-> 140000, ind |-> 180000]
  a4 == [abd |-> 220000, ana |-> 120000, dia_adv |-> 220000]
  a5 == [fal_guard |-> 300000, dia_adv |-> 200000]
  a6 == [heur |-> 180000, ana |-> 120000, ind |-> 200000]
  a7 == [ind |-> 180000, eml_sr |-> 180000, heur |-> 80000]
  a8 == [x \in {"ind", "eml_sr", "plan", "opt", "ext_open_thinker", "heur"} |->
           IF x = "heur" THEN 10 * f.hardware ELSE 180000 + 22 * f.hardware]
  p1 == Heterogeneous(label)
  p2 == label = "viability_edge"
  p3 == label = "vram_favorable"
  p4 == f.ambiguity >= 5500
  p5 == f.fragility >= 5000
  p6 == f.pattern >= 4500
  p7 == f.gpu >= 7000
  p8 == f.hardware >= 7000
<1>5. /\ a1 \in [{"ana", "cau", "ctf", "heur"} -> Int]
      /\ a2 \in [{"cau", "ctf", "dia_adv", "fal_guard"} -> Int]
      /\ a3 \in [{"heur", "ana", "ind"} -> Int]
      /\ a4 \in [{"abd", "ana", "dia_adv"} -> Int]
      /\ a5 \in [{"fal_guard", "dia_adv"} -> Int]
      /\ a6 \in [{"heur", "ana", "ind"} -> Int]
      /\ a7 \in [{"ind", "eml_sr", "heur"} -> Int]
  OBVIOUS
<1>6. a8 \in [{"ind", "eml_sr", "plan", "opt", "ext_open_thinker", "heur"} -> Int]
  BY <1>2
<1>7. RegimeBoost(family, f, label) =
        Adds(p1, a1, family) + Adds(p2, a2, family) + Adds(p3, a3, family)
        + Adds(p4, a4, family) + Adds(p5, a5, family) + Adds(p6, a6, family)
        + Adds(p7, a7, family) - Adds(p8, a8, family)
  BY DEF RegimeBoost
<1> HIDE DEF a1, a2, a3, a4, a5, a6, a7, a8, p1, p2, p3, p4, p5, p6, p7, p8
<1>8. /\ Adds(p1, a1, family) \in Int /\ Adds(p2, a2, family) \in Int
      /\ Adds(p3, a3, family) \in Int /\ Adds(p4, a4, family) \in Int
      /\ Adds(p5, a5, family) \in Int /\ Adds(p6, a6, family) \in Int
      /\ Adds(p7, a7, family) \in Int /\ Adds(p8, a8, family) \in Int
  BY <1>4, <1>5, <1>6
<1>9. RegimeBoost(family, f, label) \in Int
  BY <1>7, <1>8
<1>10. BaseScore(family, f) + RegimeBoost(family, f, label) \in Int
  BY <1>3, <1>9
<1>11. ASSUME NEW x \in Int, NEW top \in Int PROVE Max({0, Min({top, x})}) \in Int
  <2> DEFINE m == Min({top, x})
  <2>1. m \in Int
    BY MinOfTwo
  <2> HIDE DEF m
  <2>2. Max({0, m}) \in {0, m}
    BY <2>1, MaxOfTwo
  <2>3. Max({0, m}) \in Int
    BY <2>1, <2>2
  <2>4. QED
    BY <2>3 DEF m
<1>12. Score(family, f, label) \in Int
  BY <1>10, <1>11 DEF Score
<1>13. QED
  BY <1>12 DEF f

-----------------------------------------------------------------------------
(* Validation.                                                             *)

\* Of three candidates the first that passes is taken, and the last if none does.
LEMMA FirstIsTaken ==
  ASSUME NEW proposed, NEW corrected, NEW safe, NEW floor, NEW allowed, NEW limit,
         NEW anchored
  PROVE  LET r == FirstToPass(<<proposed, corrected, safe>>, floor, allowed, limit,
                              anchored)
             Fits(s) == Passes(s, floor, allowed, limit, anchored)
         IN  /\ Fits(proposed) => r.validated = proposed
             /\ ~Fits(proposed) /\ Fits(corrected) => r.validated = corrected
             /\ ~Fits(proposed) /\ ~Fits(corrected) => r.validated = safe
             /\ r.passed <=> Fits(proposed) \/ Fits(corrected) \/ Fits(safe)
             /\ r.limit = limit
<1> DEFINE candidates == <<proposed, corrected, safe>>
           r == FirstToPass(candidates, floor, allowed, limit, anchored)
           Fits(s) == Passes(s, floor, allowed, limit, anchored)
           fine == {j \in DOMAIN candidates : Fits(candidates[j])}
           T == fine \cup {3}
           i == Min(T)
<1>1. /\ DOMAIN candidates = 1 .. 3 /\ Len(candidates) = 3
      /\ candidates[1] = proposed /\ candidates[2] = corrected /\ candidates[3] = safe
  OBVIOUS
<1> HIDE DEF candidates
<1>2. /\ r.validated = candidates[Min(fine \cup {Len(candidates)})]
      /\ r.passed <=> fine # {}
      /\ r.limit = limit
  BY DEF FirstToPass
<1>3. r.validated = candidates[i]
  BY <1>1, <1>2
<1> HIDE DEF r
<1> HIDE DEF Fits
<1>4. \A j \in 1 .. 3 : j = 1 \/ j = 2 \/ j = 3
  OBVIOUS
<1>5. /\ 1 \in fine <=> Fits(proposed)
      /\ 2 \in fine <=> Fits(corrected)
      /\ 3 \in fine <=> Fits(safe)
  BY <1>1
<1>6. fine \subseteq 1 .. 3
  BY <1>1
<1> HIDE DEF fine
<1>7. fine # {} <=> 1 \in fine \/ 2 \in fine \/ 3 \in fine
  BY <1>4, <1>6
<1>8. T \in SUBSET Nat /\ 3 \in T /\ T \subseteq 1 .. 3
  BY <1>6
<1>9. (1 \in T <=> 1 \in fine) /\ (2 \in T <=> 2 \in fine)
  OBVIOUS
<1> HIDE DEF T
<1>10. i \in T /\ \A j \in T : i <= j
  BY <1>8, MinIsLeast
<1>11. i = 1 \/ i = 2 \/ i = 3
  BY <1>4, <1>8, <1>10
<1> HIDE DEF i
<1>12. 1 \in T => i = 1
  BY <1>10, <1>11
<1>13. 1 \notin T /\ 2 \in T => i = 2
  BY <1>10, <1>11
<1>14. 1 \notin T /\ 2 \notin T => i = 3
  BY <1>10, <1>11
<1>15. /\ Fits(proposed) => r.validated = proposed
       /\ ~Fits(proposed) /\ Fits(corrected) => r.validated = corrected
       /\ ~Fits(proposed) /\ ~Fits(corrected) => r.validated = safe
  BY <1>1, <1>3, <1>5, <1>9, <1>12, <1>13, <1>14
<1>16. r.passed <=> Fits(proposed) \/ Fits(corrected) \/ Fits(safe)
  BY <1>2, <1>5, <1>7
<1>17. r.limit = limit
  BY <1>2
<1>18. QED
  BY <1>15, <1>16, <1>17 DEF r, Fits, candidates

-----------------------------------------------------------------------------
(* A composition fits its budget.                                          *)

\* A sequence has finitely many elements, no more than its length.
LEMMA SequenceIsFinite ==
  ASSUME NEW S, NEW s \in Seq(S)
  PROVE  /\ IsFiniteSet(ToSet(s)) /\ ToSet(s) \subseteq S
         /\ Cardinality(ToSet(s)) \in Nat /\ Cardinality(ToSet(s)) <= Len(s)
<1>1. Len(s) \in Nat /\ DOMAIN s = 1 .. Len(s)
  OBVIOUS
<1>2. IsFiniteSet(1 .. Len(s)) /\ Cardinality(1 .. Len(s)) = Len(s)
  BY <1>1, Initial
<1>3. s \in Surjection(1 .. Len(s), ToSet(s))
  <2>1. s \in [1 .. Len(s) -> ToSet(s)]
    BY <1>1 DEF ToSet
  <2>2. \A x \in ToSet(s) : \E k \in 1 .. Len(s) : s[k] = x
    BY <1>1 DEF ToSet
  <2>3. QED
    BY <2>1, <2>2 DEF Surjection
<1>4. IsFiniteSet(ToSet(s)) /\ Cardinality(ToSet(s)) <= Cardinality(1 .. Len(s))
  BY <1>2, <1>3, FS_Surjection
<1>5. Cardinality(ToSet(s)) \in Nat
  BY <1>4, FS_CardinalityType
<1>6. ToSet(s) \subseteq S
  BY DEF ToSet
<1>7. QED
  BY <1>2, <1>4, <1>5, <1>6

\* The families of two sequences are those of the one that joins them.
LEMMA BothAreThere ==
  ASSUME NEW S, NEW s \in Seq(S), NEW t \in Seq(S)
  PROVE  ToSet(s \o t) = ToSet(s) \cup ToSet(t)
<1> DEFINE u == s \o t
<1>1. /\ DOMAIN s = 1 .. Len(s) /\ DOMAIN t = 1 .. Len(t)
      /\ Len(s) \in Nat /\ Len(t) \in Nat
      /\ DOMAIN u = 1 .. Len(s) + Len(t)
      /\ \A i \in 1 .. Len(s) + Len(t) :
           u[i] = IF i <= Len(s) THEN s[i] ELSE t[i - Len(s)]
  OBVIOUS
<1> HIDE DEF u
<1>2. ASSUME NEW i \in DOMAIN u PROVE u[i] \in ToSet(s) \cup ToSet(t)
  <2>1. CASE i <= Len(s)
    <3>1. i \in DOMAIN s /\ u[i] = s[i]
      BY <1>1, <2>1
    <3>2. QED
      BY <3>1 DEF ToSet
  <2>2. CASE ~(i <= Len(s))
    <3>1. i - Len(s) \in DOMAIN t /\ u[i] = t[i - Len(s)]
      BY <1>1, <2>2
    <3>2. QED
      BY <3>1 DEF ToSet
  <2>3. QED
    BY <2>1, <2>2
<1>3. ASSUME NEW i \in DOMAIN s PROVE s[i] \in ToSet(u)
  <2>1. i \in DOMAIN u /\ u[i] = s[i]
    BY <1>1
  <2>2. QED
    BY <2>1 DEF ToSet
<1>4. ASSUME NEW i \in DOMAIN t PROVE t[i] \in ToSet(u)
  <2>1. i + Len(s) \in DOMAIN u /\ u[i + Len(s)] = t[i]
    BY <1>1
  <2>2. QED
    BY <2>1 DEF ToSet
<1>5. QED
  BY <1>2, <1>3, <1>4 DEF ToSet, u

\* Only leaves out nothing of what it is to take.
LEMMA OnlyHas ==
  ASSUME NEW S, NEW s \in Seq(S), NEW K
  PROVE  /\ ToSet(Only(s, K)) = ToSet(s) \cap K
         /\ Len(Only(s, K)) = Cardinality(PlacesKept(s, K))
<1> DEFINE at == PlacesOf(s, K)
           t == Only(s, K)
<1>1. /\ t \in Seq(S) /\ DOMAIN t = DOMAIN at
      /\ \A n \in DOMAIN t : at[n] \in DOMAIN s /\ t[n] = s[at[n]] /\ t[n] \in K
  BY OnlyIs
<1>2. \A i \in PlacesKept(s, K) : \E n \in DOMAIN at : at[n] = i
  BY PlacesAscend
<1>3. /\ DOMAIN at = 1 .. Cardinality(PlacesKept(s, K))
      /\ Cardinality(PlacesKept(s, K)) \in Nat
  <2>1. DOMAIN s = 1 .. Len(s) /\ Len(s) \in Nat
    OBVIOUS
  <2>2. IsFiniteSet(PlacesKept(s, K))
    BY <2>1, Initial, FS_Subset DEF PlacesKept
  <2>3. QED
    BY <2>2, FS_CardinalityType DEF PlacesOf, Ordered
<1> HIDE DEF at, t
<1>4. ASSUME NEW x \in ToSet(t) PROVE x \in ToSet(s) \cap K
  BY <1>1 DEF ToSet
<1>5. ASSUME NEW x \in ToSet(s) \cap K PROVE x \in ToSet(t)
  <2>1. PICK i \in DOMAIN s : s[i] = x
    BY DEF ToSet
  <2>2. PICK n \in DOMAIN at : at[n] = i
    BY <1>2, <2>1 DEF PlacesKept
  <2>3. n \in DOMAIN t /\ t[n] = x
    BY <1>1, <2>1, <2>2
  <2>4. QED
    BY <2>3 DEF ToSet
<1>6. Len(t) = Cardinality(PlacesKept(s, K))
  BY <1>1, <1>3
<1>7. QED
  BY <1>4, <1>5, <1>6 DEF t

\* The core whole, and of the overlays those of K, once each.
Holds(s, K) ==
  /\ Whole(s)
  /\ ToSet(s) = ToSet(Core) \cup K
  /\ IsFiniteSet(K) /\ Len(s) = 6 + Cardinality(K)

\* One more overlay inserted, and the sequence holds it too.
LEMMA HoldsOneMore ==
  ASSUME NEW s, NEW K, Holds(s, K), NEW f \in Overlays, f \notin K
  PROVE  Holds(InsertOverlay(s, f), K \cup {f})
<1> DEFINE p == Place(s, Anchor(s, f))
           t == InsertAt(s, p + 1, f)
<1>1. Whole(s) /\ s \in Seq(Families) /\ Len(s) = 6 + Cardinality(K)
  BY DEF Holds, Whole
<1>2. p \in 1 .. Len(s) /\ InsertOverlay(s, f) = t /\ Whole(t)
  BY <1>1, InsertOverlayIs
<1>3. f \in Families
  BY OverlaysAre
<1> HIDE DEF p
<1>4. Len(t) = Len(s) + 1
  BY <1>1, <1>2, <1>3, Inserted
<1>5. ToSet(t) = ToSet(s) \cup {f}
  BY <1>1, <1>2, <1>3, InsertedFrom
<1> HIDE DEF t
<1>6. IsFiniteSet(K \cup {f}) /\ Cardinality(K \cup {f}) = Cardinality(K) + 1
  BY FS_AddElement DEF Holds
<1>7. Cardinality(K) \in Nat
  BY FS_CardinalityType DEF Holds
<1>8. ToSet(t) = ToSet(Core) \cup (K \cup {f})
  BY <1>5 DEF Holds
<1>9. Len(t) = 6 + Cardinality(K \cup {f})
  BY <1>1, <1>4, <1>6, <1>7
<1>10. QED
  BY <1>2, <1>6, <1>8, <1>9 DEF Holds

\* A composition has the overlays asked for that it knows a place for.
LEMMA ComposedHolds ==
  ASSUME NEW overlays
  PROVE  Holds(Composed(overlays), overlays \cap Overlays)
<1>1. PICK b : /\ b[0] = Core
               /\ \A n \in 1 .. 8 : b[n] = With(b[n - 1], InsertionOrder[n], overlays)
               /\ Composed(overlays) = b[8]
  BY ComposedBySteps
<1> DEFINE First(n) == {InsertionOrder[i] : i \in 1 .. n}
           I(n) == Holds(b[n], overlays \cap First(n))
<1>2. \A i, j \in 1 .. 8 : InsertionOrder[i] = InsertionOrder[j] => i = j
  BY DEF InsertionOrder
<1>3. ASSUME NEW n \in 1 .. 8, I(n - 1) PROVE I(n)
  <2> DEFINE f == InsertionOrder[n]
  <2>1. f \in Overlays
    BY DEF Overlays, ToSet, InsertionOrder
  <2>2. \A i \in 1 .. n : i = n \/ i \in 1 .. n - 1
    OBVIOUS
  <2>3. \A i \in 1 .. n - 1 : i \in 1 .. n /\ i \in 1 .. 8 /\ i # n
    OBVIOUS
  <2>4. n \in 1 .. n
    OBVIOUS
  <2>5. First(n) = First(n - 1) \cup {f}
    BY <2>2, <2>3, <2>4
  <2>6. f \notin First(n - 1)
    BY <1>2, <2>3
  <2>7. b[n] = With(b[n - 1], f, overlays)
    BY <1>1
  <2> HIDE DEF f, First
  <2>8. CASE f \in overlays
    <3>1. overlays \cap First(n) = (overlays \cap First(n - 1)) \cup {f}
      BY <2>5, <2>8
    <3>2. Holds(InsertOverlay(b[n - 1], f), (overlays \cap First(n - 1)) \cup {f})
      BY <1>3, <2>1, <2>6, HoldsOneMore
    <3>3. QED
      BY <2>7, <2>8, <3>1, <3>2 DEF With
  <2>9. CASE f \notin overlays
    <3>1. overlays \cap First(n) = overlays \cap First(n - 1)
      BY <2>5, <2>9
    <3>2. QED
      BY <1>3, <2>7, <2>9, <3>1 DEF With
  <2>10. QED
    BY <2>8, <2>9
<1>4. I(0)
  <2>1. First(0) = {}
    OBVIOUS
  <2>2. overlays \cap First(0) = {}
    BY <2>1
  <2>3. IsFiniteSet({}) /\ Cardinality({}) = 0
    BY FS_EmptySet
  <2>4. Holds(Core, {})
    BY <2>3, CoreIs, CoreIsWhole DEF Holds
  <2> HIDE DEF First
  <2>5. QED
    BY <1>1, <2>2, <2>4
<1>5. First(8) = Overlays
  BY DEF Overlays, ToSet, InsertionOrder
<1> HIDE DEF I
<1>6. I(1)
  BY <1>3, <1>4
<1>7. I(2)
  BY <1>3, <1>6
<1>8. I(3)
  BY <1>3, <1>7
<1>9. I(4)
  BY <1>3, <1>8
<1>10. I(5)
  BY <1>3, <1>9
<1>11. I(6)
  BY <1>3, <1>10
<1>12. I(7)
  BY <1>3, <1>11
<1>13. I(8)
  BY <1>3, <1>12
<1>14. QED
  BY <1>1, <1>5, <1>13 DEF I

\* The overlays give way until the sequence fits; only an external reasoner has
\* no turn to, and is one step too many where there is room for the core alone.
LEMMA ComposedFits ==
  ASSUME NEW c \in Context, NEW overlays \in SUBSET Families, IsFiniteSet(overlays),
         NEW limit \in Int, limit >= 6, NEW defaults, NEW label
  PROVE  \E X \in SUBSET overlays :
           LET s == ComposeCoreProtected(overlays, limit, defaults, Features(c), label)
           IN  /\ s = Composed(X)
               /\ Len(s) <= limit \/ (limit = 6 /\ "ext_open_thinker" \in overlays)
<1> DEFINE f == Features(c)
           shadows == Only(Shadows \o Deliberatives, overlays)
           others == Expendable((overlays \cap Augmenters) \ defaults, f, label)
           own == Expendable(overlays \cap defaults, f, label)
           drops == DropPriority(overlays, defaults, f, label)
           Left(n) == overlays \ ToSet(SubSeq(drops, 1, n))
           enough == {n \in 0 .. Len(drops) :
                        n = Len(drops) \/ Len(Core) + Cardinality(Left(n)) <= limit}
           s == ComposeCoreProtected(overlays, limit, defaults, f, label)
<1>1. ASSUME NEW F \in SUBSET overlays
      PROVE  /\ Expendable(F, f, label) \in Seq(Families)
             /\ ToSet(Expendable(F, f, label)) = F
  <2>1. F \in SUBSET Families /\ IsFiniteSet(F)
    BY FS_Subset
  <2>2. Expendable(F, f, label) \in Seq(F) /\ ToSet(Expendable(F, f, label)) = F
    BY <2>1, ExpendableIsAll, ScoresAreWhole
  <2>3. \A q \in Seq(F) : q \in Seq(Families)
    BY <2>1
  <2>4. QED
    BY <2>2, <2>3
<1>2. own \in Seq(Families) /\ ToSet(own) = overlays \cap defaults
  BY <1>1
<1>3. others \in Seq(Families) /\ ToSet(others) = (overlays \cap Augmenters) \ defaults
  BY <1>1
<1>4. /\ shadows \in Seq(Families)
      /\ ToSet(shadows) = {"ind", "eml_sr", "plan", "opt"} \cap overlays
  <2>1. /\ Shadows \o Deliberatives \in Seq(Families)
        /\ ToSet(Shadows \o Deliberatives) = {"ind", "eml_sr", "plan", "opt"}
    BY DEF Shadows, Deliberatives, Families, ByName, ToSet
  <2>2. QED
    BY <2>1, OnlyIs, OnlyHas
<1>5. drops = (shadows \o others) \o own
  BY DEF DropPriority
<1> HIDE DEF shadows, others, own, drops
<1>6. /\ drops \in Seq(Families)
      /\ ToSet(drops) = (ToSet(shadows) \cup ToSet(others)) \cup ToSet(own)
  <2> DEFINE h == shadows \o others
  <2>1. h \in Seq(Families) /\ ToSet(h) = ToSet(shadows) \cup ToSet(others)
    BY <1>3, <1>4, BothAreThere
  <2>2. drops = h \o own
    BY <1>5
  <2> HIDE DEF h
  <2>3. drops \in Seq(Families) /\ ToSet(drops) = ToSet(h) \cup ToSet(own)
    BY <1>2, <2>1, <2>2, BothAreThere
  <2>4. QED
    BY <2>1, <2>3
<1>7. enough \in SUBSET Nat /\ enough # {}
  <2>1. Len(drops) \in Nat
    BY <1>6
  <2>2. Len(drops) \in enough
    BY <2>1
  <2>3. QED
    BY <2>1, <2>2
<1>8. PICK n \in enough : Retained(overlays, limit, defaults, f, label) = Left(n)
  <2>1. Min(enough) \in enough
    BY <1>7, MinIsLeast
  <2>2. Retained(overlays, limit, defaults, f, label) = Left(Min(enough))
    BY DEF Retained, Trimmed, drops
  <2>3. QED
    BY <2>1, <2>2
<1>9. \A X : Holds(Composed(X), X \cap Overlays)
  BY ComposedHolds
<1>10. CASE Len(Composed(overlays)) > limit
  <2> DEFINE X == Left(n)
             K == X \cap Overlays
  <2>1. s = Composed(X)
    BY <1>8, <1>10 DEF ComposeCoreProtected
  <2>2. X \in SUBSET overlays /\ IsFiniteSet(X) /\ Cardinality(X) \in Nat
    <3>1. X \in SUBSET overlays
      OBVIOUS
    <3> HIDE DEF X
    <3>2. IsFiniteSet(X)
      BY <3>1, FS_Subset
    <3>3. QED
      BY <3>1, <3>2, FS_CardinalityType
  <2>3. n = Len(drops) \/ Len(Core) + Cardinality(X) <= limit
    OBVIOUS
  <2>4. n = Len(drops) => X = overlays \ ToSet(drops)
    <3>1. SubSeq(drops, 1, Len(drops)) = drops
      BY <1>6
    <3>2. QED
      BY <3>1
  <2> HIDE DEF X, s
  <2> DEFINE Fits == Len(s) <= limit \/ (limit = 6 /\ "ext_open_thinker" \in overlays)
  <2>5. Len(s) = 6 + Cardinality(K) /\ IsFiniteSet(K)
    BY <1>9, <2>1 DEF Holds
  <2>6. ASSUME n = Len(drops) PROVE Fits
    <3>1. X = overlays \ ToSet(drops)
      BY <2>4, <2>6
    <3>2. K \subseteq {"ext_open_thinker"} /\ K \subseteq overlays
      BY <1>2, <1>3, <1>4, <1>6, <3>1, OverlaysAre DEF Augmenters
    <3>3. K = {} \/ K = {"ext_open_thinker"}
      BY <3>2
    <3> HIDE DEF K
    <3>4. ASSUME K = {} PROVE Fits
      <4>1. Len(s) = 6
        BY <2>5, <3>4, FS_EmptySet
      <4>2. QED
        BY <4>1
    <3>5. ASSUME K = {"ext_open_thinker"} PROVE Fits
      <4>1. Cardinality(K) = 1
        BY <3>5, FS_Singleton
      <4>2. Len(s) = 7
        BY <2>5, <4>1
      <4>3. "ext_open_thinker" \in overlays
        BY <3>2, <3>5
      <4>4. QED
        BY <4>2, <4>3
    <3>6. QED
      BY <3>3, <3>4, <3>5
  <2>7. ASSUME Len(Core) + Cardinality(X) <= limit PROVE Fits
    <3>1. Cardinality(K) <= Cardinality(X) /\ Cardinality(K) \in Nat
      BY <2>2, <2>5, FS_Subset, FS_CardinalityType
    <3> HIDE DEF K
    <3>2. Len(s) <= limit
      BY <2>2, <2>5, <2>7, <3>1, CoreIs
    <3>3. QED
      BY <3>2
  <2>8. Fits
    BY <2>3, <2>6, <2>7
  <2>9. QED
    BY <2>1, <2>2, <2>8 DEF s
<1>11. CASE ~(Len(Composed(overlays)) > limit)
  <2>1. s = Composed(overlays)
    BY <1>11 DEF ComposeCoreProtected
  <2>2. Len(Composed(overlays)) \in Nat
    BY ComposedIsWhole DEF Whole
  <2> HIDE DEF s
  <2>3. Len(s) <= limit
    BY <1>11, <2>1, <2>2
  <2>4. QED
    BY <2>1, <2>3 DEF s
<1>12. QED
  BY <1>10, <1>11

-----------------------------------------------------------------------------
(* What passes: the composition that fits, and the fallback.               *)

\* Where both places exist, the order of all places is that of the first ones.
LEMMA PrecedeIsBefore ==
  ASSUME NEW S, NEW s \in Seq(S), NEW a, NEW b, Precede(s, a, b)
  PROVE  Before(s, a, b)
<1>1. ASSUME Contains(s, a), Contains(s, b) PROVE Place(s, a) < Place(s, b)
  <2>1. Place(s, a) \in 1 .. Len(s) /\ s[Place(s, a)] = a
    BY <1>1, PlaceIsThere
  <2>2. Place(s, b) \in 1 .. Len(s) /\ s[Place(s, b)] = b
    BY <1>1, PlaceIsThere
  <2>3. QED
    BY <2>1, <2>2 DEF Precede
<1>2. QED
  BY <1>1 DEF Before

\* Every floor is a part of the core.
LEMMA FloorIsCore ==
  ASSUME NEW label
  PROVE  MandatoryFloor(label) \subseteq ToSet(Core)
BY CoreIs DEF MandatoryFloor

\* A sequence with the core whole passes if it is allowed, not too long, and
\* has its overlays where they belong or nobody asks.
LEMMA WholePasses ==
  ASSUME NEW s, Whole(s), NEW floor \in SUBSET ToSet(Core), NEW allowed,
         ToSet(s) \subseteq allowed, NEW limit \in Int, Len(s) <= limit, Len(s) >= 6,
         NEW anchored,
         anchored =>
           \A g \in ToSet(s) \cap ToSet(InsertionOrder) :
             Before(s, Between(s, g)[1], g) /\ Before(s, g, Between(s, g)[2])
  PROVE  Passes(s, floor, allowed, limit, anchored)
<1>1. /\ s \in Seq(Families) /\ InOrder(s) /\ ToSet(Core) \subseteq ToSet(s)
      /\ Last(s) = "prob"
  BY DEF Whole
<1>2. floor \cup ToSet(Core) \subseteq ToSet(s)
  BY <1>1
<1>3. Len(s) \in Len(Core) .. limit
  BY <1>1, CoreIs
<1>4. ASSUME NEW i \in 1 .. Len(Core), NEW j \in 1 .. Len(Core), i < j
      PROVE  Before(s, Core[i], Core[j])
  <2>1. Precede(s, Core[i], Core[j])
    BY <1>1, <1>4, CoreIs DEF InOrder, Precede
  <2>2. QED
    BY <1>1, <2>1, PrecedeIsBefore
<1>5. PartialOrder(s, anchored)
  BY <1>4 DEF PartialOrder
<1>6. QED
  BY <1>1, <1>2, <1>3, <1>5 DEF Passes

\* Safe overlays are where they belong.
LEMMA SettledPasses ==
  ASSUME NEW s, NEW K \in SUBSET Safe, Settled(s, K), NEW floor \in SUBSET ToSet(Core),
         NEW allowed, ToSet(Core) \subseteq allowed, K \subseteq allowed,
         NEW limit \in Int, Len(s) <= limit, NEW anchored
  PROVE  Passes(s, floor, allowed, limit, anchored)
<1>1. /\ Whole(s) /\ s \in Seq(Families)
      /\ ToSet(s) = ToSet(Core) \cup K
      /\ IsFiniteSet(K) /\ Len(s) = 6 + Cardinality(K)
  BY DEF Settled, Whole
<1>2. ToSet(s) \subseteq allowed
  BY <1>1
<1>3. Len(s) >= 6
  <2>1. Cardinality(K) \in Nat
    BY <1>1, FS_CardinalityType
  <2>2. QED
    BY <1>1, <2>1
<1>4. ASSUME NEW g \in ToSet(s) \cap ToSet(InsertionOrder)
      PROVE  Before(s, Between(s, g)[1], g) /\ Before(s, g, Between(s, g)[2])
  <2>1. g \in K
    BY <1>1, OverlaysAre DEF Overlays
  <2>2. Between(s, g) = <<Core[After(g)], Core[After(g) + 1]>>
    <3>1. g = "heur" \/ g = "eml_sr" \/ g = "fal_guard"
      BY <2>1 DEF Safe
    <3>2. CASE g = "heur"
      BY <3>2, CoreIs DEF Between, After
    <3>3. CASE g = "eml_sr"
      BY <3>3, CoreIs DEF Between, After
    <3>4. CASE g = "fal_guard"
      BY <3>4, CoreIs DEF Between, After
    <3>5. QED
      BY <3>1, <3>2, <3>3, <3>4
  <2>3. Precede(s, Core[After(g)], g) /\ Precede(s, g, Core[After(g) + 1])
    BY <2>1 DEF Settled
  <2>4. Before(s, Core[After(g)], g) /\ Before(s, g, Core[After(g) + 1])
    BY <1>1, <2>3, PrecedeIsBefore
  <2>5. QED
    BY <2>2, <2>4
<1>5. QED
  BY <1>1, <1>2, <1>3, <1>4, WholePasses

\* Safe overlays give way until the sequence fits, or none is left.
LEMMA SafeFits ==
  ASSUME NEW c \in Context, NEW overlays \in SUBSET Safe, NEW limit \in Int, limit >= 6,
         NEW label
  PROVE  \E K \in SUBSET overlays :
           LET s == ComposeCoreProtected(overlays, limit, overlays, Features(c), label)
           IN  Settled(s, K) /\ Len(s) <= limit
<1> DEFINE s == ComposeCoreProtected(overlays, limit, overlays, Features(c), label)
<1>1. overlays \subseteq Families /\ IsFiniteSet(overlays)
  <2>1. Safe \subseteq Families
    BY SafeAre, OverlaysAre
  <2>2. Settled(Composed(overlays), overlays)
    BY SafeIsSettled
  <2>3. QED
    BY <2>1, <2>2 DEF Settled
<1>2. PICK K \in SUBSET overlays :
        /\ s = Composed(K)
        /\ Len(s) <= limit \/ (limit = 6 /\ "ext_open_thinker" \in overlays)
  BY <1>1, ComposedFits
<1> HIDE DEF s
<1>3. "ext_open_thinker" \notin overlays
  BY DEF Safe
<1>4. Settled(Composed(K), K)
  BY SafeIsSettled
<1>5. QED
  BY <1>2, <1>3, <1>4 DEF s

\* The regime's safe sequence passes, whatever is asked and allowed.
LEMMA FallbackPasses ==
  ASSUME NEW c \in Context, NEW labels, NEW allowed, ToSet(Core) \subseteq allowed,
         NEW limit \in Int, limit >= 6, NEW experimental, NEW anchored, NEW label
  PROVE  LET s == FallbackSequence(labels, allowed, limit, experimental, Features(c))
         IN  /\ Whole(s)
             /\ Passes(s, MandatoryFloor(label), allowed, limit, anchored)
             /\ limit = 6 => ToSet(s) = ToSet(Core)
<1> DEFINE f == Features(c)
           profile == Profiles[SafeFallback(labels.floor)]
           overlays == (ToSet(profile.optional)
                        \cup (IF labels.primary = "vram_favorable" THEN {"heur"} ELSE {})
                        \cup (IF EmlWorthwhile(f, experimental) THEN {"eml_sr"} ELSE {}))
                       \cap allowed
           s == FallbackSequence(labels, allowed, limit, experimental, f)
<1>1. ToSet(profile.optional) \subseteq Safe
  <2>1. SafeFallback(labels.floor) \in {"core_plus_heur", "core_plus_guard", "core_only"}
    BY DEF SafeFallback
  <2>2. /\ Profiles["core_plus_heur"].optional = <<"heur">>
        /\ Profiles["core_plus_guard"].optional = <<"fal_guard">>
        /\ Profiles["core_only"].optional = <<>>
    BY DEF Profiles, Fixed
  <2>3. profile.optional \in {<<"heur">>, <<"fal_guard">>, <<>>}
    BY <2>1, <2>2
  <2>4. QED
    BY <2>3 DEF ToSet, Safe
<1>2. overlays \in SUBSET Safe /\ overlays \subseteq allowed
  BY <1>1 DEF Safe
<1>3. s = ComposeCoreProtected(overlays, limit, overlays, f, labels.primary)
  BY DEF FallbackSequence
<1> HIDE DEF overlays, s
<1>4. PICK K \in SUBSET overlays : Settled(s, K) /\ Len(s) <= limit
  BY <1>2, <1>3, SafeFits
<1>5. Passes(s, MandatoryFloor(label), allowed, limit, anchored)
  <2>1. K \in SUBSET Safe /\ K \subseteq allowed
    BY <1>2
  <2>2. QED
    BY <1>4, <2>1, FloorIsCore, SettledPasses
<1>6. ASSUME limit = 6 PROVE ToSet(s) = ToSet(Core)
  <2>1. ToSet(s) = ToSet(Core) \cup K /\ IsFiniteSet(K) /\ Len(s) = 6 + Cardinality(K)
    BY <1>4 DEF Settled
  <2>2. Cardinality(K) \in Nat
    BY <2>1, FS_CardinalityType
  <2>3. Cardinality(K) = 0
    BY <1>4, <1>6, <2>1, <2>2
  <2>4. K = {}
    BY <2>1, <2>3, FS_EmptySet
  <2>5. QED
    BY <2>1, <2>4
<1>7. QED
  BY <1>4, <1>5, <1>6 DEF Settled, s

-----------------------------------------------------------------------------
(* What the profiles propose.                                              *)

\* The families outside the core.
Optionals == Families \ ToSet(Core)

\* What may be proposed: families, and those of the core in order.
Tidy(s) == s \in Seq(Families) /\ InOrder(s)

\* An optional family is none of the six.
LEMMA OptionalIs ==
  /\ Optionals \subseteq Families
  /\ \A x \in Optionals : \A i \in 1 .. 6 : x # Core[i]
BY CoreIs DEF Optionals, ToSet

\* Profiles propose no family of the core.
LEMMA ProfilesPropose ==
  ASSUME NEW p \in DOMAIN Profiles
  PROVE  Profiles[p].optional \in Seq(Optionals)
<1>1. {"heur", "dia_adv", "fal_guard", "ext_open_thinker", "eml_sr", "ind", "plan",
       "opt", "nesy", "evo_search", "imagination", "a12"} \subseteq Optionals
  BY CoreIs DEF Optionals, Families, ByName, ToSet
<1> DEFINE O == Seq(Optionals)
<1>2. /\ <<>> \in O /\ <<"heur">> \in O /\ <<"dia_adv">> \in O /\ <<"fal_guard">> \in O
      /\ <<"heur", "fal_guard">> \in O /\ <<"heur", "dia_adv">> \in O
      /\ <<"fal_guard", "dia_adv">> \in O /\ <<"heur", "dia_adv", "fal_guard">> \in O
      /\ <<"ext_open_thinker", "fal_guard">> \in O
      /\ <<"heur", "dia_adv", "fal_guard", "eml_sr">> \in O
      /\ <<"heur", "dia_adv", "fal_guard", "ind", "eml_sr">> \in O
      /\ <<"heur", "dia_adv", "fal_guard", "ind", "eml_sr", "plan", "opt">> \in O
  BY <1>1
<1>3. /\ <<"plan", "opt">> \in O /\ <<"ind">> \in O /\ <<"plan">> \in O /\ <<"opt">> \in O
      /\ <<"heur", "dia_adv", "fal_guard", "ind", "plan", "opt", "eml_sr", "nesy",
           "evo_search">> \in O
      /\ <<"imagination">> \in O /\ <<"a12">> \in O /\ <<"imagination", "a12">> \in O
  BY <1>1
<1> HIDE DEF O
<1>4. Profiles[p].optional \in O
  <2>1. p \in {"core_only", "core_plus_heur", "core_plus_dialectic",
             "core_plus_guard", "core_plus_heur_guard", "core_plus_heur_dialectic",
             "core_plus_guard_dialectic", "core_plus_triple_optional",
             "core_plus_external_reasoner_gated_v1", "adaptive_family_ecology",
             "adaptive_family_ecology_v2", "full_family_exploration",
             "core_plus_deliberative", "core_plus_ind", "core_plus_plan",
             "core_plus_opt", "full_family_deep_v1", "core_plus_imagination",
             "core_plus_a12", "core_plus_imagination_a12"}
    BY DEF Profiles
  <2>2. /\ Profiles["core_only"].optional \in O
        /\ Profiles["core_plus_heur"].optional \in O
        /\ Profiles["core_plus_dialectic"].optional \in O
        /\ Profiles["core_plus_guard"].optional \in O
        /\ Profiles["core_plus_heur_guard"].optional \in O
        /\ Profiles["core_plus_heur_dialectic"].optional \in O
        /\ Profiles["core_plus_guard_dialectic"].optional \in O
    BY <1>2, <1>3 DEF Profiles, Fixed, Adaptive, Deliberatives
  <2>3. /\ Profiles["core_plus_triple_optional"].optional \in O
        /\ Profiles["core_plus_external_reasoner_gated_v1"].optional \in O
        /\ Profiles["adaptive_family_ecology"].optional \in O
        /\ Profiles["adaptive_family_ecology_v2"].optional \in O
        /\ Profiles["full_family_exploration"].optional \in O
        /\ Profiles["core_plus_deliberative"].optional \in O
        /\ Profiles["core_plus_ind"].optional \in O
    BY <1>2, <1>3 DEF Profiles, Fixed, Adaptive, Deliberatives
  <2>4. /\ Profiles["core_plus_plan"].optional \in O
        /\ Profiles["core_plus_opt"].optional \in O
        /\ Profiles["full_family_deep_v1"].optional \in O
        /\ Profiles["core_plus_imagination"].optional \in O
        /\ Profiles["core_plus_a12"].optional \in O
        /\ Profiles["core_plus_imagination_a12"].optional \in O
    BY <1>2, <1>3 DEF Profiles, Fixed, Adaptive, Deliberatives
  <2>5. QED
    BY <2>1, <2>2, <2>3, <2>4
<1>5. QED
  BY <1>4 DEF O

\* Two sequences, one after the other.
LEMMA Joined ==
  ASSUME NEW S, NEW s \in Seq(S), NEW t \in Seq(S)
  PROVE  /\ s \o t \in Seq(S) /\ Len(s \o t) = Len(s) + Len(t)
         /\ Len(s) \in Nat /\ Len(t) \in Nat
         /\ \A k \in 1 .. Len(s) : (s \o t)[k] = s[k]
         /\ \A k \in Len(s) + 1 .. Len(s) + Len(t) :
              k - Len(s) \in 1 .. Len(t) /\ (s \o t)[k] = t[k - Len(s)]
OBVIOUS

\* The first of the core, and the rest.
LEMMA HeadAndTail ==
  /\ <<Head(Core)>> \in Seq(Families) /\ Len(<<Head(Core)>>) = 1
  /\ <<Head(Core)>>[1] = Core[1]
  /\ Tail(Core) \in Seq(Families) /\ Len(Tail(Core)) = 5
  /\ DOMAIN <<Head(Core)>> = 1 .. 1 /\ DOMAIN Tail(Core) = 1 .. 5
  /\ \A k \in 1 .. 5 : Tail(Core)[k] = Core[k + 1]
<1>1. Core \in Seq(Families) /\ Len(Core) = 6 /\ Core # <<>>
  <2>1. Core \in Seq(Families) /\ Len(Core) = 6
    BY CoreIs
  <2>2. QED
    BY <2>1
<1>2. Head(Core) = Core[1] /\ Core[1] \in Families
  <2>1. Core[1] \in Families
    <3>1. 1 \in 1 .. Len(Core)
      BY <1>1
    <3>2. QED
      BY <1>1, <3>1
  <2>2. Head(Core) = Core[1]
    OBVIOUS
  <2>3. QED
    BY <2>1, <2>2
<1>3. /\ Tail(Core) \in Seq(Families) /\ Len(Tail(Core)) = Len(Core) - 1
      /\ \A k \in 1 .. Len(Core) - 1 : Tail(Core)[k] = Core[k + 1]
  BY <1>1, HeadTailProperties
<1> DEFINE h == <<Head(Core)>>
           t == Tail(Core)
<1>4. h \in Seq(Families) /\ Len(h) = 1 /\ h[1] = Core[1] /\ DOMAIN h = 1 .. 1
  BY <1>2
<1>5. t \in Seq(Families) /\ Len(t) = 5 /\ \A k \in 1 .. 5 : t[k] = Core[k + 1]
  <2>1. Len(Core) - 1 = 5
    BY <1>1
  <2>2. QED
    BY <1>3, <2>1
<1> HIDE DEF h, t
<1>6. DOMAIN t = 1 .. 5
  BY <1>5
<1>7. QED
  BY <1>4, <1>5, <1>6 DEF h, t

\* Optional families between, or after, those of the core.
LEMMA FlankedIsTidy ==
  ASSUME NEW a \in Seq(Optionals), NEW b \in Seq(Optionals)
  PROVE  /\ Tidy(((<<Head(Core)>> \o a) \o Tail(Core)) \o b)
         /\ Len(((<<Head(Core)>> \o a) \o Tail(Core)) \o b) = 6 + Len(a) + Len(b)
<1> DEFINE h == <<Head(Core)>>
           u == h \o a
           t == Tail(Core)
           v == u \o t
           s == v \o b
           At(i) == IF i = 1 THEN 1 ELSE Len(a) + i
<1>1. /\ h \in Seq(Families) /\ Len(h) = 1 /\ h[1] = Core[1]
      /\ t \in Seq(Families) /\ Len(t) = 5 /\ \A k \in 1 .. 5 : t[k] = Core[k + 1]
  BY HeadAndTail
<1>2. a \in Seq(Families) /\ b \in Seq(Families)
  BY OptionalIs
<1>3. /\ Len(a) \in Nat /\ \A k \in 1 .. Len(a) : a[k] \in Optionals
      /\ Len(b) \in Nat /\ \A k \in 1 .. Len(b) : b[k] \in Optionals
  OBVIOUS
<1> HIDE DEF h, t, At
<1>4. /\ u \in Seq(Families) /\ Len(u) = 1 + Len(a)
      /\ u[1] = Core[1]
      /\ \A k \in 2 .. Len(a) + 1 : u[k] \in Optionals
  <2>1. h \in Seq(Families) /\ a \in Seq(Families)
    BY <1>1, <1>2
  <2>2. /\ u \in Seq(Families) /\ Len(u) = Len(h) + Len(a)
        /\ \A k \in 1 .. Len(h) : u[k] = h[k]
        /\ \A k \in Len(h) + 1 .. Len(h) + Len(a) :
             k - Len(h) \in 1 .. Len(a) /\ u[k] = a[k - Len(h)]
    BY <2>1, Joined
  <2> HIDE DEF u
  <2>3. ASSUME NEW k \in 2 .. Len(a) + 1 PROVE u[k] \in Optionals
    <3>1. k \in Len(h) + 1 .. Len(h) + Len(a)
      BY <1>1, <1>3
    <3>2. QED
      BY <1>3, <2>2, <3>1
  <2>4. u[1] = Core[1] /\ Len(u) = 1 + Len(a)
    BY <1>1, <1>3, <2>2
  <2>5. QED
    BY <2>2, <2>3, <2>4
<1> HIDE DEF u
<1>5. /\ v \in Seq(Families) /\ Len(v) = 6 + Len(a)
      /\ v[1] = Core[1]
      /\ \A k \in 2 .. Len(a) + 1 : v[k] \in Optionals
      /\ \A k \in Len(a) + 2 .. Len(a) + 6 : v[k] = Core[k - Len(a)]
  <2>1. u \in Seq(Families) /\ t \in Seq(Families)
    BY <1>1, <1>4
  <2>2. /\ v \in Seq(Families) /\ Len(v) = Len(u) + Len(t)
        /\ \A k \in 1 .. Len(u) : v[k] = u[k]
        /\ \A k \in Len(u) + 1 .. Len(u) + Len(t) :
             k - Len(u) \in 1 .. Len(t) /\ v[k] = t[k - Len(u)]
    BY <2>1, Joined
  <2> HIDE DEF v
  <2>3. ASSUME NEW k \in Len(a) + 2 .. Len(a) + 6 PROVE v[k] = Core[k - Len(a)]
    <3>1. k \in Len(u) + 1 .. Len(u) + Len(t) /\ (k - Len(u)) + 1 = k - Len(a)
      BY <1>1, <1>3, <1>4
    <3>2. k - Len(u) \in 1 .. 5 /\ v[k] = t[k - Len(u)]
      BY <1>1, <2>2, <3>1
    <3>3. QED
      BY <1>1, <3>1, <3>2
  <2>4. QED
    BY <1>1, <1>3, <1>4, <2>2, <2>3
<1> HIDE DEF v
<1>6. /\ s \in Seq(Families) /\ Len(s) = 6 + Len(a) + Len(b)
      /\ \A k \in 1 .. Len(a) + 6 : s[k] = v[k]
      /\ \A k \in Len(a) + 7 .. Len(s) : s[k] \in Optionals
  <2>1. v \in Seq(Families) /\ b \in Seq(Families)
    BY <1>2, <1>5
  <2>2. /\ s \in Seq(Families) /\ Len(s) = Len(v) + Len(b)
        /\ \A k \in 1 .. Len(v) : s[k] = v[k]
        /\ \A k \in Len(v) + 1 .. Len(v) + Len(b) :
             k - Len(v) \in 1 .. Len(b) /\ s[k] = b[k - Len(v)]
    BY <2>1, Joined
  <2> HIDE DEF s
  <2>3. QED
    BY <1>3, <1>5, <2>2
<1> HIDE DEF s
<1>7. ASSUME NEW k \in DOMAIN s, NEW i \in 1 .. 6, s[k] = Core[i] PROVE k = At(i)
  <2>1. s[k] \notin Optionals
    BY <1>7, OptionalIs
  <2>2. k = 1 \/ k \in Len(a) + 2 .. Len(a) + 6
    <3>1. k \in 1 .. Len(s)
      BY <1>6
    <3>2. ~(k \in Len(a) + 7 .. Len(s))
      BY <1>6, <2>1
    <3>3. k \in 1 .. Len(a) + 6
      BY <1>3, <1>6, <3>1, <3>2
    <3>4. ~(k \in 2 .. Len(a) + 1)
      BY <1>5, <1>6, <2>1, <3>3
    <3>5. QED
      BY <1>3, <3>3, <3>4
  <2>3. CASE k = 1
    <3>1. s[k] = Core[1]
      BY <1>3, <1>5, <1>6, <2>3
    <3>2. i = 1
      <4>1. Core[i] = Core[1]
        BY <1>7, <3>1
      <4>2. QED
        BY <4>1, CoreIsOnce
    <3>3. QED
      BY <2>3, <3>2 DEF At
  <2>4. CASE k \in Len(a) + 2 .. Len(a) + 6
    <3>1. k \in 1 .. Len(a) + 6 /\ k - Len(a) \in 2 .. 6 /\ k - Len(a) \in 1 .. 6
      BY <1>3, <2>4
    <3>2. s[k] = Core[k - Len(a)]
      BY <1>5, <1>6, <2>4, <3>1
    <3>3. i = k - Len(a)
      BY <1>7, <3>1, <3>2, CoreIsOnce
    <3>4. QED
      BY <1>3, <3>1, <3>3 DEF At
  <2>5. QED
    BY <2>2, <2>3, <2>4
<1>8. InOrder(s)
  <2>1. SUFFICES ASSUME NEW k \in DOMAIN s, NEW l \in DOMAIN s,
                        NEW i \in 1 .. 6, NEW j \in 1 .. 6, s[k] = Core[i], s[l] = Core[j]
                 PROVE  k < l <=> i < j
    BY DEF InOrder
  <2>2. k = At(i) /\ l = At(j)
    BY <1>7, <2>1
  <2>3. QED
    BY <1>3, <2>2 DEF At
<1>9. QED
  BY <1>6, <1>8 DEF Tidy, s, v, u, h, t

\* A beginning keeps the order.
LEMMA BeginningIsTidy ==
  ASSUME NEW s, Tidy(s), NEW n \in 0 .. Len(s)
  PROVE  /\ Tidy(SubSeq(s, 1, n)) /\ Len(SubSeq(s, 1, n)) = n
         /\ \A k \in 1 .. n : SubSeq(s, 1, n)[k] = s[k]
<1> DEFINE t == SubSeq(s, 1, n)
<1>1. s \in Seq(Families) /\ InOrder(s)
  BY DEF Tidy
<1>2. t \in Seq(Families) /\ Len(t) = n /\ \A k \in 1 .. n : t[k] = s[k]
  BY <1>1
<1> HIDE DEF t
<1>3. \A k \in DOMAIN t : k \in DOMAIN s /\ t[k] = s[k]
  BY <1>1, <1>2
<1>4. InOrder(t)
  BY <1>1, <1>3 DEF InOrder
<1>5. QED
  BY <1>2, <1>4 DEF Tidy, t

\* What has no prob may end in it.
LEMMA EndsTidy ==
  ASSUME NEW s, Tidy(s), \A k \in DOMAIN s : s[k] # "prob"
  PROVE  Tidy(Append(s, "prob"))
<1> DEFINE t == Append(s, "prob")
<1>1. s \in Seq(Families) /\ InOrder(s)
  BY DEF Tidy
<1>2. "prob" \in Families /\ Core[6] = "prob"
  BY DEF Families, ByName, ToSet, Core
<1>3. /\ t \in Seq(Families) /\ DOMAIN t = 1 .. Len(s) + 1
      /\ \A k \in DOMAIN s : t[k] = s[k]
      /\ t[Len(s) + 1] = "prob"
  BY <1>1, <1>2
<1> HIDE DEF t
<1>4. ASSUME NEW k \in DOMAIN t, NEW i \in 1 .. 6, t[k] = Core[i]
      PROVE  \/ k \in DOMAIN s /\ s[k] = Core[i] /\ i # 6
             \/ k = Len(s) + 1 /\ i = 6
  <2>1. CASE k = Len(s) + 1
    BY <1>2, <1>3, <1>4, <2>1, CoreIsOnce
  <2>2. CASE k # Len(s) + 1
    <3>1. k \in DOMAIN s
      BY <1>1, <1>3, <2>2
    <3>2. QED
      BY <1>2, <1>3, <1>4, <3>1
  <2>3. QED
    BY <2>1, <2>2
<1>5. InOrder(t)
  <2>1. SUFFICES ASSUME NEW k \in DOMAIN t, NEW l \in DOMAIN t,
                        NEW i \in 1 .. 6, NEW j \in 1 .. 6, t[k] = Core[i], t[l] = Core[j]
                 PROVE  k < l <=> i < j
    BY DEF InOrder
  <2>2. \/ k \in DOMAIN s /\ s[k] = Core[i] /\ i # 6
        \/ k = Len(s) + 1 /\ i = 6
    BY <1>4, <2>1
  <2>3. \/ l \in DOMAIN s /\ s[l] = Core[j] /\ j # 6
        \/ l = Len(s) + 1 /\ j = 6
    BY <1>4, <2>1
  <2>4. \A x \in DOMAIN s : x \in 1 .. Len(s)
    BY <1>1
  <2>5. CASE k \in DOMAIN s /\ s[k] = Core[i] /\ l \in DOMAIN s /\ s[l] = Core[j]
    BY <1>1, <2>5 DEF InOrder
  <2>6. Len(s) \in Nat
    BY <1>1
  <2>7. CASE k = Len(s) + 1 /\ i = 6
    BY <2>3, <2>4, <2>6, <2>7
  <2>8. CASE l = Len(s) + 1 /\ j = 6
    BY <2>2, <2>4, <2>6, <2>8
  <2>9. QED
    BY <2>2, <2>3, <2>5, <2>7, <2>8
<1>6. QED
  BY <1>3, <1>5 DEF Tidy, t

-----------------------------------------------------------------------------
(* Whatever is proposed, what is validated is good.                        *)

\* A set of two numbers, in a form that fits fixed bounds.
LEMMA Bounded ==
  ASSUME NEW x \in Int
  PROVE  /\ Min({10, x}) \in Int /\ Min({10, x}) <= 10
         /\ Max({4, x}) \in Int
         /\ Max({6, x}) \in Int /\ Max({6, x}) >= 6
         /\ x <= 10 => Max({6, x}) <= 10
<1>1. Min({10, x}) \in {10, x} /\ Min({10, x}) <= 10
  BY MinOfTwo
<1>2. Max({4, x}) \in {4, x}
  BY MaxOfTwo
<1>3. Max({6, x}) \in {6, x} /\ Max({6, x}) >= 6
  BY MaxOfTwo
<1>4. QED
  BY <1>1, <1>2, <1>3

\* The steps are at least those of the core, and ten at most.
LEMMA StepsAreBounded ==
  ASSUME NEW requested \in Int
  PROVE  EffectiveSteps(requested) \in 6 .. 10
<1> DEFINE m == Min({10, requested})
<1>1. m \in Int /\ m <= 10
  BY Bounded
<1>2. EffectiveSteps(requested) = Max({6, m})
  BY CoreIs DEF EffectiveSteps, HardMaxSteps
<1> HIDE DEF m
<1>3. Max({6, m}) \in Int /\ Max({6, m}) >= 6 /\ Max({6, m}) <= 10
  BY <1>1, Bounded
<1> DEFINE e == EffectiveSteps(requested)
<1>4. e \in Int /\ e >= 6 /\ e <= 10
  BY <1>2, <1>3
<1> HIDE DEF e
<1>5. e \in 6 .. 10
  BY <1>4
<1>6. QED
  BY <1>5 DEF e

\* A budget is a number.
LEMMA MaxStepsIsWhole ==
  ASSUME NEW f, NEW override \in Int
  PROVE  MaxSteps(f, override) \in Int
<1>1. ASSUME NEW x \in Int PROVE Clipped(x) \in Int
  <2> DEFINE m == Min({10, x})
  <2>1. m \in Int
    BY Bounded
  <2> HIDE DEF m
  <2>2. Max({4, m}) \in Int
    BY <2>1, Bounded
  <2>3. QED
    BY <2>2 DEF Clipped, m
<1> DEFINE If(p) == IF p THEN 1 ELSE 0
           a == If(f.uncertainty >= 6000)
           b == If(f.contradiction >= 5000)
           c == If(f.causalRisk >= 5000)
           d == If(f.edge >= 8000)
           e == IF f.hardware >= 8500 THEN -2
                ELSE IF f.hardware >= 7000 THEN -1
                ELSE If(f.gpu >= 7000)
<1>2. a \in Int /\ b \in Int /\ c \in Int /\ d \in Int /\ e \in Int
  OBVIOUS
<1>3. MaxSteps(f, override) =
        IF override = 0 THEN Clipped(6 + (a + b + c - d + e)) ELSE Clipped(override)
  BY DEF MaxSteps
<1> HIDE DEF a, b, c, d, e
<1>4. 6 + (a + b + c - d + e) \in Int
  BY <1>2
<1>5. QED
  BY <1>1, <1>3, <1>4

\* What an execution is given: the core whole, in at most ten steps.
Good(s) == Whole(s) /\ Len(s) <= HardMaxSteps

\* Whatever is proposed, if it leaves the core in order: what comes out of the
\* validation passed it, and is good.
LEMMA ValidatedIsGood ==
  ASSUME NEW proposed, Tidy(proposed), NEW allowed, ToSet(Core) \subseteq allowed,
         NEW requested \in Int, NEW labels, NEW defaults, NEW experimental,
         NEW c \in Context, NEW anchored
  PROVE  LET r == Validate(proposed, allowed, requested, labels, defaults,
                           experimental, Features(c), anchored)
         IN  r.passed /\ Good(r.validated)
<1> DEFINE f == Features(c)
           limit == EffectiveSteps(requested)
           floor == MandatoryFloor(labels.floor)
           corrected ==
             ComposeCoreProtected((ToSet(proposed) \ ToSet(Core)) \cap allowed, limit,
                                  defaults, f, labels.primary)
           safe == FallbackSequence(labels, allowed, limit, experimental, f)
           Fits(s) == Passes(s, floor, allowed, limit, anchored)
           r == Validate(proposed, allowed, requested, labels, defaults,
                         experimental, f, anchored)
<1>1. limit \in Int /\ limit >= 6 /\ limit <= 10
  BY StepsAreBounded
<1>2. /\ Fits(proposed) => r.validated = proposed
      /\ ~Fits(proposed) /\ Fits(corrected) => r.validated = corrected
      /\ ~Fits(proposed) /\ ~Fits(corrected) => r.validated = safe
      /\ r.passed <=> Fits(proposed) \/ Fits(corrected) \/ Fits(safe)
  BY FirstIsTaken DEF Validate
<1>3. Tidy(corrected)
  <2>1. PICK overlays : corrected = Composed(overlays)
    BY DEF ComposeCoreProtected
  <2>2. QED
    BY <2>1, ComposedIsWhole DEF Whole, Tidy
<1>4. Tidy(safe) /\ Fits(safe)
  BY <1>1, FallbackPasses DEF Whole, Tidy
<1> HIDE DEF limit, floor, corrected, safe, r
<1> HIDE DEF Fits
<1>5. r.passed
  BY <1>2, <1>4
<1>6. Tidy(r.validated) /\ Fits(r.validated)
  BY <1>2, <1>3, <1>4
<1> DEFINE s == r.validated
<1> HIDE DEF s
<1>7. /\ s \in Seq(Families) /\ InOrder(s) /\ ToSet(Core) \subseteq ToSet(s)
      /\ Contains(s, "prob") => Last(s) = "prob"
      /\ Len(s) \in 6 .. limit
  BY <1>6, CoreIs DEF Fits, Passes, Tidy, s
<1>8. Contains(s, "prob") /\ s # <<>>
  <2>1. "prob" \in ToSet(s)
    BY <1>7, CoreIs
  <2>2. QED
    BY <1>7, <2>1 DEF ToSet, Contains
<1>9. Len(s) <= HardMaxSteps
  BY <1>1, <1>7 DEF HardMaxSteps
<1>10. Good(s)
  BY <1>7, <1>8, <1>9 DEF Good, Whole
<1>11. QED
  BY <1>5, <1>10 DEF s, r

\* Cutting a proposal short leaves it tidy.
LEMMA CutIsTidy ==
  ASSUME NEW all, Tidy(all), NEW limit \in Int, limit >= 6, Len(all) >= 6
  PROVE  Tidy(CutShort(all, limit))
<1> DEFINE size == Len(all)
           m == Min({limit, size})
           cut == SubSeq(all, 1, m)
<1>1. size \in Nat /\ size \in Int /\ size >= 6
  BY DEF Tidy
<1>2. m \in {limit, size} /\ m <= limit /\ m <= size
  <2> HIDE DEF size
  <2>1. QED
    BY <1>1, MinOfTwo
<1>3. m \in 0 .. Len(all) /\ m >= 6
  BY <1>1, <1>2
<1> HIDE DEF m
<1>4. Tidy(cut) /\ Len(cut) = m
  BY <1>3, BeginningIsTidy
<1>5. CutShort(all, limit) =
        IF Contains(cut, "prob") THEN ProbLast(cut) ELSE Front(cut) \o <<"prob">>
  BY DEF CutShort, m
<1> HIDE DEF cut
<1>6. cut \in Seq(Families) /\ InOrder(cut)
  BY <1>4 DEF Tidy
<1>7. CASE Contains(cut, "prob")
  <2>1. CASE Last(cut) = "prob"
    BY <1>4, <1>5, <1>7, <2>1 DEF ProbLast
  <2>2. CASE Last(cut) # "prob"
    <3> DEFINE K == ToSet(cut) \ {"prob"}
               rest == Only(cut, K)
    <3>1. CutShort(all, limit) = Append(rest, "prob")
      BY <1>5, <1>7, <2>2 DEF ProbLast
    <3>2. rest \in Seq(Families) /\ \A k \in DOMAIN rest : rest[k] \in K
      BY <1>6, OnlyIs
    <3>3. InOrder(rest)
      BY <1>6, OnlyIsInOrder
    <3> HIDE DEF rest
    <3>4. Tidy(rest) /\ \A k \in DOMAIN rest : rest[k] # "prob"
      BY <3>2, <3>3 DEF Tidy
    <3>5. QED
      BY <3>1, <3>4, EndsTidy
  <2>3. QED
    BY <2>1, <2>2
<1>8. CASE ~Contains(cut, "prob")
  <2> DEFINE rest == SubSeq(cut, 1, m - 1)
  <2>1. m - 1 \in 0 .. Len(cut)
    BY <1>1, <1>3, <1>4
  <2>2. Tidy(rest) /\ Len(rest) = m - 1 /\ \A k \in 1 .. m - 1 : rest[k] = cut[k]
    BY <1>4, <2>1, BeginningIsTidy
  <2>3. CutShort(all, limit) = rest \o <<"prob">>
    BY <1>4, <1>5, <1>8 DEF Front
  <2> HIDE DEF rest
  <2>4. rest \in Seq(Families) /\ DOMAIN rest = 1 .. m - 1
    BY <2>2 DEF Tidy
  <2>5. ASSUME NEW k \in DOMAIN rest PROVE rest[k] # "prob"
    <3>1. k \in 1 .. Len(cut) /\ rest[k] = cut[k]
      BY <1>3, <1>4, <2>1, <2>2, <2>4
    <3>2. QED
      BY <1>8, <3>1 DEF Contains
  <2>6. rest \o <<"prob">> = Append(rest, "prob")
    BY <2>4, AppendIsConcat
  <2>7. QED
    BY <2>2, <2>3, <2>5, <2>6, EndsTidy
<1>9. QED
  BY <1>7, <1>8

\* The legacy proposal is cut from the core with the optional families left, those
\* that are worth it right after abd and the others at the end.
CutFrom(s, left, limit) ==
  \E first, last \in Seq(Optionals) :
    /\ s = CutShort(((<<Head(Core)>> \o first) \o Tail(Core)) \o last, limit)
    /\ ToSet(first) \cup ToSet(last) = ToSet(left)
    /\ Len(first) + Len(last) <= Len(left)

\* The adaptive profiles propose a list, cut to the budget.
LEMMA LegacyLists ==
  ASSUME NEW c \in Context, NEW profile, NEW optional \in Seq(Optionals), NEW label,
         NEW experimental, NEW limit, NEW directives
  PROVE  CutFrom(LegacySequence(profile, optional, Features(c), label, experimental,
                                limit, directives), optional, limit)
<1> DEFINE f == Features(c)
           all == ToSet(optional)
           active == {x \in all :
                        \/ profile = "full_family_exploration"
                        \/ Directed(directives, x, "on")
                        \/ ShouldActivateOptional(x, f, label, experimental)}
           others == all \ active
           first == Ranked(active, f, label)
           last == Ranked(others, f, label)
<1>1. /\ IsFiniteSet(all) /\ all \subseteq Optionals
      /\ Cardinality(all) \in Nat /\ Cardinality(all) <= Len(optional)
  BY SequenceIsFinite
<1>2. ASSUME NEW F \in SUBSET all
      PROVE  /\ Ranked(F, f, label) \in Seq(Optionals)
             /\ ToSet(Ranked(F, f, label)) = F
             /\ Len(Ranked(F, f, label)) = Cardinality(F)
             /\ IsFiniteSet(F) /\ Cardinality(F) \in Nat
  <2>1. IsFiniteSet(F) /\ F \in SUBSET Families
    BY <1>1, FS_Subset, OptionalIs
  <2>2. Ranked(F, f, label) \in Seq(F) /\ ToSet(Ranked(F, f, label)) = F
    BY <2>1, RankedIsAll, ScoresAreWhole
  <2>3. \A q \in Seq(F) : q \in Seq(Optionals)
    BY <1>1
  <2>4. Cardinality(F) \in Nat
    BY <2>1, FS_CardinalityType
  <2>5. Len(Ranked(F, f, label)) = Cardinality(F)
    BY <2>4 DEF Ranked, Ordered
  <2>6. QED
    BY <2>1, <2>2, <2>3, <2>4, <2>5
<1>3. active \in SUBSET all
  OBVIOUS
<1>4. LegacySequence(profile, optional, f, label, experimental, limit, directives)
      = CutShort(((<<Head(Core)>> \o first) \o Tail(Core)) \o last, limit)
  BY DEF LegacySequence
<1> HIDE DEF active
<1>5. /\ first \in Seq(Optionals) /\ ToSet(first) = active
      /\ Len(first) = Cardinality(active)
      /\ IsFiniteSet(active) /\ Cardinality(active) \in Nat
  BY <1>2, <1>3
<1>6. /\ last \in Seq(Optionals) /\ ToSet(last) = others
      /\ Len(last) = Cardinality(others)
  BY <1>2
<1>7. Cardinality(others) = Cardinality(all) - Cardinality(active)
  <2>1. all \cap active = active
    BY <1>3
  <2> HIDE DEF all
  <2>2. QED
    BY <1>1, <2>1, FS_Difference
<1> HIDE DEF first, last, others, all
<1>8. Len(first) + Len(last) <= Len(optional)
  BY <1>1, <1>5, <1>6, <1>7
<1>9. ToSet(first) \cup ToSet(last) = all
  BY <1>3, <1>5, <1>6 DEF others
<1>10. QED
  BY <1>4, <1>5, <1>6, <1>8, <1>9 DEF all, CutFrom

\* What the adaptive profiles propose is tidy.
LEMMA LegacyIsTidy ==
  ASSUME NEW c \in Context, NEW profile, NEW optional \in Seq(Optionals), NEW label,
         NEW experimental, NEW limit \in Int, limit >= 6, NEW directives
  PROVE  Tidy(LegacySequence(profile, optional, Features(c), label, experimental,
                             limit, directives))
<1> DEFINE s == LegacySequence(profile, optional, Features(c), label, experimental,
                               limit, directives)
<1>0. CutFrom(s, optional, limit)
  BY LegacyLists
<1> HIDE DEF s
<1>1. PICK first \in Seq(Optionals), last \in Seq(Optionals) :
        s = CutShort(((<<Head(Core)>> \o first) \o Tail(Core)) \o last, limit)
  BY <1>0 DEF CutFrom
<1> DEFINE all == ((<<Head(Core)>> \o first) \o Tail(Core)) \o last
<1>2. Tidy(all) /\ Len(all) = 6 + Len(first) + Len(last)
  BY FlankedIsTidy
<1>3. Len(all) >= 6
  <2> DEFINE a == Len(first)
             b == Len(last)
  <2>1. a \in Nat /\ b \in Nat
    OBVIOUS
  <2>2. Len(all) = 6 + a + b
    BY <1>2
  <2> HIDE DEF a, b, all
  <2>3. QED
    BY <2>1, <2>2
<1> HIDE DEF all
<1>4. Tidy(CutShort(all, limit))
  BY <1>2, <1>3, CutIsTidy
<1>5. QED
  BY <1>1, <1>4 DEF all, s

\* What the fixed profiles propose is tidy.
LEMMA NonAdaptiveIsTidy ==
  ASSUME NEW profile, NEW optional \in Seq(Optionals)
  PROVE  Tidy(NonAdaptiveSequence(profile, optional))
<1>1. Tidy(Composed(ToSet(optional)))
  BY ComposedIsWhole DEF Whole, Tidy
<1>2. Tidy((<<Head(Core)>> \o optional) \o Tail(Core))
  <2> DEFINE s == (<<Head(Core)>> \o optional) \o Tail(Core)
  <2>1. <<>> \in Seq(Optionals)
    OBVIOUS
  <2>2. Tidy(s \o <<>>)
    BY <2>1, FlankedIsTidy
  <2>3. optional \in Seq(Families)
    BY OptionalIs
  <2>4. <<Head(Core)>> \in Seq(Families) /\ Tail(Core) \in Seq(Families)
    BY HeadAndTail
  <2>5. <<Head(Core)>> \o optional \in Seq(Families)
    BY <2>3, <2>4, Joined
  <2>6. s \in Seq(Families)
    BY <2>4, <2>5, Joined
  <2> HIDE DEF s
  <2>7. s \o <<>> = s
    BY <2>6, ConcatEmptySeq
  <2>8. QED
    BY <2>2, <2>7 DEF s
<1>3. QED
  BY <1>1, <1>2 DEF NonAdaptiveSequence

\* A plan that ends with prob is executed to its end.
LEMMA NoStopCutsShort ==
  ASSUME NEW S, NEW plan \in Seq(S), plan # <<>>, Last(plan) = "prob",
         NEW ask, NEW failing, NEW deduced
  PROVE  Executed(plan, ask, failing, deduced) = plan
<1> DEFINE n == Len(plan)
           ends == {i \in 1 .. n : Breaks(plan, i, ask, failing, deduced)}
<1>1. n \in Nat /\ n >= 1 /\ plan[n] = "prob"
  BY DEF Last
<1>2. ASSUME NEW i \in 1 .. n, i < n PROVE Contains(SubSeq(plan, i + 1, n), "prob")
  <2> DEFINE rest == SubSeq(plan, i + 1, n)
  <2>1. Len(rest) = n - i /\ \A k \in 1 .. n - i : rest[k] = plan[k + i]
    BY <1>1, <1>2
  <2>2. n - i \in 1 .. n - i /\ (n - i) + i = n
    BY <1>1, <1>2
  <2> HIDE DEF rest
  <2>3. n - i \in 1 .. Len(rest) /\ rest[n - i] = "prob"
    BY <1>1, <2>1, <2>2
  <2>4. QED
    BY <2>3 DEF Contains, rest
<1>3. ends \subseteq {n}
  BY <1>1, <1>2 DEF Breaks
<1>4. ends \cup {n} = {n}
  BY <1>3
<1>5. Min({n}) = n
  <2> HIDE DEF n
  <2>1. {n} \in SUBSET Nat /\ {n} # {}
    BY <1>1
  <2>2. Min({n}) \in {n}
    BY <2>1, MinIsLeast
  <2>3. QED
    BY <2>2
<1>6. SubSeq(plan, 1, n) = plan
  OBVIOUS
<1>7. Executed(plan, ask, failing, deduced) = SubSeq(plan, 1, Min(ends \cup {n}))
  BY DEF Executed
<1>8. QED
  BY <1>4, <1>5, <1>6, <1>7

-----------------------------------------------------------------------------
(* A selection is good, and is run to its end.                             *)

\* The ecology proposes a composition, so what comes of it is good.
LEMMA EcologyIsGood ==
  ASSUME NEW c \in Context, NEW allowed, ToSet(Core) \subseteq allowed,
         NEW requested \in Int, NEW labels, NEW experimental
  PROVE  LET r == EcologySequence(allowed, requested, labels, experimental, Features(c))
         IN  r.passed /\ Good(r.validated)
<1> DEFINE f == Features(c)
           defaults == DefaultOverlays(labels)
           admitted == (defaults \cup ConditionalOverlays(labels, f, requested)
                        \cup ShadowOverlays(labels, f, experimental)) \cap allowed
           size == Cardinality(admitted)
           most == Max({requested, 6 + size})
           steps == Min({10, most})
<1>1. ByName \in Seq(Families)
  BY DEF ByName, Families, ToSet
<1>2. IsFiniteSet(Families)
  BY <1>1, SequenceIsFinite DEF Families
<1>3. admitted \subseteq Families
  <2>1. {"heur", "fal_guard", "dia_adv", "ind", "eml_sr"} \subseteq Families
    BY DEF Families, ByName, ToSet
  <2>2. defaults \subseteq {"heur", "fal_guard", "dia_adv"}
    BY DEF DefaultOverlays
  <2>3. ConditionalOverlays(labels, f, requested)
          \subseteq {"heur", "fal_guard", "dia_adv"}
    BY DEF ConditionalOverlays
  <2>4. ShadowOverlays(labels, f, experimental) \subseteq {"ind", "eml_sr"}
    BY DEF ShadowOverlays
  <2> HIDE DEF f, defaults
  <2>5. QED
    BY <2>1, <2>2, <2>3, <2>4
<1>4. EcologySequence(allowed, requested, labels, experimental, f) =
        Validate(Composed(admitted), allowed, steps, labels, defaults, experimental,
                 f, TRUE)
  BY CoreIs DEF EcologySequence, HardMaxSteps
<1> HIDE DEF admitted, defaults
<1>5. size \in Nat
  BY <1>2, <1>3, FS_Subset, FS_CardinalityType
<1>6. most \in Int
  <2> DEFINE least == 6 + size
  <2>1. least \in Int
    BY <1>5
  <2> HIDE DEF least, size
  <2>2. Max({requested, least}) \in {requested, least}
    BY <2>1, MaxOfTwo
  <2>3. QED
    BY <2>1, <2>2 DEF least
<1> HIDE DEF size, most
<1>7. steps \in Int
  BY <1>6, Bounded
<1> HIDE DEF steps
<1>8. Tidy(Composed(admitted))
  BY ComposedIsWhole DEF Whole, Tidy
<1> DEFINE proposed == Composed(admitted)
<1> HIDE DEF proposed
<1>9. Tidy(proposed)
  BY <1>8 DEF proposed
<1>10. LET r == Validate(proposed, allowed, steps, labels, defaults, experimental,
                         Features(c), TRUE)
       IN  r.passed /\ Good(r.validated)
  BY <1>7, <1>9, ValidatedIsGood
<1>11. QED
  BY <1>4, <1>10 DEF proposed

\* The families a profile admits, and those of them that directives leave.
LEMMA LeftAre ==
  ASSUME NEW ask, ask.profile \in DOMAIN Profiles, NEW directives
  PROVE  LET own == Optional(ask)
             left == Enabled(own, directives)
         IN  /\ own \in Seq(Optionals) /\ left \in Seq(Optionals)
             /\ ToSet(own) \subseteq ToSet(Profiles[ask.profile].optional)
             /\ ToSet(left) = {x \in ToSet(own) : ~Directed(directives, x, "off")}
<1> DEFINE all == Profiles[ask.profile].optional
           own == Optional(ask)
           left == Enabled(own, directives)
           Admitted == {x \in ToSet(all) :
                          /\ x = "ext_open_thinker" => ExternalAdmitted(ask.hint)
                          /\ x = "eml_sr" => ask.experimental}
           K == {x \in ToSet(own) : ~Directed(directives, x, "off")}
<1>1. all \in Seq(Optionals)
  BY ProfilesPropose
<1>2. own = Only(all, Admitted)
  BY DEF Optional
<1>3. left = Only(own, K)
  BY DEF Enabled
<1>4. K \subseteq ToSet(own)
  OBVIOUS
<1> HIDE DEF all, own, left, Admitted, K
<1>5. own \in Seq(Optionals) /\ ToSet(own) = ToSet(all) \cap Admitted
  BY <1>1, <1>2, OnlyIs, OnlyHas
<1>6. left \in Seq(Optionals) /\ ToSet(left) = ToSet(own) \cap K
  BY <1>3, <1>5, OnlyIs, OnlyHas
<1>7. ToSet(own) \subseteq ToSet(all) /\ ToSet(left) = K
  BY <1>4, <1>5, <1>6
<1>8. QED
  BY <1>5, <1>6, <1>7 DEF all, own, left, K

\* The steps asked for, where a profile needs room.
LEMMA RoomIsWhole ==
  ASSUME NEW requested \in Int, NEW n \in Nat
  PROVE  /\ Max({requested, 6}) \in Int /\ Max({requested, 6}) >= 6
         /\ EffectiveSteps(Max({requested, 6})) <= Max({requested, 6})
         /\ Max({requested, 6 + n}) \in Int
<1> DEFINE least == 6 + n
           legacy == Max({requested, 6})
           m == Min({10, legacy})
<1>1. least \in Int
  OBVIOUS
<1> HIDE DEF least
<1>2. Max({requested, least}) \in {requested, least}
  BY <1>1, MaxOfTwo
<1>3. Max({requested, least}) \in Int
  BY <1>1, <1>2
<1>4. {requested, 6} = {6, requested}
  OBVIOUS
<1>5. legacy \in Int /\ legacy >= 6
  BY <1>4, Bounded
<1>6. EffectiveSteps(legacy) = Max({6, m})
  BY CoreIs DEF EffectiveSteps, HardMaxSteps
<1>7. m \in Int /\ m <= legacy
  <2> HIDE DEF legacy
  <2>1. \A x \in Int : Min({10, x}) \in {10, x} /\ Min({10, x}) <= x
    BY MinOfTwo
  <2>2. m \in {10, legacy} /\ m <= legacy
    BY <1>5, <2>1
  <2>3. QED
    BY <1>5, <2>2
<1> HIDE DEF m, legacy
<1>8. Max({6, m}) \in {6, m}
  <2>1. \A x \in Int : Max({6, x}) \in {6, x}
    BY MaxOfTwo
  <2>2. QED
    BY <1>7, <2>1
<1>9. EffectiveSteps(legacy) <= legacy
  BY <1>5, <1>6, <1>7, <1>8
<1>10. QED
  BY <1>3, <1>5, <1>9 DEF legacy, least

\* What a selection validates: what it proposes, for whom, in how many steps.
SelectedAs(ask, directives, r) ==
  LET f == Features(ask.context)
      labels == RegimeLabels(ask.hint, f)
      left == Enabled(Optional(ask), directives)
      requested == MaxSteps(f, ask.override)
      allowed == ToSet(Core) \cup ToSet(Optional(ask))
      legacy == Max({requested, 6})
  IN  \/ r = Validate(NonAdaptiveSequence(ask.profile, left), allowed,
                      Max({requested, 6 + Len(left)}), labels, ToSet(left),
                      ask.experimental, f, FALSE)
      \/ r = Validate(LegacySequence(ask.profile, left, f, labels.primary,
                                     ask.experimental, legacy, directives),
                      allowed, legacy, labels, {}, ask.experimental, f, FALSE)
      \/ /\ ask.profile = "adaptive_family_ecology_v2"
         /\ r = EcologySequence(allowed, requested, labels, ask.experimental, f)

\* The selection is one of the three ways of proposing, validated.
LEMMA SelectionSelects ==
  ASSUME NEW ask, NEW directives
  PROVE  SelectedAs(ask, directives, SelectSequence(ask, directives))
<1> DEFINE f == Features(ask.context)
           labels == RegimeLabels(ask.hint, f)
           own == Optional(ask)
           left == Enabled(own, directives)
           requested == MaxSteps(f, ask.override)
<1>1. SelectSequence(ask, directives)
      = SequenceFor(ask, own, left, f, labels, requested, directives)
  BY DEF SelectSequence
<1> HIDE DEF f, labels, own, left, requested
<1>2. Len(Core) = 6
  BY CoreIs
<1>3. CASE ask.mode # "adaptive" /\ ~Profiles[ask.profile].adaptive
  BY <1>1, <1>2, <1>3 DEF SequenceFor, SelectedAs, f, labels, own, left, requested
<1>4. CASE ~(ask.mode # "adaptive" /\ ~Profiles[ask.profile].adaptive)
  BY <1>1, <1>2, <1>4 DEF SequenceFor, SelectedAs, f, labels, own, left, requested
<1>5. QED
  BY <1>3, <1>4

\* Whatever the context, the profile, the budget and the directives, the
\* scheduler is given a sequence that passed, with the core whole.
LEMMA SelectionIsGood ==
  ASSUME NEW ask, ask.context \in Context, ask.override \in Int,
         ask.profile \in DOMAIN Profiles, NEW directives
  PROVE  LET r == SelectSequence(ask, directives)
         IN  r.passed /\ Good(r.validated)
<1> DEFINE c == ask.context
           f == Features(c)
           labels == RegimeLabels(ask.hint, f)
           left == Enabled(Optional(ask), directives)
           requested == MaxSteps(f, ask.override)
           allowed == ToSet(Core) \cup ToSet(Optional(ask))
           legacy == Max({requested, 6})
           roomy == Max({requested, 6 + Len(left)})
           plain == NonAdaptiveSequence(ask.profile, left)
           listed == LegacySequence(ask.profile, left, f, labels.primary,
                                    ask.experimental, legacy, directives)
           r == SelectSequence(ask, directives)
<1>1. \/ r = Validate(plain, allowed, roomy, labels, ToSet(left), ask.experimental,
                      f, FALSE)
      \/ r = Validate(listed, allowed, legacy, labels, {}, ask.experimental, f, FALSE)
      \/ r = EcologySequence(allowed, requested, labels, ask.experimental, f)
  <2>1. SelectedAs(ask, directives, r)
    BY SelectionSelects
  <2>2. QED
    BY <2>1 DEF SelectedAs
<1>2. left \in Seq(Optionals)
  BY LeftAre
<1>3. c \in Context /\ requested \in Int
  BY MaxStepsIsWhole
<1>4. ToSet(Core) \subseteq allowed
  OBVIOUS
<1> HIDE DEF r, c, labels, left, requested, allowed
<1>5. Len(left) \in Nat
  BY <1>2
<1>6. legacy \in Int /\ legacy >= 6 /\ roomy \in Int
  BY <1>3, <1>5, RoomIsWhole
<1> HIDE DEF legacy, roomy
<1>7. Tidy(plain) /\ Tidy(listed)
  BY <1>2, <1>3, <1>6, NonAdaptiveIsTidy, LegacyIsTidy
<1> HIDE DEF plain, listed
<1>8. CASE r = Validate(plain, allowed, roomy, labels, ToSet(left), ask.experimental,
                        f, FALSE)
  BY <1>3, <1>4, <1>6, <1>7, <1>8, ValidatedIsGood DEF r
<1>9. CASE r = Validate(listed, allowed, legacy, labels, {}, ask.experimental, f, FALSE)
  BY <1>3, <1>4, <1>6, <1>7, <1>9, ValidatedIsGood DEF r
<1>10. CASE r = EcologySequence(allowed, requested, labels, ask.experimental, f)
  BY <1>3, <1>4, <1>10, EcologyIsGood DEF r
<1>11. QED
  BY <1>1, <1>8, <1>9, <1>10

\* Whatever fails and whatever asks for an early stop, such a sequence is
\* executed to its end: the core is run, in its order, prob last.
LEMMA ExecutionIsWhole ==
  ASSUME NEW plan, Good(plan), NEW ask, NEW failing, NEW deduced
  PROVE  /\ Executed(plan, ask, failing, deduced) = plan
         /\ Only(plan, ToSet(Core)) = Core
         /\ Last(plan) = "prob"
         /\ Len(plan) <= HardMaxSteps
<1>1. plan \in Seq(Families) /\ plan # <<>> /\ InOrder(plan)
      /\ ToSet(Core) \subseteq ToSet(plan)
      /\ Last(plan) = "prob" /\ Len(plan) <= HardMaxSteps
  BY DEF Good, Whole
<1>2. Executed(plan, ask, failing, deduced) = plan
  BY <1>1, NoStopCutsShort
<1>3. Only(plan, ToSet(Core)) = Core
  BY <1>1, CoreIsLeft
<1>4. QED
  BY <1>1, <1>2, <1>3

-----------------------------------------------------------------------------
(* Directives: what is left is what is run.                                *)

\* A sequence with the families of the core has six steps at least.
LEMMA CoreTakesSix ==
  ASSUME NEW s \in Seq(Families), ToSet(Core) \subseteq ToSet(s)
  PROVE  Len(s) >= 6
<1>1. IsFiniteSet(1 .. 6) /\ Cardinality(1 .. 6) = 6
  BY Initial
<1>2. Core \in Surjection(1 .. 6, ToSet(Core)) /\ Core \in Injection(1 .. 6, ToSet(Core))
  <2>1. Core \in [1 .. 6 -> ToSet(Core)]
    BY CoreIs DEF ToSet
  <2>2. \A x \in ToSet(Core) : \E k \in 1 .. 6 : Core[k] = x
    BY CoreIs DEF ToSet
  <2>3. \A i, j \in 1 .. 6 : Core[i] = Core[j] => i = j
    BY CoreIsOnce
  <2>4. Core \in Surjection(1 .. 6, ToSet(Core))
    BY <2>1, <2>2 DEF Surjection
  <2>5. IsInjective(Core)
    BY <2>3, CoreIs DEF IsInjective
  <2>6. QED
    BY <2>1, <2>4, <2>5 DEF Injection
<1>3. Cardinality(ToSet(Core)) = 6
  BY <1>1, <1>2, FS_Surjection
<1>4. /\ IsFiniteSet(ToSet(s))
      /\ Cardinality(ToSet(s)) \in Nat /\ Cardinality(ToSet(s)) <= Len(s)
  BY SequenceIsFinite
<1>5. Cardinality(ToSet(Core)) <= Cardinality(ToSet(s))
  BY <1>4, FS_Subset
<1>6. Len(s) \in Nat
  OBVIOUS
<1>7. QED
  BY <1>3, <1>4, <1>5, <1>6

\* Prob is put last, and nothing else changes but places.
LEMMA ProbLastIs ==
  ASSUME NEW s \in Seq(Families), Contains(s, "prob")
  PROVE  /\ ProbLast(s) \in Seq(Families) /\ ProbLast(s) # <<>>
         /\ ToSet(ProbLast(s)) = ToSet(s)
         /\ Len(ProbLast(s)) <= Len(s)
         /\ Last(ProbLast(s)) = "prob"
<1>1. PICK i \in 1 .. Len(s) : s[i] = "prob"
  BY DEF Contains
<1>2. CASE Last(s) = "prob"
  BY <1>1, <1>2 DEF ProbLast
<1>3. CASE Last(s) # "prob"
  <2> DEFINE K == ToSet(s) \ {"prob"}
             rest == Only(s, K)
             n == Len(s)
  <2>1. ProbLast(s) = Append(rest, "prob")
    BY <1>3 DEF ProbLast
  <2>2. rest \in Seq(Families)
    BY OnlyIs
  <2>3. ToSet(rest) = ToSet(s) \cap K /\ Len(rest) = Cardinality(PlacesKept(s, K))
    BY OnlyHas
  <2>4. n \in Nat /\ IsFiniteSet(1 .. n) /\ Cardinality(1 .. n) = n
    BY Initial
  <2>5. Cardinality(PlacesKept(s, K)) <= n - 1
    <3>1. PlacesKept(s, K) \subseteq (1 .. n) \ {i}
      BY <1>1 DEF PlacesKept
    <3>2. IsFiniteSet((1 .. n) \ {i}) /\ Cardinality((1 .. n) \ {i}) = n - 1
      <4> HIDE DEF n
      <4>1. IsFiniteSet((1 .. n) \ {i})
            /\ Cardinality((1 .. n) \ {i}) =
                 IF i \in 1 .. n THEN Cardinality(1 .. n) - 1 ELSE Cardinality(1 .. n)
        BY <2>4, FS_RemoveElement
      <4>2. QED
        BY <1>1, <2>4, <4>1 DEF n
    <3>3. Cardinality(PlacesKept(s, K)) <= Cardinality((1 .. n) \ {i})
      BY <3>1, <3>2, FS_Subset
    <3>4. QED
      BY <3>2, <3>3
  <2>6. "prob" \in Families /\ "prob" \in ToSet(s)
    BY <1>1 DEF ToSet
  <2> DEFINE t == Append(rest, "prob")
  <2>7. ToSet(s) \cap K = ToSet(s) \ {"prob"}
    OBVIOUS
  <2> HIDE DEF rest, K
  <2>8. /\ t \in Seq(Families) /\ Len(t) = Len(rest) + 1 /\ t # <<>>
        /\ DOMAIN t = 1 .. Len(rest) + 1 /\ DOMAIN rest = 1 .. Len(rest)
        /\ \A k \in 1 .. Len(rest) : t[k] = rest[k]
        /\ t[Len(rest) + 1] = "prob" /\ Len(rest) \in Nat
    BY <2>2, <2>6
  <2> HIDE DEF t, n
  <2>9. ToSet(t) = ToSet(rest) \cup {"prob"}
    <3>1. \A k \in 1 .. Len(rest) + 1 : k = Len(rest) + 1 \/ k \in 1 .. Len(rest)
      BY <2>8
    <3>2. \A k \in 1 .. Len(rest) : k \in 1 .. Len(rest) + 1
      BY <2>8
    <3>3. Len(rest) + 1 \in 1 .. Len(rest) + 1
      BY <2>8
    <3>4. QED
      BY <2>8, <3>1, <3>2, <3>3 DEF ToSet
  <2>10. ToSet(t) = ToSet(s)
    BY <2>3, <2>6, <2>7, <2>9
  <2>11. Last(t) = "prob"
    BY <2>8 DEF Last
  <2>12. Len(t) <= n
    BY <2>3, <2>4, <2>5, <2>8
  <2>13. QED
    BY <2>1, <2>8, <2>10, <2>11, <2>12 DEF t, n
<1>4. QED
  BY <1>2, <1>3

\* Cutting a sequence short adds nothing to it but prob.
LEMMA CutAddsNothing ==
  ASSUME NEW all \in Seq(Families), NEW limit \in Int, limit >= 6, Len(all) >= 6
  PROVE  ToSet(CutShort(all, limit)) \subseteq ToSet(all) \cup {"prob"}
<1> DEFINE size == Len(all)
           m == Min({limit, size})
           cut == SubSeq(all, 1, m)
           rest == SubSeq(cut, 1, m - 1)
<1>1. size \in Nat /\ size \in Int /\ size >= 6
  OBVIOUS
<1>2. m \in {limit, size} /\ m <= limit /\ m <= size
  <2> HIDE DEF size
  <2>1. QED
    BY <1>1, MinOfTwo
<1>3. m \in 0 .. size /\ m - 1 \in 0 .. m /\ m \in Nat
  BY <1>1, <1>2
<1> HIDE DEF m
<1>4. /\ cut \in Seq(Families) /\ Len(cut) = m /\ DOMAIN cut = 1 .. m
      /\ \A k \in 1 .. m : k \in DOMAIN all /\ cut[k] = all[k]
  BY <1>3
<1>5. CutShort(all, limit) =
        IF Contains(cut, "prob") THEN ProbLast(cut) ELSE Front(cut) \o <<"prob">>
  BY DEF CutShort, m
<1> HIDE DEF cut, size
<1>6. ToSet(cut) \subseteq ToSet(all)
  BY <1>4 DEF ToSet
<1>7. CASE Contains(cut, "prob")
  <2>1. ToSet(ProbLast(cut)) = ToSet(cut)
    BY <1>4, <1>7, ProbLastIs
  <2>2. QED
    BY <1>5, <1>6, <1>7, <2>1
<1>8. CASE ~Contains(cut, "prob")
  <2>1. CutShort(all, limit) = rest \o <<"prob">>
    BY <1>4, <1>5, <1>8 DEF Front
  <2>2. /\ rest \in Seq(Families) /\ DOMAIN rest = 1 .. m - 1
        /\ \A k \in 1 .. m - 1 : k \in DOMAIN cut /\ rest[k] = cut[k]
    BY <1>3, <1>4
  <2> HIDE DEF rest
  <2>3. ToSet(rest) \subseteq ToSet(cut)
    BY <2>2 DEF ToSet
  <2>4. "prob" \in Families
    BY DEF Families, ByName, ToSet
  <2> DEFINE end == <<"prob">>
  <2>5. end \in Seq(Families) /\ ToSet(end) = {"prob"}
    BY <2>4 DEF ToSet
  <2>6. CutShort(all, limit) = rest \o end
    BY <2>1
  <2> HIDE DEF end
  <2>7. rest \in Seq(Families)
    BY <2>2
  <2>8. ToSet(rest \o end) = ToSet(rest) \cup ToSet(end)
    BY <2>5, <2>7, BothAreThere
  <2>9. QED
    BY <1>6, <2>3, <2>5, <2>6, <2>8
<1>9. QED
  BY <1>7, <1>8

\* What need not be cut stays, and prob is put last.
LEMMA UncutIsWhole ==
  ASSUME NEW all, Tidy(all), ToSet(Core) \subseteq ToSet(all),
         NEW limit \in Int, Len(all) <= limit
  PROVE  LET s == CutShort(all, limit)
         IN  /\ Tidy(s) => Whole(s)
             /\ ToSet(s) = ToSet(all) /\ Len(s) <= Len(all)
<1> DEFINE size == Len(all)
           m == Min({limit, size})
           s == CutShort(all, limit)
<1>1. all \in Seq(Families) /\ size \in Nat /\ size \in Int
  BY DEF Tidy
<1>2. m = size
  <2> HIDE DEF size
  <2>1. m \in {limit, size} /\ m <= size /\ m <= limit
    BY <1>1, MinOfTwo
  <2>2. size <= limit
    BY DEF size
  <2>3. QED
    BY <1>1, <2>1, <2>2
<1>3. SubSeq(all, 1, size) = all
  BY <1>1
<1>4. Contains(all, "prob")
  <2>1. "prob" \in ToSet(all)
    BY CoreIs
  <2>2. QED
    BY <1>1, <2>1 DEF ToSet, Contains
<1>5. s = ProbLast(all)
  BY <1>2, <1>3, <1>4 DEF CutShort
<1> HIDE DEF s
<1>6. /\ s \in Seq(Families) /\ s # <<>>
      /\ ToSet(s) = ToSet(all) /\ Len(s) <= Len(all)
      /\ Last(s) = "prob"
  BY <1>1, <1>4, <1>5, ProbLastIs
<1>7. Tidy(s) => Whole(s)
  BY <1>6 DEF Tidy, Whole
<1>8. QED
  BY <1>6, <1>7 DEF s

\* The core with families after abd and at the end has both.
LEMMA FlankedHas ==
  ASSUME NEW a \in Seq(Optionals), NEW b \in Seq(Optionals)
  PROVE  ToSet(((<<Head(Core)>> \o a) \o Tail(Core)) \o b)
         = ToSet(Core) \cup ToSet(a) \cup ToSet(b)
<1> DEFINE h == <<Head(Core)>>
           t == Tail(Core)
           u == h \o a
           v == u \o t
<1>1. h \in Seq(Families) /\ t \in Seq(Families)
  BY HeadAndTail
<1>2. a \in Seq(Families) /\ b \in Seq(Families)
  BY OptionalIs
<1>3. ToSet(h) \cup ToSet(t) = ToSet(Core)
  <2>1. h[1] = Core[1] /\ \A k \in 1 .. 5 : t[k] = Core[k + 1]
    BY HeadAndTail
  <2>2. DOMAIN h = 1 .. 1 /\ DOMAIN t = 1 .. 5 /\ DOMAIN Core = 1 .. 6
    BY HeadAndTail, CoreIs
  <2> HIDE DEF h, t
  <2>3. ASSUME NEW k \in DOMAIN h PROVE h[k] \in ToSet(Core)
    <3>1. h[k] = Core[1] /\ 1 \in DOMAIN Core
      BY <2>1, <2>2
    <3>2. QED
      BY <3>1 DEF ToSet
  <2>4. ASSUME NEW k \in DOMAIN t PROVE t[k] \in ToSet(Core)
    <3>1. t[k] = Core[k + 1] /\ k + 1 \in DOMAIN Core
      BY <2>1, <2>2
    <3>2. QED
      BY <3>1 DEF ToSet
  <2>5. ASSUME NEW k \in DOMAIN Core PROVE Core[k] \in ToSet(h) \cup ToSet(t)
    <3>1. CASE k = 1
      <4>1. 1 \in DOMAIN h /\ h[1] = Core[k]
        BY <2>1, <2>2, <3>1
      <4>2. QED
        BY <4>1 DEF ToSet
    <3>2. CASE k # 1
      <4>1. k - 1 \in 1 .. 5 /\ (k - 1) + 1 = k
        BY <2>2, <3>2
      <4>2. k - 1 \in DOMAIN t /\ t[k - 1] = Core[k]
        BY <2>1, <2>2, <4>1
      <4>3. QED
        BY <4>2 DEF ToSet
    <3>3. QED
      BY <3>1, <3>2
  <2>6. QED
    BY <2>3, <2>4, <2>5 DEF ToSet
<1> HIDE DEF h, t
<1>4. u \in Seq(Families) /\ ToSet(u) = ToSet(h) \cup ToSet(a)
  BY <1>1, <1>2, BothAreThere, Joined
<1> HIDE DEF u
<1>5. v \in Seq(Families) /\ ToSet(v) = ToSet(u) \cup ToSet(t)
  BY <1>1, <1>4, BothAreThere, Joined
<1> HIDE DEF v
<1>6. ToSet(v \o b) = ToSet(v) \cup ToSet(b)
  BY <1>2, <1>5, BothAreThere
<1>7. ToSet(v \o b) = ToSet(Core) \cup ToSet(a) \cup ToSet(b)
  BY <1>3, <1>4, <1>5, <1>6
<1>8. QED
  BY <1>7 DEF h, t, u, v

\* A proposal of the families left: the core whole, all of them, nothing else.
Proposes(s, left) ==
  /\ Whole(s)
  /\ ToSet(s) = ToSet(Core) \cup ToSet(left)
  /\ Len(s) >= 6 /\ Len(s) <= 6 + Len(left)

\* The profiles whose overlays are composed have only overlays with a place.
LEMMA ComposingArePlaced ==
  ASSUME NEW profile \in Composing
  PROVE  ToSet(Profiles[profile].optional) \subseteq Overlays
<1>1. /\ Profiles["core_plus_deliberative"].optional = <<"plan", "opt">>
      /\ Profiles["core_plus_ind"].optional = <<"ind">>
      /\ Profiles["core_plus_plan"].optional = <<"plan">>
      /\ Profiles["core_plus_opt"].optional = <<"opt">>
  BY DEF Profiles, Fixed, Deliberatives
<1>2. Profiles[profile].optional \in {<<"plan", "opt">>, <<"ind">>, <<"plan">>, <<"opt">>}
  BY <1>1 DEF Composing
<1>3. QED
  BY <1>2, OverlaysAre DEF ToSet

\* The fixed profiles propose the core and every family that is left.
LEMMA NonAdaptiveProposes ==
  ASSUME NEW profile, NEW left \in Seq(Optionals),
         ToSet(left) \subseteq ToSet(Profiles[profile].optional)
  PROVE  Proposes(NonAdaptiveSequence(profile, left), left)
<1> DEFINE s == NonAdaptiveSequence(profile, left)
           n == Len(left)
<1>1. n \in Nat /\ Cardinality(ToSet(left)) \in Nat /\ Cardinality(ToSet(left)) <= n
  BY SequenceIsFinite
<1>2. CASE profile \in Composing
  <2>1. s = Composed(ToSet(left))
    BY <1>2 DEF NonAdaptiveSequence
  <2>2. ToSet(left) \cap Overlays = ToSet(left)
    BY <1>2, ComposingArePlaced
  <2>3. Holds(s, ToSet(left))
    BY <2>1, <2>2, ComposedHolds
  <2> HIDE DEF s, n
  <2>4. QED
    BY <1>1, <2>3 DEF Holds, Proposes, s, n
<1>3. CASE profile \notin Composing
  <2> DEFINE v == (<<Head(Core)>> \o left) \o Tail(Core)
  <2>1. s = v
    BY <1>3 DEF NonAdaptiveSequence
  <2>2. <<>> \in Seq(Optionals) /\ Len(<<>>) = 0 /\ ToSet(<<>>) = {}
    BY DEF ToSet
  <2>3. left \in Seq(Families)
    BY OptionalIs
  <2> DEFINE h == <<Head(Core)>>
             t == Tail(Core)
             u == h \o left
  <2>4. /\ h \in Seq(Families) /\ t \in Seq(Families) /\ Len(t) = 5
        /\ \A k \in 1 .. 5 : t[k] = Core[k + 1]
    BY HeadAndTail
  <2>5. u \in Seq(Families) /\ v \in Seq(Families) /\ v = u \o t
    <3> HIDE DEF h, t
    <3>1. u \in Seq(Families)
      BY <2>3, <2>4, Joined
    <3> HIDE DEF u
    <3>2. u \o t \in Seq(Families)
      BY <2>4, <3>1, Joined
    <3>3. v = u \o t
      BY DEF u, h, t
    <3>4. QED
      BY <3>1, <3>2, <3>3
  <2> HIDE DEF h, t, u
  <2>6. v[Len(v)] = "prob"
    <3> HIDE DEF v
    <3>1. t[5] = "prob"
      <4>1. t[5] = Core[5 + 1]
        BY <2>4
      <4>2. QED
        BY <4>1, CoreIs
    <3>2. /\ Len(v) = Len(u) + 5 /\ Len(u) \in Nat
          /\ \A k \in Len(u) + 1 .. Len(u) + 5 : v[k] = t[k - Len(u)]
      <4>1. u \in Seq(Families) /\ t \in Seq(Families)
        BY <2>4, <2>5
      <4>2. /\ Len(u \o t) = Len(u) + Len(t) /\ Len(u) \in Nat
            /\ \A k \in Len(u) + 1 .. Len(u) + Len(t) : (u \o t)[k] = t[k - Len(u)]
        BY <4>1, Joined
      <4>3. v = u \o t /\ Len(t) = 5
        BY <2>4, <2>5
      <4>4. QED
        BY <4>2, <4>3
    <3>3. Len(v) \in Len(u) + 1 .. Len(u) + 5 /\ Len(v) - Len(u) = 5
      BY <3>2
    <3>4. QED
      BY <3>1, <3>2, <3>3
  <2>7. /\ Tidy(v \o <<>>) /\ Len(v \o <<>>) = 6 + n + Len(<<>>)
        /\ ToSet(v \o <<>>) = ToSet(Core) \cup ToSet(left) \cup ToSet(<<>>)
    BY <2>2, FlankedIsTidy, FlankedHas
  <2> HIDE DEF v, n
  <2>8. v \o <<>> = v
    BY <2>5, ConcatEmptySeq
  <2>9. /\ Tidy(v) /\ Len(v) = 6 + n
        /\ ToSet(v) = ToSet(Core) \cup ToSet(left)
    BY <1>1, <2>2, <2>7, <2>8
  <2>10. v # <<>> /\ Last(v) = "prob"
    BY <1>1, <2>5, <2>6, <2>9 DEF Last
  <2>11. Whole(v)
    BY <2>9, <2>10 DEF Whole, Tidy
  <2>12. QED
    BY <1>1, <2>1, <2>9, <2>11 DEF Proposes, n
<1>4. QED
  BY <1>2, <1>3

\* The adaptive profiles propose nothing else than that, and all of it if there is
\* room.
LEMMA LegacyProposes ==
  ASSUME NEW c \in Context, NEW profile, NEW left \in Seq(Optionals), NEW label,
         NEW experimental, NEW limit \in Int, limit >= 6, NEW directives
  PROVE  LET s == LegacySequence(profile, left, Features(c), label, experimental,
                                 limit, directives)
         IN  /\ ToSet(s) \subseteq ToSet(Core) \cup ToSet(left)
             /\ 6 + Len(left) <= limit => Proposes(s, left)
<1> DEFINE s == LegacySequence(profile, left, Features(c), label, experimental,
                               limit, directives)
<1>0. CutFrom(s, left, limit) /\ Tidy(s)
  BY LegacyLists, LegacyIsTidy
<1> HIDE DEF s
<1>1. PICK first \in Seq(Optionals), last \in Seq(Optionals) :
        /\ s = CutShort(((<<Head(Core)>> \o first) \o Tail(Core)) \o last, limit)
        /\ ToSet(first) \cup ToSet(last) = ToSet(left)
        /\ Len(first) + Len(last) <= Len(left)
  BY <1>0 DEF CutFrom
<1> DEFINE all == ((<<Head(Core)>> \o first) \o Tail(Core)) \o last
           a == Len(first)
           b == Len(last)
           n == Len(left)
<1>2. Tidy(all) /\ Len(all) = 6 + a + b
  BY FlankedIsTidy
<1>3. ToSet(all) = ToSet(Core) \cup ToSet(left)
  BY <1>1, FlankedHas
<1>4. a \in Nat /\ b \in Nat /\ n \in Nat /\ a + b <= n
  BY <1>1
<1>5. s = CutShort(all, limit)
  BY <1>1
<1>6. Tidy(s)
  BY <1>0
<1> HIDE DEF all, a, b, n
<1>7. all \in Seq(Families) /\ Len(all) >= 6 /\ Len(all) <= 6 + n
  BY <1>2, <1>4 DEF Tidy
<1>8. ToSet(s) \subseteq ToSet(Core) \cup ToSet(left)
  <2>1. ToSet(s) \subseteq ToSet(all) \cup {"prob"}
    BY <1>5, <1>7, CutAddsNothing
  <2>2. QED
    BY <1>3, <2>1, CoreIs
<1>9. ASSUME 6 + n <= limit PROVE Proposes(s, left)
  <2>1. Len(all) <= limit
    BY <1>4, <1>7, <1>9
  <2>2. Whole(s) /\ ToSet(s) = ToSet(all) /\ Len(s) <= Len(all)
    BY <1>2, <1>3, <1>5, <1>6, <2>1, UncutIsWhole
  <2>3. s \in Seq(Families) /\ ToSet(Core) \subseteq ToSet(s)
    BY <1>3, <2>2 DEF Whole
  <2>4. Len(s) >= 6 /\ Len(s) \in Nat
    BY <2>3, CoreTakesSix
  <2>5. Len(s) <= 6 + n
    BY <1>4, <1>7, <2>2, <2>4
  <2>6. QED
    BY <1>3, <2>2, <2>4, <2>5 DEF Proposes, n
<1>10. QED
  BY <1>8, <1>9 DEF s, n

\* A proposal that fits is what is validated.
LEMMA ProposalStands ==
  ASSUME NEW proposed, Whole(proposed), NEW allowed, ToSet(proposed) \subseteq allowed,
         NEW requested \in Int, Len(proposed) <= EffectiveSteps(requested),
         NEW labels, NEW defaults, NEW experimental, NEW f,
         NEW anchored, ~anchored
  PROVE  Validate(proposed, allowed, requested, labels, defaults, experimental, f,
                  anchored).validated = proposed
<1>1. EffectiveSteps(requested) \in Int
  BY StepsAreBounded
<1>2. MandatoryFloor(labels.floor) \in SUBSET ToSet(Core)
  BY FloorIsCore
<1>3. Passes(proposed, MandatoryFloor(labels.floor), allowed,
             EffectiveSteps(requested), anchored)
  <2>1. Len(proposed) >= 6
    BY CoreTakesSix DEF Whole
  <2>2. QED
    BY <1>1, <1>2, <2>1, WholePasses
<1>4. QED
  BY <1>3, FirstIsTaken DEF Validate

\* Nothing is validated but the core and what was proposed: where not even the
\* core with what was proposed passes, there is room for the core alone.
LEMMA NothingElseIsValidated ==
  ASSUME NEW proposed \in Seq(Families), NEW E,
         ToSet(proposed) \subseteq ToSet(Core) \cup E,
         NEW allowed, ToSet(Core) \subseteq allowed,
         NEW requested \in Int, NEW labels, NEW defaults, NEW experimental,
         NEW c \in Context, NEW anchored, ~anchored
  PROVE  ToSet(Validate(proposed, allowed, requested, labels, defaults, experimental,
                        Features(c), anchored).validated) \subseteq ToSet(Core) \cup E
<1> DEFINE f == Features(c)
           limit == EffectiveSteps(requested)
           floor == MandatoryFloor(labels.floor)
           overlays == (ToSet(proposed) \ ToSet(Core)) \cap allowed
           corrected == ComposeCoreProtected(overlays, limit, defaults, f, labels.primary)
           safe == FallbackSequence(labels, allowed, limit, experimental, f)
           Fits(s) == Passes(s, floor, allowed, limit, anchored)
           r == Validate(proposed, allowed, requested, labels, defaults,
                         experimental, f, anchored)
<1>1. /\ Fits(proposed) => r.validated = proposed
      /\ ~Fits(proposed) /\ Fits(corrected) => r.validated = corrected
      /\ ~Fits(proposed) /\ ~Fits(corrected) => r.validated = safe
  BY FirstIsTaken DEF Validate
<1>2. limit \in Int /\ limit >= 6
  BY StepsAreBounded
<1>3. floor \in SUBSET ToSet(Core)
  BY FloorIsCore
<1>4. overlays \in SUBSET Families /\ IsFiniteSet(overlays) /\ overlays \subseteq E
  <2>1. IsFiniteSet(ToSet(proposed)) /\ ToSet(proposed) \subseteq Families
    BY SequenceIsFinite
  <2>2. overlays \in SUBSET ToSet(proposed)
    OBVIOUS
  <2>3. IsFiniteSet(overlays)
    BY <2>1, <2>2, FS_Subset
  <2>4. QED
    BY <2>1, <2>2, <2>3
<1>5. overlays \subseteq allowed
  OBVIOUS
<1> HIDE DEF limit, overlays
<1>6. PICK X \in SUBSET overlays :
        /\ corrected = Composed(X)
        /\ Len(corrected) <= limit \/ (limit = 6 /\ "ext_open_thinker" \in overlays)
  BY <1>2, <1>4, ComposedFits
<1>7. Fits(safe) /\ (limit = 6 => ToSet(safe) = ToSet(Core))
  BY <1>2, FallbackPasses
<1> HIDE DEF floor, corrected, safe, r
<1>8. /\ Whole(corrected) /\ ToSet(corrected) \subseteq ToSet(Core) \cup X
      /\ Len(corrected) >= 6
  <2>1. Holds(Composed(X), X \cap Overlays)
    BY ComposedHolds
  <2>2. corrected \in Seq(Families) /\ ToSet(Core) \subseteq ToSet(corrected)
    BY <1>6, <2>1 DEF Holds, Whole
  <2>3. QED
    BY <1>6, <2>1, <2>2, CoreTakesSix DEF Holds
<1>9. Len(corrected) <= limit => Fits(corrected)
  <2>1. ToSet(corrected) \subseteq allowed
    BY <1>5, <1>6, <1>8
  <2>2. QED
    BY <1>2, <1>3, <1>8, <2>1, WholePasses
<1> HIDE DEF Fits
<1>10. CASE r.validated = proposed
  BY <1>10 DEF r
<1>11. CASE r.validated = corrected
  BY <1>4, <1>6, <1>8, <1>11 DEF r
<1>12. CASE r.validated = safe /\ ~Fits(corrected)
  <2>1. ToSet(safe) = ToSet(Core)
    BY <1>6, <1>7, <1>9, <1>12
  <2>2. QED
    BY <1>12, <2>1 DEF r
<1>13. QED
  BY <1>1, <1>10, <1>11, <1>12

\* The families a profile other than the second ecology runs are the core's and
\* those directives leave; and it runs all of those if there is room for them.
LEMMA WhatIsLeftIsRun ==
  ASSUME NEW ask, ask.context \in Context, ask.override \in Int,
         ask.profile \in DOMAIN Profiles, ask.profile # "adaptive_family_ecology_v2",
         NEW directives
  PROVE  LET r == SelectSequence(ask, directives)
             left == Enabled(Optional(ask), directives)
         IN  /\ ToSet(r.validated) \subseteq ToSet(Core) \cup ToSet(left)
             /\ r.limit >= 6 + Len(left) => ToSet(left) \subseteq ToSet(r.validated)
<1> DEFINE c == ask.context
           f == Features(c)
           labels == RegimeLabels(ask.hint, f)
           own == Optional(ask)
           left == Enabled(own, directives)
           requested == MaxSteps(f, ask.override)
           allowed == ToSet(Core) \cup ToSet(own)
           legacy == Max({requested, 6})
           roomy == Max({requested, 6 + Len(left)})
           plain == NonAdaptiveSequence(ask.profile, left)
           listed == LegacySequence(ask.profile, left, f, labels.primary,
                                    ask.experimental, legacy, directives)
           r == SelectSequence(ask, directives)
           n == 6 + Len(left)
           anchored == FALSE
<1>1. \/ r = Validate(plain, allowed, roomy, labels, ToSet(left), ask.experimental,
                      f, anchored)
      \/ r = Validate(listed, allowed, legacy, labels, {}, ask.experimental, f, anchored)
  <2>1. SelectedAs(ask, directives, r)
    BY SelectionSelects
  <2>2. QED
    BY <2>1 DEF SelectedAs
<1>2. /\ left \in Seq(Optionals) /\ ToSet(left) \subseteq ToSet(own)
      /\ ToSet(left) \subseteq ToSet(Profiles[ask.profile].optional)
  BY LeftAre
<1>3. c \in Context /\ requested \in Int
  BY MaxStepsIsWhole
<1>4. ToSet(Core) \subseteq allowed /\ ToSet(left) \subseteq allowed
  BY <1>2
<1>5. Len(left) \in Nat
  BY <1>2
<1>6. ~anchored
  OBVIOUS
<1> HIDE DEF anchored
<1> HIDE DEF r, c, labels, own, left, requested, allowed
<1>7. /\ legacy \in Int /\ legacy >= 6 /\ EffectiveSteps(legacy) <= legacy
      /\ roomy \in Int
  BY <1>3, <1>5, RoomIsWhole
<1> HIDE DEF legacy, roomy
<1>8. \A q \in Int : EffectiveSteps(q) \in Int
  BY StepsAreBounded
<1>9. Proposes(plain, left)
  BY <1>2, NonAdaptiveProposes
<1>10. /\ ToSet(listed) \subseteq ToSet(Core) \cup ToSet(left)
       /\ n <= legacy => Proposes(listed, left)
  BY <1>2, <1>3, <1>7, LegacyProposes
<1>11. listed \in Seq(Families)
  BY <1>2, <1>3, <1>7, LegacyIsTidy DEF Tidy
<1> HIDE DEF plain, listed
<1>12. n \in Int
  BY <1>5
<1> HIDE DEF n
<1>13. CASE r = Validate(plain, allowed, roomy, labels, ToSet(left), ask.experimental,
                         f, anchored)
  <2>1. /\ Whole(plain) /\ plain \in Seq(Families) /\ Len(plain) >= 6 /\ Len(plain) <= n
        /\ ToSet(plain) = ToSet(Core) \cup ToSet(left)
    BY <1>9 DEF Proposes, Whole, n
  <2>2. ToSet(r.validated) \subseteq ToSet(Core) \cup ToSet(left)
    BY <1>3, <1>4, <1>7, <1>13, <2>1, <1>6, NothingElseIsValidated
  <2>3. r.limit = EffectiveSteps(roomy)
    BY <1>13 DEF Validate, FirstToPass
  <2>4. ASSUME r.limit >= n PROVE r.validated = plain
    <3>1. Len(plain) <= EffectiveSteps(roomy)
      <4>1. Len(plain) \in Nat /\ Len(plain) <= n
        BY <2>1
      <4>2. EffectiveSteps(roomy) \in Int
        BY <1>7, <1>8
      <4>3. n <= EffectiveSteps(roomy)
        BY <1>12, <2>3, <2>4, <4>2
      <4>4. QED
        BY <1>12, <4>1, <4>2, <4>3
    <3>2. ToSet(plain) \subseteq allowed
      BY <1>4, <2>1
    <3> HIDE DEF f
    <3>3. Whole(plain)
      BY <2>1
    <3>4. Validate(plain, allowed, roomy, labels, ToSet(left), ask.experimental, f,
                   anchored).validated = plain
      BY <1>7, <1>6, <3>1, <3>2, <3>3, ProposalStands
    <3>5. QED
      BY <1>13, <3>4
  <2>5. QED
    BY <2>1, <2>2, <2>4 DEF r, left, own, n
<1>14. CASE r = Validate(listed, allowed, legacy, labels, {}, ask.experimental, f,
                         anchored)
  <2>1. ToSet(r.validated) \subseteq ToSet(Core) \cup ToSet(left)
    <3>1. ToSet(listed) \subseteq ToSet(Core) \cup ToSet(left)
      BY <1>10
    <3>2. ToSet(Validate(listed, allowed, legacy, labels, {}, ask.experimental,
                         Features(c), anchored).validated)
            \subseteq ToSet(Core) \cup ToSet(left)
      BY <1>3, <1>4, <1>6, <1>7, <1>11, <3>1, NothingElseIsValidated
    <3>3. QED
      BY <1>14, <3>2
  <2>2. r.limit = EffectiveSteps(legacy)
    BY <1>14 DEF Validate, FirstToPass
  <2>3. ASSUME r.limit >= n
        PROVE  r.validated = listed /\ ToSet(listed) = ToSet(Core) \cup ToSet(left)
    <3>1. EffectiveSteps(legacy) \in Int
      BY <1>7, <1>8
    <3>2. n <= legacy
      BY <1>7, <1>12, <2>2, <2>3, <3>1
    <3>3. /\ Whole(listed) /\ Len(listed) >= 6 /\ Len(listed) <= n
          /\ ToSet(listed) = ToSet(Core) \cup ToSet(left)
      <4>1. Proposes(listed, left)
        BY <1>10, <3>2
      <4>2. QED
        BY <4>1 DEF Proposes, n
    <3>4. Len(listed) <= EffectiveSteps(legacy)
      <4>1. Len(listed) \in Nat
        BY <1>11
      <4>2. QED
        BY <1>12, <2>2, <2>3, <3>1, <3>3, <4>1
    <3>5. ToSet(listed) \subseteq allowed
      BY <1>4, <3>3
    <3> HIDE DEF f
    <3>6. Whole(listed)
      BY <3>3
    <3>7. Validate(listed, allowed, legacy, labels, {}, ask.experimental, f,
                   anchored).validated = listed
      BY <1>7, <1>6, <3>4, <3>5, <3>6, ProposalStands
    <3>8. QED
      BY <1>14, <3>3, <3>7
  <2>4. QED
    BY <2>1, <2>3 DEF r, left, own, n
<1>15. QED
  BY <1>1, <1>13, <1>14
=============================================================================
