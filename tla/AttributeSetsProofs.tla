-------------------------- MODULE AttributeSetsProofs --------------------------
(***************************************************************************)
(* Theorems about AttributeSets, for any drawings and options of requests  *)
(* and any number of requests: groups are well drawn, variation attributes *)
(* survive updates, configurations stay sound, and products get the texts  *)
(* of the configuration made for them; about DetailContent, for any groups *)
(* and attributes; and about VariantGroups, for any batches of variants,   *)
(* any number of requests at once and any number of edits.                 *)
(***************************************************************************)
EXTENDS AttributeSets, DetailContent, VariantGroups, FiniteSetTheorems, WellFoundedInduction, TLAPS

-----------------------------------------------------------------------------
(* Numbers.                                                                *)

\* A set of natural numbers has a least one.
LEMMA LeastOfNumbers ==
  ASSUME NEW T \in SUBSET Nat, T # {}
  PROVE  \E x \in T : \A y \in T : x <= y
<1>1. PICK x \in T : \A y \in T : ~(<<y, x>> \in OpToRel(<, Nat))
  BY NatLessThanWellFounded, WFMin
<1>2. \A y \in T : ~(y < x)
  BY <1>1 DEF OpToRel
<1> QED BY <1>2

\* A bounded one has a greatest one, its maximum.
LEMMA MaxOfNumbers ==
  ASSUME NEW n \in Nat, NEW T \in SUBSET (0 .. n), T # {}
  PROVE  Max(T) \in T /\ \A y \in T : y <= Max(T)
<1> DEFINE Gaps == {n - y : y \in T}
<1>1. Gaps \in SUBSET Nat /\ Gaps # {}
  <2>1. \A y \in T : n - y \in Nat
    OBVIOUS
  <2> QED BY <2>1
<1>2. PICK g \in Gaps : \A h \in Gaps : g <= h
  BY <1>1, LeastOfNumbers
<1>3. PICK x \in T : g = n - x
  BY <1>2
<1>4. \A y \in T : x >= y
  <2> TAKE y \in T
  <2>1. n - x <= n - y
    BY <1>2, <1>3
  <2> QED BY <2>1
<1> QED BY <1>4 DEF Max

-----------------------------------------------------------------------------
(* Ids.                                                                    *)

\* Rows get different ids, those they had or free ones.
LEMMA AssignedIds ==
  ASSUME NEW N \in Nat, NEW had, DOMAIN had = 1 .. N,
         NEW free \in SUBSET Nat, NEW ids \in Assigned(had, free),
         \A n \in 1 .. N : had[n] # None => had[n] \notin free,
         \A n, k \in 1 .. N : had[n] = had[k] /\ had[n] # None => n = k
  PROVE  /\ DOMAIN ids = 1 .. N
         /\ \A n \in 1 .. N : IF had[n] # None THEN ids[n] = had[n] ELSE ids[n] \in free
         /\ \A n, k \in 1 .. N : ids[n] = ids[k] => n = k
<1>1. /\ DOMAIN ids = 1 .. N
      /\ \A n \in 1 .. N :
           IF had[n] # None THEN ids[n] = had[n]
           ELSE /\ ids[n] \in free
                /\ {i \in free : i < ids[n]} = {ids[k] : k \in {k \in 1..(n - 1) : had[k] = None}}
  BY DEF Assigned
<1>2. ASSUME NEW n \in 1 .. N, NEW k \in 1 .. N, k < n, ids[n] = ids[k]
      PROVE  FALSE
  <2>1. CASE had[n] = None /\ had[k] = None
    <3>1. k \in {j \in 1..(n - 1) : had[j] = None}
      BY <1>2, <2>1
    <3>2. ids[k] \in {i \in free : i < ids[n]}
      BY <1>1, <2>1, <3>1
    <3>3. ids[n] \in Nat /\ ids[k] < ids[n]
      BY <1>1, <2>1, <3>2
    <3> QED BY <1>2, <3>3
  <2>2. CASE had[n] # None /\ had[k] # None
    BY <1>1, <1>2, <2>2
  <2>3. CASE ~(had[n] = None <=> had[k] = None)
    BY <1>1, <1>2, <2>3
  <2> QED BY <2>1, <2>2, <2>3
<1>3. \A n, k \in 1 .. N : ids[n] = ids[k] => n = k
  <2> SUFFICES ASSUME NEW n \in 1 .. N, NEW k \in 1 .. N, ids[n] = ids[k]
               PROVE  n = k
    OBVIOUS
  <2>1. ~(k < n) /\ ~(n < k)
    BY <1>2
  <2> QED BY <2>1
<1> QED BY <1>1, <1>3

-----------------------------------------------------------------------------
(* The inductive invariant.                                                *)

\* Ranks do not grow beyond all bounds.
RanksBounded ==
  \E n \in Nat : \A g \in DOMAIN groups : \A a \in DOMAIN groups[g].attrs : groups[g].attrs[a].rank <= n

\* A configuration fits into its slots.
ConfigsFit == \A i \in DOMAIN configs : Len(configs[i].attrs) <= Slots

IInv == GroupsWellDrawn /\ RanksBounded /\ ConfigsSound /\ ConfigsFit

LEMMA InitInv == Init => IInv
<1> SUFFICES ASSUME Init PROVE IInv
  OBVIOUS
<1>1. /\ DOMAIN groups = System
      /\ \A g \in System :
           /\ groups[g] = [parent |-> None, path |-> <<g>>, attrs |-> [a \in SystemOwn[g] |-> Plain]]
           /\ groups[g].parent = None /\ groups[g].path = <<g>>
           /\ groups[g].attrs = [a \in SystemOwn[g] |-> Plain]
  BY DEF Init
<1>0. DOMAIN groups = System /\ \A g \in System : groups[g].parent = None /\ groups[g].path = <<g>>
  BY <1>1
<1>2. \A g \in System : /\ DOMAIN groups[g].attrs = SystemOwn[g]
                        /\ \A a \in SystemOwn[g] : groups[g].attrs[a] = Plain
  BY <1>1
<1>3. Plain \in Row /\ Plain.variation = FALSE /\ Plain.rank = 0
  BY DEF Plain, Row
<1>4. /\ DOMAIN configs = {} /\ configs \in [DOMAIN configs -> Config]
      /\ details \in [DOMAIN configs -> SUBSET Attribute]
      /\ strayed = {} /\ hidden = {} /\ default = FALSE /\ requests = 0
  <2>1. /\ configs = [i \in {} |-> None] /\ details = [i \in {} |-> {}]
        /\ strayed = {} /\ hidden = {} /\ default = FALSE /\ requests = 0
    BY DEF Init
  <2> QED BY <2>1
<1>5. TypeOK
  <2>1. \A g \in System : SystemOwn[g] \subseteq Attribute
    BY ConstantsAssumption
  <2>2. \A g \in System : groups[g] = WithRows(g, groups[g].attrs)
    BY <1>1 DEF WithRows
  <2>3. ASSUME NEW g \in System
        PROVE  groups[g].path \in Seq(System \cup GroupId)
    <3>1. g \in System \cup GroupId
      OBVIOUS
    <3>2. <<g>> \in Seq(System \cup GroupId)
      BY <3>1
    <3> QED BY <1>0, <3>2
  <2>4. \A g \in System : /\ DOMAIN groups[g].attrs \subseteq Attribute
                          /\ groups[g].attrs \in [DOMAIN groups[g].attrs -> Row]
    BY <1>1, <1>3, <2>1
  <2>5. requests \in 0 .. MaxRequests
    BY <1>4, ConstantsAssumption
  <2>6. \A g \in System : groups[g].parent \in System \cup GroupId \cup {None}
    BY <1>1
  <2>7. DOMAIN configs \subseteq ConfigId /\ (DOMAIN configs # {} => default)
    BY <1>4
  <2> QED BY <1>1, <1>4, <2>2, <2>3, <2>4, <2>5, <2>6, <2>7 DEF TypeOK
<1>6. PathsFollowGroups
  <2>1. \A g \in System : Len(<<g>>) = 1
    OBVIOUS
  <2> QED BY <1>0, <2>1 DEF PathsFollowGroups
<1>7. RanksDistinct
  BY <1>1, <1>2, <1>3 DEF RanksDistinct
<1>8. RanksBounded
  <2>1. \A g \in DOMAIN groups : \A a \in DOMAIN groups[g].attrs : groups[g].attrs[a].rank <= 0
    BY <1>1, <1>2, <1>3
  <2> QED BY <2>1 DEF RanksBounded
<1>9. Live = {}
  <2>1. \A i : i \notin DOMAIN configs
    BY <1>4
  <2> QED BY <2>1 DEF Live
<1>10. ConfigsSound
  BY <1>9 DEF ConfigsSound, ConfiguredStay, NoDuplicateConfigs, Configured
<1> QED BY <1>4, <1>5, <1>6, <1>7, <1>8, <1>10 DEF IInv, GroupsWellDrawn, ConfigsFit

-----------------------------------------------------------------------------
(* Drawings.                                                               *)

Drawn0 == [temp : System \cup Temp, parent : System \cup Temp \cup {None}, attrs : SUBSET Attribute]

LEMMA DrawingTyped ==
  ASSUME NEW d \in Drawings
  PROVE  /\ Len(d) \in Nat /\ DOMAIN d = 1 .. Len(d)
         /\ \A i \in DOMAIN d : d[i] \in Drawn0
         /\ \A i, j \in DOMAIN d : d[i].temp = d[j].temp => i = j
<1>1. d \in Seq(Drawn0)
  BY DrawingsAssumption DEF Drawn0
<1> QED BY <1>1, DrawingsAssumption

\* The parent of a group is found, before the group.
LEMMA ParentBefore ==
  ASSUME NEW d \in Drawings, ParentsFirst(d), NEW n \in DOMAIN d, d[n].parent # None
  PROVE  /\ At(d, d[n].parent) \in 1 .. (n - 1) /\ At(d, d[n].parent) \in DOMAIN d
         /\ d[At(d, d[n].parent)].temp = d[n].parent
<1>1. PICK j \in 1 .. (n - 1) : d[j].temp = d[n].parent
  BY DEF ParentsFirst
<1>2. j \in DOMAIN d
  BY DrawingTyped
<1>3. At(d, d[n].parent) \in DOMAIN d /\ d[At(d, d[n].parent)].temp = d[n].parent
  BY <1>1, <1>2 DEF At
<1>4. At(d, d[n].parent) = j
  BY <1>1, <1>2, <1>3, DrawingTyped
<1> QED BY <1>1, <1>3, <1>4

\* The equation of PathAt.
PathStep(d, ids, f, n) ==
  IF d[n].parent = None THEN <<ids[n]>> ELSE Append(f[At(d, d[n].parent)], ids[n])

LEMMA PathStepTyped ==
  ASSUME NEW d \in Drawings, ParentsFirst(d), NEW S, NEW ids \in [DOMAIN d -> S],
         NEW n \in DOMAIN d, NEW f, \A k \in 1 .. (n - 1) : f[k] \in Seq(S)
  PROVE  PathStep(d, ids, f, n) \in Seq(S)
<1>1. CASE d[n].parent = None
  <2>1. ids[n] \in S
    OBVIOUS
  <2>2. <<ids[n]>> \in Seq(S)
    BY <2>1
  <2> QED BY <1>1, <2>2 DEF PathStep
<1>2. CASE d[n].parent # None
  <2>1. f[At(d, d[n].parent)] \in Seq(S) /\ ids[n] \in S
    BY <1>2, ParentBefore
  <2>2. Append(f[At(d, d[n].parent)], ids[n]) \in Seq(S)
    BY <2>1
  <2> QED BY <1>2, <2>2 DEF PathStep
<1> QED BY <1>1, <1>2

\* It has a solution, from the first group to the last.
LEMMA PathsExist ==
  ASSUME NEW d \in Drawings, ParentsFirst(d), NEW S, NEW ids \in [DOMAIN d -> S]
  PROVE  \E f \in [DOMAIN d -> Seq(S)] : \A n \in DOMAIN d : f[n] = PathStep(d, ids, f, n)
<1> DEFINE N == Len(d)
           Solved(m) == \E f \in [1 .. m -> Seq(S)] : \A n \in 1 .. m : f[n] = PathStep(d, ids, f, n)
           Unsolved == {m \in 0 .. N : ~Solved(m)}
<1>1. N \in Nat /\ DOMAIN d = 1 .. N
  BY DrawingTyped
<1>2. SUFFICES Unsolved = {}
  <2>1. N \in 0 .. N
    BY <1>1
  <2> HIDE DEF N
  <2>2. Unsolved = {} => Solved(N)
    BY <2>1
  <2> QED BY <1>1, <2>2
<1>3. SUFFICES ASSUME Unsolved # {}
               PROVE  FALSE
  OBVIOUS
<1>4. Unsolved \in SUBSET Nat
  BY <1>1
<1>5. PICK m \in Unsolved : \A k \in Unsolved : m <= k
  <2> HIDE DEF Unsolved
  <2> QED BY <1>3, <1>4, LeastOfNumbers
<1>6. m \in 0 .. N /\ ~Solved(m)
  OBVIOUS
<1>7. CASE m = 0
  <2>1. [n \in 1 .. 0 |-> <<>>] \in [1 .. 0 -> Seq(S)] /\ \A n \in 1 .. 0 : FALSE
    OBVIOUS
  <2>2. Solved(0)
    BY <2>1
  <2> QED BY <1>6, <1>7, <2>2
<1>8. CASE m # 0
  <2>1. m - 1 \in 0 .. N /\ m \in 1 .. N /\ ~(m <= m - 1)
    BY <1>1, <1>6, <1>8
  <2>2. Solved(m - 1)
    <3>1. m - 1 \notin Unsolved
      BY <1>5, <2>1
    <3> HIDE DEF Solved
    <3> QED BY <2>1, <3>1
  <2>3. PICK f \in [1 .. (m - 1) -> Seq(S)] : \A n \in 1 .. (m - 1) : f[n] = PathStep(d, ids, f, n)
    BY <2>2
  <2> DEFINE g == [n \in 1 .. m |-> IF n = m THEN PathStep(d, ids, f, m) ELSE f[n]]
  <2>4. PathStep(d, ids, f, m) \in Seq(S)
    <3>1. m \in DOMAIN d
      BY <1>1, <2>1
    <3> QED BY <2>3, <3>1, PathStepTyped
  <2>5. \A n \in 1 .. m : n = m \/ n \in 1 .. (m - 1)
    BY <1>1, <2>1
  <2>6. g \in [1 .. m -> Seq(S)]
    <3>1. \A n \in 1 .. m : (IF n = m THEN PathStep(d, ids, f, m) ELSE f[n]) \in Seq(S)
      BY <2>3, <2>4, <2>5
    <3> QED BY <3>1
  <2>7. ASSUME NEW n \in 1 .. m
        PROVE  g[n] = PathStep(d, ids, g, n)
    <3>1. g[n] = PathStep(d, ids, f, n)
      BY <2>3, <2>5
    <3>2. CASE d[n].parent = None
      BY <3>1, <3>2 DEF PathStep
    <3>3. CASE d[n].parent # None
      <4> DEFINE k == At(d, d[n].parent)
      <4>1. n \in DOMAIN d
        BY <1>1, <2>1
      <4>2. k \in 1 .. (n - 1)
        BY <3>3, <4>1, ParentBefore
      <4>3. k \in 1 .. m /\ k # m
        BY <2>1, <4>2
      <4> HIDE DEF k
      <4>4. g[k] = f[k]
        BY <4>3
      <4> HIDE DEF g
      <4>5. Append(g[k], ids[n]) = Append(f[k], ids[n])
        BY <4>4
      <4> QED BY <3>1, <3>3, <4>5 DEF PathStep, k
    <3> QED BY <3>2, <3>3
  <2>8. Solved(m)
    <3> HIDE DEF g
    <3> QED BY <2>6, <2>7
  <2> QED BY <1>6, <2>8
<1> QED BY <1>7, <1>8

\* Paths are sequences of ids that follow the parents.
LEMMA PathsOfDrawing ==
  ASSUME NEW d \in Drawings, ParentsFirst(d), NEW S, NEW ids \in [DOMAIN d -> S],
         NEW n \in DOMAIN d
  PROVE  /\ PathAt(d, ids, n) \in Seq(S) /\ Len(PathAt(d, ids, n)) \in Nat \ {0}
         /\ IF d[n].parent = None
            THEN PathAt(d, ids, n) = <<ids[n]>> /\ Len(PathAt(d, ids, n)) = 1
            ELSE /\ PathAt(d, ids, n) = Append(PathAt(d, ids, At(d, d[n].parent)), ids[n])
                 /\ Len(PathAt(d, ids, n)) # 1
<1> DEFINE Solution(f) == f = [k \in DOMAIN d |-> PathStep(d, ids, f, k)]
           h == CHOOSE f : Solution(f)
<1>1. PICK f \in [DOMAIN d -> Seq(S)] : \A k \in DOMAIN d : f[k] = PathStep(d, ids, f, k)
  BY PathsExist
<1>2. f = [k \in DOMAIN d |-> PathStep(d, ids, f, k)]
  BY <1>1
<1>3. Solution(f)
  BY <1>2
<1>4. Solution(h)
  <2> HIDE DEF Solution
  <2> QED BY <1>3
<1>5. \A k \in DOMAIN d : PathAt(d, ids, k) = h[k]
  BY DEF PathAt, PathStep
<1> HIDE DEF h
<1>6. DOMAIN h = DOMAIN d /\ \A k \in DOMAIN d : h[k] = PathStep(d, ids, h, k)
  BY <1>4
<1>7. \A k \in DOMAIN d : h[k] = f[k]
  <2> DEFINE Other == {k \in DOMAIN d : h[k] # f[k]}
  <2>1. SUFFICES ASSUME Other # {}
                 PROVE  FALSE
    OBVIOUS
  <2>2. Other \in SUBSET Nat
    BY DrawingTyped
  <2>3. PICK k \in Other : \A j \in Other : k <= j
    <3> HIDE DEF Other
    <3> QED BY <2>1, <2>2, LeastOfNumbers
  <2>4. k \in DOMAIN d /\ h[k] # f[k]
    OBVIOUS
  <2>5. d[k].parent # None
    BY <1>1, <1>6, <2>4 DEF PathStep
  <2> DEFINE p == At(d, d[k].parent)
  <2>6. p \in 1 .. (k - 1) /\ p \in DOMAIN d
    BY <2>4, <2>5, ParentBefore
  <2>7. ~(k <= p)
    BY <2>2, <2>6
  <2>8. h[p] = f[p]
    <3> HIDE DEF p
    <3> QED BY <2>3, <2>6, <2>7
  <2>9. h[k] = Append(h[p], ids[k]) /\ f[k] = Append(f[p], ids[k])
    BY <1>1, <1>6, <2>4, <2>5 DEF PathStep
  <2> QED BY <2>4, <2>8, <2>9
<1>8. ASSUME NEW k \in DOMAIN d
      PROVE  /\ PathAt(d, ids, k) \in Seq(S) /\ Len(PathAt(d, ids, k)) \in Nat \ {0}
             /\ d[k].parent = None => PathAt(d, ids, k) = <<ids[k]>> /\ Len(PathAt(d, ids, k)) = 1
             /\ d[k].parent # None =>
                  /\ PathAt(d, ids, k) = Append(PathAt(d, ids, At(d, d[k].parent)), ids[k])
                  /\ Len(PathAt(d, ids, k)) = Len(PathAt(d, ids, At(d, d[k].parent))) + 1
  <2>0. PathAt(d, ids, k) \in Seq(S)
    BY <1>5, <1>7
  <2>1. CASE d[k].parent = None
    <3>1. PathAt(d, ids, k) = <<ids[k]>>
      BY <1>5, <1>6, <2>1 DEF PathStep
    <3>2. Len(<<ids[k]>>) = 1
      OBVIOUS
    <3> QED BY <2>0, <2>1, <3>1, <3>2
  <2>2. CASE d[k].parent # None
    <3> DEFINE q == At(d, d[k].parent)
    <3>1. q \in DOMAIN d
      BY <2>2, ParentBefore
    <3>2. PathAt(d, ids, k) = Append(PathAt(d, ids, q), ids[k])
      BY <1>5, <1>6, <2>2, <3>1 DEF PathStep
    <3>3. PathAt(d, ids, q) \in Seq(S) /\ ids[k] \in S
      BY <1>5, <1>7, <3>1
    <3> HIDE DEF q
    <3>4. ASSUME NEW s \in Seq(S), NEW x \in S
          PROVE  Len(Append(s, x)) = Len(s) + 1 /\ Len(s) \in Nat /\ Len(s) + 1 \in Nat \ {0}
      OBVIOUS
    <3>5. Len(PathAt(d, ids, k)) = Len(PathAt(d, ids, q)) + 1 /\ Len(PathAt(d, ids, k)) \in Nat \ {0}
      BY <3>2, <3>3, <3>4
    <3> QED BY <2>0, <2>2, <3>2, <3>5 DEF q
  <2> QED BY <2>1, <2>2
<1>9. CASE d[n].parent = None
  BY <1>8, <1>9
<1>10. CASE d[n].parent # None
  <2> DEFINE q == At(d, d[n].parent)
  <2>1. q \in DOMAIN d
    BY <1>10, ParentBefore
  <2>2. /\ Len(PathAt(d, ids, q)) \in Nat \ {0}
        /\ Len(PathAt(d, ids, n)) = Len(PathAt(d, ids, q)) + 1
        /\ PathAt(d, ids, n) = Append(PathAt(d, ids, q), ids[n])
        /\ PathAt(d, ids, n) \in Seq(S) /\ Len(PathAt(d, ids, n)) \in Nat \ {0}
    BY <1>8, <1>10, <2>1
  <2>3. Len(PathAt(d, ids, n)) # 1
    BY <2>2
  <2> QED BY <1>10, <2>2, <2>3
<1> QED BY <1>9, <1>10

-----------------------------------------------------------------------------
(* Updates of the set.                                                     *)

LEMMA IdsOfDrawing ==
  ASSUME TypeOK, NEW d \in Drawings, NEW ids \in IdsOf(d)
  PROVE  /\ ids \in [DOMAIN d -> System \cup GroupId]
         /\ \A i, j \in DOMAIN d : ids[i] = ids[j] => i = j
         /\ \A i \in DOMAIN d : ids[i] \in System <=> d[i].temp \in System
         /\ \A i \in DOMAIN d : ids[i] \in System => ids[i] = d[i].temp
<1> DEFINE had == [i \in DOMAIN d |-> IF d[i].temp \in System THEN d[i].temp ELSE None]
           free == GroupId \ DOMAIN groups
           N == Len(d)
<1>1. /\ N \in Nat /\ DOMAIN d = 1 .. N /\ DOMAIN had = 1 .. N
      /\ \A i, j \in 1 .. N : d[i].temp = d[j].temp => i = j
  BY DrawingTyped
<1>2. ids \in Assigned(had, free)
  BY DEF IdsOf
<1>3. /\ free \in SUBSET Nat /\ System \cap GroupId = {} /\ None \notin System
  BY ConstantsAssumption
<1>4. \A n \in 1 .. N : /\ had[n] # None => had[n] = d[n].temp /\ had[n] \in System
                        /\ had[n] = None => d[n].temp \notin System
  BY <1>1, <1>3
<1>5. /\ \A n \in 1 .. N : had[n] # None => had[n] \notin free
      /\ \A n, k \in 1 .. N : had[n] = had[k] /\ had[n] # None => n = k
  BY <1>1, <1>3, <1>4
<1>6. ids \in [DOMAIN had -> free \cup {had[n] : n \in DOMAIN had}]
  BY <1>2 DEF Assigned
<1> HIDE DEF had, free, N
<1>7. /\ \A n \in 1 .. N : IF had[n] # None THEN ids[n] = had[n] ELSE ids[n] \in free
      /\ \A n, k \in 1 .. N : ids[n] = ids[k] => n = k
  BY <1>1, <1>2, <1>3, <1>5, AssignedIds
<1>8. \A n \in 1 .. N : /\ d[n].temp \in System => ids[n] = d[n].temp
                        /\ d[n].temp \notin System => ids[n] \in GroupId
  BY <1>4, <1>7 DEF free
<1>9. ids \in [DOMAIN d -> System \cup GroupId]
  BY <1>1, <1>6, <1>8
<1> QED BY <1>1, <1>3, <1>7, <1>8, <1>9

Shaped(r) == r = [parent |-> r.parent, path |-> r.path, attrs |-> r.attrs]

LEMMA ShapedRecord ==
  ASSUME NEW x, NEW y, NEW z, NEW r, r = [parent |-> x, path |-> y, attrs |-> z]
  PROVE  Shaped(r) /\ r.parent = x /\ r.path = y /\ r.attrs = z
BY DEF Shaped

\* What an update makes of the group at i.
OldParent(g) == IF g \in System THEN groups[g].parent ELSE None
ParentAt(d, ids, i) ==
  IF d[i].parent = None THEN OldParent(ids[i]) ELSE ids[At(d, d[i].parent)]
RowsAt(d, ids, i) == IF ids[i] \in System THEN groups[ids[i]].attrs ELSE NewRows(d[i].attrs)
GroupAt(u, d, ids, i) ==
  /\ Shaped(u[ids[i]])
  /\ u[ids[i]].parent = ParentAt(d, ids, i)
  /\ u[ids[i]].path = PathAt(d, ids, i)
  /\ u[ids[i]].attrs = RowsAt(d, ids, i)

\* The groups after an update, one by one.
LEMMA DrawnGroups ==
  ASSUME TypeOK, NEW d \in Drawings, ParentsFirst(d), NEW ids \in IdsOf(d),
         NEW u, u = Drawn(d, ids)
  PROVE  /\ DOMAIN u = System \cup {ids[i] : i \in DOMAIN d}
         /\ \A g \in System : g \in {ids[i] : i \in DOMAIN d} \/ u[g] = groups[g]
         /\ \A i \in DOMAIN d : GroupAt(u, d, ids, i)
<1> DEFINE Ids == {ids[i] : i \in DOMAIN d}
           at(g) == CHOOSE i \in DOMAIN d : ids[i] = g
<1>1. DOMAIN u = System \cup Ids
  BY DEF Drawn, Remaining
<1>2. \A g \in System : g \in Ids \/ u[g] = groups[g]
  BY DEF Drawn, Remaining
<1>3. ASSUME NEW i \in DOMAIN d
      PROVE  GroupAt(u, d, ids, i)
  <2>1. ids[i] \in Ids
    OBVIOUS
  <2>2. at(ids[i]) = i
    BY IdsOfDrawing
  <2> DEFINE g == ids[i]
             old == IF g \in System THEN groups[g]
                    ELSE [parent |-> None, attrs |-> NewRows(d[at(g)].attrs)]
  <2>3. u[g] = [parent |-> IF d[at(g)].parent = None THEN old.parent
                           ELSE ids[At(d, d[at(g)].parent)],
                path |-> PathAt(d, ids, at(g)), attrs |-> old.attrs]
    BY <2>1 DEF Drawn, Remaining
  <2>4. old.attrs = RowsAt(d, ids, i) /\ old.parent = OldParent(g)
    <3>1. CASE g \in System
      BY <3>1 DEF RowsAt, OldParent
    <3>2. CASE g \notin System
      <4>1. old = [parent |-> None, attrs |-> NewRows(d[i].attrs)]
        BY <2>2, <3>2
      <4> HIDE DEF old
      <4>2. old.parent = None /\ old.attrs = NewRows(d[i].attrs)
        BY <4>1
      <4> QED BY <3>2, <4>2 DEF RowsAt, OldParent
    <3> QED BY <3>1, <3>2
  <2> HIDE DEF old, at
  <2>5. u[g] = [parent |-> ParentAt(d, ids, i), path |-> PathAt(d, ids, i), attrs |-> RowsAt(d, ids, i)]
    BY <2>2, <2>3, <2>4 DEF ParentAt
  <2> HIDE DEF g
  <2>6. /\ Shaped(u[g]) /\ u[g].parent = ParentAt(d, ids, i)
        /\ u[g].path = PathAt(d, ids, i) /\ u[g].attrs = RowsAt(d, ids, i)
    BY <2>5, ShapedRecord
  <2> QED BY <2>6 DEF GroupAt, g
<1> QED BY <1>1, <1>2, <1>3

LEMMA NewRowsTyped ==
  ASSUME NEW as \in SUBSET Attribute
  PROVE  /\ DOMAIN NewRows(as) = as /\ NewRows(as) \in [as -> Row]
         /\ \A a \in as : /\ NewRows(as)[a].rank = 0
                          /\ NewRows(as)[a].variation = (a \in VariationOf(groups))
<1>1. \A a \in as : [variation |-> a \in VariationOf(groups), rank |-> 0] \in Row
  BY DEF Row
<1> QED BY <1>1 DEF NewRows

\* The attributes of a group after an update.
LEMMA DrawnRows ==
  ASSUME TypeOK, NEW d \in Drawings, ParentsFirst(d), NEW ids \in IdsOf(d),
         NEW u, u = Drawn(d, ids), NEW g \in DOMAIN u
  PROVE  \/ g \in System /\ g \in DOMAIN groups /\ u[g].attrs = groups[g].attrs
         \/ g \notin System /\ \E as \in SUBSET Attribute : u[g].attrs = NewRows(as)
<1>1. System \subseteq DOMAIN groups
  BY DEF TypeOK
<1> DEFINE Ids == {ids[i] : i \in DOMAIN d}
<1>2. /\ DOMAIN u = System \cup Ids
      /\ \A h \in System : h \in Ids \/ u[h] = groups[h]
      /\ \A i \in DOMAIN d : GroupAt(u, d, ids, i)
  BY DrawnGroups
<1>3. CASE g \in Ids
  <2>1. PICK i \in DOMAIN d : ids[i] = g
    BY <1>3
  <2>2. d[i].attrs \in SUBSET Attribute
    BY DrawingTyped DEF Drawn0
  <2>3. u[g].attrs = RowsAt(d, ids, i)
    BY <1>2, <2>1 DEF GroupAt
  <2>4. CASE g \in System
    BY <1>1, <2>1, <2>3, <2>4 DEF RowsAt
  <2>5. CASE g \notin System
    BY <2>1, <2>2, <2>3, <2>5 DEF RowsAt
  <2> QED BY <2>4, <2>5
<1>4. CASE g \notin Ids
  BY <1>1, <1>2, <1>4
<1> QED BY <1>3, <1>4

LEMMA AttributesAre ==
  ASSUME NEW gs, NEW a
  PROVE  a \in AttributesOf(gs) <=> \E g \in DOMAIN gs : a \in DOMAIN gs[g].attrs
BY DEF AttributesOf

LEMMA VariationsAre ==
  ASSUME NEW gs, NEW a
  PROVE  a \in VariationOf(gs) <=>
           \E g \in DOMAIN gs : a \in DOMAIN gs[g].attrs /\ gs[g].attrs[a].variation
BY AttributesAre DEF VariationOf

\* The conjuncts of TypeOK about groups, for one group.
GroupTyped(gs, g) ==
  /\ Shaped(gs[g])
  /\ gs[g].parent \in System \cup GroupId \cup {None}
  /\ gs[g].path \in Seq(System \cup GroupId)
  /\ DOMAIN gs[g].attrs \subseteq Attribute
  /\ gs[g].attrs \in [DOMAIN gs[g].attrs -> Row]

LEMMA GroupsTyped ==
  ASSUME TypeOK
  PROVE  \A g \in DOMAIN groups : GroupTyped(groups, g)
BY DEF TypeOK, GroupTyped, Shaped, WithRows

\* The groups of an update have their types.
LEMMA DrawnTyped ==
  ASSUME TypeOK, NEW d \in Drawings, ParentsFirst(d), NEW ids \in IdsOf(d),
         NEW u, u = Drawn(d, ids)
  PROVE  /\ System \subseteq DOMAIN u /\ DOMAIN u \subseteq System \cup GroupId
         /\ \A g \in DOMAIN u : GroupTyped(u, g)
<1> DEFINE Ids == {ids[i] : i \in DOMAIN d}
<1>1. /\ DOMAIN u = System \cup Ids
      /\ \A h \in System : h \in Ids \/ u[h] = groups[h]
      /\ \A i \in DOMAIN d : GroupAt(u, d, ids, i)
  BY DrawnGroups
<1>2. System \subseteq DOMAIN groups
  BY DEF TypeOK
<1>3. ids \in [DOMAIN d -> System \cup GroupId]
  BY IdsOfDrawing
<1>4. ASSUME NEW i \in DOMAIN d
      PROVE  GroupTyped(u, ids[i])
  <2>1. GroupAt(u, d, ids, i)
    BY <1>1
  <2>2. ParentAt(d, ids, i) \in System \cup GroupId \cup {None}
    <3>1. OldParent(ids[i]) \in System \cup GroupId \cup {None}
      BY <1>2, GroupsTyped DEF OldParent, GroupTyped
    <3>2. CASE d[i].parent = None
      BY <3>1, <3>2 DEF ParentAt
    <3>3. CASE d[i].parent # None
      <4>1. At(d, d[i].parent) \in DOMAIN d
        BY <3>3, ParentBefore
      <4> QED BY <1>3, <3>3, <4>1 DEF ParentAt
    <3> QED BY <3>2, <3>3
  <2>3. PathAt(d, ids, i) \in Seq(System \cup GroupId)
    BY <1>3, PathsOfDrawing
  <2>4. DOMAIN RowsAt(d, ids, i) \subseteq Attribute /\ RowsAt(d, ids, i) \in [DOMAIN RowsAt(d, ids, i) -> Row]
    <3>1. CASE ids[i] \in System
      <4>1. ids[i] \in DOMAIN groups /\ RowsAt(d, ids, i) = groups[ids[i]].attrs
        BY <1>2, <3>1 DEF RowsAt
      <4> QED BY <4>1, GroupsTyped DEF GroupTyped
    <3>2. CASE ids[i] \notin System
      <4>1. d[i].attrs \in SUBSET Attribute
        BY DrawingTyped DEF Drawn0
      <4>2. RowsAt(d, ids, i) = NewRows(d[i].attrs)
        BY <3>2 DEF RowsAt
      <4> QED BY <4>1, <4>2, NewRowsTyped
    <3> QED BY <3>1, <3>2
  <2> QED BY <2>1, <2>2, <2>3, <2>4 DEF GroupAt, GroupTyped
<1>5. ASSUME NEW g \in System, g \notin Ids
      PROVE  GroupTyped(u, g)
  <2>1. g \in DOMAIN groups /\ u[g] = groups[g]
    BY <1>1, <1>2, <1>5
  <2>2. GroupTyped(groups, g)
    BY <2>1, GroupsTyped
  <2> QED BY <2>1, <2>2 DEF GroupTyped
<1> QED BY <1>1, <1>3, <1>4, <1>5

\* In the drawing, paths follow parents.
LEMMA DrawnPaths ==
  ASSUME TypeOK, NEW d \in Drawings, ParentsFirst(d), NEW ids \in IdsOf(d),
         NEW u, u = Drawn(d, ids), NEW i \in DOMAIN d
  PROVE  IF Len(u[ids[i]].path) = 1
         THEN u[ids[i]].path = <<ids[i]>> /\ (u[ids[i]].parent = None \/ ids[i] \in System)
         ELSE \E j \in DOMAIN d : /\ u[ids[i]].parent = ids[j]
                                  /\ u[ids[i]].path = Append(u[ids[j]].path, ids[i])
<1> DEFINE S == System \cup GroupId
<1>1. \A k \in DOMAIN d : GroupAt(u, d, ids, k)
  BY DrawnGroups
<1>2. ids \in [DOMAIN d -> S]
  BY IdsOfDrawing
<1>3. IF d[i].parent = None
      THEN PathAt(d, ids, i) = <<ids[i]>> /\ Len(PathAt(d, ids, i)) = 1
      ELSE /\ PathAt(d, ids, i) = Append(PathAt(d, ids, At(d, d[i].parent)), ids[i])
           /\ Len(PathAt(d, ids, i)) # 1
  <2> HIDE DEF S
  <2> QED BY <1>2, PathsOfDrawing
<1>4. u[ids[i]].path = PathAt(d, ids, i) /\ u[ids[i]].parent = ParentAt(d, ids, i)
  BY <1>1 DEF GroupAt
<1>5. CASE d[i].parent = None
  <2>1. u[ids[i]].parent = None \/ ids[i] \in System
    BY <1>4, <1>5 DEF ParentAt, OldParent
  <2> QED BY <1>3, <1>4, <1>5, <2>1
<1>6. CASE d[i].parent # None
  <2> DEFINE j == At(d, d[i].parent)
  <2>1. j \in DOMAIN d
    BY <1>6, ParentBefore
  <2>2. u[ids[i]].parent = ids[j]
    BY <1>4, <1>6 DEF ParentAt
  <2>3. u[ids[j]].path = PathAt(d, ids, j)
    BY <1>1, <2>1 DEF GroupAt
  <2>4. /\ Len(u[ids[i]].path) # 1
        /\ u[ids[i]].path = Append(PathAt(d, ids, j), ids[i])
    BY <1>3, <1>4, <1>6
  <2> HIDE DEF j
  <2> QED BY <2>1, <2>2, <2>3, <2>4
<1> QED BY <1>5, <1>6

\* Ranks as the two invariants see them.
RanksApart(gs) ==
  \A g, h \in DOMAIN gs : \A a \in DOMAIN gs[g].attrs, b \in DOMAIN gs[h].attrs :
    /\ a # b /\ gs[g].attrs[a].variation /\ gs[h].attrs[b].variation
    /\ gs[g].attrs[a].rank # 0
    => gs[g].attrs[a].rank # gs[h].attrs[b].rank

RanksUpTo(gs, n) == \A g \in DOMAIN gs : \A a \in DOMAIN gs[g].attrs : gs[g].attrs[a].rank <= n

LEMMA DrawnRanks ==
  ASSUME TypeOK, RanksDistinct, NEW d \in Drawings, ParentsFirst(d), NEW ids \in IdsOf(d),
         NEW u, u = Drawn(d, ids), NEW n \in Nat, RanksUpTo(groups, n)
  PROVE  RanksApart(u) /\ RanksUpTo(u, n)
<1> DEFINE Old(g) == g \in DOMAIN groups /\ u[g].attrs = groups[g].attrs
           New(g) == \E as \in SUBSET Attribute : u[g].attrs = NewRows(as)
<1>1. \A g \in DOMAIN u : Old(g) \/ New(g)
  BY DrawnRows
<1>2. \A g \in DOMAIN u : New(g) => \A a \in DOMAIN u[g].attrs : u[g].attrs[a].rank = 0
  <2> SUFFICES ASSUME NEW g \in DOMAIN u, NEW as \in SUBSET Attribute, u[g].attrs = NewRows(as),
                      NEW a \in DOMAIN u[g].attrs
               PROVE  u[g].attrs[a].rank = 0
    OBVIOUS
  <2>1. DOMAIN NewRows(as) = as /\ \A x \in as : NewRows(as)[x].rank = 0
    BY NewRowsTyped
  <2> QED BY <2>1
<1> HIDE DEF New
<1>3. RanksUpTo(u, n)
  BY <1>1, <1>2 DEF RanksUpTo
<1>4. RanksApart(u)
  <2> SUFFICES ASSUME NEW g \in DOMAIN u, NEW h \in DOMAIN u,
                      NEW a \in DOMAIN u[g].attrs, NEW b \in DOMAIN u[h].attrs,
                      a # b, u[g].attrs[a].variation, u[h].attrs[b].variation,
                      u[g].attrs[a].rank # 0
               PROVE  u[g].attrs[a].rank # u[h].attrs[b].rank
    BY DEF RanksApart
  <2>1. Old(g)
    BY <1>1, <1>2
  <2>2. CASE Old(h)
    BY <2>1, <2>2 DEF RanksDistinct
  <2>3. CASE New(h)
    BY <1>2, <2>3
  <2> QED BY <1>1, <2>2, <2>3
<1> QED BY <1>3, <1>4

LEMMA UpdateInv ==
  ASSUME IInv, NEW d \in Drawings, Update(d)
  PROVE  IInv'
<1>1. PICK ids \in IdsOf(d) : groups' = Drawn(d, ids)
  BY DEF Update
<1>2. /\ TypeOK /\ RanksDistinct /\ ConfigsSound /\ ConfigsFit /\ RanksBounded
      /\ ParentsFirst(d) /\ KeepsConfigured(d) /\ Request
      /\ strayed' = {g \in System : \A i \in DOMAIN d : d[i].temp # g}
      /\ hidden' = {a \in hidden \cup Named(d) : a \notin AttributesOf(groups')}
      /\ UNCHANGED <<configs, default, details>>
  BY DEF IInv, GroupsWellDrawn, Update
<1> DEFINE Ids == {ids[i] : i \in DOMAIN d}
<1>3. /\ DOMAIN groups' = System \cup Ids
      /\ \A h \in System : h \in Ids \/ groups'[h] = groups[h]
      /\ \A i \in DOMAIN d : ids[i] \in System => ids[i] = d[i].temp
  <2>1. \A i \in DOMAIN d : ids[i] \in System => ids[i] = d[i].temp
    BY <1>2, IdsOfDrawing
  <2>2. /\ DOMAIN groups' = System \cup {ids[i] : i \in DOMAIN d}
        /\ \A h \in System : h \in {ids[i] : i \in DOMAIN d} \/ groups'[h] = groups[h]
    BY <1>1, <1>2, DrawnGroups
  <2> QED BY <2>1, <2>2
<1>4. TypeOK'
  <2>1. /\ System \subseteq DOMAIN groups' /\ DOMAIN groups' \subseteq System \cup GroupId
        /\ \A g \in DOMAIN groups' : GroupTyped(groups', g)
    BY <1>1, <1>2, DrawnTyped
  <2>2. Named(d) \subseteq Attribute
    BY DrawingTyped DEF Named, Drawn0
  <2>3. strayed' \subseteq System /\ hidden' \subseteq Attribute /\ requests' \in 0 .. MaxRequests
    BY <1>2, <2>2, ConstantsAssumption DEF TypeOK, Request
  <2> QED BY <1>2, <2>1, <2>3 DEF TypeOK, GroupTyped, Shaped, WithRows
<1>5. PathsFollowGroups'
  <2> SUFFICES ASSUME NEW g \in DOMAIN groups' \ strayed'
               PROVE  IF Len(groups'[g].path) = 1
                      THEN groups'[g].path = <<g>> /\ (groups'[g].parent = None \/ g \in System)
                      ELSE /\ groups'[g].parent \in DOMAIN groups' \ strayed'
                           /\ groups'[g].path = Append(groups'[groups'[g].parent].path, g)
    BY DEF PathsFollowGroups
  <2>1. \A i \in DOMAIN d : ids[i] \in DOMAIN groups' \ strayed'
    BY <1>2, <1>3
  <2>2. PICK i \in DOMAIN d : ids[i] = g
    <3>1. CASE g \in Ids
      BY <3>1
    <3>2. CASE g \notin Ids
      <4>1. g \in System /\ \E i \in DOMAIN d : d[i].temp = g
        BY <1>2, <1>3, <3>2
      <4>2. PICK i \in DOMAIN d : d[i].temp = g
        BY <4>1
      <4>3. ids[i] \in System /\ ids[i] = d[i].temp
        BY <1>1, <1>2, <4>1, <4>2, IdsOfDrawing
      <4> QED BY <4>2, <4>3
    <3> QED BY <3>1, <3>2
  <2> QED BY <1>1, <1>2, <2>1, <2>2, DrawnPaths
<1>6. RanksDistinct' /\ RanksBounded'
  <2>1. PICK n \in Nat : RanksUpTo(groups, n)
    BY <1>2 DEF RanksBounded, RanksUpTo
  <2>2. RanksApart(groups') /\ RanksUpTo(groups', n)
    BY <1>1, <1>2, <2>1, DrawnRanks
  <2> QED BY <2>2 DEF RanksDistinct, RanksApart, RanksBounded, RanksUpTo
<1>7. ConfigsSound'
  <2>1. Configured' = Configured /\ Live' = Live
    BY <1>2 DEF Configured, Live
  <2>2. Configured \subseteq Named(d)
    BY <1>2 DEF KeepsConfigured
  <2>3. ConfiguredStay'
    BY <1>2, <2>1, <2>2 DEF ConfiguredStay
  <2>4. NoDuplicateConfigs'
    BY <1>2, <2>1 DEF ConfigsSound, NoDuplicateConfigs
  <2> QED BY <2>3, <2>4 DEF ConfigsSound
<1>8. ConfigsFit'
  BY <1>2 DEF ConfigsFit
<1> QED BY <1>4, <1>5, <1>6, <1>7, <1>8 DEF IInv, GroupsWellDrawn

-----------------------------------------------------------------------------
(* Variation attributes.                                                   *)

\* A step that changes only what rows of attributes say.
RowsOnly ==
  /\ Request /\ UNCHANGED <<configs, default, details, strayed, hidden>>
  /\ DOMAIN groups' = DOMAIN groups
  /\ \A g \in DOMAIN groups :
       /\ GroupTyped(groups', g)
       /\ groups'[g].parent = groups[g].parent /\ groups'[g].path = groups[g].path
       /\ DOMAIN groups'[g].attrs = DOMAIN groups[g].attrs

LEMMA RowsOnlyInv ==
  ASSUME IInv, RowsOnly, RanksDistinct', RanksBounded'
  PROVE  IInv'
<1>1. /\ TypeOK /\ PathsFollowGroups /\ ConfigsSound /\ ConfigsFit
      /\ UNCHANGED <<configs, default, details, strayed, hidden>>
      /\ DOMAIN groups' = DOMAIN groups
  BY DEF IInv, GroupsWellDrawn, RowsOnly
<1>2. TypeOK'
  <2>1. requests' \in 0 .. MaxRequests
    BY <1>1, ConstantsAssumption DEF TypeOK, RowsOnly, Request
  <2> QED BY <1>1, <2>1 DEF RowsOnly, TypeOK, GroupTyped, Shaped, WithRows
<1>3. PathsFollowGroups'
  BY <1>1 DEF RowsOnly, PathsFollowGroups
<1>4. AttributesOf(groups') = AttributesOf(groups)
  <2>1. \A a : a \in AttributesOf(groups') <=> a \in AttributesOf(groups)
    BY <1>1, AttributesAre DEF RowsOnly
  <2> QED BY <2>1
<1>5. Configured' = Configured /\ Live' = Live
  BY <1>1 DEF Configured, Live
<1>6. ConfigsSound'
  BY <1>1, <1>4, <1>5 DEF ConfigsSound, ConfiguredStay, NoDuplicateConfigs
<1>7. ConfigsFit'
  BY <1>1 DEF ConfigsFit
<1> QED BY <1>2, <1>3, <1>6, <1>7 DEF IInv, GroupsWellDrawn

\* The next rank is above those there are.
LEMMA NextRankIsNew ==
  ASSUME NEW n \in Nat, TypeOK, RanksUpTo(groups, n)
  PROVE  /\ NextRank \in 1 .. (n + 1)
         /\ \A g \in DOMAIN groups : \A a \in DOMAIN groups[g].attrs :
              groups[g].attrs[a].variation => groups[g].attrs[a].rank < NextRank
<1>1. ASSUME NEW g \in DOMAIN groups, NEW a \in DOMAIN groups[g].attrs
      PROVE  groups[g].attrs[a].rank \in 0 .. n
  <2>1. groups[g].attrs[a].rank \in Nat
    BY GroupsTyped DEF GroupTyped, Row
  <2> QED BY <2>1 DEF RanksUpTo
<1>2. \A g \in DOMAIN groups : \A a \in DOMAIN groups[g].attrs :
        groups[g].attrs[a].variation => groups[g].attrs[a].rank \in Ranks
  BY DEF Ranks
<1>3. Ranks \subseteq 0 .. n
  BY <1>1 DEF Ranks
<1> DEFINE T == {0} \cup Ranks
<1>4. T \in SUBSET (0 .. n) /\ T # {}
  BY <1>3
<1> HIDE DEF T
<1>5. Max(T) \in T /\ \A y \in T : y <= Max(T)
  BY <1>4, MaxOfNumbers
<1>6. NextRank = Max(T) + 1
  BY DEF NextRank, T
<1>7. \A y \in T : y < NextRank
  <2>1. Max(T) \in 0 .. n /\ T \subseteq 0 .. n
    BY <1>4, <1>5
  <2> QED BY <1>5, <1>6, <2>1
<1>8. NextRank \in 1 .. (n + 1)
  <2>1. Max(T) \in 0 .. n
    BY <1>4, <1>5
  <2> QED BY <1>6, <2>1
<1> QED BY <1>2, <1>7, <1>8 DEF T

\* Group h after row a of group g has become one of a variation.
VariedAt(u, h, g, a) ==
  /\ GroupTyped(u, h)
  /\ u[h].parent = groups[h].parent /\ u[h].path = groups[h].path
  /\ DOMAIN u[h].attrs = DOMAIN groups[h].attrs
  /\ \A b \in DOMAIN u[h].attrs :
       IF h = g /\ b = a
       THEN u[h].attrs[b].variation /\ u[h].attrs[b].rank = NextRank
       ELSE u[h].attrs[b] = groups[h].attrs[b]

LEMMA CreateVariationRows ==
  ASSUME TypeOK, NEW a \in Attribute, NEW g \in DOMAIN groups, a \in DOMAIN groups[g].attrs,
         NEW n \in Nat, RanksUpTo(groups, n), NEW u,
         u = [groups EXCEPT ![g] = WithRows(g,
                [groups[g].attrs EXCEPT ![a] = [variation |-> TRUE, rank |-> NextRank]])]
  PROVE  /\ DOMAIN u = DOMAIN groups
         /\ \A h \in DOMAIN groups : VariedAt(u, h, g, a)
<1> DEFINE new == [variation |-> TRUE, rank |-> NextRank]
           own == [groups[g].attrs EXCEPT ![a] = new]
<1>1. new \in Row /\ new.variation /\ new.rank = NextRank
  BY NextRankIsNew DEF Row
<1>2. GroupTyped(groups, g)
  BY GroupsTyped
<1> HIDE DEF new
<1>3. /\ DOMAIN own = DOMAIN groups[g].attrs /\ own \in [DOMAIN groups[g].attrs -> Row]
      /\ own[a] = new /\ \A b \in DOMAIN own : b # a => own[b] = groups[g].attrs[b]
  BY <1>1, <1>2 DEF GroupTyped
<1>4. DOMAIN u = DOMAIN groups /\ u[g] = WithRows(g, own) /\ \A h \in DOMAIN u : h # g => u[h] = groups[h]
  BY DEF new
<1> HIDE DEF own
<1>5. /\ Shaped(u[g]) /\ u[g].parent = groups[g].parent /\ u[g].path = groups[g].path
      /\ u[g].attrs = own
  BY <1>4, ShapedRecord DEF WithRows
<1>6. GroupTyped(u, g)
  BY <1>2, <1>3, <1>5 DEF GroupTyped
<1>7. ASSUME NEW h \in DOMAIN groups
      PROVE  VariedAt(u, h, g, a)
  <2>1. CASE h = g
    BY <1>1, <1>3, <1>5, <1>6, <2>1 DEF VariedAt
  <2>2. CASE h # g
    <3>1. u[h] = groups[h]
      BY <1>4, <2>2
    <3>2. GroupTyped(u, h)
      BY <3>1, GroupsTyped DEF GroupTyped
    <3> QED BY <2>2, <3>1, <3>2 DEF VariedAt
  <2> QED BY <2>1, <2>2
<1> QED BY <1>4, <1>7

LEMMA CreateVariationInv ==
  ASSUME IInv, NEW a \in Attribute, CreateVariation(a)
  PROVE  IInv' /\ VariationOf(groups) \subseteq VariationOf(groups')
<1>1. PICK g \in DOMAIN groups :
        /\ a \in DOMAIN groups[g].attrs
        /\ groups' = [groups EXCEPT ![g] = WithRows(g,
             [groups[g].attrs EXCEPT ![a] = [variation |-> TRUE, rank |-> NextRank]])]
  BY DEF CreateVariation
<1>2. /\ TypeOK /\ RanksDistinct /\ RanksBounded
      /\ Request /\ UNCHANGED <<configs, default, details, strayed, hidden>>
  BY DEF IInv, GroupsWellDrawn, CreateVariation
<1>3. PICK n \in Nat : RanksUpTo(groups, n)
  BY <1>2 DEF RanksBounded, RanksUpTo
<1>0. DOMAIN groups' = DOMAIN groups /\ \A h \in DOMAIN groups : VariedAt(groups', h, g, a)
  BY <1>1, <1>2, <1>3, CreateVariationRows
<1>4. /\ DOMAIN groups' = DOMAIN groups
      /\ \A h \in DOMAIN groups :
           /\ GroupTyped(groups', h)
           /\ groups'[h].parent = groups[h].parent /\ groups'[h].path = groups[h].path
           /\ DOMAIN groups'[h].attrs = DOMAIN groups[h].attrs
           /\ \A b \in DOMAIN groups'[h].attrs :
                IF h = g /\ b = a
                THEN groups'[h].attrs[b].variation /\ groups'[h].attrs[b].rank = NextRank
                ELSE groups'[h].attrs[b] = groups[h].attrs[b]
  BY <1>0 DEF VariedAt
<1>5. RowsOnly
  BY <1>2, <1>4 DEF RowsOnly
<1>6. /\ NextRank \in 1 .. (n + 1)
      /\ \A h \in DOMAIN groups : \A b \in DOMAIN groups[h].attrs :
           groups[h].attrs[b].variation => groups[h].attrs[b].rank < NextRank
  BY <1>2, <1>3, NextRankIsNew
<1>7. \A h \in DOMAIN groups : \A b \in DOMAIN groups[h].attrs : groups[h].attrs[b].rank \in Nat
  BY <1>2, GroupsTyped DEF GroupTyped, Row
<1>8. RanksBounded'
  <2>1. \A h \in DOMAIN groups' : \A b \in DOMAIN groups'[h].attrs : groups'[h].attrs[b].rank <= n + 1
    <3> SUFFICES ASSUME NEW h \in DOMAIN groups', NEW b \in DOMAIN groups'[h].attrs
                 PROVE  groups'[h].attrs[b].rank <= n + 1
      OBVIOUS
    <3>1. CASE h = g /\ b = a
      BY <1>4, <1>6, <3>1
    <3>2. CASE ~(h = g /\ b = a)
      <4>1. groups'[h].attrs[b] = groups[h].attrs[b] /\ groups[h].attrs[b].rank <= n
        BY <1>3, <1>4, <3>2 DEF RanksUpTo
      <4>2. groups[h].attrs[b].rank \in Nat
        BY <1>4, <1>7
      <4> QED BY <4>1, <4>2
    <3> QED BY <3>1, <3>2
  <2>2. n + 1 \in Nat
    OBVIOUS
  <2> QED BY <2>1, <2>2 DEF RanksBounded
<1>9. RanksDistinct'
  <2> SUFFICES ASSUME NEW h \in DOMAIN groups', NEW k \in DOMAIN groups',
                      NEW b \in DOMAIN groups'[h].attrs, NEW c \in DOMAIN groups'[k].attrs,
                      b # c, groups'[h].attrs[b].variation, groups'[k].attrs[c].variation,
                      groups'[h].attrs[b].rank # 0
               PROVE  groups'[h].attrs[b].rank # groups'[k].attrs[c].rank
    BY DEF RanksDistinct
  <2>1. CASE h = g /\ b = a
    <3>1. groups'[h].attrs[b].rank = NextRank /\ groups'[k].attrs[c] = groups[k].attrs[c]
      BY <1>4, <2>1
    <3>2. groups[k].attrs[c].rank < NextRank /\ groups[k].attrs[c].rank \in Nat
      BY <1>4, <1>6, <1>7, <3>1
    <3> QED BY <1>6, <3>1, <3>2
  <2>2. CASE k = g /\ c = a
    <3>1. groups'[k].attrs[c].rank = NextRank /\ groups'[h].attrs[b] = groups[h].attrs[b]
      BY <1>4, <2>2
    <3>2. groups[h].attrs[b].rank < NextRank /\ groups[h].attrs[b].rank \in Nat
      BY <1>4, <1>6, <1>7, <3>1
    <3> QED BY <1>6, <3>1, <3>2
  <2>3. CASE ~(h = g /\ b = a) /\ ~(k = g /\ c = a)
    <3>1. groups'[k].attrs[c] = groups[k].attrs[c] /\ groups'[h].attrs[b] = groups[h].attrs[b]
      BY <1>4, <2>3
    <3> QED BY <1>2, <1>4, <3>1 DEF RanksDistinct
  <2> QED BY <2>1, <2>2, <2>3
<1>10. ASSUME NEW b \in VariationOf(groups)
       PROVE  b \in VariationOf(groups')
  <2>1. PICK h \in DOMAIN groups : b \in DOMAIN groups[h].attrs /\ groups[h].attrs[b].variation
    BY VariationsAre
  <2>2. groups'[h].attrs[b].variation
    BY <1>4, <2>1
  <2> QED BY <1>4, <2>1, <2>2, VariationsAre
<1> QED BY <1>5, <1>8, <1>9, <1>10, RowsOnlyInv

\* The rows of a group after the variation attributes were ordered.
OrderedAt(u, h, ids) ==
  /\ GroupTyped(u, h)
  /\ u[h].parent = groups[h].parent /\ u[h].path = groups[h].path
  /\ DOMAIN u[h].attrs = DOMAIN groups[h].attrs
  /\ \A b \in DOMAIN u[h].attrs :
       IF groups[h].attrs[b].variation
       THEN /\ u[h].attrs[b].variation
            /\ u[h].attrs[b].rank \in DOMAIN ids /\ ids[u[h].attrs[b].rank] = b
       ELSE u[h].attrs[b] = groups[h].attrs[b]

LEMMA OrderVariationsRows ==
  ASSUME TypeOK, NEW ids \in Seq(Attribute), VariationOf(groups) \subseteq ToSet(ids), NEW u,
         u = [g \in DOMAIN groups |-> WithRows(g,
                [a \in DOMAIN groups[g].attrs |->
                   IF groups[g].attrs[a].variation
                   THEN [variation |-> TRUE, rank |-> CHOOSE n \in DOMAIN ids : ids[n] = a]
                   ELSE groups[g].attrs[a]])],
         NEW h \in DOMAIN groups
  PROVE  OrderedAt(u, h, ids)
<1> DEFINE turn(a) == CHOOSE n \in DOMAIN ids : ids[n] = a
           new(a) == IF groups[h].attrs[a].variation
                     THEN [variation |-> TRUE, rank |-> turn(a)] ELSE groups[h].attrs[a]
           own == [a \in DOMAIN groups[h].attrs |-> new(a)]
<1>1. GroupTyped(groups, h)
  BY GroupsTyped
<1>2. ASSUME NEW a \in DOMAIN groups[h].attrs, groups[h].attrs[a].variation
      PROVE  turn(a) \in DOMAIN ids /\ ids[turn(a)] = a
  <2>1. a \in VariationOf(groups)
    BY <1>2, VariationsAre
  <2>2. \E n \in DOMAIN ids : ids[n] = a
    BY <2>1 DEF ToSet
  <2> QED BY <2>2
<1>3. DOMAIN ids \subseteq Nat
  OBVIOUS
<1> HIDE DEF turn
<1>4. ASSUME NEW a \in DOMAIN groups[h].attrs
      PROVE  /\ new(a) \in Row
             /\ groups[h].attrs[a].variation => new(a).variation /\ new(a).rank = turn(a)
             /\ ~groups[h].attrs[a].variation => new(a) = groups[h].attrs[a]
  <2>1. CASE groups[h].attrs[a].variation
    <3>1. turn(a) \in Nat
      BY <1>2, <1>3, <2>1
    <3>2. new(a) = [variation |-> TRUE, rank |-> turn(a)]
      BY <2>1
    <3> HIDE DEF new
    <3> QED BY <2>1, <3>1, <3>2 DEF Row
  <2>2. CASE ~groups[h].attrs[a].variation
    BY <1>1, <2>2 DEF GroupTyped
  <2> QED BY <2>1, <2>2
<1>5. u[h] = WithRows(h, own)
  BY DEF turn
<1> HIDE DEF new
<1>6. /\ DOMAIN own = DOMAIN groups[h].attrs /\ own \in [DOMAIN groups[h].attrs -> Row]
      /\ \A a \in DOMAIN own : own[a] = new(a)
  BY <1>4
<1> HIDE DEF own
<1>7. /\ Shaped(u[h]) /\ u[h].parent = groups[h].parent /\ u[h].path = groups[h].path
      /\ u[h].attrs = own
  BY <1>5, ShapedRecord DEF WithRows
<1>8. GroupTyped(u, h)
  BY <1>1, <1>6, <1>7 DEF GroupTyped
<1>9. ASSUME NEW b \in DOMAIN own
      PROVE  IF groups[h].attrs[b].variation
             THEN own[b].variation /\ own[b].rank \in DOMAIN ids /\ ids[own[b].rank] = b
             ELSE own[b] = groups[h].attrs[b]
  <2>1. b \in DOMAIN groups[h].attrs /\ own[b] = new(b)
    BY <1>6
  <2>2. CASE groups[h].attrs[b].variation
    <3>1. new(b).variation /\ new(b).rank = turn(b)
      BY <1>4, <2>1, <2>2
    <3>2. turn(b) \in DOMAIN ids /\ ids[turn(b)] = b
      BY <1>2, <2>1, <2>2
    <3> QED BY <2>1, <2>2, <3>1, <3>2
  <2>3. CASE ~groups[h].attrs[b].variation
    BY <1>4, <2>1, <2>3
  <2> QED BY <2>2, <2>3
<1> QED BY <1>6, <1>7, <1>8, <1>9 DEF OrderedAt

LEMMA OrderVariationsInv ==
  ASSUME IInv, NEW ids \in Seq(Attribute), OrderVariations(ids)
  PROVE  IInv' /\ VariationOf(groups) \subseteq VariationOf(groups')
<1>1. /\ TypeOK /\ RanksDistinct /\ RanksBounded
      /\ Request /\ UNCHANGED <<configs, default, details, strayed, hidden>>
      /\ DOMAIN groups' = DOMAIN groups
  BY DEF IInv, GroupsWellDrawn, OrderVariations
<1>2. \A h \in DOMAIN groups : OrderedAt(groups', h, ids)
  BY <1>1, OrderVariationsRows DEF OrderVariations
<1>3. PICK n \in Nat : RanksUpTo(groups, n)
  BY <1>1 DEF RanksBounded, RanksUpTo
<1>4. RowsOnly
  BY <1>1, <1>2 DEF RowsOnly, OrderedAt
<1>5. ASSUME NEW h \in DOMAIN groups, NEW b \in DOMAIN groups'[h].attrs
      PROVE  /\ b \in DOMAIN groups[h].attrs
             /\ groups'[h].attrs[b].rank \in Nat
             /\ groups'[h].attrs[b].variation => ids[groups'[h].attrs[b].rank] = b
             /\ groups'[h].attrs[b].rank <= n + Len(ids)
  <2>1. OrderedAt(groups', h, ids)
    BY <1>2
  <2>2. b \in DOMAIN groups[h].attrs /\ groups[h].attrs[b].rank \in Nat /\ groups'[h].attrs[b].rank \in Nat
    BY <1>1, <2>1, GroupsTyped DEF OrderedAt, GroupTyped, Row
  <2>3. CASE groups[h].attrs[b].variation
    <3>1. groups'[h].attrs[b].rank \in DOMAIN ids /\ ids[groups'[h].attrs[b].rank] = b
      BY <2>1, <2>3 DEF OrderedAt
    <3>2. groups'[h].attrs[b].rank <= Len(ids) /\ Len(ids) \in Nat
      BY <3>1
    <3>3. groups'[h].attrs[b].rank <= n + Len(ids)
      BY <2>2, <3>2
    <3> QED BY <2>2, <3>1, <3>3
  <2>4. CASE ~groups[h].attrs[b].variation
    <3>1. groups'[h].attrs[b] = groups[h].attrs[b]
      BY <2>1, <2>4 DEF OrderedAt
    <3>2. groups[h].attrs[b].rank <= n /\ Len(ids) \in Nat
      BY <1>3, <2>2 DEF RanksUpTo
    <3>3. groups[h].attrs[b].rank <= n + Len(ids)
      BY <2>2, <3>2
    <3> QED BY <2>2, <2>4, <3>1, <3>3
  <2> QED BY <2>3, <2>4
<1>6. RanksBounded'
  <2>1. n + Len(ids) \in Nat
    OBVIOUS
  <2>2. \A h \in DOMAIN groups' : \A b \in DOMAIN groups'[h].attrs :
          groups'[h].attrs[b].rank <= n + Len(ids)
    BY <1>1, <1>5
  <2> QED BY <2>1, <2>2 DEF RanksBounded
<1>7. RanksDistinct'
  <2> SUFFICES ASSUME NEW h \in DOMAIN groups', NEW k \in DOMAIN groups',
                      NEW b \in DOMAIN groups'[h].attrs, NEW c \in DOMAIN groups'[k].attrs,
                      b # c, groups'[h].attrs[b].variation, groups'[k].attrs[c].variation,
                      groups'[h].attrs[b].rank # 0
               PROVE  groups'[h].attrs[b].rank # groups'[k].attrs[c].rank
    BY DEF RanksDistinct
  <2>1. ids[groups'[h].attrs[b].rank] = b /\ ids[groups'[k].attrs[c].rank] = c
    BY <1>1, <1>5
  <2> QED BY <2>1
<1>8. ASSUME NEW b \in VariationOf(groups)
      PROVE  b \in VariationOf(groups')
  <2>1. PICK h \in DOMAIN groups : b \in DOMAIN groups[h].attrs /\ groups[h].attrs[b].variation
    BY VariationsAre
  <2>2. b \in DOMAIN groups'[h].attrs /\ groups'[h].attrs[b].variation
    BY <1>2, <2>1 DEF OrderedAt
  <2> QED BY <1>1, <2>1, <2>2, VariationsAre
<1> QED BY <1>4, <1>6, <1>7, <1>8, RowsOnlyInv

-----------------------------------------------------------------------------
(* Configurations.                                                         *)

OptionSet == [id : ConfigId \cup {None}, brand : Brand \cup {None},
              attrs : Seq(Attribute \X Value), deleted : BOOLEAN]

\* Options as they are handled: each configuration is named once and is live.
OptionsOK(os) ==
  /\ os \in Seq(OptionSet)
  /\ \A n \in DOMAIN os : Len(os[n].attrs) <= Slots
  /\ \A n \in DOMAIN os : os[n].id # None => os[n].id \in Live
  /\ \A n, k \in DOMAIN os : os[n].id = os[k].id /\ os[n].id # None => n = k

LEMMA SortedOptions ==
  ASSUME NEW os \in Options, Sendable(os), NEW sorted \in Sorted(os)
  PROVE  OptionsOK(sorted) /\ DOMAIN sorted = DOMAIN os /\ Len(sorted) = Len(os)
<1>1. /\ os \in Seq(OptionSet) /\ \A n \in DOMAIN os : Len(os[n].attrs) <= Slots
  BY OptionsAssumption DEF OptionSet
<1>2. PICK p \in [DOMAIN os -> DOMAIN os] :
        /\ sorted = [n \in DOMAIN os |-> os[p[n]]]
        /\ \A n \in DOMAIN os : \A k \in 1..(n - 1) : p[k] # p[n]
  BY DEF Sorted
<1>3. DOMAIN os = 1 .. Len(os) /\ Len(os) \in Nat
  BY <1>1
<1>4. \A n, k \in DOMAIN os : p[n] = p[k] => n = k
  <2> SUFFICES ASSUME NEW n \in DOMAIN os, NEW k \in DOMAIN os, n # k
               PROVE  p[n] # p[k]
    OBVIOUS
  <2>1. k \in 1 .. (n - 1) \/ n \in 1 .. (k - 1)
    BY <1>3
  <2> QED BY <1>2, <2>1
<1>5. /\ DOMAIN sorted = DOMAIN os
      /\ \A n \in DOMAIN os : sorted[n] = os[p[n]] /\ p[n] \in DOMAIN os
  BY <1>2
<1>6. sorted \in Seq(OptionSet) /\ Len(sorted) = Len(os)
  <2>1. \A n \in 1 .. Len(os) : os[p[n]] \in OptionSet
    BY <1>1, <1>3
  <2>2. sorted \in [1 .. Len(os) -> OptionSet]
    BY <1>2, <1>3, <2>1
  <2> QED BY <1>3, <2>2
<1>7. \A n \in DOMAIN sorted : Len(sorted[n].attrs) <= Slots /\ (sorted[n].id # None => sorted[n].id \in Live)
  BY <1>1, <1>5 DEF Sendable
<1>8. \A n, k \in DOMAIN sorted : sorted[n].id = sorted[k].id /\ sorted[n].id # None => n = k
  BY <1>4, <1>5 DEF Sendable
<1> QED BY <1>5, <1>6, <1>7, <1>8 DEF OptionsOK

\* What is known of the ids they get.
IdsOK(os, ids) ==
  /\ \A n \in DOMAIN os : ids[n] \in ConfigId
  /\ \A n, k \in DOMAIN os : ids[n] = ids[k] => n = k
  /\ \A n \in DOMAIN os : os[n].id # None => ids[n] = os[n].id
  /\ \A n \in DOMAIN os : os[n].id = None => ids[n] \notin DOMAIN configs

LEMMA IdsOfOptions ==
  ASSUME TypeOK, NEW os, OptionsOK(os), NEW ids \in ConfigsOf(os)
  PROVE  IdsOK(os, ids)
<1> DEFINE had == [n \in DOMAIN os |-> os[n].id]
           free == ConfigId \ DOMAIN configs
           N == Len(os)
<1>1. /\ N \in Nat /\ DOMAIN os = 1 .. N /\ DOMAIN had = 1 .. N
      /\ \A n \in 1 .. N : had[n] = os[n].id
  BY DEF OptionsOK
<1>2. ids \in Assigned(had, free)
  BY DEF ConfigsOf
<1>3. free \in SUBSET Nat /\ Live \subseteq DOMAIN configs /\ DOMAIN configs \subseteq ConfigId
  BY ConstantsAssumption DEF Live, TypeOK
<1>4. /\ \A n \in 1 .. N : had[n] # None => had[n] \notin free /\ had[n] \in ConfigId
      /\ \A n, k \in 1 .. N : had[n] = had[k] /\ had[n] # None => n = k
  BY <1>1, <1>3 DEF OptionsOK
<1> HIDE DEF had, free, N
<1>5. /\ \A n \in 1 .. N : IF had[n] # None THEN ids[n] = had[n] ELSE ids[n] \in free
      /\ \A n, k \in 1 .. N : ids[n] = ids[k] => n = k
  BY <1>1, <1>2, <1>3, <1>4, AssignedIds
<1> QED BY <1>1, <1>4, <1>5 DEF IdsOK, free

RowOf(o) == [brand |-> o.brand, attrs |-> o.attrs, deleted |-> o.deleted]

\* The configurations cs between two options.
AreHandled(cs, os, ids, n) ==
  /\ cs = [i \in DOMAIN cs |-> cs[i]]
  /\ DOMAIN cs = DOMAIN configs \cup {ids[k] : k \in 1 .. (n - 1)}
  /\ \A k \in 1 .. (n - 1) : cs[ids[k]] = RowOf(os[k])
  /\ \A i \in DOMAIN configs : (\A k \in 1 .. (n - 1) : ids[k] # i) => cs[i] = configs[i]

LEMMA HandledRows ==
  ASSUME TypeOK, NEW os, OptionsOK(os), NEW ids, IdsOK(os, ids),
         NEW n \in 1 .. (Len(os) + 1), NEW cs, cs = Handled(os, ids, n)
  PROVE  AreHandled(cs, os, ids, n)
<1> DEFINE done == {ids[k] : k \in 1 .. (n - 1)}
           o(i) == os[CHOOSE k \in 1 .. (n - 1) : ids[k] = i]
<1>0. Len(os) \in Nat /\ DOMAIN os = 1 .. Len(os) /\ 1 .. (n - 1) \subseteq DOMAIN os
  BY DEF OptionsOK
<1>1. cs = [i \in DOMAIN configs \cup done |->
              IF i \in done THEN RowOf(o(i)) ELSE configs[i]]
  BY DEF Handled, RowOf
<1>2. ASSUME NEW k \in 1 .. (n - 1)
      PROVE  o(ids[k]) = os[k] /\ ids[k] \in done
  <2>1. \A j \in 1 .. (n - 1) : ids[j] = ids[k] => j = k
    BY <1>0 DEF IdsOK
  <2>2. (CHOOSE j \in 1 .. (n - 1) : ids[j] = ids[k]) = k
    BY <2>1
  <2> QED BY <2>2
<1> HIDE DEF o
<1>3. DOMAIN cs = DOMAIN configs \cup done
  BY <1>1
<1>4. \A k \in 1 .. (n - 1) : cs[ids[k]] = RowOf(os[k])
  BY <1>1, <1>2
<1>5. \A i \in DOMAIN configs : (\A k \in 1 .. (n - 1) : ids[k] # i) => cs[i] = configs[i]
  BY <1>1
<1>6. cs = [i \in DOMAIN cs |-> cs[i]]
  BY <1>1
<1> QED BY <1>3, <1>4, <1>5, <1>6 DEF AreHandled

\* Two rows that must not both be live.
Conflict(x, y) == x.attrs = y.attrs /\ (x.brand = y.brand \/ x.brand = None \/ y.brand = None)

\* Live rows of cs do not conflict, but for those of the ids in S.
Apart(cs, S) ==
  \A i, j \in DOMAIN cs \ S :
    i # j /\ ~cs[i].deleted /\ ~cs[j].deleted => ~Conflict(cs[i], cs[j])

LEMMA NoDuplicatesApart == NoDuplicateConfigs <=> Apart(configs, {})
BY DEF NoDuplicateConfigs, Apart, Conflict, Live

\* An option that is accepted conflicts with none but those still to come.
LEMMA AcceptedApart ==
  ASSUME TypeOK, NEW os, OptionsOK(os), NEW ids, IdsOK(os, ids), NEW n \in 1 .. Len(os),
         Accepted(os, ids, n), NEW cs, cs = Handled(os, ids, n),
         NEW ds, ds = Handled(os, ids, n + 1), Apart(cs, Pending(os, n))
  PROVE  Apart(ds, Pending(os, n + 1))
<1> DEFINE x == ids[n]
           o == os[n]
<1>0. /\ Len(os) \in Nat /\ DOMAIN os = 1 .. Len(os) /\ n \in DOMAIN os
      /\ n \in 1 .. (Len(os) + 1) /\ n + 1 \in 1 .. (Len(os) + 1)
      /\ 1 .. ((n + 1) - 1) = 1 .. (n - 1) \cup {n}
  BY DEF OptionsOK
<1>1. /\ DOMAIN cs = DOMAIN configs \cup {ids[k] : k \in 1 .. (n - 1)}
      /\ \A k \in 1 .. (n - 1) : cs[ids[k]] = RowOf(os[k])
      /\ \A i \in DOMAIN configs : (\A k \in 1 .. (n - 1) : ids[k] # i) => cs[i] = configs[i]
  <2>1. AreHandled(cs, os, ids, n)
    BY <1>0, HandledRows
  <2> QED BY <2>1 DEF AreHandled
<1>2. /\ DOMAIN ds = DOMAIN configs \cup {ids[k] : k \in 1 .. ((n + 1) - 1)}
      /\ \A k \in 1 .. ((n + 1) - 1) : ds[ids[k]] = RowOf(os[k])
      /\ \A i \in DOMAIN configs : (\A k \in 1 .. ((n + 1) - 1) : ids[k] # i) => ds[i] = configs[i]
  <2>1. AreHandled(ds, os, ids, n + 1)
    BY <1>0, HandledRows
  <2> QED BY <2>1 DEF AreHandled
<1>3. DOMAIN ds = DOMAIN cs \cup {x} /\ ds[x] = RowOf(o)
  BY <1>0, <1>1, <1>2
<1>4. ASSUME NEW i \in DOMAIN cs, i # x
      PROVE  ds[i] = cs[i]
  <2>1. CASE \E k \in 1 .. (n - 1) : ids[k] = i
    BY <1>0, <1>1, <1>2, <2>1
  <2>2. CASE \A k \in 1 .. (n - 1) : ids[k] # i
    <3>1. i \in DOMAIN configs /\ \A k \in 1 .. ((n + 1) - 1) : ids[k] # i
      BY <1>0, <1>1, <1>4, <2>2
    <3> QED BY <1>1, <1>2, <2>2, <3>1
  <2> QED BY <2>1, <2>2
<1>5. o.id # None => x = o.id
  BY <1>0 DEF IdsOK
<1>6. ASSUME NEW i \in DOMAIN ds \ Pending(os, n + 1), i # x
      PROVE  i \in DOMAIN cs \ Pending(os, n)
  <2>1. i \in DOMAIN cs
    BY <1>3, <1>6
  <2>2. \A k \in n .. Len(os) : k = n \/ k \in (n + 1) .. Len(os)
    BY <1>0
  <2>3. Pending(os, n) \subseteq Pending(os, n + 1) \cup {o.id}
    BY <2>2 DEF Pending
  <2>4. i \in Pending(os, n) => i # None
    BY DEF Pending
  <2> QED BY <1>5, <1>6, <2>1, <2>3, <2>4
<1>7. RowOf(o).brand = o.brand /\ RowOf(o).attrs = o.attrs /\ RowOf(o).deleted = o.deleted
  BY DEF RowOf
<1>8. ASSUME NEW i \in DOMAIN ds \ Pending(os, n + 1), i # x, ~ds[i].deleted, ~o.deleted
      PROVE  ~Conflict(ds[i], ds[x]) /\ ~Conflict(ds[x], ds[i])
  <2>1. i \in DOMAIN cs \ Pending(os, n) /\ ds[i] = cs[i]
    BY <1>4, <1>6, <1>8
  <2>2. ~Duplicates(cs, o, Pending(os, n))
    BY <1>8 DEF Accepted
  <2>3. o.id # None => i \notin Pending(os, n) \cup {o.id}
    BY <1>5, <1>8, <2>1
  <2>4. ~(cs[i].attrs = o.attrs /\ (o.brand # None => cs[i].brand \in {o.brand, None}))
    BY <1>8, <2>1, <2>2, <2>3 DEF Duplicates
  <2> QED BY <1>3, <1>7, <2>1, <2>4 DEF Conflict
<1> SUFFICES ASSUME NEW i \in DOMAIN ds \ Pending(os, n + 1),
                    NEW j \in DOMAIN ds \ Pending(os, n + 1),
                    i # j, ~ds[i].deleted, ~ds[j].deleted
             PROVE  ~Conflict(ds[i], ds[j])
  BY DEF Apart
<1>9. ds[x].deleted = o.deleted
  BY <1>3, <1>7
<1> HIDE DEF x, o
<1>10. CASE i = x \/ j = x
  BY <1>8, <1>9, <1>10
<1>11. CASE i # x /\ j # x
  <2>1. /\ i \in DOMAIN cs \ Pending(os, n) /\ ds[i] = cs[i]
        /\ j \in DOMAIN cs \ Pending(os, n) /\ ds[j] = cs[j]
    BY <1>4, <1>6, <1>11
  <2> QED BY <2>1 DEF Apart
<1> QED BY <1>10, <1>11

\* When all are accepted nothing conflicts.
LEMMA AllAcceptedApart ==
  ASSUME TypeOK, NoDuplicateConfigs, NEW os, OptionsOK(os), NEW ids, IdsOK(os, ids),
         \A n \in DOMAIN os : Accepted(os, ids, n)
  PROVE  Apart(Handled(os, ids, Len(os) + 1), {})
<1> DEFINE N == Len(os)
           Bad == {n \in 1 .. (N + 1) : ~Apart(Handled(os, ids, n), Pending(os, n))}
<1>1. N \in Nat /\ DOMAIN os = 1 .. N
  BY DEF OptionsOK
<1>2. Bad = {}
  <2>1. SUFFICES ASSUME Bad # {}
                 PROVE  FALSE
    OBVIOUS
  <2>2. Bad \in SUBSET Nat
    BY <1>1
  <2>3. PICK n \in Bad : \A k \in Bad : n <= k
    <3> HIDE DEF Bad
    <3> QED BY <2>1, <2>2, LeastOfNumbers
  <2>4. n \in 1 .. (N + 1) /\ ~Apart(Handled(os, ids, n), Pending(os, n))
    OBVIOUS
  <2>5. CASE n = 1
    <3>1. 1 .. (1 - 1) = {} /\ 1 \in 1 .. (Len(os) + 1)
      BY <1>1
    <3>2. \E cs : cs = Handled(os, ids, 1)
      OBVIOUS
    <3>3. PICK cs : cs = Handled(os, ids, 1)
      BY <3>2
    <3>4. DOMAIN cs = DOMAIN configs /\ \A i \in DOMAIN configs : cs[i] = configs[i]
      <4>1. AreHandled(cs, os, ids, 1)
        BY <3>1, <3>3, HandledRows
      <4> QED BY <3>1, <4>1 DEF AreHandled
    <3>5. Apart(cs, Pending(os, 1))
      BY <3>4, NoDuplicatesApart DEF Apart
    <3> QED BY <2>4, <2>5, <3>3, <3>5
  <2>6. CASE n # 1
    <3> DEFINE m == n - 1
    <3>1. m \in 1 .. N /\ m \in 1 .. (N + 1) /\ ~(n <= m) /\ m + 1 = n
      BY <1>1, <2>4, <2>6
    <3> HIDE DEF m
    <3>2. Apart(Handled(os, ids, m), Pending(os, m))
      BY <2>3, <3>1
    <3>3. Accepted(os, ids, m)
      BY <1>1, <3>1
    <3> HIDE DEF Bad
    <3>4. Apart(Handled(os, ids, m + 1), Pending(os, m + 1))
      BY <3>1, <3>2, <3>3, AcceptedApart
    <3> QED BY <2>4, <3>1, <3>4
  <2> QED BY <2>5, <2>6
<1>3. N + 1 \in 1 .. (N + 1)
  BY <1>1
<1>4. Pending(os, N + 1) = {}
  <2>1. (N + 1) .. Len(os) = {}
    BY <1>1
  <2> QED BY <2>1 DEF Pending
<1>5. Apart(Handled(os, ids, N + 1), Pending(os, N + 1))
  BY <1>2, <1>3
<1> QED BY <1>4, <1>5

\* What live configurations and their details name.
LEMMA ConfiguredAre ==
  ASSUME NEW a
  PROVE  a \in Configured <=>
           \E i \in Live : \/ \E n \in DOMAIN configs[i].attrs : configs[i].attrs[n][1] = a
                           \/ a \in details[i]
BY DEF Configured

\* Configurations with their types, in their slots.
ConfigsTyped(cs) ==
  /\ DOMAIN cs \subseteq ConfigId /\ cs \in [DOMAIN cs -> Config]
  /\ \A i \in DOMAIN cs : Len(cs[i].attrs) <= Slots

LEMMA HandledTyped ==
  ASSUME TypeOK, ConfigsFit, NEW os, OptionsOK(os), NEW ids, IdsOK(os, ids),
         NEW cs, AreHandled(cs, os, ids, Len(os) + 1)
  PROVE  ConfigsTyped(cs)
<1>1. /\ Len(os) \in Nat /\ DOMAIN os = 1 .. Len(os) /\ 1 .. ((Len(os) + 1) - 1) = DOMAIN os
      /\ \A k \in DOMAIN os : os[k] \in OptionSet /\ Len(os[k].attrs) <= Slots
  BY DEF OptionsOK
<1>2. /\ cs = [i \in DOMAIN cs |-> cs[i]]
      /\ DOMAIN cs = DOMAIN configs \cup {ids[k] : k \in DOMAIN os}
      /\ \A k \in DOMAIN os : cs[ids[k]] = RowOf(os[k])
      /\ \A i \in DOMAIN configs : (\A k \in DOMAIN os : ids[k] # i) => cs[i] = configs[i]
  BY <1>1 DEF AreHandled
<1>3. ASSUME NEW k \in DOMAIN os
      PROVE  RowOf(os[k]) \in Config /\ RowOf(os[k]).attrs = os[k].attrs
  BY <1>1 DEF OptionSet, RowOf, Config
<1>4. DOMAIN configs \subseteq ConfigId /\ \A i \in DOMAIN configs : configs[i] \in Config
  BY DEF TypeOK
<1>5. ASSUME NEW i \in DOMAIN cs
      PROVE  cs[i] \in Config /\ Len(cs[i].attrs) <= Slots
  <2>1. CASE \E k \in DOMAIN os : ids[k] = i
    BY <1>1, <1>2, <1>3, <2>1
  <2>2. CASE \A k \in DOMAIN os : ids[k] # i
    BY <1>2, <1>4, <2>2 DEF ConfigsFit
  <2> QED BY <2>1, <2>2
<1>6. cs \in [DOMAIN cs -> Config]
  BY <1>2, <1>5
<1>7. DOMAIN cs \subseteq ConfigId
  BY <1>2, <1>4 DEF IdsOK
<1> QED BY <1>5, <1>6, <1>7 DEF ConfigsTyped

\* What handled configurations name is in the set or was configured before.
LEMMA HandledStay ==
  ASSUME TypeOK, NEW os, OptionsOK(os), NEW ids, IdsOK(os, ids),
         \A n \in DOMAIN os : Accepted(os, ids, n),
         NEW cs, AreHandled(cs, os, ids, Len(os) + 1),
         NEW i \in DOMAIN cs, ~cs[i].deleted, NEW a
  PROVE  /\ (\E n \in DOMAIN cs[i].attrs : cs[i].attrs[n][1] = a)
              => a \in AttributesOf(groups) \cup Configured
         /\ i \in DOMAIN details /\ a \in details[i] => a \in Configured
<1>1. Len(os) \in Nat /\ DOMAIN os = 1 .. Len(os) /\ 1 .. ((Len(os) + 1) - 1) = DOMAIN os
  BY DEF OptionsOK
<1>2. /\ DOMAIN cs = DOMAIN configs \cup {ids[k] : k \in DOMAIN os}
      /\ \A k \in DOMAIN os : cs[ids[k]] = RowOf(os[k])
      /\ \A j \in DOMAIN configs : (\A k \in DOMAIN os : ids[k] # j) => cs[j] = configs[j]
  BY <1>1 DEF AreHandled
<1>3. DOMAIN details = DOMAIN configs
  BY DEF TypeOK
<1>4. CASE \E k \in DOMAIN os : ids[k] = i
  <2>1. PICK k \in DOMAIN os : ids[k] = i
    BY <1>4
  <2>0. RowOf(os[k]).attrs = os[k].attrs
    BY DEF RowOf
  <2>2. cs[i].attrs = os[k].attrs
    BY <1>2, <2>0, <2>1
  <2>3. \A n \in DOMAIN os[k].attrs : os[k].attrs[n][1] \in AttributesOf(groups)
    BY DEF Accepted
  <2>4. i \in DOMAIN configs => i \in Live
    BY <2>1 DEF IdsOK, OptionsOK
  <2> QED BY <1>3, <2>2, <2>3, <2>4, ConfiguredAre
<1>5. CASE \A k \in DOMAIN os : ids[k] # i
  <2>1. i \in Live /\ cs[i] = configs[i]
    BY <1>2, <1>5 DEF Live
  <2> QED BY <2>1, ConfiguredAre
<1> QED BY <1>4, <1>5

LEMMA CreateConfigsInv ==
  ASSUME IInv, NEW os \in Options, CreateConfigs(os)
  PROVE  IInv'
<1>1. /\ TypeOK /\ PathsFollowGroups /\ RanksDistinct /\ RanksBounded
      /\ ConfiguredStay /\ NoDuplicateConfigs /\ ConfigsFit
      /\ Sendable(os) /\ Request /\ default' = TRUE /\ UNCHANGED <<groups, strayed, hidden>>
      /\ details' = [i \in DOMAIN configs' |-> IF i \in DOMAIN details THEN details[i] ELSE {}]
  BY DEF IInv, GroupsWellDrawn, ConfigsSound, CreateConfigs
<1>0. PICK sorted \in Sorted(os) : \E ids \in ConfigsOf(sorted) :
        configs' = IF \A n \in DOMAIN os : Accepted(sorted, ids, n)
                   THEN Handled(sorted, ids, Len(os) + 1) ELSE configs
  BY DEF CreateConfigs
<1>2. PICK ids \in ConfigsOf(sorted) :
        configs' = IF \A n \in DOMAIN os : Accepted(sorted, ids, n)
                   THEN Handled(sorted, ids, Len(os) + 1) ELSE configs
  BY <1>0
<1>3. OptionsOK(sorted) /\ DOMAIN sorted = DOMAIN os /\ Len(sorted) = Len(os)
  BY <1>1, SortedOptions
<1>4. IdsOK(sorted, ids)
  BY <1>1, <1>3, IdsOfOptions
<1>5. /\ ConfigsTyped(configs')
      /\ Apart(configs', {})
      /\ \A i \in DOMAIN configs' : \A a :
           ~configs'[i].deleted =>
             /\ (\E n \in DOMAIN configs'[i].attrs : configs'[i].attrs[n][1] = a)
                  => a \in AttributesOf(groups) \cup Configured
             /\ i \in DOMAIN details /\ a \in details[i] => a \in Configured
  <2>1. CASE \A n \in DOMAIN os : Accepted(sorted, ids, n)
    <3>1. configs' = Handled(sorted, ids, Len(sorted) + 1)
      BY <1>2, <1>3, <2>1
    <3>2. Len(sorted) + 1 \in 1 .. (Len(sorted) + 1)
      BY <1>3 DEF OptionsOK
    <3>3. \A n \in DOMAIN sorted : Accepted(sorted, ids, n)
      BY <1>3, <2>1
    <3>4. AreHandled(configs', sorted, ids, Len(sorted) + 1)
      BY <1>1, <1>3, <1>4, <3>1, <3>2, HandledRows
    <3>5. ConfigsTyped(configs')
      BY <1>1, <1>3, <1>4, <3>4, HandledTyped
    <3>6. Apart(configs', {})
      BY <1>1, <1>3, <1>4, <3>1, <3>3, AllAcceptedApart
    <3> QED BY <1>1, <1>3, <1>4, <3>3, <3>4, <3>5, <3>6, HandledStay
  <2>2. CASE ~\A n \in DOMAIN os : Accepted(sorted, ids, n)
    <3>1. configs' = configs
      BY <1>2, <2>2
    <3>2. ConfigsTyped(configs)
      BY <1>1 DEF TypeOK, ConfigsFit, ConfigsTyped
    <3>3. Apart(configs, {})
      BY <1>1, NoDuplicatesApart
    <3>4. \A i \in DOMAIN configs : ~configs[i].deleted => i \in Live
      BY DEF Live
    <3> QED BY <3>1, <3>2, <3>3, <3>4, ConfiguredAre
  <2> QED BY <2>1, <2>2
<1>6. TypeOK'
  <2>1. requests' \in 0 .. MaxRequests
    BY <1>1, ConstantsAssumption DEF TypeOK, Request
  <2>2. details' \in [DOMAIN configs' -> SUBSET Attribute]
    <3>1. \A i \in DOMAIN details : details[i] \in SUBSET Attribute
      BY <1>1 DEF TypeOK
    <3> QED BY <1>1, <3>1
  <2>3. DOMAIN configs' \subseteq ConfigId /\ configs' \in [DOMAIN configs' -> Config]
    BY <1>5 DEF ConfigsTyped
  <2> QED BY <1>1, <2>1, <2>2, <2>3 DEF TypeOK, WithRows
<1>7. ConfigsFit'
  BY <1>5 DEF ConfigsTyped, ConfigsFit
<1>8. NoDuplicateConfigs'
  BY <1>5 DEF NoDuplicateConfigs, Apart, Conflict, Live
<1>9. ConfiguredStay'
  <2> SUFFICES ASSUME NEW a, a \in Configured'
               PROVE  a \in AttributesOf(groups) \cup hidden
    BY <1>1 DEF ConfiguredStay
  <2>1. PICK i \in DOMAIN configs' :
          /\ ~configs'[i].deleted
          /\ \/ \E n \in DOMAIN configs'[i].attrs : configs'[i].attrs[n][1] = a
             \/ a \in details'[i]
    BY DEF Configured, Live
  <2>2. CASE \E n \in DOMAIN configs'[i].attrs : configs'[i].attrs[n][1] = a
    BY <1>1, <1>5, <2>1, <2>2 DEF ConfiguredStay
  <2>3. CASE a \in details'[i]
    <3>1. i \in DOMAIN details /\ a \in details[i]
      BY <1>1, <2>3
    <3> QED BY <1>1, <1>5, <2>1, <3>1 DEF ConfiguredStay
  <2> QED BY <2>1, <2>2, <2>3
<1>10. (PathsFollowGroups /\ RanksDistinct /\ RanksBounded)'
  BY <1>1 DEF PathsFollowGroups, RanksDistinct, RanksBounded
<1> QED BY <1>6, <1>7, <1>8, <1>9, <1>10 DEF IInv, GroupsWellDrawn, ConfigsSound

LEMMA SetDetailsInv ==
  ASSUME IInv, NEW i \in ConfigId, NEW as \in SUBSET Attribute, SetDetails(i, as)
  PROVE  IInv'
<1>1. /\ TypeOK /\ PathsFollowGroups /\ RanksDistinct /\ RanksBounded
      /\ ConfiguredStay /\ NoDuplicateConfigs /\ ConfigsFit
      /\ i \in DOMAIN configs /\ Request /\ UNCHANGED <<groups, configs, default, strayed, hidden>>
      /\ details' = IF AllowedDetail(as) THEN [details EXCEPT ![i] = as] ELSE details
  BY DEF IInv, GroupsWellDrawn, ConfigsSound, SetDetails
<1>2. details \in [DOMAIN configs -> SUBSET Attribute]
  BY <1>1 DEF TypeOK
<1>3. details' \in [DOMAIN configs -> SUBSET Attribute]
  BY <1>1, <1>2
<1>4. \A j \in DOMAIN configs : details'[j] \subseteq details[j] \cup AttributesOf(groups)
  BY <1>1, <1>2 DEF AllowedDetail
<1>5. TypeOK'
  <2>1. requests' \in 0 .. MaxRequests
    BY <1>1, ConstantsAssumption DEF TypeOK, Request
  <2> QED BY <1>1, <1>3, <2>1 DEF TypeOK, WithRows
<1>6. Live' = Live
  BY <1>1 DEF Live
<1>7. ConfiguredStay'
  <2> SUFFICES ASSUME NEW a, a \in Configured'
               PROVE  a \in AttributesOf(groups) \cup hidden
    BY <1>1 DEF ConfiguredStay
  <2>0. PICK j \in DOMAIN configs' :
          /\ ~configs'[j].deleted
          /\ \/ \E n \in DOMAIN configs'[j].attrs : configs'[j].attrs[n][1] = a
             \/ a \in details'[j]
    BY DEF Configured, Live
  <2>1. /\ j \in Live
        /\ \/ \E n \in DOMAIN configs[j].attrs : configs[j].attrs[n][1] = a
           \/ a \in details'[j]
    BY <1>1, <2>0 DEF Live
  <2>2. a \in Configured \cup AttributesOf(groups)
    BY <1>4, <2>1, ConfiguredAre DEF Live
  <2> QED BY <1>1, <2>2 DEF ConfiguredStay
<1>8. (PathsFollowGroups /\ RanksDistinct /\ RanksBounded /\ ConfigsFit)'
  BY <1>1 DEF PathsFollowGroups, RanksDistinct, RanksBounded, ConfigsFit
<1>9. NoDuplicateConfigs'
  BY <1>1, <1>6 DEF NoDuplicateConfigs
<1> QED BY <1>5, <1>7, <1>8, <1>9 DEF IInv, GroupsWellDrawn, ConfigsSound

-----------------------------------------------------------------------------
(* The theorems.                                                           *)

\* A sequence of the attributes of a set.
LEMMA OrdersTyped ==
  ASSUME NEW as \in SUBSET Attribute, NEW ids \in SetToSeqs(as)
  PROVE  ids \in Seq(Attribute)
<1> DEFINE N == Cardinality(as)
<1>1. N \in Nat
  BY ConstantsAssumption, FS_Subset, FS_CardinalityType
<1>2. ids \in [1 .. N -> as]
  BY DEF SetToSeqs, Injection, IsInjective
<1> HIDE DEF N
<1>3. ids \in [1 .. N -> Attribute]
  BY <1>2
<1> QED BY <1>1, <1>3

LEMMA NextInv == IInv /\ [Next]_vars => IInv'
<1> SUFFICES ASSUME IInv, [Next]_vars
             PROVE  IInv'
  OBVIOUS
<1>1. ASSUME NEW d \in Drawings, Update(d)
      PROVE  IInv'
  BY <1>1, UpdateInv
<1>2. ASSUME NEW a \in Attribute, CreateVariation(a)
      PROVE  IInv'
  BY <1>2, CreateVariationInv
<1>3. ASSUME NEW as \in SUBSET Attribute, NEW ids \in SetToSeqs(as), OrderVariations(ids)
      PROVE  IInv'
  BY <1>3, OrdersTyped, OrderVariationsInv
<1>4. ASSUME NEW os \in Options, CreateConfigs(os)
      PROVE  IInv'
  BY <1>4, CreateConfigsInv
<1>5. ASSUME NEW i \in ConfigId, NEW as \in SUBSET Attribute, SetDetails(i, as)
      PROVE  IInv'
  BY <1>5, SetDetailsInv
<1>6. ASSUME UNCHANGED vars
      PROVE  IInv'
  BY <1>6 DEF vars, IInv, GroupsWellDrawn, TypeOK, WithRows, PathsFollowGroups, RanksDistinct,
     RanksBounded, ConfigsSound, ConfiguredStay, Configured, Live, NoDuplicateConfigs, ConfigsFit
<1> QED BY <1>1, <1>2, <1>3, <1>4, <1>5, <1>6 DEF Next

\* What VariationSurvives says of a step.
Survive ==
  \A a \in VariationOf(groups), g \in DOMAIN groups' \ System :
    a \in DOMAIN groups'[g].attrs => a \in VariationOf(groups')

LEMMA UpdateSurvive ==
  ASSUME IInv, NEW d \in Drawings, Update(d)
  PROVE  Survive
<1>1. PICK ids \in IdsOf(d) : groups' = Drawn(d, ids)
  BY DEF Update
<1>2. TypeOK /\ ParentsFirst(d)
  BY DEF IInv, GroupsWellDrawn, Update
<1> SUFFICES ASSUME NEW a \in VariationOf(groups), NEW g \in DOMAIN groups' \ System,
                    a \in DOMAIN groups'[g].attrs
             PROVE  a \in VariationOf(groups')
  BY DEF Survive
<1>3. PICK as \in SUBSET Attribute : groups'[g].attrs = NewRows(as)
  BY <1>1, <1>2, DrawnRows
<1>4. groups'[g].attrs[a].variation
  BY <1>3, NewRowsTyped
<1> QED BY <1>4, VariationsAre

LEMMA NextSurvive == IInv /\ [Next]_vars => [Survive]_vars
<1> SUFFICES ASSUME IInv, Next
             PROVE  Survive
  OBVIOUS
<1>1. ASSUME NEW d \in Drawings, Update(d)
      PROVE  Survive
  BY <1>1, UpdateSurvive
<1>2. ASSUME NEW a \in Attribute, CreateVariation(a)
      PROVE  Survive
  BY <1>2, CreateVariationInv DEF Survive
<1>3. ASSUME NEW as \in SUBSET Attribute, NEW ids \in SetToSeqs(as), OrderVariations(ids)
      PROVE  Survive
  BY <1>3, OrdersTyped, OrderVariationsInv DEF Survive
<1>4. ASSUME NEW os \in Options, CreateConfigs(os)
      PROVE  Survive
  BY <1>4 DEF CreateConfigs, Survive
<1>5. ASSUME NEW i \in ConfigId, NEW as \in SUBSET Attribute, SetDetails(i, as)
      PROVE  Survive
  BY <1>5 DEF SetDetails, Survive
<1> QED BY <1>1, <1>2, <1>3, <1>4, <1>5 DEF Next

LEMMA InvHolds == Spec => []IInv
<1> QED BY InitInv, NextInv, PTL DEF Spec

\* Groups stay well drawn, whatever is drawn and however often: the readers of
\* paths and those of parents see one tree of groups that exist, and no two
\* attributes that tell variants apart have the same rank.
THEOREM GroupsStayWellDrawn == Spec => []GroupsWellDrawn
<1>1. IInv => GroupsWellDrawn
  BY DEF IInv
<1> QED BY <1>1, InvHolds, PTL

\* Updates of the set never take the attributes of a live configuration or its
\* details out of the set, and no request makes two live configurations with
\* the same attributes and values for one brand.
THEOREM ConfigsStaySound == Spec => []ConfigsSound
<1>1. IInv => ConfigsSound
  BY DEF IInv
<1> QED BY <1>1, InvHolds, PTL

\* No request ends an attribute's telling variants apart while a group that it
\* inserts again has the attribute.
THEOREM VariationStays == Spec => VariationSurvives
<1>1. IInv /\ [Next]_vars => [Survive]_vars
  BY NextSurvive
<1>2. [][Survive]_vars => VariationSurvives
  BY PTL DEF VariationSurvives, Survive
<1> QED BY <1>1, <1>2, InvHolds, PTL DEF Spec

-----------------------------------------------------------------------------
(* The configuration of a product.                                         *)

\* A finite set of natural numbers has a greatest one.
LEMMA GreatestOfFinite ==
  ASSUME NEW S \in SUBSET Nat, IsFiniteSet(S), S # {}
  PROVE  \E x \in S : \A y \in S : y <= x
<1> DEFINE HasMax(T) == \E x \in T : \A y \in T : y <= x
           Bad == {T \in SUBSET S : T # {} /\ ~HasMax(T)}
           Sizes == {Cardinality(T) : T \in Bad}
<1>1. SUFFICES ASSUME Bad # {}
               PROVE  FALSE
  OBVIOUS
<1>2. \A T \in SUBSET S : IsFiniteSet(T) /\ Cardinality(T) \in Nat
  BY FS_Subset, FS_CardinalityType
<1>3. Sizes \in SUBSET Nat /\ Sizes # {}
  BY <1>1, <1>2
<1>4. PICK T \in Bad : \A U \in Bad : Cardinality(T) <= Cardinality(U)
  <2> HIDE DEF Bad
  <2>1. PICK n \in Sizes : \A k \in Sizes : n <= k
    <3> HIDE DEF Sizes
    <3> QED BY <1>3, LeastOfNumbers
  <2> QED BY <2>1
<1>5. PICK x \in T : TRUE
  OBVIOUS
<1> DEFINE U == T \ {x}
<1>6. U \in SUBSET S /\ Cardinality(U) = Cardinality(T) - 1
  BY <1>2, <1>5, FS_RemoveElement
<1>10. T \in SUBSET S /\ T \in Bad
  OBVIOUS
<1>7. U \notin Bad
  <2> HIDE DEF Bad, U
  <2>1. Cardinality(T) \in Nat /\ ~(Cardinality(T) <= Cardinality(T) - 1)
    BY <1>2, <1>10
  <2> QED BY <1>4, <1>6, <2>1
<1>8. CASE U = {}
  <2>1. T = {x} /\ x \in Nat
    BY <1>5, <1>8
  <2>2. HasMax(T)
    BY <2>1
  <2> QED BY <2>2
<1>9. CASE U # {}
  <2>1. HasMax(U)
    BY <1>6, <1>7, <1>9
  <2>2. PICK z \in U : \A y \in U : y <= z
    BY <2>1
  <2>3. x \in Nat /\ z \in T /\ z \in Nat /\ \A y \in T : y \in Nat /\ (y = x \/ y <= z)
    BY <1>5, <2>2
  <2>4. HasMax(T)
    <3>1. CASE x <= z
      BY <2>3, <3>1
    <3>2. CASE z <= x
      <4>1. \A y \in T : y <= x
        BY <2>3, <3>2
      <4> QED BY <1>5, <4>1
    <3> QED BY <2>3, <3>1, <3>2
  <2> QED BY <2>4
<1> QED BY <1>8, <1>9

\* A configuration, or the default one, and the attributes in its slots.
SeoRow(r) == r.attrs \in Seq(Attribute \X Value) /\ Len(r.attrs) <= Slots

LEMMA SeoRowsTyped ==
  ASSUME TypeOK, ConfigsFit
  PROVE  \A r \in SeoRows : SeoRow(r)
<1>1. \A i \in Live : SeoRow(configs[i])
  BY DEF TypeOK, ConfigsFit, Config, Live, SeoRow
<1>2. SeoRow(DefaultRow)
  <2>1. DefaultRow.attrs = <<>>
    BY DEF DefaultRow
  <2> QED BY <2>1, ConstantsAssumption DEF SeoRow
<1> QED BY <1>1, <1>2 DEF SeoRows

LEMMA SlotsOf ==
  ASSUME NEW r, SeoRow(r), NEW n \in Nat \ {0}
  PROVE  /\ n <= Len(r.attrs) => Slot(r, n) \in Attribute /\ Slot(r, n) > 0
         /\ n > Len(r.attrs) => Slot(r, n) = 0
         /\ Slot(r, n) \in Attribute \cup {0} /\ Slot(r, n) \in Nat
<1> DEFINE s == r.attrs
<1>1. s \in Seq(Attribute \X Value) /\ Len(s) \in Nat /\ DOMAIN s = 1 .. Len(s)
  BY DEF SeoRow
<1>2. \A x \in Attribute : x \in Nat /\ x > 0
  <2>1. Attribute \subseteq Nat \ {0}
    BY ConstantsAssumption
  <2> QED BY <2>1
<1>3. CASE n <= Len(s)
  <2>1. n \in DOMAIN s
    BY <1>1, <1>3
  <2>2. s[n] \in Attribute \X Value
    BY <1>1, <2>1
  <2>3. s[n][1] \in Attribute
    BY <2>2
  <2>4. Slot(r, n) = s[n][1]
    BY <2>1 DEF Slot
  <2> QED BY <1>1, <1>2, <1>3, <2>3, <2>4
<1>4. CASE n > Len(s)
  <2>1. n \notin DOMAIN s
    BY <1>1, <1>4
  <2>2. Slot(r, n) = 0
    BY <2>1 DEF Slot
  <2> QED BY <1>1, <1>4, <2>2
<1> QED BY <1>1, <1>3, <1>4

\* Row r is ahead of row x by a slot after n.
AheadAfter(r, x, n) ==
  \E m \in (n + 1) .. Slots : Slot(r, m) > Slot(x, m) /\ \A k \in (m + 1) .. Slots : Slot(r, k) = Slot(x, k)

\* Of rows, some have none ahead of them by a later slot: by the last slot
\* first, those with the largest attribute are left.
LEMMA FirstBySlots ==
  ASSUME NEW fit, fit # {}, \A r \in fit : SeoRow(r), NEW n \in 0 .. Slots
  PROVE  \E r \in fit : \A x \in fit : ~AheadAfter(x, r, n)
<1> DEFINE First(j) == {r \in fit : \A x \in fit : ~AheadAfter(x, r, j)}
           Bad == {j \in 0 .. Slots : First(Slots - j) = {}}
<1>1. Slots \in Nat
  BY ConstantsAssumption
<1>2. SUFFICES Bad = {}
  <2>1. Slots - n \in 0 .. Slots /\ Slots - (Slots - n) = n
    BY <1>1
  <2> QED BY <2>1
<1>3. SUFFICES ASSUME Bad # {}
               PROVE  FALSE
  OBVIOUS
<1>4. Bad \in SUBSET Nat
  BY <1>1
<1>5. PICK j \in Bad : \A i \in Bad : j <= i
  <2> HIDE DEF Bad
  <2> QED BY <1>3, <1>4, LeastOfNumbers
<1>6. j \in 0 .. Slots /\ First(Slots - j) = {}
  OBVIOUS
<1>7. CASE j = 0
  <2>1. (Slots + 1) .. Slots = {} /\ Slots - j = Slots
    BY <1>1, <1>7
  <2>2. \A r, x \in fit : ~AheadAfter(x, r, Slots)
    BY <2>1 DEF AheadAfter
  <2> QED BY <1>6, <2>1, <2>2
<1>8. CASE j # 0
  <2> DEFINE h == Slots - (j - 1)
  <2>1. /\ h \in 1 .. Slots /\ h \in Nat \ {0} /\ Slots - j = h - 1 /\ (h - 1) + 1 = h
        /\ j - 1 \in 0 .. Slots /\ ~(j <= j - 1)
    BY <1>1, <1>6, <1>8
  <2>2. First(h) # {}
    <3>1. j - 1 \notin Bad
      <4> HIDE DEF Bad
      <4> QED BY <1>5, <2>1
    <3> QED BY <2>1, <3>1
  <2> DEFINE Largest == {Slot(r, h) : r \in First(h)}
  <2>3. Largest \in SUBSET Nat /\ Largest # {} /\ Largest \subseteq Attribute \cup {0}
    <3>1. \A r \in fit : Slot(r, h) \in Attribute \cup {0} /\ Slot(r, h) \in Nat
      <4> HIDE DEF h
      <4> QED BY <2>1, SlotsOf
    <3> QED BY <2>2, <3>1
  <2>4. IsFiniteSet(Largest)
    <3>1. IsFiniteSet(Attribute \cup {0})
      BY ConstantsAssumption, FS_AddElement
    <3> HIDE DEF Largest
    <3> QED BY <2>3, <3>1, FS_Subset
  <2>5. PICK top \in Largest : \A y \in Largest : y <= top
    <3> HIDE DEF Largest
    <3> QED BY <2>3, <2>4, GreatestOfFinite
  <2>6. PICK r \in First(h) : Slot(r, h) = top
    OBVIOUS
  <2>7. r \in fit /\ \A x \in fit : ~AheadAfter(x, r, h)
    OBVIOUS
  <2> HIDE DEF h
  <2>8. ASSUME NEW x \in fit, AheadAfter(x, r, h - 1)
        PROVE  FALSE
    <3>1. PICK m \in h .. Slots : Slot(x, m) > Slot(r, m) /\ \A k \in (m + 1) .. Slots : Slot(x, k) = Slot(r, k)
      BY <2>1, <2>8 DEF AheadAfter
    <3>2. m = h
      <4>1. m \notin (h + 1) .. Slots
        BY <2>7, <2>8, <3>1 DEF AheadAfter
      <4> QED BY <1>1, <2>1, <4>1
    <3>3. x \in First(h)
      <4> SUFFICES ASSUME NEW y \in fit, AheadAfter(y, x, h)
                   PROVE  FALSE
        BY <2>8
      <4>1. PICK l \in (h + 1) .. Slots : Slot(y, l) > Slot(x, l) /\ \A k \in (l + 1) .. Slots : Slot(y, k) = Slot(x, k)
        BY DEF AheadAfter
      <4>2. \A k \in (l + 1) .. Slots : k \in (h + 1) .. Slots
        BY <1>1, <2>1
      <4>3. Slot(y, l) > Slot(r, l) /\ \A k \in (l + 1) .. Slots : Slot(y, k) = Slot(r, k)
        BY <3>1, <3>2, <4>1, <4>2
      <4>4. AheadAfter(y, r, h)
        BY <4>3 DEF AheadAfter
      <4> QED BY <2>7, <4>4
    <3>4. Slot(x, h) \in Largest
      BY <3>3
    <3>5. Slot(x, h) <= Slot(r, h) /\ Slot(x, h) \in Nat /\ Slot(r, h) \in Nat
      BY <2>1, <2>5, <2>6, <2>7, <2>8, <3>4, SlotsOf
    <3> QED BY <3>1, <3>2, <3>5
  <2>9. r \in First(h - 1)
    BY <2>7, <2>8
  <2> QED BY <1>6, <2>1, <2>9
<1> QED BY <1>7, <1>8

\* Rows that a product of values and brand b can take.
Fit(values, b) == {r \in SeoRows : r.brand \in {None, b} /\ Agrees(r, values)}

\* With a default some row is taken.
LEMMA SomeIsFound ==
  ASSUME TypeOK, ConfigsFit, default, NEW values, NEW b
  PROVE  SeoByConfig(values, b) # {}
<1> DEFINE fit == Fit(values, b)
<1>1. Slots \in Nat \ {0} /\ 0 \in 0 .. Slots /\ 1 \in 1 .. Slots
  BY ConstantsAssumption
<1>2. DefaultRow \in fit
  <2>1. DefaultRow \in SeoRows
    BY DEF SeoRows
  <2>2. DefaultRow.brand = None /\ DefaultRow.attrs = <<>>
    BY DEF DefaultRow
  <2>3. Agrees(DefaultRow, values)
    <3>1. 1 \notin DOMAIN DefaultRow.attrs
      BY <2>2
    <3> QED BY <1>1, <3>1 DEF Agrees
  <2> QED BY <2>1, <2>2, <2>3 DEF Fit
<1>3. \A r \in fit : SeoRow(r)
  BY SeoRowsTyped DEF Fit
<1> HIDE DEF fit
<1>4. PICK r \in fit : \A x \in fit : ~AheadAfter(x, r, 0)
  BY <1>1, <1>2, <1>3, FirstBySlots
<1>5. \A x, y : AheadAfter(x, y, 0) <=> Ahead(x, y)
  BY <1>1 DEF AheadAfter, Ahead
<1>6. \A x \in fit : ~Ahead(x, r)
  BY <1>4, <1>5
<1>7. SeoByConfig(values, b) = {y \in fit : \A x \in fit : ~Ahead(x, y) /\ ~AheadByBrand(x, y)}
  BY DEF SeoByConfig, fit, Fit
<1>8. CASE \A x \in fit : ~AheadByBrand(x, r)
  BY <1>6, <1>7, <1>8
<1>9. CASE \E x \in fit : AheadByBrand(x, r)
  <2>1. PICK y \in fit : AheadByBrand(y, r)
    BY <1>9
  <2>2. y.brand # None /\ \A n \in 1 .. Slots : Slot(y, n) = Slot(r, n)
    BY <2>1 DEF AheadByBrand
  <2>3. ASSUME NEW x \in fit
        PROVE  ~Ahead(x, y)
    <3>1. \A n \in 1 .. Slots : \A k \in (n + 1) .. Slots : k \in 1 .. Slots
      BY <1>1
    <3>2. Ahead(x, y) => Ahead(x, r)
      BY <2>2, <3>1 DEF Ahead
    <3> QED BY <1>6, <3>2
  <2>4. \A x \in fit : ~AheadByBrand(x, y)
    BY <2>2 DEF AheadByBrand
  <2> QED BY <1>7, <2>3, <2>4
<1> QED BY <1>8, <1>9

\* A row is not taken before one that fits and has more attributes.
LEMMA MoreAttributesAhead ==
  ASSUME NEW c, SeoRow(c), NEW r, SeoRow(r), Len(c.attrs) > Len(r.attrs)
  PROVE  Ahead(c, r)
<1> DEFINE L == Len(c.attrs)
<1>1. L \in Nat /\ Len(r.attrs) \in Nat /\ L > Len(r.attrs) /\ Slots \in Nat /\ L <= Slots
  BY ConstantsAssumption DEF SeoRow
<1> HIDE DEF L
<1>2. L \in 1 .. Slots /\ L \in Nat \ {0}
  BY <1>1
<1>3. Slot(c, L) > 0 /\ Slot(r, L) = 0
  BY <1>1, <1>2, SlotsOf DEF L
<1>4. ASSUME NEW k \in (L + 1) .. Slots
      PROVE  Slot(c, k) = Slot(r, k)
  <2>1. k \in Nat \ {0} /\ k > L /\ k > Len(r.attrs)
    BY <1>1
  <2> QED BY <2>1, SlotsOf DEF L
<1> QED BY <1>2, <1>3, <1>4 DEF Ahead

\* What is made for a product fits it.
LEMMA MadeFits ==
  ASSUME TypeOK, ConfigsFit, NEW values, NEW b, NEW i \in Live,
         configs[i].brand \in {None, b}, configs[i].attrs # <<>>,
         \A n \in DOMAIN configs[i].attrs : values[configs[i].attrs[n][1]] = configs[i].attrs[n][2]
  PROVE  configs[i] \in Fit(values, b) /\ Len(configs[i].attrs) > 0
<1> DEFINE s == configs[i].attrs
<1>1. configs[i] \in SeoRows /\ SeoRow(configs[i])
  BY SeoRowsTyped DEF SeoRows
<1>2. s \in Seq(Attribute \X Value) /\ Len(s) \in Nat /\ DOMAIN s = 1 .. Len(s) /\ Len(s) > 0
  BY <1>1 DEF SeoRow
<1>3. 1 \in DOMAIN s /\ 1 \in 1 .. Slots
  BY <1>2, ConstantsAssumption
<1>4. Agrees(configs[i], values)
  BY <1>3 DEF Agrees
<1> QED BY <1>1, <1>2, <1>4 DEF Fit

LEMMA FoundIsBest ==
  ASSUME TypeOK, ConfigsFit, NEW values, NEW b, NEW r \in SeoByConfig(values, b)
  PROVE  /\ SeoRow(r) /\ r.brand \in {None, b}
         /\ \A x \in Fit(values, b) : ~Ahead(x, r) /\ ~AheadByBrand(x, r)
BY SeoRowsTyped DEF SeoByConfig, Fit

LEMMA SeoInv == IInv => SeoMadeForProduct
<1> SUFFICES ASSUME IInv, NEW values \in [Attribute -> {None} \cup AttributeValues], NEW b \in Brand
             PROVE
    LET made == {i \in Live : configs[i].brand \in {None, b} /\ configs[i].attrs # <<>> /\
                   \A n \in DOMAIN configs[i].attrs : values[configs[i].attrs[n][1]] = configs[i].attrs[n][2]}
    IN  /\ default => SeoDefault(values, b) # {}
        /\ \A r \in SeoByConfig(values, b) \cup SeoDefault(values, b) :
             /\ r.brand \in {None, b}
             /\ \A i \in made :
                  /\ Len(r.attrs) >= Len(configs[i].attrs)
                  /\ r.brand = None /\ (\A n \in 1..Slots : Slot(r, n) = Slot(configs[i], n)) =>
                       configs[i].brand = None
  BY DEF SeoMadeForProduct
<1> DEFINE made == {i \in Live : configs[i].brand \in {None, b} /\ configs[i].attrs # <<>> /\
                   \A n \in DOMAIN configs[i].attrs : values[configs[i].attrs[n][1]] = configs[i].attrs[n][2]}
           Good(r, i) == /\ Len(r.attrs) >= Len(configs[i].attrs)
                         /\ r.brand = None /\ (\A n \in 1..Slots : Slot(r, n) = Slot(configs[i], n)) =>
                              configs[i].brand = None
<1>1. TypeOK /\ ConfigsFit
  BY DEF IInv, GroupsWellDrawn
<1>2. \A i \in made : configs[i] \in Fit(values, b) /\ Len(configs[i].attrs) > 0 /\ SeoRow(configs[i])
  BY <1>1, MadeFits, SeoRowsTyped DEF Fit
<1> HIDE DEF made
<1>3. ASSUME NEW r \in SeoByConfig(values, b)
      PROVE  SeoRow(r) /\ r.brand \in {None, b} /\ \A i \in made : Good(r, i)
  <2>1. /\ SeoRow(r) /\ r.brand \in {None, b}
        /\ \A x \in Fit(values, b) : ~Ahead(x, r) /\ ~AheadByBrand(x, r)
    BY <1>1, FoundIsBest
  <2>2. ASSUME NEW i \in made
        PROVE  Good(r, i)
    <3>1. ~Ahead(configs[i], r) /\ ~AheadByBrand(configs[i], r)
      BY <1>2, <2>1
    <3>2. ~(Len(configs[i].attrs) > Len(r.attrs))
      BY <1>2, <2>1, <3>1, MoreAttributesAhead
    <3>3. Len(configs[i].attrs) \in Nat /\ Len(r.attrs) \in Nat
      BY <1>2, <2>1 DEF SeoRow
    <3>4. Len(r.attrs) >= Len(configs[i].attrs)
      BY <3>2, <3>3
    <3> QED BY <3>1, <3>4 DEF AheadByBrand
  <2> QED BY <2>1, <2>2
<1>4. ASSUME default, NEW r \in SeoByConfig(values, b), \A n \in 1 .. Slots : ~(Slot(r, n) > Slot(DefaultRow, n))
      PROVE  made = {}
  <2>1. SeoRow(r) /\ \A i \in made : Len(r.attrs) >= Len(configs[i].attrs)
    BY <1>3
  <2>2. 1 \in 1 .. Slots /\ 1 \in Nat \ {0} /\ Len(r.attrs) \in Nat
    BY <2>1, ConstantsAssumption DEF SeoRow
  <2>3. Slot(DefaultRow, 1) = 0
    <3>1. DefaultRow.attrs = <<>>
      BY DEF DefaultRow
    <3> QED BY <3>1 DEF Slot
  <2>4. ~(1 <= Len(r.attrs))
    BY <1>4, <2>1, <2>2, <2>3, SlotsOf
  <2>5. \A i \in made : Len(configs[i].attrs) \in Nat
    BY <1>2 DEF SeoRow
  <2> QED BY <1>2, <2>1, <2>2, <2>4, <2>5
<1>5. ASSUME NEW r \in SeoDefault(values, b)
      PROVE  r.brand \in {None, b} /\ \A i \in made : Good(r, i)
  <2>1. CASE r \in SeoByConfig(values, b)
    BY <1>3, <2>1
  <2>2. CASE r \notin SeoByConfig(values, b)
    <3>1. default /\ r = DefaultRow
          /\ \E x \in SeoByConfig(values, b) : \A n \in 1 .. Slots : ~(Slot(x, n) > Slot(DefaultRow, n))
      BY <2>2 DEF SeoDefault
    <3>2. made = {}
      BY <1>4, <3>1
    <3>3. r.brand = None
      BY <3>1 DEF DefaultRow
    <3> QED BY <3>2, <3>3
  <2> QED BY <2>1, <2>2
<1>6. default => SeoDefault(values, b) # {}
  BY <1>1, SomeIsFound DEF SeoDefault
<1> QED BY <1>3, <1>5, <1>6 DEF made

\* With a default a product always finds a configuration, and the one it
\* takes its texts from is for its brand or for all, and is not taken before
\* one that was made for the product and names more attributes, or names the
\* same ones for its brand: for any number of slots and configurations.
THEOREM SeoFound == Spec => []SeoMadeForProduct
<1> QED BY SeoInv, InvHolds, PTL

-----------------------------------------------------------------------------
(* The detail of an SKU.                                                    *)

\* What the tables hold has its type.
ContentInv == ContentTypeOK /\ DOMAIN value = ContentAttribute

LEMMA ContentInvStays == ContentInv /\ [ContentNext]_contentVars => ContentInv'
<1> SUFFICES ASSUME ContentInv, [ContentNext]_contentVars
             PROVE  ContentInv'
  OBVIOUS
<1> USE DEF ContentInv, ContentTypeOK
<1>1. CASE UNCHANGED contentVars
  BY <1>1 DEF contentVars
<1>2. ASSUME NEW g \in GroupNumber, NEW flat \in BOOLEAN, NEW parent \in {None} \cup GroupNumber,
             DrawGroup(g, flat, parent)
      PROVE  ContentInv'
  <2>1. [flat |-> flat, parent |-> parent] \in [flat : BOOLEAN, parent : GroupNumber \cup {None}]
    OBVIOUS
  <2> QED BY <1>2, <2>1 DEF DrawGroup
<1>3. ASSUME NEW g \in GroupNumber \cup {None}, ChooseCommon(g)
      PROVE  ContentInv'
  BY <1>3 DEF ChooseCommon
<1>4. ASSUME NEW a \in ContentAttribute, NEW g \in GroupNumber, NEW p \in Place, PlaceAttribute(a, g, p)
      PROVE  ContentInv'
  BY <1>4 DEF PlaceAttribute
<1>5. ASSUME NEW a \in ContentAttribute, NEW options \in SUBSET ValueOption[a], SetValue(a, options)
      PROVE  ContentInv'
  BY <1>5 DEF SetValue
<1>6. ASSUME NEW fs \in {{}, Facts}, SetFacts(fs)
      PROVE  ContentInv'
  BY <1>6 DEF SetFacts
<1> QED BY <1>1, <1>2, <1>3, <1>4, <1>5, <1>6 DEF ContentNext

\* The row of group g with the values joined, its heading, and the row of
\* attribute a under g.
JoinedRow(g) ==
  [id |-> g, says |-> {a \in Displayed(g) : HasValue(a)}, under |-> group[g].parent]
HeadingRow(g) == [id |-> g, says |-> {}, under |-> group[g].parent]
FlatRow(g, a) == [id |-> None, says |-> {a}, under |-> g]

\* The rows of each kind, by what they say and what they stand under.
LEMMA RowKinds ==
  ASSUME ContentInv, NEW r \in Rows
  PROVE  \/ \E g \in GroupNumber : ~group[g].flat /\ r = JoinedRow(g)
         \/ r.id = None /\ r.says \subseteq Facts /\ r.under = common /\ common # None
         \/ \E g \in HeadedGroups : r = HeadingRow(g)
         \/ \E g \in GroupNumber, a \in ContentAttribute :
              group[g].flat /\ a \in Displayed(g) /\ HasValue(a) /\ r = FlatRow(g, a)
<1>1. CASE r \in JoinedRows
  BY <1>1 DEF JoinedRows, JoinedRow
<1>2. CASE r \in CommonRows
  BY <1>2 DEF CommonRows, ContentInv, ContentTypeOK
<1>3. CASE r \in HeadingRows
  BY <1>3 DEF HeadingRows, HeadingRow
<1>4. CASE r \in FlatRows
  <2>1. PICK g \in {h \in GroupNumber : group[h].flat} :
          r \in {[id |-> None, says |-> {a}, under |-> g] : a \in {b \in Displayed(g) : HasValue(b)}}
    BY <1>4, Zenon DEF FlatRows
  <2>2. PICK a \in {b \in Displayed(g) : HasValue(b)} : r = FlatRow(g, a)
    BY <2>1, Zenon DEF FlatRow
  <2> QED BY <2>1, <2>2 DEF Displayed, In
<1> QED BY <1>1, <1>2, <1>3, <1>4 DEF Rows

\* The one row in which group g says an attribute.
ShownRow(g, a) == IF group[g].flat THEN FlatRow(g, a) ELSE JoinedRow(g)

Says(g, a) == {r \in RowsOf(g) : a \in r.says}

LEMMA OneRowSays ==
  ASSUME ContentInv, NEW g \in GroupNumber, NEW a \in ContentAttribute
  PROVE  Says(g, a) = IF a \in Displayed(g) /\ HasValue(a) THEN {ShownRow(g, a)} ELSE {}
<1>1. ASSUME NEW r \in Says(g, a)
      PROVE  a \in Displayed(g) /\ HasValue(a) /\ r = ShownRow(g, a)
  <2>1. r \in Rows /\ a \in r.says /\ (IF group[g].flat THEN r.id = None /\ r.under = g ELSE r.id = g)
    BY DEF Says, RowsOf
  <2>2. ASSUME NEW h \in GroupNumber, ~group[h].flat, r = JoinedRow(h)
        PROVE  a \in Displayed(g) /\ HasValue(a) /\ r = ShownRow(g, a)
    <3>1. r.id = h /\ r.says = {b \in Displayed(h) : HasValue(b)}
      BY <2>2 DEF JoinedRow
    <3>2. h # None
      BY ContentAssumption
    <3>3. ~group[g].flat /\ h = g
      BY <2>1, <3>1, <3>2
    <3> QED BY <2>1, <2>2, <3>1, <3>3 DEF ShownRow
  <2>3. CASE r.says \subseteq Facts
    BY <2>1, <2>3, ContentAssumption
  <2>4. ASSUME NEW h \in HeadedGroups, r = HeadingRow(h)
        PROVE  FALSE
    <3>1. r.says = {}
      BY <2>4 DEF HeadingRow
    <3> QED BY <2>1, <3>1
  <2>5. ASSUME NEW h \in GroupNumber, NEW b \in ContentAttribute,
               group[h].flat, b \in Displayed(h), HasValue(b), r = FlatRow(h, b)
        PROVE  a \in Displayed(g) /\ HasValue(a) /\ r = ShownRow(g, a)
    <3>1. r.id = None /\ r.says = {b} /\ r.under = h
      BY <2>5 DEF FlatRow
    <3>2. g # None
      BY ContentAssumption
    <3>3. group[g].flat /\ h = g /\ b = a
      BY <2>1, <3>1, <3>2
    <3> QED BY <2>5, <3>3 DEF ShownRow
  <2> QED BY <2>1, <2>2, <2>3, <2>4, <2>5, RowKinds
<1>2. ASSUME a \in Displayed(g), HasValue(a)
      PROVE  ShownRow(g, a) \in Says(g, a)
  <2>1. CASE group[g].flat
    <3>1. PICK r : r = FlatRow(g, a)
      OBVIOUS
    <3>2. r \in {[id |-> None, says |-> {c}, under |-> g] : c \in {b \in Displayed(g) : HasValue(b)}}
      BY <1>2, <3>1 DEF FlatRow
    <3>3. r \in FlatRows
      BY <2>1, <3>2, Zenon DEF FlatRows
    <3>4. r.id = None /\ r.under = g /\ a \in r.says
      BY <3>1 DEF FlatRow
    <3> QED BY <2>1, <3>1, <3>3, <3>4 DEF ShownRow, Says, RowsOf, Rows
  <2>2. CASE ~group[g].flat
    <3>1. PICK r : r = JoinedRow(g)
      OBVIOUS
    <3>2. r \in JoinedRows
      BY <1>2, <2>2, <3>1 DEF JoinedRows, JoinedRow
    <3>3. r.id = g /\ a \in r.says
      BY <1>2, <3>1 DEF JoinedRow
    <3> QED BY <2>2, <3>1, <3>2, <3>3 DEF ShownRow, Says, RowsOf, Rows
  <2> QED BY <2>1, <2>2
<1> QED BY <1>1, <1>2

LEMMA EveryValueShown == ContentInv => EveryValueOnce
<1>1. ASSUME ContentInv, NEW g \in GroupNumber, NEW a \in ContentAttribute
      PROVE  IF a \in Displayed(g) /\ HasValue(a) THEN Cardinality(Says(g, a)) = 1 ELSE Says(g, a) = {}
  <2>1. CASE a \in Displayed(g) /\ HasValue(a)
    <3>1. Says(g, a) = {ShownRow(g, a)}
      BY <1>1, <2>1, OneRowSays
    <3>2. Cardinality(Says(g, a)) = 1
      BY <3>1, FS_Singleton
    <3> QED BY <2>1, <3>2
  <2>2. CASE ~(a \in Displayed(g) /\ HasValue(a))
    BY <1>1, <2>2, OneRowSays
  <2> QED BY <2>1, <2>2
<1>2. ASSUME ContentInv, NEW r \in Rows, r.says \cap ContentAttribute # {}
      PROVE  \E g \in GroupNumber : r \in RowsOf(g)
  <2>1. ASSUME NEW g \in GroupNumber, ~group[g].flat, r = JoinedRow(g)
        PROVE  r \in RowsOf(g)
    <3>1. r.id = g
      BY <2>1 DEF JoinedRow
    <3> QED BY <2>1, <3>1 DEF RowsOf
  <2>2. CASE r.says \subseteq Facts
    BY <1>2, <2>2, ContentAssumption
  <2>3. ASSUME NEW g \in HeadedGroups, r = HeadingRow(g)
        PROVE  FALSE
    <3>1. r.says = {}
      BY <2>3 DEF HeadingRow
    <3> QED BY <1>2, <3>1
  <2>4. ASSUME NEW g \in GroupNumber, NEW a \in ContentAttribute, group[g].flat, r = FlatRow(g, a)
        PROVE  r \in RowsOf(g)
    <3>1. r.id = None /\ r.under = g
      BY <2>4 DEF FlatRow
    <3> QED BY <2>4, <3>1 DEF RowsOf
  <2> QED BY <1>2, <2>1, <2>2, <2>3, <2>4, RowKinds
<1> QED BY <1>1, <1>2 DEF EveryValueOnce, Says

LEMMA HeadingsFound == ContentInv => NothingHangsLoose
<1> SUFFICES ASSUME ContentInv, NEW r \in Rows, r.under # None, r.id = None \/ group[r.id].flat
             PROVE  \E h \in HeadingRows : h.id = r.under
  BY DEF NothingHangsLoose
<1>1. ASSUME NEW g \in HeadedGroups
      PROVE  \E h \in HeadingRows : h.id = g
  <2>1. PICK h : h = [id |-> g, says |-> {}, under |-> group[g].parent]
    OBVIOUS
  <2> QED BY <2>1 DEF HeadingRows
<1>2. ASSUME NEW g \in GroupNumber, ~group[g].flat, r = JoinedRow(g)
      PROVE  FALSE
  <2>1. r.id = g
    BY <1>2 DEF JoinedRow
  <2>2. g # None
    BY ContentAssumption
  <2> QED BY <1>2, <2>1, <2>2
<1>3. CASE r.under = common
  BY <1>1, <1>3 DEF HeadedGroups, ContentInv, ContentTypeOK
<1>4. ASSUME NEW g \in HeadedGroups, r = HeadingRow(g)
      PROVE  \E h \in HeadingRows : h.id = r.under
  <2>1. r.id = g /\ r.under = group[g].parent /\ g \in GroupNumber
    BY <1>4 DEF HeadingRow, HeadedGroups
  <2>2. group[g].flat
    BY <2>1, ContentAssumption
  <2>3. group[g].parent \in GroupNumber \cup {None}
    BY <2>1 DEF ContentInv, ContentTypeOK
  <2>4. HasFlatChild(r.under)
    BY <2>1, <2>2 DEF HasFlatChild
  <2> QED BY <1>1, <2>1, <2>3, <2>4 DEF HeadedGroups
<1>5. ASSUME NEW g \in GroupNumber, NEW a \in ContentAttribute, group[g].flat, r = FlatRow(g, a)
      PROVE  \E h \in HeadingRows : h.id = r.under
  <2>1. r.under = g
    BY <1>5 DEF FlatRow
  <2> QED BY <1>1, <1>5, <2>1 DEF HeadedGroups
<1> QED BY <1>2, <1>3, <1>4, <1>5, RowKinds

LEMMA RowsOfGroup == ContentInv => OneRowPerGroup
<1> SUFFICES ASSUME ContentInv, NEW r \in Rows, NEW s \in Rows, r # s, r.id = s.id, r.id # None
             PROVE  /\ ~group[r.id].flat /\ (r.id = common \/ HasFlatChild(r.id))
                    /\ {} \in {r.says, s.says}
  BY DEF OneRowPerGroup
<1> DEFINE IsJoined(x) == ~group[x.id].flat /\ x = JoinedRow(x.id)
           IsHeading(x) == x.id \in HeadedGroups /\ x = HeadingRow(x.id)
<1>1. ASSUME NEW x \in Rows, x.id # None
      PROVE  IsJoined(x) \/ IsHeading(x)
  <2>1. ASSUME NEW g \in GroupNumber, ~group[g].flat, x = JoinedRow(g)
        PROVE  IsJoined(x)
    <3>1. x.id = g
      BY <2>1 DEF JoinedRow
    <3> QED BY <2>1, <3>1
  <2>2. ASSUME NEW g \in HeadedGroups, x = HeadingRow(g)
        PROVE  IsHeading(x)
    <3>1. x.id = g
      BY <2>2 DEF HeadingRow
    <3> QED BY <2>2, <3>1
  <2>3. ASSUME NEW g \in GroupNumber, NEW a \in ContentAttribute, x = FlatRow(g, a)
        PROVE  FALSE
    <3>1. x.id = None
      BY <2>3 DEF FlatRow
    <3> QED BY <1>1, <3>1
  <2> QED BY <1>1, <2>1, <2>2, <2>3, RowKinds
<1>2. IsHeading(r) => r.says = {}
  BY DEF HeadingRow
<1>3. IsHeading(s) => s.says = {}
  BY DEF HeadingRow
<1>4. ~(IsJoined(r) /\ IsJoined(s)) /\ ~(IsHeading(r) /\ IsHeading(s))
  OBVIOUS
<1>5. IsJoined(r) \/ IsHeading(r)
  BY <1>1
<1>6. IsJoined(s) \/ IsHeading(s)
  BY <1>1
<1> QED BY <1>2, <1>3, <1>4, <1>5, <1>6 DEF HeadedGroups

LEMMA RowsListed == ContentInv => RowsAreListed
<1> SUFFICES ASSUME ContentInv, NEW r \in Rows, NEW a \in r.says \ Facts
             PROVE  a \in DOMAIN ListedAttributes /\ ListedAttributes[a] = ShownOptions(a)
  BY DEF RowsAreListed
<1>1. a \in ContentAttribute /\ HasValue(a) /\ \E g \in GroupNumber : a \in In(g)
  <2>1. ASSUME NEW g \in GroupNumber, r = JoinedRow(g)
        PROVE  a \in Displayed(g) /\ HasValue(a)
    <3>1. r.says = {b \in Displayed(g) : HasValue(b)}
      BY <2>1 DEF JoinedRow
    <3> QED BY <3>1
  <2>2. ~(r.says \subseteq Facts)
    OBVIOUS
  <2>3. ASSUME NEW g \in HeadedGroups, r = HeadingRow(g)
        PROVE  FALSE
    <3>1. r.says = {}
      BY <2>3 DEF HeadingRow
    <3> QED BY <3>1
  <2>4. ASSUME NEW g \in GroupNumber, NEW b \in ContentAttribute,
               b \in Displayed(g), HasValue(b), r = FlatRow(g, b)
        PROVE  a \in Displayed(g) /\ HasValue(a)
    <3>1. r.says = {b}
      BY <2>4 DEF FlatRow
    <3> QED BY <2>4, <3>1
  <2>5. \E g \in GroupNumber : a \in Displayed(g) /\ HasValue(a)
    BY <2>1, <2>2, <2>3, <2>4, RowKinds
  <2> QED BY <2>5 DEF Displayed, In
<1> QED BY <1>1 DEF ListedAttributes

\* However groups, attributes, values and facts change, and whichever groups
\* an attribute is in, each group shows every value it displays in one row of
\* its own, under a heading that is there, and the detail says nothing else.
THEOREM DetailAlwaysShows == ContentSpec => []DetailShowsValues
<1>1. ContentInit => ContentInv
  BY DEF ContentInit, ContentInv, ContentTypeOK, Facts, Place
<1>2. ContentInv /\ [ContentNext]_contentVars => ContentInv'
  BY ContentInvStays
<1>3. ContentInv => DetailShowsValues
  BY EveryValueShown, HeadingsFound, RowsOfGroup, RowsListed DEF DetailShowsValues, ContentInv
<1> QED BY <1>1, <1>2, <1>3, PTL DEF ContentSpec

-----------------------------------------------------------------------------
(* The variants of a product.                                               *)

\* Ids below next were handed out, each once.
IdsApart ==
  /\ next \in Nat \ {0}
  /\ \A v \in DOMAIN rows : v < next
  /\ \A w \in Worker : request[w] # None =>
       /\ \A v \in DOMAIN request[w].new : v < next
       /\ \A v \in DOMAIN request[w].seen : v < next
       /\ DOMAIN request[w].new \cap DOMAIN rows = {}
       /\ \A x \in Worker : request[x] # None =>
            /\ DOMAIN request[w].new \cap DOMAIN request[x].seen = {}
            /\ x # w => DOMAIN request[w].new \cap DOMAIN request[x].new = {}

VariantShapes ==
  /\ VariantTypeOK /\ rows \in Table
  /\ DOMAIN request = Worker /\ \A w \in Worker : request[w] # None => request[w] \in VariantRequest
  /\ DOMAIN variantSku = Variant
  /\ \A v \in Variant : variantSku[v] # None => v \in DOMAIN rows /\ variantSku[v] \in VariantSku

\* A request sees the settled groups that it creates into as they are.
SeesGroups(w) ==
  LET seen == request[w].seen IN
  /\ \A v \in DOMAIN seen : Key(seen[v]) \notin unsettled => v \in DOMAIN rows /\ rows[v] = seen[v]
  /\ \A v \in DOMAIN rows \cap DOMAIN seen : Key(rows[v]) \notin unsettled => rows[v] = seen[v]
  /\ \A v \in DOMAIN rows \ DOMAIN seen :
       Key(rows[v]) \in KeysOf(request[w]) => Key(rows[v]) \in unsettled

RequestsSee == \A w \in Worker : request[w] # None => SeesGroups(w)

\* A SKU knows its unit, and if that is not the base its group has one.
SkuFits(v) ==
  LET bases == BasesIn(rows, Key(rows[v])) IN
  /\ variantSku[v].uom_ratio = rows[v]["uom_ratio"]
  /\ rows[v]["uom_ratio"] # 1 => bases # {}
  /\ variantSku[v].seller_sku # None => variantSku[v].seller_sku \in bases

SkusFit == \A v \in Quiet \cap Sold : SkuFits(v)

VariantInv == VariantShapes /\ IdsApart /\ RequestsSee /\ GroupsWhole /\ SkusFit

-----------------------------------------------------------------------------
(* Groups.                                                                 *)

\* Two tables with the same group of a key.
SameGroup(A, B, k) ==
  /\ \A v \in DOMAIN A : Key(A[v]) = k => v \in DOMAIN B /\ B[v] = A[v]
  /\ \A v \in DOMAIN B : Key(B[v]) = k => v \in DOMAIN A /\ A[v] = B[v]

LEMMA SameGroups ==
  ASSUME NEW A, NEW B, NEW k, SameGroup(A, B, k)
  PROVE  Members(A, k) = Members(B, k) /\ BasesIn(A, k) = BasesIn(B, k) /\ Listing(A, k) = Listing(B, k)
<1>1. Members(A, k) = Members(B, k) /\ \A v \in Members(A, k) : A[v] = B[v]
  BY DEF SameGroup, Members
<1> QED BY <1>1 DEF BasesIn, Listing

LEMMA JoinedIs ==
  ASSUME NEW f, NEW g
  PROVE  /\ DOMAIN Joined(f, g) = DOMAIN f \cup DOMAIN g
         /\ \A x \in DOMAIN g : Joined(f, g)[x] = g[x]
         /\ \A x \in DOMAIN f : x \notin DOMAIN g => Joined(f, g)[x] = f[x]
BY DEF Joined

\* The base units a list names are those of the group.
LEMMA NamedAre ==
  ASSUME GroupsWhole, NEW v \in Quiet
  PROVE  NamedBases(v) = BasesIn(rows, Key(rows[v]))
<1> DEFINE k == Key(rows[v])
<1>1. CASE BasesIn(rows, k) = {}
  <2>1. ratios[v] = {}
    BY <1>1 DEF GroupsWhole
  <2> QED BY <1>1, <2>1 DEF NamedBases
<1>2. CASE BasesIn(rows, k) # {}
  <2>1. ratios[v] = Listing(rows, k)
    BY <1>2 DEF GroupsWhole
  <2>2. ASSUME NEW b \in BasesIn(rows, k)
        PROVE  b \in NamedBases(v)
    <3>1. <<b, 1>> \in ratios[v]
      BY <2>1 DEF BasesIn, Listing
    <3> QED BY <3>1 DEF NamedBases
  <2>3. ASSUME NEW b \in NamedBases(v)
        PROVE  b \in BasesIn(rows, k)
    <3>1. PICK p \in ratios[v] : p[2] = 1 /\ b = p[1]
      BY DEF NamedBases
    <3> QED BY <2>1, <3>1 DEF Listing, BasesIn
  <2> QED BY <2>2, <2>3
<1> QED BY <1>1, <1>2

\* What a step does to settled groups: those that are still settled are as
\* they were, and their lists and SKUs too.
LEMMA GroupsStay ==
  ASSUME VariantInv,
         \A v \in Quiet' : v \in Quiet /\ rows'[v] = rows[v] /\ ratios'[v] = ratios[v]
                           /\ SameGroup(rows, rows', Key(rows[v])),
         \A v \in Variant : variantSku'[v] = variantSku[v] \/ variantSku'[v] = None
  PROVE  GroupsWhole' /\ SkusFit'
<1>1. ASSUME NEW v \in Quiet'
      PROVE  /\ rows'[v] = rows[v] /\ v \in Quiet /\ ratios'[v] = ratios[v]
             /\ BasesIn(rows', Key(rows'[v])) = BasesIn(rows, Key(rows[v]))
             /\ Listing(rows', Key(rows'[v])) = Listing(rows, Key(rows[v]))
  BY SameGroups
<1>2. GroupsWhole'
  BY <1>1 DEF VariantInv, GroupsWhole
<1>3. ASSUME NEW v \in Quiet', v \in Sold'
      PROVE  SkuFits(v)'
  <2>1. v \in Sold /\ variantSku'[v] = variantSku[v]
    BY <1>3 DEF Sold
  <2>2. SkuFits(v)
    BY <1>1, <2>1 DEF VariantInv, SkusFit
  <2> QED BY <1>1, <2>1, <2>2 DEF SkuFits
<1> QED BY <1>2, <1>3 DEF SkusFit

-----------------------------------------------------------------------------
(* Steps.                                                                  *)

LEMMA VariantInvHolds == VariantInit => VariantInv
<1> SUFFICES ASSUME VariantInit PROVE VariantInv
  OBVIOUS
<1>1. DOMAIN rows = {} /\ DOMAIN ratios = {} /\ rows \in Table
  <2>1. rows = [v \in {} |-> None]
    BY DEF VariantInit
  <2>2. rows \in [{} -> VariantRow]
    BY <2>1
  <2>3. {} \in SUBSET Variant
    OBVIOUS
  <2>4. [{} -> VariantRow] \in {[vs -> VariantRow] : vs \in SUBSET Variant}
    BY <2>3
  <2> QED BY <2>2, <2>4 DEF VariantInit, Table
<1>2. VariantShapes
  BY <1>1 DEF VariantInit, VariantShapes, VariantTypeOK
<1>3. IdsApart /\ RequestsSee
  BY <1>1 DEF VariantInit, IdsApart, RequestsSee
<1>4. Quiet = {}
  BY <1>1 DEF Quiet
<1> QED BY <1>2, <1>3, <1>4 DEF VariantInv, GroupsWhole, SkusFit

LEMMA CreateBegun ==
  ASSUME VariantInv, NEW w \in Worker, NEW batch \in Batches, BeginCreate(w, batch)
  PROVE  VariantInv'
<1>1. batch \in Seq(VariantRow) /\ Len(batch) \in Nat /\ next \in Nat \ {0}
  BY VariantAssumption DEF VariantInv, IdsApart
<1> DEFINE ids == next .. next + Len(batch) - 1
           new == [v \in ids |-> batch[v - next + 1]]
           r == [seen |-> rows, new |-> new]
<1>2. ids \subseteq Variant
  <2>1. next + Len(batch) - 1 \in Variant
    BY DEF BeginCreate
  <2>2. 1 .. next + Len(batch) - 1 \subseteq Variant
    BY <2>1, VariantAssumption
  <2> QED BY <1>1, <2>2
<1>3. new \in Table
  <2>1. \A v \in ids : v - next + 1 \in 1 .. Len(batch)
    BY <1>1
  <2>2. new \in [ids -> VariantRow]
    BY <1>1, <2>1
  <2>3. [ids -> VariantRow] \in {[vs -> VariantRow] : vs \in SUBSET Variant}
    BY <1>2
  <2> QED BY <2>2, <2>3 DEF Table
<1>4. r \in VariantRequest
  BY <1>3 DEF VariantRequest, VariantInv, VariantShapes
<1>5. r # None
  BY <1>4, VariantAssumption
<1>6. r.seen = rows /\ r.new = new /\ DOMAIN new = ids
  OBVIOUS
<1>7. /\ \A v \in ids : v >= next /\ v < next + Len(batch)
      /\ next + Len(batch) \in Nat \ {0} /\ next <= next + Len(batch)
  BY <1>1
<1>8. request' = [request EXCEPT ![w] = r] /\ request[w] = None /\ next' = next + Len(batch)
      /\ UNCHANGED <<rows, ratios, variantSku, edits, unsettled>>
  BY DEF BeginCreate
<1>9. Variant \subseteq Nat
  BY VariantAssumption
<1> HIDE DEF r, new
<1>10. DOMAIN request' = Worker /\ \A x \in Worker : request'[x] = IF x = w THEN r ELSE request[x]
  BY <1>8 DEF VariantInv, VariantShapes
<1>11. VariantShapes'
  BY <1>4, <1>8, <1>10 DEF VariantInv, VariantShapes, VariantTypeOK
<1>12. IdsApart'
  <2>1. /\ DOMAIN rows \subseteq Nat
        /\ \A x \in Worker : request[x] # None =>
             DOMAIN request[x].new \subseteq Nat /\ DOMAIN request[x].seen \subseteq Nat
    <3>1. \A x \in Worker : request[x] # None => request[x].new \in Table /\ request[x].seen \in Table
      BY DEF VariantInv, VariantShapes, VariantRequest
    <3>2. \A t \in Table : DOMAIN t \subseteq Variant
      BY DEF Table
    <3> QED BY <1>9, <3>1, <3>2 DEF VariantInv, VariantShapes
  <2>2. ids \cap DOMAIN rows = {} /\ \A v \in DOMAIN rows : v < next'
    BY <1>1, <1>7, <1>8, <2>1 DEF VariantInv, IdsApart
  <2>3. ASSUME NEW x \in Worker, request[x] # None
        PROVE  /\ \A v \in DOMAIN request[x].new : v < next'
               /\ \A v \in DOMAIN request[x].seen : v < next'
               /\ ids \cap DOMAIN request[x].new = {} /\ ids \cap DOMAIN request[x].seen = {}
               /\ DOMAIN request[x].new \cap DOMAIN rows = {}
    <3>1. /\ \A v \in DOMAIN request[x].new : v < next
          /\ \A v \in DOMAIN request[x].seen : v < next
          /\ DOMAIN request[x].new \cap DOMAIN rows = {}
      BY <2>3 DEF VariantInv, IdsApart
    <3> QED BY <1>1, <1>7, <1>8, <2>1, <2>3, <3>1
  <2>4. ASSUME NEW x \in Worker, NEW y \in Worker, request'[x] # None, request'[y] # None
        PROVE  /\ DOMAIN request'[x].new \cap DOMAIN request'[y].seen = {}
               /\ y # x => DOMAIN request'[x].new \cap DOMAIN request'[y].new = {}
    <3>1. CASE x = w
      BY <1>6, <1>10, <2>2, <2>3, <2>4, <3>1
    <3>2. CASE x # w /\ y = w
      BY <1>6, <1>10, <2>2, <2>3, <2>4, <3>2
    <3>3. CASE x # w /\ y # w
      BY <1>10, <2>4, <3>3 DEF VariantInv, IdsApart
    <3> QED BY <3>1, <3>2, <3>3
  <2>5. ASSUME NEW x \in Worker, request'[x] # None
        PROVE  /\ \A v \in DOMAIN request'[x].new : v < next'
               /\ \A v \in DOMAIN request'[x].seen : v < next'
               /\ DOMAIN request'[x].new \cap DOMAIN rows' = {}
    <3>1. CASE x = w
      BY <1>6, <1>7, <1>8, <1>10, <2>2, <3>1
    <3>2. CASE x # w
      BY <1>8, <1>10, <2>3, <2>5, <3>2
    <3> QED BY <3>1, <3>2
  <2> QED BY <1>7, <1>8, <2>2, <2>4, <2>5 DEF IdsApart
<1>13. RequestsSee'
  <2>1. ASSUME NEW x \in Worker, request'[x] # None
        PROVE  SeesGroups(x)'
    <3>1. CASE x = w
      BY <1>6, <1>8, <1>10, <3>1 DEF SeesGroups
    <3>2. CASE x # w
      <4>1. SeesGroups(x) /\ request'[x] = request[x]
        BY <1>10, <2>1, <3>2 DEF VariantInv, RequestsSee
      <4> QED BY <1>8, <4>1 DEF SeesGroups, KeysOf
    <3> QED BY <3>1, <3>2
  <2> QED BY <2>1 DEF RequestsSee
<1>14. GroupsWhole' /\ SkusFit'
  BY <1>8 DEF VariantInv, GroupsWhole, SkusFit, SkuFits, Quiet, Sold
<1> QED BY <1>11, <1>12, <1>13, <1>14 DEF VariantInv

\* A request ends: the others go on as before.
LEMMA RequestEnded ==
  ASSUME VariantInv, NEW w \in Worker, request' = [request EXCEPT ![w] = None]
  PROVE  /\ DOMAIN request' = Worker
         /\ \A x \in Worker : request'[x] = IF x = w THEN None ELSE request[x]
BY DEF VariantInv, VariantShapes

LEMMA CreateAborted ==
  ASSUME VariantInv, NEW w \in Worker, AbortCreate(w)
  PROVE  VariantInv'
<1>1. /\ DOMAIN request' = Worker
      /\ \A x \in Worker : request'[x] = IF x = w THEN None ELSE request[x]
  BY RequestEnded DEF AbortCreate
<1>2. UNCHANGED <<rows, ratios, next, variantSku, edits, unsettled>>
  BY DEF AbortCreate
<1>3. VariantShapes'
  BY <1>1, <1>2 DEF VariantInv, VariantShapes, VariantTypeOK
<1>4. IdsApart'
  BY <1>1, <1>2 DEF VariantInv, IdsApart
<1>5. RequestsSee'
  <2>1. ASSUME NEW x \in Worker, request'[x] # None
        PROVE  SeesGroups(x)'
    <3>1. SeesGroups(x) /\ request'[x] = request[x]
      BY <1>1, <2>1 DEF VariantInv, RequestsSee
    <3> QED BY <1>2, <3>1 DEF SeesGroups, KeysOf
  <2> QED BY <2>1 DEF RequestsSee
<1>6. GroupsWhole' /\ SkusFit'
  BY <1>2 DEF VariantInv, GroupsWhole, SkusFit, SkuFits, Quiet, Sold
<1> QED BY <1>3, <1>4, <1>5, <1>6 DEF VariantInv

LEMMA CreateFinished ==
  ASSUME VariantInv, NEW w \in Worker, FinishCreate(w)
  PROVE  VariantInv'
<1> DEFINE r == request[w]
           all == Joined(r.seen, r.new)
           others == UNION {KeysOf(request[x]) : x \in {y \in Worker \ {w} : request[y] # None}}
<1>1. /\ request[w] # None
      /\ rows' = Joined(rows, r.new)
      /\ ratios' = Regrouped(all, r.new, Joined(ratios, [v \in DOMAIN r.new |-> {}]))
      /\ unsettled' = unsettled \cup (KeysOf(r) \cap others)
      /\ request' = [request EXCEPT ![w] = None]
      /\ UNCHANGED <<next, variantSku, edits>>
  BY DEF FinishCreate
<1>2. /\ DOMAIN request' = Worker
      /\ \A x \in Worker : request'[x] = IF x = w THEN None ELSE request[x]
  BY <1>1, RequestEnded
<1>3. r.new \in Table /\ r.seen \in Table /\ rows \in Table
  BY <1>1 DEF VariantInv, VariantShapes, VariantRequest
<1>4. \A t \in Table : DOMAIN t \subseteq Variant /\ \A v \in DOMAIN t : t[v] \in VariantRow
  BY DEF Table
<1>5. /\ DOMAIN rows' = DOMAIN rows \cup DOMAIN r.new
      /\ \A v \in DOMAIN r.new : rows'[v] = r.new[v]
      /\ \A v \in DOMAIN rows : v \notin DOMAIN r.new => rows'[v] = rows[v]
  <2>1. rows' = Joined(rows, r.new)
    BY <1>1
  <2> HIDE DEF r
  <2> QED BY <2>1 DEF Joined
<1>6. /\ DOMAIN all = DOMAIN r.seen \cup DOMAIN r.new
      /\ \A v \in DOMAIN r.new : all[v] = r.new[v]
      /\ \A v \in DOMAIN r.seen : v \notin DOMAIN r.new => all[v] = r.seen[v]
  BY JoinedIs
<1>7. DOMAIN r.new \cap DOMAIN rows = {} /\ DOMAIN r.new \cap DOMAIN r.seen = {}
  BY <1>1 DEF VariantInv, IdsApart
<1>8. DOMAIN ratios = DOMAIN rows
  BY DEF VariantInv, VariantShapes, VariantTypeOK
<1>9. /\ DOMAIN ratios' = DOMAIN rows'
      /\ \A v \in DOMAIN rows' :
           LET old == IF v \in DOMAIN r.new THEN {} ELSE ratios[v] IN
           ratios'[v] = IF v \in DOMAIN all /\ Key(all[v]) \in KeysOf(r) /\ BasesIn(all, Key(all[v])) # {}
                        THEN Listing(all, Key(all[v])) ELSE old
  <2> DEFINE empty == [v \in DOMAIN r.new |-> {}]
             before == Joined(ratios, empty)
  <2>1. DOMAIN empty = DOMAIN r.new /\ \A v \in DOMAIN r.new : empty[v] = {}
    OBVIOUS
  <2>2. ratios' = Regrouped(all, r.new, before)
    BY <1>1
  <2> HIDE DEF empty
  <2>3. /\ DOMAIN before = DOMAIN rows'
        /\ \A v \in DOMAIN rows' : before[v] = IF v \in DOMAIN r.new THEN {} ELSE ratios[v]
    BY <1>5, <1>8, <2>1 DEF Joined
  <2> HIDE DEF before, all, r
  <2> QED BY <2>2, <2>3 DEF Regrouped, KeysOf
<1>10. r.seen \in Table /\ SeesGroups(w)
  BY <1>1, <1>3 DEF VariantInv, RequestsSee
<1>11. \A v \in DOMAIN r.new : Key(r.new[v]) \in KeysOf(r)
  BY DEF KeysOf
<1> HIDE DEF all
<1>12. ASSUME NEW k \in KeysOf(r), k \notin unsettled
       PROVE  SameGroup(all, rows', k)
  <2>1. ASSUME NEW v \in DOMAIN all, Key(all[v]) = k
        PROVE  v \in DOMAIN rows' /\ rows'[v] = all[v]
    BY <1>5, <1>6, <1>7, <1>10, <1>12, <2>1 DEF SeesGroups
  <2>2. ASSUME NEW v \in DOMAIN rows', Key(rows'[v]) = k
        PROVE  v \in DOMAIN all /\ all[v] = rows'[v]
    <3>1. CASE v \in DOMAIN r.new
      BY <1>5, <1>6, <3>1
    <3>2. CASE v \notin DOMAIN r.new
      <4>1. v \in DOMAIN rows /\ rows'[v] = rows[v] /\ Key(rows[v]) = k
        BY <1>5, <2>2, <3>2
      <4>2. v \in DOMAIN r.seen /\ rows[v] = r.seen[v]
        BY <1>10, <1>12, <4>1 DEF SeesGroups
      <4> QED BY <1>6, <3>2, <4>1, <4>2
    <3> QED BY <3>1, <3>2
  <2> QED BY <2>1, <2>2 DEF SameGroup
<1>13. ASSUME NEW k, k \notin KeysOf(r)
       PROVE  SameGroup(rows, rows', k)
  BY <1>5, <1>7, <1>11, <1>13 DEF SameGroup
<1>14. VariantShapes'
  <2>1. rows' \in Table
    <3>1. DOMAIN rows' \subseteq Variant /\ \A v \in DOMAIN rows' : rows'[v] \in VariantRow
      BY <1>3, <1>4, <1>5
    <3>2. rows' = [v \in DOMAIN rows' |-> rows'[v]]
      BY <1>1 DEF Joined
    <3>3. rows' \in [DOMAIN rows' -> VariantRow]
      BY <3>1, <3>2
    <3>4. [DOMAIN rows' -> VariantRow] \in {[vs -> VariantRow] : vs \in SUBSET Variant}
      BY <3>1
    <3> QED BY <3>3, <3>4 DEF Table
  <2>2. \A v \in DOMAIN rows' : \A p \in ratios'[v] : p[1] \in Variant /\ p[2] \in Ratio
    <3>1. DOMAIN all \subseteq Variant /\ \A v \in DOMAIN all : all[v]["uom_ratio"] \in Ratio
      BY <1>3, <1>4, <1>6 DEF VariantRow
    <3>2. \A k : \A p \in Listing(all, k) : p[1] \in Variant /\ p[2] \in Ratio
      BY <3>1 DEF Listing, Members
    <3>3. \A v \in DOMAIN rows : \A p \in ratios[v] : p[1] \in Variant /\ p[2] \in Ratio
      BY DEF VariantInv, VariantShapes, VariantTypeOK
    <3> QED BY <1>5, <1>9, <3>2, <3>3
  <2>3. DOMAIN rows' \subseteq Variant /\ \A v \in DOMAIN rows' : rows'[v] \in VariantRow
    BY <1>4, <2>1
  <2>4. VariantTypeOK'
    BY <1>9, <2>2, <2>3 DEF VariantTypeOK
  <2> QED BY <1>1, <1>2, <1>5, <2>1, <2>4 DEF VariantInv, VariantShapes
<1>15. IdsApart'
  <2>1. \A v \in DOMAIN rows' : v < next'
    BY <1>1, <1>5 DEF VariantInv, IdsApart
  <2>2. ASSUME NEW x \in Worker, request'[x] # None
        PROVE  x # w /\ request'[x] = request[x] /\ DOMAIN request[x].new \cap DOMAIN rows' = {}
    BY <1>1, <1>2, <1>5, <2>2 DEF VariantInv, IdsApart
  <2> QED BY <1>1, <2>1, <2>2 DEF VariantInv, IdsApart
<1>16. RequestsSee'
  <2>1. ASSUME NEW x \in Worker, request'[x] # None
        PROVE  SeesGroups(x)'
    <3>1. x # w /\ request'[x] = request[x] /\ request[x] # None
      BY <1>2, <2>1
    <3>2. SeesGroups(x)
      BY <3>1 DEF VariantInv, RequestsSee
    <3>3. DOMAIN r.new \cap DOMAIN request[x].seen = {}
      BY <1>1, <3>1 DEF VariantInv, IdsApart
    <3>4. \A k \in KeysOf(request[x]) \cap KeysOf(r) : k \in unsettled'
      BY <1>1, <3>1
    <3> DEFINE seen == request[x].seen
    <3>5. \A v \in DOMAIN seen : Key(seen[v]) \notin unsettled' => v \in DOMAIN rows' /\ rows'[v] = seen[v]
      BY <1>1, <1>5, <3>2, <3>3 DEF SeesGroups
    <3>6. \A v \in DOMAIN rows' \cap DOMAIN seen : Key(rows'[v]) \notin unsettled' => rows'[v] = seen[v]
      BY <1>1, <1>5, <3>2, <3>3 DEF SeesGroups
    <3>7. \A v \in DOMAIN rows' \ DOMAIN seen :
            Key(rows'[v]) \in KeysOf(request[x]) => Key(rows'[v]) \in unsettled'
      BY <1>1, <1>5, <1>11, <3>2, <3>4 DEF SeesGroups
    <3> QED BY <3>1, <3>5, <3>6, <3>7 DEF SeesGroups, KeysOf
  <2> QED BY <2>1 DEF RequestsSee
<1>17. \A v \in Quiet' : v \in DOMAIN rows' /\ Key(rows'[v]) \notin unsettled
  BY <1>1 DEF Quiet
<1>18. GroupsWhole'
  <2>1. ASSUME NEW v \in Quiet'
        PROVE  ratios'[v] = IF BasesIn(rows', Key(rows'[v])) = {} THEN {} ELSE Listing(rows', Key(rows'[v]))
    <3> DEFINE k == Key(rows'[v])
    <3>1. v \in DOMAIN rows' /\ k \notin unsettled
      BY <1>17
    <3>2. CASE k \in KeysOf(r)
      <4>1. SameGroup(all, rows', k)
        BY <1>12, <3>1, <3>2
      <4>2. BasesIn(all, k) = BasesIn(rows', k) /\ Listing(all, k) = Listing(rows', k)
        BY <4>1, SameGroups
      <4>3. v \in DOMAIN all /\ all[v] = rows'[v]
        BY <3>1, <4>1 DEF SameGroup
      <4>4. CASE BasesIn(all, k) # {}
        BY <1>9, <3>1, <3>2, <4>2, <4>3, <4>4
      <4>5. CASE BasesIn(all, k) = {} /\ v \in DOMAIN r.new
        BY <1>9, <3>1, <4>2, <4>3, <4>5
      <4>6. CASE BasesIn(all, k) = {} /\ v \notin DOMAIN r.new
        <5>1. v \in Quiet /\ rows'[v] = rows[v]
          BY <1>5, <3>1, <4>6 DEF Quiet
        <5>2. BasesIn(rows, k) = {}
          <6>1. SameGroup(all, rows', k)
            BY <4>1
          <6>2. \A x \in BasesIn(rows, k) : x \in BasesIn(rows', k)
            BY <1>5, <1>7 DEF BasesIn, Members
          <6> QED BY <4>2, <4>6, <6>2
        <5>3. ratios[v] = {}
          BY <5>1, <5>2 DEF VariantInv, GroupsWhole
        <5> QED BY <1>9, <3>1, <4>2, <4>3, <4>6, <5>3
      <4> QED BY <4>4, <4>5, <4>6
    <3>3. CASE k \notin KeysOf(r)
      <4>1. v \notin DOMAIN r.new /\ v \in DOMAIN rows /\ rows'[v] = rows[v] /\ v \in Quiet
        BY <1>5, <1>11, <3>1, <3>3 DEF Quiet
      <4>2. BasesIn(rows, k) = BasesIn(rows', k) /\ Listing(rows, k) = Listing(rows', k)
        BY <1>13, <3>3, SameGroups
      <4>3. v \in DOMAIN all => all[v] = rows[v]
        BY <1>6, <1>10, <3>1, <4>1 DEF SeesGroups
      <4>4. ratios'[v] = ratios[v]
        BY <1>9, <3>1, <3>3, <4>1, <4>3
      <4> QED BY <4>1, <4>2, <4>4 DEF VariantInv, GroupsWhole
    <3> QED BY <3>2, <3>3
  <2> QED BY <2>1 DEF GroupsWhole
<1>19. SkusFit'
  <2>1. ASSUME NEW v \in Quiet', v \in Sold'
        PROVE  SkuFits(v)'
    <3>1. v \in Sold /\ v \in DOMAIN rows /\ variantSku' = variantSku
      BY <1>1, <2>1 DEF Sold, VariantInv, VariantShapes
    <3>2. rows'[v] = rows[v] /\ v \in Quiet
      BY <1>5, <1>7, <1>17, <3>1 DEF Quiet
    <3>3. BasesIn(rows, Key(rows[v])) \subseteq BasesIn(rows', Key(rows'[v]))
      BY <1>5, <1>7, <3>2 DEF BasesIn, Members
    <3>4. SkuFits(v)
      BY <3>1, <3>2 DEF VariantInv, SkusFit
    <3> QED BY <3>1, <3>2, <3>3, <3>4 DEF SkuFits
  <2> QED BY <2>1 DEF SkusFit
<1> QED BY <1>14, <1>15, <1>16, <1>18, <1>19 DEF VariantInv

\* What an edit or a deletion of a variant does to groups and to requests.
LEMMA EditedGroups ==
  ASSUME VariantInv, NEW v \in DOMAIN rows,
         Key(rows[v]) \in unsettled', unsettled \subseteq unsettled',
         v \in DOMAIN rows' => Key(rows'[v]) \in unsettled',
         DOMAIN rows' \subseteq DOMAIN rows, DOMAIN rows \subseteq DOMAIN rows' \cup {v},
         \A x \in DOMAIN rows' : x # v => rows'[x] = rows[x] /\ ratios'[x] = ratios[x],
         \A x \in Variant : variantSku'[x] = variantSku[x] \/ variantSku'[x] = None,
         request' = request, next' = next
  PROVE  IdsApart' /\ RequestsSee' /\ GroupsWhole' /\ SkusFit'
<1>1. IdsApart'
  BY DEF VariantInv, IdsApart
<1>2. RequestsSee'
  <2>1. ASSUME NEW w \in Worker, request[w] # None
        PROVE  SeesGroups(w)'
    <3>1. SeesGroups(w)
      BY <2>1 DEF VariantInv, RequestsSee
    <3> DEFINE seen == request[w].seen
    <3>2. \A x \in DOMAIN seen : Key(seen[x]) \notin unsettled' => x \in DOMAIN rows' /\ rows'[x] = seen[x]
      BY <3>1 DEF SeesGroups
    <3>3. \A x \in DOMAIN rows' \cap DOMAIN seen : Key(rows'[x]) \notin unsettled' => rows'[x] = seen[x]
      BY <3>1 DEF SeesGroups
    <3>4. \A x \in DOMAIN rows' \ DOMAIN seen :
            Key(rows'[x]) \in KeysOf(request[w]) => Key(rows'[x]) \in unsettled'
      BY <3>1 DEF SeesGroups
    <3> QED BY <3>2, <3>3, <3>4 DEF SeesGroups, KeysOf
  <2> QED BY <2>1 DEF RequestsSee
<1>3. ASSUME NEW x \in Quiet'
      PROVE  x \in Quiet /\ rows'[x] = rows[x] /\ ratios'[x] = ratios[x]
             /\ SameGroup(rows, rows', Key(rows[x]))
  <2>1. x \in DOMAIN rows' /\ Key(rows'[x]) \notin unsettled' /\ x # v
    BY DEF Quiet
  <2>2. x \in Quiet /\ rows'[x] = rows[x] /\ ratios'[x] = ratios[x]
    BY <2>1 DEF Quiet
  <2>3. Key(rows[x]) # Key(rows[v]) /\ (v \in DOMAIN rows' => Key(rows[x]) # Key(rows'[v]))
    BY <2>1, <2>2
  <2>4. SameGroup(rows, rows', Key(rows[x]))
    BY <2>3 DEF SameGroup
  <2> QED BY <2>2, <2>4
<1> QED BY <1>1, <1>2, <1>3, GroupsStay

\* A row with one attribute written, or taken away.
LEMMA RowWritten ==
  ASSUME NEW r \in VariantRow, NEW a, NEW option,
         \/ a = "uom" /\ option \in Unit
         \/ a = "uom_ratio" /\ option \in Ratio
         \/ a = "color" /\ option \in Color \cup {None}
  PROVE  LET rest == [b \in DOMAIN r \ {a} |-> r[b]] IN
         (IF option = None THEN rest ELSE Joined(rest, [b \in {a} |-> option])) \in VariantRow
<1> DEFINE rest == [b \in DOMAIN r \ {a} |-> r[b]]
           one == [b \in {a} |-> option]
           full == [b \in DOMAIN r \cup {a} |-> IF b = a THEN option ELSE r[b]]
           two == {"uom", "uom_ratio"}
           three == {"uom", "uom_ratio", "color"}
<1>1. /\ DOMAIN r = two \/ DOMAIN r = three
      /\ r["uom"] \in Unit /\ r["uom_ratio"] \in Ratio /\ ("color" \in DOMAIN r => r["color"] \in Color)
  BY DEF VariantRow
<1>2. None \notin Unit /\ None \notin Ratio
  BY VariantAssumption
<1>3. CASE option = None
  <2>1. a = "color"
    BY <1>2, <1>3
  <2>2. DOMAIN rest = two
    BY <1>1, <2>1
  <2>3. rest["uom"] = r["uom"] /\ rest["uom_ratio"] = r["uom_ratio"]
    BY <1>1, <2>1
  <2>4. rest \in [two -> Unit \cup Ratio]
    BY <1>1, <2>2, <2>3
  <2>5. rest \in VariantRow
    BY <1>1, <2>2, <2>3, <2>4 DEF VariantRow
  <2> QED BY <1>3, <2>5
<1>4. CASE option # None
  <2>1. Joined(rest, one) = full
    BY DEF Joined
  <2>2. full["uom"] \in Unit /\ full["uom_ratio"] \in Ratio /\ ("color" \in DOMAIN full => full["color"] \in Color)
    BY <1>1, <1>4
  <2>3. DOMAIN full = two \/ DOMAIN full = three
    BY <1>1
  <2>4. \A b \in DOMAIN full : full[b] \in Unit \cup Ratio \cup Color /\ (b # "color" => full[b] \in Unit \cup Ratio)
    BY <2>2, <2>3
  <2>5. full \in [two -> Unit \cup Ratio] \/ full \in [three -> Unit \cup Ratio \cup Color]
    BY <2>3, <2>4
  <2> HIDE DEF full
  <2>6. full \in VariantRow
    BY <2>2, <2>5 DEF VariantRow
  <2> QED BY <1>4, <2>1, <2>6
<1> QED BY <1>3, <1>4

LEMMA TableOf ==
  ASSUME NEW D \in SUBSET Variant, NEW t, t = [v \in D |-> t[v]], \A v \in D : t[v] \in VariantRow
  PROVE  t \in Table
<1>1. t \in [D -> VariantRow]
  OBVIOUS
<1>2. [D -> VariantRow] \in {[vs -> VariantRow] : vs \in SUBSET Variant}
  OBVIOUS
<1> QED BY <1>1, <1>2 DEF Table

LEMMA AttributeWritten ==
  ASSUME VariantInv, NEW v \in DOMAIN rows, NEW a, NEW option, Upsert(v, a, option),
         \/ a = "uom" /\ option \in Unit
         \/ a = "uom_ratio" /\ option \in Ratio
         \/ a = "color" /\ option \in Color \cup {None}
  PROVE  VariantInv'
<1>1. DOMAIN rows \subseteq Variant /\ \A x \in DOMAIN rows : rows[x] \in VariantRow
  BY DEF VariantInv, VariantShapes, VariantTypeOK
<1>2. PICK row \in VariantRow :
        rows' = [rows EXCEPT ![v] = row] /\ unsettled' = unsettled \cup {Key(rows[v]), Key(row)}
        /\ UNCHANGED <<ratios, next, request, variantSku>>
  BY <1>1, RowWritten DEF Upsert
<1>3. DOMAIN rows' = DOMAIN rows /\ \A x \in DOMAIN rows : rows'[x] = IF x = v THEN row ELSE rows[x]
  BY <1>2
<1>4. rows' \in Table
  <2>1. rows' = [x \in DOMAIN rows |-> rows'[x]]
    BY <1>2
  <2>2. PICK t : t = rows'
    OBVIOUS
  <2>3. PICK D \in SUBSET Variant : D = DOMAIN rows
    BY <1>1
  <2> QED BY <1>1, <1>3, <2>1, <2>2, <2>3, TableOf
<1>5. VariantShapes'
  BY <1>1, <1>2, <1>3, <1>4 DEF VariantInv, VariantShapes, VariantTypeOK
<1> QED BY <1>2, <1>3, <1>5, EditedGroups DEF VariantInv

LEMMA VariantDeleted ==
  ASSUME VariantInv, NEW v \in DOMAIN rows, DeleteVariant(v)
  PROVE  VariantInv'
<1>1. DOMAIN rows \subseteq Variant /\ \A x \in DOMAIN rows : rows[x] \in VariantRow
  BY DEF VariantInv, VariantShapes, VariantTypeOK
<1>2. /\ rows' = [x \in DOMAIN rows \ {v} |-> rows[x]]
      /\ ratios' = [x \in DOMAIN ratios \ {v} |-> ratios[x]]
      /\ variantSku' = [variantSku EXCEPT ![v] = None]
      /\ unsettled' = unsettled \cup {Key(rows[v])}
      /\ UNCHANGED <<next, request>>
  BY DEF DeleteVariant
<1>3. DOMAIN variantSku = Variant /\ DOMAIN ratios = DOMAIN rows
  BY DEF VariantInv, VariantShapes, VariantTypeOK
<1>4. /\ DOMAIN rows' = DOMAIN rows \ {v} /\ \A x \in DOMAIN rows' : rows'[x] = rows[x] /\ ratios'[x] = ratios[x]
      /\ \A x \in Variant : variantSku'[x] = IF x = v THEN None ELSE variantSku[x]
  BY <1>2, <1>3
<1>5. rows' \in Table
  <2>1. rows' = [x \in DOMAIN rows \ {v} |-> rows'[x]]
    BY <1>2
  <2>2. PICK t : t = rows'
    OBVIOUS
  <2>3. PICK D \in SUBSET Variant : D = DOMAIN rows \ {v}
    BY <1>1
  <2> QED BY <1>1, <1>4, <2>1, <2>2, <2>3, TableOf
<1>6. VariantShapes'
  BY <1>1, <1>2, <1>3, <1>4, <1>5 DEF VariantInv, VariantShapes, VariantTypeOK
<1> QED BY <1>2, <1>4, <1>6, EditedGroups DEF VariantInv

LEMMA SkuCreated ==
  ASSUME VariantInv, NEW v \in DOMAIN rows, CreateSku(v)
  PROVE  VariantInv'
<1> DEFINE ratio == rows[v]["uom_ratio"]
<1>1. PICK b \in IF ratio = 1 THEN {v} ELSE NamedBases(v) :
        variantSku' = [variantSku EXCEPT ![v] =
          [status |-> "processing", uom_ratio |-> ratio,
           seller_sku |-> IF ratio = 1 THEN v
                          ELSE IF variantSku[b] # None THEN variantSku[b].seller_sku ELSE None]]
  BY DEF CreateSku
<1>2. PICK number : number = IF ratio = 1 THEN v
                             ELSE IF variantSku[b] # None THEN variantSku[b].seller_sku ELSE None
  OBVIOUS
<1> DEFINE new == [status |-> "processing", uom_ratio |-> ratio, seller_sku |-> number]
<1>3. UNCHANGED <<rows, ratios, next, request, edits, unsettled>> /\ variantSku' = [variantSku EXCEPT ![v] = new]
  BY <1>1, <1>2 DEF CreateSku
<1>4. v \in Variant /\ ratio \in Ratio
  BY DEF VariantInv, VariantShapes, VariantTypeOK, VariantRow
<1>5. ratio # 1 => b \in Variant
  <2>1. \A p \in ratios[v] : p[1] \in Variant
    BY DEF VariantInv, VariantShapes, VariantTypeOK
  <2> QED BY <1>1, <2>1 DEF NamedBases
<1>6. number \in Variant \cup {None}
  <2>1. \A x \in Variant : variantSku[x] # None => variantSku[x].seller_sku \in Variant \cup {None}
    BY DEF VariantInv, VariantShapes, VariantSku
  <2> QED BY <1>2, <1>4, <1>5, <2>1
<1>7. new \in VariantSku /\ new # None
  <2>1. new \in VariantSku
    BY <1>4, <1>6 DEF VariantSku
  <2> QED BY <2>1, VariantAssumption
<1>8. new.uom_ratio = ratio /\ new.seller_sku = number
  OBVIOUS
<1> HIDE DEF new
<1>9. DOMAIN variantSku' = Variant /\ \A x \in Variant : variantSku'[x] = IF x = v THEN new ELSE variantSku[x]
  BY <1>3 DEF VariantInv, VariantShapes
<1>10. VariantShapes'
  BY <1>3, <1>7, <1>9 DEF VariantInv, VariantShapes, VariantTypeOK
<1>11. IdsApart'
  BY <1>3 DEF VariantInv, IdsApart
<1>12. RequestsSee'
  BY <1>3 DEF VariantInv, RequestsSee, SeesGroups, KeysOf
<1>13. GroupsWhole' /\ Quiet' = Quiet
  BY <1>3 DEF VariantInv, GroupsWhole, Quiet
<1>14. SkusFit'
  <2>1. ASSUME NEW x \in Quiet', x \in Sold'
        PROVE  SkuFits(x)'
    <3>1. x \in Quiet /\ x \in Variant /\ x \in DOMAIN rows /\ variantSku'[x] # None
      BY <1>13, <2>1, <1>3 DEF Sold, Quiet
    <3>2. CASE x # v
      <4>1. SkuFits(x)
        BY <1>9, <3>1, <3>2 DEF VariantInv, SkusFit, Sold
      <4> QED BY <1>3, <1>9, <3>1, <3>2, <4>1 DEF SkuFits
    <3>3. CASE x = v
      <4> DEFINE bases == BasesIn(rows, Key(rows[v]))
      <4>1. CASE ratio = 1
        <5>1. v \in bases
          BY <4>1 DEF BasesIn, Members
        <5> QED BY <1>2, <1>3, <1>8, <1>9, <3>1, <3>3, <4>1, <5>1 DEF SkuFits
      <4>2. CASE ratio # 1
        <5>1. b \in bases
          BY <1>1, <3>1, <3>3, <4>2, NamedAre DEF VariantInv
        <5>2. b \in Quiet /\ Key(rows[b]) = Key(rows[v])
          BY <3>1, <3>3, <5>1 DEF BasesIn, Members, Quiet
        <5>3. variantSku[b] # None => SkuFits(b)
          BY <1>5, <4>2, <5>2 DEF VariantInv, SkusFit, Sold
        <5>4. number # None => number \in bases
          BY <1>2, <4>2, <5>2, <5>3 DEF SkuFits
        <5> QED BY <1>3, <1>8, <1>9, <3>1, <3>3, <4>2, <5>1, <5>4 DEF SkuFits
      <4> QED BY <4>1, <4>2
    <3> QED BY <3>2, <3>3
  <2> QED BY <2>1 DEF SkusFit
<1> QED BY <1>10, <1>11, <1>12, <1>13, <1>14 DEF VariantInv

LEMMA SkuActivated ==
  ASSUME VariantInv, NEW v \in DOMAIN rows, ActivateSku(v)
  PROVE  VariantInv'
<1>1. v \in Variant
  BY DEF VariantInv, VariantShapes, VariantTypeOK
<1>2. PICK old \in VariantSku : old = variantSku[v] /\ old # None
  BY <1>1 DEF ActivateSku, VariantInv, VariantShapes
<1> DEFINE new == [old EXCEPT !.status = "active"]
<1>3. new \in VariantSku /\ new.uom_ratio = old.uom_ratio /\ new.seller_sku = old.seller_sku
  BY DEF VariantSku
<1>4. new # None
  BY <1>3, VariantAssumption
<1>5. UNCHANGED <<rows, ratios, next, request, edits, unsettled>> /\ variantSku' = [variantSku EXCEPT ![v] = new]
  BY <1>2 DEF ActivateSku
<1> HIDE DEF new
<1>6. DOMAIN variantSku' = Variant /\ \A x \in Variant : variantSku'[x] = IF x = v THEN new ELSE variantSku[x]
  BY <1>5 DEF VariantInv, VariantShapes
<1>7. VariantShapes'
  BY <1>2, <1>3, <1>4, <1>5, <1>6 DEF VariantInv, VariantShapes, VariantTypeOK
<1>8. IdsApart'
  BY <1>5 DEF VariantInv, IdsApart
<1>9. RequestsSee'
  BY <1>5 DEF VariantInv, RequestsSee, SeesGroups, KeysOf
<1>10. GroupsWhole' /\ Quiet' = Quiet
  BY <1>5 DEF VariantInv, GroupsWhole, Quiet
<1>11. SkusFit'
  <2>1. ASSUME NEW x \in Quiet', x \in Sold'
        PROVE  SkuFits(x)'
    <3>1. x \in Quiet /\ x \in Sold
      BY <1>2, <1>6, <1>10, <2>1 DEF Sold
    <3>2. SkuFits(x)
      BY <3>1 DEF VariantInv, SkusFit
    <3>3. variantSku'[x].uom_ratio = variantSku[x].uom_ratio /\ variantSku'[x].seller_sku = variantSku[x].seller_sku
      BY <1>2, <1>3, <1>6, <3>1 DEF Sold
    <3> QED BY <1>5, <3>2, <3>3 DEF SkuFits
  <2> QED BY <2>1 DEF SkusFit
<1> QED BY <1>7, <1>8, <1>9, <1>10, <1>11 DEF VariantInv

LEMMA VariantInvStays == VariantInv /\ [VariantNext]_variantVars => VariantInv'
<1> SUFFICES ASSUME VariantInv, [VariantNext]_variantVars
             PROVE  VariantInv'
  OBVIOUS
<1>1. CASE UNCHANGED variantVars
  <2>1. UNCHANGED <<rows, ratios, next, request, variantSku, unsettled>>
    BY <1>1 DEF variantVars
  <2>2. VariantShapes' /\ IdsApart'
    BY <2>1 DEF VariantInv, VariantShapes, VariantTypeOK, IdsApart
  <2>3. RequestsSee' /\ GroupsWhole'
    BY <2>1 DEF VariantInv, RequestsSee, SeesGroups, KeysOf, GroupsWhole, Quiet
  <2>4. SkusFit'
    BY <2>1 DEF VariantInv, SkusFit, SkuFits, Quiet, Sold
  <2> QED BY <2>2, <2>3, <2>4 DEF VariantInv
<1>2. CASE VariantNext
  <2>1. ASSUME NEW v \in DOMAIN rows, NEW a \in {"uom", "uom_ratio"}, NEW option \in Unit \cup Ratio,
               IF a = "uom" THEN option \in Unit ELSE option \in Ratio, Upsert(v, a, option)
        PROVE  VariantInv'
    <3>1. CASE a = "uom"
      BY <2>1, <3>1, AttributeWritten
    <3>2. CASE a = "uom_ratio"
      BY <2>1, <3>2, AttributeWritten
    <3> QED BY <3>1, <3>2
  <2> QED BY <1>2, <2>1, CreateBegun, CreateFinished, CreateAborted, AttributeWritten, VariantDeleted,
        SkuCreated, SkuActivated DEF VariantNext
<1> QED BY <1>1, <1>2

LEMMA VariantInvSuffices == VariantInv => VariantsKnowEachOther
<1> SUFFICES ASSUME VariantInv PROVE VariantsKnowEachOther
  OBVIOUS
<1>1. GroupsWhole /\ VariantTypeOK
  BY DEF VariantInv, VariantShapes
<1>2. \A v \in Quiet \cap Sold : SkuFits(v)
  BY DEF VariantInv, SkusFit
<1>3. Listed \subseteq Sold
  BY DEF Listed
<1>4. ListingTellsUnits
  <2>1. ASSUME NEW v \in Quiet \cap Listed, rows[v]["uom_ratio"] # 1, NEW t \in RatioTexts(v)
        PROVE  \E b \in BasesIn(rows, Key(rows[v])) : t[3] = rows[b]["uom"]
    <3>1. SkuFits(v) /\ BasesIn(rows, Key(rows[v])) # {}
      BY <1>2, <1>3, <2>1 DEF SkuFits
    <3>2. NamedBases(v) = BasesIn(rows, Key(rows[v])) /\ NamedBases(v) # {}
      BY <1>1, <3>1, NamedAre
    <3>3. ratios[v] # {}
      BY <3>2 DEF NamedBases
    <3>4. PICK name \in BaseNames(v) : t = <<rows[v]["uom"], rows[v]["uom_ratio"], name>>
      BY <2>1 DEF RatioTexts
    <3>5. PICK b \in NamedBases(v) : name = IF b \in DOMAIN rows THEN rows[b]["uom"] ELSE None
      BY <3>3 DEF BaseNames
    <3>6. b \in DOMAIN rows
      BY <3>2 DEF BasesIn, Members
    <3> QED BY <3>2, <3>4, <3>5, <3>6
  <2>2. ASSUME NEW v \in Quiet \cap Listed, NEW x \in Listed, x \in Members(rows, Key(rows[v])),
               rows[x]["uom_ratio"] # rows[v]["uom_ratio"]
        PROVE  {rows[v]["uom"], rows[x]["uom"]} \subseteq Offered("uom")
    <3>1. x \in Quiet /\ x \in Sold /\ v \in Sold /\ x \in DOMAIN rows /\ v \in DOMAIN rows
      BY <1>3, <2>2 DEF Members, Quiet
    <3>2. variantSku[v].uom_ratio = rows[v]["uom_ratio"] /\ variantSku[x].uom_ratio = rows[x]["uom_ratio"]
      BY <1>2, <3>1 DEF SkuFits
    <3>3. RatioExchange
      BY <2>2, <3>1, <3>2 DEF RatioExchange
    <3>4. Offered("uom") = OptionsHad("uom")
      BY <3>3 DEF Offered, Excluded
    <3>5. "uom" \in DOMAIN rows[v] /\ "uom" \in DOMAIN rows[x]
      BY <1>1, <3>1 DEF VariantTypeOK, VariantRow
    <3> QED BY <3>1, <3>4, <3>5 DEF OptionsHad
  <2> QED BY <2>1, <2>2 DEF ListingTellsUnits
<1>5. UomSkusShared
  <2>1. ASSUME NEW v \in Quiet \cap Sold
        PROVE  UomSkus(v) = IF BasesIn(rows, Key(rows[v])) = {} THEN {} ELSE Members(rows, Key(rows[v])) \cap Sold
    <3>1. ratios[v] = IF BasesIn(rows, Key(rows[v])) = {} THEN {} ELSE Listing(rows, Key(rows[v]))
      BY <1>1 DEF GroupsWhole
    <3>2. CASE BasesIn(rows, Key(rows[v])) = {}
      BY <3>1, <3>2 DEF UomSkus
    <3>3. CASE BasesIn(rows, Key(rows[v])) # {}
      <4>1. ratios[v] = Listing(rows, Key(rows[v]))
        BY <3>1, <3>3
      <4>2. \A x : (\E p \in ratios[v] : p[1] = x) <=> x \in Members(rows, Key(rows[v]))
        <5> DEFINE M == Members(rows, Key(rows[v]))
        <5>1. ratios[v] = {<<x, rows[x]["uom_ratio"]>> : x \in M}
          BY <4>1 DEF Listing
        <5> HIDE DEF M
        <5>2. ASSUME NEW x \in M
              PROVE  \E p \in ratios[v] : p[1] = x
          <6>1. PICK p : p = <<x, rows[x]["uom_ratio"]>>
            OBVIOUS
          <6> QED BY <5>1, <6>1
        <5>3. \A p \in ratios[v] : p[1] \in M
          BY <5>1
        <5> QED BY <5>2, <5>3 DEF M
      <4> QED BY <3>3, <4>2 DEF UomSkus
    <3> QED BY <3>2, <3>3
  <2> QED BY <2>1 DEF UomSkusShared
<1>6. NumbersFromBase
  BY <1>2 DEF SkuFits, NumbersFromBase
<1> QED BY <1>1, <1>4, <1>5, <1>6 DEF VariantsKnowEachOther

\* However many requests create variants at once, and whatever is edited,
\* deleted or sold: the variants of a group that nobody disturbed list each
\* other, and the units, numbers and choices of their SKUs follow the group.
THEOREM VariantsStayAware == VariantSpec => []VariantsKnowEachOther
<1>1. VariantInit => VariantInv
  BY VariantInvHolds
<1>2. VariantInv /\ [VariantNext]_variantVars => VariantInv'
  BY VariantInvStays
<1>3. VariantInv => VariantsKnowEachOther
  BY VariantInvSuffices
<1> QED BY <1>1, <1>2, <1>3, PTL DEF VariantSpec
=============================================================================
