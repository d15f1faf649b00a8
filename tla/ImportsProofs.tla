------------------------------ MODULE ImportsProofs ------------------------------
(***************************************************************************)
(* What the parts of the run imports keep, proved for every number of      *)
(* categories, policies, brands, units, options, rows of a file or of a    *)
(* bulk request, and requests.                                             *)
(***************************************************************************)
EXTENDS ShippingPolicies, CategoryBulk, Brands, Units, FileImports,
         FiniteSetTheorems, WellFoundedInduction, TLAPS

\* A set of natural numbers has a least one.
LEMMA LeastOfNumbers ==
  ASSUME NEW T \in SUBSET Nat, T # {}
  PROVE  \E x \in T : \A y \in T : x <= y
<1>1. PICK x \in T : \A y \in T : ~(<<y, x>> \in OpToRel(<, Nat))
  BY NatLessThanWellFounded, WFMin
<1>2. \A y \in T : ~(y < x)
  BY <1>1 DEF OpToRel
<1> QED BY <1>2

\* F goes on from base by the steps of f, as far as m.
Iterates(F, base, f, m) ==
  F = [n \in 0 .. m |-> IF n = 0 THEN base ELSE f[<<n, F[n - 1]>>]]

\* What a function does over and over stays in the set it stays in.
LEMMA IteratesExist ==
  ASSUME NEW S, NEW base \in S, NEW f \in [Nat \X S -> S], NEW N \in Nat
  PROVE  \E F \in [0 .. N -> S] : Iterates(F, base, f, N)
<1> DEFINE Reached(m) == \E F \in [0 .. m -> S] : Iterates(F, base, f, m)
           Missed == {m \in 0 .. N : ~Reached(m)}
<1>1. SUFFICES Missed = {}
  <2>1. N \in 0 .. N
    OBVIOUS
  <2>2. Missed = {} => Reached(N)
    BY <2>1
  <2> QED BY <2>2
<1>2. SUFFICES ASSUME Missed # {}
               PROVE  FALSE
  OBVIOUS
<1>3. PICK m \in Missed : \A k \in Missed : m <= k
  <2>1. Missed \in SUBSET Nat
    OBVIOUS
  <2> HIDE DEF Missed
  <2> QED BY <1>2, <2>1, LeastOfNumbers
<1>4. m \in 0 .. N /\ ~Reached(m)
  OBVIOUS
<1>5. CASE m = 0
  <2> DEFINE g == [n \in 0 .. 0 |-> base]
  <2>1. g \in [0 .. 0 -> S] /\ g = [n \in 0 .. 0 |-> IF n = 0 THEN base ELSE f[<<n, g[n - 1]>>]]
    OBVIOUS
  <2>2. Reached(0)
    <3> HIDE DEF g
    <3> QED BY <2>1 DEF Iterates
  <2> QED BY <1>4, <1>5, <2>2
<1>6. CASE m # 0
  <2>1. m \in Nat /\ m - 1 \in 0 .. N /\ ~(m <= m - 1) /\ m - 1 \in 0 .. (m - 1)
    BY <1>4, <1>6
  <2>2. Reached(m - 1)
    <3>1. m - 1 \notin Missed
      BY <1>3, <2>1
    <3> HIDE DEF Reached
    <3> QED BY <2>1, <3>1
  <2>3. PICK F \in [0 .. (m - 1) -> S] : Iterates(F, base, f, m - 1)
    BY <2>2
  <2> DEFINE next == f[<<m, F[m - 1]>>]
             g == [n \in 0 .. m |-> IF n = m THEN next ELSE F[n]]
  <2>4. \A n \in 0 .. m : /\ n = m \/ n \in 0 .. (m - 1)
                          /\ n # 0 => n - 1 \in 0 .. (m - 1) /\ n - 1 \in 0 .. m /\ n - 1 # m
    BY <2>1
  <2>5. \A n \in 0 .. (m - 1) : F[n] = IF n = 0 THEN base ELSE f[<<n, F[n - 1]>>]
    BY <2>3 DEF Iterates
  <2>6. next \in S
    BY <2>1
  <2> HIDE DEF next
  <2>7. g \in [0 .. m -> S]
    BY <2>4, <2>6
  <2>8. \A n \in 0 .. m : n # 0 => g[n - 1] = F[n - 1]
    BY <2>4
  <2>9. \A n \in 0 .. m : g[n] = IF n = m THEN next ELSE F[n]
    OBVIOUS
  <2>10. \A n \in 0 .. m : g[n] = IF n = 0 THEN base ELSE f[<<n, g[n - 1]>>]
    <3> HIDE DEF g
    <3>1. TAKE n \in 0 .. m
    <3>2. CASE n = m
      BY <1>6, <2>8, <2>9, <3>2 DEF next
    <3>3. CASE n # m
      <4>1. g[n] = F[n] /\ n \in 0 .. (m - 1)
        BY <2>4, <2>9, <3>3
      <4> QED BY <2>5, <2>8, <4>1
    <3> QED BY <3>2, <3>3
  <2>11. g = [n \in 0 .. m |-> IF n = 0 THEN base ELSE f[<<n, g[n - 1]>>]]
    <3> HIDE DEF g
    <3> QED BY <2>7, <2>10
  <2>12. Reached(m)
    <3> HIDE DEF g
    <3> QED BY <2>7, <2>11 DEF Iterates
  <2> QED BY <1>4, <2>12
<1> QED BY <1>5, <1>6

\* What holds at first and goes on holding up to N.
LEMMA HoldsUpTo ==
  ASSUME NEW N \in Nat, NEW T, 0 \in T, \A n \in 0 .. N : n # N /\ n \in T => n + 1 \in T
  PROVE  0 .. N \subseteq T
<1> DEFINE Out == {n \in 0 .. N : n \notin T}
<1>1. SUFFICES ASSUME Out # {}
               PROVE  FALSE
  OBVIOUS
<1>2. PICK m \in Out : \A k \in Out : m <= k
  <2>1. Out \in SUBSET Nat
    OBVIOUS
  <2> HIDE DEF Out
  <2> QED BY <1>1, <2>1, LeastOfNumbers
<1>3. m \in 0 .. N /\ m \notin T /\ m # 0
  OBVIOUS
<1>4. m - 1 \in 0 .. N /\ m - 1 # N /\ ~(m <= m - 1) /\ (m - 1) + 1 = m
  BY <1>3
<1>5. m - 1 \in T
  BY <1>2, <1>4
<1> QED BY <1>3, <1>4, <1>5

-----------------------------------------------------------------------------
(***************************************************************************)
(* The master tree.  A move rewrites the rows below the moved one, each    *)
(* from its parent.  A row of which the path does not hold the moved one   *)
(* has no parent whose path holds it, so a row that is not rewritten       *)
(* follows a parent that is not; that the rewritten ones follow theirs is  *)
(* shown of the tables in between, by the least for which it would fail.   *)
(***************************************************************************)
(* Rows.                                                                   *)

\* The path of a row ends with its own id.
EndsWith(s, c) == Len(s) > 0 /\ s[Len(s)] = c

\* Row c of a table, whether it is askew or not.
RowSound(ms, c) ==
  LET r == ms[c] IN
  /\ r \in Row
  /\ r.parent \in DOMAIN ms \cup {Root}
  /\ r.depth = Len(r.path)
  /\ EndsWith(r.path, c)
  /\ r.parent = Root => r.path = <<c>>

RowsSound(ms) ==
  /\ DOMAIN ms \subseteq Category
  /\ ms = [c \in DOMAIN ms |-> ms[c]]
  /\ \A c \in DOMAIN ms : RowSound(ms, c)

TreeInv == RowsSound(master) /\ askew \subseteq DOMAIN master /\ PathsFollowMasters

\* A path with one more id, and the one without it.
LEMMA LongerPath ==
  ASSUME NEW s \in Seq(Category), NEW c \in Category
  PROVE  /\ Append(s, c) \in Seq(Category) /\ Len(Append(s, c)) = Len(s) + 1
         /\ EndsWith(Append(s, c), c)
         /\ ToSet(Front(Append(s, c))) = ToSet(s)
         /\ ToSet(Append(s, c)) = ToSet(s) \cup {c}
<1> DEFINE t == Append(s, c)
<1>1. /\ t \in Seq(Category) /\ Len(t) = Len(s) + 1 /\ Len(s) \in Nat
      /\ t[Len(t)] = c /\ \A i \in 1 .. Len(s) : t[i] = s[i]
      /\ DOMAIN s = 1 .. Len(s) /\ DOMAIN t = 1 .. (Len(s) + 1)
  OBVIOUS
<1>2. EndsWith(t, c)
  BY <1>1 DEF EndsWith
<1>3. ToSet(Front(t)) = ToSet(s)
  <2>1. /\ Len(Front(t)) = Len(s) /\ DOMAIN Front(t) = 1 .. Len(s)
        /\ \A i \in 1 .. Len(s) : Front(t)[i] = t[i]
    BY <1>1 DEF Front
  <2> QED BY <1>1, <2>1 DEF ToSet
<1>4. ToSet(t) = ToSet(s) \cup {c}
  <2>1. 1 .. (Len(s) + 1) = 1 .. Len(s) \cup {Len(s) + 1}
    BY <1>1
  <2> HIDE DEF t
  <2> QED BY <1>1, <2>1 DEF ToSet
<1> QED BY <1>1, <1>2, <1>3, <1>4

\* A path that ends with c has c and what is before it.
LEMMA EndOfPath ==
  ASSUME NEW s \in Seq(Category), NEW c, EndsWith(s, c)
  PROVE  /\ c \in ToSet(s) /\ c \in Category
         /\ ToSet(Front(s)) \subseteq ToSet(s)
         /\ \A x \in ToSet(s) : x = c \/ x \in ToSet(Front(s))
<1>1. Len(s) \in Nat \ {0} /\ DOMAIN s = 1 .. Len(s) /\ s[Len(s)] = c
  BY DEF EndsWith
<1>2. /\ Len(Front(s)) = Len(s) - 1 /\ DOMAIN Front(s) = 1 .. (Len(s) - 1)
      /\ \A i \in 1 .. (Len(s) - 1) : Front(s)[i] = s[i]
  BY <1>1 DEF Front
<1>3. 1 .. Len(s) = 1 .. (Len(s) - 1) \cup {Len(s)}
  BY <1>1
<1> QED BY <1>1, <1>2, <1>3 DEF ToSet

\* A row in a new place.
LEMMA PlacedRow ==
  ASSUME NEW r \in Row, NEW p \in Category \cup {Root}, NEW s \in Seq(Category)
  PROVE  /\ WithPath(r, p, s) \in Row
         /\ WithPath(r, p, s).parent = p /\ WithPath(r, p, s).path = s
         /\ WithPath(r, p, s).depth = Len(s) /\ WithPath(r, p, s).active = r.active
BY DEF WithPath, Row

LEMMA InitTree == TreeInit => TreeInv
BY DEF TreeInit, TreeInv, RowsSound, PathsFollowMasters

\* Rows are followed by those outside S.
Follows(ms, c) ==
  /\ ms[c].path = IF ms[c].parent = Root THEN <<c>> ELSE Append(ms[ms[c].parent].path, c)
  /\ ms[c].depth = Len(ms[c].path)

LEMMA FollowsAre == PathsFollowMasters <=> \A c \in DOMAIN master \ askew : Follows(master, c)
BY DEF PathsFollowMasters, Follows

LEMMA CreateMasterInv ==
  ASSUME TreeInv, NEW c \in Category, NEW p \in Category \cup {Root}, CreateMaster(c, p)
  PROVE  TreeInv'
<1> DEFINE new == IF p = Root THEN [parent |-> Root, path |-> <<c>>, depth |-> 1, active |-> TRUE]
                  ELSE [parent |-> p, path |-> Append(master[p].path, c),
                        depth |-> master[p].depth + 1, active |-> TRUE]
<1>1. /\ c \notin DOMAIN master /\ p \in DOMAIN master \cup {Root} /\ UNCHANGED <<askew, clones>>
      /\ master' = [x \in DOMAIN master \cup {c} |-> IF x # c THEN master[x] ELSE new]
  BY DEF CreateMaster
<1>2. /\ RowsSound(master) /\ askew \subseteq DOMAIN master
      /\ DOMAIN master \subseteq Category
      /\ \A x \in DOMAIN master \ askew : Follows(master, x)
  BY FollowsAre DEF TreeInv, RowsSound
<1>3. /\ new \in Row /\ new.parent = p /\ new.depth = Len(new.path) /\ EndsWith(new.path, c)
      /\ new.path = IF p = Root THEN <<c>> ELSE Append(master[p].path, c)
  <2>1. CASE p = Root
    <3>1. <<c>> \in Seq(Category) /\ Len(<<c>>) = 1 /\ <<c>>[1] = c
      OBVIOUS
    <3> QED BY <2>1, <3>1 DEF Row, EndsWith
  <2>2. CASE p # Root
    <3>1. /\ p \in DOMAIN master /\ p \in Category
          /\ master[p].path \in Seq(Category) /\ master[p].depth = Len(master[p].path)
      BY <1>1, <1>2, <2>2 DEF RowsSound, RowSound, Row
    <3>2. /\ Append(master[p].path, c) \in Seq(Category)
          /\ Len(Append(master[p].path, c)) = Len(master[p].path) + 1
          /\ EndsWith(Append(master[p].path, c), c)
      BY <3>1, LongerPath
    <3>3. Len(master[p].path) + 1 \in Nat
      BY <3>1
    <3> QED BY <2>2, <3>1, <3>2, <3>3 DEF Row
  <2> QED BY <2>1, <2>2
<1> HIDE DEF new
<1>4. /\ DOMAIN master' = DOMAIN master \cup {c} /\ master'[c] = new
      /\ \A x \in DOMAIN master : master'[x] = master[x]
  BY <1>1
<1>5. RowsSound(master')
  <2>1. \A x \in DOMAIN master : RowSound(master', x)
    BY <1>2, <1>4 DEF RowsSound, RowSound
  <2>2. RowSound(master', c)
    BY <1>1, <1>3, <1>4 DEF RowSound
  <2>3. master' = [x \in DOMAIN master' |-> master'[x]]
    BY <1>1
  <2> QED BY <1>2, <1>4, <2>1, <2>2, <2>3 DEF RowsSound
<1>6. ASSUME NEW x \in DOMAIN master' \ askew
      PROVE  Follows(master', x)
  <2>1. CASE x = c
    BY <1>1, <1>3, <1>4, <2>1 DEF Follows
  <2>2. CASE x # c
    <3>1. x \in DOMAIN master \ askew /\ master[x].parent \in DOMAIN master \cup {Root}
      BY <1>2, <1>4, <2>2 DEF RowsSound, RowSound
    <3> QED BY <1>2, <1>4, <3>1 DEF Follows
  <2> QED BY <2>1, <2>2
<1>7. PathsFollowMasters'
  BY <1>1, <1>6 DEF PathsFollowMasters, Follows
<1> QED BY <1>1, <1>2, <1>4, <1>5, <1>7 DEF TreeInv

LEMMA SwitchMasterInv ==
  ASSUME TreeInv, NEW c \in Category, SwitchMaster(c)
  PROVE  TreeInv'
<1>1. /\ c \in DOMAIN master /\ master' = [master EXCEPT ![c].active = ~@] /\ UNCHANGED askew
      /\ RowsSound(master) /\ askew \subseteq DOMAIN master
      /\ \A x \in DOMAIN master \ askew : Follows(master, x)
  BY FollowsAre DEF SwitchMaster, TreeInv
<1>2. /\ DOMAIN master' = DOMAIN master
      /\ \A x \in DOMAIN master :
           /\ master'[x].parent = master[x].parent /\ master'[x].path = master[x].path
           /\ master'[x].depth = master[x].depth /\ master'[x] \in Row
  <2>1. \A x \in DOMAIN master : master[x] \in Row
    BY <1>1 DEF RowsSound, RowSound
  <2> QED BY <1>1, <2>1 DEF Row
<1>3. RowsSound(master')
  <2>1. \A x \in DOMAIN master : RowSound(master', x)
    BY <1>1, <1>2 DEF RowsSound, RowSound
  <2>2. master' = [x \in DOMAIN master' |-> master'[x]]
    BY <1>1
  <2> QED BY <1>1, <1>2, <2>1, <2>2 DEF RowsSound
<1>4. ASSUME NEW x \in DOMAIN master' \ askew
      PROVE  Follows(master', x)
  <2>1. x \in DOMAIN master \ askew /\ master[x].parent \in DOMAIN master \cup {Root}
    BY <1>1, <1>2 DEF RowsSound, RowSound
  <2>2. CASE master[x].parent = Root
    BY <1>1, <1>2, <2>1, <2>2 DEF Follows
  <2>3. CASE master[x].parent # Root
    <3>1. master[x].parent \in DOMAIN master
      BY <2>1, <2>3
    <3>2. /\ master'[master[x].parent].path = master[master[x].parent].path
          /\ master'[x].parent = master[x].parent /\ master'[x].path = master[x].path
          /\ master'[x].depth = master[x].depth
      BY <1>2, <2>1, <3>1
    <3>3. Follows(master, x)
      BY <1>1, <2>1
    <3> QED BY <2>3, <3>2, <3>3 DEF Follows
  <2> QED BY <2>2, <2>3
<1>5. PathsFollowMasters'
  BY <1>1, <1>4 DEF PathsFollowMasters, Follows
<1> QED BY <1>1, <1>2, <1>3, <1>5 DEF TreeInv

-----------------------------------------------------------------------------
(* Rewriting the rows below.                                               *)

\* The tables between the first and the last of a rewrite.
IsTrace(F, ms, order) ==
  /\ DOMAIN F = 0 .. Len(order) /\ F[0] = ms
  /\ \A n \in 1 .. Len(order) : F[n] = Repathed(F[n - 1], order[n])

\* What defines them.
Solves(F, ms, order, m) ==
  F = [n \in 0 .. m |-> IF n = 0 THEN ms ELSE Repathed(F[n - 1], order[n])]

\* There are such tables.
LEMMA TraceExists ==
  ASSUME NEW ms, NEW order, Len(order) \in Nat
  PROVE  \E F : Solves(F, ms, order, Len(order))
<1> DEFINE N == Len(order)
           Step(F, n) == IF n = 0 THEN ms ELSE Repathed(F[n - 1], order[n])
           Solved(m) == \E F : Solves(F, ms, order, m)
           Unsolved == {m \in 0 .. N : ~Solved(m)}
<1>1. SUFFICES Unsolved = {}
  <2>1. N \in 0 .. N
    OBVIOUS
  <2> HIDE DEF N
  <2>2. Unsolved = {} => Solved(N)
    BY <2>1
  <2> QED BY <2>2 DEF N
<1>2. SUFFICES ASSUME Unsolved # {}
               PROVE  FALSE
  OBVIOUS
<1>3. Unsolved \in SUBSET Nat
  OBVIOUS
<1>4. PICK m \in Unsolved : \A k \in Unsolved : m <= k
  <2> HIDE DEF Unsolved
  <2> QED BY <1>2, <1>3, LeastOfNumbers
<1>5. m \in 0 .. N /\ ~Solved(m)
  OBVIOUS
<1>6. CASE m = 0
  <2> DEFINE f == [n \in 0 .. 0 |-> ms]
  <2>1. f = [n \in 0 .. 0 |-> Step(f, n)]
    OBVIOUS
  <2>2. Solved(0)
    BY <2>1 DEF Solves
  <2> QED BY <1>5, <1>6, <2>2
<1>7. CASE m # 0
  <2>1. m \in Nat /\ m - 1 \in 0 .. N /\ ~(m <= m - 1)
    BY <1>5, <1>7
  <2>2. Solved(m - 1)
    <3>1. m - 1 \notin Unsolved
      BY <1>4, <2>1
    <3> HIDE DEF Solved
    <3> QED BY <2>1, <3>1
  <2>3. PICK f : f = [n \in 0 .. (m - 1) |-> Step(f, n)]
    BY <2>2 DEF Solves
  <2> DEFINE g == [n \in 0 .. m |-> IF n = m THEN Step(f, m) ELSE f[n]]
  <2>4. \A n \in 0 .. m : /\ n = m \/ n \in 0 .. (m - 1)
                          /\ n # 0 => n - 1 \in 0 .. m /\ n - 1 # m
    BY <2>1
  <2>5. DOMAIN f = 0 .. (m - 1) /\ \A n \in 0 .. (m - 1) : f[n] = Step(f, n)
    BY <2>3
  <2>6. ASSUME NEW n \in 0 .. m
        PROVE  (IF n = m THEN Step(f, m) ELSE f[n]) = Step(g, n)
    <3>1. (IF n = m THEN Step(f, m) ELSE f[n]) = Step(f, n)
      <4> HIDE DEF Step
      <4> QED BY <2>4, <2>5
    <3>2. n # 0 => g[n - 1] = f[n - 1]
      BY <2>4
    <3> HIDE DEF g
    <3> QED BY <3>1, <3>2
  <2>7. g = [n \in 0 .. m |-> Step(g, n)]
    <3> HIDE DEF Step
    <3> QED BY <2>6
  <2>8. Solved(m)
    <3> HIDE DEF g
    <3> QED BY <2>7 DEF Solves
  <2> QED BY <1>5, <2>8
<1> QED BY <1>6, <1>7

\* Rewritten is the last of them.
LEMMA RewrittenIsLast ==
  ASSUME NEW ms, NEW order, Len(order) \in Nat
  PROVE  \E F : IsTrace(F, ms, order) /\ Rewritten(ms, order) = F[Len(order)]
<1> DEFINE h == CHOOSE F : Solves(F, ms, order, Len(order))
<1>1. \E F : Solves(F, ms, order, Len(order))
  BY TraceExists
<1>2. h = [n \in 0 .. Len(order) |-> IF n = 0 THEN ms ELSE Repathed(h[n - 1], order[n])]
  <2>1. Solves(h, ms, order, Len(order))
    BY <1>1
  <2> HIDE DEF h
  <2> QED BY <2>1 DEF Solves
<1>3. Rewritten(ms, order) = h[Len(order)]
  BY DEF Rewritten, Solves
<1> HIDE DEF h
<1>4. 0 \in 0 .. Len(order) /\ \A n \in 1 .. Len(order) : n \in 0 .. Len(order) /\ n # 0
  OBVIOUS
<1>5. IsTrace(h, ms, order)
  <2>1. DOMAIN h = 0 .. Len(order)
    BY <1>2
  <2>2. h[0] = ms
    BY <1>2, <1>4
  <2>3. \A n \in 1 .. Len(order) : h[n] = Repathed(h[n - 1], order[n])
    BY <1>2, <1>4
  <2> QED BY <2>1, <2>2, <2>3 DEF IsTrace
<1> QED BY <1>3, <1>5

\* A table with the parents of another.
SameParents(ms, ns) ==
  DOMAIN ns = DOMAIN ms /\ \A x \in DOMAIN ms : ns[x].parent = ms[x].parent

\* Rewriting one row leaves the others alone.
LEMMA RepathedRows ==
  ASSUME NEW ms, RowsSound(ms), NEW x \in DOMAIN ms, ms[x].parent # Root
  PROVE  /\ RowsSound(Repathed(ms, x)) /\ SameParents(ms, Repathed(ms, x))
         /\ Repathed(ms, x)[x].path = Append(ms[ms[x].parent].path, x)
         /\ \A y \in DOMAIN ms \ {x} : Repathed(ms, x)[y] = ms[y]
<1> DEFINE p == ms[x].parent
           new == WithPath(ms[x], p, Append(ms[p].path, x))
           ns == Repathed(ms, x)
<1>1. /\ ms[x] \in Row /\ p \in DOMAIN ms /\ p \in Category /\ x \in Category
      /\ ms[p].path \in Seq(Category)
  BY DEF RowsSound, RowSound, Row
<1>2. /\ Append(ms[p].path, x) \in Seq(Category) /\ EndsWith(Append(ms[p].path, x), x)
  BY <1>1, LongerPath
<1>3. /\ new \in Row /\ new.parent = p /\ new.path = Append(ms[p].path, x)
      /\ new.depth = Len(new.path)
  <2> DEFINE s == Append(ms[p].path, x)
             r == ms[x]
  <2>1. r \in Row /\ p \in Category \cup {Root} /\ s \in Seq(Category)
    BY <1>1, <1>2
  <2> HIDE DEF p, s, r
  <2>2. /\ WithPath(r, p, s) \in Row /\ WithPath(r, p, s).parent = p
        /\ WithPath(r, p, s).path = s /\ WithPath(r, p, s).depth = Len(s)
    BY <2>1, PlacedRow
  <2> QED BY <2>2 DEF s, r
<1>4. ns = [ms EXCEPT ![x] = new]
  BY DEF Repathed
<1> HIDE DEF new, ns
<1>5. /\ DOMAIN ns = DOMAIN ms /\ ns[x] = new /\ ns = [y \in DOMAIN ns |-> ns[y]]
      /\ \A y \in DOMAIN ms \ {x} : ns[y] = ms[y]
  BY <1>4
<1>6. RowSound(ns, x)
  BY <1>1, <1>2, <1>3, <1>5 DEF RowSound
<1>7. \A y \in DOMAIN ms \ {x} : RowSound(ns, y)
  BY <1>5 DEF RowsSound, RowSound
<1>8. RowsSound(ns)
  BY <1>5, <1>6, <1>7 DEF RowsSound
<1>9. SameParents(ms, ns)
  BY <1>3, <1>5 DEF SameParents
<1> QED BY <1>3, <1>5, <1>8, <1>9 DEF ns

\* All the tables are sound.
LEMMA TraceSound ==
  ASSUME NEW ms, RowsSound(ms), NEW order, Len(order) \in Nat,
         \A n \in 1 .. Len(order) : order[n] \in DOMAIN ms /\ ms[order[n]].parent # Root,
         NEW F, IsTrace(F, ms, order), NEW n \in 0 .. Len(order)
  PROVE  RowsSound(F[n]) /\ SameParents(ms, F[n])
<1> DEFINE Good(m) == RowsSound(F[m]) /\ SameParents(ms, F[m])
           Bad == {m \in 0 .. Len(order) : ~Good(m)}
<1>1. SUFFICES ASSUME Bad # {}
               PROVE  FALSE
  OBVIOUS
<1>2. Bad \in SUBSET Nat
  OBVIOUS
<1>3. PICK m \in Bad : \A k \in Bad : m <= k
  <2> HIDE DEF Bad
  <2> QED BY <1>1, <1>2, LeastOfNumbers
<1>4. m \in 0 .. Len(order) /\ ~Good(m)
  OBVIOUS
<1>5. m # 0
  BY <1>4 DEF IsTrace, SameParents
<1>6. m \in 1 .. Len(order) /\ m - 1 \in 0 .. Len(order) /\ ~(m <= m - 1)
  BY <1>4, <1>5
<1>7. RowsSound(F[m - 1]) /\ SameParents(ms, F[m - 1])
  <2>1. m - 1 \notin Bad
    BY <1>3, <1>6
  <2> QED BY <1>6, <2>1
<1>8. order[m] \in DOMAIN F[m - 1] /\ F[m - 1][order[m]].parent # Root
  BY <1>6, <1>7 DEF SameParents
<1>9. F[m] = Repathed(F[m - 1], order[m])
  BY <1>6 DEF IsTrace
<1>10. RowsSound(F[m]) /\ SameParents(F[m - 1], F[m])
  BY <1>7, <1>8, <1>9, RepathedRows
<1>11. SameParents(ms, F[m])
  BY <1>7, <1>10 DEF SameParents
<1> QED BY <1>4, <1>10, <1>11

\* A row stays as it is while others are rewritten.
LEMMA TraceStays ==
  ASSUME NEW ms, RowsSound(ms), NEW order, Len(order) \in Nat,
         \A n \in 1 .. Len(order) : order[n] \in DOMAIN ms /\ ms[order[n]].parent # Root,
         NEW F, IsTrace(F, ms, order), NEW x \in DOMAIN ms, NEW l \in 0 .. Len(order),
         \A n \in (l + 1) .. Len(order) : order[n] # x
  PROVE  F[Len(order)][x] = F[l][x]
<1> DEFINE Bad == {m \in l .. Len(order) : F[m][x] # F[l][x]}
<1>1. SUFFICES ASSUME Bad # {}
               PROVE  FALSE
  <2>1. Len(order) \in l .. Len(order)
    OBVIOUS
  <2> QED BY <2>1
<1>2. Bad \in SUBSET Nat
  OBVIOUS
<1>3. PICK m \in Bad : \A k \in Bad : m <= k
  <2> HIDE DEF Bad
  <2> QED BY <1>1, <1>2, LeastOfNumbers
<1>4. m \in l .. Len(order) /\ F[m][x] # F[l][x]
  OBVIOUS
<1>5. m # l
  BY <1>4
<1>6. /\ m \in 1 .. Len(order) /\ m \in (l + 1) .. Len(order)
      /\ m - 1 \in l .. Len(order) /\ m - 1 \in 0 .. Len(order) /\ ~(m <= m - 1)
  BY <1>4, <1>5
<1>7. F[m - 1][x] = F[l][x]
  <2>1. m - 1 \notin Bad
    BY <1>3, <1>6
  <2> QED BY <1>6, <2>1
<1>8. RowsSound(F[m - 1]) /\ SameParents(ms, F[m - 1])
  BY <1>6, TraceSound
<1>9. order[m] \in DOMAIN F[m - 1] /\ F[m - 1][order[m]].parent # Root /\ x \in DOMAIN F[m - 1]
  BY <1>6, <1>8 DEF SameParents
<1>10. F[m] = Repathed(F[m - 1], order[m]) /\ order[m] # x
  BY <1>6 DEF IsTrace
<1>11. F[m][x] = F[m - 1][x]
  BY <1>8, <1>9, <1>10, RepathedRows
<1> QED BY <1>4, <1>7, <1>11

\* What a rewrite leaves: rows it does not name are as before, and one that
\* came after its parent follows it.
AreRewritten(ms, order, ns) ==
  /\ RowsSound(ns) /\ SameParents(ms, ns)
  /\ \A x \in DOMAIN ms : (\A n \in 1 .. Len(order) : order[n] # x) => ns[x] = ms[x]
  /\ \A n \in 1 .. Len(order) :
       (\A k \in n .. Len(order) : order[k] # ms[order[n]].parent)
       => ns[order[n]].path = Append(ns[ms[order[n]].parent].path, order[n])

LEMMA RewrittenRows ==
  ASSUME NEW ms, RowsSound(ms), NEW order, Len(order) \in Nat,
         \A n \in 1 .. Len(order) : order[n] \in DOMAIN ms /\ ms[order[n]].parent # Root,
         \A n, k \in 1 .. Len(order) : n # k => order[n] # order[k]
  PROVE  AreRewritten(ms, order, Rewritten(ms, order))
<1> DEFINE N == Len(order)
<1>1. PICK F : IsTrace(F, ms, order) /\ Rewritten(ms, order) = F[N]
  BY RewrittenIsLast
<1>2. 0 \in 0 .. N /\ N \in 0 .. N /\ F[0] = ms
  BY <1>1 DEF IsTrace
<1>3. RowsSound(F[N]) /\ SameParents(ms, F[N])
  BY <1>1, <1>2, TraceSound
<1>4. ASSUME NEW x \in DOMAIN ms, \A n \in 1 .. N : order[n] # x
      PROVE  F[N][x] = ms[x]
  <2>1. \A n \in (0 + 1) .. N : order[n] # x
    BY <1>4
  <2> QED BY <1>1, <1>2, <2>1, TraceStays
<1>5. ASSUME NEW n \in 1 .. N, \A k \in n .. N : order[k] # ms[order[n]].parent
      PROVE  F[N][order[n]].path = Append(F[N][ms[order[n]].parent].path, order[n])
  <2> DEFINE x == order[n]
             q == ms[x].parent
  <2>1. n \in 0 .. N /\ n - 1 \in 0 .. N /\ (n - 1) + 1 = n
    OBVIOUS
  <2>2. x \in DOMAIN ms /\ q \in DOMAIN ms
    BY DEF RowsSound, RowSound
  <2>3. F[N][q] = F[n - 1][q]
    <3>1. PICK l : l = n - 1
      OBVIOUS
    <3>2. l \in 0 .. N /\ l + 1 = n
      BY <2>1, <3>1
    <3>3. \A k \in (l + 1) .. N : order[k] # q
      BY <1>5, <3>2
    <3> HIDE DEF q
    <3>4. F[N][q] = F[l][q]
      BY <1>1, <2>2, <3>2, <3>3, TraceStays
    <3> QED BY <3>1, <3>4
  <2>4. F[N][x] = F[n][x]
    <3>1. \A k \in (n + 1) .. N : k \in 1 .. N /\ k # n
      OBVIOUS
    <3>2. \A k \in (n + 1) .. N : order[k] # x
      BY <3>1
    <3> HIDE DEF x
    <3> QED BY <1>1, <2>1, <2>2, <3>2, TraceStays
  <2>5. RowsSound(F[n - 1]) /\ SameParents(ms, F[n - 1])
    BY <1>1, <2>1, TraceSound
  <2>6. x \in DOMAIN F[n - 1] /\ F[n - 1][x].parent = q /\ q # Root
    BY <2>2, <2>5 DEF SameParents
  <2>7. F[n] = Repathed(F[n - 1], x)
    BY <1>1 DEF IsTrace
  <2> HIDE DEF x, q
  <2>8. F[n][x].path = Append(F[n - 1][q].path, x)
    <3> DEFINE t == F[n - 1]
    <3>1. RowsSound(t) /\ x \in DOMAIN t /\ t[x].parent = q /\ t[x].parent # Root
      BY <2>5, <2>6
    <3> HIDE DEF t
    <3>2. Repathed(t, x)[x].path = Append(t[t[x].parent].path, x)
      BY <3>1, RepathedRows
    <3> QED BY <2>7, <3>1, <3>2 DEF t
  <2> QED BY <2>3, <2>4, <2>8 DEF x, q
<1> HIDE DEF N
<1> QED BY <1>1, <1>3, <1>4, <1>5 DEF AreRewritten, N

-----------------------------------------------------------------------------
(* Moves.                                                                  *)

\* An order of finitely many rows names each of them once.
LEMMA OrderNames ==
  ASSUME NEW S, IsFiniteSet(S), NEW order \in SetToSeqs(S)
  PROVE  /\ Len(order) \in Nat /\ DOMAIN order = 1 .. Len(order)
         /\ \A n \in 1 .. Len(order) : order[n] \in S
         /\ \A n, k \in 1 .. Len(order) : n # k => order[n] # order[k]
         /\ \A x \in S : \E n \in 1 .. Len(order) : order[n] = x
         /\ ToSet(order) = S
<1> DEFINE N == Cardinality(S)
<1>1. N \in Nat
  BY FS_CardinalityType
<1>2. order \in [1 .. N -> S] /\ \A i, j \in 1 .. N : i # j => order[i] # order[j]
  BY DEF SetToSeqs
<1>3. order \in Injection(1 .. N, S)
  BY <1>2 DEF Injection, IsInjective
<1>4. Cardinality(1 .. N) = N
  BY <1>1, FS_Interval
<1>5. order \in Surjection(1 .. N, S)
  BY <1>3, <1>4, FS_Injection
<1> HIDE DEF N
<1>6. Len(order) = N /\ DOMAIN order = 1 .. N
  <2>1. order \in Seq(S)
    BY <1>1, <1>2
  <2>2. DOMAIN order = 1 .. N
    BY <1>2
  <2> QED BY <1>1, <2>1, <2>2
<1>7. \A x \in S : \E n \in 1 .. N : order[n] = x
  BY <1>5 DEF Surjection
<1>8. ToSet(order) = S
  BY <1>2, <1>6, <1>7 DEF ToSet
<1> QED BY <1>1, <1>2, <1>6, <1>7, <1>8

\* The row of a moved category fits its new place, whatever that is.
LEMMA MovedRows ==
  ASSUME NEW ms, RowsSound(ms), NEW c \in DOMAIN ms, NEW p \in DOMAIN ms \cup {Root}
  PROVE  /\ RowsSound(Moved(ms, c, p)) /\ DOMAIN Moved(ms, c, p) = DOMAIN ms
         /\ Moved(ms, c, p)[c].parent = p
         /\ Moved(ms, c, p)[c].path = IF p = Root THEN <<c>> ELSE Append(ms[p].path, c)
         /\ \A x \in DOMAIN ms \ {c} : Moved(ms, c, p)[x] = ms[x]
<1> DEFINE s == IF p = Root THEN <<c>> ELSE Append(ms[p].path, c)
           r == ms[c]
           ns == Moved(ms, c, p)
<1>1. r \in Row /\ c \in Category /\ p \in Category \cup {Root}
  BY DEF RowsSound, RowSound
<1>2. s \in Seq(Category) /\ EndsWith(s, c)
  <2>1. CASE p = Root
    <3>1. <<c>> \in Seq(Category) /\ Len(<<c>>) = 1 /\ <<c>>[1] = c
      BY <1>1
    <3> QED BY <2>1, <3>1 DEF EndsWith
  <2>2. CASE p # Root
    <3>1. p \in DOMAIN ms /\ ms[p].path \in Seq(Category)
      BY <2>2 DEF RowsSound, RowSound, Row
    <3>2. Append(ms[p].path, c) \in Seq(Category) /\ EndsWith(Append(ms[p].path, c), c)
      BY <1>1, <3>1, LongerPath
    <3> QED BY <2>2, <3>2
  <2> QED BY <2>1, <2>2
<1>3. ns = [ms EXCEPT ![c] = WithPath(r, p, s)]
  BY DEF Moved
<1>4. p = Root => s = <<c>>
  OBVIOUS
<1> HIDE DEF s, r, ns
<1>5. /\ WithPath(r, p, s) \in Row /\ WithPath(r, p, s).parent = p
      /\ WithPath(r, p, s).path = s /\ WithPath(r, p, s).depth = Len(s)
  BY <1>1, <1>2, PlacedRow
<1>6. /\ DOMAIN ns = DOMAIN ms /\ ns[c] = WithPath(r, p, s) /\ ns = [x \in DOMAIN ns |-> ns[x]]
      /\ \A x \in DOMAIN ms \ {c} : ns[x] = ms[x]
  BY <1>3
<1>7. RowSound(ns, c)
  BY <1>2, <1>4, <1>5, <1>6 DEF RowSound
<1>8. \A x \in DOMAIN ms \ {c} : RowSound(ns, x)
  BY <1>6 DEF RowsSound, RowSound
<1>9. RowsSound(ns)
  BY <1>6, <1>7, <1>8 DEF RowsSound
<1> QED BY <1>5, <1>6, <1>9 DEF s, ns

\* The rows below have a parent.
LEMMA BelowHaveParent ==
  ASSUME NEW ms, RowsSound(ms), NEW c
  PROVE  /\ Below(ms, c) \subseteq DOMAIN ms /\ IsFiniteSet(Below(ms, c))
         /\ \A x \in Below(ms, c) : ms[x].parent # Root
<1>1. Below(ms, c) \subseteq DOMAIN ms
  BY DEF Below
<1>2. IsFiniteSet(Below(ms, c))
  <2>1. Below(ms, c) \subseteq Category
    BY <1>1 DEF RowsSound
  <2> QED BY <2>1, TreeAssumption, FS_Subset
<1>3. ASSUME NEW x \in Below(ms, c), ms[x].parent = Root
      PROVE  FALSE
  <2>1. ms[x].path = <<x>> /\ c \in ToSet(Front(ms[x].path))
    BY <1>1, <1>3 DEF RowsSound, RowSound, Below
  <2>2. DOMAIN Front(<<x>>) = {}
    BY DEF Front
  <2>3. c \in ToSet(Front(<<x>>))
    BY <2>1
  <2> QED BY <2>2, <2>3 DEF ToSet
<1> QED BY <1>1, <1>2, <1>3

\* A row that followed its parent and is not below c had a parent that is
\* neither c nor below c.
LEMMA OutsideStays ==
  ASSUME NEW ms, RowsSound(ms), NEW ns, NEW c, NEW y \in DOMAIN ms, NEW q \in DOMAIN ms,
         ms[y].path = Append(ms[q].path, y), ns[y] = ms[y], q # c => ns[q] = ms[q],
         DOMAIN ns = DOMAIN ms, y \notin Below(ns, c)
  PROVE  q # c /\ q \notin Below(ns, c)
<1>1. /\ ms[q].path \in Seq(Category) /\ EndsWith(ms[q].path, q) /\ y \in Category
  BY DEF RowsSound, RowSound, Row
<1>2. ToSet(Front(ms[y].path)) = ToSet(ms[q].path)
  BY <1>1, LongerPath
<1>3. c \notin ToSet(ms[q].path)
  BY <1>2 DEF Below
<1>4. q \in ToSet(ms[q].path) /\ ToSet(Front(ms[q].path)) \subseteq ToSet(ms[q].path)
  BY <1>1, EndOfPath
<1>5. q # c
  BY <1>3, <1>4
<1>6. q \notin Below(ns, c)
  BY <1>3, <1>4, <1>5 DEF Below
<1> QED BY <1>5, <1>6

LEMMA MoveMasterInv ==
  ASSUME TreeInv, NEW c \in Category, NEW p \in Category \cup {Root}, MoveMaster(c, p)
  PROVE  TreeInv'
<1> DEFINE ms == Moved(master, c, p)
<1>1. /\ c \in DOMAIN master /\ p \in DOMAIN master \cup {Root}
      /\ \E order \in SetToSeqs(Below(ms, c)) :
           /\ master' = Rewritten(ms, order)
           /\ askew' = (askew \ (ToSet(order) \cup {c})) \cup
                {order[i] : i \in {i \in DOMAIN order :
                   ms[order[i]].parent \in {order[j] : j \in i .. Len(order)}}}
  BY DEF MoveMaster
<1>2. PICK order \in SetToSeqs(Below(ms, c)) :
           /\ master' = Rewritten(ms, order)
           /\ askew' = (askew \ (ToSet(order) \cup {c})) \cup
                {order[i] : i \in {i \in DOMAIN order :
                   ms[order[i]].parent \in {order[j] : j \in i .. Len(order)}}}
  BY <1>1
<1>3. /\ RowsSound(master) /\ askew \subseteq DOMAIN master
      /\ \A x \in DOMAIN master \ askew : Follows(master, x)
  BY FollowsAre DEF TreeInv
<1>4. /\ RowsSound(ms) /\ DOMAIN ms = DOMAIN master /\ ms[c].parent = p
      /\ ms[c].path = IF p = Root THEN <<c>> ELSE Append(master[p].path, c)
      /\ \A x \in DOMAIN master \ {c} : ms[x] = master[x]
  BY <1>1, <1>3, MovedRows
<1> HIDE DEF ms
<1>5. /\ Below(ms, c) \subseteq DOMAIN ms /\ IsFiniteSet(Below(ms, c))
      /\ \A x \in Below(ms, c) : ms[x].parent # Root
  BY <1>4, BelowHaveParent
<1>6. /\ Len(order) \in Nat /\ DOMAIN order = 1 .. Len(order)
      /\ \A n \in 1 .. Len(order) : order[n] \in Below(ms, c)
      /\ \A n, k \in 1 .. Len(order) : n # k => order[n] # order[k]
      /\ \A x \in Below(ms, c) : \E n \in 1 .. Len(order) : order[n] = x
      /\ ToSet(order) = Below(ms, c)
  BY <1>5, OrderNames
<1>7. AreRewritten(ms, order, master')
  <2>1. \A n \in 1 .. Len(order) : order[n] \in DOMAIN ms /\ ms[order[n]].parent # Root
    BY <1>5, <1>6
  <2> QED BY <1>2, <1>4, <1>6, <2>1, RewrittenRows
<1>8. /\ RowsSound(master') /\ DOMAIN master' = DOMAIN ms
      /\ \A x \in DOMAIN ms : master'[x].parent = ms[x].parent
      /\ \A x \in DOMAIN ms \ Below(ms, c) : master'[x] = ms[x]
  BY <1>6, <1>7 DEF AreRewritten, SameParents
<1>9. askew' \subseteq DOMAIN master'
  BY <1>2, <1>3, <1>4, <1>5, <1>6, <1>8
<1>10. ASSUME NEW y \in DOMAIN master' \ askew'
       PROVE  Follows(master', y)
  <2> DEFINE q == ms[y].parent
  <2>1. /\ y \in DOMAIN ms /\ y \in DOMAIN master /\ q \in DOMAIN ms \cup {Root}
        /\ master'[y].parent = q /\ master'[y].depth = Len(master'[y].path)
    BY <1>4, <1>8 DEF RowsSound, RowSound
  <2> HIDE DEF q
  <2>2. CASE q = Root
    <3>1. master'[y].path = <<y>>
      BY <1>8, <2>1, <2>2 DEF RowsSound, RowSound
    <3> QED BY <2>1, <2>2, <3>1 DEF Follows
  <2>3. CASE q # Root
    <3>1. SUFFICES master'[y].path = Append(master'[q].path, y)
      BY <2>1, <2>3 DEF Follows
    <3>2. CASE y \in Below(ms, c)
      <4>1. PICK n \in 1 .. Len(order) : order[n] = y
        BY <1>6, <3>2
      <4>2. \A k \in n .. Len(order) : order[k] # q
        BY <1>2, <1>6, <4>1 DEF q
      <4>3. master'[order[n]].path = Append(master'[ms[order[n]].parent].path, order[n])
        BY <1>7, <4>1, <4>2 DEF AreRewritten, q
      <4> QED BY <4>1, <4>3 DEF q
    <3>3. CASE y \notin Below(ms, c) /\ y = c
      <4>1. ms[c].path = Append(master[p].path, c) /\ q = p /\ p \in DOMAIN master
        BY <1>4, <2>1, <2>3, <3>3 DEF q
      <4>2. master[p].path \in Seq(Category) /\ EndsWith(master[p].path, p)
        BY <1>3, <4>1 DEF RowsSound, RowSound, Row
      <4>3. ToSet(Front(ms[c].path)) = ToSet(master[p].path)
        BY <4>1, <4>2, LongerPath
      <4>4. c \notin ToSet(master[p].path)
        BY <1>4, <2>1, <3>3, <4>3 DEF Below
      <4>5. p \in ToSet(master[p].path) /\ ToSet(Front(master[p].path)) \subseteq ToSet(master[p].path)
        BY <4>2, EndOfPath
      <4>6. p # c /\ ms[p] = master[p]
        BY <1>4, <4>1, <4>4, <4>5
      <4>7. p \notin Below(ms, c)
        BY <4>4, <4>5, <4>6 DEF Below
      <4>8. master'[p] = master[p] /\ master'[y] = ms[c]
        BY <1>4, <1>8, <2>1, <3>3, <4>1, <4>6, <4>7
      <4> QED BY <3>3, <4>1, <4>8
    <3>4. CASE y \notin Below(ms, c) /\ y # c
      <4>1. ms[y] = master[y] /\ y \notin askew /\ q \in DOMAIN master
        BY <1>2, <1>4, <1>6, <2>1, <2>3, <3>4
      <4>2. master[y].path = Append(master[q].path, y)
        BY <1>3, <2>1, <2>3, <4>1 DEF Follows, q
      <4>3. q # c => ms[q] = master[q]
        BY <1>4, <4>1
      <4>4. q # c /\ q \notin Below(ms, c)
        BY <1>3, <1>4, <2>1, <3>4, <4>1, <4>2, <4>3, OutsideStays
      <4>5. master'[q] = master[q] /\ master'[y] = master[y]
        BY <1>4, <1>8, <2>1, <3>4, <4>1, <4>3, <4>4
      <4> QED BY <4>2, <4>5
    <3> QED BY <3>2, <3>3, <3>4
  <2> QED BY <2>2, <2>3
<1>11. PathsFollowMasters'
  BY <1>10 DEF PathsFollowMasters, Follows
<1> QED BY <1>8, <1>9, <1>11 DEF TreeInv

LEMMA TreeNextInv == TreeInv /\ [TreeNext]_treeVars => TreeInv'
<1> SUFFICES ASSUME TreeInv, [TreeNext]_treeVars
             PROVE  TreeInv'
  OBVIOUS
<1>1. CASE \E c \in Category, p \in Category \cup {Root} : CreateMaster(c, p) \/ MoveMaster(c, p)
  BY <1>1, CreateMasterInv, MoveMasterInv
<1>2. CASE \E c \in Category : SwitchMaster(c)
  BY <1>2, SwitchMasterInv
<1>3. CASE UNCHANGED <<master, askew>>
  BY <1>3 DEF TreeInv, PathsFollowMasters
<1>4. ASSUME NEW c \in Category, Clone(c)
      PROVE  UNCHANGED <<master, askew>>
  BY <1>4 DEF Clone
<1>5. UNCHANGED treeVars => UNCHANGED <<master, askew>>
  BY DEF treeVars
<1> QED BY <1>1, <1>2, <1>3, <1>4, <1>5 DEF TreeNext

\* The path and the depth of a master category are those of its parent with one
\* more, unless the last move over it rewrote it before its parent.
THEOREM MastersFollow == TreeInit /\ [][TreeNext]_treeVars => []PathsFollowMasters
<1>1. TreeInv => PathsFollowMasters
  BY DEF TreeInv
<1> QED BY <1>1, InitTree, TreeNextInv, PTL

-----------------------------------------------------------------------------
(***************************************************************************)
(* Policies and copies read the tree two ways: by its paths and by its     *)
(* links.  The path of a category is the line of those above it, and none  *)
(* stands on it twice, as long as none of them is askew; a line of links   *)
(* without an end would have more categories than there are (AboveIs).  A  *)
(* copy reaches, link by link, whatever the links say is below it.         *)
(***************************************************************************)
(* The line of those above a category.                                     *)

\* Rows outside skew follow their parents.
Straight(ms, skew) == RowsSound(ms) /\ \A c \in DOMAIN ms \ skew : Follows(ms, c)

\* The category at place i of the path of c has that path as far as i.
OnPath(ms, c, i) ==
  LET x == ms[c].path[i] IN
  /\ x \in DOMAIN ms /\ Len(ms[x].path) = i
  /\ \A j \in 1 .. i : ms[x].path[j] = ms[c].path[j]

\* The parent of the category at place i is the one before it.
ParentBefore(ms, c, i) ==
  ms[ms[c].path[i]].parent = IF i = 1 THEN Root ELSE ms[c].path[i - 1]

LEMMA RowsAre ==
  ASSUME NEW ms, RowsSound(ms), NEW c \in DOMAIN ms
  PROVE  /\ c \in Category /\ ms[c] \in Row /\ ms[c].path \in Seq(Category)
         /\ Len(ms[c].path) \in Nat \ {0} /\ ms[c].depth = Len(ms[c].path)
         /\ ms[c].path[Len(ms[c].path)] = c
         /\ DOMAIN ms[c].path = 1 .. Len(ms[c].path)
         /\ \A i \in 1 .. Len(ms[c].path) : ms[c].path[i] \in Category
         /\ ms[c].parent \in DOMAIN ms \cup {Root}
<1>1. c \in Category /\ RowSound(ms, c)
  BY DEF RowsSound
<1>2. /\ ms[c] \in Row /\ ms[c].depth = Len(ms[c].path) /\ EndsWith(ms[c].path, c)
      /\ ms[c].parent \in DOMAIN ms \cup {Root}
  BY <1>1 DEF RowSound
<1>3. ms[c].path \in Seq(Category)
  BY <1>2 DEF Row
<1> QED BY <1>1, <1>2, <1>3 DEF EndsWith

LEMMA LastOnPath ==
  ASSUME NEW ms, RowsSound(ms), NEW c \in DOMAIN ms
  PROVE  OnPath(ms, c, Len(ms[c].path))
BY RowsAre DEF OnPath

LEMMA OneUp ==
  ASSUME NEW ms, NEW skew, Straight(ms, skew), NEW c \in DOMAIN ms,
         NEW i \in 1 .. Len(ms[c].path), OnPath(ms, c, i), ms[c].path[i] \notin skew
  PROVE  /\ ParentBefore(ms, c, i)
         /\ i # 1 => OnPath(ms, c, i - 1)
<1>1. PICK p, x : p = ms[c].path /\ x = p[i]
  OBVIOUS
<1>2. PICK s, q : s = ms[x].path /\ q = ms[x].parent
  OBVIOUS
<1>3. p \in Seq(Category) /\ i \in Nat \ {0}
  BY <1>1, RowsAre DEF Straight
<1>4. x \in DOMAIN ms /\ x \notin skew /\ Len(s) = i /\ \A j \in 1 .. i : s[j] = p[j]
  BY <1>1, <1>2 DEF OnPath
<1>5. s = IF q = Root THEN <<x>> ELSE Append(ms[q].path, x)
  BY <1>2, <1>4 DEF Straight, Follows
<1>6. q \in DOMAIN ms \cup {Root} /\ s \in Seq(Category)
  BY <1>2, <1>4, RowsAre DEF Straight
<1>7. CASE q = Root
  <2>1. i = 1
    BY <1>4, <1>5, <1>7
  <2> QED BY <1>1, <1>2, <1>7, <2>1 DEF ParentBefore
<1>8. CASE q # Root
  <2>1. PICK r : r = ms[q].path
    OBVIOUS
  <2>2. q \in DOMAIN ms /\ r \in Seq(Category) /\ Len(r) \in Nat \ {0} /\ r[Len(r)] = q
    BY <1>6, <1>8, <2>1, RowsAre DEF Straight
  <2>3. s = Append(r, x)
    BY <1>5, <1>8, <2>1
  <2>4. Len(s) = Len(r) + 1 /\ \A j \in 1 .. Len(r) : s[j] = r[j]
    BY <2>2, <2>3
  <2>5. Len(r) = i - 1 /\ i # 1 /\ i - 1 \in 1 .. i
    BY <1>3, <1>4, <2>2, <2>4
  <2>6. \A j \in 1 .. (i - 1) : r[j] = p[j]
    <3>1. \A j \in 1 .. (i - 1) : j \in 1 .. i
      BY <1>3
    <3> QED BY <1>4, <2>4, <2>5, <3>1
  <2>7. q = p[i - 1]
    <3>1. i - 1 \in 1 .. (i - 1)
      BY <2>2, <2>5
    <3> QED BY <2>2, <2>5, <2>6, <3>1
  <2>8. ParentBefore(ms, c, i)
    BY <1>1, <1>2, <2>5, <2>7 DEF ParentBefore
  <2>9. OnPath(ms, c, i - 1)
    BY <1>1, <2>1, <2>2, <2>5, <2>6, <2>7 DEF OnPath
  <2> QED BY <2>8, <2>9
<1> QED BY <1>7, <1>8

\* No category on the path of c is in skew.
Clear(ms, skew, c) == \A i \in 1 .. Len(ms[c].path) : ms[c].path[i] \notin skew

\* The path of c is the line of those above it.
Lineage(ms, c) ==
  \A i \in 1 .. Len(ms[c].path) : OnPath(ms, c, i) /\ ParentBefore(ms, c, i)

\* Places of which the categories are on the path are apart.
LEMMA PlacesApart ==
  ASSUME NEW ms, NEW c, NEW i, NEW j, OnPath(ms, c, i), OnPath(ms, c, j), ms[c].path[i] = ms[c].path[j]
  PROVE  i = j
BY DEF OnPath

\* There are no more of them than there are categories.
LEMMA PlacesFew ==
  ASSUME NEW ms, RowsSound(ms), NEW c \in DOMAIN ms, NEW low \in 1 .. Len(ms[c].path),
         \A i \in low .. Len(ms[c].path) : OnPath(ms, c, i)
  PROVE  Len(ms[c].path) - low < Cardinality(Category)
<1>1. PICK p, N : p = ms[c].path /\ N = Len(p)
  OBVIOUS
<1>2. N \in Nat /\ low \in 1 .. N /\ \A i \in 1 .. N : p[i] \in Category
  BY <1>1, RowsAre
<1>3. IsFiniteSet(Category) /\ Cardinality(Category) \in Nat
  BY TreeAssumption, FS_CardinalityType
<1>4. SUFFICES ASSUME Cardinality(Category) <= N - low
               PROVE  FALSE
  BY <1>1, <1>2, <1>3
<1> DEFINE f == [i \in low .. N |-> p[i]]
<1>5. f \in [low .. N -> Category]
  BY <1>2
<1>6. IsFiniteSet(low .. N) /\ Cardinality(low .. N) = N - low + 1
  BY <1>2, FS_Interval
<1>7. Cardinality(Category) < Cardinality(low .. N)
  BY <1>2, <1>3, <1>4, <1>6
<1>8. PICK i \in low .. N, j \in low .. N : i # j /\ f[i] = f[j]
  <2> HIDE DEF f
  <2> QED BY <1>3, <1>5, <1>6, <1>7, FS_PigeonHole
<1>9. p[i] = p[j]
  BY <1>8
<1> QED BY <1>1, <1>8, <1>9, PlacesApart

LEMMA ClearLineage ==
  ASSUME NEW ms, NEW skew, Straight(ms, skew), NEW c \in DOMAIN ms, Clear(ms, skew, c)
  PROVE  Lineage(ms, c) /\ Len(ms[c].path) - 1 < Cardinality(Category)
<1>1. PICK N : N = Len(ms[c].path)
  OBVIOUS
<1>2. N \in Nat \ {0} /\ RowsSound(ms)
  BY <1>1, RowsAre DEF Straight
<1> DEFINE T == {n \in 0 .. (N - 1) : OnPath(ms, c, N - n)}
<1>3. 0 \in T
  <2>1. 0 \in 0 .. (N - 1) /\ N - 0 = N
    BY <1>2
  <2> QED BY <1>1, <1>2, <2>1, LastOnPath
<1>4. ASSUME NEW n \in 0 .. (N - 1), n # N - 1, n \in T
      PROVE  n + 1 \in T
  <2>1. N - n \in 1 .. N /\ N - n # 1 /\ (N - n) - 1 = N - (n + 1) /\ n + 1 \in 0 .. (N - 1)
    BY <1>2, <1>4
  <2>2. OnPath(ms, c, (N - n) - 1)
    BY <1>1, <1>4, <2>1, OneUp DEF Clear
  <2> QED BY <2>1, <2>2
<1>5. 0 .. (N - 1) \subseteq T
  <2>1. N - 1 \in Nat
    BY <1>2
  <2> HIDE DEF T
  <2> QED BY <1>3, <1>4, <2>1, HoldsUpTo
<1>6. \A i \in 1 .. N : OnPath(ms, c, i)
  <2>1. TAKE i \in 1 .. N
  <2>2. N - i \in 0 .. (N - 1) /\ N - (N - i) = i
    BY <1>2
  <2> QED BY <1>5, <2>2
<1>7. Lineage(ms, c)
  BY <1>1, <1>6, OneUp DEF Clear, Lineage
<1>8. N - 1 < Cardinality(Category)
  <2>1. 1 \in 1 .. N
    BY <1>2
  <2> QED BY <1>1, <1>2, <1>6, <2>1, PlacesFew
<1> QED BY <1>1, <1>7, <1>8

-----------------------------------------------------------------------------
\* The sets by which Above goes up.
Rises(ms, c, up) ==
  up = [n \in 0 .. Cardinality(Category) |->
          IF n = 0 THEN {c} ELSE up[n - 1] \cup ({ms[x].parent : x \in up[n - 1]} \ {Root})]

LEMMA RisesExist ==
  ASSUME NEW ms, RowsSound(ms), NEW c \in DOMAIN ms
  PROVE  \E up : Rises(ms, c, up)
<1> DEFINE K == Cardinality(Category)
           S == SUBSET DOMAIN ms
           f == [x \in Nat \X S |-> x[2] \cup ({ms[y].parent : y \in x[2]} \ {Root})]
<1>1. K \in Nat
  BY TreeAssumption, FS_CardinalityType
<1>2. f \in [Nat \X S -> S]
  <2>1. \A y \in DOMAIN ms : ms[y].parent \in DOMAIN ms \cup {Root}
    BY RowsAre
  <2>2. \A x \in Nat \X S : x[2] \cup ({ms[y].parent : y \in x[2]} \ {Root}) \in S
    BY <2>1
  <2> QED BY <2>2
<1> HIDE DEF K
<1>3. {c} \in S
  OBVIOUS
<1>4. PICK F \in [0 .. K -> S] : Iterates(F, {c}, f, K)
  <2> HIDE DEF f, S
  <2> QED BY <1>1, <1>2, <1>3, IteratesExist
<1>5. \A n \in 0 .. K : n # 0 =>
        f[<<n, F[n - 1]>>] = F[n - 1] \cup ({ms[y].parent : y \in F[n - 1]} \ {Root})
  <2>1. TAKE n \in 0 .. K
  <2>2. n # 0 => n \in Nat /\ n - 1 \in 0 .. K
    BY <1>1
  <2>3. n # 0 => <<n, F[n - 1]>> \in Nat \X S
    BY <2>2
  <2> QED BY <2>3
<1> HIDE DEF f, S
<1>6. Rises(ms, c, F)
  BY <1>4, <1>5 DEF Iterates, Rises, K
<1> QED BY <1>6

LEMMA RisesBySteps ==
  ASSUME NEW ms, NEW c, NEW up, Rises(ms, c, up)
  PROVE  /\ Cardinality(Category) \in Nat
         /\ up[0] = {c}
         /\ \A n \in 1 .. Cardinality(Category) :
              up[n] = up[n - 1] \cup ({ms[x].parent : x \in up[n - 1]} \ {Root})
         /\ \A n, m \in 0 .. Cardinality(Category) : n <= m => up[n] \subseteq up[m]
<1> DEFINE K == Cardinality(Category)
           T == {m \in 0 .. K : \A n \in 0 .. m : up[n] \subseteq up[m]}
<1>1. K \in Nat
  BY TreeAssumption, FS_CardinalityType
<1> HIDE DEF K
<1>2. \A n \in 0 .. K : up[n] = IF n = 0 THEN {c} ELSE up[n - 1] \cup ({ms[x].parent : x \in up[n - 1]} \ {Root})
  BY DEF Rises, K
<1>3. 0 \in 0 .. K /\ \A n \in 1 .. K : n \in 0 .. K /\ n # 0
  BY <1>1
<1>4. up[0] = {c}
  BY <1>2, <1>3
<1>5. \A n \in 1 .. K : up[n] = up[n - 1] \cup ({ms[x].parent : x \in up[n - 1]} \ {Root})
  BY <1>2, <1>3
<1>6. 0 .. K \subseteq T
  <2>1. 0 \in T
    <3>1. \A n \in 0 .. 0 : n = 0
      OBVIOUS
    <3> QED BY <1>3, <3>1
  <2>2. ASSUME NEW n \in 0 .. K, n # K, n \in T
        PROVE  n + 1 \in T
    <3>1. n + 1 \in 1 .. K /\ (n + 1) - 1 = n /\ n + 1 \in 0 .. K
      BY <1>1, <2>2
    <3>2. up[n] \subseteq up[n + 1]
      BY <1>5, <3>1
    <3>3. \A m \in 0 .. (n + 1) : m = n + 1 \/ m \in 0 .. n
      BY <1>1
    <3> QED BY <2>2, <3>1, <3>2, <3>3
  <2> HIDE DEF T
  <2> QED BY <1>1, <2>1, <2>2, HoldsUpTo
<1>7. \A n, m \in 0 .. K : n <= m => up[n] \subseteq up[m]
  <2>1. SUFFICES ASSUME NEW n \in 0 .. K, NEW m \in 0 .. K, n <= m
                 PROVE  up[n] \subseteq up[m]
    OBVIOUS
  <2>2. n \in 0 .. m
    BY <1>1, <2>1
  <2> QED BY <1>6, <2>2
<1> QED BY <1>1, <1>4, <1>5, <1>7 DEF K

\* While nothing above c is in skew, the sets have the path from its end.
LEMMA RisesAlong ==
  ASSUME NEW ms, NEW skew, Straight(ms, skew), NEW c \in DOMAIN ms, NEW up, Rises(ms, c, up),
         up[Cardinality(Category)] \cap skew = {} \/ Clear(ms, skew, c)
  PROVE  /\ Clear(ms, skew, c)
         /\ \A i \in 1 .. Len(ms[c].path) : ms[c].path[i] \in up[Cardinality(Category)]
<1> DEFINE K == Cardinality(Category)
<1>1. PICK p, N : p = ms[c].path /\ N = Len(p)
  OBVIOUS
<1>2. N \in Nat \ {0} /\ RowsSound(ms)
  BY <1>1, RowsAre DEF Straight
<1>3. /\ K \in Nat /\ up[0] = {c}
      /\ \A n \in 1 .. K : up[n] = up[n - 1] \cup ({ms[x].parent : x \in up[n - 1]} \ {Root})
      /\ \A n, m \in 0 .. K : n <= m => up[n] \subseteq up[m]
  BY RisesBySteps
<1>4. up[K] \cap skew = {} \/ Clear(ms, skew, c)
  OBVIOUS
<1> HIDE DEF K
<1> DEFINE T == {n \in 0 .. K : n < N => p[N - n] \in up[n] /\ OnPath(ms, c, N - n)}
<1>5. 0 .. K \subseteq T
  <2>1. 0 \in T
    <3>1. 0 \in 0 .. K /\ N - 0 = N
      BY <1>2, <1>3
    <3>2. p[N] = c /\ OnPath(ms, c, N)
      BY <1>1, <1>2, RowsAre, LastOnPath
    <3> QED BY <1>3, <3>1, <3>2
  <2>2. ASSUME NEW n \in 0 .. K, n # K, n \in T
        PROVE  n + 1 \in T
    <3>1. n + 1 \in 1 .. K /\ n + 1 \in 0 .. K /\ (n + 1) - 1 = n /\ n \in 0 .. K /\ K \in 0 .. K /\ n <= K
      BY <1>3, <2>2
    <3>2. SUFFICES ASSUME n + 1 < N
                   PROVE  p[N - (n + 1)] \in up[n + 1] /\ OnPath(ms, c, N - (n + 1))
      BY <3>1
    <3>3. N - n \in 1 .. N /\ N - n # 1 /\ (N - n) - 1 = N - (n + 1) /\ n < N
      BY <1>2, <2>2, <3>2
    <3>4. p[N - n] \in up[n] /\ OnPath(ms, c, N - n)
      BY <2>2, <3>3
    <3>5. p[N - n] \notin skew
      <4>1. up[n] \subseteq up[K]
        BY <1>3, <3>1
      <4> QED BY <1>1, <1>4, <3>3, <3>4, <4>1 DEF Clear
    <3>6. ParentBefore(ms, c, N - n) /\ OnPath(ms, c, (N - n) - 1)
      BY <1>1, <3>3, <3>4, <3>5, OneUp
    <3>7. ms[p[N - n]].parent = p[N - (n + 1)]
      BY <1>1, <3>3, <3>6 DEF ParentBefore
    <3>8. p[N - (n + 1)] # Root
      <4>1. p[N - (n + 1)] \in DOMAIN ms
        BY <1>1, <3>3, <3>6 DEF OnPath
      <4> QED BY <1>2, <4>1, RowsAre, TreeAssumption
    <3>9. up[n + 1] = up[n] \cup ({ms[x].parent : x \in up[n]} \ {Root})
      BY <1>3, <3>1
    <3>10. p[N - (n + 1)] \in up[n + 1]
      BY <3>4, <3>7, <3>8, <3>9
    <3> QED BY <3>3, <3>6, <3>10
  <2> HIDE DEF T
  <2> QED BY <1>3, <2>1, <2>2, HoldsUpTo
<1>6. N - 1 \in 0 .. K
  <2>1. SUFFICES ASSUME K <= N - 1
                 PROVE  N - 1 = K
    BY <1>2, <1>3
  <2>2. N - K \in 1 .. N
    BY <1>2, <1>3, <2>1
  <2>3. \A i \in (N - K) .. N : OnPath(ms, c, i)
    <3>1. TAKE i \in (N - K) .. N
    <3>2. N - i \in 0 .. K /\ N - i < N /\ N - (N - i) = i
      BY <1>2, <1>3, <2>2
    <3> QED BY <1>5, <3>2
  <2>4. N - (N - K) < K
    BY <1>1, <1>2, <2>2, <2>3, PlacesFew DEF K
  <2> QED BY <1>2, <1>3, <2>4
<1>7. ASSUME NEW i \in 1 .. N
      PROVE  p[i] \in up[K]
  <2>1. N - i \in 0 .. K /\ N - i < N /\ N - (N - i) = i /\ K \in 0 .. K /\ N - i <= K
    BY <1>2, <1>3, <1>6
  <2>2. p[i] \in up[N - i] /\ up[N - i] \subseteq up[K]
    BY <1>3, <1>5, <2>1
  <2> QED BY <2>2
<1>8. Clear(ms, skew, c)
  BY <1>1, <1>4, <1>7 DEF Clear
<1> QED BY <1>1, <1>7, <1>8 DEF K

\* And no more than the path.
LEMMA RisesNoMore ==
  ASSUME NEW ms, NEW skew, Straight(ms, skew), NEW c \in DOMAIN ms, NEW up, Rises(ms, c, up),
         Clear(ms, skew, c)
  PROVE  up[Cardinality(Category)] \subseteq ToSet(ms[c].path)
<1> DEFINE K == Cardinality(Category)
<1>1. PICK p, N : p = ms[c].path /\ N = Len(p)
  OBVIOUS
<1>2. N \in Nat \ {0} /\ RowsSound(ms) /\ p[N] = c /\ DOMAIN p = 1 .. N
  BY <1>1, RowsAre DEF Straight
<1>3. /\ K \in Nat /\ up[0] = {c}
      /\ \A n \in 1 .. K : up[n] = up[n - 1] \cup ({ms[x].parent : x \in up[n - 1]} \ {Root})
  BY RisesBySteps
<1> HIDE DEF K
<1>4. \A i \in 1 .. N : ms[p[i]].parent = IF i = 1 THEN Root ELSE p[i - 1]
  BY <1>1, ClearLineage DEF Lineage, ParentBefore
<1> DEFINE T == {n \in 0 .. K : up[n] \subseteq {p[i] : i \in 1 .. N}}
<1>5. 0 .. K \subseteq T
  <2>1. 0 \in T
    <3>1. 0 \in 0 .. K /\ N \in 1 .. N
      BY <1>2, <1>3
    <3> QED BY <1>2, <1>3, <3>1
  <2>2. ASSUME NEW n \in 0 .. K, n # K, n \in T
        PROVE  n + 1 \in T
    <3>1. n + 1 \in 1 .. K /\ n + 1 \in 0 .. K /\ (n + 1) - 1 = n
      BY <1>3, <2>2
    <3>2. up[n + 1] = up[n] \cup ({ms[x].parent : x \in up[n]} \ {Root})
      BY <1>3, <3>1
    <3>3. \A i \in 1 .. N : i # 1 => i - 1 \in 1 .. N
      BY <1>2
    <3>4. \A x \in up[n] : ms[x].parent \in {Root} \cup {p[i] : i \in 1 .. N}
      BY <1>4, <2>2, <3>3
    <3> QED BY <2>2, <3>1, <3>2, <3>4
  <2> HIDE DEF T
  <2> QED BY <1>3, <2>1, <2>2, HoldsUpTo
<1>6. K \in 0 .. K
  BY <1>3
<1>7. up[K] \subseteq {p[i] : i \in 1 .. N}
  BY <1>5, <1>6
<1> QED BY <1>1, <1>2, <1>7 DEF K, ToSet

\* Those above c are its path.
LEMMA AboveIs ==
  ASSUME TreeInv, NEW c \in DOMAIN master,
         Above(c) \cap askew = {} \/ Clear(master, askew, c)
  PROVE  Clear(master, askew, c) /\ Above(c) = ToSet(master[c].path)
<1>1. PICK ms, skew : ms = master /\ skew = askew
  OBVIOUS
<1>2. Straight(ms, skew) /\ RowsSound(ms)
  BY <1>1, FollowsAre DEF TreeInv, Straight
<1> DEFINE h == CHOOSE up : Rises(master, c, up)
<1>3. Above(c) = h[Cardinality(Category)]
  BY DEF Above, Rises
<1>4. \E up : Rises(master, c, up)
  <2>1. \E up : Rises(ms, c, up)
    BY <1>1, <1>2, RisesExist
  <2> QED BY <1>1, <2>1
<1>5. Rises(master, c, h)
  BY <1>4
<1>6. PICK up : up = h
  OBVIOUS
<1> HIDE DEF h
<1>7. Rises(ms, c, up)
  BY <1>1, <1>5, <1>6
<1>8. up[Cardinality(Category)] \cap skew = {} \/ Clear(ms, skew, c)
  BY <1>1, <1>3, <1>6
<1>9. c \in DOMAIN ms
  BY <1>1
<1>10. /\ Clear(ms, skew, c)
       /\ \A i \in 1 .. Len(ms[c].path) : ms[c].path[i] \in up[Cardinality(Category)]
  BY <1>2, <1>7, <1>8, <1>9, RisesAlong
<1>11. up[Cardinality(Category)] \subseteq ToSet(ms[c].path)
  BY <1>2, <1>7, <1>9, <1>10, RisesNoMore
<1>12. DOMAIN ms[c].path = 1 .. Len(ms[c].path)
  BY <1>2, <1>9, RowsAre
<1>13. up[Cardinality(Category)] = ToSet(ms[c].path)
  BY <1>10, <1>11, <1>12 DEF ToSet
<1> QED BY <1>1, <1>3, <1>6, <1>10, <1>13

\* What is above one on the path is the path as far as that one.
LEMMA AboveOnPath ==
  ASSUME TreeInv, NEW c \in DOMAIN master, Clear(master, askew, c),
         NEW i \in 1 .. Len(master[c].path)
  PROVE  LET x == master[c].path[i] IN
         /\ x \in DOMAIN master /\ master[x].depth = i
         /\ Above(x) = {master[c].path[j] : j \in 1 .. i}
<1>1. PICK ms, skew : ms = master /\ skew = askew
  OBVIOUS
<1>2. Straight(ms, skew) /\ RowsSound(ms)
  BY <1>1, FollowsAre DEF TreeInv, Straight
<1>3. PICK p, N : p = ms[c].path /\ N = Len(p)
  OBVIOUS
<1>4. c \in DOMAIN ms /\ i \in 1 .. N /\ Clear(ms, skew, c) /\ N \in Nat
  BY <1>1, <1>2, <1>3, RowsAre
<1>5. OnPath(ms, c, i)
  BY <1>2, <1>3, <1>4, ClearLineage DEF Lineage
<1>6. PICK x : x = p[i]
  OBVIOUS
<1>7. x \in DOMAIN ms /\ Len(ms[x].path) = i /\ \A j \in 1 .. i : ms[x].path[j] = p[j]
  BY <1>3, <1>5, <1>6 DEF OnPath
<1>8. ms[x].depth = i /\ DOMAIN ms[x].path = 1 .. i
  BY <1>2, <1>7, RowsAre
<1>9. Clear(ms, skew, x)
  <2>1. \A j \in 1 .. i : j \in 1 .. N
    BY <1>4
  <2> QED BY <1>3, <1>4, <1>7, <2>1 DEF Clear
<1>10. Above(x) = ToSet(master[x].path)
  BY <1>1, <1>7, <1>9, AboveIs
<1>11. ToSet(ms[x].path) = {p[j] : j \in 1 .. i}
  BY <1>7, <1>8 DEF ToSet
<1> QED BY <1>1, <1>3, <1>6, <1>7, <1>8, <1>10, <1>11

-----------------------------------------------------------------------------
(* Shipping policies.                                                      *)

\* The deepest of some categories on a path is that which all are above.
LEMMA DeepestIsNearest ==
  ASSUME TreeInv, NEW c \in DOMAIN master, Clear(master, askew, c),
         NEW S, S \subseteq ToSet(master[c].path)
  PROVE  Deepest(S) = {y \in S : \A z \in S : z \in Above(y)}
<1>1. PICK p, N : p = master[c].path /\ N = Len(p)
  OBVIOUS
<1>2. PICK ms : ms = master
  OBVIOUS
<1>3. RowsSound(ms) /\ Straight(ms, askew)
  BY <1>2, FollowsAre DEF TreeInv, Straight
<1>4. N \in Nat /\ DOMAIN p = 1 .. N
  BY <1>1, <1>2, <1>3, RowsAre
<1>5. \A i \in 1 .. N : /\ master[p[i]].depth = i
                        /\ Above(p[i]) = {p[j] : j \in 1 .. i}
  <2>1. TAKE i \in 1 .. N
  <2>2. i \in 1 .. Len(master[c].path)
    BY <1>1
  <2>3. /\ master[master[c].path[i]].depth = i
        /\ Above(master[c].path[i]) = {master[c].path[j] : j \in 1 .. i}
    BY <2>2, AboveOnPath
  <2> QED BY <1>1, <2>3
<1>6. \A i, j \in 1 .. N : p[i] = p[j] => i = j
  BY <1>5
<1>7. \A y \in S : \E i \in 1 .. N : y = p[i]
  BY <1>1, <1>4 DEF ToSet
<1>8. ASSUME NEW y \in S, NEW z \in S
      PROVE  master[z].depth <= master[y].depth <=> z \in Above(y)
  <2>1. PICK i \in 1 .. N, j \in 1 .. N : y = p[i] /\ z = p[j]
    BY <1>7
  <2>2. master[y].depth = i /\ master[z].depth = j /\ Above(y) = {p[k] : k \in 1 .. i}
    BY <1>5, <2>1
  <2>3. z \in Above(y) <=> j \in 1 .. i
    <3>1. \A k \in 1 .. i : k \in 1 .. N
      BY <1>4
    <3> QED BY <1>6, <2>1, <2>2, <3>1
  <2>4. j \in 1 .. i <=> j <= i
    BY <1>4
  <2> QED BY <2>2, <2>3, <2>4
<1> QED BY <1>8 DEF Deepest

LEMMA NearestDecides == TreeInv => NearestPolicyDecides
<1> SUFFICES ASSUME TreeInv, NEW c \in DOMAIN master, NEW p \in Provider, Above(c) \cap askew = {}
             PROVE  LET mapped == {x \in Above(c) : PoliciesFor(p, x) # {}}
                    IN  ShippingOf(p, c) =
                          IF mapped = {} THEN {All}
                          ELSE {policies[q].type : q \in UNION {PoliciesFor(p, x) :
                                  x \in {y \in mapped : \A z \in mapped : z \in Above(y)}}}
  BY DEF NearestPolicyDecides
<1>1. Clear(master, askew, c) /\ Above(c) = ToSet(master[c].path)
  BY AboveIs
<1> DEFINE mapped == {x \in Above(c) : PoliciesFor(p, x) # {}}
<1>2. ShippingOf(p, c) = IF mapped = {} THEN {All}
        ELSE {policies[q].type : q \in UNION {PoliciesFor(p, x) : x \in Deepest(mapped)}}
  BY <1>1 DEF ShippingOf
<1>3. Deepest(mapped) = {y \in mapped : \A z \in mapped : z \in Above(y)}
  <2>1. PICK S : S = mapped
    OBVIOUS
  <2>2. S \subseteq ToSet(master[c].path)
    BY <1>1, <2>1
  <2> HIDE DEF mapped
  <2>3. Deepest(S) = {y \in S : \A z \in S : z \in Above(y)}
    BY <1>1, <2>2, DeepestIsNearest
  <2> QED BY <2>1, <2>3
<1> HIDE DEF mapped
<1> QED BY <1>2, <1>3 DEF mapped

AskedOK ==
  /\ \A q \in DOMAIN policies :
       /\ asked[q].providers \in (SUBSET Provider) \ {{}}
       /\ asked[q].categories \in (SUBSET Category) \ {{}}
  /\ asked \in [Policy -> [providers : SUBSET Provider, categories : SUBSET Category]]

\* Copies are numbered by the requests that took them, in order.
ClonesNumbered ==
  /\ \A x \in DOMAIN clones : x \in (1 .. MaxClones) \X Category
  /\ \E n \in 0 .. MaxClones : {x[1] : x \in DOMAIN clones} = 1 .. n

PolicyTypes ==
  /\ DOMAIN policies \subseteq Policy
  /\ policies = [q \in DOMAIN policies |-> policies[q]]
  /\ \A q \in DOMAIN policies : policies[q] \in [type : ShippingType, active : BOOLEAN]
  /\ rows \in [Policy -> [Provider \X Category -> 0 .. MaxRows]]
  /\ changes \in 0 .. MaxChanges

PolicyInv ==
  /\ TreeInv /\ ClonesNumbered /\ writes \in 0 .. MaxWrites
  /\ PolicyTypes /\ AskedOK /\ CoversWhatWasAsked

\* What a pair has to be to be listed.
Matching(ps, cs, x) ==
  IF ps # {} /\ cs # {} THEN x[1] \in ps /\ x[2] \in cs ELSE x[1] \in ps \/ x[2] \in cs

\* Each list that is given has one of the elements.
MeetBoth(P, C, ps, cs) == (ps # {} => P \cap ps # {}) /\ (cs # {} => C \cap cs # {})

\* Some of the pairs match.
SomeMatch(T, ps, cs) == \E x \in T : Matching(ps, cs, x)

LEMMA SomeMatching ==
  ASSUME NEW P, P # {}, NEW C, C # {}, NEW ps, NEW cs, ~(ps = {} /\ cs = {})
  PROVE  SomeMatch(P \X C, ps, cs) <=> MeetBoth(P, C, ps, cs)
<1>1. ASSUME NEW x \in P \X C, Matching(ps, cs, x)
      PROVE  MeetBoth(P, C, ps, cs)
  <2>1. x[1] \in P /\ x[2] \in C
    OBVIOUS
  <2> QED BY <1>1, <2>1 DEF Matching, MeetBoth
<1>2. ASSUME MeetBoth(P, C, ps, cs)
      PROVE  \E x \in P \X C : Matching(ps, cs, x)
  <2>1. PICK a \in P : ps # {} => a \in ps
    BY <1>2 DEF MeetBoth
  <2>2. PICK b \in C : cs # {} => b \in cs
    BY <1>2 DEF MeetBoth
  <2>3. PICK x : x = <<a, b>>
    OBVIOUS
  <2>4. x \in P \X C /\ x[1] = a /\ x[2] = b
    BY <2>3
  <2>5. Matching(ps, cs, x)
    BY <2>1, <2>2, <2>4 DEF Matching
  <2> QED BY <2>4, <2>5
<1> QED BY <1>1, <1>2 DEF SomeMatch

LEMMA ListsWhatWasAskedFor == PolicyInv => ListsWhatWasAsked
<1> SUFFICES ASSUME PolicyInv, NEW ps \in SUBSET Provider, NEW cs \in SUBSET Category
             PROVE  PoliciesShown(ps, cs) =
                      {q \in DOMAIN policies : MeetBoth(asked[q].providers, asked[q].categories, ps, cs)}
  BY DEF ListsWhatWasAsked, MeetBoth
<1>1. CASE ps = {} /\ cs = {}
  BY <1>1 DEF PoliciesShown, MeetBoth
<1>2. CASE ~(ps = {} /\ cs = {})
  <2>1. PoliciesShown(ps, cs) =
          {q \in DOMAIN policies : SomeMatch({x \in DOMAIN rows[q] : rows[q][x] > 0}, ps, cs)}
    <3>1. PoliciesShown(ps, cs) =
            {q \in DOMAIN policies : \E x \in DOMAIN rows[q] : rows[q][x] > 0 /\ Matching(ps, cs, x)}
      BY <1>2, Zenon DEF PoliciesShown, Matching
    <3>2. \A q \in DOMAIN policies :
            (\E x \in DOMAIN rows[q] : rows[q][x] > 0 /\ Matching(ps, cs, x))
              <=> SomeMatch({x \in DOMAIN rows[q] : rows[q][x] > 0}, ps, cs)
      BY Zenon DEF SomeMatch
    <3> QED BY <3>1, <3>2, Zenon
  <2>2. ASSUME NEW q \in DOMAIN policies
        PROVE  SomeMatch({x \in DOMAIN rows[q] : rows[q][x] > 0}, ps, cs)
                 <=> MeetBoth(asked[q].providers, asked[q].categories, ps, cs)
    <3>1. PICK P, C : P = asked[q].providers /\ C = asked[q].categories
      OBVIOUS
    <3>2. P # {} /\ C # {}
      BY <3>1 DEF PolicyInv, AskedOK
    <3>3. {x \in DOMAIN rows[q] : rows[q][x] > 0} = P \X C
      BY <3>1 DEF PolicyInv, CoversWhatWasAsked
    <3>4. SomeMatch(P \X C, ps, cs) <=> MeetBoth(P, C, ps, cs)
      BY <1>2, <3>2, SomeMatching
    <3> QED BY <3>1, <3>3, <3>4
  <2> QED BY <2>1, <2>2
<1> QED BY <1>1, <1>2

LEMMA PolicyInvAsked == PolicyInv => PoliciesAsAsked
<1> SUFFICES ASSUME PolicyInv
             PROVE  PoliciesAsAsked
  OBVIOUS
<1>1. TypeOK
  <2>1. DOMAIN master \subseteq Category /\ \A c \in DOMAIN master : master[c] \in Row
    BY DEF PolicyInv, TreeInv, RowsSound, RowSound
  <2> QED BY <2>1 DEF PolicyInv, TreeInv, ClonesNumbered, PolicyTypes, TypeOK
<1>2. NearestPolicyDecides
  BY NearestDecides DEF PolicyInv
<1> QED BY <1>1, <1>2, ListsWhatWasAskedFor DEF PolicyInv, PoliciesAsAsked

-----------------------------------------------------------------------------
(* Copies of parts of the tree.                                            *)

\* The rows that get_master_category_tree finds, linked from c downwards.
Found(c) == {c} \cup {x \in Below(master, c) : master[x].active}
Reaches(ms, c, S, reach) ==
  reach = [n \in 0 .. Cardinality(Category) |->
             IF n = 0 THEN {c} ELSE reach[n - 1] \cup {x \in S : ms[x].parent \in reach[n - 1]}]

LEMMA ReachesExist ==
  ASSUME NEW ms, NEW S, NEW c \in S
  PROVE  \E reach : Reaches(ms, c, S, reach)
<1> DEFINE K == Cardinality(Category)
           R == SUBSET S
           f == [x \in Nat \X R |-> x[2] \cup {y \in S : ms[y].parent \in x[2]}]
<1>1. K \in Nat
  BY TreeAssumption, FS_CardinalityType
<1>2. f \in [Nat \X R -> R]
  OBVIOUS
<1> HIDE DEF K
<1>3. {c} \in R
  OBVIOUS
<1>4. PICK F \in [0 .. K -> R] : Iterates(F, {c}, f, K)
  <2> HIDE DEF f, R
  <2> QED BY <1>1, <1>2, <1>3, IteratesExist
<1>5. \A n \in 0 .. K : n # 0 =>
        f[<<n, F[n - 1]>>] = F[n - 1] \cup {y \in S : ms[y].parent \in F[n - 1]}
  <2>1. TAKE n \in 0 .. K
  <2>2. n # 0 => n \in Nat /\ n - 1 \in 0 .. K
    BY <1>1
  <2>3. n # 0 => <<n, F[n - 1]>> \in Nat \X R
    BY <2>2
  <2> QED BY <2>3
<1> HIDE DEF f, R
<1>6. Reaches(ms, c, S, F)
  BY <1>4, <1>5 DEF Iterates, Reaches, K
<1> QED BY <1>6

LEMMA ReachesBySteps ==
  ASSUME NEW ms, NEW S, NEW c \in S, NEW reach, Reaches(ms, c, S, reach)
  PROVE  /\ Cardinality(Category) \in Nat
         /\ reach[0] = {c}
         /\ \A n \in 1 .. Cardinality(Category) :
              reach[n] = reach[n - 1] \cup {x \in S : ms[x].parent \in reach[n - 1]}
         /\ \A n, m \in 0 .. Cardinality(Category) : n <= m => reach[n] \subseteq reach[m]
         /\ \A x \in reach[Cardinality(Category)] \ {c} :
              x \in S /\ ms[x].parent \in reach[Cardinality(Category)]
<1> DEFINE K == Cardinality(Category)
           T == {m \in 0 .. K : \A n \in 0 .. m : reach[n] \subseteq reach[m]}
           U == {m \in 0 .. K : \A x \in reach[m] \ {c} : x \in S /\ ms[x].parent \in reach[K]}
<1>1. K \in Nat
  BY TreeAssumption, FS_CardinalityType
<1> HIDE DEF K
<1>2. \A n \in 0 .. K : reach[n] = IF n = 0 THEN {c} ELSE reach[n - 1] \cup {x \in S : ms[x].parent \in reach[n - 1]}
  BY DEF Reaches, K
<1>3. 0 \in 0 .. K /\ K \in 0 .. K /\ \A n \in 1 .. K : n \in 0 .. K /\ n # 0
  BY <1>1
<1>4. reach[0] = {c}
  BY <1>2, <1>3
<1>5. \A n \in 1 .. K : reach[n] = reach[n - 1] \cup {x \in S : ms[x].parent \in reach[n - 1]}
  BY <1>2, <1>3
<1>6. 0 .. K \subseteq T
  <2>1. 0 \in T
    <3>1. \A n \in 0 .. 0 : n = 0
      OBVIOUS
    <3> QED BY <1>3, <3>1
  <2>2. ASSUME NEW n \in 0 .. K, n # K, n \in T
        PROVE  n + 1 \in T
    <3>1. n + 1 \in 1 .. K /\ (n + 1) - 1 = n /\ n + 1 \in 0 .. K
      BY <1>1, <2>2
    <3>2. reach[n] \subseteq reach[n + 1]
      BY <1>5, <3>1
    <3>3. \A m \in 0 .. (n + 1) : m = n + 1 \/ m \in 0 .. n
      BY <1>1
    <3> QED BY <2>2, <3>1, <3>2, <3>3
  <2> HIDE DEF T
  <2> QED BY <1>1, <2>1, <2>2, HoldsUpTo
<1>7. \A n, m \in 0 .. K : n <= m => reach[n] \subseteq reach[m]
  <2>1. SUFFICES ASSUME NEW n \in 0 .. K, NEW m \in 0 .. K, n <= m
                 PROVE  reach[n] \subseteq reach[m]
    OBVIOUS
  <2>2. n \in 0 .. m
    BY <1>1, <2>1
  <2> QED BY <1>6, <2>2
<1>8. 0 .. K \subseteq U
  <2>1. 0 \in U
    BY <1>3, <1>4
  <2>2. ASSUME NEW n \in 0 .. K, n # K, n \in U
        PROVE  n + 1 \in U
    <3>1. n + 1 \in 1 .. K /\ (n + 1) - 1 = n /\ n + 1 \in 0 .. K /\ n <= K
      BY <1>1, <2>2
    <3>2. reach[n] \subseteq reach[K]
      BY <1>3, <1>7, <3>1
    <3>3. reach[n + 1] = reach[n] \cup {x \in S : ms[x].parent \in reach[n]}
      BY <1>5, <3>1
    <3> QED BY <2>2, <3>1, <3>2, <3>3
  <2> HIDE DEF U
  <2> QED BY <1>1, <2>1, <2>2, HoldsUpTo
<1>9. \A x \in reach[K] \ {c} : x \in S /\ ms[x].parent \in reach[K]
  BY <1>3, <1>8
<1> QED BY <1>1, <1>4, <1>5, <1>7, <1>9 DEF K

LEMMA TreeOfIs ==
  ASSUME NEW c
  PROVE  \E reach : Reaches(master, c, Found(c), reach) /\ TreeOf(c) = reach[Cardinality(Category)]
<1> DEFINE h == CHOOSE reach : Reaches(master, c, Found(c), reach)
<1>1. TreeOf(c) = h[Cardinality(Category)]
  BY DEF TreeOf, Reaches, Found
<1>2. \E reach : Reaches(master, c, Found(c), reach)
  <2>1. PICK ms, S : ms = master /\ S = Found(c)
    OBVIOUS
  <2>2. c \in S
    BY <2>1 DEF Found
  <2>3. \E reach : Reaches(ms, c, S, reach)
    BY <2>2, ReachesExist
  <2> QED BY <2>1, <2>3
<1>3. Reaches(master, c, Found(c), h)
  BY <1>2
<1> QED BY <1>1, <1>3

LEMMA TreeOfHas ==
  ASSUME NEW c \in DOMAIN master
  PROVE  /\ c \in TreeOf(c) /\ TreeOf(c) \subseteq DOMAIN master
         /\ \A x \in TreeOf(c) \ {c} : master[x].active /\ master[x].parent \in TreeOf(c)
<1>1. PICK ms, S : ms = master /\ S = Found(c)
  OBVIOUS
<1>2. PICK reach : Reaches(ms, c, S, reach) /\ TreeOf(c) = reach[Cardinality(Category)]
  BY <1>1, TreeOfIs
<1>3. c \in S /\ S \subseteq DOMAIN ms /\ \A x \in S : x = c \/ ms[x].active
  BY <1>1 DEF Found, Below
<1>4. /\ Cardinality(Category) \in Nat /\ reach[0] = {c}
      /\ \A n, m \in 0 .. Cardinality(Category) : n <= m => reach[n] \subseteq reach[m]
      /\ \A x \in reach[Cardinality(Category)] \ {c} :
           x \in S /\ ms[x].parent \in reach[Cardinality(Category)]
  BY <1>2, <1>3, ReachesBySteps
<1>5. c \in reach[Cardinality(Category)]
  <2>1. 0 \in 0 .. Cardinality(Category) /\ Cardinality(Category) \in 0 .. Cardinality(Category)
        /\ 0 <= Cardinality(Category)
    BY <1>4
  <2> QED BY <1>4, <2>1
<1> QED BY <1>1, <1>2, <1>3, <1>4, <1>5

\* The paths of the copies, each from that of its parent.
CopyPaths(ms, c, T, k, G) ==
  G = [x \in T |-> IF x = c THEN <<<<k, x>>>> ELSE Append(G[ms[x].parent], <<k, x>>)]

LEMMA CopyPathsExist ==
  ASSUME NEW ms, NEW S, NEW c \in S, NEW reach, Reaches(ms, c, S, reach), NEW k \in Nat,
         reach[Cardinality(Category)] \subseteq Category
  PROVE  \E G : CopyPaths(ms, c, reach[Cardinality(Category)], k, G)
<1> DEFINE K == Cardinality(Category)
           N == K + 2
<1>1. PICK T : T = reach[K]
  OBVIOUS
<1>2. /\ K \in Nat /\ reach[0] = {c}
      /\ \A n \in 1 .. K : reach[n] = reach[n - 1] \cup {x \in S : ms[x].parent \in reach[n - 1]}
      /\ \A n, m \in 0 .. K : n <= m => reach[n] \subseteq reach[m]
      /\ \A x \in T \ {c} : x \in S /\ ms[x].parent \in T
  BY <1>1, ReachesBySteps
<1>3. T \subseteq Category
  BY <1>1
<1>4. K \in 0 .. K /\ \A n \in 0 .. K : n <= K /\ reach[n] \subseteq T
  BY <1>1, <1>2
<1> HIDE DEF K
<1> DEFINE Paths == [T -> Seq(Nat \X Category)]
           Longer(g) == [x \in T |-> IF x = c THEN <<<<k, x>>>> ELSE Append(g[ms[x].parent], <<k, x>>)]
           none == [x \in T |-> <<>>]
           f == [z \in Nat \X Paths |-> Longer(z[2])]
<1>5. none \in Paths
  <2>1. <<>> \in Seq(Nat \X Category)
    OBVIOUS
  <2> QED BY <2>1
<1>6. ASSUME NEW g \in Paths
      PROVE  Longer(g) \in Paths
  <2>1. SUFFICES ASSUME NEW x \in T
                 PROVE  (IF x = c THEN <<<<k, x>>>> ELSE Append(g[ms[x].parent], <<k, x>>)) \in Seq(Nat \X Category)
    OBVIOUS
  <2>2. PICK e : e = <<k, x>>
    OBVIOUS
  <2>3. e \in Nat \X Category
    BY <1>3, <2>2
  <2>4. <<e>> \in Seq(Nat \X Category)
    BY <2>3
  <2>5. ASSUME x # c
        PROVE  Append(g[ms[x].parent], e) \in Seq(Nat \X Category)
    <3>1. g[ms[x].parent] \in Seq(Nat \X Category)
      BY <1>2, <2>5
    <3> QED BY <2>3, <3>1
  <2> QED BY <2>2, <2>4, <2>5
<1>7. f \in [Nat \X Paths -> Paths]
  <2> HIDE DEF Longer
  <2>1. \A z \in Nat \X Paths : z[2] \in Paths
    <3> HIDE DEF Paths
    <3> QED OBVIOUS
  <2> HIDE DEF Paths
  <2> QED BY <1>6, <2>1
<1>8. N \in Nat
  BY <1>2
<1>9. PICK F \in [0 .. N -> Paths] : Iterates(F, none, f, N)
  <2> HIDE DEF f, none, Paths, N
  <2> QED BY <1>5, <1>7, <1>8, IteratesExist
<1>10. \A n \in 1 .. N : F[n] = Longer(F[n - 1])
  <2>1. TAKE n \in 1 .. N
  <2>2. n \in 0 .. N /\ n # 0 /\ n - 1 \in 0 .. N /\ n \in Nat
    BY <1>8
  <2>3. F[n] = f[<<n, F[n - 1]>>]
    <3> HIDE DEF f, none, Paths, N
    <3> QED BY <1>9, <2>2 DEF Iterates
  <2>4. F[n - 1] \in Paths
    <3> HIDE DEF Paths, N
    <3> QED BY <2>2
  <2>5. <<n, F[n - 1]>> \in Nat \X Paths
    <3> HIDE DEF Paths
    <3> QED BY <2>2, <2>4
  <2>6. f[<<n, F[n - 1]>>] = Longer(F[n - 1])
    <3> HIDE DEF Longer, Paths
    <3> QED BY <2>5
  <2> QED BY <2>3, <2>6
<1>11. \A n \in 1 .. N : \A x \in T :
         F[n][x] = IF x = c THEN <<<<k, x>>>> ELSE Append(F[n - 1][ms[x].parent], <<k, x>>)
  BY <1>10
<1> HIDE DEF f, none, Paths, Longer
<1> DEFINE U == {n \in 0 .. K : \A x \in reach[n] : \A m \in (n + 1) .. N : F[m][x] = F[n + 1][x]}
<1>12. 0 .. K \subseteq U
  <2>1. 0 \in U
    <3>1. \A m \in (0 + 1) .. N : m \in 1 .. N
      OBVIOUS
    <3>2. 0 + 1 \in 1 .. N /\ 0 \in 0 .. K
      BY <1>2
    <3>3. c \in T
      BY <1>2, <1>4, <3>2
    <3> QED BY <1>2, <1>11, <3>1, <3>2, <3>3
  <2>2. ASSUME NEW n \in 0 .. K, n # K, n \in U
        PROVE  n + 1 \in U
    <3>1. n + 1 \in 1 .. K /\ n + 1 \in 0 .. K /\ (n + 1) - 1 = n
      BY <1>2, <2>2
    <3>2. SUFFICES ASSUME NEW x \in reach[n + 1], NEW m \in ((n + 1) + 1) .. N
                   PROVE  F[m][x] = F[(n + 1) + 1][x]
      BY <3>1
    <3>3. /\ m \in (n + 1) .. N /\ (n + 1) + 1 \in (n + 1) .. N /\ m \in 1 .. N /\ (n + 1) + 1 \in 1 .. N
          /\ m - 1 \in (n + 1) .. N /\ ((n + 1) + 1) - 1 = n + 1 /\ n + 1 \in (n + 1) .. N
      BY <1>2, <2>2, <3>2
    <3>4. CASE x \in reach[n]
      BY <2>2, <3>3, <3>4
    <3>5. CASE x \notin reach[n]
      <4>1. ms[x].parent \in reach[n]
        BY <1>2, <3>1, <3>5
      <4>2. x \in T /\ x # c
        <5>1. reach[0] \subseteq reach[n]
          BY <1>2, <2>2
        <5>2. x \in T
          BY <1>4, <3>1
        <5> QED BY <1>2, <3>5, <5>1, <5>2
      <4>3. F[m - 1][ms[x].parent] = F[n + 1][ms[x].parent]
        BY <2>2, <3>3, <4>1
      <4>4. /\ F[m][x] = Append(F[m - 1][ms[x].parent], <<k, x>>)
            /\ F[(n + 1) + 1][x] = Append(F[n + 1][ms[x].parent], <<k, x>>)
        BY <1>11, <3>3, <4>2
      <4> QED BY <4>3, <4>4
    <3> QED BY <3>4, <3>5
  <2> HIDE DEF U, N
  <2> QED BY <1>2, <2>1, <2>2, HoldsUpTo
<1>13. \A x \in T : F[N][x] = F[K + 1][x]
  <2>1. K \in 0 .. K /\ N \in (K + 1) .. N
    BY <1>2
  <2> QED BY <1>1, <1>12, <2>1
<1>14. PICK G : G = F[K + 1]
  OBVIOUS
<1>15. N \in 1 .. N /\ N - 1 = K + 1 /\ N \in 0 .. N /\ K + 1 \in 0 .. N
  BY <1>2
<1>16. \A x \in T : G[x] = IF x = c THEN <<<<k, x>>>> ELSE Append(G[ms[x].parent], <<k, x>>)
  BY <1>11, <1>13, <1>14, <1>15
<1>17. G = [x \in T |-> G[x]]
  <2>1. G \in Paths
    BY <1>14, <1>15
  <2> QED BY <2>1 DEF Paths
<1>18. CopyPaths(ms, c, T, k, G)
  BY <1>16, <1>17 DEF CopyPaths
<1> QED BY <1>1, <1>18 DEF K

\* What request k copies of c, with the paths G.
CopyOf(ms, c, k, G, x) ==
  [parent |-> IF x = c THEN Root ELSE <<k, ms[x].parent>>, path |-> G[x], depth |-> Len(G[x])]

LEMMA NumbersOfRequests ==
  ASSUME ClonesNumbered
  PROVE  Requests \in 0 .. MaxClones /\ {x[1] : x \in DOMAIN clones} = 1 .. Requests
<1>1. PICK n \in 0 .. MaxClones : {x[1] : x \in DOMAIN clones} = 1 .. n
  BY DEF ClonesNumbered
<1>2. n \in Nat
  BY TreeAssumption
<1>3. Cardinality(1 .. n) = n
  BY <1>2, FS_Interval
<1> QED BY <1>1, <1>3 DEF Requests

LEMMA CloneIs ==
  ASSUME TreeInv, ClonesNumbered, NEW c \in Category, Clone(c)
  PROVE  LET k == Requests + 1 IN
         /\ c \in DOMAIN master /\ k \in 1 .. MaxClones
         /\ \A y : <<k, y>> \notin DOMAIN clones
         /\ \E G : /\ CopyPaths(master, c, TreeOf(c), k, G)
                   /\ clones' = [x \in DOMAIN clones \cup {<<k, y>> : y \in TreeOf(c)} |->
                                   IF x \in DOMAIN clones THEN clones[x] ELSE CopyOf(master, c, k, G, x[2])]
<1>1. PICK k : k = Requests + 1
  OBVIOUS
<1>2. c \in DOMAIN master /\ Requests < MaxClones
  BY DEF Clone
<1>3. Requests \in 0 .. MaxClones /\ {x[1] : x \in DOMAIN clones} = 1 .. Requests
  BY NumbersOfRequests
<1>4. k \in 1 .. MaxClones /\ k \in Nat /\ k \notin 1 .. Requests
  BY <1>1, <1>2, <1>3, TreeAssumption
<1>5. ASSUME NEW y
      PROVE  <<k, y>> \notin DOMAIN clones
  <2>1. <<k, y>>[1] = k
    OBVIOUS
  <2> QED BY <1>3, <1>4, <2>1
<1> DEFINE h == CHOOSE path : CopyPaths(master, c, TreeOf(c), k, path)
<1>6. CopyPaths(master, c, TreeOf(c), k, h)
  <2>1. PICK ms, S : ms = master /\ S = Found(c)
    OBVIOUS
  <2>2. PICK reach : Reaches(ms, c, S, reach) /\ TreeOf(c) = reach[Cardinality(Category)]
    BY <2>1, TreeOfIs
  <2>3. c \in S
    BY <2>1 DEF Found
  <2>4. reach[Cardinality(Category)] \subseteq Category
    <3>1. TreeOf(c) \subseteq DOMAIN master
      BY <1>2, TreeOfHas
    <3> QED BY <2>2, <3>1 DEF TreeInv, RowsSound
  <2>5. \E G : CopyPaths(ms, c, reach[Cardinality(Category)], k, G)
    BY <1>4, <2>2, <2>3, <2>4, CopyPathsExist
  <2>6. \E G : CopyPaths(master, c, TreeOf(c), k, G)
    BY <2>1, <2>2, <2>5
  <2> QED BY <2>6
<1>7. clones' = [x \in DOMAIN clones \cup {<<k, y>> : y \in TreeOf(c)} |->
                   IF x \in DOMAIN clones THEN clones[x] ELSE CopyOf(master, c, k, h, x[2])]
  BY <1>1 DEF Clone, CopyPaths, CopyOf
<1> HIDE DEF h
<1>8. \E G : /\ CopyPaths(master, c, TreeOf(c), k, G)
             /\ clones' = [x \in DOMAIN clones \cup {<<k, y>> : y \in TreeOf(c)} |->
                             IF x \in DOMAIN clones THEN clones[x] ELSE CopyOf(master, c, k, G, x[2])]
  BY <1>6, <1>7
<1> QED BY <1>1, <1>2, <1>4, <1>5, <1>8

LEMMA CloneNumbered ==
  ASSUME TreeInv, ClonesNumbered, NEW c \in Category, Clone(c)
  PROVE  ClonesNumbered'
<1>1. PICK k : k = Requests + 1
  OBVIOUS
<1>2. c \in DOMAIN master /\ k \in 1 .. MaxClones
  BY <1>1, CloneIs
<1>3. DOMAIN clones' = DOMAIN clones \cup {<<k, y>> : y \in TreeOf(c)}
  <2>1. PICK G : clones' = [x \in DOMAIN clones \cup {<<k, y>> : y \in TreeOf(c)} |->
                              IF x \in DOMAIN clones THEN clones[x] ELSE CopyOf(master, c, k, G, x[2])]
    BY <1>1, CloneIs
  <2> QED BY <2>1
<1>4. c \in TreeOf(c) /\ TreeOf(c) \subseteq Category
  BY <1>2, TreeOfHas DEF TreeInv, RowsSound
<1>5. Requests \in 0 .. MaxClones /\ {x[1] : x \in DOMAIN clones} = 1 .. Requests
  BY NumbersOfRequests
<1>6. \A x \in DOMAIN clones' : x \in (1 .. MaxClones) \X Category
  <2>1. \A y \in TreeOf(c) : <<k, y>> \in (1 .. MaxClones) \X Category
    BY <1>2, <1>4
  <2> QED BY <1>3, <2>1 DEF ClonesNumbered
<1>7. {x[1] : x \in DOMAIN clones'} = 1 .. k
  <2>1. {x[1] : x \in DOMAIN clones'} = {x[1] : x \in DOMAIN clones} \cup {k}
    <3>1. \A y : <<k, y>>[1] = k
      OBVIOUS
    <3>2. <<k, c>> \in DOMAIN clones'
      BY <1>3, <1>4
    <3> QED BY <1>3, <3>1, <3>2
  <2>2. 1 .. k = (1 .. Requests) \cup {k}
    BY <1>1, <1>5
  <2> QED BY <1>5, <2>1, <2>2
<1>8. k \in 0 .. MaxClones
  BY <1>2, TreeAssumption
<1> QED BY <1>6, <1>7, <1>8 DEF ClonesNumbered

\* With nothing askew, what is below c through active categories is found.
LEMMA ReachedThroughActive ==
  ASSUME TreeInv, NEW c \in DOMAIN master, NEW y \in DOMAIN master,
         askew = {}, c \in Above(y),
         \A z \in Above(y) : c \in Above(z) /\ z # c => master[z].active
  PROVE  y \in TreeOf(c)
<1>1. PICK ms, S : ms = master /\ S = Found(c)
  OBVIOUS
<1>2. PICK reach : Reaches(ms, c, S, reach) /\ TreeOf(c) = reach[Cardinality(Category)]
  BY <1>1, TreeOfIs
<1>3. PICK p, N : p = ms[y].path /\ N = Len(p)
  OBVIOUS
<1>4. Straight(ms, {}) /\ RowsSound(ms)
  <2>1. Straight(master, askew)
    BY FollowsAre DEF TreeInv, Straight
  <2> QED BY <1>1, <2>1 DEF Straight
<1>5. Clear(ms, {}, y) /\ Clear(master, askew, y)
  BY <1>1 DEF Clear
<1>6. N \in Nat \ {0} /\ p[N] = y /\ DOMAIN p = 1 .. N
  BY <1>1, <1>3, <1>4, RowsAre
<1>7. N - 1 < Cardinality(Category) /\ \A i \in 1 .. N : ms[p[i]].parent = IF i = 1 THEN Root ELSE p[i - 1]
  BY <1>1, <1>3, <1>4, <1>5, ClearLineage DEF Lineage, ParentBefore
<1>8. Above(y) = {p[i] : i \in 1 .. N}
  <2>1. Above(y) = ToSet(master[y].path)
    BY <1>5, AboveIs
  <2> QED BY <1>1, <1>3, <1>6, <2>1 DEF ToSet
<1>9. PICK low \in 1 .. N : c = p[low]
  BY <1>8
<1>10. \A i \in 1 .. N : /\ p[i] \in DOMAIN ms /\ Len(ms[p[i]].path) = i
                         /\ \A j \in 1 .. i : ms[p[i]].path[j] = p[j]
  BY <1>1, <1>3, <1>4, <1>5, ClearLineage DEF Lineage, OnPath
<1>11. \A i \in 1 .. N : Above(p[i]) = {p[j] : j \in 1 .. i}
  <2>1. TAKE i \in 1 .. N
  <2>2. i \in 1 .. Len(master[y].path)
    BY <1>1, <1>3
  <2>3. Above(master[y].path[i]) = {master[y].path[j] : j \in 1 .. i}
    BY <1>5, <2>2, AboveOnPath
  <2> QED BY <1>1, <1>3, <2>3
<1>12. ASSUME NEW i \in 1 .. N, low < i
       PROVE  p[i] \in S
  <2>1. low \in 1 .. i /\ low \in 1 .. (i - 1) /\ i \in 1 .. N
    BY <1>6, <1>12
  <2>2. PICK x, s : x = p[i] /\ s = ms[x].path
    OBVIOUS
  <2>3. x \in DOMAIN ms /\ Len(s) = i /\ s[low] = c /\ s \in Seq(Category)
    BY <1>4, <1>9, <1>10, <2>1, <2>2, RowsAre
  <2>4. c \in ToSet(Front(s))
    <3>1. DOMAIN Front(s) = 1 .. (Len(s) - 1) /\ \A j \in 1 .. (Len(s) - 1) : Front(s)[j] = s[j]
      BY <2>3 DEF Front
    <3> QED BY <2>1, <2>3, <3>1 DEF ToSet
  <2>5. x \in Below(master, c)
    BY <1>1, <2>2, <2>3, <2>4 DEF Below
  <2>6. x # c
    <3>1. Len(ms[p[low]].path) = low
      BY <1>10
    <3> QED BY <1>6, <1>9, <1>12, <2>2, <2>3, <3>1
  <2>7. x \in Above(y) /\ c \in Above(x)
    BY <1>8, <1>9, <1>11, <2>1, <2>2
  <2>8. master[x].active
    BY <2>6, <2>7
  <2> QED BY <1>1, <2>2, <2>5, <2>8 DEF Found
<1>13. c \in S /\ Reaches(ms, c, S, reach)
  BY <1>1, <1>2 DEF Found
<1>14. PICK K : K = Cardinality(Category)
  OBVIOUS
<1>15. /\ K \in Nat /\ reach[0] = {c} /\ TreeOf(c) = reach[K] /\ N - 1 < K
       /\ \A n \in 1 .. K : reach[n] = reach[n - 1] \cup {x \in S : ms[x].parent \in reach[n - 1]}
       /\ \A n, m \in 0 .. K : n <= m => reach[n] \subseteq reach[m]
  <2>1. /\ Cardinality(Category) \in Nat /\ reach[0] = {c}
        /\ \A n \in 1 .. Cardinality(Category) :
             reach[n] = reach[n - 1] \cup {x \in S : ms[x].parent \in reach[n - 1]}
        /\ \A n, m \in 0 .. Cardinality(Category) : n <= m => reach[n] \subseteq reach[m]
        /\ \A x \in reach[Cardinality(Category)] \ {c} :
             x \in S /\ ms[x].parent \in reach[Cardinality(Category)]
    BY <1>13, ReachesBySteps
  <2> QED BY <1>2, <1>7, <1>14, <2>1
<1> DEFINE U == {n \in 0 .. (N - low) : p[low + n] \in reach[n]}
<1>16. 0 .. (N - low) \subseteq U
  <2>1. N - low \in Nat
    BY <1>6
  <2>2. 0 \in U
    <3>1. 0 \in 0 .. (N - low) /\ low + 0 = low
      BY <1>6
    <3> QED BY <1>9, <1>15, <3>1
  <2>3. ASSUME NEW n \in 0 .. (N - low), n # N - low, n \in U
        PROVE  n + 1 \in U
    <3>1. /\ n + 1 \in 0 .. (N - low) /\ n + 1 \in 1 .. K /\ (n + 1) - 1 = n
          /\ low + (n + 1) \in 1 .. N /\ low < low + (n + 1) /\ low + (n + 1) # 1
          /\ (low + (n + 1)) - 1 = low + n
      BY <1>6, <1>15, <2>3
    <3>2. p[low + (n + 1)] \in S
      BY <1>12, <3>1
    <3>3. ms[p[low + (n + 1)]].parent = p[low + n]
      BY <1>7, <3>1
    <3>4. p[low + n] \in reach[n]
      BY <2>3
    <3>5. reach[n + 1] = reach[n] \cup {x \in S : ms[x].parent \in reach[n]}
      BY <1>15, <3>1
    <3>6. p[low + (n + 1)] \in reach[n + 1]
      BY <3>2, <3>3, <3>4, <3>5
    <3> QED BY <3>1, <3>6
  <2> HIDE DEF U
  <2> QED BY <2>1, <2>2, <2>3, HoldsUpTo
<1>17. y \in reach[N - low]
  <2>1. N - low \in 0 .. (N - low) /\ low + (N - low) = N
    BY <1>6
  <2> QED BY <1>6, <1>16, <2>1
<1>18. reach[N - low] \subseteq reach[K]
  <2>1. N - low \in 0 .. K /\ K \in 0 .. K /\ N - low <= K
    BY <1>6, <1>15
  <2> QED BY <1>15, <2>1
<1> QED BY <1>15, <1>17, <1>18

\* What ClonesAreWhole says of a new copy.
CopyWhole(x) ==
  /\ clones'[x].parent = Root =>
       \A y \in DOMAIN master :
         /\ askew = {} /\ x[2] \in Above(y)
         /\ \A z \in Above(y) : x[2] \in Above(z) /\ z # x[2] => master[z].active
         => <<x[1], y>> \in DOMAIN clones'
  /\ clones'[x].parent # Root =>
       /\ clones'[x].parent = <<x[1], master[x[2]].parent>>
       /\ clones'[x].path = Append(clones'[clones'[x].parent].path, x)
       /\ master[x[2]].active

LEMMA CloneWhole ==
  ASSUME TreeInv, ClonesNumbered, NEW c \in Category, Clone(c), NEW x \in DOMAIN clones' \ DOMAIN clones
  PROVE  CopyWhole(x)
<1>1. PICK k : k = Requests + 1
  OBVIOUS
<1>2. c \in DOMAIN master /\ k \in 1 .. MaxClones /\ \A y : <<k, y>> \notin DOMAIN clones
  BY <1>1, CloneIs
<1>3. PICK G : /\ CopyPaths(master, c, TreeOf(c), k, G)
               /\ clones' = [z \in DOMAIN clones \cup {<<k, y>> : y \in TreeOf(c)} |->
                               IF z \in DOMAIN clones THEN clones[z] ELSE CopyOf(master, c, k, G, z[2])]
  BY <1>1, CloneIs
<1>4. c \in TreeOf(c) /\ TreeOf(c) \subseteq DOMAIN master
      /\ \A z \in TreeOf(c) \ {c} : master[z].active /\ master[z].parent \in TreeOf(c)
  BY <1>2, TreeOfHas
<1>5. \A y \in TreeOf(c) : <<k, y>> \in DOMAIN clones' /\ clones'[<<k, y>>] = CopyOf(master, c, k, G, y)
  <2>1. TAKE y \in TreeOf(c)
  <2>2. <<k, y>>[2] = y
    OBVIOUS
  <2> QED BY <1>2, <1>3, <2>2
<1>6. PICK y \in TreeOf(c) : x = <<k, y>>
  BY <1>3
<1>7. x[1] = k /\ x[2] = y /\ clones'[x] = CopyOf(master, c, k, G, y)
  BY <1>5, <1>6
<1>8. /\ CopyOf(master, c, k, G, y).parent = IF y = c THEN Root ELSE <<k, master[y].parent>>
      /\ \A z : CopyOf(master, c, k, G, z).path = G[z]
  BY DEF CopyOf
<1>9. CASE y = c
  <2>1. clones'[x].parent = Root
    BY <1>7, <1>8, <1>9
  <2>2. ASSUME NEW z \in DOMAIN master, askew = {}, c \in Above(z),
               \A w \in Above(z) : c \in Above(w) /\ w # c => master[w].active
        PROVE  <<k, z>> \in DOMAIN clones'
    <3>1. z \in TreeOf(c)
      BY <1>2, <2>2, ReachedThroughActive
    <3> QED BY <1>5, <3>1
  <2> QED BY <1>7, <1>9, <2>1, <2>2 DEF CopyWhole
<1>10. CASE y # c
  <2>1. PICK q : q = master[y].parent
    OBVIOUS
  <2>2. q \in TreeOf(c) /\ master[y].active
    BY <1>4, <1>10, <2>1
  <2>3. clones'[x].parent = <<k, q>>
    BY <1>7, <1>8, <1>10, <2>1
  <2>4. <<k, q>> # Root
    <3>1. q \in Category /\ k \in Nat
      BY <1>2, <1>4, <2>2 DEF TreeInv, RowsSound
    <3> QED BY <3>1, TreeAssumption
  <2>5. clones'[x].path = G[y] /\ clones'[<<k, q>>].path = G[q]
    BY <1>5, <1>7, <1>8, <2>2
  <2>6. G[y] = Append(G[q], <<k, y>>)
    BY <1>3, <1>10, <2>1 DEF CopyPaths
  <2>7. clones'[x].path = Append(clones'[clones'[x].parent].path, x)
    BY <1>6, <2>3, <2>5, <2>6
  <2> QED BY <1>7, <2>1, <2>2, <2>3, <2>4, <2>7 DEF CopyWhole
<1> QED BY <1>9, <1>10

LEMMA TreeNextNumbered ==
  ASSUME TreeInv, ClonesNumbered, [TreeNext]_treeVars
  PROVE  /\ ClonesNumbered'
         /\ \A x \in DOMAIN clones' \ DOMAIN clones : CopyWhole(x)
<1>1. CASE clones' = clones
  BY <1>1 DEF ClonesNumbered
<1>2. ASSUME NEW c \in Category, Clone(c)
      PROVE  /\ ClonesNumbered'
             /\ \A x \in DOMAIN clones' \ DOMAIN clones : CopyWhole(x)
  BY <1>2, CloneNumbered, CloneWhole
<1>3. ASSUME NEW c \in Category, NEW p \in Category \cup {Root}, CreateMaster(c, p) \/ MoveMaster(c, p)
      PROVE  clones' = clones
  BY <1>3 DEF CreateMaster, MoveMaster
<1>4. ASSUME NEW c \in Category, SwitchMaster(c)
      PROVE  clones' = clones
  BY <1>4 DEF SwitchMaster
<1>5. UNCHANGED treeVars => clones' = clones
  BY DEF treeVars
<1> QED BY <1>1, <1>2, <1>3, <1>4, <1>5 DEF TreeNext

LEMMA InitClones == TreeInit => ClonesNumbered
<1> SUFFICES ASSUME TreeInit
             PROVE  ClonesNumbered
  OBVIOUS
<1>1. DOMAIN clones = {}
  BY DEF TreeInit
<1>2. 0 \in 0 .. MaxClones /\ {x[1] : x \in DOMAIN clones} = 1 .. 0
  BY <1>1, TreeAssumption
<1> QED BY <1>1, <1>2 DEF ClonesNumbered

\* A copy of a part of the master tree has the shape of the master tree and is
\* whole, unless a category is askew (clone_top_level_cat).
THEOREM ClonesStayWhole == TreeInit /\ [][TreeNext]_treeVars => ClonesAreWhole
<1>1. TreeInit => TreeInv /\ ClonesNumbered
  BY InitTree, InitClones
<1>2. TreeInv /\ ClonesNumbered /\ [TreeNext]_treeVars => (TreeInv /\ ClonesNumbered)'
  BY TreeNextInv, TreeNextNumbered
<1>3. TreeInv /\ ClonesNumbered /\ [TreeNext]_treeVars =>
        [\A x \in DOMAIN clones' \ DOMAIN clones : CopyWhole(x)]_treeVars
  BY TreeNextNumbered
<1> QED BY <1>1, <1>2, <1>3, PTL DEF ClonesAreWhole, CopyWhole

-----------------------------------------------------------------------------
(* The rows of policies.                                                   *)

LEMMA ProductIs ==
  ASSUME NEW P \in [Provider -> Nat], NEW C \in [Category -> Nat]
  PROVE  /\ Product(P, C) \in [Provider \X Category -> Nat]
         /\ \A p \in Provider, c \in Category : Product(P, C)[<<p, c>>] > 0 <=> P[p] > 0 /\ C[c] > 0
<1>1. \A a, b \in Nat : a * b \in Nat /\ (a * b > 0 <=> a > 0 /\ b > 0)
  OBVIOUS
<1>2. \A x \in Provider \X Category : x[1] \in Provider /\ x[2] \in Category
  OBVIOUS
<1>3. Product(P, C) = [x \in Provider \X Category |-> P[x[1]] * C[x[2]]]
  BY DEF Product
<1>4. \A x \in Provider \X Category : P[x[1]] \in Nat /\ C[x[2]] \in Nat
  BY <1>2
<1>5. Product(P, C) \in [Provider \X Category -> Nat]
  BY <1>1, <1>3, <1>4
<1>6. ASSUME NEW p \in Provider, NEW c \in Category
      PROVE  Product(P, C)[<<p, c>>] > 0 <=> P[p] > 0 /\ C[c] > 0
  <2>1. <<p, c>> \in Provider \X Category /\ <<p, c>>[1] = p /\ <<p, c>>[2] = c
    OBVIOUS
  <2>2. Product(P, C)[<<p, c>>] = P[p] * C[c]
    BY <1>3, <2>1
  <2> QED BY <1>1, <2>2
<1> QED BY <1>5, <1>6

LEMMA ListedIs ==
  ASSUME NEW S, NEW T
  PROVE  /\ Listed(S, T) \in [T -> Nat] /\ \A x \in T : Listed(S, T)[x] \in {0, 1}
         /\ \A x \in T : Listed(S, T)[x] > 0 <=> x \in S
BY DEF Listed

\* Those of the elements of T that a set of rows has, by places.
LEMMA SomeRow ==
  ASSUME NEW R \in SUBSET ((Provider \X Category) \X (1 .. MaxRows))
  PROVE  Cardinality(R) \in Nat /\ (Cardinality(R) > 0 <=> R # {})
<1>1. IsFiniteSet(Provider) /\ IsFiniteSet(Category) /\ IsFiniteSet(1 .. MaxRows)
  BY PolicyAssumption, TreeAssumption, FS_Interval
<1>2. IsFiniteSet((Provider \X Category) \X (1 .. MaxRows))
  BY <1>1, FS_Product
<1>3. IsFiniteSet(R)
  BY <1>2, FS_Subset
<1>4. Cardinality(R) \in Nat
  BY <1>3, FS_CardinalityType
<1>5. Cardinality(R) = 0 <=> R = {}
  BY <1>3, FS_EmptySet
<1> QED BY <1>4, <1>5

LEMMA RowsOfPolicy ==
  ASSUME PolicyTypes, NEW q \in Policy
  PROVE  /\ ProvidersOf(q) \in [Provider -> Nat] /\ CategoriesOf(q) \in [Category -> Nat]
         /\ \A p \in Provider : ProvidersOf(q)[p] > 0 <=> \E c \in Category : rows[q][<<p, c>>] > 0
         /\ \A c \in Category : CategoriesOf(q)[c] > 0 <=> \E p \in Provider : rows[q][<<p, c>>] > 0
<1>1. PICK r : r = rows[q]
  OBVIOUS
<1>2. r \in [Provider \X Category -> 0 .. MaxRows] /\ MaxRows \in Nat
  BY <1>1, PolicyAssumption DEF PolicyTypes
<1> DEFINE R == {x \in (Provider \X Category) \X (1 .. MaxRows) : x[2] <= r[x[1]]}
<1>3. RowsOf(q) = R
  BY <1>1 DEF RowsOf
<1>4. \A p \in Provider, c \in Category :
        r[<<p, c>>] > 0 <=> \E n \in 1 .. MaxRows : <<<<p, c>>, n>> \in R
  <2>1. SUFFICES ASSUME NEW p \in Provider, NEW c \in Category
                 PROVE  r[<<p, c>>] > 0 <=> \E n \in 1 .. MaxRows : <<<<p, c>>, n>> \in R
    OBVIOUS
  <2>2. PICK z : z = <<p, c>>
    OBVIOUS
  <2>3. z \in Provider \X Category /\ r[z] \in 0 .. MaxRows
    BY <1>2, <2>2
  <2>4. \A n \in 1 .. MaxRows : <<z, n>> \in R <=> n <= r[z]
    <3>1. TAKE n \in 1 .. MaxRows
    <3>2. <<z, n>> \in (Provider \X Category) \X (1 .. MaxRows) /\ <<z, n>>[1] = z /\ <<z, n>>[2] = n
      BY <2>3
    <3> QED BY <3>2
  <2>5. r[z] > 0 => 1 \in 1 .. MaxRows /\ 1 <= r[z]
    BY <1>2, <2>3
  <2>6. (\E n \in 1 .. MaxRows : n <= r[z]) => r[z] > 0
    BY <1>2, <2>3
  <2> HIDE DEF R
  <2> QED BY <2>2, <2>4, <2>5, <2>6
<1>5. \A x \in R : \E p \in Provider, c \in Category, n \in 1 .. MaxRows :
        x = <<<<p, c>>, n>> /\ x[1][1] = p /\ x[1][2] = c
  <2>1. TAKE x \in R
  <2>2. PICK z \in Provider \X Category, n \in 1 .. MaxRows : x = <<z, n>>
    OBVIOUS
  <2>3. PICK p \in Provider, c \in Category : z = <<p, c>>
    OBVIOUS
  <2>4. z[1] = p /\ z[2] = c /\ x[1] = z
    BY <2>2, <2>3
  <2> QED BY <2>2, <2>3, <2>4
<1>6. \A p \in Provider, c \in Category : \A n : <<<<p, c>>, n>>[1][1] = p /\ <<<<p, c>>, n>>[1][2] = c
  OBVIOUS
<1>7. R \subseteq (Provider \X Category) \X (1 .. MaxRows)
  OBVIOUS
<1> HIDE DEF R
<1>8. ASSUME NEW p \in Provider
      PROVE  /\ Cardinality({x \in R : x[1][1] = p}) \in Nat
             /\ Cardinality({x \in R : x[1][1] = p}) > 0 <=> \E c \in Category : r[<<p, c>>] > 0
  <2>1. PICK Q : Q = {x \in R : x[1][1] = p}
    OBVIOUS
  <2>2. Cardinality(Q) \in Nat /\ (Cardinality(Q) > 0 <=> Q # {})
    BY <1>7, <2>1, SomeRow
  <2>3. Q # {} <=> \E c \in Category : r[<<p, c>>] > 0
    <3>1. ASSUME NEW x \in Q
          PROVE  \E c \in Category : r[<<p, c>>] > 0
      <4>1. x \in R /\ x[1][1] = p
        BY <2>1
      <4>2. PICK c \in Category, n \in 1 .. MaxRows : x = <<<<p, c>>, n>>
        BY <1>5, <4>1
      <4> QED BY <1>4, <4>1, <4>2
    <3>2. ASSUME NEW c \in Category, r[<<p, c>>] > 0
          PROVE  Q # {}
      <4>1. PICK n \in 1 .. MaxRows : <<<<p, c>>, n>> \in R
        BY <1>4, <3>2
      <4> QED BY <1>6, <2>1, <4>1
    <3> QED BY <3>1, <3>2
  <2> QED BY <2>1, <2>2, <2>3
<1>9. ASSUME NEW c \in Category
      PROVE  /\ Cardinality({x \in R : x[1][2] = c}) \in Nat
             /\ Cardinality({x \in R : x[1][2] = c}) > 0 <=> \E p \in Provider : r[<<p, c>>] > 0
  <2>1. PICK Q : Q = {x \in R : x[1][2] = c}
    OBVIOUS
  <2>2. Cardinality(Q) \in Nat /\ (Cardinality(Q) > 0 <=> Q # {})
    BY <1>7, <2>1, SomeRow
  <2>3. Q # {} <=> \E p \in Provider : r[<<p, c>>] > 0
    <3>1. ASSUME NEW x \in Q
          PROVE  \E p \in Provider : r[<<p, c>>] > 0
      <4>1. x \in R /\ x[1][2] = c
        BY <2>1
      <4>2. PICK p \in Provider, n \in 1 .. MaxRows : x = <<<<p, c>>, n>>
        BY <1>5, <4>1
      <4> QED BY <1>4, <4>1, <4>2
    <3>2. ASSUME NEW p \in Provider, r[<<p, c>>] > 0
          PROVE  Q # {}
      <4>1. PICK n \in 1 .. MaxRows : <<<<p, c>>, n>> \in R
        BY <1>4, <3>2
      <4> QED BY <1>6, <2>1, <4>1
    <3> QED BY <3>1, <3>2
  <2> QED BY <2>1, <2>2, <2>3
<1>10. /\ ProvidersOf(q) = [p \in Provider |-> Cardinality({x \in R : x[1][1] = p})]
       /\ CategoriesOf(q) = [c \in Category |-> Cardinality({x \in R : x[1][2] = c})]
  BY <1>3 DEF ProvidersOf, CategoriesOf
<1> QED BY <1>1, <1>8, <1>9, <1>10


LEMMA ProductCovers ==
  ASSUME NEW P \in [Provider -> Nat], NEW C \in [Category -> Nat],
         NEW ps \in SUBSET Provider, NEW cs \in SUBSET Category,
         \A p \in Provider : P[p] > 0 <=> p \in ps,
         \A c \in Category : C[c] > 0 <=> c \in cs
  PROVE  {x \in Provider \X Category : Product(P, C)[x] > 0} = ps \X cs
<1>1. PICK new : new = Product(P, C)
  OBVIOUS
<1>2. \A p \in Provider, c \in Category : new[<<p, c>>] > 0 <=> p \in ps /\ c \in cs
  BY <1>1, ProductIs
<1>3. \A x \in Provider \X Category : new[x] > 0 <=> x \in ps \X cs
  <2>1. TAKE x \in Provider \X Category
  <2>2. PICK p \in Provider, c \in Category : x = <<p, c>>
    OBVIOUS
  <2>3. x \in ps \X cs <=> p \in ps /\ c \in cs
    BY <2>2
  <2> QED BY <1>2, <2>2, <2>3
<1>4. ps \X cs \subseteq Provider \X Category
  OBVIOUS
<1> QED BY <1>1, <1>3, <1>4

\* Rows that cover exactly the pairs of ps and cs.
Covering(row, ps, cs) ==
  /\ row \in [Provider \X Category -> Nat]
  /\ {x \in Provider \X Category : row[x] > 0} = ps \X cs

\* What a policy covers after an update that names ps and cs.
LEMMA ReplacedCovers ==
  ASSUME PolicyTypes, AskedOK, CoversWhatWasAsked,
         NEW q \in DOMAIN policies, NEW ps \in SUBSET Provider, NEW cs \in SUBSET Category
  PROVE  Covering(Replaced(q, ps, cs),
                  IF ps = {} THEN asked[q].providers ELSE ps,
                  IF cs = {} THEN asked[q].categories ELSE cs)
<1>1. PICK r, ap, ac : r = rows[q] /\ ap = asked[q].providers /\ ac = asked[q].categories
  OBVIOUS
<1>2. q \in Policy /\ r \in [Provider \X Category -> 0 .. MaxRows]
  BY <1>1 DEF PolicyTypes
<1>3. ap \in (SUBSET Provider) \ {{}} /\ ac \in (SUBSET Category) \ {{}}
  BY <1>1 DEF AskedOK
<1>4. {x \in Provider \X Category : r[x] > 0} = ap \X ac
  <2>1. {x \in DOMAIN r : r[x] > 0} = ap \X ac
    BY <1>1 DEF CoversWhatWasAsked
  <2>2. DOMAIN r = Provider \X Category
    BY <1>2
  <2> QED BY <2>1, <2>2
<1>5. \A p \in Provider, c \in Category : r[<<p, c>>] > 0 <=> p \in ap /\ c \in ac
  <2>1. TAKE p \in Provider, c \in Category
  <2>2. PICK z : z = <<p, c>>
    OBVIOUS
  <2>3. z \in Provider \X Category /\ (z \in ap \X ac <=> p \in ap /\ c \in ac)
    BY <2>2
  <2> QED BY <1>4, <2>2, <2>3
<1>6. /\ ProvidersOf(q) \in [Provider -> Nat] /\ CategoriesOf(q) \in [Category -> Nat]
      /\ \A p \in Provider : ProvidersOf(q)[p] > 0 <=> \E c \in Category : r[<<p, c>>] > 0
      /\ \A c \in Category : CategoriesOf(q)[c] > 0 <=> \E p \in Provider : r[<<p, c>>] > 0
  BY <1>1, <1>2, RowsOfPolicy
<1>7. \A p \in Provider : ProvidersOf(q)[p] > 0 <=> p \in ap
  <2>1. PICK c \in Category : c \in ac
    BY <1>3
  <2> QED BY <1>5, <1>6, <2>1
<1>8. \A c \in Category : CategoriesOf(q)[c] > 0 <=> c \in ac
  <2>1. PICK p \in Provider : p \in ap
    BY <1>3
  <2> QED BY <1>5, <1>6, <2>1
<1>9. PICK P, C : /\ P = IF ps = {} THEN ProvidersOf(q) ELSE Listed(ps, Provider)
                  /\ C = IF cs = {} THEN CategoriesOf(q) ELSE Listed(cs, Category)
  OBVIOUS
<1>10. PICK wp, wc : /\ wp = IF ps = {} THEN ap ELSE ps
                     /\ wc = IF cs = {} THEN ac ELSE cs
  OBVIOUS
<1>11. wp \in SUBSET Provider /\ wc \in SUBSET Category
  BY <1>3, <1>10
<1>12. P \in [Provider -> Nat] /\ \A p \in Provider : P[p] > 0 <=> p \in wp
  BY <1>6, <1>7, <1>9, <1>10, ListedIs
<1>13. C \in [Category -> Nat] /\ \A c \in Category : C[c] > 0 <=> c \in wc
  BY <1>6, <1>8, <1>9, <1>10, ListedIs
<1>14. Replaced(q, ps, cs) = Product(P, C)
  BY <1>9 DEF Replaced
<1>15. Product(P, C) \in [Provider \X Category -> Nat]
  BY <1>12, <1>13, ProductIs
<1>16. {x \in Provider \X Category : Product(P, C)[x] > 0} = wp \X wc
  BY <1>11, <1>12, <1>13, ProductCovers
<1>17. Covering(Product(P, C), wp, wc)
  BY <1>15, <1>16 DEF Covering
<1> QED BY <1>1, <1>10, <1>14, <1>17, Zenon

-----------------------------------------------------------------------------
(* Requests that change policies.                                          *)

\* A policy q whose rows, type and request are replaced at once.
LEMMA PolicyReplaced ==
  ASSUME PolicyInv, NEW q \in Policy, NEW row \in [Provider \X Category -> 0 .. MaxRows],
         NEW wp \in (SUBSET Provider) \ {{}}, NEW wc \in (SUBSET Category) \ {{}},
         NEW policy \in [type : ShippingType, active : BOOLEAN],
         {x \in Provider \X Category : row[x] > 0} = wp \X wc,
         policies' = [x \in DOMAIN policies \cup {q} |-> IF x = q THEN policy ELSE policies[x]],
         rows' = [rows EXCEPT ![q] = row],
         asked' = [asked EXCEPT ![q] = [providers |-> wp, categories |-> wc]],
         Change
  PROVE  PolicyTypes' /\ AskedOK' /\ CoversWhatWasAsked'
<1>1. /\ rows \in [Policy -> [Provider \X Category -> 0 .. MaxRows]]
      /\ asked \in [Policy -> [providers : SUBSET Provider, categories : SUBSET Category]]
      /\ DOMAIN policies \subseteq Policy /\ changes \in 0 .. MaxChanges
      /\ \A x \in DOMAIN policies : policies[x] \in [type : ShippingType, active : BOOLEAN]
  BY DEF PolicyInv, PolicyTypes, AskedOK
<1>2. PICK ps, rs, as : ps = policies' /\ rs = rows' /\ as = asked'
  OBVIOUS
<1>3. /\ DOMAIN ps = DOMAIN policies \cup {q} /\ ps[q] = policy
      /\ \A x \in DOMAIN policies : x # q => ps[x] = policies[x]
  BY <1>2
<1>4. /\ rs \in [Policy -> [Provider \X Category -> 0 .. MaxRows]] /\ rs[q] = row
      /\ \A x \in Policy : x # q => rs[x] = rows[x]
  BY <1>1, <1>2
<1>5. /\ as \in [Policy -> [providers : SUBSET Provider, categories : SUBSET Category]]
      /\ as[q].providers = wp /\ as[q].categories = wc
      /\ \A x \in Policy : x # q => as[x] = asked[x]
  BY <1>1, <1>2
<1>6. changes' \in 0 .. MaxChanges
  BY <1>1, PolicyAssumption DEF Change
<1>7. PolicyTypes'
  <2>1. ps = [x \in DOMAIN ps |-> ps[x]]
    BY <1>2
  <2>2. DOMAIN ps \subseteq Policy
    BY <1>1, <1>3
  <2>3. \A x \in DOMAIN ps : ps[x] \in [type : ShippingType, active : BOOLEAN]
    BY <1>1, <1>3
  <2> QED BY <1>2, <1>4, <1>6, <2>1, <2>2, <2>3 DEF PolicyTypes
<1>8. AskedOK'
  <2>1. \A x \in DOMAIN ps : /\ as[x].providers \in (SUBSET Provider) \ {{}}
                             /\ as[x].categories \in (SUBSET Category) \ {{}}
    <3>1. TAKE x \in DOMAIN ps
    <3>2. CASE x = q
      BY <1>5, <3>2
    <3>3. CASE x # q
      <4>1. x \in DOMAIN policies /\ as[x] = asked[x]
        BY <1>1, <1>3, <1>5, <3>3
      <4> QED BY <4>1 DEF PolicyInv, AskedOK
    <3> QED BY <3>2, <3>3
  <2> QED BY <1>2, <1>5, <2>1 DEF AskedOK
<1>9. CoversWhatWasAsked'
  <2>1. ASSUME NEW x \in DOMAIN ps
        PROVE  {y \in DOMAIN rs[x] : rs[x][y] > 0} = as[x].providers \X as[x].categories
    <3>1. CASE x = q
      <4>1. DOMAIN row = Provider \X Category
        OBVIOUS
      <4> QED BY <1>4, <1>5, <3>1, <4>1
    <3>2. CASE x # q
      <4>1. x \in DOMAIN policies /\ as[x] = asked[x] /\ rs[x] = rows[x]
        BY <1>1, <1>3, <1>4, <1>5, <3>2
      <4> QED BY <4>1 DEF PolicyInv, CoversWhatWasAsked
    <3> QED BY <3>1, <3>2
  <2> QED BY <1>2, <2>1 DEF CoversWhatWasAsked
<1> QED BY <1>7, <1>8, <1>9

LEMMA CreatePolicyInv ==
  ASSUME PolicyInv, NEW q \in Policy, NEW ps \in (SUBSET Provider) \ {{}},
         NEW cs \in (SUBSET Category) \ {{}}, NEW type \in ShippingType,
         CreatePolicy(q, ps, cs, type)
  PROVE  PolicyTypes' /\ AskedOK' /\ CoversWhatWasAsked'
<1>1. PICK P, C : P = Listed(ps, Provider) /\ C = Listed(cs, Category)
  OBVIOUS
<1>2. /\ P \in [Provider -> Nat] /\ \A p \in Provider : P[p] \in {0, 1}
      /\ \A p \in Provider : P[p] > 0 <=> p \in ps
  BY <1>1, ListedIs
<1>3. /\ C \in [Category -> Nat] /\ \A c \in Category : C[c] \in {0, 1}
      /\ \A c \in Category : C[c] > 0 <=> c \in cs
  BY <1>1, ListedIs
<1>4. PICK row : row = Product(P, C)
  OBVIOUS
<1>5. row \in [Provider \X Category -> 0 .. MaxRows]
  <2>1. row = [x \in Provider \X Category |-> P[x[1]] * C[x[2]]]
    BY <1>4 DEF Product
  <2>2. \A x \in Provider \X Category : P[x[1]] \in {0, 1} /\ C[x[2]] \in {0, 1}
    BY <1>2, <1>3
  <2>3. \A a, b \in {0, 1} : a * b \in 0 .. MaxRows
    BY PolicyAssumption
  <2> QED BY <2>1, <2>2, <2>3
<1>6. {x \in Provider \X Category : row[x] > 0} = ps \X cs
  BY <1>2, <1>3, <1>4, ProductCovers
<1>7. PICK policy : policy = [type |-> type, active |-> TRUE]
  OBVIOUS
<1>8. policy \in [type : ShippingType, active : BOOLEAN]
  BY <1>7
<1>9. /\ policies' = [x \in DOMAIN policies \cup {q} |-> IF x = q THEN policy ELSE policies[x]]
      /\ rows' = [rows EXCEPT ![q] = row]
      /\ asked' = [asked EXCEPT ![q] = [providers |-> ps, categories |-> cs]]
      /\ Change
  BY <1>1, <1>4, <1>7 DEF CreatePolicy
<1> QED BY <1>5, <1>6, <1>8, <1>9, PolicyReplaced

LEMMA UpdatePolicyInv ==
  ASSUME PolicyInv, NEW q \in Policy, NEW ps \in SUBSET Provider,
         NEW cs \in SUBSET Category, NEW type \in ShippingType, NEW active \in BOOLEAN,
         UpdatePolicy(q, ps, cs, type, active)
  PROVE  PolicyTypes' /\ AskedOK' /\ CoversWhatWasAsked'
<1>1. q \in DOMAIN policies
  BY DEF UpdatePolicy
<1>2. PICK row : row = Replaced(q, ps, cs)
  OBVIOUS
<1>3. PICK wp, wc : /\ wp = IF ps = {} THEN asked[q].providers ELSE ps
                    /\ wc = IF cs = {} THEN asked[q].categories ELSE cs
  OBVIOUS
<1>4. wp \in (SUBSET Provider) \ {{}} /\ wc \in (SUBSET Category) \ {{}}
  BY <1>1, <1>3 DEF PolicyInv, AskedOK
<1>5. /\ row \in [Provider \X Category -> Nat]
      /\ {x \in Provider \X Category : row[x] > 0} = wp \X wc
  <2>1. PolicyTypes /\ AskedOK /\ CoversWhatWasAsked
    BY DEF PolicyInv
  <2>2. Covering(Replaced(q, ps, cs),
                 IF ps = {} THEN asked[q].providers ELSE ps,
                 IF cs = {} THEN asked[q].categories ELSE cs)
    BY <1>1, <2>1, ReplacedCovers, Zenon
  <2>3. Covering(row, wp, wc)
    BY <1>2, <1>3, <2>2, Zenon
  <2> QED BY <2>3 DEF Covering
<1>6. row \in [Provider \X Category -> 0 .. MaxRows]
  <2>1. \A x \in Provider \X Category : row[x] <= MaxRows
    BY <1>2, <1>5 DEF UpdatePolicy
  <2> QED BY <1>5, <2>1, PolicyAssumption
<1>7. PICK policy : policy = [type |-> type, active |-> active]
  OBVIOUS
<1>8. policy \in [type : ShippingType, active : BOOLEAN]
  BY <1>7
<1>9. policies' = [x \in DOMAIN policies \cup {q} |-> IF x = q THEN policy ELSE policies[x]]
  <2>1. policies' = [policies EXCEPT ![q] = policy]
    BY <1>7 DEF UpdatePolicy
  <2>2. DOMAIN policies \cup {q} = DOMAIN policies
    BY <1>1
  <2> QED BY <2>1, <2>2
<1>10. rows' = [rows EXCEPT ![q] = row] /\ Change
  BY <1>2 DEF UpdatePolicy
<1>11. asked' = [asked EXCEPT ![q] = [providers |-> wp, categories |-> wc]]
  <2>1. asked \in [Policy -> [providers : SUBSET Provider, categories : SUBSET Category]]
    BY DEF PolicyInv, AskedOK
  <2>2. asked' = [asked EXCEPT
          ![q].providers  = IF ps = {} THEN @ ELSE ps,
          ![q].categories = IF cs = {} THEN @ ELSE cs]
    BY DEF UpdatePolicy
  <2>3. PICK a : a = asked[q]
    OBVIOUS
  <2>4. a \in [providers : SUBSET Provider, categories : SUBSET Category]
    BY <2>1, <2>3
  <2>5. [[a EXCEPT !.providers = wp] EXCEPT !.categories = wc] = [providers |-> wp, categories |-> wc]
    <3>1. PICK ap, ac : a = [providers |-> ap, categories |-> ac]
      BY <2>4
    <3>2. [a EXCEPT !.providers = wp] = [providers |-> wp, categories |-> ac]
      BY <3>1
    <3>3. [[providers |-> wp, categories |-> ac] EXCEPT !.categories = wc] = [providers |-> wp, categories |-> wc]
      OBVIOUS
    <3> QED BY <3>2, <3>3
  <2>6. asked' = [asked EXCEPT ![q] = [[a EXCEPT !.providers = wp] EXCEPT !.categories = wc]]
    BY <1>3, <2>1, <2>2, <2>3
  <2> QED BY <2>5, <2>6
<1> QED BY <1>4, <1>5, <1>6, <1>8, <1>9, <1>10, <1>11, PolicyReplaced

LEMMA TreeNextWrites ==
  ASSUME writes \in 0 .. MaxWrites, [TreeNext]_treeVars
  PROVE  writes' \in 0 .. MaxWrites
<1>1. Write => writes' \in 0 .. MaxWrites
  BY TreeAssumption DEF Write
<1>2. writes' = writes => writes' \in 0 .. MaxWrites
  OBVIOUS
<1>3. ASSUME NEW c \in Category, NEW p \in Category \cup {Root}, CreateMaster(c, p) \/ MoveMaster(c, p)
      PROVE  Write
  BY <1>3 DEF CreateMaster, MoveMaster
<1>4. ASSUME NEW c \in Category, SwitchMaster(c)
      PROVE  Write
  BY <1>4 DEF SwitchMaster
<1>5. ASSUME NEW c \in Category, Clone(c)
      PROVE  writes' = writes
  BY <1>5 DEF Clone
<1>6. UNCHANGED treeVars => writes' = writes
  BY DEF treeVars
<1> QED BY <1>1, <1>2, <1>3, <1>4, <1>5, <1>6 DEF TreeNext

LEMMA InitPolicy == Init => PolicyInv
<1> SUFFICES ASSUME Init
             PROVE  PolicyInv
  OBVIOUS
<1>1. TreeInv /\ ClonesNumbered
  BY InitTree, InitClones DEF Init
<1>2. writes \in 0 .. MaxWrites
  BY TreeAssumption DEF Init, TreeInit
<1>3. DOMAIN policies = {} /\ policies = [q \in DOMAIN policies |-> policies[q]]
  BY DEF Init, PolicyInit
<1>4. rows \in [Policy -> [Provider \X Category -> 0 .. MaxRows]]
  BY PolicyAssumption DEF Init, PolicyInit, NoRows
<1>5. asked \in [Policy -> [providers : SUBSET Provider, categories : SUBSET Category]]
  BY DEF Init, PolicyInit
<1>6. changes \in 0 .. MaxChanges
  BY PolicyAssumption DEF Init, PolicyInit
<1> QED BY <1>1, <1>2, <1>3, <1>4, <1>5, <1>6
        DEF PolicyInv, PolicyTypes, AskedOK, CoversWhatWasAsked

LEMMA PolicyNextInv == PolicyInv /\ [Next]_allVars => PolicyInv'
<1> SUFFICES ASSUME PolicyInv, [Next]_allVars
             PROVE  PolicyInv'
  OBVIOUS
<1>1. /\ TreeInv /\ ClonesNumbered /\ writes \in 0 .. MaxWrites
      /\ PolicyTypes /\ AskedOK /\ CoversWhatWasAsked
  BY DEF PolicyInv
<1>2. [TreeNext]_treeVars
  BY DEF Next, allVars
<1>3. TreeInv' /\ ClonesNumbered' /\ writes' \in 0 .. MaxWrites
  BY <1>1, <1>2, TreeNextInv, TreeNextNumbered, TreeNextWrites
<1>4. CASE UNCHANGED policyVars
  <2>1. PolicyTypes'
    BY <1>1, <1>4 DEF PolicyTypes, policyVars
  <2>2. AskedOK'
    BY <1>1, <1>4 DEF AskedOK, policyVars
  <2>3. CoversWhatWasAsked'
    BY <1>1, <1>4 DEF CoversWhatWasAsked, policyVars
  <2> QED BY <1>3, <2>1, <2>2, <2>3 DEF PolicyInv
<1>5. CASE PolicyNext
  <2>1. PICK q \in Policy, ps \in SUBSET Provider, cs \in SUBSET Category, type \in ShippingType :
          \/ ps # {} /\ cs # {} /\ cs \subseteq DOMAIN master /\ CreatePolicy(q, ps, cs, type)
          \/ cs \subseteq DOMAIN master /\ \E active \in BOOLEAN : UpdatePolicy(q, ps, cs, type, active)
    BY <1>5 DEF PolicyNext
  <2>2. CASE ps # {} /\ cs # {} /\ CreatePolicy(q, ps, cs, type)
    <3>1. PolicyTypes' /\ AskedOK' /\ CoversWhatWasAsked'
      BY <2>2, CreatePolicyInv
    <3> QED BY <1>3, <3>1 DEF PolicyInv
  <2>3. ASSUME NEW active \in BOOLEAN, UpdatePolicy(q, ps, cs, type, active)
        PROVE  PolicyInv'
    <3>1. PolicyTypes' /\ AskedOK' /\ CoversWhatWasAsked'
      BY <2>3, UpdatePolicyInv
    <3> QED BY <1>3, <3>1 DEF PolicyInv
  <2> QED BY <2>1, <2>2, <2>3
<1> QED BY <1>4, <1>5 DEF Next, allVars

\* A policy covers the pairs last asked for and is listed under them, and the
\* nearest category above a product's own decides how it is shipped
\* (app/services/shipping_policy.py).
THEOREM PoliciesStayAsAsked == Spec => []PoliciesAsAsked
<1>1. PolicyInv => PoliciesAsAsked
  BY PolicyInvAsked
<1> QED BY <1>1, InitPolicy, PolicyNextInv, PTL DEF Spec

-----------------------------------------------------------------------------
(***************************************************************************)
(* The bulk import of a seller's categories.  Of the signals of a request  *)
(* there is a dictionary for each level that they are the announcement of, *)
(* and what a request has inserted has its parent on the level above,      *)
(* unless a row named it on another level too.  The rows of a request keep *)
(* this one after the other (RequestStates).                               *)
(***************************************************************************)
BulkRow == [parent : Code \cup {NoParent}, path : Seq(Code), depth : Nat]
Trees == UNION {[D -> BulkRow] : D \in SUBSET Code}
Signal == Code \X {"insert", "update"}
Level == {1, 2, 3}
Dics == [Level -> Seq(Signal)]

\* The codes that a request has named on a level, and those it has inserted.
NamedOn(dic, level) == {dic[level][i][1] : i \in DOMAIN dic[level]}
InsertedOn(dic, level) == {c \in Code : \E i \in DOMAIN dic[level] : dic[level][i] = <<c, "insert">>}

\* A category has the place its parent gives it.
InPlace(t, c) ==
  LET p == t[c].parent IN
  IF p = NoParent THEN t[c].path = <<c>> /\ t[c].depth = 1
  ELSE t[c].path = Append(t[p].path, c) /\ t[c].depth = t[p].depth + 1

TreeFits(t, s) ==
  /\ \A c \in DOMAIN t : t[c].parent \in DOMAIN t \cup {NoParent}
  /\ \A c \in DOMAIN t \ s : InPlace(t, c)

\* A category that was inserted has its parent on the level above, unless it
\* was named on another level too.
ParentNamed(t, dic, level, c) ==
  \/ \E other \in Level \ {level} : c \in NamedOn(dic, other)
  \/ level = 1 /\ t[c].parent = NoParent
  \/ level # 1 /\ t[c].parent \in NamedOn(dic, level - 1)

DicFits(t, dic) ==
  /\ \A level \in Level : NamedOn(dic, level) \subseteq DOMAIN t
  /\ \A level \in Level, other \in Level : \A c \in InsertedOn(dic, level) :
       c \in InsertedOn(dic, other) => level = other
  /\ \A level \in Level : \A c \in InsertedOn(dic, level) : ParentNamed(t, dic, level, c)
  /\ \A level \in Level : \A i, j \in DOMAIN dic[level] : dic[level][i][1] = dic[level][j][1] => i = j

BulkInv ==
  /\ tree \in Trees /\ stale \in SUBSET Code
  /\ TreeFits(tree, stale)
  /\ \E dic \in Dics : signals = Announced(dic) /\ DicFits(tree, dic)

\* The states of a request.
RequestStates ==
  {r \in [tree : Trees, stale : SUBSET Code, dic : Dics] : TreeFits(r.tree, r.stale) /\ DicFits(r.tree, r.dic)}

LEMMA TreesAre ==
  ASSUME NEW t
  PROVE  t \in Trees <=> /\ DOMAIN t \in SUBSET Code /\ t = [c \in DOMAIN t |-> t[c]]
                         /\ \A c \in DOMAIN t : t[c] \in BulkRow
<1>1. ASSUME t \in Trees
      PROVE  /\ DOMAIN t \in SUBSET Code /\ t = [c \in DOMAIN t |-> t[c]]
             /\ \A c \in DOMAIN t : t[c] \in BulkRow
  <2>1. PICK D \in SUBSET Code : t \in [D -> BulkRow]
    BY <1>1 DEF Trees
  <2> QED BY <2>1
<1>2. ASSUME DOMAIN t \in SUBSET Code, t = [c \in DOMAIN t |-> t[c]], \A c \in DOMAIN t : t[c] \in BulkRow
      PROVE  t \in Trees
  <2>1. t \in [DOMAIN t -> BulkRow]
    BY <1>2
  <2> QED BY <1>2, <2>1 DEF Trees
<1> QED BY <1>1, <1>2

\* A row below another.
LEMMA RowBelow ==
  ASSUME NEW t \in Trees, NEW c \in Code, NEW p \in DOMAIN t
  PROVE  [parent |-> p, path |-> Append(t[p].path, c), depth |-> t[p].depth + 1] \in BulkRow
<1>1. t[p] \in BulkRow /\ p \in Code
  BY TreesAre
<1>2. t[p].path \in Seq(Code) /\ t[p].depth \in Nat
  BY <1>1 DEF BulkRow
<1>3. Append(t[p].path, c) \in Seq(Code) /\ t[p].depth + 1 \in Nat
  BY <1>2
<1> QED BY <1>1, <1>3 DEF BulkRow

\* A category that is there is put below another.
LEMMA PlacedFits ==
  ASSUME NEW t \in Trees, NEW s \in SUBSET Code, TreeFits(t, s),
         NEW c \in DOMAIN t, NEW p \in DOMAIN t
  PROVE  LET u == Placed(t, c, p) IN
         /\ u \in Trees /\ TreeFits(u, (s \ {c}) \cup ChildrenOf(u, c)) /\ ChildrenOf(u, c) \subseteq Code
         /\ DOMAIN u = DOMAIN t /\ u[c].parent = p
         /\ \A x \in DOMAIN t \ {c} : u[x] = t[x]
<1> DEFINE u == Placed(t, c, p)
           row == [parent |-> p, path |-> Append(t[p].path, c), depth |-> t[p].depth + 1]
<1>1. DOMAIN t \in SUBSET Code /\ t = [x \in DOMAIN t |-> t[x]] /\ \A x \in DOMAIN t : t[x] \in BulkRow
  BY TreesAre
<1>2. p # NoParent
  BY <1>1, BulkAssumption
<1>3. u = [t EXCEPT ![c] = row]
  BY <1>2 DEF Placed
<1>4. row \in BulkRow
  BY <1>1, RowBelow
<1>5. row.parent = p /\ row.path = Append(t[p].path, c) /\ row.depth = t[p].depth + 1
  OBVIOUS
<1> HIDE DEF row, u
<1>6. /\ DOMAIN u = DOMAIN t /\ u[c] = row /\ u = [x \in DOMAIN u |-> u[x]]
      /\ \A x \in DOMAIN t \ {c} : u[x] = t[x]
  BY <1>1, <1>3
<1>7. u \in Trees
  <2>1. \A x \in DOMAIN u : u[x] \in BulkRow
    BY <1>1, <1>4, <1>6
  <2> QED BY <1>1, <1>6, <2>1, TreesAre
<1>8. \A x \in DOMAIN u : u[x].parent \in DOMAIN u \cup {NoParent}
  BY <1>5, <1>6 DEF TreeFits
<1>9. ASSUME NEW x \in DOMAIN u, x \notin (s \ {c}) \cup ChildrenOf(u, c)
      PROVE  InPlace(u, x)
  <2>1. u[x].parent # c
    BY <1>9 DEF ChildrenOf
  <2>2. CASE x = c
    BY <1>2, <1>5, <1>6, <2>1, <2>2 DEF InPlace
  <2>3. CASE x # c
    <3>1. u[x] = t[x] /\ InPlace(t, x) /\ t[x].parent \in DOMAIN t \cup {NoParent}
      BY <1>6, <1>9, <2>3 DEF TreeFits
    <3>2. t[x].parent # NoParent => u[t[x].parent] = t[t[x].parent]
      BY <1>6, <2>1, <3>1
    <3> QED BY <3>1, <3>2 DEF InPlace
  <2> QED BY <2>2, <2>3
<1>10. TreeFits(u, (s \ {c}) \cup ChildrenOf(u, c))
  BY <1>8, <1>9 DEF TreeFits
<1>11. ChildrenOf(u, c) \subseteq Code
  BY <1>1, <1>6 DEF ChildrenOf
<1> QED BY <1>5, <1>6, <1>7, <1>10, <1>11 DEF u

\* A new category.
LEMMA InsertedFits ==
  ASSUME NEW t \in Trees, NEW s \in SUBSET Code, TreeFits(t, s),
         NEW c \in Code, c \notin DOMAIN t, NEW p \in DOMAIN t \cup {NoParent}
  PROVE  LET u == Inserted(t, c, p) IN
         /\ u \in Trees /\ TreeFits(u, s)
         /\ DOMAIN u = DOMAIN t \cup {c} /\ u[c].parent = p
         /\ \A x \in DOMAIN t : u[x] = t[x]
<1> DEFINE u == Inserted(t, c, p)
           row == IF p = NoParent THEN [parent |-> p, path |-> <<c>>, depth |-> 1]
                  ELSE [parent |-> p, path |-> Append(t[p].path, c), depth |-> t[p].depth + 1]
<1>1. DOMAIN t \in SUBSET Code /\ t = [x \in DOMAIN t |-> t[x]] /\ \A x \in DOMAIN t : t[x] \in BulkRow
  BY TreesAre
<1>2. u = [x \in DOMAIN t \cup {c} |-> IF x # c THEN t[x] ELSE row]
  BY DEF Inserted
<1>3. row \in BulkRow
  <2>1. CASE p = NoParent
    <3>1. <<c>> \in Seq(Code) /\ 1 \in Nat
      OBVIOUS
    <3> QED BY <2>1, <3>1 DEF BulkRow
  <2>2. CASE p # NoParent
    BY <2>2, RowBelow
  <2> QED BY <2>1, <2>2
<1>4. /\ row.parent = p
      /\ row.path = IF p = NoParent THEN <<c>> ELSE Append(t[p].path, c)
      /\ row.depth = IF p = NoParent THEN 1 ELSE t[p].depth + 1
  OBVIOUS
<1> HIDE DEF row, u
<1>5. /\ DOMAIN u = DOMAIN t \cup {c} /\ u[c] = row /\ u = [x \in DOMAIN u |-> u[x]]
      /\ \A x \in DOMAIN t : u[x] = t[x]
  BY <1>2
<1>6. u \in Trees
  <2>1. \A x \in DOMAIN u : u[x] \in BulkRow
    BY <1>1, <1>3, <1>5
  <2> QED BY <1>1, <1>5, <2>1, TreesAre
<1>7. \A x \in DOMAIN u : u[x].parent \in DOMAIN u \cup {NoParent}
  BY <1>4, <1>5 DEF TreeFits
<1>8. ASSUME NEW x \in DOMAIN u \ s
      PROVE  InPlace(u, x)
  <2>1. CASE x = c
    BY <1>4, <1>5, <2>1 DEF InPlace
  <2>2. CASE x # c
    <3>1. u[x] = t[x] /\ InPlace(t, x) /\ t[x].parent \in DOMAIN t \cup {NoParent}
      BY <1>5, <2>2 DEF TreeFits
    <3>2. t[x].parent # NoParent => u[t[x].parent] = t[t[x].parent]
      BY <1>5, <3>1
    <3> QED BY <3>1, <3>2 DEF InPlace
  <2> QED BY <2>1, <2>2
<1>9. TreeFits(u, s)
  BY <1>7, <1>8 DEF TreeFits
<1> QED BY <1>4, <1>5, <1>6, <1>9 DEF u

\* What GetAndInit adds to the dictionary of a level.
AddedOn(dic, level, signal) == [dic EXCEPT ![level] = Append(@, signal)]

LEMMA AddedIs ==
  ASSUME NEW dic \in Dics, NEW level \in Level, NEW signal \in Signal
  PROVE  LET d == AddedOn(dic, level, signal) IN
         /\ d \in Dics
         /\ NamedOn(d, level) = NamedOn(dic, level) \cup {signal[1]}
         /\ InsertedOn(d, level) =
              InsertedOn(dic, level) \cup (IF signal[2] = "insert" THEN {signal[1]} ELSE {})
         /\ \A other \in Level \ {level} : /\ d[other] = dic[other]
                                          /\ NamedOn(d, other) = NamedOn(dic, other)
                                          /\ InsertedOn(d, other) = InsertedOn(dic, other)
         /\ d[level] = Append(dic[level], signal)
<1> DEFINE d == AddedOn(dic, level, signal)
           old == dic[level]
           new == Append(old, signal)
<1>1. old \in Seq(Signal)
  BY DEF Dics
<1>2. d = [dic EXCEPT ![level] = new]
  BY DEF AddedOn
<1>3. new \in Seq(Signal)
  BY <1>1
<1>4. d \in Dics /\ d[level] = new /\ \A other \in Level \ {level} : d[other] = dic[other]
  BY <1>2, <1>3 DEF Dics
<1>5. /\ DOMAIN old = 1 .. Len(old) /\ DOMAIN new = 1 .. (Len(old) + 1) /\ Len(old) \in Nat
      /\ new[Len(old) + 1] = signal /\ \A i \in 1 .. Len(old) : new[i] = old[i]
  BY <1>1
<1>6. \A i : i \in DOMAIN new <=> i \in DOMAIN old \/ i = Len(old) + 1
  BY <1>5
<1>7. \A i \in DOMAIN old : new[i] = old[i]
  BY <1>5
<1>8. NamedOn(d, level) = NamedOn(dic, level) \cup {signal[1]}
  <2>1. {new[i][1] : i \in DOMAIN new} = {old[i][1] : i \in DOMAIN old} \cup {signal[1]}
    <3> HIDE DEF new, old
    <3> QED BY <1>5, <1>6, <1>7
  <2> HIDE DEF new, d
  <2> QED BY <1>4, <2>1 DEF NamedOn
<1>9. InsertedOn(d, level) = InsertedOn(dic, level) \cup (IF signal[2] = "insert" THEN {signal[1]} ELSE {})
  <2>1. \A c \in Code : signal = <<c, "insert">> <=> c = signal[1] /\ signal[2] = "insert"
    BY DEF Signal
  <2>2. \A c \in Code : (\E i \in DOMAIN new : new[i] = <<c, "insert">>)
                         <=> (\E i \in DOMAIN old : old[i] = <<c, "insert">>) \/ signal = <<c, "insert">>
    <3> HIDE DEF new, old
    <3> QED BY <1>5, <1>6, <1>7
  <2>3. signal[1] \in Code
    BY DEF Signal
  <2> HIDE DEF new, d
  <2>4. InsertedOn(d, level) = {c \in Code : \E i \in DOMAIN new : new[i] = <<c, "insert">>}
    BY <1>4 DEF InsertedOn
  <2>5. \A c : c \in InsertedOn(d, level) <=> c \in Code /\ (c \in InsertedOn(dic, level) \/ signal = <<c, "insert">>)
    BY <2>2, <2>4 DEF InsertedOn
  <2>6. \A c : c \in InsertedOn(dic, level) => c \in Code
    BY DEF InsertedOn
  <2> QED BY <2>1, <2>3, <2>5, <2>6
<1>10. \A other \in Level \ {level} : /\ NamedOn(d, other) = NamedOn(dic, other)
                                    /\ InsertedOn(d, other) = InsertedOn(dic, other)
  BY <1>4 DEF NamedOn, InsertedOn
<1> QED BY <1>4, <1>8, <1>9, <1>10

\* Whoever was inserted was named.
LEMMA InsertedNamed ==
  ASSUME NEW dic, NEW level
  PROVE  InsertedOn(dic, level) \subseteq NamedOn(dic, level)
BY DEF InsertedOn, NamedOn

\* A category is named on a level for the first time.
LEMMA NamedFits ==
  ASSUME NEW t, NEW u, NEW dic \in Dics, DicFits(t, dic),
         NEW level \in Level, NEW c \in Code, c \notin NamedOn(dic, level),
         NEW what \in {"insert", "update"}, what = "insert" => c \notin DOMAIN t,
         DOMAIN u = DOMAIN t \cup {c},
         \A x \in DOMAIN t \ {c} : u[x] = t[x],
         what = "insert" => IF level = 1 THEN u[c].parent = NoParent
                            ELSE u[c].parent \in NamedOn(dic, level - 1)
  PROVE  DicFits(u, AddedOn(dic, level, <<c, what>>))
<1> DEFINE signal == <<c, what>>
           d == AddedOn(dic, level, signal)
<1>1. signal \in Signal /\ signal[1] = c /\ signal[2] = what
  BY DEF Signal
<1> HIDE DEF signal
<1>2. /\ d \in Dics
      /\ NamedOn(d, level) = NamedOn(dic, level) \cup {c}
      /\ InsertedOn(d, level) = InsertedOn(dic, level) \cup (IF what = "insert" THEN {c} ELSE {})
      /\ \A other \in Level \ {level} : /\ d[other] = dic[other]
                                       /\ NamedOn(d, other) = NamedOn(dic, other)
                                       /\ InsertedOn(d, other) = InsertedOn(dic, other)
      /\ d[level] = Append(dic[level], signal)
  BY <1>1, AddedIs
<1> HIDE DEF d
<1>3. /\ \A l \in Level : NamedOn(dic, l) \subseteq DOMAIN t
      /\ \A l \in Level, other \in Level : \A x \in InsertedOn(dic, l) : x \in InsertedOn(dic, other) => l = other
      /\ \A l \in Level : \A x \in InsertedOn(dic, l) : ParentNamed(t, dic, l, x)
      /\ \A l \in Level : \A i, j \in DOMAIN dic[l] : dic[l][i][1] = dic[l][j][1] => i = j
  BY DEF DicFits
<1>4. \A l \in Level : NamedOn(dic, l) \subseteq NamedOn(d, l)
  BY <1>2
<1>5. \A l \in Level : NamedOn(d, l) \subseteq DOMAIN u
  <2>1. TAKE l \in Level
  <2> QED BY <1>2, <1>3
<1>6. ASSUME NEW l \in Level, NEW other \in Level, NEW x \in InsertedOn(d, l), x \in InsertedOn(d, other)
      PROVE  l = other
  <2>1. CASE x \in InsertedOn(dic, l) /\ x \in InsertedOn(dic, other)
    BY <1>3, <2>1
  <2>2. CASE ~(x \in InsertedOn(dic, l) /\ x \in InsertedOn(dic, other))
    <3>1. x = c /\ what = "insert" /\ (l = level \/ other = level)
      BY <1>2, <1>6, <2>2
    <3>2. \A m \in Level : x \notin InsertedOn(dic, m)
      BY <1>3, <3>1, InsertedNamed
    <3>3. l = level /\ other = level
      BY <1>2, <1>6, <3>2
    <3> QED BY <3>3
  <2> QED BY <2>1, <2>2
<1>7. ASSUME NEW l \in Level, NEW x \in InsertedOn(d, l)
      PROVE  ParentNamed(u, d, l, x)
  <2>0. l # 1 => l - 1 \in Level
    BY DEF Level
  <2>1. CASE x = c /\ l = level /\ what = "insert"
    <3>1. level # 1 => level - 1 \in Level /\ level - 1 # level
      BY DEF Level
    <3> QED BY <1>2, <2>1, <3>1 DEF ParentNamed
  <2>2. CASE x = c /\ l # level
    <3>1. x \in NamedOn(d, level)
      BY <1>2, <2>2
    <3> QED BY <2>2, <3>1 DEF ParentNamed
  <2>3. CASE x = c /\ l = level /\ what # "insert"
    <3>1. x \in NamedOn(dic, level)
      BY <1>2, <1>7, <2>3, InsertedNamed
    <3> QED BY <2>3, <3>1
  <2>4. CASE x # c
    <3>1. x \in InsertedOn(dic, l)
      BY <1>2, <1>7, <2>4
    <3>2. x \in DOMAIN t
      BY <1>3, <3>1, InsertedNamed
    <3>3. u[x] = t[x]
      BY <2>4, <3>2
    <3>4. ParentNamed(t, dic, l, x)
      BY <1>3, <3>1
    <3> QED BY <1>4, <2>0, <3>3, <3>4 DEF ParentNamed
  <2> QED BY <2>1, <2>2, <2>3, <2>4
<1>8. ASSUME NEW l \in Level, NEW i \in DOMAIN d[l], NEW j \in DOMAIN d[l], d[l][i][1] = d[l][j][1]
      PROVE  i = j
  <2>1. CASE l # level
    BY <1>2, <1>3, <1>8, <2>1
  <2>2. CASE l = level
    <3> DEFINE old == dic[level]
    <3>1. old \in Seq(Signal) /\ d[l] = Append(old, signal)
      BY <1>2, <2>2 DEF Dics
    <3>2. \A k \in DOMAIN old : old[k][1] # c
      BY DEF NamedOn
    <3>3. \A k, m \in DOMAIN old : old[k][1] = old[m][1] => k = m
      BY <1>3
    <3> HIDE DEF old
    <3>4. /\ DOMAIN old = 1 .. Len(old) /\ DOMAIN d[l] = 1 .. (Len(old) + 1) /\ Len(old) \in Nat
          /\ d[l][Len(old) + 1] = signal /\ \A k \in 1 .. Len(old) : d[l][k] = old[k]
      BY <3>1
    <3>5. \A k \in DOMAIN d[l] : k = Len(old) + 1 \/ (k \in DOMAIN old /\ d[l][k] = old[k])
      BY <3>4
    <3> QED BY <1>1, <1>8, <3>2, <3>3, <3>4, <3>5
  <2> QED BY <2>1, <2>2
<1> QED BY <1>5, <1>6, <1>7, <1>8 DEF DicFits, d, signal

\* The parent of a code on a level.
ParentOn(dic, level, p) == IF level = 1 THEN p = NoParent ELSE p \in NamedOn(dic, level - 1)

LEMMA StatesAre ==
  ASSUME NEW t \in Trees, NEW s \in SUBSET Code, NEW dic \in Dics, TreeFits(t, s), DicFits(t, dic)
  PROVE  [tree |-> t, stale |-> s, dic |-> dic] \in RequestStates
BY DEF RequestStates

\* A code of a row leaves a request sound, and names it.
LEMMA GetAndInitFits ==
  ASSUME NEW r \in RequestStates, NEW level \in Level, NEW c \in Code, NEW p, ParentOn(r.dic, level, p)
  PROVE  LET done == GetAndInit(r, level, c, p) IN
         done \in RequestStates /\ c \in NamedOn(done.dic, level)
<1> DEFINE done == GetAndInit(r, level, c, p)
<1>1. /\ r.tree \in Trees /\ r.stale \in SUBSET Code /\ r.dic \in Dics
      /\ TreeFits(r.tree, r.stale) /\ DicFits(r.tree, r.dic)
  BY DEF RequestStates
<1>2. PICK t, s, dic : t = r.tree /\ s = r.stale /\ dic = r.dic
  OBVIOUS
<1>3. (\E i \in DOMAIN dic[level] : dic[level][i][1] = c) <=> c \in NamedOn(dic, level)
  BY DEF NamedOn
<1>4. level # 1 => level - 1 \in Level
  BY DEF Level
<1>5. p = NoParent \/ p \in DOMAIN t
  BY <1>1, <1>2, <1>4 DEF ParentOn, DicFits
<1>6. DOMAIN t \in SUBSET Code
  BY <1>1, <1>2, TreesAre
<1>7. p = NoParent <=> level = 1
  <2>1. level # 1 => p \in DOMAIN t
    BY <1>1, <1>2, <1>4 DEF ParentOn, DicFits
  <2> QED BY <1>6, <2>1, BulkAssumption DEF ParentOn
<1>8. t \in Trees /\ s \in SUBSET Code /\ dic \in Dics /\ TreeFits(t, s) /\ DicFits(t, dic)
  BY <1>1, <1>2
<1>9. CASE c \in NamedOn(dic, level)
  <2>1. done = r
    BY <1>2, <1>3, <1>9 DEF GetAndInit
  <2> QED BY <1>2, <1>9, <2>1
<1>10. CASE c \notin NamedOn(dic, level) /\ c \in DOMAIN t
  <2> DEFINE u == Placed(t, c, p)
             late == IF p = NoParent THEN s ELSE (s \ {c}) \cup ChildrenOf(u, c)
             d == AddedOn(dic, level, <<c, "update">>)
  <2>1. done = [tree |-> u, stale |-> late, dic |-> d]
    BY <1>2, <1>3, <1>10 DEF GetAndInit, AddedOn
  <2>2. u \in Trees /\ late \in SUBSET Code /\ TreeFits(u, late) /\ DOMAIN u = DOMAIN t
        /\ \A x \in DOMAIN t \ {c} : u[x] = t[x]
    <3>1. CASE p = NoParent
      BY <1>1, <1>2, <3>1 DEF Placed
    <3>2. CASE p # NoParent
      <4>1. p \in DOMAIN t
        BY <1>5, <3>2
      <4>2. u \in Trees /\ TreeFits(u, late) /\ ChildrenOf(u, c) \subseteq Code /\ DOMAIN u = DOMAIN t
            /\ \A x \in DOMAIN t \ {c} : u[x] = t[x]
        BY <1>10, <1>8, <3>2, <4>1, PlacedFits
      <4>3. late = (s \ {c}) \cup ChildrenOf(u, c)
        BY <3>2
      <4> HIDE DEF u, late
      <4> QED BY <1>8, <4>2, <4>3
    <3> QED BY <3>1, <3>2
  <2> HIDE DEF u, late
  <2>3. DicFits(u, d)
    BY <1>1, <1>2, <1>10, <2>2, NamedFits
  <2>4. d \in Dics /\ c \in NamedOn(d, level)
    <3>1. <<c, "update">> \in Signal /\ <<c, "update">>[1] = c
      BY DEF Signal
    <3> QED BY <1>1, <1>2, <3>1, AddedIs
  <2> HIDE DEF d
  <2>5. [tree |-> u, stale |-> late, dic |-> d] \in RequestStates
    BY <2>2, <2>3, <2>4, StatesAre
  <2>6. done.dic = d
    BY <2>1
  <2> HIDE DEF done
  <2> QED BY <2>1, <2>4, <2>5, <2>6 DEF done
<1>11. CASE c \notin NamedOn(dic, level) /\ c \notin DOMAIN t
  <2> DEFINE u == Inserted(t, c, p)
             d == AddedOn(dic, level, <<c, "insert">>)
  <2>1. done = [tree |-> u, stale |-> s, dic |-> d]
    BY <1>2, <1>3, <1>11 DEF GetAndInit, AddedOn
  <2>2. /\ u \in Trees /\ TreeFits(u, s) /\ DOMAIN u = DOMAIN t \cup {c} /\ u[c].parent = p
        /\ \A x \in DOMAIN t : u[x] = t[x]
    BY <1>5, <1>11, <1>8, InsertedFits
  <2> HIDE DEF u
  <2>3. IF level = 1 THEN u[c].parent = NoParent ELSE u[c].parent \in NamedOn(dic, level - 1)
    BY <1>2, <2>2 DEF ParentOn
  <2>4. DicFits(u, d)
    BY <1>1, <1>2, <1>11, <2>2, <2>3, NamedFits
  <2>5. d \in Dics /\ c \in NamedOn(d, level)
    <3>1. <<c, "insert">> \in Signal /\ <<c, "insert">>[1] = c
      BY DEF Signal
    <3> QED BY <1>1, <1>2, <3>1, AddedIs
  <2> HIDE DEF d
  <2>6. [tree |-> u, stale |-> s, dic |-> d] \in RequestStates
    BY <1>1, <1>2, <2>2, <2>4, <2>5, StatesAre
  <2>7. done.dic = d
    BY <2>1
  <2> HIDE DEF done
  <2> QED BY <2>1, <2>5, <2>6, <2>7 DEF done
<1> QED BY <1>9, <1>10, <1>11

\* So does a row.
LEMMA WithRowFits ==
  ASSUME NEW r \in RequestStates, NEW codes \in Seq(Code), Len(codes) \in 1 .. 3
  PROVE  WithRow(r, codes) \in RequestStates
<1> DEFINE one == GetAndInit(r, 1, codes[1], NoParent)
           two == GetAndInit(one, 2, codes[2], codes[1])
           three == GetAndInit(two, 3, codes[3], codes[2])
<1>1. /\ codes[1] \in Code
      /\ Len(codes) # 1 => codes[2] \in Code
      /\ Len(codes) = 3 => codes[3] \in Code
      /\ Len(codes) = 1 \/ Len(codes) = 2 \/ Len(codes) = 3
  OBVIOUS
<1>2. 1 \in Level /\ 2 \in Level /\ 3 \in Level /\ 2 - 1 = 1 /\ 3 - 1 = 2
  BY DEF Level
<1>3. one \in RequestStates /\ codes[1] \in NamedOn(one.dic, 1)
  BY <1>1, <1>2, GetAndInitFits DEF ParentOn
<1> HIDE DEF one
<1>4. Len(codes) # 1 => two \in RequestStates /\ codes[2] \in NamedOn(two.dic, 2)
  <2>1. ParentOn(one.dic, 2, codes[1])
    BY <1>2, <1>3 DEF ParentOn
  <2> QED BY <1>1, <1>2, <1>3, <2>1, GetAndInitFits
<1> HIDE DEF two
<1>5. Len(codes) = 3 => three \in RequestStates
  <2>1. Len(codes) = 3 => ParentOn(two.dic, 3, codes[2])
    BY <1>2, <1>4 DEF ParentOn
  <2> QED BY <1>1, <1>2, <1>4, <2>1, GetAndInitFits
<1>6. WithRow(r, codes) = CASE Len(codes) = 1 -> one
                            [] Len(codes) = 2 -> two
                            [] Len(codes) = 3 -> three
  BY DEF WithRow, one, two
<1> HIDE DEF three
<1>7. CASE Len(codes) = 1
  BY <1>3, <1>6, <1>7
<1>8. CASE Len(codes) = 2
  BY <1>4, <1>6, <1>8
<1>9. CASE Len(codes) = 3
  BY <1>5, <1>6, <1>9
<1> QED BY <1>1, <1>7, <1>8, <1>9

\* And the rows of a request, one after the other.
LEMMA WithRowsFits ==
  ASSUME NEW t \in Trees, NEW s \in SUBSET Code, TreeFits(t, s),
         NEW lines \in Seq(Seq(Code)), \A i \in DOMAIN lines : Len(lines[i]) \in 1 .. 3
  PROVE  WithRows(t, s, lines) \in RequestStates
<1> DEFINE N == Len(lines)
           base == [tree |-> t, stale |-> s, dic |-> <<<<>>, <<>>, <<>>>>]
           f == [x \in Nat \X RequestStates |-> IF x[1] \in 1 .. N THEN WithRow(x[2], lines[x[1]]) ELSE x[2]]
           Continues(F) == F = [n \in 0 .. N |-> IF n = 0 THEN base ELSE WithRow(F[n - 1], lines[n])]
<1>1. N \in Nat /\ DOMAIN lines = 1 .. N /\ \A n \in 1 .. N : lines[n] \in Seq(Code) /\ Len(lines[n]) \in 1 .. 3
  OBVIOUS
<1>2. base \in RequestStates
  <2> DEFINE dic == <<<<>>, <<>>, <<>>>>
  <2>1. dic \in Dics /\ \A level \in Level : dic[level] = <<>>
    <3>1. dic = [level \in 1 .. 3 |-> <<>>]
      OBVIOUS
    <3>2. Level = 1 .. 3
      BY DEF Level
    <3>3. <<>> \in Seq(Signal)
      OBVIOUS
    <3> HIDE DEF dic
    <3> QED BY <3>1, <3>2, <3>3 DEF Dics
  <2> HIDE DEF dic
  <2>2. \A level \in Level : NamedOn(dic, level) = {} /\ InsertedOn(dic, level) = {}
    <3>1. DOMAIN <<>> = {}
      OBVIOUS
    <3> QED BY <2>1, <3>1 DEF NamedOn, InsertedOn
  <2>3. DicFits(t, dic)
    <3>1. \A level \in Level : DOMAIN dic[level] = {}
      BY <2>1
    <3> QED BY <2>2, <3>1 DEF DicFits
  <2> QED BY <2>1, <2>3, StatesAre DEF dic
<1> HIDE DEF N, base
<1>3. f \in [Nat \X RequestStates -> RequestStates]
  <2>1. \A x \in Nat \X RequestStates :
          (IF x[1] \in 1 .. N THEN WithRow(x[2], lines[x[1]]) ELSE x[2]) \in RequestStates
    BY <1>1, WithRowFits
  <2> QED BY <2>1
<1>4. PICK F \in [0 .. N -> RequestStates] : Iterates(F, base, f, N)
  <2> HIDE DEF f
  <2> QED BY <1>1, <1>2, <1>3, IteratesExist
<1>5. Continues(F)
  <2>1. \A n \in 0 .. N : n # 0 => f[<<n, F[n - 1]>>] = WithRow(F[n - 1], lines[n])
    <3>1. TAKE n \in 0 .. N
    <3>2. n # 0 => n \in 1 .. N /\ n \in Nat /\ n - 1 \in 0 .. N
      BY <1>1
    <3>3. n # 0 => <<n, F[n - 1]>> \in Nat \X RequestStates
      BY <3>2
    <3> QED BY <3>2, <3>3
  <2> HIDE DEF f
  <2> QED BY <1>4, <2>1 DEF Iterates
<1> DEFINE after == CHOOSE G : Continues(G)
<1>6. Continues(after)
  BY <1>5
<1>7. WithRows(t, s, lines) = after[N]
  BY DEF WithRows, N, base
<1>8. after = F
  <2> HIDE DEF after
  <2> DEFINE Differ == {n \in 0 .. N : after[n] # F[n]}
  <2>1. \A n \in 0 .. N : /\ after[n] = (IF n = 0 THEN base ELSE WithRow(after[n - 1], lines[n]))
                          /\ F[n] = (IF n = 0 THEN base ELSE WithRow(F[n - 1], lines[n]))
    BY <1>5, <1>6
  <2>2. Differ = {}
    <3>1. SUFFICES ASSUME Differ # {}
                   PROVE  FALSE
      OBVIOUS
    <3>2. Differ \in SUBSET Nat
      BY <1>1
    <3>3. PICK m \in Differ : \A k \in Differ : m <= k
      <4> HIDE DEF Differ
      <4> QED BY <3>1, <3>2, LeastOfNumbers
    <3>4. m \in 0 .. N /\ after[m] # F[m]
      OBVIOUS
    <3>5. m # 0
      BY <2>1, <3>4
    <3>6. m - 1 \in 0 .. N /\ ~(m <= m - 1)
      BY <1>1, <3>4, <3>5
    <3>7. after[m - 1] = F[m - 1]
      BY <3>3, <3>6
    <3> QED BY <2>1, <3>4, <3>5, <3>7
  <2>3. DOMAIN after = 0 .. N /\ after = [n \in 0 .. N |-> after[n]]
    <3>1. after = [n \in 0 .. N |-> IF n = 0 THEN base ELSE WithRow(after[n - 1], lines[n])]
      BY <1>6
    <3>2. DOMAIN [n \in 0 .. N |-> IF n = 0 THEN base ELSE WithRow(after[n - 1], lines[n])] = 0 .. N
      OBVIOUS
    <3>3. DOMAIN after = 0 .. N
      BY <3>1, <3>2
    <3> QED BY <3>1, <3>3, <2>1
  <2> QED BY <2>2, <2>3
<1>9. F[N] \in RequestStates
  BY <1>1
<1> QED BY <1>7, <1>8, <1>9

-----------------------------------------------------------------------------
\* Where the signals of a level begin.
EarlierOn(dic, level) ==
  IF level = 1 THEN 0 ELSE IF level = 2 THEN Len(dic[1]) ELSE Len(dic[1]) + Len(dic[2])

LEMMA AnnouncedIs ==
  ASSUME NEW dic \in Dics
  PROVE  LET s == Announced(dic) IN
         /\ \A i \in DOMAIN s : \E level \in Level : \E n \in DOMAIN dic[level] :
              i = EarlierOn(dic, level) + n /\ s[i] = dic[level][n]
         /\ \A level \in Level : \A n \in DOMAIN dic[level] :
              EarlierOn(dic, level) + n \in DOMAIN s /\ s[EarlierOn(dic, level) + n] = dic[level][n]
         /\ \A level, other \in Level : \A n \in DOMAIN dic[level], m \in DOMAIN dic[other] :
              EarlierOn(dic, level) + n <= EarlierOn(dic, other) + m => level <= other
<1>1. PICK a, b, c : a = dic[1] /\ b = dic[2] /\ c = dic[3]
  OBVIOUS
<1>2. a \in Seq(Signal) /\ b \in Seq(Signal) /\ c \in Seq(Signal)
  BY <1>1 DEF Dics, Level
<1>3. PICK x, y, z : x = Len(a) /\ y = Len(b) /\ z = Len(c)
  OBVIOUS
<1>4. /\ x \in Nat /\ y \in Nat /\ z \in Nat
      /\ DOMAIN a = 1 .. x /\ DOMAIN b = 1 .. y /\ DOMAIN c = 1 .. z
  BY <1>2, <1>3
<1> DEFINE s == Announced(dic)
<1>5. s = (a \o b) \o c
  BY <1>1 DEF Announced
<1>6. /\ DOMAIN s = 1 .. (x + y + z)
      /\ \A i \in 1 .. x : s[i] = a[i]
      /\ \A i \in 1 .. y : s[x + i] = b[i]
      /\ \A i \in 1 .. z : s[x + y + i] = c[i]
  <2>1. PICK ab : ab = a \o b
    OBVIOUS
  <2>2. /\ ab \in Seq(Signal) /\ Len(ab) = x + y
        /\ \A i \in 1 .. x : ab[i] = a[i]
        /\ \A i \in 1 .. y : ab[x + i] = b[i]
    BY <1>2, <1>3, <1>4, <2>1
  <2>3. s = ab \o c
    BY <1>5, <2>1
  <2> HIDE DEF s
  <2>4. /\ DOMAIN s = 1 .. (Len(ab) + z)
        /\ \A i \in 1 .. Len(ab) : s[i] = ab[i]
        /\ \A i \in 1 .. z : s[Len(ab) + i] = c[i]
    <3>1. ab \in Seq(Signal) /\ c \in Seq(Signal) /\ z = Len(c)
      BY <1>2, <1>3, <2>2
    <3> QED BY <2>3, <3>1
  <2>5. \A i \in 1 .. y : x + i \in 1 .. (x + y)
    BY <1>4
  <2>6. \A i \in 1 .. x : i \in 1 .. (x + y)
    BY <1>4
  <2> QED BY <2>2, <2>4, <2>5, <2>6
<1>7. EarlierOn(dic, 1) = 0 /\ EarlierOn(dic, 2) = x /\ EarlierOn(dic, 3) = x + y
  BY <1>1, <1>3 DEF EarlierOn
<1> HIDE DEF s
<1>8. ASSUME NEW i \in DOMAIN s
      PROVE  \E level \in Level : \E n \in DOMAIN dic[level] :
               i = EarlierOn(dic, level) + n /\ s[i] = dic[level][n]
  <2>1. CASE i \in 1 .. x
    <3>1. i \in DOMAIN dic[1] /\ i = EarlierOn(dic, 1) + i /\ s[i] = dic[1][i] /\ 1 \in Level
      BY <1>1, <1>4, <1>6, <1>7, <2>1 DEF Level
    <3> QED BY <3>1
  <2>2. CASE i \in (x + 1) .. (x + y)
    <3>1. i - x \in 1 .. y /\ i = x + (i - x)
      BY <1>4, <2>2
    <3>2. s[i] = b[i - x]
      BY <1>6, <3>1
    <3>3. i - x \in DOMAIN dic[2] /\ i = EarlierOn(dic, 2) + (i - x) /\ s[i] = dic[2][i - x] /\ 2 \in Level
      BY <1>1, <1>4, <1>7, <3>1, <3>2 DEF Level
    <3> QED BY <3>3
  <2>3. CASE i \in (x + y + 1) .. (x + y + z)
    <3>1. i - (x + y) \in 1 .. z /\ i = x + y + (i - (x + y))
      BY <1>4, <2>3
    <3>2. s[i] = c[i - (x + y)]
      BY <1>6, <3>1
    <3>3. /\ i - (x + y) \in DOMAIN dic[3] /\ i = EarlierOn(dic, 3) + (i - (x + y))
          /\ s[i] = dic[3][i - (x + y)] /\ 3 \in Level
      BY <1>1, <1>4, <1>7, <3>1, <3>2 DEF Level
    <3> QED BY <3>3
  <2>4. i \in 1 .. x \/ i \in (x + 1) .. (x + y) \/ i \in (x + y + 1) .. (x + y + z)
    BY <1>4, <1>6
  <2> QED BY <2>1, <2>2, <2>3, <2>4
<1>9. ASSUME NEW level \in Level, NEW n \in DOMAIN dic[level]
      PROVE  EarlierOn(dic, level) + n \in DOMAIN s /\ s[EarlierOn(dic, level) + n] = dic[level][n]
  <2>1. CASE level = 1
    <3>1. n \in 1 .. x
      BY <1>1, <1>4, <1>9, <2>1
    <3>2. 0 + n = n /\ n \in 1 .. (x + y + z)
      BY <1>4, <3>1
    <3> QED BY <1>1, <1>6, <1>7, <2>1, <3>1, <3>2
  <2>2. CASE level = 2
    <3>1. n \in 1 .. y
      BY <1>1, <1>4, <1>9, <2>2
    <3>2. x + n \in 1 .. (x + y + z)
      BY <1>4, <3>1
    <3> QED BY <1>1, <1>6, <1>7, <2>2, <3>1, <3>2
  <2>3. CASE level = 3
    <3>1. n \in 1 .. z
      BY <1>1, <1>4, <1>9, <2>3
    <3>2. x + y + n \in 1 .. (x + y + z)
      BY <1>4, <3>1
    <3> QED BY <1>1, <1>6, <1>7, <2>3, <3>1, <3>2
  <2> QED BY <2>1, <2>2, <2>3 DEF Level
<1>10. ASSUME NEW level \in Level, NEW other \in Level,
              NEW n \in DOMAIN dic[level], NEW m \in DOMAIN dic[other],
              EarlierOn(dic, level) + n <= EarlierOn(dic, other) + m
       PROVE  level <= other
  <2>1. /\ level = 1 => n \in 1 .. x
        /\ level = 2 => n \in 1 .. y
        /\ level = 3 => n \in 1 .. z
        /\ other = 1 => m \in 1 .. x
        /\ other = 2 => m \in 1 .. y
        /\ other = 3 => m \in 1 .. z
    BY <1>1, <1>4, <1>10
  <2>2. level \in {1, 2, 3} /\ other \in {1, 2, 3}
    BY DEF Level
  <2>3. CASE other = 1
    BY <1>4, <1>7, <1>10, <2>1, <2>2, <2>3
  <2>4. CASE other = 2
    BY <1>4, <1>7, <1>10, <2>1, <2>2, <2>4
  <2>5. CASE other = 3
    BY <2>2, <2>5
  <2> QED BY <2>2, <2>3, <2>4, <2>5
<1> QED BY <1>8, <1>9, <1>10 DEF s

\* A signal of a code named on a level.
LEMMA SignalOf ==
  ASSUME NEW dic \in Dics, NEW level \in Level, NEW c \in NamedOn(dic, level)
  PROVE  \E k \in DOMAIN Announced(dic), n \in DOMAIN dic[level] :
           k = EarlierOn(dic, level) + n /\ Announced(dic)[k][1] = c
<1>1. PICK n \in DOMAIN dic[level] : dic[level][n][1] = c
  BY DEF NamedOn
<1> QED BY <1>1, AnnouncedIs

\* A new category is announced after its new parent.
LEMMA ParentsFirst ==
  ASSUME NEW t \in Trees, NEW dic \in Dics, DicFits(t, dic),
         NEW i \in DOMAIN Announced(dic), NEW j \in DOMAIN Announced(dic), i < j,
         Announced(dic)[i][2] = "insert", Announced(dic)[j][2] = "insert",
         t[Announced(dic)[i][1]].parent = Announced(dic)[j][1]
  PROVE  \E k \in DOMAIN Announced(dic) \ {i, j} :
           Announced(dic)[k][1] \in {Announced(dic)[i][1], Announced(dic)[j][1]}
<1>1. PICK s : s = Announced(dic)
  OBVIOUS
<1>2. PICK level \in Level : \E n \in DOMAIN dic[level] : i = EarlierOn(dic, level) + n /\ s[i] = dic[level][n]
  BY <1>1, AnnouncedIs
<1>3. PICK n \in DOMAIN dic[level] : i = EarlierOn(dic, level) + n /\ s[i] = dic[level][n]
  BY <1>2
<1>4. PICK other \in Level : \E m \in DOMAIN dic[other] : j = EarlierOn(dic, other) + m /\ s[j] = dic[other][m]
  BY <1>1, AnnouncedIs
<1>5. PICK m \in DOMAIN dic[other] : j = EarlierOn(dic, other) + m /\ s[j] = dic[other][m]
  BY <1>4
<1>6. PICK a, b : a = s[i][1] /\ b = s[j][1]
  OBVIOUS
<1>7. s[i] = <<a, "insert">> /\ s[j] = <<b, "insert">> /\ a \in Code /\ b \in Code /\ t[a].parent = b
  <2>1. dic[level] \in Seq(Signal) /\ dic[other] \in Seq(Signal)
    BY DEF Dics
  <2>2. s[i] \in Signal /\ s[j] \in Signal
    BY <1>3, <1>5, <2>1
  <2>3. s[i][2] = "insert" /\ s[j][2] = "insert"
    BY <1>1
  <2>4. \A x \in Signal : x = <<x[1], x[2]>> /\ x[1] \in Code
    BY DEF Signal
  <2> QED BY <1>1, <1>6, <2>2, <2>3, <2>4
<1>8. a \in InsertedOn(dic, level) /\ b \in InsertedOn(dic, other)
  BY <1>3, <1>5, <1>7 DEF InsertedOn
<1>9. ParentNamed(t, dic, level, a)
  BY <1>8 DEF DicFits
<1>10. \A k : k \in DOMAIN s /\ k # i /\ k # j /\ (s[k][1] = a \/ s[k][1] = b) =>
          \E l \in DOMAIN Announced(dic) \ {i, j} :
            Announced(dic)[l][1] \in {Announced(dic)[i][1], Announced(dic)[j][1]}
  BY <1>1, <1>6
<1>11. level <= other
  <2>1. i <= j
    <3>1. DOMAIN s \subseteq Int
      <4>1. \A l \in Level : dic[l] \in Seq(Signal)
        BY DEF Dics
      <4>2. s \in Seq(Signal)
        BY <1>1, <4>1 DEF Announced, Level
      <4> QED BY <4>2
    <3>2. i \in Int /\ j \in Int
      BY <1>1, <3>1
    <3> QED BY <3>2
  <2> QED BY <1>3, <1>5, <2>1, AnnouncedIs
\* The signals of two levels are apart.
<1>12. ASSUME NEW k, NEW l \in Level, NEW h \in DOMAIN dic[l], k = EarlierOn(dic, l) + h
       PROVE  (k = i => l = level) /\ (k = j => l = other)
  <2>1. \A x, y \in Level : \A v \in DOMAIN dic[x], w \in DOMAIN dic[y] :
          EarlierOn(dic, x) + v = EarlierOn(dic, y) + w => x = y
    <3>1. SUFFICES ASSUME NEW x \in Level, NEW y \in Level, NEW v \in DOMAIN dic[x], NEW w \in DOMAIN dic[y],
                          EarlierOn(dic, x) + v = EarlierOn(dic, y) + w
                   PROVE  x = y
      OBVIOUS
    <3>2. \A o \in Level : EarlierOn(dic, o) \in Int /\ DOMAIN dic[o] \subseteq Int
      <4>1. \A o \in Level : dic[o] \in Seq(Signal)
        BY DEF Dics
      <4>2. \A o \in Level : Len(dic[o]) \in Int /\ DOMAIN dic[o] \subseteq Int
        BY <4>1
      <4>3. EarlierOn(dic, 1) = 0 /\ EarlierOn(dic, 2) = Len(dic[1]) /\ EarlierOn(dic, 3) = Len(dic[1]) + Len(dic[2])
        BY DEF EarlierOn
      <4>4. Len(dic[1]) \in Int /\ Len(dic[2]) \in Int
        BY <4>2 DEF Level
      <4>5. EarlierOn(dic, 1) \in Int /\ EarlierOn(dic, 2) \in Int /\ EarlierOn(dic, 3) \in Int
        <5>1. Len(dic[1]) + Len(dic[2]) \in Int /\ 0 \in Int
          BY <4>4
        <5> QED BY <4>3, <4>4, <5>1, Zenon
      <4>6. \A o : o \in Level => o = 1 \/ o = 2 \/ o = 3
        BY DEF Level
      <4>7. \A o \in Level : EarlierOn(dic, o) \in Int
        <5>1. TAKE o \in Level
        <5>2. CASE o = 1
          BY <4>5, <5>2, Zenon
        <5>3. CASE o = 2
          BY <4>5, <5>3, Zenon
        <5>4. CASE o = 3
          BY <4>5, <5>4, Zenon
        <5> QED BY <4>6, <5>2, <5>3, <5>4
      <4> QED BY <4>2, <4>7
    <3>3. v \in Int /\ w \in Int /\ EarlierOn(dic, x) \in Int /\ EarlierOn(dic, y) \in Int
      BY <3>2
    <3>4. EarlierOn(dic, x) + v <= EarlierOn(dic, y) + w /\ EarlierOn(dic, y) + w <= EarlierOn(dic, x) + v
      BY <3>1, <3>3
    <3>5. x <= y /\ y <= x
      BY <3>4, AnnouncedIs
    <3> QED BY <3>5 DEF Level
  <2> QED BY <1>3, <1>5, <1>12, <2>1
<1>13. CASE \E third \in Level \ {level} : a \in NamedOn(dic, third)
  <2>1. PICK third \in Level \ {level} : a \in NamedOn(dic, third)
    BY <1>13
  <2>2. PICK k \in DOMAIN s, h \in DOMAIN dic[third] : k = EarlierOn(dic, third) + h /\ s[k][1] = a
    BY <1>1, <2>1, SignalOf
  <2>3. k # i
    BY <1>12, <2>1, <2>2
  <2>4. k # j
    <3>1. SUFFICES ASSUME k = j
                   PROVE  FALSE
      OBVIOUS
    <3>2. a = b /\ third = other
      BY <1>6, <1>12, <2>2, <3>1
    <3>3. level = other
      BY <1>8, <3>2 DEF DicFits
    <3> QED BY <2>1, <3>2, <3>3
  <2> QED BY <1>10, <2>2, <2>3, <2>4
<1>14. CASE level = 1 /\ t[a].parent = NoParent
  BY <1>7, <1>14, BulkAssumption
<1>15. CASE level # 1 /\ t[a].parent \in NamedOn(dic, level - 1)
  <2>1. level - 1 \in Level /\ level - 1 # level /\ level - 1 # other
    BY <1>11, <1>15 DEF Level
  <2>2. PICK k \in DOMAIN s, h \in DOMAIN dic[level - 1] : k = EarlierOn(dic, level - 1) + h /\ s[k][1] = b
    BY <1>1, <1>7, <1>15, <2>1, SignalOf
  <2>3. k # i /\ k # j
    BY <1>12, <2>1, <2>2
  <2> QED BY <1>10, <2>2, <2>3
<1> QED BY <1>9, <1>13, <1>14, <1>15 DEF ParentNamed

LEMMA BulkInvFollows == BulkInv => BulkFollowsParents
<1> SUFFICES ASSUME BulkInv
             PROVE  BulkFollowsParents
  OBVIOUS
<1>1. BulkPathsFollow
  BY DEF BulkInv, TreeFits, InPlace, BulkPathsFollow
<1>2. PICK dic \in Dics : signals = Announced(dic) /\ DicFits(tree, dic)
  BY DEF BulkInv
<1>3. tree \in Trees
  BY DEF BulkInv
<1>4. ParentsAnnouncedFirst
  BY <1>2, <1>3, ParentsFirst DEF ParentsAnnouncedFirst
<1> QED BY <1>1, <1>4 DEF BulkFollowsParents

LEMMA InitBulk == BulkInit => BulkInv
<1> SUFFICES ASSUME BulkInit
             PROVE  BulkInv
  OBVIOUS
<1>1. tree = [c \in {} |-> NoParent] /\ DOMAIN tree = {} /\ stale = {} /\ signals = <<>>
  BY DEF BulkInit
<1>2. tree \in Trees /\ TreeFits(tree, stale)
  BY <1>1, TreesAre DEF TreeFits
<1> DEFINE dic == [level \in Level |-> <<>>]
<1>3. dic \in Dics /\ \A level \in Level : dic[level] = <<>> /\ DOMAIN dic[level] = {}
  <2>1. <<>> \in Seq(Signal) /\ DOMAIN <<>> = {}
    OBVIOUS
  <2> QED BY <2>1 DEF Dics
<1> HIDE DEF dic
<1>4. DicFits(tree, dic)
  BY <1>3 DEF DicFits, NamedOn, InsertedOn
<1>5. signals = Announced(dic)
  <2>1. dic[1] = <<>> /\ dic[2] = <<>> /\ dic[3] = <<>>
    BY <1>3 DEF Level
  <2> QED BY <1>1, <2>1 DEF Announced
<1> QED BY <1>1, <1>2, <1>3, <1>4, <1>5 DEF BulkInv

LEMMA BulkNextInv == BulkInv /\ [BulkNext]_bulkVars => BulkInv'
<1> SUFFICES ASSUME BulkInv, [BulkNext]_bulkVars
             PROVE  BulkInv'
  OBVIOUS
<1>1. ASSUME NEW lines \in BulkData, Import(lines)
      PROVE  BulkInv'
  <2>1. PICK done : done = WithRows(tree, stale, lines)
    OBVIOUS
  <2>2. done \in RequestStates
    <3>1. tree \in Trees /\ stale \in SUBSET Code /\ TreeFits(tree, stale)
      BY DEF BulkInv
    <3>2. lines \in Seq(Seq(Code)) /\ \A i \in DOMAIN lines : Len(lines[i]) \in 1 .. 3
      BY BulkAssumption
    <3>3. PICK t, s : t = tree /\ s = stale
      OBVIOUS
    <3>4. WithRows(t, s, lines) \in RequestStates
      BY <3>1, <3>2, <3>3, WithRowsFits
    <3> QED BY <2>1, <3>3, <3>4
  <2>3. tree' = done.tree /\ stale' = done.stale /\ signals' = Announced(done.dic)
    BY <1>1, <2>1 DEF Import
  <2>4. /\ done.tree \in Trees /\ done.stale \in SUBSET Code /\ done.dic \in Dics
        /\ TreeFits(done.tree, done.stale) /\ DicFits(done.tree, done.dic)
    BY <2>2 DEF RequestStates
  <2>5. TreeFits(tree', stale') /\ DicFits(tree', done.dic)
    BY <2>3, <2>4
  <2> QED BY <2>3, <2>4, <2>5 DEF BulkInv
<1>2. ASSUME UNCHANGED <<tree, stale, signals>>
      PROVE  BulkInv'
  BY <1>2 DEF BulkInv
<1>3. CASE Notify
  BY <1>2, <1>3 DEF Notify
<1>4. CASE DieNotifying
  BY <1>2, <1>4 DEF DieNotifying
<1>5. CASE UNCHANGED bulkVars
  BY <1>2, <1>5 DEF bulkVars
<1> QED BY <1>1, <1>3, <1>4, <1>5 DEF BulkNext

\* Whatever requests a seller's categories are imported with, and wherever a
\* worker dies, paths and depths follow the parents, and new parents are
\* announced before their new children (category_bulk.py).
THEOREM BulkFollows == BulkSpec => []BulkFollowsParents
<1>1. BulkInit => BulkInv
  BY InitBulk
<1>2. BulkInv /\ [BulkNext]_bulkVars => BulkInv'
  BY BulkNextInv
<1>3. BulkInv => BulkFollowsParents
  BY BulkInvFollows
<1> QED BY <1>1, <1>2, <1>3, PTL DEF BulkSpec

-----------------------------------------------------------------------------
(***************************************************************************)
(* Brands.  A number that a worker holds is as true when it commits as it  *)
(* was when it was drawn, unless another drew at the same time; and of the *)
(* pages of a list, the brands before one that nobody touches only become  *)
(* more.                                                                   *)
(***************************************************************************)
\* What a worker is about.
NumberedWork == [step : {"numbered"}, number : Nat, code : BrandCode \cup {Nothing}]
InsertedWork == [step : {"inserted"}, id : Nat, row : BrandRow]
Changes ==
  UNION {[D -> BrandCode \cup {Nothing} \cup BOOLEAN] : D \in SUBSET {"code", "active"}}
ReadWork == [step : {"read"}, id : Nat, change : Changes]

WorkTyped(x) == x.step = "idle" \/ x \in NumberedWork \/ x \in InsertedWork \/ x \in ReadWork

ChangeTyped(change) ==
  /\ "code" \in DOMAIN change => change["code"] \in BrandCode \cup {Nothing}
  /\ "active" \in DOMAIN change => change["active"] \in BOOLEAN

\* Ids, times and the work at hand.
WorkOK ==
  /\ lastId \in Nat /\ clock \in Nat /\ BrandTypeOK
  /\ \A i \in DOMAIN brands : brands[i].at <= clock
  /\ DOMAIN work = Worker
  /\ \A w \in Worker :
       /\ WorkTyped(work[w])
       /\ work[w].step = "inserted" =>
            /\ work[w].id \in 1 .. lastId /\ work[w].id \notin DOMAIN brands
            /\ work[w].row.at <= clock
       /\ work[w].step = "read" =>
            work[w].id \in DOMAIN brands /\ ChangeTyped(work[w].change)
  /\ \A v, w \in Worker :
       v # w /\ work[v].step = "inserted" /\ work[w].step = "inserted" => work[v].id # work[w].id

\* The number a creation at work has drawn, and its code.
NumberOf(w) == IF work[w].step = "numbered" THEN work[w].number ELSE work[w].row.number

\* Without an overlap at most one request creates, and its id is the last.
OneCreates ==
  "overlap" \notin faults =>
    /\ \A v, w \in Worker : Creating(v) /\ Creating(w) => v = w
    /\ \A w \in Worker : work[w].step = "inserted" => \A i \in DOMAIN brands : i < work[w].id

\* The number it has drawn is as true when it is committed.
PendingCounts ==
  faults = {} =>
    /\ DOMAIN brands \subseteq Coded
    /\ \A w \in Worker : Creating(w) => NumberOf(w) = Cardinality(DOMAIN brands) + 1

PendingRises ==
  faults \subseteq {"codeless"} =>
    \A w \in Worker : Creating(w) => \A i \in Coded : brands[i].number < NumberOf(w)

PendingFollows ==
  \A w \in Worker : Creating(w) /\ NumberOf(w) > 1 =>
    \E j \in DOMAIN brands : brands[j].number = NumberOf(w) - 1

\* What the reader of a list has seen.
ListRecord ==
  [active : BOOLEAN, read : Nat, seen : SUBSET Nat, touched : SUBSET Nat, left : BOOLEAN]

\* A brand that was neither seen nor written to is on one of the pages ahead.
PagesGoOn ==
  list # Nothing =>
    /\ list \in ListRecord
    /\ ~list.left =>
         \A i \in ListedBrands \ list.touched :
           i \in list.seen \/ Cardinality(Before(i)) >= list.read * PageSize

BrandInv ==
  /\ WorkOK /\ OneCreates
  /\ NumbersCount /\ PendingCounts
  /\ CodedRise /\ PendingRises
  /\ NoNumberSkipped /\ PendingFollows
  /\ PagesGoOn

LEMMA InitBrands == BrandInit => BrandInv
<1> SUFFICES ASSUME BrandInit
             PROVE  BrandInv
  OBVIOUS
<1>1. /\ DOMAIN brands = {} /\ lastId = 0 /\ clock = 0 /\ list = Nothing
      /\ DOMAIN work = Worker /\ \A w \in Worker : work[w].step = "idle"
  BY DEF BrandInit, IdleWorker
<1>2. WorkOK
  BY <1>1 DEF WorkOK, BrandTypeOK, WorkTyped
<1>3. Coded = {} /\ \A w \in Worker : ~Creating(w)
  BY <1>1 DEF Coded, Creating
<1> QED
  BY <1>1, <1>2, <1>3
  DEF BrandInv, OneCreates, NumbersCount, PendingCounts, CodedRise, PendingRises,
      NoNumberSkipped, PendingFollows, PagesGoOn

\* The brands are finitely many.
LEMMA BrandsFinite ==
  ASSUME WorkOK
  PROVE  /\ IsFiniteSet(DOMAIN brands) /\ Cardinality(DOMAIN brands) \in Nat
         /\ \A S \in SUBSET DOMAIN brands : IsFiniteSet(S) /\ Cardinality(S) \in Nat
<1>1. IsFiniteSet(1 .. lastId)
  BY FS_Interval DEF WorkOK
<1>2. \A S \in SUBSET DOMAIN brands : IsFiniteSet(S) /\ Cardinality(S) \in Nat
  <2>1. SUFFICES ASSUME NEW S \in SUBSET DOMAIN brands
                 PROVE  IsFiniteSet(S) /\ Cardinality(S) \in Nat
    OBVIOUS
  <2>2. S \in SUBSET (1 .. lastId)
    BY DEF WorkOK, BrandTypeOK
  <2>3. IsFiniteSet(S)
    BY <1>1, <2>2, FS_Subset
  <2> QED BY <2>3, FS_CardinalityType
<1> QED BY <1>2



\* The last of some brands.
LEMMA LastOfBrands ==
  ASSUME WorkOK, NEW S \in SUBSET DOMAIN brands, S # {}
  PROVE  LastBrand(S) \in S /\ \A j \in S : j <= LastBrand(S)
<1>1. lastId \in Nat /\ S \subseteq 1 .. lastId
  BY DEF WorkOK, BrandTypeOK
<1> DEFINE Gaps == {lastId - j : j \in S}
<1>2. Gaps \in SUBSET Nat /\ Gaps # {}
  <2>1. \A j \in S : lastId - j \in Nat
    BY <1>1
  <2> QED BY <2>1
<1>3. PICK g \in Gaps : \A h \in Gaps : g <= h
  <2> HIDE DEF Gaps
  <2> QED BY <1>2, LeastOfNumbers
<1>4. PICK i \in S : g = lastId - i
  OBVIOUS
<1>5. \A j \in S : j <= i
  <2> TAKE j \in S
  <2>1. lastId - i <= lastId - j
    BY <1>3, <1>4
  <2> QED BY <1>1, <2>1
<1> QED BY <1>5 DEF LastBrand

\* The number that is drawn.
FollowsAll(n) ==
  /\ n \in Nat
  /\ faults = {} => n = Cardinality(DOMAIN brands) + 1
  /\ faults \subseteq {"codeless"} => \A i \in Coded : brands[i].number < n
  /\ n > 1 => \E j \in DOMAIN brands : brands[j].number = n - 1

LEMMA NextNumberFollows == BrandInv => FollowsAll(NextNumber)
<1> SUFFICES ASSUME BrandInv
             PROVE  FollowsAll(NextNumber)
  OBVIOUS
<1>1. /\ WorkOK /\ NumbersCount /\ PendingCounts /\ CodedRise
      /\ Coded \in SUBSET DOMAIN brands
      /\ \A i \in DOMAIN brands : brands[i].number \in Nat
  BY DEF BrandInv, Coded, WorkOK, BrandTypeOK, BrandRow
<1>2. CASE Coded = {}
  <2>1. NextNumber = 1
    BY <1>2 DEF NextNumber
  <2>2. faults = {} => Cardinality(DOMAIN brands) = 0
    BY <1>1, <1>2, FS_EmptySet DEF PendingCounts
  <2> QED BY <1>2, <2>1, <2>2 DEF FollowsAll
<1>3. CASE Coded # {}
  <2> DEFINE l == LastBrand(Coded)
  <2>1. l \in Coded /\ \A j \in Coded : j <= l
    BY <1>1, <1>3, LastOfBrands
  <2>2. NextNumber = brands[l].number + 1
    BY <1>3 DEF NextNumber
  <2> HIDE DEF l
  <2>3. brands[l].number \in Nat /\ NextNumber \in Nat /\ NextNumber - 1 = brands[l].number
    BY <1>1, <2>1, <2>2
  <2>4. ASSUME faults = {}
        PROVE  NextNumber = Cardinality(DOMAIN brands) + 1
    <3>1. {j \in DOMAIN brands : j <= l} = DOMAIN brands
      BY <1>1, <2>1, <2>4 DEF PendingCounts
    <3> QED BY <1>1, <2>1, <2>2, <2>4, <3>1 DEF NumbersCount
  <2>5. ASSUME faults \subseteq {"codeless"}, NEW i \in Coded
        PROVE  brands[i].number < NextNumber
    <3>1. i \in Nat /\ l \in Nat /\ i <= l
      BY <1>1, <2>1 DEF WorkOK, BrandTypeOK
    <3>2. i = l \/ brands[i].number < brands[l].number
      BY <1>1, <2>1, <2>5, <3>1 DEF CodedRise
    <3>3. brands[i].number \in Nat
      BY <1>1
    <3> QED BY <2>2, <2>3, <3>2, <3>3
  <2>6. NextNumber > 1 => \E j \in DOMAIN brands : brands[j].number = NextNumber - 1
    BY <1>1, <2>1, <2>3
  <2> QED BY <2>3, <2>4, <2>5, <2>6 DEF FollowsAll
<1> QED BY <1>2, <1>3

\* What is known of the numbers.
NumbersOK ==
  /\ NumbersCount /\ PendingCounts
  /\ CodedRise /\ PendingRises
  /\ NoNumberSkipped /\ PendingFollows

LEMMA NumbersAre ==
  NumbersOK /\ WorkOK =>
    \A w \in Worker : Creating(w) => FollowsAll(NumberOf(w))
<1> SUFFICES ASSUME NumbersOK, WorkOK, NEW w \in Worker, Creating(w)
             PROVE  FollowsAll(NumberOf(w))
  OBVIOUS
<1>1. NumberOf(w) \in Nat
  BY DEF WorkOK, WorkTyped, NumberedWork, InsertedWork, ReadWork, BrandRow, NumberOf, Creating
<1> QED BY <1>1 DEF NumbersOK, PendingCounts, PendingRises, PendingFollows, FollowsAll

\* The numbers stay right while no row is written and one worker at most draws one.
LEMMA NumbersStay ==
  ASSUME BrandInv, UNCHANGED brands, faults \subseteq faults', NEW c \in Worker,
         \A w \in Worker \ {c} : work'[w] = work[w],
         Creating(c)' => \/ Creating(c) /\ NumberOf(c)' = NumberOf(c)
                         \/ NumberOf(c)' = NextNumber
  PROVE  NumbersOK'
<1>1. NumbersOK /\ WorkOK
  BY DEF BrandInv, NumbersOK
<1>2. Coded' = Coded
  BY DEF Coded
<1>3. NumbersCount' /\ CodedRise' /\ NoNumberSkipped' /\ (faults' = {} => DOMAIN brands \subseteq Coded)
  BY <1>1, <1>2 DEF NumbersOK, NumbersCount, CodedRise, NoNumberSkipped, PendingCounts
<1>4. ASSUME NEW w \in Worker, Creating(w)'
      PROVE  FollowsAll(NumberOf(w)')
  <2>1. CASE w = c
    BY <1>1, <1>4, <2>1, NumbersAre, NextNumberFollows
  <2>2. CASE w # c
    <3>1. Creating(w) /\ NumberOf(w)' = NumberOf(w)
      BY <1>4, <2>2 DEF Creating, NumberOf
    <3> QED BY <1>1, <3>1, NumbersAre
  <2> QED BY <2>1, <2>2
<1>5. PendingCounts'
  BY <1>2, <1>3, <1>4 DEF PendingCounts, FollowsAll
<1>6. PendingRises'
  BY <1>2, <1>4 DEF PendingRises, FollowsAll
<1>7. PendingFollows'
  BY <1>4 DEF PendingFollows, FollowsAll
<1> QED BY <1>3, <1>5, <1>6, <1>7 DEF NumbersOK

\* So do the pages.
LEMMA PagesStay ==
  ASSUME PagesGoOn, UNCHANGED <<brands, list>>
  PROVE  PagesGoOn'
BY DEF PagesGoOn, ListedBrands, Matches, Before

LEMMA InvParts == BrandInv <=> WorkOK /\ OneCreates /\ NumbersOK /\ PagesGoOn
BY DEF BrandInv, NumbersOK

\* The work at hand stays right when one worker turns to something else.
LEMMA WorkStays ==
  ASSUME WorkOK, UNCHANGED brands, lastId' \in Nat, lastId' >= lastId,
         clock' \in Nat, clock' >= clock, NEW c \in Worker, NEW x,
         work' = [work EXCEPT ![c] = x], WorkTyped(x),
         x.step = "inserted" =>
           /\ x.id \in 1 .. lastId' /\ x.id \notin DOMAIN brands /\ x.row.at <= clock'
           /\ \A w \in Worker \ {c} : work[w].step = "inserted" => work[w].id # x.id,
         x.step = "read" => x.id \in DOMAIN brands /\ ChangeTyped(x.change)
  PROVE  WorkOK'
<1>1. /\ DOMAIN work' = Worker /\ work'[c] = x
      /\ \A w \in Worker \ {c} : work'[w] = work[w]
  BY DEF WorkOK
<1>2. BrandTypeOK' /\ \A i \in DOMAIN brands : brands'[i].at <= clock'
  <2>1. \A i \in DOMAIN brands : brands[i].at \in Nat
    BY DEF WorkOK, BrandTypeOK, BrandRow
  <2> QED BY <2>1 DEF WorkOK, BrandTypeOK
<1>3. ASSUME NEW w \in Worker
      PROVE  /\ WorkTyped(work'[w])
             /\ work'[w].step = "inserted" =>
                  /\ work'[w].id \in 1 .. lastId' /\ work'[w].id \notin DOMAIN brands'
                  /\ work'[w].row.at <= clock'
             /\ work'[w].step = "read" =>
                  work'[w].id \in DOMAIN brands' /\ ChangeTyped(work'[w].change)
  <2>1. CASE w = c
    BY <1>1, <2>1
  <2>2. CASE w # c
    <3>1. work'[w] = work[w]
      BY <1>1, <2>2
    <3>2. work[w].step = "inserted" => work[w].id \in Nat /\ work[w].row.at \in Nat
      BY DEF WorkOK, WorkTyped, NumberedWork, InsertedWork, ReadWork, BrandRow
    <3>3. /\ WorkTyped(work[w])
          /\ work[w].step = "inserted" =>
               /\ work[w].id \in 1 .. lastId /\ work[w].id \notin DOMAIN brands
               /\ work[w].row.at <= clock
          /\ work[w].step = "read" =>
               work[w].id \in DOMAIN brands /\ ChangeTyped(work[w].change)
      BY DEF WorkOK
    <3>4. lastId \in Nat /\ clock \in Nat
      BY DEF WorkOK
    <3> QED BY <3>1, <3>2, <3>3, <3>4
  <2> QED BY <2>1, <2>2
<1>4. \A v, w \in Worker :
        v # w /\ work'[v].step = "inserted" /\ work'[w].step = "inserted" => work'[v].id # work'[w].id
  BY <1>1 DEF WorkOK
<1> QED BY <1>1, <1>2, <1>3, <1>4 DEF WorkOK


-----------------------------------------------------------------------------
(* The actions.                                                            *)

LEMMA GenCodeInv ==
  ASSUME BrandInv, NEW w \in Worker, NEW code \in BrandCode \cup {Nothing}, GenCode(w, code)
  PROVE  BrandInv'
<1> DEFINE x == [step |-> "numbered", number |-> NextNumber, code |-> code]
<1>1. /\ work[w].step = "idle" /\ work' = [work EXCEPT ![w] = x]
      /\ faults' = faults \cup (IF \E v \in Worker : Creating(v) THEN {"overlap"} ELSE {})
      /\ UNCHANGED <<brands, lastId, clock, list>>
  BY DEF GenCode
<1>2. WorkOK /\ OneCreates /\ PagesGoOn
  BY InvParts
<1>3. NextNumber \in Nat
  BY NextNumberFollows DEF FollowsAll
<1>4. WorkTyped(x) /\ x.step = "numbered" /\ x.number = NextNumber
  BY <1>3 DEF WorkTyped, NumberedWork
<1> HIDE DEF x
<1>5. DOMAIN work' = Worker /\ work'[w] = x /\ \A v \in Worker \ {w} : work'[v] = work[v]
  BY <1>1, <1>2 DEF WorkOK
<1>6. WorkOK'
  <2>1. lastId' \in Nat /\ lastId' >= lastId /\ clock' \in Nat /\ clock' >= clock
    BY <1>1, <1>2 DEF WorkOK
  <2> QED BY <1>1, <1>2, <1>4, <2>1, WorkStays
<1>7. OneCreates'
  <2>1. SUFFICES ASSUME "overlap" \notin faults'
                 PROVE  OneCreates'
    BY DEF OneCreates
  <2>2. \A v \in Worker : ~Creating(v)
    BY <1>1, <2>1
  <2>3. \A v \in Worker : Creating(v)' => v = w
    BY <1>5, <2>2 DEF Creating
  <2>4. \A v \in Worker : work'[v].step # "inserted"
    BY <1>4, <1>5, <2>2 DEF Creating
  <2> QED BY <2>3, <2>4 DEF OneCreates
<1>8. NumbersOK'
  <2>1. NumberOf(w)' = NextNumber
    BY <1>4, <1>5 DEF NumberOf
  <2>2. faults \subseteq faults'
    BY <1>1
  <2> QED BY <1>1, <1>5, <2>1, <2>2, NumbersStay
<1>9. PagesGoOn'
  BY <1>1, <1>2, PagesStay
<1> QED BY <1>6, <1>7, <1>8, <1>9, InvParts DEF BrandInv, NumbersOK

LEMMA InsertInv ==
  ASSUME BrandInv, NEW w \in Worker, Insert(w)
  PROVE  BrandInv'
<1> DEFINE row == [number |-> work[w].number, code |-> work[w].code, active |-> TRUE, at |-> clock + 1]
           x == [step |-> "inserted", id |-> lastId + 1, row |-> row]
<1>1. /\ work[w].step = "numbered" /\ work' = [work EXCEPT ![w] = x]
      /\ lastId' = lastId + 1 /\ clock' = clock + 1
      /\ UNCHANGED <<brands, faults, list>>
  BY DEF Insert
<1>2. WorkOK /\ OneCreates /\ PagesGoOn
  BY InvParts
<1>3. work[w] \in NumberedWork /\ lastId \in Nat /\ clock \in Nat
  BY <1>1, <1>2 DEF WorkOK, WorkTyped, InsertedWork, ReadWork
<1>4. row \in BrandRow /\ row.at = clock + 1 /\ row.number = work[w].number
  BY <1>3 DEF BrandRow, NumberedWork
<1> HIDE DEF row
<1>5. WorkTyped(x) /\ x.step = "inserted" /\ x.id = lastId + 1 /\ x.row = row
  BY <1>3, <1>4 DEF WorkTyped, InsertedWork
<1> HIDE DEF x
<1>6. DOMAIN work' = Worker /\ work'[w] = x /\ \A v \in Worker \ {w} : work'[v] = work[v]
  BY <1>1, <1>2 DEF WorkOK
<1>7. \A i \in DOMAIN brands : i \in Nat /\ i < lastId + 1
  BY <1>2, <1>3 DEF WorkOK, BrandTypeOK
<1>8. WorkOK'
  <2>1. lastId' \in Nat /\ lastId' >= lastId /\ clock' \in Nat /\ clock' >= clock
    BY <1>1, <1>3
  <2>2. x.id \in 1 .. lastId' /\ x.id \notin DOMAIN brands /\ x.row.at <= clock'
    BY <1>1, <1>3, <1>4, <1>5, <1>7
  <2>3. \A v \in Worker : work[v].step = "inserted" => work[v].id # x.id
    BY <1>2, <1>3, <1>5 DEF WorkOK
  <2> QED BY <1>1, <1>2, <1>5, <2>1, <2>2, <2>3, WorkStays
<1>9. OneCreates'
  <2>1. SUFFICES ASSUME "overlap" \notin faults
                 PROVE  OneCreates'
    BY <1>1 DEF OneCreates
  <2>2. \A v \in Worker : Creating(v)' => Creating(v)
    BY <1>1, <1>6 DEF Creating
  <2>3. \A v \in Worker : work'[v].step = "inserted" =>
        v = w \/ (work[v].step = "inserted" /\ work'[v] = work[v])
    BY <1>6
  <2>4. \A v \in Worker : work'[v].step = "inserted" => \A i \in DOMAIN brands' : i < work'[v].id
    <3>1. work'[w].id = lastId + 1
      BY <1>5, <1>6
    <3> QED BY <1>1, <1>2, <1>7, <2>1, <2>3, <3>1 DEF OneCreates
  <2>5. \A v, u \in Worker : Creating(v)' /\ Creating(u)' => v = u
    BY <1>2, <2>1, <2>2 DEF OneCreates
  <2> QED BY <2>4, <2>5 DEF OneCreates
<1>10. NumbersOK'
  <2>1. Creating(w) /\ NumberOf(w)' = NumberOf(w)
    BY <1>1, <1>4, <1>5, <1>6 DEF Creating, NumberOf
  <2> QED BY <1>1, <1>6, <2>1, NumbersStay
<1>11. PagesGoOn'
  BY <1>1, <1>2, PagesStay
<1> QED BY <1>8, <1>9, <1>10, <1>11, InvParts DEF BrandInv, NumbersOK

\* A worker that stops, or that reads for an update.
LEMMA TurnsInv ==
  ASSUME BrandInv, NEW w \in Worker, NEW x, work' = [work EXCEPT ![w] = x],
         UNCHANGED <<brands, lastId, clock, faults, list>>, WorkTyped(x),
         x.step \in {"idle", "read"},
         x.step = "read" => x.id \in DOMAIN brands /\ ChangeTyped(x.change)
  PROVE  BrandInv'
<1>1. WorkOK /\ OneCreates /\ PagesGoOn
  BY InvParts
<1>2. DOMAIN work' = Worker /\ work'[w] = x /\ \A v \in Worker \ {w} : work'[v] = work[v]
  BY <1>1 DEF WorkOK
<1>3. WorkOK'
  <2>1. lastId' \in Nat /\ lastId' >= lastId /\ clock' \in Nat /\ clock' >= clock
    BY <1>1 DEF WorkOK
  <2> QED BY <1>1, <2>1, WorkStays
<1>4. \A v \in Worker : (Creating(v)' => v # w /\ Creating(v)) /\ (work'[v].step = "inserted" => v # w)
  BY <1>2 DEF Creating
<1>5. OneCreates'
  BY <1>1, <1>2, <1>4 DEF OneCreates
<1>6. NumbersOK'
  BY <1>2, <1>4, NumbersStay
<1>7. PagesGoOn'
  BY <1>1, PagesStay
<1> QED BY <1>3, <1>5, <1>6, <1>7, InvParts DEF BrandInv, NumbersOK

LEMMA GiveUpInv ==
  ASSUME BrandInv, NEW w \in Worker, GiveUp(w)
  PROVE  BrandInv'
<1>1. WorkTyped(IdleWorker) /\ IdleWorker.step = "idle"
  BY DEF IdleWorker, WorkTyped
<1> QED BY <1>1, TurnsInv DEF GiveUp

LEMMA ReadInv ==
  ASSUME BrandInv, NEW w \in Worker, NEW i \in DOMAIN brands, NEW change,
         DOMAIN change \subseteq {"code", "active"}, ChangeTyped(change), Read(w, i, change)
  PROVE  BrandInv'
<1> DEFINE kept == [c \in {d \in DOMAIN change : change[d] # brands[i][d]} |-> change[c]]
           x == [step |-> "read", id |-> i, change |-> kept]
<1>1. work' = [work EXCEPT ![w] = x] /\ UNCHANGED <<brands, lastId, clock, faults, list>>
  BY DEF Read
<1>2. DOMAIN kept \subseteq DOMAIN change /\ \A c \in DOMAIN kept : kept[c] = change[c]
  OBVIOUS
<1>3. kept = [c \in DOMAIN kept |-> kept[c]]
  OBVIOUS
<1> HIDE DEF kept
<1>4. ChangeTyped(kept)
  BY <1>2 DEF ChangeTyped
<1>5. kept \in Changes
  <2>1. DOMAIN kept \in SUBSET {"code", "active"}
    BY <1>2
  <2>2. \A c \in DOMAIN kept : kept[c] \in BrandCode \cup {Nothing} \cup BOOLEAN
    BY <1>4, <2>1 DEF ChangeTyped
  <2>3. kept \in [DOMAIN kept -> BrandCode \cup {Nothing} \cup BOOLEAN]
    BY <1>3, <2>2
  <2> QED BY <2>1, <2>3 DEF Changes
<1>6. i \in Nat
  BY InvParts DEF WorkOK, BrandTypeOK
<1>7. WorkTyped(x) /\ x.step = "read" /\ x.id = i /\ x.change = kept
  BY <1>5, <1>6 DEF WorkTyped, ReadWork
<1> HIDE DEF x
<1> QED BY <1>1, <1>4, <1>7, TurnsInv

\* What both requests of the list do.
LEMMA ListInv ==
  ASSUME BrandInv, UNCHANGED <<brands, lastId, clock, work, faults>>, PagesGoOn'
  PROVE  BrandInv'
<1>1. WorkOK' /\ OneCreates' /\ NumbersOK'
  BY InvParts
  DEF WorkOK, BrandTypeOK, OneCreates, Creating, NumbersOK, NumbersCount, PendingCounts, CodedRise,
      PendingRises, NoNumberSkipped, PendingFollows, Coded, NumberOf
<1> QED BY <1>1 DEF BrandInv, NumbersOK

LEMMA OpenListInv ==
  ASSUME BrandInv, NEW active \in BOOLEAN, OpenList(active)
  PROVE  BrandInv'
<1> DEFINE new == [active |-> active, read |-> 0, seen |-> {}, touched |-> {}, left |-> FALSE]
<1>0. new \in ListRecord /\ new.read = 0
  BY DEF ListRecord
<1>1. /\ UNCHANGED <<brands, lastId, clock, work, faults>> /\ list'.read = 0 /\ list' \in ListRecord
  BY <1>0 DEF OpenList
<1>2. ASSUME NEW i \in (ListedBrands \ list.touched)'
      PROVE  Cardinality(Before(i))' >= list'.read * PageSize
  <2>1. Before(i)' \in SUBSET DOMAIN brands
    BY <1>1 DEF Before, ListedBrands
  <2>2. Cardinality(Before(i)') \in Nat
    BY <2>1, BrandsFinite, InvParts
  <2>3. list'.read * PageSize = 0
    BY <1>1, BrandAssumption
  <2> QED BY <2>2, <2>3
<1>3. PagesGoOn'
  BY <1>1, <1>2 DEF PagesGoOn
<1> QED BY <1>1, <1>3, ListInv

LEMMA ReadPageInv ==
  ASSUME BrandInv, ReadPage
  PROVE  BrandInv'
<1>1. /\ list # Nothing
      /\ list' = [list EXCEPT !.read = @ + 1, !.seen = @ \cup Page(list.read + 1)]
      /\ UNCHANGED <<brands, lastId, clock, work, faults>>
  BY DEF ReadPage
<1>2. PagesGoOn /\ WorkOK
  BY InvParts
<1>3. list \in ListRecord
  BY <1>1, <1>2 DEF PagesGoOn
<1>4. Page(list.read + 1) \in SUBSET Nat
  BY <1>2 DEF Page, ListedBrands, WorkOK, BrandTypeOK
<1>5. /\ list' \in ListRecord /\ list'.active = list.active /\ list'.left = list.left
      /\ list'.read = list.read + 1 /\ list'.seen = list.seen \cup Page(list.read + 1)
      /\ list'.touched = list.touched /\ list.read \in Nat
  <2>1. list.read + 1 \in Nat /\ list.seen \cup Page(list.read + 1) \in SUBSET Nat
    BY <1>3, <1>4 DEF ListRecord
  <2> QED BY <1>1, <1>3, <2>1 DEF ListRecord
<1>6. ListedBrands' = ListedBrands /\ \A i \in DOMAIN brands : Before(i)' = Before(i)
  BY <1>1, <1>5 DEF ListedBrands, Matches, Before
<1>7. ASSUME ~list.left, NEW i \in ListedBrands \ list.touched
      PROVE  i \in list'.seen \/ Cardinality(Before(i)) >= list'.read * PageSize
  <2>1. i \in DOMAIN brands /\ Before(i) \in SUBSET DOMAIN brands
    BY DEF ListedBrands, Before
  <2> DEFINE b == Cardinality(Before(i))
             n == list.read
  <2>2. b \in Nat /\ n \in Nat /\ PageSize \in Nat
    BY <1>2, <1>5, <2>1, BrandsFinite, BrandAssumption
  <2>3. i \in list.seen \/ b >= n * PageSize
    BY <1>1, <1>2, <1>7 DEF PagesGoOn
  <2>4. i \in Page(n + 1) <=> b \in ((n + 1) - 1) * PageSize .. (n + 1) * PageSize - 1
    BY <1>7 DEF Page
  <2> HIDE DEF b, n
  <2>5. /\ ((n + 1) - 1) * PageSize = n * PageSize
        /\ n * PageSize \in Nat /\ (n + 1) * PageSize \in Nat
    BY <2>2
  <2>6. i \in list.seen \/ i \in Page(n + 1) \/ b >= (n + 1) * PageSize
    BY <2>2, <2>3, <2>4, <2>5
  <2> QED BY <1>5, <2>6 DEF n, b
<1>8. PagesGoOn'
  <2>1. \A i \in ListedBrands : i \in DOMAIN brands
    BY DEF ListedBrands
  <2> QED BY <1>5, <1>6, <1>7, <2>1 DEF PagesGoOn
<1> QED BY <1>1, <1>8, ListInv

-----------------------------------------------------------------------------
(* Commits.                                                                *)

\* A commit of row i brings brands forward that the reader has noted, or adds
\* some: those before a brand nobody writes to only become more.
LEMMA PagesNoticed ==
  ASSUME BrandInv, NEW i, NEW after, after \in BrandRow, list' = Noticed(i, after),
         i \in Nat, brands' = [j \in DOMAIN brands \cup {i} |-> IF j = i THEN after ELSE brands[j]],
         i \in DOMAIN brands => after.at > clock, IsFiniteSet(DOMAIN brands')
  PROVE  PagesGoOn'
<1>1. PagesGoOn /\ WorkOK
  BY InvParts
<1>2. CASE list = Nothing
  BY <1>2 DEF Noticed, PagesGoOn
<1>3. CASE list # Nothing
  <2>1. list \in ListRecord
    BY <1>1, <1>3 DEF PagesGoOn
  <2> DEFINE lost == i \in DOMAIN brands /\ brands[i].active /\ ~after.active
  <2>2. list' = [list EXCEPT !.touched = @ \cup {i}, !.left = @ \/ lost]
    BY <1>3 DEF Noticed
  <2>3. lost \in BOOLEAN
    OBVIOUS
  <2>4. /\ list' \in ListRecord /\ list'.active = list.active /\ list'.read = list.read
        /\ list'.seen = list.seen /\ list'.touched = list.touched \cup {i}
        /\ list'.left = (list.left \/ lost) /\ list.read \in Nat
    <3> HIDE DEF lost
    <3>1. list.touched \cup {i} \in SUBSET Nat /\ (list.left \/ lost) \in BOOLEAN
      BY <2>1, <2>3 DEF ListRecord
    <3> QED BY <2>1, <2>2, <3>1 DEF ListRecord
  <2>5. /\ DOMAIN brands' = DOMAIN brands \cup {i} /\ brands'[i] = after
        /\ \A j \in DOMAIN brands \ {i} : brands'[j] = brands[j]
    OBVIOUS
  <2>6. /\ \A j \in DOMAIN brands : brands[j].at \in Nat /\ brands[j].at <= clock /\ brands[j].active \in BOOLEAN
        /\ clock \in Nat /\ after.at \in Nat
    BY <1>1 DEF WorkOK, BrandTypeOK, BrandRow
  <2>7. ASSUME ~list'.left, NEW k \in (ListedBrands \ list.touched)'
        PROVE  k \in list.seen \/ Cardinality(Before(k))' >= list.read * PageSize
    <3>1. k \in DOMAIN brands \ {i} /\ brands'[k] = brands[k] /\ k \notin list.touched
      BY <2>4, <2>5, <2>7 DEF ListedBrands
    <3>2. k \in ListedBrands
      BY <2>4, <2>5, <2>7, <3>1 DEF ListedBrands, Matches
    <3>3. ASSUME NEW j \in Before(k)
          PROVE  j \in Before(k)'
      <4>1. j \in DOMAIN brands /\ (list.active => brands[j].active) /\ brands[j].at > brands[k].at
        BY <3>3 DEF Before, ListedBrands, Matches
      <4>2. CASE j = i
        <5>1. list.active => after.active
          BY <2>4, <2>7, <4>1, <4>2
        <5>2. after.at > brands[k].at
          BY <2>6, <3>1, <4>1, <4>2
        <5> QED BY <2>4, <2>5, <3>1, <4>1, <4>2, <5>1, <5>2 DEF Before, ListedBrands, Matches
      <4>3. CASE j # i
        BY <2>4, <2>5, <3>1, <4>1, <4>3 DEF Before, ListedBrands, Matches
      <4> QED BY <4>2, <4>3
    <3> DEFINE S == Before(k)
               T == Before(k)'
    <3>4. S \subseteq T /\ T \subseteq DOMAIN brands'
      BY <3>3 DEF Before, ListedBrands
    <3>5. Cardinality(S) <= Cardinality(T) /\ Cardinality(T) \in Nat /\ Cardinality(S) \in Nat
      <4> HIDE DEF S, T
      <4>1. IsFiniteSet(T)
        BY <3>4, FS_Subset
      <4> QED BY <3>4, <4>1, FS_Subset, FS_CardinalityType
    <3>6. k \in list.seen \/ Cardinality(S) >= list.read * PageSize
      BY <1>1, <1>3, <2>4, <2>7, <3>1, <3>2 DEF PagesGoOn
    <3>7. list.read * PageSize \in Nat
      BY <2>4, BrandAssumption
    <3> HIDE DEF S, T
    <3>8. k \in list.seen \/ Cardinality(T) >= list.read * PageSize
      BY <3>5, <3>6, <3>7
    <3> QED BY <3>8 DEF T
  <2> QED BY <2>4, <2>7 DEF PagesGoOn
<1> QED BY <1>2, <1>3

LEMMA CommitCreateInv ==
  ASSUME BrandInv, NEW w \in Worker, CommitCreate(w)
  PROVE  BrandInv'
<1> DEFINE b == work[w].id
           row == work[w].row
<1>1. /\ work[w].step = "inserted"
      /\ brands' = [j \in DOMAIN brands \cup {b} |-> IF j = b THEN row ELSE brands[j]]
      /\ faults' = faults \cup (IF row.code = Nothing THEN {"codeless"} ELSE {})
      /\ list' = Noticed(b, row) /\ work' = [work EXCEPT ![w] = IdleWorker]
      /\ UNCHANGED <<lastId, clock>>
  BY DEF CommitCreate
<1>2. WorkOK /\ OneCreates /\ NumbersOK /\ PagesGoOn
  BY InvParts
<1>3. /\ b \in Nat /\ b \in 1 .. lastId /\ b \notin DOMAIN brands /\ row \in BrandRow
      /\ row.at <= clock /\ Creating(w) /\ NumberOf(w) = row.number /\ row.number \in Nat
  BY <1>1, <1>2 DEF WorkOK, WorkTyped, NumberedWork, InsertedWork, ReadWork, BrandRow, Creating, NumberOf
<1>4. /\ DOMAIN work' = Worker /\ work'[w].step = "idle"
      /\ \A v \in Worker \ {w} : work'[v] = work[v]
  BY <1>1, <1>2 DEF WorkOK, IdleWorker
<1> HIDE DEF b, row
<1>5. /\ DOMAIN brands' = DOMAIN brands \cup {b} /\ brands'[b] = row
      /\ \A j \in DOMAIN brands : brands'[j] = brands[j]
  BY <1>1, <1>3
<1>6. \A v \in Worker \ {w} : work[v].step = "inserted" => work[v].id # b
  BY <1>1, <1>2 DEF WorkOK, b
<1>7. WorkOK'
  <2>1. BrandTypeOK'
    BY <1>1, <1>2, <1>3, <1>5 DEF WorkOK, BrandTypeOK
  <2>2. ASSUME NEW v \in Worker
        PROVE  /\ WorkTyped(work'[v])
               /\ work'[v].step = "inserted" =>
                    /\ work'[v].id \in 1 .. lastId /\ work'[v].id \notin DOMAIN brands'
                    /\ work'[v].row.at <= clock
               /\ work'[v].step = "read" =>
                    work'[v].id \in DOMAIN brands' /\ ChangeTyped(work'[v].change)
    <3>1. CASE v = w
      BY <1>4, <3>1 DEF WorkTyped
    <3>2. CASE v # w
      BY <1>2, <1>4, <1>5, <1>6, <3>2 DEF WorkOK
    <3> QED BY <3>1, <3>2
  <2>3. \A v, u \in Worker :
          v # u /\ work'[v].step = "inserted" /\ work'[u].step = "inserted" => work'[v].id # work'[u].id
    BY <1>2, <1>4 DEF WorkOK
  <2>4. \A j \in DOMAIN brands' : brands'[j].at <= clock
    BY <1>2, <1>3, <1>5 DEF WorkOK
  <2> QED BY <1>1, <1>2, <1>4, <2>1, <2>2, <2>3, <2>4 DEF WorkOK
<1>8. \A v \in Worker : Creating(v)' => v # w /\ Creating(v) /\ NumberOf(v)' = NumberOf(v)
  BY <1>4 DEF Creating, NumberOf
<1>9. ASSUME "overlap" \notin faults'
      PROVE  /\ \A v \in Worker : ~Creating(v)'
             /\ \A j \in DOMAIN brands : j < b
  BY <1>1, <1>2, <1>3, <1>8, <1>9 DEF OneCreates, b
<1>10. OneCreates'
  <2>1. \A v \in Worker : work'[v].step = "inserted" => Creating(v)'
    BY DEF Creating
  <2> QED BY <1>9, <2>1 DEF OneCreates
<1>11. FollowsAll(row.number)
  BY <1>2, <1>3, NumbersAre
<1>12. NumbersCount'
  <2>1. SUFFICES ASSUME faults' = {}, NEW j \in DOMAIN brands'
                 PROVE  brands'[j].number = Cardinality({k \in DOMAIN brands' : k <= j})
    BY DEF NumbersCount
  <2>2. faults = {} /\ "overlap" \notin faults'
    BY <1>1, <2>1
  <2>3. \A k \in DOMAIN brands : k \in Nat /\ k < b
    BY <1>2, <1>9, <2>2 DEF WorkOK, BrandTypeOK
  <2>4. CASE j = b
    <3>1. {k \in DOMAIN brands' : k <= b} = DOMAIN brands \cup {b}
      BY <1>3, <1>5, <2>3
    <3>2. Cardinality(DOMAIN brands \cup {b}) = Cardinality(DOMAIN brands) + 1
      BY <1>2, <1>3, BrandsFinite, FS_AddElement
    <3> QED BY <1>5, <1>11, <2>2, <2>4, <3>1, <3>2 DEF FollowsAll
  <2>5. CASE j # b
    <3>1. j \in DOMAIN brands
      BY <1>5, <2>5
    <3>2. {k \in DOMAIN brands' : k <= j} = {k \in DOMAIN brands : k <= j}
      BY <1>3, <1>5, <2>3, <3>1
    <3> QED BY <1>2, <1>5, <2>2, <3>1, <3>2 DEF NumbersOK, NumbersCount
  <2> QED BY <2>4, <2>5
<1>13. PendingCounts'
  <2>1. SUFFICES ASSUME faults' = {}
                 PROVE  DOMAIN brands' \subseteq Coded' /\ \A v \in Worker : ~Creating(v)'
    BY DEF PendingCounts
  <2>2. faults = {} /\ "overlap" \notin faults' /\ row.code # Nothing
    BY <1>1, <2>1
  <2>3. DOMAIN brands' \subseteq Coded'
    BY <1>2, <1>5, <2>2 DEF NumbersOK, PendingCounts, Coded
  <2> QED BY <1>9, <2>2, <2>3
<1>14. CodedRise' /\ PendingRises'
  <2>1. SUFFICES ASSUME faults' \subseteq {"codeless"}
                 PROVE  /\ \A j, k \in Coded' : j < k => brands'[j].number < brands'[k].number
                        /\ \A v \in Worker : ~Creating(v)'
    BY DEF CodedRise, PendingRises
  <2>2. faults \subseteq {"codeless"} /\ "overlap" \notin faults'
    BY <1>1, <2>1
  <2>3. ASSUME NEW j \in Coded', NEW k \in Coded', j < k
        PROVE  brands'[j].number < brands'[k].number
    <3>1. \A l \in DOMAIN brands : l \in Nat /\ l < b
      BY <1>2, <1>9, <2>2 DEF WorkOK, BrandTypeOK
    <3>2. j \in DOMAIN brands' /\ k \in DOMAIN brands'
      BY DEF Coded
    <3>3. j # b
      BY <1>3, <1>5, <2>3, <3>1, <3>2
    <3>4. j \in Coded /\ brands'[j] = brands[j]
      BY <1>5, <3>2, <3>3 DEF Coded
    <3>5. CASE k = b
      BY <1>5, <1>11, <2>2, <3>4, <3>5 DEF FollowsAll
    <3>6. CASE k # b
      <4>1. k \in Coded /\ brands'[k] = brands[k]
        BY <1>5, <3>2, <3>6 DEF Coded
      <4> QED BY <1>2, <2>2, <2>3, <3>4, <4>1 DEF NumbersOK, CodedRise
    <3> QED BY <3>5, <3>6
  <2> QED BY <1>9, <2>2, <2>3
<1>15. NoNumberSkipped' /\ PendingFollows'
  <2>1. ASSUME NEW n, \E j \in DOMAIN brands : brands[j].number = n
        PROVE  \E j \in DOMAIN brands' : brands'[j].number = n
    BY <1>5, <2>1
  <2>2. NoNumberSkipped'
    BY <1>2, <1>5, <1>11, <2>1 DEF NumbersOK, NoNumberSkipped, FollowsAll
  <2>3. PendingFollows'
    BY <1>2, <1>8, <2>1 DEF NumbersOK, PendingFollows
  <2> QED BY <2>2, <2>3
<1>16. PagesGoOn'
  <2>1. IsFiniteSet(DOMAIN brands')
    BY <1>2, <1>5, BrandsFinite, FS_AddElement
  <2> QED BY <1>1, <1>3, <2>1, PagesNoticed
<1> QED BY <1>7, <1>10, <1>12, <1>13, <1>14, <1>15, <1>16 DEF BrandInv

\* Row i with what was sent.
Sent(i, change, c) == IF c \in DOMAIN change THEN change[c] ELSE brands[i][c]
Updated(i, change) ==
  [brands[i] EXCEPT !.code = Sent(i, change, "code"), !.active = Sent(i, change, "active"),
                    !.at = clock + 1]

LEMMA CommitUpdateInv ==
  ASSUME BrandInv, NEW w \in Worker, CommitUpdate(w)
  PROVE  BrandInv'
<1> DEFINE b == work[w].id
           change == work[w].change
           after == Updated(b, change)
<1>1. /\ work[w].step = "read" /\ work' = [work EXCEPT ![w] = IdleWorker] /\ UNCHANGED lastId
      /\ \/ UNCHANGED <<brands, clock, faults, list>>
         \/ /\ clock' = clock + 1 /\ brands' = [brands EXCEPT ![b] = after]
            /\ list' = Noticed(b, after)
            /\ faults' = faults \cup
                 (IF "code" \in DOMAIN change /\ Nothing \in {change.code, brands[b].code}
                  THEN {"recoded"} ELSE {})
  BY DEF CommitUpdate, Updated, Sent
<1>2. CASE UNCHANGED <<brands, clock, faults, list>>
  <2>1. WorkTyped(IdleWorker) /\ IdleWorker.step = "idle"
    BY DEF IdleWorker, WorkTyped
  <2> QED BY <1>1, <1>2, <2>1, TurnsInv
<1>3. CASE ~UNCHANGED <<brands, clock, faults, list>>
  <2>1. /\ clock' = clock + 1 /\ brands' = [brands EXCEPT ![b] = after]
        /\ list' = Noticed(b, after)
        /\ faults' = faults \cup
             (IF "code" \in DOMAIN change /\ Nothing \in {change["code"], brands[b].code}
              THEN {"recoded"} ELSE {})
    BY <1>1, <1>3
  <2>2. WorkOK /\ OneCreates /\ NumbersOK /\ PagesGoOn
    BY InvParts
  <2>3. b \in DOMAIN brands /\ ChangeTyped(change)
    BY <1>1, <2>2 DEF WorkOK
  <2>4. /\ b \in Nat /\ brands[b] \in BrandRow /\ clock \in Nat /\ lastId \in Nat
        /\ b \in 1 .. lastId
    BY <2>2, <2>3 DEF WorkOK, BrandTypeOK
  <2>5. /\ Sent(b, change, "code") \in BrandCode \cup {Nothing}
        /\ Sent(b, change, "active") \in BOOLEAN
    BY <2>3, <2>4 DEF Sent, ChangeTyped, BrandRow
  <2>6. /\ after \in BrandRow /\ after.number = brands[b].number /\ after.at = clock + 1
        /\ after.code = Sent(b, change, "code")
    <3> DEFINE r == brands[b]
               c == Sent(b, change, "code")
               a == Sent(b, change, "active")
    <3>1. r \in BrandRow /\ c \in BrandCode \cup {Nothing} /\ a \in BOOLEAN
      BY <2>4, <2>5
    <3>2. after = [r EXCEPT !.code = c, !.active = a, !.at = clock + 1]
      BY DEF Updated
    <3>3. clock + 1 \in Nat
      BY <2>4
    <3> HIDE DEF r, c, a, after
    <3>4. after \in BrandRow /\ after.number = r.number /\ after.at = clock + 1 /\ after.code = c
      BY <3>1, <3>2, <3>3 DEF BrandRow
    <3> QED BY <3>4 DEF r, c
  <2>7. /\ DOMAIN work' = Worker /\ work'[w].step = "idle"
        /\ \A v \in Worker \ {w} : work'[v] = work[v]
    BY <1>1, <2>2 DEF WorkOK, IdleWorker
  <2>8. "recoded" \notin faults' => (after.code = Nothing <=> brands[b].code = Nothing)
    BY <2>1, <2>6 DEF Sent
  <2> HIDE DEF after, change, b
  <2>9. /\ DOMAIN brands' = DOMAIN brands /\ brands'[b] = after
        /\ \A j \in DOMAIN brands \ {b} : brands'[j] = brands[j]
        /\ \A j \in DOMAIN brands : brands'[j].number = brands[j].number
        /\ \A j \in DOMAIN brands : brands[j].number \in Nat
    BY <2>1, <2>2, <2>3, <2>6 DEF WorkOK, BrandTypeOK, BrandRow
  <2>10. "recoded" \notin faults' => Coded' = Coded
    BY <2>8, <2>9 DEF Coded
  <2>11. WorkOK'
    <3>1. BrandTypeOK'
      BY <1>1, <2>2, <2>6, <2>9 DEF WorkOK, BrandTypeOK
    <3>2. \A j \in DOMAIN brands' : brands'[j].at <= clock'
      <4>1. \A j \in DOMAIN brands : brands[j].at \in Nat /\ brands[j].at <= clock
        BY <2>2 DEF WorkOK, BrandTypeOK, BrandRow
      <4> QED BY <2>1, <2>4, <2>6, <2>9, <4>1
    <3>3. ASSUME NEW v \in Worker
          PROVE  /\ WorkTyped(work'[v])
                 /\ work'[v].step = "inserted" =>
                      /\ work'[v].id \in 1 .. lastId /\ work'[v].id \notin DOMAIN brands'
                      /\ work'[v].row.at <= clock'
                 /\ work'[v].step = "read" =>
                      work'[v].id \in DOMAIN brands' /\ ChangeTyped(work'[v].change)
      <4>1. CASE v = w
        BY <2>7, <4>1 DEF WorkTyped
      <4>2. CASE v # w
        <5>1. work[v].step = "inserted" => work[v].row.at \in Nat
          BY <2>2 DEF WorkOK, WorkTyped, NumberedWork, InsertedWork, ReadWork, BrandRow
        <5>2. /\ WorkTyped(work[v])
              /\ work[v].step = "inserted" =>
                   /\ work[v].id \in 1 .. lastId /\ work[v].id \notin DOMAIN brands
                   /\ work[v].row.at <= clock
              /\ work[v].step = "read" =>
                   work[v].id \in DOMAIN brands /\ ChangeTyped(work[v].change)
          BY <2>2 DEF WorkOK
        <5>3. work'[v] = work[v]
          BY <2>7, <4>2
        <5> QED BY <2>1, <2>4, <2>9, <5>1, <5>2, <5>3
      <4> QED BY <4>1, <4>2
    <3>4. \A v, u \in Worker :
            v # u /\ work'[v].step = "inserted" /\ work'[u].step = "inserted" => work'[v].id # work'[u].id
      BY <2>2, <2>7 DEF WorkOK
    <3> QED BY <1>1, <2>1, <2>4, <2>7, <3>1, <3>2, <3>3, <3>4 DEF WorkOK
  <2>12. \A v \in Worker : Creating(v)' => Creating(v) /\ NumberOf(v)' = NumberOf(v) /\ work'[v] = work[v]
    BY <2>7 DEF Creating, NumberOf
  <2>13. OneCreates'
    <3>1. \A v \in Worker : work'[v].step = "inserted" => Creating(v)'
      BY DEF Creating
    <3> QED BY <2>1, <2>2, <2>9, <2>12, <3>1 DEF OneCreates
  <2>14. \A v \in Worker : Creating(v)' => FollowsAll(NumberOf(v)')
    BY <2>2, <2>12, NumbersAre
  <2>15. NumbersCount' /\ PendingCounts'
    BY <2>1, <2>2, <2>9, <2>10, <2>12 DEF NumbersOK, NumbersCount, PendingCounts
  <2>16. CodedRise'
    BY <2>1, <2>2, <2>9, <2>10 DEF NumbersOK, CodedRise, Coded
  <2>17. PendingRises'
    <3>1. SUFFICES ASSUME faults' \subseteq {"codeless"}, NEW v \in Worker, Creating(v)', NEW j \in Coded'
                   PROVE  brands'[j].number < NumberOf(v)'
      BY DEF PendingRises
    <3>2. faults \subseteq {"codeless"} /\ j \in Coded /\ j \in DOMAIN brands
      BY <2>1, <2>10, <3>1 DEF Coded
    <3> QED BY <2>9, <2>14, <3>1, <3>2 DEF FollowsAll
  <2>18. NoNumberSkipped' /\ PendingFollows'
    <3>1. ASSUME NEW n, \E j \in DOMAIN brands : brands[j].number = n
          PROVE  \E j \in DOMAIN brands' : brands'[j].number = n
      BY <2>9, <3>1
    <3>2. NoNumberSkipped'
      BY <2>2, <2>9, <3>1 DEF NumbersOK, NoNumberSkipped
    <3>3. PendingFollows'
      BY <2>14, <3>1 DEF PendingFollows, FollowsAll
    <3> QED BY <3>2, <3>3
  <2>19. PagesGoOn'
    <3>1. IsFiniteSet(DOMAIN brands')
      BY <2>2, <2>9, BrandsFinite
    <3>2. brands' = [j \in DOMAIN brands \cup {b} |-> IF j = b THEN after ELSE brands[j]]
      <4>1. DOMAIN brands \cup {b} = DOMAIN brands
        BY <2>3
      <4> QED BY <2>1, <2>3, <4>1
    <3>3. after.at > clock
      BY <2>4, <2>6
    <3> QED BY <2>1, <2>4, <2>6, <3>1, <3>2, <3>3, PagesNoticed
  <2> QED BY <2>11, <2>13, <2>15, <2>16, <2>17, <2>18, <2>19 DEF BrandInv
<1> QED BY <1>2, <1>3

LEMMA BrandNextInv == BrandInv /\ [BrandNext]_brandVars => BrandInv'
<1> SUFFICES ASSUME BrandInv, [BrandNext]_brandVars
             PROVE  BrandInv'
  OBVIOUS
<1>1. ASSUME NEW w \in Worker, NEW i \in DOMAIN brands, NEW code \in BrandCode \cup {Nothing},
             UpdateById(w, i, [code |-> code])
      PROVE  BrandInv'
  <2> DEFINE change == [code |-> code]
  <2>1. DOMAIN change \subseteq {"code", "active"} /\ ChangeTyped(change)
    BY DEF ChangeTyped
  <2> HIDE DEF change
  <2>2. Read(w, i, change)
    BY <1>1 DEF UpdateById, change
  <2> QED BY <2>1, <2>2, ReadInv
<1>2. ASSUME NEW w \in Worker, NEW i \in DOMAIN brands, NEW active \in BOOLEAN,
             Read(w, i, [active |-> active])
      PROVE  BrandInv'
  <2> DEFINE change == [active |-> active]
  <2>1. DOMAIN change \subseteq {"code", "active"} /\ ChangeTyped(change)
    BY DEF ChangeTyped
  <2> HIDE DEF change
  <2>2. Read(w, i, change)
    BY <1>2 DEF change
  <2> QED BY <2>1, <2>2, ReadInv
<1>3. ASSUME NEW w \in Worker, NEW code \in BrandCode, NEW active \in BOOLEAN,
             UpdateByCode(w, code, [active |-> active])
      PROVE  BrandInv'
  BY <1>2, <1>3 DEF UpdateByCode, Coded
<1>4. ASSUME NEW w \in Worker, NEW i \in DOMAIN brands, NEW active \in BOOLEAN,
             UpdateById(w, i, [active |-> active])
      PROVE  BrandInv'
  BY <1>2, <1>4 DEF UpdateById
<1>5. CASE UNCHANGED brandVars
  <2>1. UNCHANGED <<brands, lastId, clock, work, faults, list>>
    BY <1>5 DEF brandVars
  <2>2. PagesGoOn'
    BY <2>1, InvParts, PagesStay
  <2> QED BY <2>1, <2>2, ListInv
<1>6. CASE BrandNext
  BY <1>1, <1>3, <1>4, <1>6, GenCodeInv, InsertInv, CommitCreateInv, GiveUpInv, CommitUpdateInv,
     OpenListInv, ReadPageInv DEF BrandNext
<1> QED BY <1>5, <1>6

\* When all pages are read none is ahead.
LEMMA BrandInvCounts == BrandInv => BrandsCounted
<1> SUFFICES ASSUME BrandInv
             PROVE  BrandsCounted
  OBVIOUS
<1>1. ASSUME AllRead, ~list.left, NEW i \in ListedBrands \ list.touched, i \notin list.seen
      PROVE  FALSE
  <2>1. list # Nothing /\ list.read * PageSize >= Cardinality(ListedBrands)
    BY <1>1 DEF AllRead
  <2>2. PagesGoOn /\ WorkOK
    BY InvParts
  <2>3. Cardinality(Before(i)) >= list.read * PageSize /\ list.read \in Nat
    BY <1>1, <2>1, <2>2 DEF PagesGoOn, ListRecord
  <2>4. /\ ListedBrands \in SUBSET DOMAIN brands /\ Before(i) \in SUBSET ListedBrands
        /\ i \in ListedBrands /\ i \notin Before(i)
    <3>1. i \in DOMAIN brands
      BY DEF ListedBrands
    <3>2. brands[i].at \in Nat
      BY <2>2, <3>1 DEF WorkOK, BrandTypeOK, BrandRow
    <3> QED BY <3>2 DEF ListedBrands, Before
  <2>5. IsFiniteSet(ListedBrands) /\ Cardinality(ListedBrands) \in Nat
    BY <2>2, <2>4, BrandsFinite
  <2>6. /\ Cardinality(Before(i)) <= Cardinality(ListedBrands) /\ Cardinality(Before(i)) \in Nat
        /\ Cardinality(Before(i)) # Cardinality(ListedBrands)
    BY <2>4, <2>5, FS_Subset, FS_CardinalityType
  <2>7. list.read * PageSize \in Nat
    BY <2>3, BrandAssumption
  <2> QED BY <2>1, <2>3, <2>5, <2>6, <2>7
<1>2. PagesMissNone
  BY <1>1 DEF PagesMissNone
<1> QED BY <1>2 DEF BrandInv, BrandsCounted, WorkOK

THEOREM BrandsStayCounted == BrandInit /\ [][BrandNext]_brandVars => []BrandsCounted
BY InitBrands, BrandNextInv, BrandInvCounts, PTL

-----------------------------------------------------------------------------
(***************************************************************************)
(* Units and their options.  The invariant says of each request that is    *)
(* open what its validator and its search for the option found, in the     *)
(* words of the committed rows, for as long as no other request about the  *)
(* same seller was open with it (QuietOK).                                 *)
(***************************************************************************)
UnitRow == [code : UnitCode, name : UnitName, seller : Seller]
OptionRow == [code : UnitCode, seller : Seller, value : UnitName, byHand : BOOLEAN]
UnitRequest ==
  [what : {"create", "update", "delete"}, id : Nat, unit : UnitRow, name : UnitName,
   option : Nat \cup {Missing}, saw : UnitName \cup {Missing}, clean : BOOLEAN]

\* What holds of a request, whoever else is at work.
UnitRequestOK(t) ==
  /\ t \in UnitRequest /\ t.id \in 1 .. lastUnit
  /\ t.option # Missing =>
       /\ t.option \in DOMAIN options
       /\ options[t.option] # Missing => KeyOf(options[t.option]) = KeyOf(t.unit)
  /\ t.what = "create" => t.id \notin DOMAIN units /\ t.name = t.unit.name
  /\ t.id \in DOMAIN units => KeyOf(units[t.id]) = KeyOf(t.unit)

\* What holds as long as no other has met it: the validators and the search
\* for the option are as good as when they were made.
QuietOK(t) ==
  /\ t.what = "create" =>
       \A u \in DOMAIN units : units[u].seller = t.unit.seller =>
         units[u].code # t.unit.code /\ units[u].name # t.name
  /\ t.what # "create" => t.id \in DOMAIN units /\ units[t.id] = t.unit
  /\ t.what = "update" /\ t.unit.seller # 0 =>
       \A x \in DOMAIN units \ {t.id} : units[x].seller = t.unit.seller => units[x].name # t.name
  /\ t.what # "delete" =>
       /\ t.clean =>
            /\ t.option = Missing => OptionOf(KeyOf(t.unit)) = {}
            /\ t.option # Missing => t.option \in OptionOf(KeyOf(t.unit)) /\ options[t.option].value = t.saw
       /\ t.option = Missing => \A i \in OptionOf(KeyOf(t.unit)) : options[i].byHand
  /\ ~t.clean => t.id \notin synced

Busy == {w \in Session : open[w] # Missing}
Quiet(w) == open[w].unit.seller \notin raced

UnitTypes ==
  /\ UnitTypeOK /\ lastUnit \in Nat
  /\ options \in Seq(OptionRow \cup {Missing})
  /\ DOMAIN open = Session

UnitRequests ==
  /\ \A w \in Busy : UnitRequestOK(open[w])
  /\ \A v, w \in Busy : v # w /\ open[v].what = "create" => open[v].id # open[w].id
  /\ \A v, w \in Busy : v # w /\ Quiet(v) => open[v].unit.seller # open[w].unit.seller
  /\ \A w \in Busy : Quiet(w) => QuietOK(open[w])

OneByUnit ==
  \A c, s : s \notin raced =>
    \A i, j \in OptionOf(<<c, s>>) : ~options[i].byHand /\ ~options[j].byHand => i = j

HasOption(u) == \E i \in OptionOf(KeyOf(units[u])) : options[i].value = units[u].name

SyncedHave == \A u \in synced : units[u].seller \notin raced => HasOption(u)

UnitInv ==
  UnitTypes /\ UnitRequests /\ UnitsDistinct /\ OneByUnit /\ SyncedHave /\ UsedStay

LEMMA InitUnits == UnitInit => UnitInv
<1> SUFFICES ASSUME UnitInit
             PROVE  UnitInv
  OBVIOUS
<1>1. /\ DOMAIN units = {} /\ lastUnit = 0 /\ options = <<>> /\ used = {}
      /\ open = [w \in Session |-> Missing] /\ raced = {} /\ synced = {} /\ missed = {}
  BY DEF UnitInit
<1>2. Busy = {}
  BY <1>1 DEF Busy
<1>3. \A key : OptionOf(key) = {}
  BY <1>1 DEF OptionOf, OptionIds
<1>4. UnitTypes
  BY <1>1 DEF UnitTypes, UnitTypeOK
<1> QED BY <1>1, <1>2, <1>3, <1>4
  DEF UnitInv, UnitRequests, UnitsDistinct, OneByUnit, SyncedHave, UsedStay

\* The smallest of some ids.
LEMMA SmallestIs ==
  ASSUME NEW S \in SUBSET Nat
  PROVE  /\ S = {} => Smallest(S) = Missing
         /\ S # {} => Smallest(S) \in S
<1>1. CASE S = {}
  BY <1>1 DEF Smallest
<1>2. CASE S # {}
  <2>1. \E i \in S : \A j \in S : i <= j
    BY <1>2, LeastOfNumbers
  <2> QED BY <1>2, <2>1 DEF Smallest
<1> QED BY <1>1, <1>2

\* An option is a row that is there.
LEMMA OptionsTyped ==
  ASSUME UnitTypes
  PROVE  /\ OptionIds \in SUBSET Nat /\ OptionIds \subseteq DOMAIN options
         /\ \A i \in OptionIds : options[i] \in OptionRow
         /\ \A key : OptionOf(key) \subseteq OptionIds
<1>1. options \in Seq(OptionRow \cup {Missing})
  BY DEF UnitTypes
<1>2. DOMAIN options = 1 .. Len(options) /\ \A i \in DOMAIN options : options[i] \in OptionRow \cup {Missing}
  BY <1>1
<1> QED BY <1>2 DEF OptionIds, OptionOf

\* A request that begins.
LEMMA BeginInv ==
  ASSUME UnitInv, NEW w \in Session, open[w] = Missing, NEW t, open' = [open EXCEPT ![w] = t],
         raced' = Racing(w, t.unit.seller), lastUnit' \in Nat, lastUnit' >= lastUnit,
         UNCHANGED <<units, options, used, synced, missed>>,
         UnitRequestOK(t)', t.unit.seller \notin raced' => QuietOK(t),
         t.what = "create" => \A v \in Busy : open[v].id # t.id,
         t.what # "create" => t.id \in DOMAIN units
  PROVE  UnitInv'
<1>1. /\ UnitTypes /\ UnitRequests /\ UnitsDistinct /\ OneByUnit /\ SyncedHave /\ UsedStay
  BY DEF UnitInv
<1>2. /\ DOMAIN open' = Session /\ open'[w] = t
      /\ \A v \in Session \ {w} : open'[v] = open[v]
      /\ Busy' \subseteq Busy \cup {w} /\ w \notin Busy
  BY <1>1 DEF UnitTypes, Busy
<1>3. raced \subseteq raced' /\ raced' \subseteq raced \cup {t.unit.seller}
  BY DEF Racing
<1>4. t \in UnitRequest /\ t.unit.seller \in Seller
  BY DEF UnitRequestOK, UnitRequest, UnitRow
<1>5. UnitTypes'
  <2>1. DOMAIN units' \subseteq 1 .. lastUnit' /\ used' \subseteq 1 .. lastUnit'
    BY <1>1 DEF UnitTypes, UnitTypeOK
  <2>2. raced' \subseteq Seller
    BY <1>1, <1>3, <1>4 DEF UnitTypes, UnitTypeOK
  <2> QED BY <1>1, <1>2, <2>1, <2>2 DEF UnitTypes, UnitTypeOK
<1>6. \A key : OptionOf(key)' = OptionOf(key)
  BY DEF OptionOf, OptionIds
<1>7. \A v \in Busy' \ {w} : v \in Busy /\ open'[v] = open[v]
  BY <1>2
<1>8. \A v \in Busy' : UnitRequestOK(open[v])'
  <2>1. ASSUME NEW v \in Busy' \ {w}
        PROVE  UnitRequestOK(open[v])'
    <3> DEFINE x == open[v]
    <3>1. UnitRequestOK(x) /\ open'[v] = x
      BY <1>1, <1>7 DEF UnitRequests
    <3>2. x.id \in 1 .. lastUnit'
      BY <1>1, <3>1 DEF UnitRequestOK, UnitTypes
    <3> HIDE DEF x
    <3> QED BY <3>1, <3>2 DEF UnitRequestOK
  <2>2. UnitRequestOK(open[w])'
    BY <1>2 DEF UnitRequestOK
  <2> QED BY <2>1, <2>2
<1>9. \A v, x \in Busy' : v # x /\ open'[v].what = "create" => open'[v].id # open'[x].id
  <2>1. \A v \in Busy : open[v].what = "create" => open[v].id # t.id
    <3>1. \A v \in Busy : open[v].what = "create" => open[v].id \notin DOMAIN units
      BY <1>1 DEF UnitRequests, UnitRequestOK
    <3> QED BY <3>1
  <2> QED BY <1>1, <1>2, <1>7, <2>1 DEF UnitRequests
<1>10. \A v \in Busy : v # w /\ open[v].unit.seller = t.unit.seller => t.unit.seller \in raced'
  BY DEF Racing, Busy
<1>11. \A v \in Busy' \ {w} : Quiet(v)' => Quiet(v) /\ open[v].unit.seller # t.unit.seller
  BY <1>3, <1>7, <1>10 DEF Quiet
<1>12. \A v, x \in Busy' : v # x /\ Quiet(v)' => open'[v].unit.seller # open'[x].unit.seller
  <2>1. SUFFICES ASSUME NEW v \in Busy', NEW x \in Busy', v # x, Quiet(v)'
                 PROVE  open'[v].unit.seller # open'[x].unit.seller
    OBVIOUS
  <2>2. CASE v = w
    BY <1>2, <1>7, <1>10, <2>1, <2>2 DEF Quiet
  <2>3. CASE x = w
    BY <1>2, <1>7, <1>11, <2>1, <2>3
  <2>4. CASE v # w /\ x # w
    BY <1>1, <1>7, <1>11, <2>1, <2>4 DEF UnitRequests
  <2> QED BY <2>2, <2>3, <2>4
<1>13. \A v \in Busy' : Quiet(v)' => QuietOK(open[v])'
  <2>1. ASSUME NEW x, QuietOK(x)
        PROVE  QuietOK(x)'
    BY <1>6, <2>1 DEF QuietOK
  <2>2. ASSUME NEW v \in Busy', Quiet(v)'
        PROVE  QuietOK(open[v])'
    <3>1. CASE v = w
      <4>1. QuietOK(t)'
        BY <1>2, <2>1, <2>2, <3>1 DEF Quiet
      <4> QED BY <1>2, <3>1, <4>1 DEF QuietOK
    <3>2. CASE v # w
      <4>1. PICK x : x = open[v]
        OBVIOUS
      <4>2. QuietOK(x) /\ open'[v] = x
        BY <1>1, <1>7, <1>11, <2>2, <3>2, <4>1 DEF UnitRequests
      <4>3. QuietOK(x)'
        BY <2>1, <4>2
      <4> QED BY <4>2, <4>3 DEF QuietOK
    <3> QED BY <3>1, <3>2
  <2> QED BY <2>2
<1>14. UnitRequests'
  BY <1>8, <1>9, <1>12, <1>13 DEF UnitRequests
<1>15. UnitsDistinct' /\ UsedStay'
  BY <1>1, <1>3 DEF UnitsDistinct, UsedStay
<1>16. OneByUnit' /\ SyncedHave'
  BY <1>1, <1>3, <1>6 DEF OneByUnit, SyncedHave, HasOption
<1> QED BY <1>5, <1>14, <1>15, <1>16 DEF UnitInv

\* The record of a request.
BegunAs(t, what, id, unit, name, option) ==
  /\ t \in UnitRequest
  /\ t.what = what /\ t.id = id /\ t.unit = unit /\ t.name = name /\ t.option = option
  /\ option # Missing => t.saw = options[option].value
  /\ t.clean = TRUE

LEMMA BeginIs ==
  ASSUME UnitTypes, NEW w \in Session, NEW what \in {"create", "update", "delete"}, NEW id \in Nat,
         NEW unit \in UnitRow, NEW name \in UnitName, NEW option \in OptionIds \cup {Missing},
         Begin(w, what, id, unit, name, option)
  PROVE  \E t : /\ BegunAs(t, what, id, unit, name, option) /\ open' = [open EXCEPT ![w] = t]
                /\ raced' = Racing(w, t.unit.seller)
<1> DEFINE saw == IF option = Missing THEN Missing ELSE options[option].value
           t == [what |-> what, id |-> id, unit |-> unit, name |-> name, option |-> option,
                 saw |-> saw, clean |-> TRUE]
<1>1. open' = [open EXCEPT ![w] = t] /\ raced' = Racing(w, unit.seller)
  BY DEF Begin
<1>2. option # Missing => saw = options[option].value
  OBVIOUS
<1>3. saw \in UnitName \cup {Missing} /\ option \in Nat \cup {Missing}
  BY OptionsTyped DEF OptionRow
<1> HIDE DEF saw
<1>4. /\ t \in UnitRequest /\ t.what = what /\ t.id = id /\ t.unit = unit /\ t.name = name
      /\ t.option = option /\ t.saw = saw /\ t.clean = TRUE
  BY <1>3 DEF UnitRequest
<1> HIDE DEF t
<1>5. BegunAs(t, what, id, unit, name, option)
  BY <1>2, <1>4 DEF BegunAs
<1> QED BY <1>1, <1>4, <1>5

\* The option that is found.
LEMMA OptionFound ==
  ASSUME UnitTypes, NEW key, NEW option, option = Smallest(OptionOf(key))
  PROVE  /\ option \in OptionIds \cup {Missing}
         /\ option = Missing => OptionOf(key) = {}
         /\ option # Missing => /\ option \in OptionOf(key) /\ option \in DOMAIN options
                                /\ KeyOf(options[option]) = key
<1>1. OptionOf(key) \in SUBSET Nat /\ OptionOf(key) \subseteq OptionIds /\ OptionIds \subseteq DOMAIN options
  BY OptionsTyped
<1>2. OptionOf(key) # {} => option \in OptionOf(key)
  BY <1>1, SmallestIs
<1>3. option \in OptionOf(key) => option \in Nat /\ option # Missing
  BY <1>1, UnitAssumption
<1>4. OptionOf(key) = {} => option = Missing
  BY <1>1, SmallestIs
<1> QED BY <1>1, <1>2, <1>3, <1>4 DEF OptionOf

LEMMA UnitsTyped ==
  ASSUME UnitTypes
  PROVE  /\ lastUnit \in Nat /\ DOMAIN units \subseteq 1 .. lastUnit
         /\ \A u \in DOMAIN units :
              /\ u \in Nat /\ units[u] \in UnitRow
              /\ units[u].code \in UnitCode /\ units[u].name \in UnitName /\ units[u].seller \in Seller
BY DEF UnitTypes, UnitTypeOK, UnitRow

LEMMA BeginCreateInv ==
  ASSUME UnitInv, NEW w \in Session, NEW s \in Seller, NEW code \in UnitCode, NEW name \in UnitName,
         BeginCreate(w, s, code, name)
  PROVE  UnitInv'
<1> DEFINE unit == [code |-> code, name |-> name, seller |-> s]
           id == lastUnit + 1
           option == Smallest(OptionOf(<<code, s>>))
<1>1. /\ open[w] = Missing /\ lastUnit' = id /\ Begin(w, "create", id, unit, name, option)
      /\ \A u \in DOMAIN units : units[u].seller = s => units[u].name # name /\ units[u].code # code
      /\ UNCHANGED <<units, options, used, synced, missed>>
  BY DEF BeginCreate
<1>2. UnitTypes /\ UnitRequests
  BY DEF UnitInv
<1>3. /\ lastUnit \in Nat /\ id \in Nat /\ id \in 1 .. id /\ id >= lastUnit
      /\ id \notin 1 .. lastUnit
  BY <1>2 DEF UnitTypes
<1>4. unit \in UnitRow /\ unit.seller = s /\ unit.code = code /\ unit.name = name /\ KeyOf(unit) = <<code, s>>
  BY DEF UnitRow, KeyOf
<1>5. /\ option \in OptionIds \cup {Missing}
      /\ option = Missing => OptionOf(<<code, s>>) = {}
      /\ option # Missing => /\ option \in OptionOf(<<code, s>>) /\ option \in DOMAIN options
                             /\ KeyOf(options[option]) = <<code, s>>
  BY <1>2, OptionFound
<1> HIDE DEF unit, id, option
<1>6. PICK t : /\ BegunAs(t, "create", id, unit, name, option) /\ open' = [open EXCEPT ![w] = t]
               /\ raced' = Racing(w, t.unit.seller)
  BY <1>1, <1>2, <1>3, <1>4, <1>5, BeginIs
<1>7. UnitRequestOK(t)'
  <2>1. id \notin DOMAIN units
    BY <1>2, <1>3, UnitsTyped
  <2> QED BY <1>1, <1>3, <1>4, <1>5, <1>6, <2>1 DEF BegunAs, UnitRequestOK
<1>8. QuietOK(t)
  BY <1>1, <1>4, <1>5, <1>6 DEF BegunAs, QuietOK
<1>9. \A v \in Busy : open[v].id # t.id
  BY <1>2, <1>3, <1>6 DEF UnitRequests, UnitRequestOK, BegunAs
<1>10. t.what = "create"
  BY <1>6 DEF BegunAs
<1> QED BY <1>1, <1>3, <1>6, <1>7, <1>8, <1>9, <1>10, BeginInv

\* A request about a unit that is there.
LEMMA BeginOnUnit ==
  ASSUME UnitInv, NEW w \in Session, NEW what \in {"update", "delete"}, NEW u \in DOMAIN units,
         NEW name \in UnitName, NEW option, open[w] = Missing, Begin(w, what, u, units[u], name, option),
         what = "update" => option = Smallest(OptionOf(KeyOf(units[u]))),
         what = "delete" => option = Missing,
         what = "update" /\ units[u].seller # 0 =>
           \A x \in DOMAIN units \ {u} : units[x].seller = units[u].seller => units[x].name # name,
         UNCHANGED <<units, lastUnit, options, used, synced, missed>>
  PROVE  UnitInv'
<1>1. UnitTypes
  BY DEF UnitInv
<1>2. PICK unit : unit = units[u]
  OBVIOUS
<1>3. /\ unit \in UnitRow /\ u \in Nat /\ u \in 1 .. lastUnit /\ lastUnit \in Nat
  BY <1>1, <1>2, UnitsTyped
<1>4. /\ option \in OptionIds \cup {Missing}
      /\ option # Missing => /\ option \in OptionOf(KeyOf(unit)) /\ option \in DOMAIN options
                             /\ KeyOf(options[option]) = KeyOf(unit)
      /\ what = "update" /\ option = Missing => OptionOf(KeyOf(unit)) = {}
  <2>1. CASE what = "update"
    BY <1>1, <1>2, <2>1, OptionFound
  <2>2. CASE what = "delete"
    BY <2>2
  <2> QED BY <2>1, <2>2
<1>5. PICK t : /\ BegunAs(t, what, u, unit, name, option) /\ open' = [open EXCEPT ![w] = t]
               /\ raced' = Racing(w, t.unit.seller)
  <2>1. Begin(w, what, u, unit, name, option) /\ what \in {"create", "update", "delete"}
    BY <1>2
  <2> QED BY <1>1, <1>3, <1>4, <2>1, BeginIs
<1>6. UnitRequestOK(t)'
  BY <1>2, <1>3, <1>4, <1>5 DEF BegunAs, UnitRequestOK
<1>7. QuietOK(t)
  BY <1>2, <1>4, <1>5 DEF BegunAs, QuietOK
<1>8. t.what # "create" /\ t.id \in DOMAIN units
  BY <1>5 DEF BegunAs
<1>9. lastUnit' \in Nat /\ lastUnit' >= lastUnit
  BY <1>3
<1> QED BY <1>5, <1>6, <1>7, <1>8, <1>9, BeginInv

LEMMA BeginUpdateInv ==
  ASSUME UnitInv, NEW w \in Session, NEW s \in Seller, NEW u \in DOMAIN units, NEW name \in UnitName,
         BeginUpdate(w, s, u, name)
  PROVE  UnitInv'
<1>1. PICK option : option = Smallest(OptionOf(KeyOf(units[u])))
  OBVIOUS
<1>2. /\ open[w] = Missing /\ units[u].seller \in {0, s}
      /\ \A x \in DOMAIN units \ {u} : units[x].seller = s => units[x].name # name
      /\ Begin(w, "update", u, units[u], name, option)
      /\ UNCHANGED <<units, lastUnit, options, used, synced, missed>>
  BY <1>1 DEF BeginUpdate
<1> QED BY <1>1, <1>2, BeginOnUnit

LEMMA BeginDeleteInv ==
  ASSUME UnitInv, NEW w \in Session, NEW u \in DOMAIN units, BeginDelete(w, u)
  PROVE  UnitInv'
<1>1. UnitTypes
  BY DEF UnitInv
<1>2. units[u].name \in UnitName
  BY <1>1, UnitsTyped
<1> QED BY <1>2, BeginOnUnit DEF BeginDelete

-----------------------------------------------------------------------------
(* Changes of options.                                                     *)

\* A step that changes options of one key only, and of those neither the key
\* nor whether they were made by hand.
OptionsKept(key) ==
  /\ options' \in Seq(OptionRow \cup {Missing})
  /\ DOMAIN options \subseteq DOMAIN options'
  /\ \A i \in DOMAIN options :
       \/ options'[i] = options[i]
       \/ /\ options[i] # Missing /\ KeyOf(options[i]) = key
          /\ options'[i] # Missing =>
               KeyOf(options'[i]) = key /\ options'[i].byHand = options[i].byHand
  /\ \A i \in DOMAIN options' \ DOMAIN options : options'[i] # Missing /\ KeyOf(options'[i]) = key

LEMMA OptionsElsewhere ==
  ASSUME NEW key, OptionsKept(key), NEW k, k # key
  PROVE  /\ OptionOf(k)' = OptionOf(k)
         /\ \A i \in OptionOf(k) : options'[i] = options[i]
<1>1. \A i \in OptionOf(k) : i \in DOMAIN options /\ options[i] # Missing /\ KeyOf(options[i]) = k
  BY DEF OptionOf, OptionIds
<1>2. \A i \in OptionOf(k) : options'[i] = options[i] /\ i \in DOMAIN options'
  BY <1>1 DEF OptionsKept
<1>3. \A i \in OptionOf(k) : i \in OptionOf(k)'
  BY <1>1, <1>2 DEF OptionOf, OptionIds
<1>4. ASSUME NEW i \in OptionOf(k)'
      PROVE  i \in OptionOf(k)
  <2>1. i \in DOMAIN options' /\ options'[i] # Missing /\ KeyOf(options'[i]) = k
    BY <1>4 DEF OptionOf, OptionIds
  <2>2. i \in DOMAIN options /\ options'[i] = options[i]
    BY <2>1 DEF OptionsKept
  <2> QED BY <2>1, <2>2 DEF OptionOf, OptionIds
<1> QED BY <1>2, <1>3, <1>4

\* What a request knows of its option stays right.
LEMMA OptionOfRequest ==
  ASSUME NEW t, UnitRequestOK(t), NEW key, OptionsKept(key), t.option # Missing
  PROVE  /\ t.option \in DOMAIN options'
         /\ options'[t.option] # Missing => KeyOf(options'[t.option]) = KeyOf(t.unit)
<1>1. PICK i : i = t.option
  OBVIOUS
<1>2. i \in DOMAIN options /\ (options[i] # Missing => KeyOf(options[i]) = KeyOf(t.unit))
  BY <1>1 DEF UnitRequestOK
<1>3. \/ options'[i] = options[i]
      \/ /\ options[i] # Missing /\ KeyOf(options[i]) = key
         /\ options'[i] # Missing => KeyOf(options'[i]) = key
  BY <1>2 DEF OptionsKept
<1>4. i \in DOMAIN options'
  BY <1>2 DEF OptionsKept
<1> QED BY <1>1, <1>2, <1>3, <1>4

\* Nothing new was made by a unit.
ByHandOnly(key) ==
  \A i \in OptionOf(key)' : ~options'[i].byHand => i \in OptionOf(key) /\ ~options[i].byHand

\* A quiet request about another key is as good as before.
LEMMA QuietElsewhere ==
  ASSUME NEW t, QuietOK(t), NEW key, OptionsKept(key), KeyOf(t.unit) # key,
         \A u \in DOMAIN units' : units'[u].seller = t.unit.seller => u \in DOMAIN units /\ units'[u] = units[u],
         t.what # "create" => t.id \in DOMAIN units' /\ units'[t.id] = units[t.id],
         t.id \in synced' => t.id \in synced
  PROVE  QuietOK(t)'
<1>1. /\ OptionOf(KeyOf(t.unit))' = OptionOf(KeyOf(t.unit))
      /\ \A i \in OptionOf(KeyOf(t.unit)) : options'[i] = options[i]
  BY OptionsElsewhere
<1> QED BY <1>1 DEF QuietOK

\* The key of a unit names its seller.
LEMMA KeysApart ==
  ASSUME NEW x, NEW y
  PROVE  KeyOf(x) = KeyOf(y) <=> x.code = y.code /\ x.seller = y.seller
BY DEF KeyOf

\* What a request, t, becomes when its key is touched.
Touched(w, key, t, n) ==
  /\ t = open[w] /\ n = open'[w] /\ UnitRequestOK(t) /\ n \in UnitRequest
  /\ n.what = t.what /\ n.id = t.id /\ n.unit = t.unit /\ n.name = t.name
  /\ n.option = t.option /\ n.saw = t.saw
  /\ KeyOf(t.unit) = key => ~n.clean
  /\ KeyOf(t.unit) # key => n = t
  /\ t.unit.seller \notin raced => QuietOK(t)

\* Options edited by hand.
LEMMA TouchInv ==
  ASSUME UnitInv, NEW key, Touch(key), OptionsKept(key), ByHandOnly(key)
  PROVE  UnitInv'
<1>1. UnitTypes /\ UnitRequests /\ UnitsDistinct /\ OneByUnit /\ SyncedHave /\ UsedStay
  BY DEF UnitInv
<1>2. /\ synced' = {u \in synced : KeyOf(units[u]) # key}
      /\ open' = [w \in Session |->
           IF open[w] # Missing /\ KeyOf(open[w].unit) = key
             THEN [open[w] EXCEPT !.clean = FALSE] ELSE open[w]]
      /\ UNCHANGED <<units, lastUnit, used, raced, missed>>
  BY DEF Touch
<1>3. UnitTypes'
  BY <1>1, <1>2 DEF UnitTypes, UnitTypeOK, OptionsKept
<1>4. /\ Busy' \subseteq Busy
      /\ \A w \in Busy' : open'[w] = IF KeyOf(open[w].unit) = key
                                     THEN [open[w] EXCEPT !.clean = FALSE] ELSE open[w]
  BY <1>2 DEF Busy
<1>5. ASSUME NEW w \in Busy'
      PROVE  \E t, n : Touched(w, key, t, n)
  <2>1. PICK t : t = open[w]
    OBVIOUS
  <2>2. PICK n : n = open'[w]
    OBVIOUS
  <2>3. w \in Busy /\ UnitRequestOK(t) /\ n = IF KeyOf(t.unit) = key THEN [t EXCEPT !.clean = FALSE] ELSE t
    BY <1>1, <1>4, <2>1, <2>2 DEF UnitRequests
  <2>4. t \in UnitRequest
    BY <2>3 DEF UnitRequestOK
  <2>5. /\ n \in UnitRequest
        /\ n.what = t.what /\ n.id = t.id /\ n.unit = t.unit /\ n.name = t.name
        /\ n.option = t.option /\ n.saw = t.saw
        /\ KeyOf(t.unit) = key => ~n.clean
        /\ KeyOf(t.unit) # key => n = t
    <3>1. CASE KeyOf(t.unit) = key
      <4>1. n = [t EXCEPT !.clean = FALSE]
        BY <2>3, <3>1
      <4> QED BY <2>4, <3>1, <4>1 DEF UnitRequest
    <3>2. CASE KeyOf(t.unit) # key
      BY <2>3, <2>4, <3>2
    <3> QED BY <3>1, <3>2
  <2>6. t.unit.seller \notin raced => QuietOK(t)
    BY <1>1, <2>1, <2>3 DEF UnitRequests, Quiet
  <2> QED BY <2>1, <2>2, <2>3, <2>5, <2>6 DEF Touched
<1>6. \A w \in Busy' : UnitRequestOK(open[w])'
  <2> SUFFICES ASSUME NEW w \in Busy'
               PROVE  UnitRequestOK(open[w])'
    OBVIOUS
  <2>1. PICK t, n : Touched(w, key, t, n)
    BY <1>5
  <2>2. n.option # Missing =>
          /\ n.option \in DOMAIN options'
          /\ options'[n.option] # Missing => KeyOf(options'[n.option]) = KeyOf(n.unit)
    BY <2>1, OptionOfRequest DEF Touched
  <2>3. UnitRequestOK(n)'
    BY <1>2, <2>1, <2>2 DEF UnitRequestOK, Touched
  <2> QED BY <2>1, <2>3 DEF UnitRequestOK, Touched
<1>7. \A w \in Busy' : Quiet(w)' => QuietOK(open[w])'
  <2> SUFFICES ASSUME NEW w \in Busy', Quiet(w)'
               PROVE  QuietOK(open[w])'
    OBVIOUS
  <2>1. PICK t, n : Touched(w, key, t, n)
    BY <1>5
  <2>2. n = open'[w] /\ n.unit = t.unit /\ n.unit.seller \notin raced /\ QuietOK(t) /\ UnitRequestOK(t)
    BY <1>2, <2>1 DEF Touched, Quiet
  <2>3. CASE KeyOf(n.unit) # key
    <3>1. QuietOK(n) /\ KeyOf(n.unit) # key
      BY <2>1, <2>2, <2>3 DEF Touched
    <3>2. n.what # "create" => n.id \in DOMAIN units
      BY <3>1 DEF QuietOK
    <3>3. QuietOK(n)'
      BY <1>2, <3>1, <3>2, QuietElsewhere
    <3> QED BY <2>2, <3>3 DEF QuietOK
  <2>4. CASE KeyOf(n.unit) = key
    <3>1. n.id \notin synced'
      <4>1. n.id \in synced => n.id \in DOMAIN units
        BY <1>1 DEF UnitTypes, UnitTypeOK
      <4>2. n.id \in DOMAIN units => KeyOf(units[n.id]) = key
        BY <2>1, <2>4 DEF UnitRequestOK, Touched
      <4> QED BY <1>2, <4>1, <4>2
    <3>2. n.what # "delete" /\ n.option = Missing => \A i \in OptionOf(key)' : options'[i].byHand
      <4>1. n.what # "delete" /\ n.option = Missing => \A i \in OptionOf(key) : options[i].byHand
        BY <2>1, <2>2, <2>4 DEF QuietOK, Touched
      <4> QED BY <4>1 DEF ByHandOnly
    <3>3. /\ n.what = t.what /\ n.id = t.id /\ n.name = t.name /\ ~n.clean
      BY <2>1, <2>2, <2>4 DEF Touched
    <3>4. /\ n.what = "create" =>
               \A u \in DOMAIN units : units[u].seller = n.unit.seller =>
                 units[u].code # n.unit.code /\ units[u].name # n.name
          /\ n.what # "create" => n.id \in DOMAIN units /\ units[n.id] = n.unit
          /\ n.what = "update" /\ n.unit.seller # 0 =>
               \A x \in DOMAIN units \ {n.id} : units[x].seller = n.unit.seller => units[x].name # n.name
      BY <2>2, <3>3 DEF QuietOK
    <3>5. QuietOK(n)'
      BY <1>2, <2>4, <3>1, <3>2, <3>3, <3>4 DEF QuietOK
    <3> QED BY <2>2, <3>5 DEF QuietOK
  <2> QED BY <2>3, <2>4
<1>8. UnitRequests'
  <2>1. \A v \in Busy' : open'[v].what = open[v].what /\ open'[v].id = open[v].id /\ open'[v].unit = open[v].unit
    BY <1>5 DEF Touched
  <2>2. \A v, w \in Busy' : v # w /\ open'[v].what = "create" => open'[v].id # open'[w].id
    BY <1>1, <1>4, <2>1 DEF UnitRequests
  <2>3. \A v, w \in Busy' : v # w /\ Quiet(v)' => open'[v].unit.seller # open'[w].unit.seller
    BY <1>1, <1>2, <1>4, <2>1 DEF UnitRequests, Quiet
  <2> QED BY <1>6, <1>7, <2>2, <2>3 DEF UnitRequests
<1>9. UnitsDistinct' /\ UsedStay'
  BY <1>1, <1>2 DEF UnitsDistinct, UsedStay
<1>10. OneByUnit'
  <2>1. SUFFICES ASSUME NEW c, NEW s, s \notin raced, NEW i \in OptionOf(<<c, s>>)', NEW j \in OptionOf(<<c, s>>)',
                        ~options'[i].byHand, ~options'[j].byHand
                 PROVE  i = j
    BY <1>2 DEF OneByUnit
  <2>2. CASE <<c, s>> = key
    BY <1>1, <2>1, <2>2 DEF ByHandOnly, OneByUnit
  <2>3. CASE <<c, s>> # key
    BY <1>1, <2>1, <2>3, OptionsElsewhere DEF OneByUnit
  <2> QED BY <2>2, <2>3
<1>11. SyncedHave'
  <2>1. SUFFICES ASSUME NEW u \in synced', units[u].seller \notin raced
                 PROVE  HasOption(u)'
    BY <1>2 DEF SyncedHave
  <2>2. HasOption(u) /\ KeyOf(units[u]) # key
    BY <1>1, <1>2, <2>1 DEF SyncedHave
  <2> QED BY <1>2, <2>2, OptionsElsewhere DEF HasOption
<1> QED BY <1>3, <1>8, <1>9, <1>10, <1>11 DEF UnitInv

LEMMA CreateOptionInv ==
  ASSUME UnitInv, NEW s \in Seller, NEW code \in UnitCode, NEW name \in UnitName,
         CreateOption(s, code, name)
  PROVE  UnitInv'
<1> DEFINE row == [code |-> code, seller |-> s, value |-> name, byHand |-> TRUE]
           key == <<code, s>>
<1>1. row \in OptionRow /\ KeyOf(row) = key /\ row.byHand
  BY DEF OptionRow, KeyOf
<1>2. row # Missing
  BY <1>1, UnitAssumption DEF OptionRow
<1>3. options' = Append(options, row) /\ Touch(key)
  BY DEF CreateOption
<1> HIDE DEF row
<1>4. options \in Seq(OptionRow \cup {Missing})
  BY DEF UnitInv, UnitTypes
<1>5. /\ options' \in Seq(OptionRow \cup {Missing})
      /\ DOMAIN options' = DOMAIN options \cup {Len(options) + 1}
      /\ \A i \in DOMAIN options : options'[i] = options[i]
      /\ options'[Len(options) + 1] = row
  BY <1>1, <1>3, <1>4
<1>6. OptionsKept(key)
  BY <1>1, <1>2, <1>5 DEF OptionsKept
<1>7. ByHandOnly(key)
  <2>1. SUFFICES ASSUME NEW i \in OptionOf(key)', ~options'[i].byHand
                 PROVE  i \in OptionOf(key) /\ ~options[i].byHand
    BY DEF ByHandOnly
  <2>2. i \in DOMAIN options' /\ options'[i] # Missing /\ KeyOf(options'[i]) = key
    BY DEF OptionOf, OptionIds
  <2>3. i \in DOMAIN options
    BY <1>1, <1>5, <2>1, <2>2
  <2> QED BY <1>5, <2>1, <2>2, <2>3 DEF OptionOf, OptionIds
<1> HIDE DEF key
<1> QED BY <1>3, <1>6, <1>7, TouchInv

\* An option that is edited or deleted.
LEMMA EditInv ==
  ASSUME UnitInv, NEW i \in OptionIds, NEW new, options' = [options EXCEPT ![i] = new],
         new \in OptionRow \cup {Missing},
         new # Missing => KeyOf(new) = KeyOf(options[i]) /\ new.byHand = options[i].byHand,
         Touch(KeyOf(options[i]))
  PROVE  UnitInv'
<1>1. PICK key : key = KeyOf(options[i])
  OBVIOUS
<1>2. options \in Seq(OptionRow \cup {Missing}) /\ i \in DOMAIN options /\ options[i] # Missing
  BY DEF UnitInv, UnitTypes, OptionIds
<1>3. /\ options' \in Seq(OptionRow \cup {Missing})
      /\ DOMAIN options' = DOMAIN options /\ options'[i] = new
      /\ \A j \in DOMAIN options \ {i} : options'[j] = options[j]
  BY <1>2
<1>4. OptionsKept(key)
  BY <1>1, <1>2, <1>3 DEF OptionsKept
<1>5. ByHandOnly(key)
  <2>1. SUFFICES ASSUME NEW j \in OptionOf(key)', ~options'[j].byHand
                 PROVE  j \in OptionOf(key) /\ ~options[j].byHand
    BY DEF ByHandOnly
  <2>2. j \in DOMAIN options' /\ options'[j] # Missing /\ KeyOf(options'[j]) = key
    BY DEF OptionOf, OptionIds
  <2> QED BY <1>1, <1>2, <1>3, <2>1, <2>2 DEF OptionOf, OptionIds
<1> QED BY <1>1, <1>4, <1>5, TouchInv

LEMMA UpdateOptionInv ==
  ASSUME UnitInv, NEW i \in DOMAIN options, NEW name \in UnitName, UpdateOption(i, name)
  PROVE  UnitInv'
<1>1. i \in OptionIds /\ options' = [options EXCEPT ![i].value = name] /\ Touch(KeyOf(options[i]))
  BY DEF UpdateOption
<1>2. PICK row : row = options[i]
  OBVIOUS
<1>3. row \in OptionRow
  BY <1>1, <1>2, OptionsTyped DEF UnitInv
<1> DEFINE new == [row EXCEPT !.value = name]
<1>4. new \in OptionRow /\ new.code = row.code /\ new.seller = row.seller /\ new.byHand = row.byHand
  BY <1>3 DEF OptionRow
<1>5. options' = [options EXCEPT ![i] = new]
  BY <1>1, <1>2
<1> HIDE DEF new
<1>6. KeyOf(new) = KeyOf(options[i]) /\ new.byHand = options[i].byHand
  BY <1>2, <1>4 DEF KeyOf
<1> QED BY <1>1, <1>4, <1>5, <1>6, EditInv

LEMMA DeleteOptionInv ==
  ASSUME UnitInv, NEW i \in DOMAIN options, DeleteOption(i)
  PROVE  UnitInv'
BY EditInv DEF DeleteOption

-----------------------------------------------------------------------------
(* UnitRequests that end.                                                      *)

\* What a request that ends leaves to the others.
LEMMA RequestsEnd ==
  ASSUME UnitTypes, UnitRequests, NEW w \in Session, open' = [open EXCEPT ![w] = Missing], raced' = raced,
         \A v \in Busy \ {w} : \A t : t = open[v] =>
           /\ UnitRequestOK(t)'
           /\ t.unit.seller \notin raced => QuietOK(t)'
  PROVE  UnitRequests' /\ DOMAIN open' = Session
<1>1. /\ DOMAIN open' = Session /\ open'[w] = Missing
      /\ \A v \in Session \ {w} : open'[v] = open[v]
  BY DEF UnitTypes
<1>2. \A v \in Busy' : v \in Busy \ {w} /\ open'[v] = open[v]
  BY <1>1 DEF Busy
<1>3. ASSUME NEW v \in Busy'
      PROVE  UnitRequestOK(open[v])' /\ (Quiet(v)' => QuietOK(open[v])')
  <2>1. PICK t : t = open[v]
    OBVIOUS
  <2>2. t = open'[v] /\ v \in Busy \ {w}
    BY <1>2, <1>3, <2>1
  <2>3. UnitRequestOK(t)' /\ (t.unit.seller \notin raced => QuietOK(t)')
    BY <2>1, <2>2
  <2>4. UnitRequestOK(open[v])'
    BY <2>2, <2>3 DEF UnitRequestOK
  <2>5. Quiet(v)' => t.unit.seller \notin raced
    BY <2>2 DEF Quiet
  <2>6. Quiet(v)' => QuietOK(open[v])'
    BY <2>2, <2>3, <2>5 DEF QuietOK
  <2> QED BY <2>4, <2>6
<1>4. \A v, x \in Busy' : v # x /\ open'[v].what = "create" => open'[v].id # open'[x].id
  BY <1>2 DEF UnitRequests
<1>5. \A v, x \in Busy' : v # x /\ Quiet(v)' => open'[v].unit.seller # open'[x].unit.seller
  BY <1>2 DEF UnitRequests, Quiet
<1> QED BY <1>1, <1>3, <1>4, <1>5 DEF UnitRequests

\* Two requests of which one is quiet are about units of two sellers; what a
\* request knows of its unit is right.
LEMMA OthersApart ==
  ASSUME UnitTypes, UnitRequests, NEW w \in Busy, NEW v \in Busy \ {w}, NEW t, NEW x, t = open[w], x = open[v]
  PROVE  /\ UnitRequestOK(t) /\ UnitRequestOK(x)
         /\ t.unit.seller \notin raced => QuietOK(t)
         /\ t.what = "create" \/ x.what = "create" => t.id # x.id
         /\ x.unit.seller \notin raced =>
              /\ QuietOK(x) /\ x.unit.seller # t.unit.seller /\ KeyOf(x.unit) # KeyOf(t.unit)
              /\ x.id # t.id
<1>1. /\ UnitRequestOK(t) /\ UnitRequestOK(x)
      /\ t.unit.seller \notin raced => QuietOK(t)
      /\ t.what = "create" \/ x.what = "create" => t.id # x.id
      /\ x.unit.seller \notin raced => QuietOK(x) /\ x.unit.seller # t.unit.seller
  BY DEF UnitRequests, Quiet
<1>2. x.unit.seller # t.unit.seller => KeyOf(x.unit) # KeyOf(t.unit)
  BY KeysApart
<1>3. QuietOK(x) /\ x.id = t.id => x.what = "create" \/ KeyOf(x.unit) = KeyOf(t.unit)
  BY <1>1 DEF QuietOK, UnitRequestOK
<1> QED BY <1>1, <1>2, <1>3

LEMMA FailInv ==
  ASSUME UnitInv, NEW w \in Session, Fail(w)
  PROVE  UnitInv'
<1>1. UnitTypes /\ UnitRequests /\ UnitsDistinct /\ OneByUnit /\ SyncedHave /\ UsedStay
  BY DEF UnitInv
<1>2. /\ open' = [open EXCEPT ![w] = Missing]
      /\ UNCHANGED <<units, lastUnit, options, used, raced, synced, missed>>
  BY DEF Fail
<1>3. \A key : OptionOf(key)' = OptionOf(key)
  BY <1>2 DEF OptionOf, OptionIds
<1>4. \A v \in Busy \ {w} : \A t : t = open[v] =>
        /\ UnitRequestOK(t)'
        /\ t.unit.seller \notin raced => QuietOK(t)'
  <2>1. ASSUME NEW t, UnitRequestOK(t)
        PROVE  UnitRequestOK(t)'
    BY <1>2, <2>1 DEF UnitRequestOK
  <2>2. ASSUME NEW t, QuietOK(t)
        PROVE  QuietOK(t)'
    BY <1>2, <1>3, <2>2 DEF QuietOK
  <2> QED BY <1>1, <2>1, <2>2 DEF UnitRequests, Quiet
<1>5. UnitRequests' /\ DOMAIN open' = Session
  BY <1>1, <1>2, <1>4, RequestsEnd
<1> QED BY <1>1, <1>2, <1>3, <1>5
  DEF UnitInv, UnitTypes, UnitTypeOK, UnitsDistinct, OneByUnit, SyncedHave, HasOption, UsedStay

LEMMA TakeUnitInv ==
  ASSUME UnitInv, NEW code \in UnitCode, TakeUnit(code)
  PROVE  UnitInv'
<1>1. UnitTypes /\ UnitRequests /\ UnitsDistinct /\ OneByUnit /\ SyncedHave /\ UsedStay
  BY DEF UnitInv
<1> DEFINE S == {u \in DOMAIN units : units[u].code = code}
<1>2. /\ S # {} /\ used' = used \cup {Smallest(S)}
      /\ UNCHANGED <<units, lastUnit, options, open, raced, synced, missed>>
  BY DEF TakeUnit
<1>3. Smallest(S) \in DOMAIN units
  <2>1. S \in SUBSET Nat
    BY <1>1, UnitsTyped
  <2>2. Smallest(S) \in S
    <3> HIDE DEF S
    <3> QED BY <1>2, <2>1, SmallestIs
  <2> QED BY <2>2
<1> HIDE DEF S
<1>4. used' \subseteq 1 .. lastUnit /\ missed \subseteq used' /\ used' \ missed \subseteq DOMAIN units
  BY <1>1, <1>2, <1>3 DEF UnitTypes, UnitTypeOK, UsedStay
<1>5. \A key : OptionOf(key)' = OptionOf(key)
  BY <1>2 DEF OptionOf, OptionIds
<1>6. UnitRequests'
  <2>1. ASSUME NEW t, UnitRequestOK(t)
        PROVE  UnitRequestOK(t)'
    BY <1>2, <2>1 DEF UnitRequestOK
  <2>2. ASSUME NEW t, QuietOK(t)
        PROVE  QuietOK(t)'
    BY <1>2, <1>5, <2>2 DEF QuietOK
  <2>3. ASSUME NEW v \in Busy
        PROVE  UnitRequestOK(open[v])' /\ (Quiet(v) => QuietOK(open[v])')
    <3>1. PICK t : t = open[v]
      OBVIOUS
    <3>2. UnitRequestOK(t)' /\ (Quiet(v) => QuietOK(t)') /\ t = open'[v]
      BY <1>1, <1>2, <2>1, <2>2, <3>1 DEF UnitRequests
    <3> QED BY <3>2 DEF UnitRequestOK, QuietOK
  <2>4. Busy' = Busy /\ \A v \in Busy : Quiet(v)' <=> Quiet(v)
    BY <1>2 DEF Busy, Quiet
  <2> QED BY <1>1, <1>2, <2>3, <2>4 DEF UnitRequests
<1> QED BY <1>1, <1>2, <1>4, <1>5, <1>6
  DEF UnitInv, UnitTypes, UnitTypeOK, UnitsDistinct, OneByUnit, SyncedHave, HasOption, UsedStay

LEMMA CommitDeleteInv ==
  ASSUME UnitInv, NEW w \in Session, CommitDelete(w)
  PROVE  UnitInv'
<1>1. UnitTypes /\ UnitRequests /\ UnitsDistinct /\ OneByUnit /\ SyncedHave /\ UsedStay
  BY DEF UnitInv
<1>2. PICK t : t = open[w]
  OBVIOUS
<1>3. /\ w \in Busy /\ open' = [open EXCEPT ![w] = Missing]
      /\ units' = Without(units, t.id) /\ synced' = synced \ {t.id}
      /\ missed' = missed \cup ({t.id} \cap used)
      /\ UNCHANGED <<lastUnit, options, used, raced>>
  BY <1>2 DEF CommitDelete, Busy
<1>4. DOMAIN units' = DOMAIN units \ {t.id} /\ \A u \in DOMAIN units \ {t.id} : units'[u] = units[u]
  BY <1>3 DEF Without
<1>5. \A key : OptionOf(key)' = OptionOf(key)
  BY <1>3 DEF OptionOf, OptionIds
<1>6. ASSUME NEW v \in Busy \ {w}, NEW x, x = open[v]
      PROVE  UnitRequestOK(x)' /\ (x.unit.seller \notin raced => QuietOK(x)')
  <2>1. /\ UnitRequestOK(x)
        /\ x.unit.seller \notin raced => QuietOK(x) /\ x.id # t.id
    BY <1>1, <1>2, <1>3, <1>6, OthersApart
  <2>2. UnitRequestOK(x)'
    BY <1>3, <1>4, <2>1 DEF UnitRequestOK
  <2>3. ASSUME x.unit.seller \notin raced
        PROVE  QuietOK(x)'
    BY <1>3, <1>4, <1>5, <2>1, <2>3 DEF QuietOK
  <2> QED BY <2>2, <2>3
<1>7. UnitRequests' /\ DOMAIN open' = Session
  BY <1>1, <1>3, <1>6, RequestsEnd
<1>8. UnitTypes'
  BY <1>1, <1>3, <1>4, <1>7 DEF UnitTypes, UnitTypeOK
<1>9. UnitsDistinct' /\ UsedStay'
  BY <1>1, <1>3, <1>4 DEF UnitsDistinct, UsedStay
<1>10. OneByUnit'
  BY <1>1, <1>3, <1>5 DEF OneByUnit
<1>11. SyncedHave'
  <2>1. \A u \in synced' : u \in synced /\ units'[u] = units[u]
    BY <1>1, <1>3, <1>4 DEF UnitTypes, UnitTypeOK
  <2> QED BY <1>1, <1>3, <1>5, <2>1 DEF SyncedHave, HasOption
<1> QED BY <1>7, <1>8, <1>9, <1>10, <1>11 DEF UnitInv

\* What sync_to_attribute_option does to the options.
OptionSynced(t) ==
  /\ OptionsKept(KeyOf(t.unit))
  /\ t.option # Missing => ByHandOnly(KeyOf(t.unit))
  /\ t.option = Missing =>
       \A i, j \in OptionOf(KeyOf(t.unit))' : i \notin OptionOf(KeyOf(t.unit)) /\ j \notin OptionOf(KeyOf(t.unit)) => i = j
  /\ t.option = Missing =>
       \A i \in OptionOf(KeyOf(t.unit)) : options'[i] = options[i]
  /\ QuietOK(t) /\ t.clean => \E i \in OptionOf(KeyOf(t.unit))' : options'[i].value = t.name

LEMMA SyncIs ==
  ASSUME UnitTypes, NEW t, UnitRequestOK(t), t.what \in {"create", "update"}, RowsAreThere(t), options' = Synced(t)
  PROVE  OptionSynced(t)
<1>1. PICK key : key = KeyOf(t.unit)
  OBVIOUS
<1>2. options \in Seq(OptionRow \cup {Missing})
  BY DEF UnitTypes
<1>3. /\ t.unit.code \in UnitCode /\ t.unit.seller \in Seller /\ t.name \in UnitName
      /\ key = <<t.unit.code, t.unit.seller>>
  BY <1>1 DEF UnitRequestOK, UnitRequest, UnitRow, KeyOf
<1>4. CASE t.option = Missing
  <2> DEFINE row == [code |-> t.unit.code, seller |-> t.unit.seller, value |-> t.name, byHand |-> FALSE]
             n == Len(options) + 1
  <2>1. row \in OptionRow /\ KeyOf(row) = key /\ ~row.byHand /\ row.value = t.name
    BY <1>3 DEF OptionRow, KeyOf
  <2>2. row # Missing
    BY <2>1, UnitAssumption DEF OptionRow
  <2>3. options' = Append(options, row)
    BY <1>4 DEF Synced
  <2> HIDE DEF row
  <2>4. /\ options' \in Seq(OptionRow \cup {Missing})
        /\ DOMAIN options' = DOMAIN options \cup {n} /\ n \notin DOMAIN options
        /\ \A i \in DOMAIN options : options'[i] = options[i]
        /\ options'[n] = row
    BY <1>2, <2>1, <2>3
  <2> HIDE DEF n
  <2>5. OptionsKept(key)
    BY <2>1, <2>2, <2>4 DEF OptionsKept
  <2>6. OptionOf(key)' = OptionOf(key) \cup {n} /\ \A i \in OptionOf(key) : options'[i] = options[i]
    BY <2>1, <2>2, <2>4 DEF OptionOf, OptionIds
  <2> QED BY <1>1, <1>4, <2>1, <2>4, <2>5, <2>6 DEF OptionSynced
<1>5. CASE t.option # Missing /\ t.saw = t.name
  <2>1. options' = options
    BY <1>5 DEF Synced
  <2>2. OptionOf(key)' = OptionOf(key)
    BY <2>1 DEF OptionOf, OptionIds
  <2>3. OptionsKept(key) /\ ByHandOnly(key)
    BY <1>2, <2>1, <2>2 DEF OptionsKept, ByHandOnly
  <2>4. QuietOK(t) /\ t.clean => t.option \in OptionOf(key) /\ options[t.option].value = t.name
    BY <1>1, <1>5 DEF QuietOK
  <2> QED BY <1>1, <1>5, <2>1, <2>2, <2>3, <2>4 DEF OptionSynced
<1>6. CASE t.option # Missing /\ t.saw # t.name
  <2>1. PICK i : i = t.option
    OBVIOUS
  <2>2. PICK row : row = options[i]
    OBVIOUS
  <2>3. i \in DOMAIN options /\ row \in OptionRow /\ row # Missing /\ KeyOf(row) = key
    BY <1>1, <1>2, <1>6, <2>1, <2>2 DEF RowsAreThere, UnitRequestOK
  <2> DEFINE new == [row EXCEPT !.value = t.name]
  <2>4. /\ new \in OptionRow /\ new.code = row.code /\ new.seller = row.seller
        /\ new.byHand = row.byHand /\ new.value = t.name
    BY <1>3, <2>3 DEF OptionRow
  <2>5. options' = [options EXCEPT ![i] = new]
    BY <1>6, <2>1, <2>2 DEF Synced
  <2>6. KeyOf(new) = key /\ new # Missing
    BY <2>3, <2>4, UnitAssumption DEF KeyOf, OptionRow
  <2> HIDE DEF new
  <2>7. /\ options' \in Seq(OptionRow \cup {Missing})
        /\ DOMAIN options' = DOMAIN options /\ options'[i] = new
        /\ \A j \in DOMAIN options \ {i} : options'[j] = options[j]
    BY <1>2, <2>3, <2>4, <2>5
  <2>8. OptionsKept(key)
    BY <2>2, <2>3, <2>4, <2>6, <2>7 DEF OptionsKept
  <2>9. ByHandOnly(key)
    <3>1. SUFFICES ASSUME NEW j \in OptionOf(key)', ~options'[j].byHand
                   PROVE  j \in OptionOf(key) /\ ~options[j].byHand
      BY DEF ByHandOnly
    <3>2. j \in DOMAIN options' /\ options'[j] # Missing /\ KeyOf(options'[j]) = key
      BY DEF OptionOf, OptionIds
    <3> QED BY <2>2, <2>3, <2>4, <2>7, <3>1, <3>2 DEF OptionOf, OptionIds
  <2>10. i \in OptionOf(key)' /\ options'[i].value = t.name
    BY <2>3, <2>4, <2>6, <2>7 DEF OptionOf, OptionIds
  <2> QED BY <1>1, <1>6, <2>8, <2>9, <2>10 DEF OptionSynced
<1> QED BY <1>4, <1>5, <1>6

\* What it does to the units.
UnitSynced(t) ==
  /\ DOMAIN units \subseteq DOMAIN units' /\ DOMAIN units' \subseteq DOMAIN units \cup {t.id}
  /\ \A u \in DOMAIN units' \ {t.id} : units'[u] = units[u]
  /\ t.id \in DOMAIN units' => units'[t.id] \in UnitRow /\ KeyOf(units'[t.id]) = KeyOf(t.unit)
  /\ QuietOK(t) => t.id \in DOMAIN units' /\ units'[t.id].name = t.name
  /\ t.what # "create" => DOMAIN units' = DOMAIN units

LEMMA UnitIs ==
  ASSUME UnitTypes, NEW t, UnitRequestOK(t), t.what \in {"create", "update"}, RowsAreThere(t),
         units' = IF t.what = "create" THEN With(units, t.id, t.unit)
                  ELSE IF t.name = t.unit.name \/ t.id \notin DOMAIN units THEN units
                  ELSE [units EXCEPT ![t.id].name = t.name]
  PROVE  UnitSynced(t)
<1>1. t.unit \in UnitRow /\ t.name \in UnitName
  BY DEF UnitRequestOK, UnitRequest
<1>2. CASE t.what = "create"
  <2>1. t.id \notin DOMAIN units /\ t.name = t.unit.name
    BY <1>2 DEF UnitRequestOK
  <2>2. /\ DOMAIN units' = DOMAIN units \cup {t.id} /\ units'[t.id] = t.unit
        /\ \A u \in DOMAIN units' \ {t.id} : units'[u] = units[u]
    BY <1>2 DEF With
  <2> QED BY <1>1, <1>2, <2>1, <2>2 DEF UnitSynced
<1>3. CASE t.what = "update" /\ (t.name = t.unit.name \/ t.id \notin DOMAIN units)
  <2>1. units' = units
    BY <1>3
  <2>2. QuietOK(t) => t.id \in DOMAIN units /\ units[t.id].name = t.name
    BY <1>3 DEF QuietOK
  <2>3. t.id \in DOMAIN units => units[t.id] \in UnitRow /\ KeyOf(units[t.id]) = KeyOf(t.unit)
    BY UnitsTyped DEF UnitRequestOK
  <2> QED BY <2>1, <2>2, <2>3 DEF UnitSynced
<1>4. CASE t.what = "update" /\ t.name # t.unit.name /\ t.id \in DOMAIN units
  <2>1. PICK row : row = units[t.id]
    OBVIOUS
  <2>2. row \in UnitRow /\ KeyOf(row) = KeyOf(t.unit)
    BY <1>4, <2>1, UnitsTyped DEF UnitRequestOK
  <2> DEFINE new == [row EXCEPT !.name = t.name]
  <2>3. new \in UnitRow /\ new.code = row.code /\ new.seller = row.seller /\ new.name = t.name
    BY <1>1, <2>2 DEF UnitRow
  <2>4. units' = [units EXCEPT ![t.id] = new]
    BY <1>4, <2>1
  <2> HIDE DEF new
  <2>5. /\ DOMAIN units' = DOMAIN units /\ units'[t.id] = new
        /\ \A u \in DOMAIN units' \ {t.id} : units'[u] = units[u]
    BY <1>4, <2>4
  <2>6. KeyOf(new) = KeyOf(t.unit)
    BY <2>2, <2>3, KeysApart
  <2> QED BY <1>4, <2>3, <2>5, <2>6 DEF UnitSynced
<1> QED BY <1>2, <1>3, <1>4

LEMMA CommitSyncInv ==
  ASSUME UnitInv, NEW w \in Session, CommitSync(w)
  PROVE  UnitInv'
<1>1. UnitTypes /\ UnitRequests /\ UnitsDistinct /\ OneByUnit /\ SyncedHave /\ UsedStay
  BY DEF UnitInv
<1>2. PICK t : t = open[w]
  OBVIOUS
<1>3. /\ w \in Busy /\ t.what \in {"create", "update"} /\ RowsAreThere(t) /\ options' = Synced(t)
      /\ units' = IF t.what = "create" THEN With(units, t.id, t.unit)
                  ELSE IF t.name = t.unit.name \/ t.id \notin DOMAIN units THEN units
                  ELSE [units EXCEPT ![t.id].name = t.name]
      /\ synced' = IF t.clean /\ t.id \in DOMAIN units' THEN synced \cup {t.id} ELSE synced
      /\ open' = [open EXCEPT ![w] = Missing]
      /\ UNCHANGED <<lastUnit, used, raced, missed>>
  BY <1>2 DEF CommitSync, Busy
<1>4. UnitRequestOK(t) /\ (t.unit.seller \notin raced => QuietOK(t))
  BY <1>1, <1>2, <1>3 DEF UnitRequests, Quiet
<1>5. OptionSynced(t) /\ UnitSynced(t)
  BY <1>1, <1>3, <1>4, SyncIs, UnitIs
<1>6. PICK key : key = KeyOf(t.unit)
  OBVIOUS
<1>7. /\ OptionsKept(key)
      /\ DOMAIN units \subseteq DOMAIN units' /\ DOMAIN units' \subseteq DOMAIN units \cup {t.id}
      /\ \A u \in DOMAIN units' \ {t.id} : u \in DOMAIN units /\ units'[u] = units[u]
      /\ t.id \in DOMAIN units' => units'[t.id] \in UnitRow /\ KeyOf(units'[t.id]) = key
      /\ t.id \in DOMAIN units => KeyOf(units[t.id]) = key
      /\ t.what # "create" => DOMAIN units' = DOMAIN units
  BY <1>4, <1>5, <1>6 DEF OptionSynced, UnitSynced, UnitRequestOK
<1>8. t.id \in DOMAIN units' => units'[t.id].seller = t.unit.seller /\ units'[t.id].code = t.unit.code
  BY <1>6, <1>7, KeysApart
<1>9. synced' \subseteq synced \cup {t.id}
  BY <1>3
<1>10. ASSUME NEW v \in Busy \ {w}, NEW x, x = open[v]
       PROVE  UnitRequestOK(x)' /\ (x.unit.seller \notin raced => QuietOK(x)')
  <2>1. /\ UnitRequestOK(x)
        /\ t.what = "create" \/ x.what = "create" => t.id # x.id
        /\ x.unit.seller \notin raced =>
             /\ QuietOK(x) /\ x.unit.seller # t.unit.seller /\ KeyOf(x.unit) # key
             /\ x.id # t.id
    BY <1>1, <1>2, <1>3, <1>6, <1>10, OthersApart
  <2>2. UnitRequestOK(x)'
    <3>1. x.option # Missing =>
            /\ x.option \in DOMAIN options'
            /\ options'[x.option] # Missing => KeyOf(options'[x.option]) = KeyOf(x.unit)
      BY <1>7, <2>1, OptionOfRequest
    <3>2. x.what = "create" => x.id \notin DOMAIN units' /\ x.name = x.unit.name
      BY <1>7, <2>1 DEF UnitRequestOK
    <3>3. x.id \in DOMAIN units' => KeyOf(units'[x.id]) = KeyOf(x.unit)
      <4>1. CASE x.id # t.id
        BY <1>7, <2>1, <4>1 DEF UnitRequestOK
      <4>2. CASE x.id = t.id
        BY <1>7, <2>1, <4>2 DEF UnitRequestOK
      <4> QED BY <4>1, <4>2
    <3> QED BY <1>3, <2>1, <3>1, <3>2, <3>3 DEF UnitRequestOK
  <2>3. ASSUME x.unit.seller \notin raced
        PROVE  QuietOK(x)'
    <3>1. QuietOK(x) /\ x.unit.seller # t.unit.seller /\ KeyOf(x.unit) # key /\ x.id # t.id
      BY <2>1, <2>3
    <3>2. \A u \in DOMAIN units' : units'[u].seller = x.unit.seller => u \in DOMAIN units /\ units'[u] = units[u]
      BY <1>7, <1>8, <3>1
    <3>3. x.what # "create" => x.id \in DOMAIN units' /\ units'[x.id] = units[x.id]
      BY <1>7, <3>1 DEF QuietOK
    <3>4. x.id \in synced' => x.id \in synced
      BY <1>9, <3>1
    <3> QED BY <1>7, <3>1, <3>2, <3>3, <3>4, QuietElsewhere
  <2> QED BY <2>2, <2>3
<1>11. UnitRequests' /\ DOMAIN open' = Session
  BY <1>1, <1>3, <1>10, RequestsEnd
<1>12. UnitTypes'
  <2>1. options' \in Seq(OptionRow \cup {Missing})
    BY <1>7 DEF OptionsKept
  <2>2. \A u \in DOMAIN units' : units'[u] \in UnitRow
    BY <1>1, <1>7, UnitsTyped
  <2>3. DOMAIN units' \subseteq 1 .. lastUnit
    BY <1>1, <1>4, <1>7, UnitsTyped DEF UnitRequestOK
  <2>4. synced' \subseteq DOMAIN units'
    BY <1>1, <1>3, <1>7 DEF UnitTypes, UnitTypeOK
  <2> QED BY <1>1, <1>3, <1>11, <2>1, <2>2, <2>3, <2>4 DEF UnitTypes, UnitTypeOK, UnitRow
<1>13. ASSUME NEW u \in DOMAIN units' \ {t.id}, t.id \in DOMAIN units', units'[u].seller = t.unit.seller,
              t.unit.seller \notin raced
       PROVE  /\ units'[u].code # t.unit.code
              /\ t.unit.seller # 0 => units'[u].name # units'[t.id].name
  <2>1. QuietOK(t) /\ units'[t.id].name = t.name /\ u \in DOMAIN units /\ units'[u] = units[u]
    BY <1>4, <1>5, <1>7, <1>13 DEF UnitSynced
  <2>2. CASE t.what = "create"
    BY <1>13, <2>1, <2>2 DEF QuietOK
  <2>3. CASE t.what = "update"
    BY <1>1, <1>13, <2>1, <2>3 DEF QuietOK, UnitsDistinct
  <2> QED BY <1>3, <2>2, <2>3
<1>14. UnitsDistinct'
  <2>1. SUFFICES ASSUME NEW u \in DOMAIN units', NEW x \in DOMAIN units', u # x,
                        units'[u].seller = units'[x].seller, units'[u].seller \notin raced
                 PROVE  /\ units'[u].code # units'[x].code
                        /\ units'[u].seller # 0 => units'[u].name # units'[x].name
    BY <1>3 DEF UnitsDistinct
  <2>2. CASE u = t.id
    BY <1>8, <1>13, <2>1, <2>2
  <2>3. CASE x = t.id
    BY <1>8, <1>13, <2>1, <2>3
  <2>4. CASE u # t.id /\ x # t.id
    BY <1>1, <1>7, <2>1, <2>4 DEF UnitsDistinct
  <2> QED BY <2>2, <2>3, <2>4
<1>15. UsedStay'
  BY <1>1, <1>3, <1>7 DEF UsedStay
<1>16. OneByUnit'
  <2>1. SUFFICES ASSUME NEW c, NEW s, s \notin raced, NEW i \in OptionOf(<<c, s>>)', NEW j \in OptionOf(<<c, s>>)',
                        ~options'[i].byHand, ~options'[j].byHand
                 PROVE  i = j
    BY <1>3 DEF OneByUnit
  <2>2. CASE <<c, s>> # key
    BY <1>1, <1>7, <2>1, <2>2, OptionsElsewhere DEF OneByUnit
  <2>3. CASE <<c, s>> = key
    <3>1. s = t.unit.seller /\ QuietOK(t)
      BY <1>4, <1>6, <2>1, <2>3 DEF KeyOf
    <3>2. CASE t.option # Missing
      BY <1>1, <1>5, <1>6, <2>1, <2>3, <3>2 DEF OptionSynced, ByHandOnly, OneByUnit
    <3>3. CASE t.option = Missing
      <4>1. \A k \in OptionOf(key) : options[k].byHand
        BY <1>3, <1>6, <3>1, <3>3 DEF QuietOK
      <4>2. \A k \in OptionOf(key) : options'[k] = options[k]
        BY <1>5, <1>6, <3>3 DEF OptionSynced
      <4>3. i \notin OptionOf(key) /\ j \notin OptionOf(key)
        BY <2>1, <4>1, <4>2
      <4> QED BY <1>5, <1>6, <2>1, <2>3, <3>3, <4>3 DEF OptionSynced
    <3> QED BY <3>2, <3>3
  <2> QED BY <2>2, <2>3
<1>17. SyncedHave'
  <2>1. SUFFICES ASSUME NEW u \in synced', units'[u].seller \notin raced
                 PROVE  HasOption(u)'
    BY <1>3 DEF SyncedHave
  <2>2. u \in DOMAIN units'
    BY <1>12 DEF UnitTypes, UnitTypeOK
  <2>3. CASE u # t.id
    <3>1. u \in synced /\ units'[u] = units[u]
      BY <1>7, <1>9, <2>2, <2>3
    <3>2. KeyOf(units[u]) # key
      <4>1. CASE units[u].seller # t.unit.seller
        BY <1>6, <4>1, KeysApart
      <4>2. CASE units[u].seller = t.unit.seller
        <5>1. t.id \in DOMAIN units'
          BY <1>4, <1>5, <2>1, <3>1, <4>2 DEF UnitSynced
        <5>2. units[u].code # t.unit.code
          BY <1>13, <2>1, <2>2, <2>3, <3>1, <4>2, <5>1
        <5> QED BY <1>6, <5>2, KeysApart
      <4> QED BY <4>1, <4>2
    <3>3. HasOption(u)
      BY <1>1, <2>1, <3>1 DEF SyncedHave
    <3> QED BY <1>7, <3>1, <3>2, <3>3, OptionsElsewhere DEF HasOption
  <2>4. CASE u = t.id
    <3>1. QuietOK(t) /\ units'[u].name = t.name /\ KeyOf(units'[u]) = key
      BY <1>4, <1>5, <1>7, <1>8, <2>1, <2>2, <2>4 DEF UnitSynced
    <3>2. t.clean
      BY <1>3, <2>4, <3>1 DEF QuietOK
    <3>3. \E i \in OptionOf(key)' : options'[i].value = t.name
      BY <1>5, <1>6, <3>1, <3>2 DEF OptionSynced
    <3> QED BY <3>1, <3>3 DEF HasOption, OptionOf
  <2> QED BY <2>3, <2>4
<1> QED BY <1>11, <1>12, <1>14, <1>15, <1>16, <1>17 DEF UnitInv

LEMMA UnitNextInv == UnitInv /\ [UnitNext]_unitVars => UnitInv'
<1>1. ASSUME UnitInv, UnitNext
      PROVE  UnitInv'
  <2>1. ASSUME NEW w \in Session, CommitSync(w) \/ CommitDelete(w) \/ Fail(w)
        PROVE  UnitInv'
    BY <1>1, <2>1, CommitSyncInv, CommitDeleteInv, FailInv
  <2>2. ASSUME NEW i \in DOMAIN options, DeleteOption(i) \/ \E name \in UnitName : UpdateOption(i, name)
        PROVE  UnitInv'
    BY <1>1, <2>2, UpdateOptionInv, DeleteOptionInv
  <2> QED
    BY <1>1, <2>1, <2>2, BeginCreateInv, BeginUpdateInv, BeginDeleteInv, TakeUnitInv, CreateOptionInv DEF UnitNext
<1>2. ASSUME UnitInv, UNCHANGED unitVars
      PROVE  UnitInv'
  <2>1. /\ units' = units /\ lastUnit' = lastUnit /\ options' = options /\ used' = used /\ open' = open
        /\ raced' = raced /\ synced' = synced /\ missed' = missed
    BY <1>2 DEF unitVars
  <2>2. \A key : OptionOf(key)' = OptionOf(key)
    BY <2>1 DEF OptionOf, OptionIds
  <2>3. UnitTypes' /\ UnitsDistinct' /\ OneByUnit' /\ SyncedHave' /\ UsedStay'
    BY <1>2, <2>1, <2>2
    DEF UnitInv, UnitTypes, UnitTypeOK, UnitsDistinct, OneByUnit, SyncedHave, HasOption, UsedStay
  <2>4. UnitRequests'
    <3>1. UnitRequests
      BY <1>2 DEF UnitInv
    <3> QED BY <2>1, <3>1 DEF UnitRequests, Busy, Quiet, UnitRequestOK, QuietOK, OptionOf, OptionIds
  <2> QED BY <2>3, <2>4 DEF UnitInv
<1> QED BY <1>1, <1>2
-----------------------------------------------------------------------------
(* What the readers find.                                                  *)

\* The option of the largest seller is one's own, if there is one of one's own.
LEMMA LargestSeller ==
  ASSUME UnitTypes, NEW s \in Seller, NEW name
  PROVE  /\ Named(s, name) # {} => CodesOf(s, name) # {}
         /\ (\E i \in Named(s, name) : options[i].seller = s) =>
              CodesOf(s, name) = {options[j].code : j \in {k \in Named(s, name) : options[k].seller = s}}
<1>1. \A i \in Named(s, name) : options[i].seller \in {0, s}
  BY DEF Named
<1>2. s \in Nat /\ 0 <= s
  BY UnitAssumption
<1>3. ASSUME NEW i \in Named(s, name), options[i].seller = s
      PROVE  \A j \in Named(s, name) :
               (\A k \in Named(s, name) : options[k].seller <= options[j].seller) <=> options[j].seller = s
  <2>1. SUFFICES ASSUME NEW j \in Named(s, name)
                 PROVE  (\A k \in Named(s, name) : options[k].seller <= options[j].seller) <=> options[j].seller = s
    OBVIOUS
  <2>2. options[j].seller = s => \A k \in Named(s, name) : options[k].seller <= options[j].seller
    BY <1>1, <1>2
  <2>3. s <= options[j].seller => options[j].seller = s
    BY <1>1, <1>2
  <2> QED BY <1>3, <2>2, <2>3
<1>4. ASSUME \E i \in Named(s, name) : options[i].seller = s
      PROVE  CodesOf(s, name) = {options[j].code : j \in {k \in Named(s, name) : options[k].seller = s}}
  <2>1. {j \in Named(s, name) : \A k \in Named(s, name) : options[k].seller <= options[j].seller}
          = {k \in Named(s, name) : options[k].seller = s}
    BY <1>3, <1>4
  <2> QED BY <2>1 DEF CodesOf
<1>5. ASSUME Named(s, name) # {}
      PROVE  CodesOf(s, name) # {}
  <2>1. CASE \E i \in Named(s, name) : options[i].seller = s
    BY <1>4, <2>1
  <2>2. CASE ~\E i \in Named(s, name) : options[i].seller = s
    <3>1. PICK j \in Named(s, name) : TRUE
      BY <1>5
    <3>2. \A k \in Named(s, name) : options[k].seller <= options[j].seller
      BY <1>1, <2>2
    <3> QED BY <3>1, <3>2 DEF CodesOf
  <2> QED BY <2>1, <2>2
<1> QED BY <1>4, <1>5

LEMMA FoundAndMet == UnitInv => FoundByName /\ ReadersMeet
<1> SUFFICES ASSUME UnitInv
             PROVE  FoundByName /\ ReadersMeet
  OBVIOUS
<1>1. UnitTypes /\ SyncedHave
  BY DEF UnitInv
<1>2. ASSUME NEW s \in Seller, NEW u \in UnitsShown(s) \cap synced, units[u].seller \notin raced
      PROVE  /\ CodesOf(s, units[u].name) # {}
             /\ units[u].seller = s =>
                  \A c \in CodesOf(s, units[u].name) :
                    \E i \in OptionIds : KeyOf(options[i]) = <<c, s>> /\ options[i].value = units[u].name
  <2>1. PICK name : name = units[u].name
    OBVIOUS
  <2>2. PICK i \in OptionOf(KeyOf(units[u])) : options[i].value = name
    BY <1>1, <1>2, <2>1 DEF SyncedHave, HasOption
  <2>3. i \in OptionIds /\ options[i].seller = units[u].seller
    BY KeysApart DEF OptionOf
  <2>4. i \in Named(s, name)
    BY <2>2, <2>3 DEF Named, UnitsShown
  <2>5. units[u].seller = s =>
          \A c \in CodesOf(s, name) : \E j \in Named(s, name) : options[j].code = c /\ options[j].seller = s
    BY <1>1, <2>3, <2>4, LargestSeller
  <2> QED BY <1>1, <2>1, <2>4, <2>5, LargestSeller DEF Named, KeyOf
<1>3. ASSUME NEW s \in Seller, NEW i \in OptionsShown(s)
      PROVE  CodesOf(s, options[i].value) # {}
  <2>1. i \in Named(s, options[i].value)
    BY DEF OptionsShown, Named
  <2> QED BY <1>1, <2>1, LargestSeller
<1>4. ASSUME NEW s \in Seller, NEW name \in UnitName, s \in OwnUnitsOnly, OptionsToUse(s, name) # {}
      PROVE  CodesOf(s, name) = {options[i].code : i \in OptionsToUse(s, name)}
  <2>1. OptionsToUse(s, name) = {k \in Named(s, name) : options[k].seller = s}
    BY <1>4 DEF OptionsToUse, Named
  <2> QED BY <1>1, <1>4, <2>1, LargestSeller
<1>5. ASSUME NEW s \in Seller, NEW name \in UnitName, s \notin OwnUnitsOnly, CodesOf(s, name) # {}
      PROVE  OptionsToUse(s, name) # {}
  <2>1. PICK j \in Named(s, name) : TRUE
    BY <1>5 DEF CodesOf
  <2>2. j \in OptionsToUse(s, name)
    BY <1>5, UnitAssumption DEF Named, OptionsToUse
  <2> QED BY <2>2
<1>6. FoundByName
  BY <1>2 DEF FoundByName
<1> QED BY <1>3, <1>4, <1>5, <1>6 DEF ReadersMeet

\* Units and the options that stand for them keep saying the same, whoever
\* edits either and in whatever order the requests commit.
THEOREM UnitsFollowed == UnitInit /\ [][UnitNext]_unitVars => []OptionsFollowUnits
<1>1. UnitInv => Mirrored
  <2>1. SUFFICES ASSUME UnitInv, NEW u \in DOMAIN units, units[u].seller \notin raced
                 PROVE  /\ u \in synced => \E i \in OptionOf(KeyOf(units[u])) : options[i].value = units[u].name
                        /\ Cardinality({i \in OptionOf(KeyOf(units[u])) : ~options[i].byHand}) <= 1
    BY DEF Mirrored
  <2>2. u \in synced => \E i \in OptionOf(KeyOf(units[u])) : options[i].value = units[u].name
    BY <2>1 DEF UnitInv, SyncedHave, HasOption
  <2> DEFINE S == {i \in OptionOf(KeyOf(units[u])) : ~options[i].byHand}
  <2>3. \A i, j \in S : i = j
    BY <2>1 DEF UnitInv, OneByUnit, KeyOf
  <2> HIDE DEF S
  <2>4. S = {} \/ \E x : S = {x}
    BY <2>3
  <2>5. Cardinality(S) = 0 \/ Cardinality(S) = 1
    <3>1. CASE S = {}
      BY <3>1, FS_EmptySet
    <3>2. CASE \E x : S = {x}
      <4>1. PICK x : S = {x}
        BY <3>2
      <4> QED BY <4>1, FS_Singleton
    <3> QED BY <2>4, <3>1, <3>2
  <2> QED BY <2>2, <2>5 DEF S
<1>2. UnitInv => OptionsFollowUnits
  BY <1>1, FoundAndMet DEF UnitInv, UnitTypes, OptionsFollowUnits
<1> QED BY <1>2, InitUnits, UnitNextInv, PTL

-----------------------------------------------------------------------------
(***************************************************************************)
(* The retries of a product file, for every file, every set of requests    *)
(* and every number of retries.                                            *)
(*                                                                         *)
(* The three properties are about committed rows, but every step acts on   *)
(* what a request sees, the committed rows under those it has pending.     *)
(* The invariant therefore says of pending rows what the properties say of *)
(* committed ones (RowsNamed), that what a request has pending never hides *)
(* the product of a committed row (NothingHidden), that a product of a tag *)
(* is named by a row of it, committed or pending (EachHasHolder), and that *)
(* all of it may fail only for the tags that two requests handled at once  *)
(* (OverlapsExcused).                                                      *)
(***************************************************************************)
FileTag == {TagOf[l] : l \in Line}
FileRow == [status : {"none", "SUCCESS", "FAILURE"}, product : Nat]
PendingRows == UNION {[D -> FileRow] : D \in SUBSET Line}
RequestRecord ==
  [todo : Seq(Line), lines : SUBSET Line, pending : PendingRows, total : Nat,
   phase : {"idle", "row", "con"}]

\* The types.
TypesOK ==
  /\ file \in {"none", "new", "announced", "done"}
  /\ line \in [Line -> FileRow]
  /\ total \in Nat /\ succeeded \in Nat
  /\ products \in Seq(FileTag)
  /\ request \in [Request -> RequestRecord]
  /\ disturbed \in BOOLEAN

\* Until the background job ran there is nothing to retry.
NothingBefore ==
  file # "done" =>
    /\ products = <<>>
    /\ total = 0 /\ succeeded = 0
    /\ \A s \in Request : request[s] = Idle

\* What request s is about.
FileRequestOK(s) ==
  /\ ToSet(request[s].todo) \subseteq request[s].lines
  /\ DOMAIN request[s].pending \subseteq request[s].lines
  /\ Open(s) => request[s].lines # {}
  /\ ~Open(s) => request[s] = Idle
  /\ request[s].phase = "con" =>
       /\ request[s].todo # <<>>
       /\ KindOf[Now(s)] = "con"
       /\ Now(s) \in DOMAIN request[s].pending
       /\ request[s].pending[Now(s)].product # 0

\* A row names one of the products ps, of the line's tag, or none, and one if it is a child
\* that was imported.
NamesProduct(ps, l, row) ==
  /\ row.product # 0 => row.product \in DOMAIN ps /\ ps[row.product] = TagOf[l]
  /\ KindOf[l] = "con" /\ row.status = "SUCCESS" => row.product # 0

RowsNamed ==
  /\ \A l \in Line : NamesProduct(products, l, line[l])
  /\ \A s \in Request : \A l \in DOMAIN request[s].pending :
       NamesProduct(products, l, request[s].pending[l])

\* Tags of two open requests are excused.
OverlapsExcused ==
  \A s, t \in Request : \A l \in request[s].lines, k \in request[t].lines :
    s # t /\ TagOf[l] = TagOf[k] => TagOf[l] \in excused

\* A pending row names a product when the committed one does.
NothingHidden ==
  \A s \in Request : \A l \in DOMAIN request[s].pending :
    TagOf[l] \notin excused /\ line[l].product # 0 => request[s].pending[l].product # 0

\* FileRow l names a product, or does in what a request has pending.
Holds(l) ==
  \/ line[l].product # 0
  \/ \E s \in Request : l \in DOMAIN request[s].pending /\ request[s].pending[l].product # 0

HasDon(t) == \E l \in Line : TagOf[l] = t /\ KindOf[l] = "don"

\* A product of a tag is named by a row of it.
EachHasHolder ==
  \A i \in DOMAIN products :
    \/ products[i] \in excused
    \/ HasDon(products[i])
    \/ \E l \in Line : TagOf[l] = products[i] /\ Holds(l)

\* No count is too high, and undisturbed the one open request has the count.
CountsFollow ==
  /\ total <= succeeded
  /\ \A s \in Request : request[s].total <= succeeded
  /\ ~disturbed =>
       /\ \A s, t \in Request : Open(s) /\ Open(t) => s = t
       /\ \A s \in Request : Open(s) => CountOf(s) = succeeded
       /\ (\A s \in Request : ~Open(s)) => total = succeeded

FileInv ==
  /\ TypesOK /\ NothingBefore
  /\ \A s \in Request : FileRequestOK(s)
  /\ RowsNamed /\ OverlapsExcused /\ NothingHidden /\ EachHasHolder
  /\ OneParent /\ CountsFollow

-----------------------------------------------------------------------------
(* What a request sees.                                                    *)

\* What a request sees and counts has the types of what is committed.
LEMMA SeenTyped ==
  ASSUME TypesOK, NEW s \in Request
  PROVE  /\ request[s] \in RequestRecord
         /\ Seen(s) \in [Line -> FileRow]
         /\ CountOf(s) \in Nat
<1>1. request[s] \in RequestRecord
  BY DEF TypesOK
<1>2. PICK D \in SUBSET Line : request[s].pending \in [D -> FileRow]
  BY <1>1 DEF RequestRecord, PendingRows
<1>3. Seen(s) \in [Line -> FileRow]
  BY <1>2 DEF Seen, TypesOK
<1> QED
  BY <1>1, <1>3 DEF CountOf, TypesOK, RequestRecord

\* What it sees names products as what is committed does.
LEMMA SeenNamed ==
  ASSUME TypesOK, RowsNamed, NEW s \in Request, NEW l \in Line
  PROVE  NamesProduct(products, l, Seen(s)[l])
BY DEF RowsNamed, Seen

\* The row at hand is one of the request's, and what is left are others.
LEMMA RowAtHand ==
  ASSUME TypesOK, NEW s \in Request, FileRequestOK(s), request[s].todo # <<>>
  PROVE  /\ Now(s) \in Line
         /\ Now(s) \in request[s].lines
         /\ Tail(request[s].todo) \in Seq(Line)
         /\ ToSet(Tail(request[s].todo)) \subseteq request[s].lines
<1>1. request[s].todo \in Seq(Line) /\ request[s].lines \subseteq Line
  BY SeenTyped DEF RequestRecord
<1>2. 1 \in DOMAIN request[s].todo /\ Now(s) = request[s].todo[1]
  BY <1>1 DEF Now
<1>3. Now(s) \in request[s].lines
  BY <1>2 DEF FileRequestOK, ToSet
<1>4. ASSUME NEW i \in DOMAIN Tail(request[s].todo)
      PROVE  Tail(request[s].todo)[i] \in request[s].lines
  <2>1. i + 1 \in DOMAIN request[s].todo /\ Tail(request[s].todo)[i] = request[s].todo[i + 1]
    BY <1>1
  <2> QED
    BY <2>1 DEF FileRequestOK, ToSet
<1> QED
  BY <1>1, <1>3, <1>4 DEF ToSet

\* A pending row of the row at hand.
LEMMA PendTyped ==
  ASSUME TypesOK, NEW s \in Request, Now(s) \in Line, NEW row \in FileRow
  PROVE  /\ Pend(s, row) \in PendingRows
         /\ DOMAIN Pend(s, row) = DOMAIN request[s].pending \cup {Now(s)}
         /\ \A l \in DOMAIN Pend(s, row) :
              Pend(s, row)[l] = IF l = Now(s) THEN row ELSE request[s].pending[l]
<1> request[s] \in RequestRecord
  BY SeenTyped
<1>1. PICK D \in SUBSET Line : request[s].pending \in [D -> FileRow]
  BY DEF RequestRecord, PendingRows
<1>2. Pend(s, row) \in [D \cup {Now(s)} -> FileRow] /\ D \cup {Now(s)} \in SUBSET Line
  BY <1>1 DEF Pend
<1> QED
  BY <1>1, <1>2 DEF Pend, PendingRows

\* What is pending for some lines.
LEMMA PendingOf ==
  ASSUME NEW D \in SUBSET Line, NEW pending \in [D -> FileRow]
  PROVE  pending \in PendingRows
BY DEF PendingRows

\* A request that is not running.
LEMMA IdleTyped ==
  /\ Idle \in RequestRecord /\ DOMAIN Idle.pending = {}
  /\ Idle.lines = {} /\ Idle.total = 0 /\ Idle.phase = "idle" /\ Idle.todo = <<>>
<1>1. [l \in {} |-> NoLine] \in [{} -> FileRow] /\ {} \in SUBSET Line
  OBVIOUS
<1>2. [l \in {} |-> NoLine] \in PendingRows
  BY <1>1, PendingOf
<1> QED
  BY <1>2 DEF Idle, RequestRecord

\* Two request records with the same fields are the same.
LEMMA SameRecord ==
  ASSUME NEW r \in RequestRecord, NEW q \in RequestRecord,
         r.todo = q.todo, r.lines = q.lines, r.pending = q.pending,
         r.total = q.total, r.phase = q.phase
  PROVE  r = q
BY DEF RequestRecord

-----------------------------------------------------------------------------
(* A step on the row at hand that commits nothing.                         *)

\* Request s goes on with todo and has row pending for the row at hand.
GoesOn(s, row, todo, phase) ==
  /\ request' = [request EXCEPT ![s] =
       [todo |-> todo, lines |-> request[s].lines, pending |-> Pend(s, row),
        total |-> request[s].total, phase |-> phase]]
  /\ UNCHANGED <<file, line, total, products, succeeded, disturbed, excused>>

\* Such a step keeps the invariant when the row names what a row may name and
\* goes on naming a product that the request saw.
LEMMA GoingOnKeeps ==
  ASSUME FileInv, NEW s \in Request, Open(s), request[s].todo # <<>>,
         NEW row \in FileRow, NamesProduct(products, Now(s), row),
         Seen(s)[Now(s)].product # 0 => row.product # 0,
         NEW todo \in Seq(Line), ToSet(todo) \subseteq request[s].lines,
         NEW phase \in {"row", "con"},
         phase = "con" =>
           todo = request[s].todo /\ KindOf[Now(s)] = "con" /\ row.product # 0,
         GoesOn(s, row, todo, phase)
  PROVE  FileInv'
<1> DEFINE rest == [todo |-> todo, lines |-> request[s].lines, pending |-> Pend(s, row),
                    total |-> request[s].total, phase |-> phase]
<1>1. /\ request[s] \in RequestRecord /\ Seen(s) \in [Line -> FileRow]
      /\ Now(s) \in Line /\ Now(s) \in request[s].lines
  BY SeenTyped, RowAtHand DEF FileInv
<1>2. /\ Pend(s, row) \in PendingRows
      /\ DOMAIN Pend(s, row) = DOMAIN request[s].pending \cup {Now(s)}
      /\ \A l \in DOMAIN Pend(s, row) :
           Pend(s, row)[l] = IF l = Now(s) THEN row ELSE request[s].pending[l]
  BY <1>1, PendTyped DEF FileInv
<1>3. rest \in RequestRecord
  BY <1>1, <1>2 DEF RequestRecord
<1>4. /\ request' = [request EXCEPT ![s] = rest]
      /\ request \in [Request -> RequestRecord]
      /\ request'[s] = rest
      /\ \A t \in Request : t # s => request'[t] = request[t]
      /\ UNCHANGED <<file, line, total, products, succeeded, disturbed, excused>>
  BY DEF GoesOn, FileInv, TypesOK
<1>5. file = "done"
  BY DEF FileInv, NothingBefore, Open, Idle
<1>6. TypesOK'
  BY <1>3, <1>4 DEF FileInv, TypesOK
<1>7. NothingBefore'
  BY <1>4, <1>5 DEF NothingBefore
<1>8. \A t \in Request : Open(t)' <=> Open(t)
  BY <1>4 DEF Open
<1>9. \A t \in Request : FileRequestOK(t)'
  <2>1. FileRequestOK(s)'
    <3>1. DOMAIN rest.pending \subseteq request[s].lines
      BY <1>1, <1>2 DEF FileInv, FileRequestOK
    <3>2. phase = "con" =>
            /\ todo # <<>>
            /\ KindOf[Head(todo)] = "con"
            /\ Head(todo) \in DOMAIN Pend(s, row)
            /\ Pend(s, row)[Head(todo)].product # 0
      BY <1>2 DEF Now
    <3> QED
      BY <1>4, <1>8, <3>1, <3>2 DEF FileRequestOK, Open, Now, FileInv
  <2>2. ASSUME NEW t \in Request, t # s PROVE FileRequestOK(t)'
    BY <1>4, <2>2 DEF FileInv, FileRequestOK, Open, Now
  <2> QED
    BY <2>1, <2>2
<1>10. RowsNamed'
  BY <1>2, <1>4 DEF FileInv, RowsNamed, NamesProduct
<1>11. OverlapsExcused'
  <2> \A t \in Request : request'[t].lines = request[t].lines
    BY <1>4
  <2> QED
    BY <1>4 DEF FileInv, OverlapsExcused
<1>12. NothingHidden'
  <2>1. ASSUME NEW l \in DOMAIN rest.pending, TagOf[l] \notin excused, line[l].product # 0
        PROVE  rest.pending[l].product # 0
    BY <1>1, <1>2, <2>1 DEF FileInv, NothingHidden, Seen
  <2> QED
    BY <1>4, <2>1 DEF FileInv, NothingHidden
<1>13. EachHasHolder'
  <2>1. ASSUME NEW l \in DOMAIN request[s].pending, request[s].pending[l].product # 0
        PROVE  l \in DOMAIN rest.pending /\ rest.pending[l].product # 0
    BY <1>1, <1>2, <2>1 DEF Seen
  <2>2. \A l \in Line : Holds(l) => Holds(l)'
    BY <1>4, <2>1 DEF Holds
  <2> QED
    BY <1>4, <2>2 DEF FileInv, EachHasHolder, HasDon
<1>14. OneParent'
  BY <1>4 DEF FileInv, OneParent
<1>15. CountsFollow'
  <2>1. \A t \in Request : request'[t].total = request[t].total
    BY <1>4
  <2>2. \A t \in Request : CountOf(t)' = CountOf(t)
    BY <1>4, <2>1 DEF CountOf
  <2> QED
    BY <1>4, <1>8, <2>1, <2>2 DEF FileInv, CountsFollow
<1> QED
  BY <1>6, <1>7, <1>9, <1>10, <1>11, <1>12, <1>13, <1>14, <1>15 DEF FileInv

\* A row takes the parent it found.
LEMMA TakeParentKeeps ==
  ASSUME FileInv, NEW s \in Request, TakeParent(s)
  PROVE  FileInv'
<1>1. /\ request[s].phase = "row" /\ request[s].todo # <<>> /\ KindOf[Now(s)] = "con"
      /\ request[s] \in RequestRecord /\ Seen(s) \in [Line -> FileRow] /\ Now(s) \in Line
  BY SeenTyped, RowAtHand DEF TakeParent, FileInv
<1>2. PICK l \in Siblings(s) :
        request' = [request EXCEPT ![s] = [@ EXCEPT
          !.pending = Pend(s, Adopted(s, l)), !.phase = "con"]]
  BY DEF TakeParent
<1>3. /\ l \in Line /\ TagOf[l] = TagOf[Now(s)] /\ Seen(s)[l].product > 0
      /\ NamesProduct(products, l, Seen(s)[l])
  BY SeenNamed DEF Siblings, FileInv
<1>4. /\ Adopted(s, l) \in FileRow
      /\ Adopted(s, l).product = Seen(s)[l].product
      /\ Adopted(s, l).product # 0
  BY <1>1, <1>3 DEF Adopted, FileRow
<1>5. NamesProduct(products, Now(s), Adopted(s, l))
  BY <1>3, <1>4 DEF NamesProduct
<1>6. GoesOn(s, Adopted(s, l), request[s].todo, "con")
  BY <1>1, <1>2 DEF GoesOn, TakeParent, RequestRecord
<1>7. request[s].todo \in Seq(Line) /\ ToSet(request[s].todo) \subseteq request[s].lines
  BY <1>1 DEF RequestRecord, FileInv, FileRequestOK
<1> QED
  BY <1>1, <1>4, <1>5, <1>6, <1>7, GoingOnKeeps DEF Open

\* An import fails.
LEMMA FailRowKeeps ==
  ASSUME FileInv, NEW s \in Request, FailRow(s)
  PROVE  FileInv'
<1> DEFINE row == [Seen(s)[Now(s)] EXCEPT !.status = "FAILURE"]
<1>1. /\ request[s].todo # <<>> /\ Open(s)
      /\ request' = [request EXCEPT ![s] = [@ EXCEPT
           !.pending = Pend(s, row), !.todo = Tail(request[s].todo), !.phase = "row"]]
  BY DEF FailRow, Ready, Open
<1>2. /\ request[s] \in RequestRecord /\ Seen(s) \in [Line -> FileRow] /\ Now(s) \in Line
      /\ Tail(request[s].todo) \in Seq(Line)
      /\ ToSet(Tail(request[s].todo)) \subseteq request[s].lines
  BY <1>1, SeenTyped, RowAtHand DEF FileInv
<1>3. row \in FileRow /\ row.product = Seen(s)[Now(s)].product /\ row.status = "FAILURE"
  BY <1>2 DEF FileRow
<1>4. NamesProduct(products, Now(s), row)
  BY <1>2, <1>3, SeenNamed DEF NamesProduct, FileInv
<1>5. GoesOn(s, row, Tail(request[s].todo), "row")
  BY <1>1, <1>2 DEF GoesOn, FailRow, RequestRecord
<1> HIDE DEF row
<1> QED
  BY <1>1, <1>2, <1>3, <1>4, <1>5, GoingOnKeeps

-----------------------------------------------------------------------------
(* A step that commits.                                                    *)

\* The products ps hold those there were; a new one has a don row, or it is
\* the only one of its tag and one of the rows pending names it.
ProductsFollow(ps, pending) ==
  /\ \A i \in DOMAIN products : i \in DOMAIN ps /\ ps[i] = products[i]
  /\ \A i \in DOMAIN ps \ DOMAIN products :
       \/ HasDon(ps[i])
       \/ /\ \E l \in DOMAIN pending : TagOf[l] = ps[i] /\ pending[l].product # 0
          /\ \A j \in DOMAIN ps :
               j # i /\ ps[j] = ps[i] => ps[i] \in excused \/ HasDon(ps[i])

\* What request s has pending after it committed.
PendingAnew(s, ps, pending) ==
  \A l \in DOMAIN pending :
    /\ l \in request[s].lines
    /\ NamesProduct(ps, l, pending[l])
    /\ Seen(s)[l].product # 0 => pending[l].product # 0

\* Request s commits and goes on as rest.
CommitsInto(s, rest) ==
  /\ Commit(s)
  /\ request' = [request EXCEPT ![s] = rest]
  /\ products' \in Seq(FileTag) /\ succeeded' \in Nat
  /\ ProductsFollow(products', rest.pending)
  /\ PendingAnew(s, products', rest.pending)
  /\ UNCHANGED <<file, disturbed, excused>>

\* Such a step keeps all that the invariant says of rows and products.
LEMMA CommittingKeeps ==
  ASSUME FileInv, NEW s \in Request, Open(s), NEW rest \in RequestRecord,
         rest.lines \subseteq request[s].lines, CommitsInto(s, rest)
  PROVE  /\ TypesOK' /\ NothingBefore' /\ RowsNamed' /\ OverlapsExcused'
         /\ NothingHidden' /\ EachHasHolder' /\ OneParent'
         /\ \A t \in Request : t # s => FileRequestOK(t)'
<1>1. /\ request[s] \in RequestRecord /\ Seen(s) \in [Line -> FileRow] /\ CountOf(s) \in Nat
      /\ DOMAIN request[s].pending \subseteq request[s].lines
      /\ \A t \in Request : DOMAIN request[t].pending \subseteq request[t].lines
                            /\ request[t].lines \subseteq Line
  BY SeenTyped DEF FileInv, FileRequestOK, RequestRecord
<1>2. /\ line' = Seen(s) /\ total' = CountOf(s)
      /\ request' = [request EXCEPT ![s] = rest]
      /\ request \in [Request -> RequestRecord]
      /\ request'[s] = rest
      /\ \A t \in Request : t # s => request'[t] = request[t]
      /\ UNCHANGED <<file, disturbed, excused>>
  BY DEF CommitsInto, Commit, FileInv, TypesOK
<1>3. file = "done"
  BY DEF FileInv, NothingBefore, Open, Idle
<1>4. TypesOK'
  BY <1>1, <1>2 DEF FileInv, TypesOK, CommitsInto
<1>5. NothingBefore'
  BY <1>2, <1>3 DEF NothingBefore
<1>6. ASSUME NEW l \in Line, NEW row, NamesProduct(products, l, row)
      PROVE  NamesProduct(products', l, row)
  BY <1>6 DEF NamesProduct, CommitsInto, ProductsFollow
<1>7. RowsNamed'
  <2>1. ASSUME NEW l \in Line PROVE NamesProduct(products', l, line'[l])
    BY <1>2, <1>6, SeenNamed DEF FileInv
  <2>2. ASSUME NEW t \in Request, t # s, NEW l \in DOMAIN request[t].pending
        PROVE  NamesProduct(products', l, request[t].pending[l])
    <3>1. l \in Line /\ NamesProduct(products, l, request[t].pending[l])
      BY <1>1 DEF FileInv, RowsNamed
    <3> QED
      BY <1>6, <3>1
  <2>3. ASSUME NEW l \in DOMAIN rest.pending
        PROVE  NamesProduct(products', l, rest.pending[l])
    BY DEF CommitsInto, PendingAnew
  <2>4. ASSUME NEW t \in Request, NEW l \in DOMAIN request'[t].pending
        PROVE  NamesProduct(products', l, request'[t].pending[l])
    BY <1>2, <2>2, <2>3
  <2> QED
    BY <2>1, <2>4 DEF RowsNamed, NamesProduct
<1>8. \A t \in Request : request'[t].lines \subseteq request[t].lines
  BY <1>2
<1>9. OverlapsExcused'
  BY <1>2, <1>8 DEF FileInv, OverlapsExcused
<1>10. NothingHidden'
  <2>1. ASSUME NEW l \in DOMAIN rest.pending, line'[l].product # 0
        PROVE  rest.pending[l].product # 0
    BY <1>2, <2>1 DEF CommitsInto, PendingAnew
  <2>2. ASSUME NEW t \in Request, t # s, NEW l \in DOMAIN request[t].pending,
               TagOf[l] \notin excused, line'[l].product # 0
        PROVE  request[t].pending[l].product # 0
    <3>1. l \in Line /\ l \in request[t].lines
      BY <1>1
    <3>2. l \notin DOMAIN request[s].pending
      BY <1>1, <2>2, <3>1 DEF FileInv, OverlapsExcused
    <3>3. line'[l] = line[l]
      BY <1>2, <3>1, <3>2 DEF Seen
    <3> QED
      BY <2>2, <3>3 DEF FileInv, NothingHidden
  <2>3. ASSUME NEW t \in Request, NEW l \in DOMAIN request'[t].pending,
               TagOf[l] \notin excused, line'[l].product # 0
        PROVE  request'[t].pending[l].product # 0
    BY <1>2, <2>1, <2>2, <2>3
  <2> QED
    BY <1>2, <2>3 DEF NothingHidden
<1>11. ASSUME NEW l \in Line, TagOf[l] \notin excused, Holds(l)
       PROVE  Holds(l)'
  <2>1. CASE line[l].product # 0
    BY <1>2, <1>11, <2>1 DEF FileInv, NothingHidden, Seen, Holds
  <2>2. CASE l \in DOMAIN request[s].pending /\ request[s].pending[l].product # 0
    BY <1>2, <2>2 DEF Seen, Holds
  <2>3. ASSUME NEW t \in Request, t # s,
               l \in DOMAIN request[t].pending, request[t].pending[l].product # 0
        PROVE  Holds(l)'
    BY <1>2, <2>3 DEF Holds
  <2> QED
    BY <1>11, <2>1, <2>2, <2>3 DEF Holds
<1>12. EachHasHolder'
  <2>1. ASSUME NEW i \in DOMAIN products', products'[i] \notin excused, ~HasDon(products'[i])
        PROVE  \E l \in Line : TagOf[l] = products'[i] /\ Holds(l)'
    <3>1. CASE i \in DOMAIN products
      <4>1. products'[i] = products[i]
        BY <3>1 DEF CommitsInto, ProductsFollow
      <4> QED
        BY <1>11, <2>1, <3>1, <4>1 DEF FileInv, EachHasHolder
    <3>2. CASE i \notin DOMAIN products
      <4>1. PICK l \in DOMAIN rest.pending :
              TagOf[l] = products'[i] /\ rest.pending[l].product # 0
        BY <2>1, <3>2 DEF CommitsInto, ProductsFollow
      <4>2. l \in Line
        BY <1>1, <4>1 DEF CommitsInto, PendingAnew
      <4> QED
        BY <1>2, <4>1, <4>2 DEF Holds
    <3> QED
      BY <3>1, <3>2
  <2> QED
    BY <1>2, <2>1 DEF EachHasHolder, HasDon
<1>13. OneParent'
  <2>1. ASSUME NEW i \in DOMAIN products', NEW j \in DOMAIN products',
               i # j, products'[i] = products'[j]
        PROVE  products'[i] \in excused \/ HasDon(products'[i])
    <3>1. CASE i \in DOMAIN products /\ j \in DOMAIN products
      BY <2>1, <3>1 DEF CommitsInto, ProductsFollow, FileInv, OneParent, HasDon
    <3>2. CASE i \notin DOMAIN products
      BY <2>1, <3>2 DEF CommitsInto, ProductsFollow
    <3>3. CASE j \notin DOMAIN products
      BY <2>1, <3>3 DEF CommitsInto, ProductsFollow
    <3> QED
      BY <3>1, <3>2, <3>3
  <2> QED
    BY <1>2, <2>1 DEF OneParent, HasDon
<1>14. ASSUME NEW t \in Request, t # s PROVE FileRequestOK(t)'
  BY <1>2, <1>14 DEF FileInv, FileRequestOK, Open, Now
<1> QED
  BY <1>4, <1>5, <1>7, <1>9, <1>10, <1>12, <1>13, <1>14

\* It keeps the count, when it adds one for an import or has none pending.
LEMMA CommittingCounts ==
  ASSUME FileInv, NEW s \in Request, Open(s), NEW rest \in RequestRecord, CommitsInto(s, rest),
         \/ rest.total = CountOf(s) + 1 /\ succeeded' = succeeded + 1 /\ rest.phase # "idle"
         \/ rest.total = 0 /\ succeeded' = succeeded
  PROVE  CountsFollow'
<1>1. /\ total' = CountOf(s)
      /\ request'[s] = rest
      /\ \A t \in Request : t # s => request'[t] = request[t]
      /\ disturbed' = disturbed
  BY DEF CommitsInto, Commit, FileInv, TypesOK
<1>2. /\ CountOf(s) \in Nat /\ rest.total \in Nat /\ succeeded \in Nat
      /\ \A t \in Request : request[t].total \in Nat
  BY SeenTyped DEF FileInv, TypesOK, RequestRecord
<1>3. CountOf(s) <= succeeded
  BY DEF CountOf, FileInv, CountsFollow
<1>4. total' <= succeeded' /\ rest.total <= succeeded' /\ succeeded <= succeeded'
  BY <1>1, <1>2, <1>3
<1>5. \A t \in Request : request'[t].total <= succeeded'
  <2>1. ASSUME NEW t \in Request, t # s PROVE request'[t].total <= succeeded'
    <3>1. request[t].total <= succeeded /\ request'[t].total = request[t].total
      BY <1>1, <2>1 DEF FileInv, CountsFollow
    <3> QED
      BY <1>2, <1>4, <3>1
  <2> QED
    BY <1>1, <1>4, <2>1
<1>6. ASSUME ~disturbed
      PROVE  /\ \A t \in Request : Open(t)' => t = s
             /\ Open(s)' => CountOf(s)' = succeeded'
             /\ ~Open(s)' => total' = succeeded'
  <2>1. CountOf(s) = succeeded /\ \A t \in Request : Open(t) => t = s
    BY <1>6 DEF FileInv, CountsFollow
  <2>2. \A t \in Request : Open(t)' => t = s
    BY <1>1, <2>1 DEF Open
  <2>3. Open(s)' => CountOf(s)' = succeeded'
    BY <1>1, <1>2, <2>1 DEF CountOf
  <2>4. ~Open(s)' => total' = succeeded'
    BY <1>1, <2>1 DEF Open
  <2> QED
    BY <2>2, <2>3, <2>4
<1> QED
  BY <1>1, <1>4, <1>5, <1>6 DEF CountsFollow

\* A con row makes its parent: no product of its tag is left out of its sight
\* unless the tag is excused.
LEMMA CreateParentKeeps ==
  ASSUME FileInv, NEW s \in Request, CreateParent(s)
  PROVE  FileInv'
<1> DEFINE now == Now(s)
           row == [Seen(s)[now] EXCEPT !.product = Len(products) + 1]
           pending == [x \in {now} |-> row]
           rest == [todo |-> request[s].todo, lines |-> request[s].lines,
                    pending |-> pending, total |-> 0, phase |-> "con"]
<1>1. /\ request[s].phase = "row" /\ request[s].todo # <<>> /\ Open(s)
      /\ KindOf[now] = "con" /\ Siblings(s) = {}
      /\ products' = Append(products, TagOf[now])
      /\ Commit(s)
      /\ UNCHANGED <<file, succeeded, disturbed, excused>>
  BY DEF CreateParent, Open
<1>2. /\ request[s] \in RequestRecord /\ Seen(s) \in [Line -> FileRow]
      /\ now \in Line /\ now \in request[s].lines
      /\ products \in Seq(FileTag) /\ succeeded \in Nat /\ TagOf[now] \in FileTag
  BY <1>1, SeenTyped, RowAtHand DEF FileInv, TypesOK, FileTag
<1>3. row \in FileRow /\ row.product = Len(products) + 1 /\ row.status = Seen(s)[now].status
  BY <1>2 DEF FileRow
<1>4. pending \in PendingRows /\ rest \in RequestRecord
  <2>1. pending \in PendingRows
    <3> pending \in [{now} -> FileRow] /\ {now} \in SUBSET Line
      BY <1>2, <1>3
    <3> QED
      BY PendingOf
  <2> QED
    BY <1>2, <2>1 DEF RequestRecord
<1>5. request' = [request EXCEPT ![s] = rest]
  <2>1. PICK q : /\ q = [request[s] EXCEPT
                       !.pending = pending, !.total = 0, !.phase = "con"]
                 /\ request' = [request EXCEPT ![s] = q]
    BY DEF CreateParent
  <2> HIDE DEF pending
  <2>2. /\ q \in RequestRecord /\ q.todo = request[s].todo
        /\ q.lines = request[s].lines /\ q.pending = pending
        /\ q.total = 0 /\ q.phase = "con"
    BY <1>2, <1>4, <2>1 DEF RequestRecord
  <2> QED
    BY <1>4, <2>1, <2>2, SameRecord
<1> HIDE DEF row, now
<1>6. /\ products' \in Seq(FileTag)
      /\ DOMAIN products' = DOMAIN products \cup {Len(products) + 1}
      /\ Len(products) + 1 \notin DOMAIN products
      /\ \A i \in DOMAIN products : products'[i] = products[i]
      /\ products'[Len(products) + 1] = TagOf[now]
  BY <1>1, <1>2
<1>7. ASSUME NEW j \in DOMAIN products, products[j] = TagOf[now]
      PROVE  TagOf[now] \in excused \/ HasDon(TagOf[now])
  <2>1. SUFFICES ASSUME TagOf[now] \notin excused, ~HasDon(TagOf[now])
                 PROVE  FALSE
    OBVIOUS
  <2>2. PICK l \in Line : TagOf[l] = TagOf[now] /\ Holds(l)
    BY <1>7, <2>1 DEF FileInv, EachHasHolder
  <2>3. Seen(s)[l].product = 0
    BY <1>1, <1>2, <2>2 DEF Siblings, FileRow, now
  <2>4. line[l].product = 0
    BY <2>1, <2>2, <2>3 DEF Seen, FileInv, NothingHidden
  <2>5. PICK t \in Request : l \in DOMAIN request[t].pending /\ request[t].pending[l].product # 0
    BY <2>2, <2>4 DEF Holds
  <2>6. t # s
    BY <2>2, <2>3, <2>5 DEF Seen
  <2>7. l \in request[t].lines
    BY <2>5 DEF FileInv, FileRequestOK
  <2> QED
    BY <1>2, <2>1, <2>2, <2>6, <2>7 DEF FileInv, OverlapsExcused
<1>8. DOMAIN pending = {now} /\ pending[now] = row
  OBVIOUS
<1> HIDE DEF pending
<1>9. ProductsFollow(products', pending)
  <2>1. \E l \in DOMAIN pending : TagOf[l] = TagOf[now] /\ pending[l].product # 0
    BY <1>2, <1>3, <1>8
  <2> QED
    BY <1>6, <1>7, <2>1 DEF ProductsFollow
<1>10. NamesProduct(products', now, row)
  <2>1. NamesProduct(products, now, Seen(s)[now])
    BY <1>2, SeenNamed DEF FileInv
  <2>2. row.product \in DOMAIN products' /\ products'[row.product] = TagOf[now]
    BY <1>3, <1>6
  <2>3. row.product # 0
    BY <1>2, <1>3
  <2> QED
    BY <2>2, <2>3 DEF NamesProduct
<1>11. PendingAnew(s, products', pending)
  BY <1>2, <1>3, <1>8, <1>10 DEF PendingAnew
<1>12. CommitsInto(s, rest)
  BY <1>1, <1>2, <1>5, <1>6, <1>9, <1>11 DEF CommitsInto
<1>13. rest.lines = request[s].lines /\ rest.total = 0 /\ succeeded' = succeeded
  BY <1>1
<1>14. FileRequestOK(s)'
  <2>1. request'[s] = rest
    BY <1>5 DEF FileInv, TypesOK
  <2>2. ToSet(request[s].todo) \subseteq request[s].lines
    BY DEF FileInv, FileRequestOK
  <2>3. Head(request[s].todo) = now
    BY DEF now, Now
  <2>4. row.product # 0
    BY <1>2, <1>3
  <2> QED
    BY <1>1, <1>2, <1>8, <2>1, <2>2, <2>3, <2>4 DEF FileRequestOK, Open, Now
<1> HIDE DEF rest
<1>15. CountsFollow'
  BY <1>1, <1>4, <1>12, <1>13, CommittingCounts
<1>16. /\ TypesOK' /\ NothingBefore' /\ RowsNamed' /\ OverlapsExcused'
       /\ NothingHidden' /\ EachHasHolder' /\ OneParent'
       /\ \A t \in Request : t # s => FileRequestOK(t)'
  BY <1>1, <1>4, <1>12, <1>13, CommittingKeeps
<1> QED
  BY <1>14, <1>15, <1>16 DEF FileInv

\* An import succeeds: of a don row, which has a product of its own, or of a
\* con row that names its parent.
LEMMA SucceedKeeps ==
  ASSUME FileInv, NEW s \in Request, Succeed(s)
  PROVE  FileInv'
<1> DEFINE now == Now(s)
           row == [Seen(s)[now] EXCEPT !.status = "SUCCESS"]
           pending == [x \in {now} |-> row]
           rest == [todo |-> Tail(request[s].todo), lines |-> request[s].lines,
                    pending |-> pending, total |-> CountOf(s) + 1, phase |-> "row"]
<1>1. /\ request[s].todo # <<>> /\ Open(s)
      /\ \/ KindOf[now] = "don"
         \/ request[s].phase = "con"
      /\ products' = IF KindOf[now] = "don" THEN Append(products, TagOf[now]) ELSE products
      /\ Commit(s)
      /\ succeeded' = succeeded + 1
      /\ UNCHANGED <<file, disturbed, excused>>
  BY DEF Succeed, Ready, Open
<1>2. /\ request[s] \in RequestRecord /\ Seen(s) \in [Line -> FileRow] /\ CountOf(s) \in Nat
      /\ now \in Line /\ now \in request[s].lines
      /\ Tail(request[s].todo) \in Seq(Line)
      /\ ToSet(Tail(request[s].todo)) \subseteq request[s].lines
      /\ products \in Seq(FileTag) /\ succeeded \in Nat /\ TagOf[now] \in FileTag
  BY <1>1, SeenTyped, RowAtHand DEF FileInv, TypesOK, FileTag
<1>3. row \in FileRow /\ row.product = Seen(s)[now].product /\ row.status = "SUCCESS"
  BY <1>2 DEF FileRow
<1>4. pending \in PendingRows /\ rest \in RequestRecord
  <2>1. pending \in PendingRows
    <3> pending \in [{now} -> FileRow] /\ {now} \in SUBSET Line
      BY <1>2, <1>3
    <3> QED
      BY PendingOf
  <2> QED
    BY <1>2, <2>1 DEF RequestRecord
<1>5. request' = [request EXCEPT ![s] = rest]
  <2>1. PICK q : /\ q = [request[s] EXCEPT
                       !.pending = pending, !.total = CountOf(s) + 1,
                       !.todo = Tail(request[s].todo), !.phase = "row"]
                 /\ request' = [request EXCEPT ![s] = q]
    BY DEF Succeed
  <2> HIDE DEF pending
  <2>2. /\ q \in RequestRecord /\ q.todo = Tail(request[s].todo)
        /\ q.lines = request[s].lines /\ q.pending = pending
        /\ q.total = CountOf(s) + 1 /\ q.phase = "row"
    BY <1>2, <1>4, <2>1 DEF RequestRecord
  <2> QED
    BY <1>4, <2>1, <2>2, SameRecord
<1> HIDE DEF row, now
<1>6. /\ products' \in Seq(FileTag)
      /\ \A i \in DOMAIN products : i \in DOMAIN products' /\ products'[i] = products[i]
      /\ \A i \in DOMAIN products' \ DOMAIN products :
           KindOf[now] = "don" /\ products'[i] = TagOf[now]
  BY <1>1, <1>2
<1>7. \A i \in DOMAIN products' \ DOMAIN products : HasDon(products'[i])
  BY <1>2, <1>6 DEF HasDon
<1>8. DOMAIN pending = {now} /\ pending[now] = row
  OBVIOUS
<1> HIDE DEF pending
<1>9. ProductsFollow(products', pending)
  BY <1>6, <1>7 DEF ProductsFollow
<1>10. NamesProduct(products', now, row)
  <2>1. NamesProduct(products, now, Seen(s)[now])
    BY <1>2, SeenNamed DEF FileInv
  <2>2. KindOf[now] = "con" => request[s].phase = "con"
    BY <1>1
  <2>3. KindOf[now] = "con" => Seen(s)[now].product # 0
    BY <1>2, <2>2 DEF FileInv, FileRequestOK, Seen, now
  <2> QED
    BY <1>3, <1>6, <2>1, <2>3 DEF NamesProduct
<1>11. PendingAnew(s, products', pending)
  BY <1>2, <1>3, <1>8, <1>10 DEF PendingAnew
<1>12. CommitsInto(s, rest)
  BY <1>1, <1>2, <1>5, <1>6, <1>9, <1>11 DEF CommitsInto
<1>13. /\ rest.lines = request[s].lines /\ rest.total = CountOf(s) + 1
       /\ succeeded' = succeeded + 1 /\ rest.phase # "idle"
  BY <1>1
<1>14. FileRequestOK(s)'
  <2>1. request'[s] = rest
    BY <1>5 DEF FileInv, TypesOK
  <2> QED
    BY <1>2, <1>8, <2>1 DEF FileRequestOK, Open, Now
<1> HIDE DEF rest
<1>15. CountsFollow'
  BY <1>1, <1>4, <1>12, <1>13, CommittingCounts
<1>16. /\ TypesOK' /\ NothingBefore' /\ RowsNamed' /\ OverlapsExcused'
       /\ NothingHidden' /\ EachHasHolder' /\ OneParent'
       /\ \A t \in Request : t # s => FileRequestOK(t)'
  BY <1>1, <1>4, <1>12, <1>13, CommittingKeeps
<1> QED
  BY <1>14, <1>15, <1>16 DEF FileInv

\* The commit at the end.
LEMMA EndRetryKeeps ==
  ASSUME FileInv, NEW s \in Request, EndRetry(s)
  PROVE  FileInv'
<1>1. Idle \in RequestRecord /\ DOMAIN Idle.pending = {}
      /\ Idle.lines = {} /\ Idle.total = 0 /\ Idle.phase = "idle" /\ Idle.todo = <<>>
  BY IdleTyped
<1>2. /\ Open(s) /\ Commit(s) /\ request' = [request EXCEPT ![s] = Idle]
      /\ UNCHANGED <<file, products, succeeded, disturbed, excused>>
  BY DEF EndRetry
<1>3. CommitsInto(s, Idle)
  BY <1>1, <1>2 DEF CommitsInto, ProductsFollow, PendingAnew, FileInv, TypesOK
<1>4. CountsFollow'
  BY <1>1, <1>2, <1>3, CommittingCounts
<1>5. /\ TypesOK' /\ NothingBefore' /\ RowsNamed' /\ OverlapsExcused'
      /\ NothingHidden' /\ EachHasHolder' /\ OneParent'
      /\ \A t \in Request : t # s => FileRequestOK(t)'
  BY <1>1, <1>2, <1>3, CommittingKeeps
<1>6. FileRequestOK(s)'
  <2>1. request'[s] = Idle
    BY <1>2 DEF FileInv, TypesOK
  <2> QED
    BY <1>1, <2>1 DEF FileRequestOK, Open, ToSet
<1> QED
  BY <1>4, <1>5, <1>6 DEF FileInv

-----------------------------------------------------------------------------
(* The other steps.                                                        *)

\* A cha row is left as it is.
LEMMA SkipParentRowKeeps ==
  ASSUME FileInv, NEW s \in Request, SkipParentRow(s)
  PROVE  FileInv'
<1>1. /\ request[s].phase = "row" /\ request[s].todo # <<>> /\ Open(s)
      /\ request' = [request EXCEPT ![s].todo = Tail(request[s].todo)]
      /\ UNCHANGED <<file, line, total, products, succeeded, disturbed, excused>>
  BY DEF SkipParentRow, Open
<1>2. /\ request \in [Request -> RequestRecord] /\ request[s] \in RequestRecord
      /\ Tail(request[s].todo) \in Seq(Line)
      /\ ToSet(Tail(request[s].todo)) \subseteq request[s].lines
  BY <1>1, SeenTyped, RowAtHand DEF FileInv, TypesOK
<1>3. PICK q : /\ q = [request[s] EXCEPT !.todo = Tail(request[s].todo)]
               /\ request' = [request EXCEPT ![s] = q]
  BY <1>1, <1>2 DEF RequestRecord
<1>4. /\ q \in RequestRecord /\ q.todo = Tail(request[s].todo) /\ q.lines = request[s].lines
      /\ q.pending = request[s].pending /\ q.total = request[s].total /\ q.phase = "row"
  BY <1>1, <1>2, <1>3 DEF RequestRecord
<1>5. /\ request'[s] = q
      /\ \A t \in Request : t # s => request'[t] = request[t]
  BY <1>2, <1>3
<1>6. /\ \A t \in Request :
           /\ request'[t].lines = request[t].lines /\ request'[t].total = request[t].total
           /\ request'[t].pending = request[t].pending
      /\ \A t \in Request : Open(t)' <=> Open(t)
  BY <1>1, <1>4, <1>5 DEF Open
<1>7. TypesOK'
  BY <1>1, <1>2, <1>3, <1>4 DEF FileInv, TypesOK
<1>8. NothingBefore'
  <2> file = "done"
    BY <1>1 DEF FileInv, NothingBefore, Open, Idle
  <2> QED
    BY <1>1 DEF NothingBefore
<1>9. \A t \in Request : FileRequestOK(t)'
  <2>1. FileRequestOK(s)'
    BY <1>1, <1>2, <1>4, <1>5 DEF FileInv, FileRequestOK, Open
  <2>2. ASSUME NEW t \in Request, t # s PROVE FileRequestOK(t)'
    BY <1>1, <1>5, <2>2 DEF FileInv, FileRequestOK, Open, Now
  <2> QED
    BY <2>1, <2>2
<1>10. RowsNamed' /\ OverlapsExcused' /\ NothingHidden' /\ EachHasHolder' /\ OneParent'
  <2>1. \A l : Holds(l)' <=> Holds(l)
    BY <1>1, <1>6 DEF Holds
  <2> QED
    BY <1>1, <1>6, <2>1
    DEF FileInv, RowsNamed, OverlapsExcused, NothingHidden, EachHasHolder, HasDon, OneParent,
        NamesProduct
<1>11. CountsFollow'
  <2>1. \A t \in Request : CountOf(t)' = CountOf(t)
    BY <1>1, <1>6 DEF CountOf
  <2> QED
    BY <1>1, <1>6, <2>1 DEF FileInv, CountsFollow
<1> QED
  BY <1>7, <1>8, <1>9, <1>10, <1>11 DEF FileInv

\* A request begins: what other requests share with it is excused.
LEMMA BeginRetryKeeps ==
  ASSUME FileInv, NEW s \in Request,
         NEW ls \in SUBSET Line, NEW order \in SetToSeqs(ls), BeginRetry(s, order)
  PROVE  FileInv'
<1> DEFINE rest == [todo |-> order, lines |-> ToSet(order),
                    pending |-> [l \in {} |-> NoLine], total |-> 0, phase |-> "row"]
           others == UNION {request[t].lines : t \in Request \ {s}}
<1>1. /\ file = "done" /\ ~Open(s) /\ Len(order) >= 1
      /\ request' = [request EXCEPT ![s] =
           [Idle EXCEPT !.todo = order, !.lines = ToSet(order), !.phase = "row"]]
      /\ disturbed' = (disturbed \/ others # {})
      /\ excused' = excused \cup
           ({TagOf[l] : l \in others} \cap {TagOf[l] : l \in ToSet(order)})
      /\ UNCHANGED <<file, line, total, products, succeeded>>
  BY DEF BeginRetry
<1>2. order \in Seq(Line) /\ ToSet(order) \subseteq Line
  <2>1. Cardinality(ls) \in Nat
    BY FS_Subset, FS_CardinalityType, FileConstants
  <2>2. order \in [1 .. Cardinality(ls) -> ls]
    BY DEF SetToSeqs
  <2>3. order \in Seq(Line)
    BY <2>1, <2>2
  <2> QED
    BY <2>3 DEF ToSet
<1>3. order # <<>> /\ ToSet(order) # {}
  <2> 1 \in DOMAIN order
    BY <1>1, <1>2
  <2> QED
    BY DEF ToSet
<1>4. rest \in RequestRecord
  BY <1>2, IdleTyped DEF RequestRecord, Idle
<1>5. request' = [request EXCEPT ![s] = rest]
  <2>1. PICK q : /\ q = [Idle EXCEPT !.todo = order, !.lines = ToSet(order), !.phase = "row"]
                 /\ request' = [request EXCEPT ![s] = q]
    BY <1>1
  <2>2. /\ q \in RequestRecord /\ q.todo = order /\ q.lines = ToSet(order)
        /\ q.pending = Idle.pending /\ q.total = 0 /\ q.phase = "row"
    BY <1>2, <2>1, IdleTyped DEF RequestRecord
  <2>3. rest.pending = Idle.pending
    BY DEF Idle
  <2> QED
    BY <1>4, <2>1, <2>2, <2>3, SameRecord
<1>6. /\ request'[s] = rest
      /\ \A t \in Request : t # s => request'[t] = request[t]
      /\ request \in [Request -> RequestRecord]
      /\ request[s] = Idle
      /\ Open(s)'
      /\ \A t \in Request : t # s => (Open(t)' <=> Open(t))
  BY <1>1, <1>5 DEF FileInv, TypesOK, FileRequestOK, Open
<1>7. TypesOK'
  BY <1>1, <1>4, <1>5, <1>6 DEF FileInv, TypesOK
<1>8. NothingBefore'
  BY <1>1 DEF NothingBefore
<1>9. \A t \in Request : FileRequestOK(t)'
  <2>1. FileRequestOK(s)'
    BY <1>3, <1>6 DEF FileRequestOK, Open
  <2>2. ASSUME NEW t \in Request, t # s PROVE FileRequestOK(t)'
    BY <1>1, <1>6, <2>2 DEF FileInv, FileRequestOK, Open, Now
  <2> QED
    BY <2>1, <2>2
<1>10. RowsNamed'
  BY <1>1, <1>6 DEF FileInv, RowsNamed, NamesProduct
<1>11. OverlapsExcused'
  <2>1. excused \subseteq excused'
    BY <1>1
  <2>2. ASSUME NEW t \in Request, t # s, NEW k \in request[t].lines,
               NEW l \in ToSet(order), TagOf[k] = TagOf[l]
        PROVE  TagOf[k] \in excused'
    <3>1. k \in others
      BY <2>2
    <3> HIDE DEF others
    <3> QED
      BY <1>1, <2>2, <3>1
  <2> HIDE DEF others
  <2>3. ASSUME NEW t \in Request, NEW u \in Request, t # u,
               NEW k \in request'[t].lines, NEW l \in request'[u].lines, TagOf[k] = TagOf[l]
        PROVE  TagOf[k] \in excused'
    <3>1. CASE t # s /\ u # s
      BY <1>6, <2>1, <2>3, <3>1 DEF FileInv, OverlapsExcused
    <3>2. CASE t = s
      BY <1>6, <2>2, <2>3, <3>2
    <3>3. CASE u = s
      BY <1>6, <2>2, <2>3, <3>3
    <3> QED
      BY <3>1, <3>2, <3>3
  <2> QED
    BY <2>3 DEF OverlapsExcused
<1> excused \subseteq excused'
  BY <1>1
<1>12. NothingHidden'
  BY <1>1, <1>6 DEF FileInv, NothingHidden
<1>13. EachHasHolder'
  <2>1. \A l \in Line : Holds(l) => Holds(l)'
    BY <1>1, <1>6, IdleTyped DEF Holds
  <2> QED
    BY <1>1, <2>1 DEF FileInv, EachHasHolder, HasDon
<1>14. OneParent'
  BY <1>1 DEF FileInv, OneParent
<1>15. CountsFollow'
  <2>1. CountOf(s)' = total
    BY <1>1, <1>6 DEF CountOf
  <2>2. \A t \in Request : request'[t].total <= succeeded
    BY <1>6 DEF FileInv, CountsFollow, TypesOK
  <2>3. ASSUME ~disturbed'
        PROVE  ~disturbed /\ \A t \in Request : t # s => ~Open(t)
    <3>1. ~disturbed /\ others = {}
      BY <1>1, <2>3
    <3>2. \A t \in Request : t # s => request[t].lines = {}
      BY <3>1
    <3> QED
      BY <3>1, <3>2 DEF FileInv, FileRequestOK
  <2> HIDE DEF others
  <2>4. ASSUME ~disturbed'
        PROVE  total = succeeded /\ \A t \in Request : Open(t)' => t = s
    BY <1>1, <1>6, <2>3, <2>4 DEF FileInv, CountsFollow
  <2> QED
    BY <1>1, <1>6, <2>1, <2>2, <2>4 DEF FileInv, CountsFollow
<1> QED
  BY <1>7, <1>8, <1>9, <1>10, <1>11, <1>12, <1>13, <1>14, <1>15 DEF FileInv

\* The worker of a request dies: its tags are excused.
LEMMA DieRetryingKeeps ==
  ASSUME FileInv, NEW s \in Request, DieRetrying(s)
  PROVE  FileInv'
<1>1. /\ Open(s)
      /\ request' = [request EXCEPT ![s] = Idle]
      /\ disturbed' = TRUE
      /\ excused' = excused \cup {TagOf[l] : l \in request[s].lines}
      /\ UNCHANGED <<file, line, total, products, succeeded>>
  BY DEF DieRetrying
<1>2. /\ request'[s] = Idle
      /\ \A t \in Request : t # s => request'[t] = request[t]
      /\ request \in [Request -> RequestRecord]
  BY <1>1 DEF FileInv, TypesOK
<1>3. excused \subseteq excused' /\ \A l \in request[s].lines : TagOf[l] \in excused'
  BY <1>1
<1>4. TypesOK'
  BY <1>1, <1>2, IdleTyped DEF FileInv, TypesOK
<1>5. NothingBefore'
  BY <1>1, <1>2 DEF FileInv, NothingBefore
<1>6. \A t \in Request : FileRequestOK(t)'
  <2>1. FileRequestOK(s)'
    BY <1>2, IdleTyped DEF FileRequestOK, Open, ToSet
  <2>2. ASSUME NEW t \in Request, t # s PROVE FileRequestOK(t)'
    BY <1>1, <1>2, <2>2 DEF FileInv, FileRequestOK, Open, Now
  <2> QED
    BY <2>1, <2>2
<1>7. RowsNamed'
  BY <1>1, <1>2, IdleTyped DEF FileInv, RowsNamed, NamesProduct
<1>8. OverlapsExcused'
  BY <1>2, <1>3, IdleTyped DEF FileInv, OverlapsExcused
<1>9. NothingHidden'
  BY <1>1, <1>2, <1>3, IdleTyped DEF FileInv, NothingHidden
<1>10. EachHasHolder'
  <2>1. ASSUME NEW l \in Line, Holds(l), TagOf[l] \notin excused'
        PROVE  Holds(l)'
    <3>1. l \notin request[s].lines
      BY <1>3, <2>1
    <3>2. l \notin DOMAIN request[s].pending
      BY <3>1 DEF FileInv, FileRequestOK
    <3> QED
      BY <1>1, <1>2, <2>1, <3>2 DEF Holds
  <2> QED
    BY <1>1, <1>3, <2>1 DEF FileInv, EachHasHolder, HasDon
<1>11. OneParent'
  BY <1>1, <1>3 DEF FileInv, OneParent
<1>12. CountsFollow'
  BY <1>1, <1>2, IdleTyped DEF FileInv, CountsFollow, TypesOK
<1> QED
  BY <1>4, <1>5, <1>6, <1>7, <1>8, <1>9, <1>10, <1>11, <1>12 DEF FileInv

\* The upload and its signal leave everything else as it was.
LEMMA AnnouncingKeeps ==
  ASSUME FileInv, Upload \/ Announce
  PROVE  FileInv'
<1>1. /\ file # "done" /\ file' \in {"none", "new", "announced", "done"}
      /\ UNCHANGED <<line, total, products, request, succeeded, disturbed, excused>>
  BY DEF Upload, Announce
<1>2. TypesOK' /\ NothingBefore'
  BY <1>1 DEF FileInv, TypesOK, NothingBefore
<1>3. \A t \in Request : FileRequestOK(t)'
  BY <1>1 DEF FileInv, FileRequestOK, Open, Now
<1>4. RowsNamed' /\ OverlapsExcused' /\ NothingHidden' /\ EachHasHolder' /\ OneParent'
  BY <1>1 DEF FileInv, RowsNamed, NamesProduct, OverlapsExcused, NothingHidden, EachHasHolder,
              HasDon, Holds, OneParent
<1>5. CountsFollow'
  BY <1>1 DEF FileInv, CountsFollow, CountOf, Open
<1> QED
  BY <1>2, <1>3, <1>4, <1>5 DEF FileInv

\* SetToSeq lists every element of a finite set once.
LEMMA ListOfSet ==
  ASSUME NEW S, IsFiniteSet(S), NEW listed, listed = SetToSeq(S)
  PROVE  /\ listed \in Seq(S)
         /\ \A i, j \in DOMAIN listed : listed[i] = listed[j] => i = j
         /\ \A x \in S : \E i \in DOMAIN listed : listed[i] = x
<1> DEFINE n == Cardinality(S)
<1>1. n \in Nat /\ ExistsBijection(1 .. n, S)
  BY FS_CardinalityType
<1>2. \E f \in [1 .. n -> S] : IsInjective(f)
  BY <1>1 DEF ExistsBijection, Bijection, Injection
<1>3. listed \in [1 .. n -> S] /\ IsInjective(listed)
  BY <1>2 DEF SetToSeq
<1>4. listed \in Injection(1 .. n, S)
  BY <1>3 DEF Injection
<1>5. Cardinality(1 .. n) = n /\ IsFiniteSet(1 .. n)
  BY <1>1, FS_Interval
<1>6. listed \in Surjection(1 .. n, S)
  BY <1>4, <1>5, FS_Injection
<1>7. listed \in Seq(S)
  BY <1>1, <1>3
<1> QED
  BY <1>3, <1>6, <1>7 DEF Surjection, IsInjective

\* The background job: each parent has a product, which its children name.
LEMMA ProcessKeeps ==
  ASSUME FileInv, Process
  PROVE  FileInv'
<1>1. PICK ok \in SUBSET Line :
        LET parents == {l \in ok : KindOf[l] # "con"}
            order == SetToSeq(parents)
        IN  /\ \A l \in ok : KindOf[l] = "con" =>
                 \E p \in parents : KindOf[p] = "cha" /\ TagOf[p] = TagOf[l]
            /\ products' = [n \in DOMAIN order |-> TagOf[order[n]]]
            /\ line' = [l \in Line |->
                 [status  |-> IF l \in ok THEN "SUCCESS" ELSE "FAILURE",
                  product |-> IF l \in ok
                              THEN CHOOSE n \in DOMAIN order : TagOf[order[n]] = TagOf[l]
                              ELSE 0]]
            /\ total' = Cardinality(ok) /\ succeeded' = Cardinality(ok)
  BY DEF Process
<1> DEFINE parents == {l \in ok : KindOf[l] # "con"}
           order == SetToSeq(parents)
           named(l) == CHOOSE n \in DOMAIN order : TagOf[order[n]] = TagOf[l]
<1>2. /\ \A l \in ok : KindOf[l] = "con" => \E p \in parents : TagOf[p] = TagOf[l]
      /\ products' = [n \in DOMAIN order |-> TagOf[order[n]]]
      /\ line' = [l \in Line |->
           [status  |-> IF l \in ok THEN "SUCCESS" ELSE "FAILURE",
            product |-> IF l \in ok THEN named(l) ELSE 0]]
  BY <1>1
<1>3. /\ IsFiniteSet(ok) /\ IsFiniteSet(parents)
      /\ \A l \in ok : l \in parents \/ KindOf[l] = "con"
      /\ \A l \in parents : l \in ok /\ KindOf[l] # "con"
  BY FS_Subset, FileConstants
<1> HIDE DEF parents
<1>4. /\ order \in Seq(parents)
      /\ \A i, j \in DOMAIN order : order[i] = order[j] => i = j
      /\ \A x \in parents : \E i \in DOMAIN order : order[i] = x
  BY <1>3, ListOfSet
<1> HIDE DEF order
<1>5. /\ total' = Cardinality(ok) /\ succeeded' = Cardinality(ok) /\ Cardinality(ok) \in Nat
  BY <1>1, <1>3, FS_CardinalityType
<1>6. /\ file = "announced" /\ file' = "done"
      /\ UNCHANGED <<request, disturbed, excused>>
      /\ \A s \in Request : request[s] = Idle
  BY DEF Process, FileInv, NothingBefore
<1>7. DOMAIN order = 1 .. Len(order) /\ Len(order) \in Nat
  BY <1>4
<1>8. ASSUME NEW l \in ok
      PROVE  /\ named(l) \in DOMAIN order
             /\ TagOf[order[named(l)]] = TagOf[l]
  <2>1. PICK p \in parents : TagOf[p] = TagOf[l]
    BY <1>2, <1>3
  <2>2. \E n \in DOMAIN order : TagOf[order[n]] = TagOf[l]
    BY <1>4, <2>1
  <2> QED
    BY <2>2
<1> HIDE DEF named
<1>9. /\ DOMAIN products' = DOMAIN order
      /\ \A i \in DOMAIN order : order[i] \in parents /\ products'[i] = TagOf[order[i]]
  BY <1>2, <1>4
<1>10. products' \in Seq(FileTag)
  <2>1. \A i \in 1 .. Len(order) : products'[i] \in FileTag
    BY <1>3, <1>7, <1>9 DEF FileTag
  <2>2. products' = [i \in 1 .. Len(order) |-> products'[i]]
    BY <1>2, <1>7, <1>9
  <2> QED
    BY <1>7, <2>1, <2>2
<1>11. ASSUME NEW l \in Line
       PROVE  /\ line'[l] \in FileRow
              /\ l \in ok => line'[l].product = named(l) /\ line'[l].product # 0
              /\ l \notin ok => line'[l].product = 0 /\ line'[l].status = "FAILURE"
  <2>1. l \in ok => named(l) \in Nat /\ named(l) # 0
    BY <1>7, <1>8
  <2> QED
    BY <1>2, <2>1 DEF FileRow
<1>12. TypesOK'
  <2> line' \in [Line -> FileRow]
    BY <1>2, <1>11
  <2> QED
    BY <1>5, <1>6, <1>10 DEF FileInv, TypesOK
<1>13. NothingBefore'
  BY <1>6 DEF NothingBefore
<1>14. \A t \in Request : FileRequestOK(t)'
  BY <1>6 DEF FileInv, FileRequestOK, Open, Now
<1>15. RowsNamed'
  <2>1. ASSUME NEW l \in Line PROVE NamesProduct(products', l, line'[l])
    BY <1>8, <1>9, <1>11 DEF NamesProduct
  <2> QED
    BY <1>6, <2>1, IdleTyped DEF RowsNamed, NamesProduct
<1>16. OverlapsExcused'
  BY <1>6 DEF FileInv, OverlapsExcused
<1>17. NothingHidden'
  BY <1>6, IdleTyped DEF NothingHidden
<1>18. EachHasHolder'
  <2>1. ASSUME NEW i \in DOMAIN products'
        PROVE  \E l \in Line : TagOf[l] = products'[i] /\ Holds(l)'
    <3>1. order[i] \in ok /\ order[i] \in Line /\ products'[i] = TagOf[order[i]]
      BY <1>3, <1>9
    <3> QED
      BY <1>11, <3>1 DEF Holds
  <2> QED
    BY <2>1 DEF EachHasHolder
<1>19. OneParent'
  <2>1. ASSUME NEW i \in DOMAIN products', NEW j \in DOMAIN products',
               i # j, products'[i] = products'[j]
        PROVE  HasDon(products'[i])
    <3>1. /\ order[i] \in parents /\ order[j] \in parents /\ order[i] # order[j]
          /\ TagOf[order[i]] = products'[i] /\ TagOf[order[j]] = products'[i]
      BY <1>4, <1>9, <2>1
    <3>2. order[i] \in Line /\ order[j] \in Line
      BY <1>3, <3>1
    <3>3. KindOf[order[i]] = "don" \/ KindOf[order[j]] = "don"
      BY <1>3, <3>1, <3>2, FileConstants
    <3> QED
      BY <3>1, <3>2, <3>3 DEF HasDon
  <2> QED
    BY <2>1 DEF OneParent, HasDon
<1>20. CountsFollow'
  <2>1. \A s \in Request : request'[s].total = 0 /\ ~Open(s)'
    BY <1>6, IdleTyped DEF Open
  <2> QED
    BY <1>5, <2>1 DEF CountsFollow
<1> QED
  BY <1>12, <1>13, <1>14, <1>15, <1>16, <1>17, <1>18, <1>19, <1>20 DEF FileInv

-----------------------------------------------------------------------------
(* The theorem.                                                            *)

\* Before the upload.
LEMMA InitKeeps ==
  FileInit => FileInv
<1> SUFFICES ASSUME FileInit PROVE FileInv
  OBVIOUS
<1>1. /\ file = "none" /\ line = [l \in Line |-> NoLine] /\ total = 0 /\ succeeded = 0
      /\ products = <<>> /\ request = [s \in Request |-> Idle]
      /\ disturbed = FALSE /\ excused = {}
  BY DEF FileInit
<1>2. NoLine \in FileRow /\ NoLine.product = 0 /\ NoLine.status = "none"
  BY DEF NoLine, FileRow
<1>3. /\ \A s \in Request : request[s] = Idle /\ ~Open(s)
      /\ \A l \in Line : line[l] = NoLine
  BY <1>1, IdleTyped DEF Open
<1>4. TypesOK
  <2> line \in [Line -> FileRow] /\ request \in [Request -> RequestRecord]
    BY <1>1, <1>2, IdleTyped
  <2> products \in Seq(FileTag)
    BY <1>1
  <2> QED
    BY <1>1 DEF TypesOK
<1>5. NothingBefore
  BY <1>1 DEF NothingBefore
<1>6. \A s \in Request : FileRequestOK(s)
  BY <1>3, IdleTyped DEF FileRequestOK, Open, ToSet
<1>7. RowsNamed
  BY <1>2, <1>3, IdleTyped DEF RowsNamed, NamesProduct
<1>8. OverlapsExcused /\ NothingHidden
  BY <1>3, IdleTyped DEF OverlapsExcused, NothingHidden
<1>9. EachHasHolder /\ OneParent
  BY <1>1 DEF EachHasHolder, OneParent
<1>10. CountsFollow
  BY <1>1, <1>3, IdleTyped DEF CountsFollow
<1> QED
  BY <1>4, <1>5, <1>6, <1>7, <1>8, <1>9, <1>10 DEF FileInv

\* Every step keeps the invariant.
LEMMA NextKeeps ==
  FileInv /\ [FileNext]_fileVars => FileInv'
<1> SUFFICES ASSUME FileInv, [FileNext]_fileVars PROVE FileInv'
  OBVIOUS
<1>1. CASE Upload \/ Announce
  BY <1>1, AnnouncingKeeps
<1>2. CASE Process
  BY <1>2, ProcessKeeps
<1>3. ASSUME NEW s \in Request,
             \/ \E ls \in SUBSET Line : \E order \in SetToSeqs(ls) : BeginRetry(s, order)
             \/ CreateParent(s) \/ TakeParent(s) \/ Succeed(s) \/ FailRow(s)
             \/ SkipParentRow(s) \/ EndRetry(s) \/ DieRetrying(s)
      PROVE  FileInv'
  <2>1. ASSUME NEW ls \in SUBSET Line, NEW order \in SetToSeqs(ls), BeginRetry(s, order)
        PROVE  FileInv'
    BY <2>1, BeginRetryKeeps
  <2>2. CASE CreateParent(s)
    BY <2>2, CreateParentKeeps
  <2>3. CASE TakeParent(s)
    BY <2>3, TakeParentKeeps
  <2>4. CASE Succeed(s)
    BY <2>4, SucceedKeeps
  <2>5. CASE FailRow(s)
    BY <2>5, FailRowKeeps
  <2>6. CASE SkipParentRow(s)
    BY <2>6, SkipParentRowKeeps
  <2>7. CASE EndRetry(s)
    BY <2>7, EndRetryKeeps
  <2>8. CASE DieRetrying(s)
    BY <2>8, DieRetryingKeeps
  <2> QED
    BY <1>3, <2>1, <2>2, <2>3, <2>4, <2>5, <2>6, <2>7, <2>8
<1>4. CASE UNCHANGED fileVars
  BY <1>4 DEF fileVars, FileInv, TypesOK, NothingBefore, FileRequestOK, RowsNamed, NamesProduct,
              OverlapsExcused, NothingHidden, EachHasHolder, Holds, HasDon, OneParent,
              CountsFollow, CountOf, Open, Now
<1> QED
  BY <1>1, <1>2, <1>3, <1>4 DEF FileNext

\* In whatever order the retries of a file's rows run and commit, and wherever
\* a worker dies, a child that was imported names a product of its tag, a tag
\* has a second parent only if two requests handled it at once or one died,
\* and the count is that of the rows imported, or below it after a collision:
\* import_row_con, import_row_cha and the commits between them.
THEOREM RetriesStaySound ==
  FileSpec => []RetriesSound
<1>1. FileInit => FileInv
  BY InitKeeps
<1>2. FileInv /\ [FileNext]_fileVars => FileInv'
  BY NextKeeps
<1>3. FileInv => RetriesSound
  <2> SUFFICES ASSUME FileInv PROVE RetriesSound
    OBVIOUS
  <2>1. ChildrenHaveParents
    BY DEF FileInv, RowsNamed, NamesProduct, ChildrenHaveParents
  <2> QED
    BY <2>1 DEF FileInv, CountsFollow, RetriesSound, TotalCounts
<1> QED
  BY <1>1, <1>2, <1>3, PTL DEF FileSpec
=============================================================================
