------------------------ MODULE SaleCategoriesProofs ------------------------
(***************************************************************************)
(* Theorems about SaleCategories, for any finite set of ids and any number *)
(* of crashes: the paths below a moved category, the numbers of siblings,  *)
(* the switches, and the lists of siblings the priorities stand for.       *)
(***************************************************************************)
EXTENDS SaleCategories, FiniteSetTheorems, WellFoundedInduction, TLAPS

-----------------------------------------------------------------------------
(* Subtrees.                                                               *)

LEMMA SubtreeHasRoot ==
  ASSUME NEW t, NEW c \in DOMAIN t
  PROVE  c \in Subtree(t, c)
BY DEF Subtree

LEMMA SubtreeHasChildren ==
  ASSUME NEW t, NEW c, NEW x \in Subtree(t, c), NEW y \in Children(t, x)
  PROVE  y \in Subtree(t, c)
<1>1. y \in DOMAIN t /\ x \in DOMAIN t
  BY DEF Children, Subtree
<1>2. ASSUME NEW S \in SUBSET DOMAIN t, c \in S, \A z \in S : Children(t, z) \subseteq S
      PROVE  y \in S
  <2>1. x \in S
    BY <1>2 DEF Subtree
  <2> QED BY <1>2, <2>1
<1> QED BY <1>1, <1>2 DEF Subtree

\* A set that holds c and, with a category, its children holds all below c.
LEMMA SubtreeInClosed ==
  ASSUME NEW t, NEW c, NEW S \in SUBSET DOMAIN t,
         c \in S, \A x \in S : Children(t, x) \subseteq S
  PROVE  Subtree(t, c) \subseteq S
BY DEF Subtree

LEMMA SubtreeHasParents ==
  ASSUME NEW t, NEW c \in DOMAIN t, NEW d \in Subtree(t, c), d # c
  PROVE  t[d].parent \in Subtree(t, c)
<1> DEFINE Good == {x \in Subtree(t, c) : x = c \/ t[x].parent \in Subtree(t, c)}
<1>1. Good \in SUBSET DOMAIN t /\ c \in Good
  BY SubtreeHasRoot DEF Subtree
<1>2. ASSUME NEW x \in Good, NEW y \in Children(t, x)
      PROVE  y \in Good
  BY SubtreeHasChildren DEF Children
<1> HIDE DEF Good
<1>3. Subtree(t, c) \subseteq Good
  BY <1>1, <1>2, SubtreeInClosed
<1> QED BY <1>3 DEF Good

LEMMA SubtreeTransitive ==
  ASSUME NEW t, NEW c, NEW x \in Subtree(t, c), NEW y \in Subtree(t, x)
  PROVE  y \in Subtree(t, c)
<1>1. Subtree(t, c) \in SUBSET DOMAIN t
  BY DEF Subtree
<1>2. \A z \in Subtree(t, c) : Children(t, z) \subseteq Subtree(t, c)
  BY SubtreeHasChildren
<1> QED BY <1>1, <1>2, SubtreeInClosed

\* What is below c is c itself or below one of its children.
LEMMA SubtreeOfChildren ==
  ASSUME NEW t, NEW c \in DOMAIN t, NEW d \in Subtree(t, c), d # c
  PROVE  \E x \in Children(t, c) : d \in Subtree(t, x)
<1> DEFINE S == {c} \cup {y \in DOMAIN t : \E x \in Children(t, c) : y \in Subtree(t, x)}
<1>1. S \in SUBSET DOMAIN t /\ c \in S
  OBVIOUS
<1>2. ASSUME NEW x \in S, NEW y \in Children(t, x)
      PROVE  y \in S
  <2>1. y \in DOMAIN t
    BY DEF Children
  <2>2. CASE x = c
    BY <2>1, <2>2, SubtreeHasRoot
  <2>3. CASE x # c
    BY <2>1, <2>3, SubtreeHasChildren
  <2> QED BY <2>2, <2>3
<1> HIDE DEF S
<1>3. Subtree(t, c) \subseteq S
  BY <1>1, <1>2, SubtreeInClosed
<1> QED BY <1>3 DEF S

\* Subtrees are a matter of parents only.
LEMMA SubtreeByParents ==
  ASSUME NEW t, NEW u, DOMAIN u = DOMAIN t, \A d \in DOMAIN t : u[d].parent = t[d].parent
  PROVE  /\ \A p : Children(u, p) = Children(t, p)
         /\ \A c : Subtree(u, c) = Subtree(t, c)
<1>1. \A p : Children(u, p) = Children(t, p)
  BY DEF Children
<1> QED BY <1>1 DEF Subtree

\* A sequence of SetToSeqs lists the elements of its set.
LEMMA SequenceOfSet ==
  ASSUME NEW S, IsFiniteSet(S), NEW s \in SetToSeqs(S)
  PROVE  /\ s \in Seq(S) /\ Len(s) = Cardinality(S)
         /\ \A x \in S : \E i \in 1 .. Len(s) : s[i] = x
         /\ s = <<>> => S = {}
<1> DEFINE n == Cardinality(S)
<1>1. n \in Nat
  BY FS_CardinalityType
<1>2. s \in [1 .. n -> S] /\ \A i, j \in 1 .. n : i # j => s[i] # s[j]
  BY DEF SetToSeqs
<1>3. s \in Injection(1 .. n, S)
  BY <1>2 DEF Injection, IsInjective
<1>4. Cardinality(1 .. n) = n /\ IsFiniteSet(1 .. n)
  BY <1>1, FS_Interval
<1>5. s \in Surjection(1 .. n, S)
  BY <1>3, <1>4, FS_Injection
<1>6. \A x \in S : \E i \in 1 .. n : s[i] = x
  BY <1>5 DEF Surjection
<1>7. s \in Seq(S) /\ Len(s) = n
  BY <1>1, <1>2
<1> QED BY <1>6, <1>7

-----------------------------------------------------------------------------
(* The inductive invariant.                                                *)

\* A table of rows whose parents are rows too.
Table(t) ==
  /\ DOMAIN t \subseteq Category
  /\ t \in [DOMAIN t -> Row]
  /\ \A c \in DOMAIN t : t[c].parent \in (DOMAIN t \cup {NoParent}) \ {c}

Numbered(t) ==
  \A p \in Parents :
    {t[c].priority : c \in Children(t, p)} = 1 .. Cardinality(Children(t, p))

\* The row of c continues its parent's, with own at the end of its path.
Fits(t, c, own) ==
  /\ t[c].depth = DepthBelow(t, t[c].parent)
  /\ t[c].path = PathBelow(t, t[c].parent, own)

Own(c) == IF c \in fresh THEN Unnumbered ELSE c

\* The categories whose paths are being rewritten.
Touched == IF Idle THEN {} ELSE Subtree(row, moving)

Tables ==
  /\ Table(row) /\ Table(saved) /\ Numbered(saved)
  /\ DOMAIN saved = DOMAIN row
  /\ \A c \in DOMAIN row : /\ row[c].parent = saved[c].parent
                           /\ row[c].priority = saved[c].priority
  /\ moving \in DOMAIN row \cup {NoParent}
  /\ calls \in Seq(Category \X Parents)
  /\ fresh \subseteq DOMAIN row /\ torn \subseteq DOMAIN row
  /\ crashes \in 0 .. MaxCrashes

\* Every change is committed by the time the last call returns.
Committed ==
  /\ calls = <<>> => saved = row
  /\ Idle => calls = <<>>

CallsInside ==
  \A i \in 1 .. Len(calls) :
    /\ calls[i][1] \in Subtree(row, moving)
    /\ calls[i][2] = row[calls[i][1]].parent

Outside ==
  \A c \in DOMAIN row \ Touched :
    saved[c] = row[c] /\ (c \in torn \/ Fits(row, c, Own(c)))

\* What the recursion has not reached yet is below a pending call.
Inside ==
  \A c \in Touched :
    Fits(row, c, c) \/ \E i \in 1 .. Len(calls) : c \in Subtree(row, calls[i][1])

IInv == Tables /\ Committed /\ CallsInside /\ Outside /\ Inside

LEMMA RowFields ==
  ASSUME NEW t, Table(t), NEW c \in DOMAIN t
  PROVE  /\ c \in Category /\ c # NoParent
         /\ t[c].parent \in DOMAIN t \cup {NoParent} /\ t[c].parent # c
         /\ t[c].path \in Seq(Category \cup {Unnumbered}) /\ t[c].depth \in Nat
         /\ t[c].priority \in 1 .. Cardinality(Category) /\ t[c].active \in BOOLEAN
<1>1. t[c] \in Row
  BY DEF Table
<1> QED BY <1>1, ConstantsAssumption DEF Table, Row

\* What Visit writes are a path and a depth.
LEMMA PathBelowType ==
  ASSUME NEW t, Table(t), NEW p \in DOMAIN t \cup {NoParent}, NEW own \in Category \cup {Unnumbered}
  PROVE  PathBelow(t, p, own) \in Seq(Category \cup {Unnumbered}) /\ DepthBelow(t, p) \in Nat
<1>1. CASE p = NoParent
  BY <1>1 DEF PathBelow, DepthBelow
<1>2. CASE p # NoParent
  <2>1. t[p].path \in Seq(Category \cup {Unnumbered}) /\ t[p].depth \in Nat
    BY <1>2, RowFields
  <2> QED BY <1>2, <2>1 DEF PathBelow, DepthBelow
<1> QED BY <1>1, <1>2

\* A row fits as long as its own fields and its parent's row stay.
LEMMA FitsKept ==
  ASSUME NEW t, NEW u, NEW c, NEW own, Fits(t, c, own),
         u[c].parent = t[c].parent, u[c].path = t[c].path, u[c].depth = t[c].depth,
         t[c].parent # NoParent =>
           /\ u[t[c].parent].path = t[t[c].parent].path
           /\ u[t[c].parent].depth = t[t[c].parent].depth
  PROVE  Fits(u, c, own)
BY DEF Fits, PathBelow, DepthBelow

LEMMA NumberedByParents ==
  ASSUME NEW t, NEW u, DOMAIN u = DOMAIN t, Numbered(t),
         \A d \in DOMAIN t : u[d].parent = t[d].parent /\ u[d].priority = t[d].priority
  PROVE  Numbered(u)
<1>1. \A p : Children(u, p) = Children(t, p)
  BY SubtreeByParents
<1>2. ASSUME NEW p \in Parents
      PROVE  {u[c].priority : c \in Children(u, p)} = {t[c].priority : c \in Children(t, p)}
  BY <1>1 DEF Children
<1> QED BY <1>1, <1>2 DEF Numbered

LEMMA InitInv == Init => IInv
<1> SUFFICES ASSUME Init PROVE IInv
  OBVIOUS
<1>1. DOMAIN row = {} /\ DOMAIN saved = {} /\ row = saved /\ row \in [{} -> Row]
  BY DEF Init
<1>2. \A p : Children(saved, p) = {}
  BY <1>1 DEF Children
<1>3. 1 .. Cardinality({}) = {}
  BY FS_EmptySet
<1>4. Numbered(saved)
  BY <1>2, <1>3 DEF Numbered
<1>5. Tables
  BY <1>1, <1>4, ConstantsAssumption DEF Init, Tables, Table
<1> QED BY <1>1, <1>5 DEF Init, IInv, Committed, CallsInside, Outside, Inside, Touched, Idle

-----------------------------------------------------------------------------
(* The steps of a move.                                                    *)

LEMMA VisitInv == IInv /\ Visit => IInv'
<1> SUFFICES ASSUME IInv, Visit PROVE IInv'
  OBVIOUS
<1> DEFINE c == Head(calls)[1]
           p == Head(calls)[2]
           path == PathBelow(row, p, c)
           depth == DepthBelow(row, p)
<1>1. PICK below \in Descend(row, c) :
        /\ calls' = below \o Tail(calls)
        /\ saved' = IF below = <<>> THEN row' ELSE saved
  BY DEF Visit
<1>2. /\ calls # <<>> /\ calls \in Seq(Category \X Parents)
      /\ row' = [row EXCEPT ![c].path = path, ![c].depth = depth]
      /\ UNCHANGED <<moving, fresh, torn, crashes>>
      /\ Table(row) /\ Table(saved) /\ DOMAIN saved = DOMAIN row
  BY DEF Visit, IInv, Tables
<1>3. /\ Len(calls) \in Nat \ {0} /\ Head(calls) = calls[1] /\ 1 \in 1 .. Len(calls)
      /\ Tail(calls) \in Seq(Category \X Parents) /\ Len(Tail(calls)) = Len(calls) - 1
      /\ \A i \in 1 .. Len(Tail(calls)) : i + 1 \in 1 .. Len(calls) /\ Tail(calls)[i] = calls[i + 1]
      /\ \A i \in 2 .. Len(calls) : i - 1 \in 1 .. Len(Tail(calls)) /\ calls[i] = Tail(calls)[i - 1]
  BY <1>2
<1>4. ~Idle /\ Touched = Subtree(row, moving)
  BY <1>2 DEF IInv, Committed, Touched
<1>5. c \in Subtree(row, moving) /\ p = row[c].parent
  BY <1>3 DEF IInv, CallsInside
<1> HIDE DEF c, p
<1>6. c \in DOMAIN row /\ c \in Category /\ p \in DOMAIN row \cup {NoParent} /\ p # c
  BY <1>2, <1>5, RowFields DEF Subtree
<1>7. path \in Seq(Category \cup {Unnumbered}) /\ depth \in Nat
  BY <1>2, <1>6, PathBelowType
<1> HIDE DEF path, depth
<1>8. /\ DOMAIN row' = DOMAIN row /\ row' \in [DOMAIN row -> Row]
      /\ row'[c] = [row[c] EXCEPT !.path = path, !.depth = depth]
      /\ \A d \in DOMAIN row : d # c => row'[d] = row[d]
  <2>1. row \in [DOMAIN row -> Row]
    BY <1>2 DEF Table
  <2>2. [row[c] EXCEPT !.path = path, !.depth = depth] \in Row
    BY <1>6, <1>7, <2>1 DEF Row
  <2> QED BY <1>2, <1>6, <2>1, <2>2
<1>9. /\ row'[c].path = path /\ row'[c].depth = depth
      /\ \A d \in DOMAIN row : row'[d].parent = row[d].parent /\ row'[d].priority = row[d].priority
  <2>1. row[c] \in Row
    BY <1>2, <1>6 DEF Table
  <2> QED BY <1>8, <2>1 DEF Row
<1>10. /\ \A q : Children(row', q) = Children(row, q)
       /\ \A d : Subtree(row', d) = Subtree(row, d)
  BY <1>8, <1>9, SubtreeByParents
<1>11. Table(row')
  BY <1>2, <1>8, <1>9 DEF Table
<1>12. /\ below \in Seq(Children(row, c) \X {c}) /\ Len(below) \in Nat
       /\ \A i \in 1 .. Len(below) : below[i][1] \in Children(row, c) /\ below[i][2] = c
       /\ \A d \in Children(row, c) : \E i \in 1 .. Len(below) : below[i] = <<d, c>>
  <2> DEFINE S == {<<d, c>> : d \in Children(row, c)}
  <2>1. Children(row, c) \subseteq Category
    BY <1>2 DEF Children, Table
  <2>2. S = Children(row, c) \X {c}
    OBVIOUS
  <2>3. IsFiniteSet(S)
    <3>1. IsFiniteSet(Children(row, c)) /\ IsFiniteSet({c})
      BY <2>1, FS_Subset, FS_Singleton, ConstantsAssumption
    <3> QED BY <2>2, <3>1, FS_Product
  <2>4. below \in SetToSeqs(S)
    BY <1>1 DEF Descend
  <2> HIDE DEF S
  <2>5. below \in Seq(S) /\ \A x \in S : \E i \in 1 .. Len(below) : below[i] = x
    BY <2>3, <2>4, SequenceOfSet
  <2>6. \A d \in Children(row, c) : <<d, c>> \in S
    BY DEF S
  <2>7. \A d \in Children(row, c) : \E i \in 1 .. Len(below) : below[i] = <<d, c>>
    BY <2>5, <2>6
  <2>8. below \in Seq(Children(row, c) \X {c}) /\ Len(below) \in Nat
    BY <2>2, <2>5
  <2>9. \A i \in 1 .. Len(below) : below[i] \in Children(row, c) \X {c}
    BY <2>8
  <2>10. \A i \in 1 .. Len(below) : below[i][1] \in Children(row, c) /\ below[i][2] = c
    BY <2>9
  <2> QED BY <2>7, <2>8, <2>10
<1>13. Children(row, c) \X {c} \subseteq Category \X Parents
  BY <1>2, <1>6 DEF Children, Table, Parents
<1>14. below \in Seq(Category \X Parents)
  BY <1>12, <1>13
<1>15. /\ calls' \in Seq(Category \X Parents)
       /\ Len(calls') = Len(below) + Len(Tail(calls))
       /\ \A i \in 1 .. Len(below) : i \in 1 .. Len(calls') /\ calls'[i] = below[i]
       /\ \A i \in 1 .. Len(Tail(calls)) :
            Len(below) + i \in 1 .. Len(calls') /\ calls'[Len(below) + i] = Tail(calls)[i]
       /\ \A i \in 1 .. Len(calls') :
            i \in 1 .. Len(below) \/ \E j \in 1 .. Len(Tail(calls)) : i = Len(below) + j
  <2>1. Tail(calls) \in Seq(Category \X Parents) /\ Len(Tail(calls)) \in Nat /\ Len(below) \in Nat
    BY <1>3, <1>12
  <2>2. calls' \in Seq(Category \X Parents) /\ Len(calls') = Len(below) + Len(Tail(calls))
    BY <1>1, <1>14, <2>1
  <2>3. \A i \in 1 .. Len(calls') :
          i \in 1 .. Len(below) \/ \E j \in 1 .. Len(Tail(calls)) : i = Len(below) + j
    <3> SUFFICES ASSUME NEW i \in 1 .. Len(calls'), i \notin 1 .. Len(below)
                 PROVE  \E j \in 1 .. Len(Tail(calls)) : i = Len(below) + j
      OBVIOUS
    <3>1. i - Len(below) \in 1 .. Len(Tail(calls)) /\ i = Len(below) + (i - Len(below))
      BY <2>1, <2>2
    <3> QED BY <3>1
  <2> QED BY <1>1, <1>14, <2>1, <2>2, <2>3
<1>16. Tables'
  <2>1. Numbered(saved')
    <3>1. CASE below = <<>>
      <4>1. Numbered(row')
        BY <1>8, <1>9, NumberedByParents DEF IInv, Tables
      <4> QED BY <1>1, <3>1, <4>1
    <3>2. CASE below # <<>>
      BY <1>1, <3>2 DEF IInv, Tables
    <3> QED BY <3>1, <3>2
  <2>2. /\ Table(saved') /\ DOMAIN saved' = DOMAIN row
        /\ \A d \in DOMAIN row : row'[d].parent = saved'[d].parent /\ row'[d].priority = saved'[d].priority
    BY <1>1, <1>2, <1>8, <1>9, <1>11 DEF IInv, Tables
  <2> QED BY <1>2, <1>8, <1>11, <1>15, <2>1, <2>2 DEF IInv, Tables
<1>17. Committed'
  <2>1. calls' = <<>> => below = <<>>
    BY <1>12, <1>15, <1>3
  <2> QED BY <1>1, <1>2, <1>4, <2>1 DEF Committed, Idle
<1>18. CallsInside'
  <2> SUFFICES ASSUME NEW i \in 1 .. Len(calls')
               PROVE  calls'[i][1] \in Subtree(row, moving) /\ calls'[i][2] = row'[calls'[i][1]].parent
    BY <1>2, <1>10 DEF CallsInside
  <2>1. CASE i \in 1 .. Len(below)
    <3>1. calls'[i][1] \in Children(row, c) /\ calls'[i][2] = c
      BY <1>12, <1>15, <2>1
    <3> QED BY <1>5, <1>9, <3>1, SubtreeHasChildren DEF Children
  <2>2. CASE \E j \in 1 .. Len(Tail(calls)) : i = Len(below) + j
    <3>1. PICK j \in 1 .. Len(calls) : calls'[i] = calls[j]
      BY <1>3, <1>15, <2>2
    <3>2. calls[j][1] \in Subtree(row, moving) /\ calls[j][2] = row[calls[j][1]].parent
      BY DEF IInv, CallsInside
    <3> QED BY <1>9, <3>1, <3>2 DEF Subtree
  <2> QED BY <1>15, <2>1, <2>2
<1>19. Touched' = Touched
  BY <1>2, <1>4, <1>10 DEF Touched, Idle
<1>20. Outside'
  <2> SUFFICES ASSUME NEW d \in DOMAIN row, d \notin Subtree(row, moving)
               PROVE  saved'[d] = row'[d] /\ (d \in torn \/ Fits(row', d, Own(d)))
    BY <1>2, <1>4, <1>8, <1>19 DEF Outside, Own
  <2>1. d # c /\ row[d].parent # c /\ row'[d] = row[d]
    <3>1. row[d].parent # c
      BY <1>5, SubtreeHasChildren DEF Children
    <3> QED BY <1>5, <1>8, <3>1
  <2>2. saved[d] = row[d] /\ (d \in torn \/ Fits(row, d, Own(d)))
    BY <1>4 DEF IInv, Outside
  <2>3. row[d].parent # NoParent => row'[row[d].parent] = row[row[d].parent]
    BY <1>2, <1>8, <2>1 DEF Table
  <2>4. Fits(row, d, Own(d)) => Fits(row', d, Own(d))
    BY <2>1, <2>3, FitsKept
  <2> QED BY <1>1, <2>1, <2>2, <2>4
<1>21. Inside'
  <2> SUFFICES ASSUME NEW d \in Subtree(row, moving)
               PROVE  \/ Fits(row', d, d)
                      \/ \E i \in 1 .. Len(calls') : d \in Subtree(row, calls'[i][1])
    BY <1>4, <1>10, <1>19 DEF Inside
  <2>1. d \in DOMAIN row
    BY DEF Subtree
  <2>2. ASSUME NEW x \in Children(row, c), d \in Subtree(row, x)
        PROVE  \E i \in 1 .. Len(calls') : d \in Subtree(row, calls'[i][1])
    <3>1. PICK i \in 1 .. Len(below) : below[i] = <<x, c>>
      BY <1>12
    <3> QED BY <1>15, <2>2, <3>1
  <2>3. CASE d = c
    <3>1. p # NoParent => row'[p] = row[p]
      BY <1>6, <1>8
    <3>2. row'[c].parent = p
      BY <1>5, <1>6, <1>9
    <3> QED BY <1>9, <2>3, <3>1, <3>2 DEF Fits, PathBelow, DepthBelow, path, depth
  <2>4. CASE d # c /\ Fits(row, d, d) /\ row[d].parent # c
    <3>1. row'[d] = row[d] /\ (row[d].parent # NoParent => row'[row[d].parent] = row[row[d].parent])
      BY <1>2, <1>8, <2>1, <2>4 DEF Table
    <3> QED BY <2>4, <3>1, FitsKept
  <2>5. CASE d # c /\ row[d].parent = c
    <3>1. d \in Children(row, c) /\ d \in Subtree(row, d)
      BY <2>1, <2>5, SubtreeHasRoot DEF Children
    <3> QED BY <2>2, <3>1
  <2>6. ASSUME NEW i \in 1 .. Len(calls), d \in Subtree(row, calls[i][1]), d # c
        PROVE  \E j \in 1 .. Len(calls') : d \in Subtree(row, calls'[j][1])
    <3>1. CASE i = 1
      <4>1. d \in Subtree(row, c)
        BY <1>3, <2>6, <3>1 DEF c
      <4> QED BY <1>6, <2>2, <2>6, <4>1, SubtreeOfChildren
    <3>2. CASE i # 1
      <4>1. i \in 2 .. Len(calls)
        BY <1>3, <3>2
      <4>2. i - 1 \in 1 .. Len(Tail(calls)) /\ calls[i] = Tail(calls)[i - 1]
        BY <1>3, <4>1
      <4>3. /\ Len(below) + (i - 1) \in 1 .. Len(calls')
            /\ calls'[Len(below) + (i - 1)] = calls[i]
        BY <1>15, <4>2
      <4> QED BY <2>6, <4>3
    <3> QED BY <3>1, <3>2
  <2> QED BY <1>4, <2>3, <2>4, <2>5, <2>6 DEF IInv, Inside
<1> QED BY <1>16, <1>17, <1>18, <1>20, <1>21 DEF IInv

LEMMA FinishInv == IInv /\ Finish => IInv'
<1> SUFFICES ASSUME IInv, Finish PROVE IInv'
  OBVIOUS
<1>1. /\ ~Idle /\ calls = <<>> /\ saved = row /\ Touched = Subtree(row, moving)
      /\ fresh' = fresh \ Touched /\ torn' = torn \ Touched
      /\ UNCHANGED <<row, saved, calls, crashes>>
  BY DEF IInv, Committed, Finish, Touched
<1>2. Idle' /\ Touched' = {}
  BY DEF Finish, Idle, Touched
<1>3. Tables'
  BY <1>1 DEF IInv, Tables, Finish
<1>4. Committed' /\ CallsInside' /\ Inside'
  <2>1. Len(<<>>) = 0 /\ 1 .. 0 = {}
    OBVIOUS
  <2> QED BY <1>1, <1>2, <2>1 DEF Committed, CallsInside, Inside
<1>5. Outside'
  <2> SUFFICES ASSUME NEW c \in DOMAIN row
               PROVE  saved[c] = row[c] /\ (c \in torn' \/ Fits(row, c, Own(c)'))
    BY <1>1, <1>2 DEF Outside
  <2>1. CASE c \in Touched
    <3>1. Own(c)' = c
      BY <1>1, <2>1 DEF Own
    <3>2. 1 .. Len(calls) = {}
      BY <1>1
    <3>3. Fits(row, c, c)
      BY <2>1, <3>2 DEF IInv, Inside
    <3> QED BY <1>1, <3>1, <3>3
  <2>2. CASE c \notin Touched
    <3>1. Own(c)' = Own(c) /\ (c \in torn' <=> c \in torn)
      BY <1>1, <2>2 DEF Own
    <3> QED BY <1>1, <2>2, <3>1 DEF IInv, Outside
  <2> QED BY <2>1, <2>2
<1> QED BY <1>3, <1>4, <1>5 DEF IInv

LEMMA CrashInv == IInv /\ Crash => IInv'
<1> SUFFICES ASSUME IInv, Crash PROVE IInv'
  OBVIOUS
<1>1. /\ ~Idle /\ row' = saved /\ UNCHANGED <<saved, fresh>> /\ calls' = <<>> /\ moving' = NoParent
      /\ torn' = torn \cup Subtree(saved, moving)
      /\ crashes' \in 0 .. MaxCrashes
  BY ConstantsAssumption DEF Crash, IInv, Tables
<1>2. Idle' /\ Touched' = {}
  BY <1>1 DEF Idle, Touched
<1>3. Touched = Subtree(row, moving) /\ Subtree(saved, moving) = Touched
  BY <1>1, SubtreeByParents DEF Touched, IInv, Tables
<1>4. Tables'
  BY <1>1, <1>3 DEF IInv, Tables, Subtree
<1>5. Committed' /\ CallsInside' /\ Inside'
  <2>1. Len(<<>>) = 0 /\ 1 .. 0 = {}
    OBVIOUS
  <2> QED BY <1>1, <1>2, <2>1 DEF Committed, CallsInside, Inside
<1>6. Outside'
  <2> SUFFICES ASSUME NEW c \in DOMAIN row, c \notin torn, c \notin Touched
               PROVE  Fits(saved, c, Own(c))
    BY <1>1, <1>2, <1>3 DEF Outside, Own, IInv, Tables
  <2>1. saved[c] = row[c] /\ Fits(row, c, Own(c))
    BY DEF IInv, Outside
  <2>2. ASSUME row[c].parent # NoParent
        PROVE  saved[row[c].parent] = row[row[c].parent]
    <3>1. row[c].parent \in DOMAIN row
      BY <2>2 DEF IInv, Tables, Table
    <3>2. row[c].parent \notin Touched
      BY <1>3, SubtreeHasChildren DEF Children
    <3> QED BY <3>1, <3>2 DEF IInv, Outside
  <2> QED BY <2>1, <2>2, FitsKept
<1> QED BY <1>4, <1>5, <1>6 DEF IInv

\* A request outside a move commits what it does at once.
LEMMA CommitAtOnce ==
  ASSUME IInv, Idle, UNCHANGED <<moving, calls, torn, crashes>>, saved' = row',
         Table(row'), Numbered(row'), DOMAIN row \subseteq DOMAIN row',
         fresh' \in SUBSET DOMAIN row',
         \A c \in DOMAIN row' : c \in torn \/ Fits(row', c, Own(c)')
  PROVE  IInv'
<1>1. /\ Idle' /\ calls = <<>> /\ Touched' = {}
  BY DEF IInv, Committed, Touched, Idle
<1>2. Tables'
  BY DEF IInv, Tables
<1>3. Committed' /\ CallsInside' /\ Inside'
  <2>1. Len(<<>>) = 0 /\ 1 .. 0 = {}
    OBVIOUS
  <2> QED BY <1>1, <2>1 DEF Committed, CallsInside, Inside
<1>4. Outside'
  BY <1>1 DEF Outside
<1> QED BY <1>2, <1>3, <1>4 DEF IInv

LEMMA SwitchInv ==
  ASSUME IInv, NEW c \in Category, NEW active \in Switches, Switch(c, active)
  PROVE  IInv'
<1>1. Idle /\ saved = row /\ Table(row) /\ Numbered(row)
  BY DEF Switch, IInv, Tables, Committed
<1>2. /\ DOMAIN row' = DOMAIN row /\ row' \in [DOMAIN row -> Row]
      /\ \A d \in DOMAIN row : /\ row'[d].parent = row[d].parent
                               /\ row'[d].priority = row[d].priority
                               /\ row'[d].path = row[d].path
                               /\ row'[d].depth = row[d].depth
  <2>1. row \in [DOMAIN row -> Row] /\ \A d \in DOMAIN row : row[d] \in Row
    BY <1>1 DEF Table
  <2>2. \A d \in DOMAIN row : \A b \in BOOLEAN :
          LET r == [row[d] EXCEPT !.active = b]
          IN  /\ r \in Row /\ r.parent = row[d].parent /\ r.priority = row[d].priority
              /\ r.path = row[d].path /\ r.depth = row[d].depth
    BY <2>1 DEF Row
  <2>3. CASE active
    BY <2>1, <2>2, <2>3 DEF Switch
  <2>4. CASE ~active
    <3>1. row' = Deactivated(row, c)
      BY <2>4 DEF Switch
    <3> QED BY <2>1, <2>2, <3>1 DEF Deactivated
  <2> QED BY <2>3, <2>4
<1>3. Table(row')
  BY <1>1, <1>2 DEF Table
<1>4. Numbered(row')
  BY <1>1, <1>2, NumberedByParents
<1>5. ASSUME NEW d \in DOMAIN row'
      PROVE  d \in torn \/ Fits(row', d, Own(d)')
  <2>1. d \in torn \/ Fits(row, d, Own(d))
    BY <1>1, <1>2, <1>5 DEF IInv, Outside, Touched
  <2>2. row[d].parent # NoParent => row[d].parent \in DOMAIN row
    BY <1>1, <1>2, <1>5 DEF Table
  <2>3. Own(d)' = Own(d)
    BY DEF Own, Switch
  <2> QED BY <1>2, <1>5, <2>1, <2>2, <2>3, FitsKept
<1> QED BY <1>1, <1>2, <1>3, <1>4, <1>5, CommitAtOnce DEF Switch, IInv, Tables

\* The greatest of the numbers up to n.
LEMMA MaxOfInterval ==
  ASSUME NEW n \in Nat
  PROVE  IF 1 .. n = {} THEN n = 0 ELSE Max(1 .. n) = n
<1>1. CASE n = 0
  BY <1>1
<1>2. CASE n # 0
  <2>1. n \in 1 .. n /\ \A y \in 1 .. n : n >= y
    BY <1>2
  <2>2. PICK m : m = Max(1 .. n)
    OBVIOUS
  <2>3. m \in 1 .. n /\ \A y \in 1 .. n : m >= y
    BY <2>1, <2>2 DEF Max
  <2>4. m = n
    BY <2>1, <2>3
  <2> QED BY <2>1, <2>2, <2>4
<1> QED BY <1>1, <1>2

LEMMA CreateInv ==
  ASSUME IInv, NEW c \in Category, NEW p \in Parents, NEW active \in Switches,
         Create(c, p, active)
  PROVE  IInv'
<1> DEFINE n == Cardinality(Children(row, p))
           new == [parent   |-> p,
                   priority |-> LastPriority(row, p) + 1,
                   path     |-> PathBelow(row, p, Unnumbered),
                   depth    |-> DepthBelow(row, p),
                   active   |-> active]
<1>1. /\ Idle /\ saved = row /\ Table(row) /\ Numbered(row)
      /\ c \notin DOMAIN row /\ p \in DOMAIN row \cup {NoParent} /\ p # c
  BY ConstantsAssumption DEF Create, IInv, Tables, Committed
<1>2. DOMAIN row \subseteq Category /\ \A q : Children(row, q) \subseteq Category
  BY <1>1 DEF Table, Children
<1>3. \A q : IsFiniteSet(Children(row, q)) /\ Cardinality(Children(row, q)) \in Nat
  BY <1>2, FS_Subset, FS_CardinalityType, ConstantsAssumption
<1>4. LastPriority(row, p) = n
  <2>1. {row[d].priority : d \in Children(row, p)} = 1 .. n
    BY <1>1 DEF Numbered
  <2> QED BY <1>3, <2>1, MaxOfInterval DEF LastPriority
<1>5. n + 1 \in 1 .. Cardinality(Category)
  <2>1. c \notin Children(row, p)
    BY <1>1 DEF Children
  <2>2. Cardinality(Children(row, p) \cup {c}) = n + 1
    BY <1>3, <2>1, FS_AddElement
  <2>3. Cardinality(Children(row, p) \cup {c}) <= Cardinality(Category)
    BY <1>2, FS_Subset, ConstantsAssumption
  <2>4. Cardinality(Category) \in Nat
    BY FS_CardinalityType, ConstantsAssumption
  <2> QED BY <1>3, <2>2, <2>3, <2>4
<1>6. new \in Row
  <2>1. PathBelow(row, p, Unnumbered) \in Seq(Category \cup {Unnumbered}) /\ DepthBelow(row, p) \in Nat
    BY <1>1, PathBelowType
  <2> QED BY <1>4, <1>5, <2>1, ConstantsAssumption DEF Row
<1>7. new.parent = p /\ new.priority = n + 1 /\ new.path = PathBelow(row, p, Unnumbered)
      /\ new.depth = DepthBelow(row, p)
  BY <1>4
<1>8. row' = [d \in DOMAIN row \cup {c} |-> IF d # c THEN row[d] ELSE new]
  BY DEF Create
<1> HIDE DEF new, n
<1>9. /\ DOMAIN row' = DOMAIN row \cup {c}
      /\ row'[c] = new
      /\ \A d \in DOMAIN row : row'[d] = row[d]
      /\ row' \in [DOMAIN row' -> Row]
  <2>1. \A d \in DOMAIN row : row[d] \in Row
    BY <1>1 DEF Table
  <2> QED BY <1>1, <1>6, <1>8, <2>1
<1>10. Table(row')
  <2>1. \A d \in DOMAIN row' : row'[d].parent \in (DOMAIN row' \cup {NoParent}) \ {d}
    BY <1>1, <1>7, <1>9 DEF Table
  <2> QED BY <1>2, <1>9, <2>1 DEF Table
<1>11. \A q : Children(row', q) = IF q = p THEN Children(row, q) \cup {c} ELSE Children(row, q)
  BY <1>1, <1>7, <1>9 DEF Children
<1>12. Numbered(row')
  <2> SUFFICES ASSUME NEW q \in Parents
               PROVE  {row'[d].priority : d \in Children(row', q)} = 1 .. Cardinality(Children(row', q))
    BY DEF Numbered
  <2>1. {row'[d].priority : d \in Children(row, q)} = {row[d].priority : d \in Children(row, q)}
    BY <1>9 DEF Children
  <2>2. {row[d].priority : d \in Children(row, q)} = 1 .. Cardinality(Children(row, q))
    BY <1>1 DEF Numbered
  <2>3. CASE q = p
    <3>1. {row'[d].priority : d \in Children(row', q)} = (1 .. n) \cup {n + 1}
      BY <1>7, <1>9, <1>11, <2>1, <2>2, <2>3 DEF n
    <3>2. Cardinality(Children(row', q)) = n + 1
      <4>1. c \notin Children(row, p)
        BY <1>1 DEF Children
      <4> QED BY <1>3, <1>11, <2>3, <4>1, FS_AddElement DEF n
    <3>3. (1 .. n) \cup {n + 1} = 1 .. (n + 1)
      BY <1>3 DEF n
    <3> QED BY <3>1, <3>2, <3>3
  <2>4. CASE q # p
    BY <1>11, <2>1, <2>2, <2>4
  <2> QED BY <2>3, <2>4
<1>13. ASSUME NEW d \in DOMAIN row'
       PROVE  d \in torn \/ Fits(row', d, Own(d)')
  <2>1. CASE d = c
    <3>1. Own(c)' = Unnumbered
      BY DEF Own, Create
    <3>2. p # NoParent => row'[p] = row[p]
      BY <1>1, <1>9
    <3> QED BY <1>7, <1>9, <2>1, <3>1, <3>2 DEF Fits, PathBelow, DepthBelow
  <2>2. CASE d # c
    <3>1. d \in DOMAIN row /\ row'[d] = row[d]
      BY <1>9, <2>2
    <3>2. Own(d)' = Own(d)
      BY <2>2 DEF Own, Create
    <3>3. d \in torn \/ Fits(row, d, Own(d))
      BY <1>1, <3>1 DEF IInv, Outside, Touched
    <3>4. row[d].parent # NoParent => row'[row[d].parent] = row[row[d].parent]
      BY <1>1, <1>9, <3>1 DEF Table
    <3> QED BY <3>1, <3>2, <3>3, <3>4, FitsKept
  <2> QED BY <2>1, <2>2
<1>14. fresh' \in SUBSET DOMAIN row'
  BY <1>9 DEF Create, IInv, Tables
<1> QED BY <1>1, <1>9, <1>10, <1>12, <1>13, <1>14, CommitAtOnce DEF Create

-----------------------------------------------------------------------------
(* Numbering a sequence.                                                   *)

\* s lists the elements of S, each of them once.
Lists(s, S) ==
  /\ s \in Seq(S) /\ Len(s) = Cardinality(S)
  /\ \A i, j \in 1 .. Len(s) : s[i] = s[j] => i = j
  /\ \A x \in S : \E i \in 1 .. Len(s) : s[i] = x

Sorted(t, s) ==
  \A i, j \in 1 .. Len(s) : i < j => t[s[i]].priority < t[s[j]].priority

\* Rows with distinct priorities can be listed in their order.
LEMMA ByPriorityLists ==
  ASSUME NEW t, NEW S, IsFiniteSet(S), \A c \in S : t[c].priority \in Nat,
         \A c, d \in S : t[c].priority = t[d].priority => c = d
  PROVE  Lists(ByPriority(t, S), S) /\ Sorted(t, ByPriority(t, S))
<1> DEFINE n == Cardinality(S)
           UpTo(x) == {y \in S : t[y].priority <= t[x].priority}
           rank == [x \in S |-> Cardinality(UpTo(x))]
           InOrder(s) == \A i, j \in DOMAIN s : i < j => t[s[i]].priority < t[s[j]].priority
<1>1. n \in Nat /\ IsFiniteSet(1 .. n) /\ Cardinality(1 .. n) = n
  BY FS_CardinalityType, FS_Interval
<1>2. ASSUME NEW x \in S
      PROVE  UpTo(x) \in SUBSET S /\ IsFiniteSet(UpTo(x)) /\ rank[x] \in 1 .. n
  <2>1. UpTo(x) \in SUBSET S /\ x \in UpTo(x)
    OBVIOUS
  <2>2. IsFiniteSet(UpTo(x)) /\ Cardinality(UpTo(x)) <= n /\ Cardinality(UpTo(x)) \in Nat
    BY <2>1, FS_Subset, FS_CardinalityType
  <2>3. Cardinality(UpTo(x)) # 0
    BY <2>1, <2>2, FS_EmptySet
  <2> QED BY <1>1, <2>1, <2>2, <2>3
<1>3. ASSUME NEW x \in S, NEW y \in S, t[x].priority < t[y].priority
      PROVE  rank[x] < rank[y]
  <2>1. UpTo(x) \in SUBSET UpTo(y) /\ y \in UpTo(y) /\ y \notin UpTo(x)
    BY <1>3
  <2>2. Cardinality(UpTo(x)) <= Cardinality(UpTo(y)) /\ Cardinality(UpTo(y)) # Cardinality(UpTo(x))
    BY <1>2, <2>1, FS_Subset
  <2>3. rank[x] \in Nat /\ rank[y] \in Nat
    BY <1>1, <1>2
  <2> QED BY <2>2, <2>3
<1> HIDE DEF UpTo
<1>4. rank \in Injection(S, 1 .. n)
  <2>1. rank \in [S -> 1 .. n]
    BY <1>2
  <2>2. ASSUME NEW x \in S, NEW y \in S, x # y
        PROVE  rank[x] # rank[y]
    <3>1. t[x].priority < t[y].priority \/ t[y].priority < t[x].priority
      BY <2>2
    <3>2. rank[x] \in Nat /\ rank[y] \in Nat
      BY <1>1, <1>2
    <3> QED BY <1>3, <3>1, <3>2
  <2> QED BY <2>1, <2>2 DEF Injection, IsInjective
<1>5. \A i \in 1 .. n : \E x \in S : rank[x] = i
  <2>1. rank \in Surjection(S, 1 .. n)
    BY <1>1, <1>4, FS_Injection
  <2> QED BY <2>1 DEF Surjection
<1>6. \E s \in [1 .. n -> S] : InOrder(s)
  <2> DEFINE s == [i \in 1 .. n |-> CHOOSE x \in S : rank[x] = i]
  <2>1. \A i \in 1 .. n : s[i] \in S /\ rank[s[i]] = i
    BY <1>5
  <2> HIDE DEF rank
  <2>2. ASSUME NEW i \in 1 .. n, NEW j \in 1 .. n, i < j
        PROVE  t[s[i]].priority < t[s[j]].priority
    <3>1. s[i] \in S /\ s[j] \in S /\ rank[s[i]] = i /\ rank[s[j]] = j
      BY <2>1
    <3>2. s[i] # s[j] /\ ~(rank[s[j]] < rank[s[i]])
      BY <1>1, <2>2, <3>1
    <3>3. t[s[i]].priority # t[s[j]].priority /\ ~(t[s[j]].priority < t[s[i]].priority)
      BY <1>3, <3>1, <3>2
    <3>4. t[s[i]].priority \in Nat /\ t[s[j]].priority \in Nat
      BY <3>1
    <3> QED BY <3>3, <3>4
  <2>3. s \in [1 .. n -> S] /\ DOMAIN s = 1 .. n
    BY <2>1
  <2> QED BY <2>2, <2>3
<1> HIDE DEF rank
<1> DEFINE s == ByPriority(t, S)
<1>7. s \in [1 .. n -> S] /\ InOrder(s)
  BY <1>6 DEF ByPriority
<1> HIDE DEF s
<1>8. s \in Seq(S) /\ Len(s) = n /\ DOMAIN s = 1 .. n
  BY <1>1, <1>7
<1>9. ASSUME NEW i \in 1 .. n, NEW j \in 1 .. n, s[i] = s[j]
      PROVE  i = j
  <2>1. s[i] \in S /\ t[s[i]].priority \in Nat
    BY <1>7
  <2>2. ~(i < j) /\ ~(j < i)
    BY <1>7, <1>8, <1>9, <2>1
  <2> QED BY <1>1, <2>2
<1>10. \A x \in S : \E i \in 1 .. n : s[i] = x
  <2>1. s \in Injection(1 .. n, S)
    BY <1>7, <1>8, <1>9 DEF Injection, IsInjective
  <2>2. s \in Surjection(1 .. n, S)
    BY <1>1, <2>1, FS_Injection
  <2> QED BY <2>2 DEF Surjection
<1>11. Sorted(t, s)
  BY <1>7, <1>8 DEF Sorted
<1> QED BY <1>8, <1>9, <1>10, <1>11 DEF Lists, s

\* The first, and only, place of an element.
LEMMA PlaceOf ==
  ASSUME NEW S, NEW s, Lists(s, S), NEW i \in 1 .. Len(s)
  PROVE  Min({j \in 1 .. Len(s) : s[j] = s[i]}) = i
<1>1. {j \in 1 .. Len(s) : s[j] = s[i]} = {i}
  BY DEF Lists
<1>2. Len(s) \in Nat /\ i \in Nat
  BY DEF Lists
<1>3. Min({i}) = i
  BY <1>2 DEF Min
<1> QED BY <1>1, <1>3

\* u is t with the categories of S numbered in the order of s, and nothing
\* else changed.
Renumbering(t, S, s, u) ==
  /\ DOMAIN u = DOMAIN t /\ u \in [DOMAIN t -> Row]
  /\ \A d \in DOMAIN t \ S : u[d] = t[d]
  /\ \A i \in 1 .. Len(s) : s[i] \in S /\ u[s[i]].priority = i
  /\ \A d \in DOMAIN t : /\ u[d].parent = t[d].parent /\ u[d].path = t[d].path
                         /\ u[d].depth = t[d].depth /\ u[d].active = t[d].active
                         /\ u[d] \in Row

\* __resort_node gives the categories of s their places.
LEMMA ResortedNumbers ==
  ASSUME NEW t, Table(t), NEW S \in SUBSET DOMAIN t, NEW s, Lists(s, S),
         NEW u, u = Resorted(t, s)
  PROVE  Renumbering(t, S, s, u)
<1> DEFINE Places(c) == {j \in 1 .. Len(s) : s[j] = c}
<1>1. u = [c \in DOMAIN t |->
             IF Places(c) # {} THEN [t[c] EXCEPT !.priority = IF Places(c) # {} THEN Min(Places(c)) ELSE 0]
             ELSE t[c]]
  BY DEF Resorted, Contains, SelectInSeq
<1>2. \A i \in 1 .. Len(s) : s[i] \in S /\ s[i] \in DOMAIN t
  BY DEF Lists
<1>3. ASSUME NEW c \in DOMAIN t \ S
      PROVE  u[c] = t[c]
  <2>1. Places(c) = {}
    BY <1>2
  <2> QED BY <1>1, <2>1
<1>4. ASSUME NEW i \in 1 .. Len(s)
      PROVE  u[s[i]] = [t[s[i]] EXCEPT !.priority = i]
  <2>1. i \in Places(s[i])
    OBVIOUS
  <2>2. Min(Places(s[i])) = i
    BY PlaceOf
  <2> HIDE DEF Places
  <2> QED BY <1>1, <1>2, <2>1, <2>2
<1> HIDE DEF Places
<1>5. u = [d \in DOMAIN t |-> u[d]] /\ DOMAIN u = DOMAIN t
  BY <1>1
<1>6. \A i \in 1 .. Len(s) : i \in 1 .. Cardinality(Category)
  <2>1. S \in SUBSET Category
    BY DEF Table
  <2>2. Cardinality(S) <= Cardinality(Category) /\ Cardinality(Category) \in Nat
    BY <2>1, FS_Subset, FS_CardinalityType, ConstantsAssumption
  <2> QED BY <2>2 DEF Lists
<1>7. ASSUME NEW i \in 1 .. Len(s), NEW d, d = s[i]
      PROVE  /\ u[d].priority = i
             /\ u[d].parent = t[d].parent /\ u[d].path = t[d].path
             /\ u[d].depth = t[d].depth /\ u[d].active = t[d].active
             /\ u[d] \in Row
  <2>1. t[d] \in Row
    BY <1>2, <1>7 DEF Table
  <2>2. u[d] = [t[d] EXCEPT !.priority = i] /\ i \in 1 .. Cardinality(Category)
    BY <1>4, <1>6, <1>7
  <2> QED BY <2>1, <2>2 DEF Row
<1>8. ASSUME NEW d \in DOMAIN t
      PROVE  /\ u[d].parent = t[d].parent /\ u[d].path = t[d].path
             /\ u[d].depth = t[d].depth /\ u[d].active = t[d].active
             /\ u[d] \in Row
  <2>1. CASE d \in S
    <3>1. PICK i \in 1 .. Len(s) : d = s[i]
      BY <2>1 DEF Lists
    <3> QED BY <1>7, <3>1
  <2>2. CASE d \notin S
    BY <1>3, <2>2 DEF Table
  <2> QED BY <2>1, <2>2
<1>9. \A i \in 1 .. Len(s) : s[i] \in S /\ u[s[i]].priority = i
  BY <1>2, <1>7
<1>10. u \in [DOMAIN t -> Row]
  BY <1>5, <1>8
<1> QED BY <1>3, <1>5, <1>8, <1>9, <1>10 DEF Renumbering

LEMMA Joined ==
  ASSUME NEW T, NEW a \in Seq(T), NEW b \in Seq(T)
  PROVE  /\ a \o b \in Seq(T) /\ Len(a \o b) = Len(a) + Len(b)
         /\ \A i \in 1 .. Len(a) : (a \o b)[i] = a[i]
         /\ \A i \in 1 .. Len(b) : (a \o b)[Len(a) + i] = b[i]
OBVIOUS

LEMMA JoinedOne ==
  ASSUME NEW T, NEW a \in Seq(T), NEW c \in T
  PROVE  /\ a \o <<c>> \in Seq(T) /\ Len(a \o <<c>>) = Len(a) + 1
         /\ \A i \in 1 .. Len(a) : (a \o <<c>>)[i] = a[i]
         /\ (a \o <<c>>)[Len(a) + 1] = c
OBVIOUS

\* One more element in a sequence.
LEMMA InsertedLists ==
  ASSUME NEW S, IsFiniteSet(S), NEW s, Lists(s, S), NEW c, c \notin S,
         NEW k \in 1 .. (Len(s) + 1)
  PROVE  LET u == InsertAt(s, k, c)
         IN  /\ Lists(u, S \cup {c}) /\ u[k] = c
             /\ \A i \in 1 .. (k - 1) : u[i] = s[i]
             /\ \A i \in k .. Len(s) : u[i + 1] = s[i]
<1> DEFINE u == InsertAt(s, k, c)
           n == Len(s)
           T == S \cup {c}
<1>1. s \in Seq(T) /\ n \in Nat /\ n = Cardinality(S) /\ c \in T /\ k \in Nat
  BY DEF Lists
<1>2. /\ SubSeq(s, 1, k - 1) \in Seq(T) /\ Len(SubSeq(s, 1, k - 1)) = k - 1
      /\ \A i \in 1 .. (k - 1) : SubSeq(s, 1, k - 1)[i] = s[i]
  BY <1>1
<1>3. /\ SubSeq(s, k, n) \in Seq(T) /\ Len(SubSeq(s, k, n)) = n - k + 1
      /\ \A i \in 1 .. (n - k + 1) : SubSeq(s, k, n)[i] = s[k + i - 1]
  BY <1>1
<1> DEFINE a == SubSeq(s, 1, k - 1)
           b == SubSeq(s, k, n)
<1>4. u = (a \o <<c>>) \o b
  BY DEF InsertAt
<1> HIDE DEF a, b, u
<1>5. /\ a \in Seq(T) /\ Len(a) = k - 1 /\ \A i \in 1 .. (k - 1) : a[i] = s[i]
      /\ b \in Seq(T) /\ Len(b) = n - k + 1 /\ \A i \in 1 .. (n - k + 1) : b[i] = s[k + i - 1]
  BY <1>2, <1>3 DEF a, b
<1>6. /\ (a \o <<c>>) \in Seq(T) /\ Len(a \o <<c>>) = k
      /\ (a \o <<c>>)[k] = c /\ \A i \in 1 .. (k - 1) : (a \o <<c>>)[i] = s[i]
  <2>1. /\ a \o <<c>> \in Seq(T) /\ Len(a \o <<c>>) = Len(a) + 1
        /\ \A i \in 1 .. Len(a) : (a \o <<c>>)[i] = a[i]
        /\ (a \o <<c>>)[Len(a) + 1] = c
    BY <1>1, <1>5, JoinedOne
  <2>2. Len(a) + 1 = k
    BY <1>1, <1>5
  <2> QED BY <1>5, <2>1, <2>2
<1> DEFINE ac == a \o <<c>>
<1> HIDE DEF ac
<1>7. /\ u \in Seq(T) /\ Len(u) = n + 1
      /\ \A i \in 1 .. k : u[i] = ac[i]
      /\ \A i \in 1 .. (n - k + 1) : u[k + i] = b[i]
  <2>1. ac \in Seq(T) /\ Len(ac) = k /\ u = ac \o b
    BY <1>4, <1>6 DEF ac
  <2>2. /\ u \in Seq(T) /\ Len(u) = Len(ac) + Len(b)
        /\ \A i \in 1 .. Len(ac) : u[i] = ac[i]
        /\ \A i \in 1 .. Len(b) : u[Len(ac) + i] = b[i]
    BY <1>5, <2>1, Joined
  <2> QED BY <1>1, <1>5, <2>1, <2>2
<1>8. u[k] = c /\ \A i \in 1 .. (k - 1) : u[i] = s[i]
  BY <1>1, <1>6, <1>7 DEF ac
<1>9. \A i \in k .. n : u[i + 1] = s[i]
  <2> SUFFICES ASSUME NEW i \in k .. n
               PROVE  u[i + 1] = s[i]
    OBVIOUS
  <2>1. i - k + 1 \in 1 .. (n - k + 1) /\ k + (i - k + 1) = i + 1 /\ k + (i - k + 1) - 1 = i
    BY <1>1
  <2>2. u[k + (i - k + 1)] = b[i - k + 1] /\ b[i - k + 1] = s[k + (i - k + 1) - 1]
    BY <1>5, <1>7, <2>1
  <2> QED BY <2>1, <2>2
<1>10. Cardinality(T) = n + 1
  BY <1>1, FS_AddElement
<1>11. ASSUME NEW i \in 1 .. (n + 1), i # k
       PROVE  \E j \in 1 .. n : u[i] = s[j] /\ (i < k => j = i) /\ (i > k => j = i - 1)
  <2>1. CASE i < k
    <3>1. i \in 1 .. (k - 1) /\ i \in 1 .. n
      BY <1>1, <2>1
    <3> QED BY <1>1, <1>8, <2>1, <3>1
  <2>2. CASE i > k
    <3>1. i - 1 \in k .. n /\ i - 1 \in 1 .. n /\ (i - 1) + 1 = i
      BY <1>1, <2>2
    <3> QED BY <1>1, <1>9, <2>2, <3>1
  <2> QED BY <1>1, <1>11, <2>1, <2>2
<1>12. ASSUME NEW i \in 1 .. (n + 1), NEW j \in 1 .. (n + 1), u[i] = u[j]
       PROVE  i = j
  <2>1. \A l \in 1 .. n : s[l] # c
    BY DEF Lists
  <2>2. CASE i # k /\ j # k
    <3>1. PICK i1 \in 1 .. n : u[i] = s[i1] /\ (i < k => i1 = i) /\ (i > k => i1 = i - 1)
      BY <1>11, <2>2
    <3>2. PICK j1 \in 1 .. n : u[j] = s[j1] /\ (j < k => j1 = j) /\ (j > k => j1 = j - 1)
      BY <1>11, <2>2
    <3>3. i1 = j1
      BY <1>12, <3>1, <3>2 DEF Lists
    <3> QED BY <1>1, <2>2, <3>1, <3>2, <3>3
  <2>3. CASE i = k \/ j = k
    BY <1>8, <1>11, <1>12, <2>1, <2>3
  <2> QED BY <2>2, <2>3
<1>13. ASSUME NEW x \in T
       PROVE  \E i \in 1 .. (n + 1) : u[i] = x
  <2>1. CASE x = c
    BY <1>8, <2>1
  <2>2. CASE x # c
    <3>1. PICK i \in 1 .. n : s[i] = x
      BY <2>2 DEF Lists
    <3>2. i \in 1 .. (k - 1) \/ i \in k .. n
      BY <1>1
    <3>3. i \in 1 .. (n + 1) /\ i + 1 \in 1 .. (n + 1)
      BY <1>1
    <3> QED BY <1>8, <1>9, <3>1, <3>2, <3>3
  <2> QED BY <2>1, <2>2
<1>14. Lists(u, T)
  BY <1>7, <1>10, <1>12, <1>13 DEF Lists
<1> QED BY <1>8, <1>9, <1>14 DEF u

-----------------------------------------------------------------------------
(* Moving a category to its new siblings.                                  *)

\* Rows that are numbered have distinct numbers.
LEMMA SiblingsDistinct ==
  ASSUME NEW t, Table(t), Numbered(t), NEW p \in Parents
  PROVE  /\ IsFiniteSet(Children(t, p)) /\ Cardinality(Children(t, p)) \in Nat
         /\ \A c \in Children(t, p) : c \in DOMAIN t /\ t[c].priority \in Nat
         /\ \A c, d \in Children(t, p) : t[c].priority = t[d].priority => c = d
<1> DEFINE S == Children(t, p)
           n == Cardinality(S)
           f == [c \in S |-> t[c].priority]
<1>1. IsFiniteSet(S) /\ n \in Nat /\ S \subseteq DOMAIN t
  <2>1. S \subseteq DOMAIN t /\ S \subseteq Category
    BY DEF Children, Table
  <2> QED BY <2>1, FS_Subset, FS_CardinalityType, ConstantsAssumption
<1>2. Cardinality(1 .. n) = n
  BY <1>1, FS_Interval
<1>3. {t[c].priority : c \in S} = 1 .. n
  BY DEF Numbered
<1>4. f \in Surjection(S, 1 .. n)
  <2>1. f \in [S -> 1 .. n] /\ \A i \in 1 .. n : \E c \in S : f[c] = i
    BY <1>3
  <2> QED BY <2>1 DEF Surjection
<1>5. f \in Injection(S, 1 .. n)
  BY <1>1, <1>2, <1>4, FS_SurjSameCardinalityImpliesInj
<1>6. \A c, d \in S : t[c].priority = t[d].priority => c = d
  BY <1>5 DEF Injection, IsInjective
<1>7. \A c \in S : t[c].priority \in Nat
  BY <1>1, <1>3
<1> QED BY <1>1, <1>6, <1>7

\* Where NewSiblings puts c.
PlaceAfter(s, left) == IF left = NoParent THEN 1 ELSE 1 + Min({j \in 1 .. Len(s) : s[j] = left})

LEMMA PlaceAfterIn ==
  ASSUME NEW S, NEW s, Lists(s, S), NEW left, left = NoParent \/ left \in S
  PROVE  PlaceAfter(s, left) \in 1 .. (Len(s) + 1)
<1>1. Len(s) \in Nat
  BY DEF Lists
<1>2. CASE left = NoParent
  BY <1>1, <1>2 DEF PlaceAfter
<1>3. CASE left # NoParent
  <2>1. PICK i \in 1 .. Len(s) : s[i] = left
    BY <1>3 DEF Lists
  <2>2. Min({j \in 1 .. Len(s) : s[j] = left}) = i
    BY <2>1, PlaceOf
  <2>3. PlaceAfter(s, left) = 1 + i
    BY <1>3, <2>2 DEF PlaceAfter
  <2> QED BY <1>1, <2>3
<1> QED BY <1>2, <1>3

LEMMA NewSiblingsList ==
  ASSUME NEW t, Table(t), Numbered(t), NEW c \in DOMAIN t, NEW p \in Parents,
         NEW left \in (Children(t, p) \cup {NoParent}) \ {c}
  PROVE  LET others == ByPriority(t, Children(t, p) \ {c})
         IN  /\ Lists(others, Children(t, p) \ {c}) /\ Sorted(t, others)
             /\ NewSiblings(t, c, p, left) = InsertAt(others, PlaceAfter(others, left), c)
             /\ PlaceAfter(others, left) \in 1 .. (Len(others) + 1)
             /\ Lists(NewSiblings(t, c, p, left), Children(t, p) \cup {c})
<1> DEFINE S == Children(t, p) \ {c}
           others == ByPriority(t, S)
           I == {j \in 1 .. Len(others) : others[j] = left}
<1>1. IsFiniteSet(S)
  BY SiblingsDistinct, FS_RemoveElement
<1>2. Lists(others, S) /\ Sorted(t, others)
  <2>1. /\ \A d \in S : t[d].priority \in Nat
        /\ \A d, e \in S : t[d].priority = t[e].priority => d = e
    BY SiblingsDistinct
  <2> QED BY <1>1, <2>1, ByPriorityLists
<1>3. left = NoParent \/ left \in S
  OBVIOUS
<1>4. PlaceAfter(others, left) \in 1 .. (Len(others) + 1)
  BY <1>2, <1>3, PlaceAfterIn
<1>5. NewSiblings(t, c, p, left) =
        InsertAt(others, IF left = NoParent THEN 1 ELSE 1 + (IF I # {} THEN Min(I) ELSE 0), c)
  BY DEF NewSiblings, SelectInSeq
<1>6. left # NoParent => I # {}
  BY <1>2, <1>3 DEF Lists
<1>7. NewSiblings(t, c, p, left) = InsertAt(others, PlaceAfter(others, left), c)
  BY <1>5, <1>6 DEF PlaceAfter
<1> HIDE DEF others, I
<1>8. Lists(NewSiblings(t, c, p, left), S \cup {c})
  <2> DEFINE k == PlaceAfter(others, left)
  <2>1. k \in 1 .. (Len(others) + 1)
    BY <1>4
  <2> HIDE DEF k
  <2>2. c \notin S
    OBVIOUS
  <2> HIDE DEF S
  <2>3. Lists(InsertAt(others, k, c), S \cup {c})
    BY <1>1, <1>2, <2>1, <2>2, InsertedLists
  <2> QED BY <1>7, <2>3 DEF k
<1>9. S \cup {c} = Children(t, p) \cup {c}
  OBVIOUS
<1> QED BY <1>2, <1>4, <1>7, <1>8, <1>9 DEF others

\* Rows stay rows and families stay families; S is numbered from 1.
Resettled(t, S, u) ==
  /\ Table(u) /\ DOMAIN u = DOMAIN t
  /\ \A q : Children(u, q) = Children(t, q)
  /\ {u[d].priority : d \in S} = 1 .. Cardinality(S)

LEMMA ResortedTable ==
  ASSUME NEW t, Table(t), NEW S \in SUBSET DOMAIN t, NEW s, Lists(s, S),
         NEW u, u = Resorted(t, s)
  PROVE  Resettled(t, S, u)
<1>0. Renumbering(t, S, s, u)
  BY ResortedNumbers
<1>1. /\ DOMAIN u = DOMAIN t /\ u \in [DOMAIN t -> Row]
      /\ \A i \in 1 .. Len(s) : s[i] \in S /\ u[s[i]].priority = i
      /\ \A d \in DOMAIN t : u[d].parent = t[d].parent /\ u[d] \in Row
  BY <1>0 DEF Renumbering
<1>2. \A d \in S : \E i \in 1 .. Len(s) : s[i] = d
  BY DEF Lists
<1>3. {u[d].priority : d \in S} = 1 .. Cardinality(S)
  <2>1. {u[d].priority : d \in S} = 1 .. Len(s)
    BY <1>1, <1>2
  <2> QED BY <2>1 DEF Lists
<1>4. u \in [DOMAIN t -> Row]
  BY <1>1
<1>5. Table(u)
  BY <1>1, <1>4 DEF Table
<1>6. \A q : Children(u, q) = Children(t, q)
  BY <1>1 DEF Children
<1> QED BY <1>1, <1>3, <1>5, <1>6 DEF Resettled

\* u is v with the parent of c set to p, and nothing else changed.
BelowNow(v, c, p, u) ==
  /\ Table(u) /\ DOMAIN u = DOMAIN v /\ u[c].parent = p
  /\ \A d \in DOMAIN v : /\ u[d].path = v[d].path /\ u[d].depth = v[d].depth
                         /\ u[d].priority = v[d].priority
                         /\ d # c => u[d].parent = v[d].parent
  /\ Children(u, p) = Children(v, p) \cup {c}
  /\ \A q : q # p => Children(u, q) = Children(v, q) \ {c}

LEMMA Reparented ==
  ASSUME NEW v, Table(v), NEW c \in DOMAIN v, NEW p \in (DOMAIN v \cup {NoParent}) \ {c},
         NEW u, u = [v EXCEPT ![c].parent = p]
  PROVE  BelowNow(v, c, p, u)
<1>1. v \in [DOMAIN v -> Row] /\ v[c] \in Row /\ p \in Parents
  BY DEF Table, Parents
<1>2. [v[c] EXCEPT !.parent = p] \in Row
  BY <1>1 DEF Row
<1>3. /\ DOMAIN u = DOMAIN v /\ u \in [DOMAIN v -> Row]
      /\ u[c] = [v[c] EXCEPT !.parent = p] /\ \A d \in DOMAIN v : d # c => u[d] = v[d]
  BY <1>1, <1>2
<1>4. /\ u[c].parent = p /\ u[c].path = v[c].path /\ u[c].depth = v[c].depth
      /\ u[c].priority = v[c].priority
  BY <1>1, <1>3 DEF Row
<1>5. \A d \in DOMAIN v : /\ u[d].path = v[d].path /\ u[d].depth = v[d].depth
                          /\ u[d].priority = v[d].priority
                          /\ d # c => u[d].parent = v[d].parent
  BY <1>3, <1>4
<1>6. Table(u)
  BY <1>3, <1>4, <1>5 DEF Table
<1>7. Children(u, p) = Children(v, p) \cup {c}
  BY <1>3, <1>4, <1>5 DEF Children
<1>8. \A q : q # p => Children(u, q) = Children(v, q) \ {c}
  BY <1>3, <1>4, <1>5 DEF Children
<1> QED BY <1>3, <1>4, <1>5, <1>6, <1>7, <1>8 DEF BelowNow

\* u is t with c moved below p: nothing changes but priorities and the one
\* parent.  The new siblings have the order of NewSiblings, those left behind
\* and all others the order they had.
MovedAs(t, c, p, left, u) ==
  /\ Table(u) /\ Numbered(u) /\ DOMAIN u = DOMAIN t /\ u[c].parent = p
  /\ \A d \in DOMAIN t : /\ u[d].path = t[d].path /\ u[d].depth = t[d].depth
                         /\ d # c => u[d].parent = t[d].parent
  /\ Children(u, p) = Children(t, p) \cup {c}
  /\ \A q : q # p => Children(u, q) = Children(t, q) \ {c}
  /\ Lists(NewSiblings(t, c, p, left), Children(u, p))
  /\ \A i \in 1 .. Len(NewSiblings(t, c, p, left)) : u[NewSiblings(t, c, p, left)[i]].priority = i
  /\ t[c].parent # p => \E r : /\ Lists(r, Children(t, t[c].parent) \ {c}) /\ Sorted(t, r)
                               /\ \A i \in 1 .. Len(r) : u[r[i]].priority = i
  /\ \A d \in DOMAIN t : t[d].parent # p /\ t[d].parent # t[c].parent => u[d].priority = t[d].priority

\* _move_node.
LEMMA MovedTable ==
  ASSUME NEW t, Table(t), Numbered(t), NEW c \in DOMAIN t,
         NEW p \in (DOMAIN t \cup {NoParent}) \ {c},
         NEW left \in (Children(t, p) \cup {NoParent}) \ {c},
         NEW u, u = Moved(t, c, p, left)
  PROVE  MovedAs(t, c, p, left, u)
<1> DEFINE o == t[c].parent
           rest == Children(t, o) \ {c}
           S == Children(t, p) \cup {c}
           s == NewSiblings(t, c, p, left)
           joined == Resorted(t, s)
           parted == IF o = p THEN joined ELSE Resorted(joined, ByPriority(joined, rest))
<1>1. u = [parted EXCEPT ![c].parent = p]
  BY DEF Moved
<1>2. p \in Parents /\ o \in Parents /\ S \in SUBSET DOMAIN t /\ rest \in SUBSET DOMAIN t
      /\ c \in Children(t, o)
  BY RowFields DEF Table, Parents, Children
<1>3. Lists(s, S)
  BY <1>2, NewSiblingsList
<1>4. o # p => rest \cap S = {}
  BY DEF Children
<1>5. IsFiniteSet(rest) /\ \A d \in rest : t[d].priority \in Nat
  BY <1>2, SiblingsDistinct, FS_RemoveElement
<1>6. \A d, e \in rest : t[d].priority = t[e].priority => d = e
  BY <1>2, SiblingsDistinct
<1>7. /\ Children(t, o) = rest \cup {c} /\ c \notin rest
      /\ S = Children(t, p) \cup {c} /\ c \in S
      /\ \A q : q # o => c \notin Children(t, q)
  BY <1>2 DEF Children
<1>8. /\ joined = Resorted(t, s)
      /\ o = p => parted = joined
      /\ o # p => parted = Resorted(joined, ByPriority(joined, rest))
  OBVIOUS
<1> HIDE DEF rest, S, s, joined, parted, o
<1>9. Renumbering(t, S, s, joined) /\ Resettled(t, S, joined)
  BY <1>2, <1>3, <1>8, ResortedNumbers, ResortedTable
<1>10. /\ Table(joined) /\ DOMAIN joined = DOMAIN t
       /\ \A q : Children(joined, q) = Children(t, q)
       /\ {joined[d].priority : d \in S} = 1 .. Cardinality(S)
  BY <1>9 DEF Resettled
<1>11. /\ \A d \in DOMAIN t \ S : joined[d] = t[d]
       /\ \A d \in DOMAIN t : /\ joined[d].parent = t[d].parent
                              /\ joined[d].path = t[d].path /\ joined[d].depth = t[d].depth
  BY <1>9 DEF Renumbering
<1>12. ASSUME o # p
       PROVE  /\ Renumbering(joined, rest, ByPriority(joined, rest), parted)
              /\ Resettled(joined, rest, parted)
              /\ Lists(ByPriority(joined, rest), rest)
              /\ Sorted(t, ByPriority(joined, rest))
  <2>1. \A d \in rest : joined[d] = t[d]
    BY <1>2, <1>4, <1>11, <1>12
  <2>2. /\ \A d \in rest : joined[d].priority \in Nat
        /\ \A d, e \in rest : joined[d].priority = joined[e].priority => d = e
    BY <1>5, <1>6, <2>1
  <2>3. Lists(ByPriority(joined, rest), rest) /\ Sorted(joined, ByPriority(joined, rest))
    BY <1>5, <2>2, ByPriorityLists
  <2>4. rest \in SUBSET DOMAIN joined
    BY <1>2, <1>10
  <2>5. Sorted(t, ByPriority(joined, rest))
    BY <2>1, <2>3 DEF Sorted, Lists
  <2> QED BY <1>8, <1>10, <1>12, <2>3, <2>4, <2>5, ResortedNumbers, ResortedTable
<1>13. /\ Table(parted) /\ DOMAIN parted = DOMAIN t
       /\ \A q : Children(parted, q) = Children(t, q)
       /\ \A d \in DOMAIN t : /\ parted[d].parent = t[d].parent
                              /\ parted[d].path = t[d].path /\ parted[d].depth = t[d].depth
       /\ \A d \in DOMAIN t : o = p \/ d \notin rest => parted[d] = joined[d]
       /\ o # p => {parted[d].priority : d \in rest} = 1 .. Cardinality(rest)
  <2>1. CASE o = p
    BY <1>8, <1>10, <1>11, <2>1
  <2>2. CASE o # p
    <3>1. /\ Table(parted) /\ DOMAIN parted = DOMAIN joined
          /\ \A q : Children(parted, q) = Children(joined, q)
          /\ {parted[d].priority : d \in rest} = 1 .. Cardinality(rest)
      BY <1>12, <2>2 DEF Resettled
    <3>2. /\ \A d \in DOMAIN joined \ rest : parted[d] = joined[d]
          /\ \A d \in DOMAIN joined : /\ parted[d].parent = joined[d].parent
                                      /\ parted[d].path = joined[d].path
                                      /\ parted[d].depth = joined[d].depth
      BY <1>12, <2>2 DEF Renumbering
    <3> QED BY <1>10, <1>11, <2>2, <3>1, <3>2
  <2> QED BY <2>1, <2>2
<1>14. BelowNow(parted, c, p, u)
  <2>1. c \in DOMAIN parted /\ p \in (DOMAIN parted \cup {NoParent}) \ {c}
    BY <1>13
  <2> QED BY <1>1, <1>13, <2>1, Reparented
<1>15. /\ Table(u) /\ DOMAIN u = DOMAIN t /\ u[c].parent = p
       /\ \A d \in DOMAIN t : /\ u[d].path = t[d].path /\ u[d].depth = t[d].depth
                              /\ d # c => u[d].parent = t[d].parent
       /\ \A d \in DOMAIN t : u[d].priority = parted[d].priority
       /\ Children(u, p) = S
       /\ \A q : q # p => Children(u, q) = Children(t, q) \ {c}
  BY <1>7, <1>13, <1>14 DEF BelowNow
<1>16. Numbered(u)
  <2> SUFFICES ASSUME NEW q \in Parents
               PROVE  {u[d].priority : d \in Children(u, q)} = 1 .. Cardinality(Children(u, q))
    BY DEF Numbered
  <2>1. CASE q = p
    <3>1. \A d \in S : u[d].priority = joined[d].priority
      BY <1>2, <1>4, <1>13, <1>15
    <3>2. Children(u, q) = S
      BY <1>15, <2>1
    <3> QED BY <1>10, <3>1, <3>2
  <2>2. CASE q # p /\ q = o
    <3>1. Children(u, q) = rest
      <4>1. Children(u, q) = Children(t, o) \ {c}
        BY <1>15, <2>2
      <4>2. \A d : d \in rest => d # c
        BY <1>7
      <4>3. (rest \cup {c}) \ {c} = rest
        BY <4>2
      <4> QED BY <1>7, <4>1, <4>3
    <3>2. \A d \in rest : u[d].priority = parted[d].priority
      BY <1>2, <1>15
    <3>3. {parted[d].priority : d \in rest} = 1 .. Cardinality(rest)
      BY <1>13, <2>2
    <3> QED BY <3>1, <3>2, <3>3
  <2>3. CASE q # p /\ q # o
    <3>1. Children(u, q) = Children(t, q) \ {c} /\ c \notin Children(t, q)
      BY <1>7, <1>15, <2>3
    <3>2. Children(u, q) = Children(t, q)
      BY <3>1
    <3>3. ASSUME NEW d \in Children(t, q)
          PROVE  u[d].priority = t[d].priority
      <4>1. d \in DOMAIN t /\ d \notin S /\ d \notin rest
        BY <2>3, <3>1, <3>3 DEF Children, S, rest
      <4> QED BY <1>11, <1>13, <1>15, <4>1
    <3>4. {t[d].priority : d \in Children(t, q)} = 1 .. Cardinality(Children(t, q))
      BY DEF Numbered
    <3> QED BY <3>2, <3>3, <3>4
  <2> QED BY <2>1, <2>2, <2>3
<1>17. Lists(s, Children(u, p)) /\ \A i \in 1 .. Len(s) : u[s[i]].priority = i
  <2>1. \A d \in S : u[d].priority = joined[d].priority
    BY <1>2, <1>4, <1>13, <1>15
  <2>2. \A i \in 1 .. Len(s) : s[i] \in S /\ joined[s[i]].priority = i
    BY <1>9 DEF Renumbering
  <2> QED BY <1>3, <1>15, <2>1, <2>2
<1>18. ASSUME o # p
       PROVE  \E r : /\ Lists(r, rest) /\ Sorted(t, r)
                     /\ \A i \in 1 .. Len(r) : u[r[i]].priority = i
  <2> DEFINE r == ByPriority(joined, rest)
  <2>1. Renumbering(joined, rest, r, parted) /\ Lists(r, rest) /\ Sorted(t, r)
    BY <1>12, <1>18
  <2> HIDE DEF r
  <2>2. \A i \in 1 .. Len(r) : r[i] \in rest /\ parted[r[i]].priority = i
    BY <2>1 DEF Renumbering
  <2>3. \A i \in 1 .. Len(r) : u[r[i]].priority = i
    BY <1>2, <1>15, <2>2
  <2> QED BY <2>1, <2>3
<1>19. ASSUME NEW d \in DOMAIN t, t[d].parent # p, t[d].parent # o
       PROVE  u[d].priority = t[d].priority
  <2>1. d \notin S /\ d \notin rest
    BY <1>19 DEF S, rest, Children, o
  <2> QED BY <1>11, <1>13, <1>15, <2>1
<1>20. o # p => \E r : /\ Lists(r, Children(t, t[c].parent) \ {c}) /\ Sorted(t, r)
                       /\ \A i \in 1 .. Len(r) : u[r[i]].priority = i
  BY <1>18 DEF rest, o
<1>21. \A d \in DOMAIN t : t[d].parent # p /\ t[d].parent # t[c].parent => u[d].priority = t[d].priority
  BY <1>19 DEF o
<1>22. Children(u, p) = Children(t, p) \cup {c}
  BY <1>7, <1>15
<1>23. /\ Lists(NewSiblings(t, c, p, left), Children(u, p))
       /\ \A i \in 1 .. Len(NewSiblings(t, c, p, left)) : u[NewSiblings(t, c, p, left)[i]].priority = i
  BY <1>17 DEF s
<1> QED BY <1>15, <1>16, <1>20, <1>21, <1>22, <1>23 DEF MovedAs, o

LEMMA MoveInv ==
  ASSUME IInv, NEW c \in Category, NEW p \in Parents, NEW left \in Parents, Move(c, p, left)
  PROVE  IInv'
<1>1. /\ Idle /\ saved = row /\ Table(row) /\ Numbered(row) /\ c \in DOMAIN row
      /\ p \in (DOMAIN row \cup {NoParent}) \ {c}
      /\ left \in (Children(row, p) \cup {NoParent}) \ {c}
      /\ row' = Moved(row, c, p, left) /\ saved' = row' /\ moving' = c
      /\ calls' = << <<c, p>> >> /\ UNCHANGED <<fresh, torn, crashes>>
  BY SubtreeHasRoot DEF Move, IInv, Tables, Committed
<1>2. /\ Table(row') /\ Numbered(row') /\ DOMAIN row' = DOMAIN row /\ row'[c].parent = p
      /\ \A d \in DOMAIN row : /\ row'[d].path = row[d].path /\ row'[d].depth = row[d].depth
                               /\ d # c => row'[d].parent = row[d].parent
  <2>1. MovedAs(row, c, p, left, row')
    BY <1>1, MovedTable
  <2> QED BY <2>1 DEF MovedAs
<1>3. ~Idle' /\ Touched' = Subtree(row', c) /\ c \in Subtree(row', c)
  BY <1>1, <1>2, ConstantsAssumption, SubtreeHasRoot DEF Touched, Idle
<1>4. Tables'
  <2>1. calls' \in Seq(Category \X Parents)
    BY <1>1
  <2> QED BY <1>1, <1>2, <2>1 DEF IInv, Tables
<1>5. Len(calls') = 1 /\ calls'[1] = <<c, p>> /\ \A i \in 1 .. Len(calls') : i = 1
  BY <1>1
<1>6. Committed' /\ CallsInside' /\ Inside'
  <2>1. Committed' /\ CallsInside'
    BY <1>1, <1>2, <1>3, <1>5 DEF Committed, CallsInside
  <2>2. 1 \in 1 .. Len(calls') /\ calls'[1][1] = c
    BY <1>5
  <2> QED BY <1>3, <2>1, <2>2 DEF Inside
<1>7. Outside'
  <2> SUFFICES ASSUME NEW d \in DOMAIN row', d \notin Subtree(row', c)
               PROVE  d \in torn \/ Fits(row', d, Own(d))
    BY <1>1, <1>3 DEF Outside, Own
  <2>1. d # c /\ d \in DOMAIN row /\ row'[d].parent = row[d].parent
    BY <1>2, <1>3
  <2>2. d \in torn \/ Fits(row, d, Own(d))
    BY <1>1, <2>1 DEF IInv, Outside, Touched
  <2>3. row[d].parent # NoParent => row[d].parent \in DOMAIN row
    BY <1>1, <2>1 DEF Table
  <2> QED BY <1>2, <2>1, <2>2, <2>3, FitsKept
<1> QED BY <1>4, <1>6, <1>7 DEF IInv

LEMMA NextInv == IInv /\ [Next]_vars => IInv'
<1> SUFFICES ASSUME IInv, [Next]_vars PROVE IInv'
  OBVIOUS
<1>1. CASE UNCHANGED vars
  BY <1>1 DEF vars, IInv, Tables, Committed, CallsInside, Outside, Inside, Touched, Idle, Own
<1> QED BY <1>1, CreateInv, MoveInv, SwitchInv, VisitInv, FinishInv, CrashInv DEF Next

-----------------------------------------------------------------------------
(* Theorems.                                                               *)

\* For any finite set of ids and any number of crashes: siblings are numbered
\* 1, 2, 3, ... in every committed table, after any creations and moves, and
\* the variables keep their shapes.
THEOREM SiblingsStayNumbered == Spec => []RowsNumbered
<1>1. IInv => RowsNumbered
  <2> SUFFICES ASSUME IInv PROVE RowsNumbered
    OBVIOUS
  <2>1. SiblingsNumbered
    BY DEF IInv, Tables, Numbered, SiblingsNumbered
  <2>2. \A t \in {row, saved} : \A c \in DOMAIN t : t[c] \in Row
    BY DEF IInv, Tables, Table
  <2>3. moving \in Parents /\ DOMAIN row \subseteq Category
    BY DEF IInv, Tables, Table, Parents
  <2> QED BY <2>1, <2>2, <2>3 DEF RowsNumbered, TypeOK, IInv, Tables
<1> QED BY <1>1, InitInv, NextInv, PTL DEF Spec

\* However deep the tree, however often its categories move and wherever a
\* worker dies: between requests every path and depth continues its parent's,
\* except below a move that was cut short.
THEOREM PathsStayBelowParents == Spec => []PathsFollowParents
<1>1. IInv => PathsFollowParents
  <2> SUFFICES ASSUME IInv, Idle, NEW c \in DOMAIN saved \ torn
               PROVE  Fits(saved, c, Own(c))
    BY DEF PathsFollowParents, Fits, Own
  <2>1. saved = row
    BY DEF IInv, Committed
  <2> QED BY <2>1 DEF IInv, Outside, Touched
<1> QED BY <1>1, InitInv, NextInv, PTL DEF Spec

\* In any tree, whatever gaps creations and moves have left in it: switching
\* opens no new one.
THEOREM SwitchingIsSafe == Spec => SwitchingOpensNoGap
<1> DEFINE Safe == (\E c \in Category, active \in Switches : Switch(c, active))
                     => Gaps(saved') \subseteq Gaps(saved)
<1>1. IInv => Safe
  <2> SUFFICES ASSUME IInv, NEW c \in Category, NEW active \in Switches, Switch(c, active)
               PROVE  Gaps(saved') \subseteq Gaps(saved)
    OBVIOUS
  <2>1. /\ saved = row /\ saved' = row' /\ Table(row) /\ c \in DOMAIN row
        /\ row \in [DOMAIN row -> Row] /\ \A d \in DOMAIN row : row[d] \in Row
    BY DEF IInv, Tables, Table, Committed, Switch
  <2>2. CASE active
    <3>1. row' = [row EXCEPT ![c].active = TRUE] /\ AncestorsActive(row, c)
      BY <2>2 DEF Switch
    <3>2. /\ DOMAIN row' = DOMAIN row
          /\ \A d \in DOMAIN row : /\ row'[d].parent = row[d].parent
                                   /\ d # c => row'[d] = row[d]
          /\ row'[c].active
      BY <2>1, <3>1 DEF Row
    <3>3. \A d : Subtree(row', d) = Subtree(row, d)
      BY <3>2, SubtreeByParents
    <3>4. ASSUME NEW a \in DOMAIN row, NEW b \in DOMAIN row, b \in Subtree(row, a),
                 ~row'[a].active, row'[b].active
          PROVE  ~row[a].active /\ row[b].active
      <4>1. a # c /\ row'[a] = row[a]
        BY <3>2, <3>4
      <4>2. b # c
        BY <3>1, <3>4, <4>1 DEF AncestorsActive
      <4> QED BY <3>2, <3>4, <4>1, <4>2
    <3> QED BY <2>1, <3>2, <3>3, <3>4 DEF Gaps
  <2>3. CASE ~active
    <3>1. row' = Deactivated(row, c)
      BY <2>3 DEF Switch
    <3>2. /\ DOMAIN row' = DOMAIN row
          /\ \A d \in DOMAIN row : row'[d].parent = row[d].parent
          /\ \A d \in DOMAIN row : d \notin Subtree(row, c) => row'[d] = row[d]
          /\ \A d \in Subtree(row, c) : ~row'[d].active
      <4>1. \A d \in DOMAIN row : LET r == [row[d] EXCEPT !.active = FALSE]
                                  IN  r.parent = row[d].parent /\ ~r.active
        BY <2>1 DEF Row
      <4>2. Subtree(row, c) \subseteq DOMAIN row
        BY DEF Subtree
      <4> QED BY <3>1, <4>1, <4>2 DEF Deactivated
    <3>3. \A d : Subtree(row', d) = Subtree(row, d)
      BY <3>2, SubtreeByParents
    <3>4. ASSUME NEW a \in DOMAIN row, NEW b \in DOMAIN row, b \in Subtree(row, a),
                 ~row'[a].active, row'[b].active
          PROVE  ~row[a].active /\ row[b].active
      <4>1. b \notin Subtree(row, c) /\ row'[b] = row[b]
        BY <3>2, <3>4
      <4>2. a \notin Subtree(row, c)
        BY <3>4, <4>1, SubtreeTransitive
      <4> QED BY <3>2, <3>4, <4>1, <4>2
    <3> QED BY <2>1, <3>2, <3>3, <3>4 DEF Gaps
  <2> QED BY <2>2, <2>3
<1>2. Spec => []IInv
  BY InitInv, NextInv, PTL DEF Spec
<1>3. IInv => [Safe]_vars
  BY <1>1
<1> QED BY <1>2, <1>3, PTL DEF SwitchingOpensNoGap

-----------------------------------------------------------------------------
(* The order of siblings.                                                  *)

LEMMA FirstDifference ==
  ASSUME NEW T \in SUBSET Nat, T # {}
  PROVE  \E i \in T : \A j \in T : i <= j
<1>1. PICK i \in T : \A j \in T : ~(<<j, i>> \in OpToRel(<, Nat))
  BY NatLessThanWellFounded, WFMin
<1>2. \A j \in T : ~(j < i)
  BY <1>1 DEF OpToRel
<1> QED BY <1>2

\* There is one order of rows with different priorities.
LEMMA SortedOnce ==
  ASSUME NEW t, NEW S, NEW a, NEW b, Lists(a, S), Lists(b, S),
         Sorted(t, a), Sorted(t, b), \A c \in S : t[c].priority \in Nat
  PROVE  a = b
<1> DEFINE n == Len(a)
           Bad == {i \in 1 .. n : a[i] # b[i]}
<1>1. n \in Nat /\ Len(b) = n /\ \A i \in 1 .. n : a[i] \in S /\ b[i] \in S
  BY DEF Lists
<1>2. a = [i \in 1 .. n |-> a[i]] /\ b = [i \in 1 .. n |-> b[i]]
  BY <1>1 DEF Lists
<1>3. CASE Bad = {}
  BY <1>2, <1>3
<1>4. CASE Bad # {}
  <2>1. Bad \in SUBSET Nat
    BY <1>1
  <2>2. PICK i \in Bad : \A j \in Bad : i <= j
    BY <1>4, <2>1, FirstDifference
  <2>3. /\ i \in 1 .. n /\ a[i] # b[i]
        /\ \A j \in 1 .. n : j < i => a[j] = b[j]
    BY <1>1, <2>2
  <2>4. PICK j \in 1 .. n : b[j] = a[i]
    BY <1>1, <2>3 DEF Lists
  <2>5. PICK k \in 1 .. n : a[k] = b[i]
    BY <1>1, <2>3 DEF Lists
  <2>6. i < j
    <3>1. ~(j < i)
      BY <1>1, <2>3, <2>4 DEF Lists
    <3> QED BY <1>1, <2>3, <2>4, <3>1
  <2>7. i < k
    <3>1. ~(k < i)
      BY <1>1, <2>3, <2>5 DEF Lists
    <3> QED BY <1>1, <2>3, <2>5, <3>1
  <2>8. t[b[i]].priority < t[b[j]].priority /\ t[a[i]].priority < t[a[k]].priority
    BY <1>1, <2>3, <2>6, <2>7 DEF Sorted
  <2>9. t[a[i]].priority \in Nat /\ t[b[i]].priority \in Nat
    BY <1>1, <2>3
  <2> QED BY <2>4, <2>5, <2>8, <2>9
<1> QED BY <1>3, <1>4

\* A finite set of rows whose priorities are different numbers.
Ranked(t, S) ==
  /\ IsFiniteSet(S) /\ \A c \in S : t[c].priority \in Nat
  /\ \A c, d \in S : t[c].priority = t[d].priority => c = d

LEMMA SortedIsByPriority ==
  ASSUME NEW t, NEW S, Ranked(t, S), NEW s, Lists(s, S), Sorted(t, s)
  PROVE  ByPriority(t, S) = s
<1>1. Lists(ByPriority(t, S), S) /\ Sorted(t, ByPriority(t, S))
  BY ByPriorityLists DEF Ranked
<1> QED BY <1>1, SortedOnce DEF Ranked

\* The order of rows is a matter of their priorities only.
LEMMA SameOrder ==
  ASSUME NEW t, NEW u, NEW S, Ranked(t, S), \A c \in S : u[c].priority = t[c].priority
  PROVE  ByPriority(u, S) = ByPriority(t, S)
<1> DEFINE s == ByPriority(t, S)
<1>1. Lists(s, S) /\ Sorted(t, s)
  BY ByPriorityLists DEF Ranked
<1> HIDE DEF s
<1>2. Sorted(u, s)
  BY <1>1 DEF Lists, Sorted
<1>3. Ranked(u, S)
  BY DEF Ranked
<1> QED BY <1>1, <1>2, <1>3, SortedIsByPriority DEF s

LEMMA SiblingsRanked ==
  ASSUME NEW t, Table(t), Numbered(t), NEW p \in Parents, NEW c
  PROVE  Ranked(t, Children(t, p)) /\ Ranked(t, Children(t, p) \ {c})
BY SiblingsDistinct, FS_RemoveElement DEF Ranked

\* Rows that are numbered in the order of s are listed by s.
LEMMA NumberedOrder ==
  ASSUME NEW u, NEW S, Ranked(u, S), NEW s, Lists(s, S), \A i \in 1 .. Len(s) : u[s[i]].priority = i
  PROVE  ByPriority(u, S) = s
<1>1. Len(s) \in Nat
  BY DEF Lists
<1>2. Sorted(u, s)
  BY <1>1 DEF Sorted
<1> QED BY <1>2, SortedIsByPriority

LEMMA OrdersOf ==
  ASSUME NEW t, NEW p \in Parents
  PROVE  Orders(t)[p] = ByPriority(t, Children(t, p))
BY DEF Orders

LEMMA OrdersList ==
  ASSUME NEW t, Table(t), Numbered(t), NEW p \in Parents
  PROVE  ToSet(Orders(t)[p]) = Children(t, p)
<1>1. Ranked(t, Children(t, p))
  BY SiblingsRanked
<1>2. Lists(Orders(t)[p], Children(t, p))
  BY <1>1, OrdersOf, ByPriorityLists DEF Ranked
<1> HIDE DEF Orders
<1>3. DOMAIN Orders(t)[p] = 1 .. Len(Orders(t)[p])
  BY <1>2 DEF Lists
<1> QED BY <1>2, <1>3 DEF Lists, ToSet

\* The last of several numbered rows comes last.
LEMMA AppendedLists ==
  ASSUME NEW S, IsFiniteSet(S), NEW s, Lists(s, S), NEW c, c \notin S
  PROVE  /\ Lists(Append(s, c), S \cup {c}) /\ Len(Append(s, c)) = Len(s) + 1
         /\ \A i \in 1 .. Len(s) : Append(s, c)[i] = s[i]
         /\ Append(s, c)[Len(s) + 1] = c
<1> DEFINE n == Len(s)
           u == Append(s, c)
<1>1. n \in Nat /\ n = Cardinality(S) /\ s \in Seq(S \cup {c}) /\ \A i \in 1 .. n : s[i] \in S
  BY DEF Lists
<1>2. /\ u \in Seq(S \cup {c}) /\ Len(u) = n + 1 /\ u[n + 1] = c
      /\ \A i \in 1 .. n : u[i] = s[i]
  BY <1>1
<1> HIDE DEF u
<1>3. Cardinality(S \cup {c}) = n + 1
  BY <1>1, FS_AddElement
<1>4. ASSUME NEW i \in 1 .. n + 1, NEW j \in 1 .. n + 1, u[i] = u[j]
      PROVE  i = j
  <2>1. CASE i \in 1 .. n /\ j \in 1 .. n
    BY <1>2, <1>4, <2>1 DEF Lists
  <2>2. CASE ~(i \in 1 .. n /\ j \in 1 .. n)
    <3>1. i = n + 1 \/ j = n + 1
      BY <1>1, <2>2
    <3>2. (i \in 1 .. n \/ i = n + 1) /\ (j \in 1 .. n \/ j = n + 1)
      BY <1>1
    <3> QED BY <1>1, <1>2, <1>4, <3>1, <3>2
  <2> QED BY <2>1, <2>2
<1>5. ASSUME NEW x \in S \cup {c}
      PROVE  \E i \in 1 .. n + 1 : u[i] = x
  <2>1. CASE x = c
    BY <1>1, <1>2, <2>1
  <2>2. CASE x # c
    <3>1. PICK i \in 1 .. n : s[i] = x
      BY <2>2 DEF Lists
    <3>2. i \in 1 .. n + 1 /\ u[i] = x
      BY <1>1, <1>2, <3>1
    <3> QED BY <3>2
  <2> QED BY <2>1, <2>2
<1>6. Lists(u, S \cup {c})
  BY <1>2, <1>3, <1>4, <1>5 DEF Lists
<1> QED BY <1>2, <1>6 DEF u

\* One element less in a sequence.
LEMMA RemovedLists ==
  ASSUME NEW S, IsFiniteSet(S), NEW s, Lists(s, S), NEW k \in 1 .. Len(s), NEW t, Sorted(t, s)
  PROVE  Lists(RemoveAt(s, k), S \ {s[k]}) /\ Sorted(t, RemoveAt(s, k))
<1> DEFINE n == Len(s)
           T == S \ {s[k]}
           a == SubSeq(s, 1, k - 1)
           b == SubSeq(s, k + 1, n)
           u == RemoveAt(s, k)
           At(i) == IF i < k THEN i ELSE i + 1
<1>1. n \in Nat /\ n = Cardinality(S) /\ s \in Seq(S) /\ k \in Nat /\ n > 0 /\ s[k] \in S
  BY DEF Lists
<1>2. /\ a \in Seq(S) /\ Len(a) = k - 1
      /\ \A i \in 1 .. (k - 1) : a[i] = s[i]
  BY <1>1
<1>3. /\ b \in Seq(S) /\ Len(b) = n - k
      /\ \A i \in 1 .. (n - k) : b[i] = s[k + i]
  BY <1>1
<1>4. u = a \o b
  BY DEF RemoveAt
<1> HIDE DEF a, b, u
<1>5. /\ u \in Seq(S) /\ Len(u) = n - 1
      /\ \A i \in 1 .. (k - 1) : u[i] = s[i]
      /\ \A i \in 1 .. (n - k) : u[(k - 1) + i] = s[k + i]
  <2>1. a \in Seq(S) /\ b \in Seq(S) /\ Len(a) = k - 1 /\ Len(b) = n - k
    BY <1>2, <1>3
  <2>2. /\ a \o b \in Seq(S) /\ Len(a \o b) = Len(a) + Len(b)
        /\ \A i \in 1 .. Len(a) : (a \o b)[i] = a[i]
        /\ \A i \in 1 .. Len(b) : (a \o b)[Len(a) + i] = b[i]
    <3> HIDE DEF n, T, At
    <3>1. a \in Seq(S) /\ b \in Seq(S)
      BY <2>1
    <3> QED BY <3>1, Joined
  <2>3. \A i \in 1 .. (k - 1) : a[i] = s[i]
    BY <1>2
  <2>4. \A i \in 1 .. (n - k) : b[i] = s[k + i]
    BY <1>3
  <2> QED BY <1>1, <1>4, <2>1, <2>2, <2>3, <2>4
<1>6. ASSUME NEW i \in 1 .. (n - 1)
      PROVE  At(i) \in 1 .. n /\ At(i) # k /\ u[i] = s[At(i)]
  <2>1. CASE i < k
    BY <1>1, <1>5, <2>1
  <2>2. CASE ~(i < k)
    <3>1. i - k + 1 \in 1 .. (n - k) /\ (k - 1) + (i - k + 1) = i /\ k + (i - k + 1) = i + 1
      BY <1>1, <2>2
    <3>2. u[i] = s[i + 1]
      BY <1>5, <3>1
    <3> QED BY <1>1, <2>2, <3>2
  <2> QED BY <2>1, <2>2
<1>7. \A i, j \in 1 .. (n - 1) : (At(i) = At(j) => i = j) /\ (i < j => At(i) < At(j))
  BY <1>1
<1>8. \A j \in 1 .. n : j # k => \E i \in 1 .. (n - 1) : At(i) = j
  <2> SUFFICES ASSUME NEW j \in 1 .. n, j # k
               PROVE  \E i \in 1 .. (n - 1) : At(i) = j
    OBVIOUS
  <2>1. CASE j < k
    <3>1. j \in 1 .. (n - 1) /\ At(j) = j
      BY <1>1, <2>1
    <3> QED BY <3>1
  <2>2. CASE j > k
    <3>1. j - 1 \in 1 .. (n - 1) /\ At(j - 1) = j
      BY <1>1, <2>2
    <3> QED BY <3>1
  <2> QED BY <1>1, <2>1, <2>2
<1> HIDE DEF At
<1>9. \A i \in 1 .. (n - 1) : u[i] \in T
  BY <1>1, <1>6 DEF Lists
<1>10. u \in Seq(T) /\ Len(u) = n - 1
  BY <1>1, <1>5, <1>9
<1>11. Cardinality(T) = n - 1
  BY <1>1, FS_RemoveElement
<1>12. \A i, j \in 1 .. (n - 1) : u[i] = u[j] => i = j
  <2> SUFFICES ASSUME NEW i \in 1 .. (n - 1), NEW j \in 1 .. (n - 1), u[i] = u[j]
               PROVE  i = j
    OBVIOUS
  <2>1. At(i) = At(j)
    BY <1>6 DEF Lists
  <2> QED BY <1>7, <2>1
<1>13. \A x \in T : \E i \in 1 .. (n - 1) : u[i] = x
  <2> SUFFICES ASSUME NEW x \in T
               PROVE  \E i \in 1 .. (n - 1) : u[i] = x
    OBVIOUS
  <2>1. PICK j \in 1 .. n : s[j] = x
    BY DEF Lists
  <2>2. j # k
    BY <2>1
  <2> QED BY <1>6, <1>8, <2>1, <2>2
<1>14. Lists(u, T)
  BY <1>10, <1>11, <1>12, <1>13 DEF Lists
<1>15. Sorted(t, u)
  <2> SUFFICES ASSUME NEW i \in 1 .. (n - 1), NEW j \in 1 .. (n - 1), i < j
               PROVE  t[u[i]].priority < t[u[j]].priority
    BY <1>10 DEF Sorted
  <2>1. At(i) \in 1 .. n /\ At(j) \in 1 .. n /\ At(i) < At(j) /\ u[i] = s[At(i)] /\ u[j] = s[At(j)]
    BY <1>6, <1>7
  <2> QED BY <2>1 DEF Sorted
<1> QED BY <1>14, <1>15 DEF u, T

\* What is left of a family without c, in its order.
LEMMA WithoutOne ==
  ASSUME NEW t, NEW S, Ranked(t, S), NEW c
  PROVE  RemoveFirst(ByPriority(t, S), c) = ByPriority(t, S \ {c})
<1> DEFINE s == ByPriority(t, S)
           I == {j \in 1 .. Len(s) : s[j] = c}
<1>1. Lists(s, S) /\ Sorted(t, s)
  BY ByPriorityLists DEF Ranked
<1>2. RemoveFirst(s, c) = IF \E i \in 1 .. Len(s) : s[i] = c
                            THEN RemoveAt(s, IF I # {} THEN Min(I) ELSE 0)
                            ELSE s
  BY DEF RemoveFirst, SelectInSeq
<1> HIDE DEF s, I
<1>3. CASE c \in S
  <2>1. PICK k \in 1 .. Len(s) : s[k] = c
    BY <1>1, <1>3 DEF Lists
  <2>2. I # {} /\ Min(I) = k
    BY <1>1, <2>1, PlaceOf DEF I
  <2>3. RemoveFirst(s, c) = RemoveAt(s, k)
    BY <1>2, <2>1, <2>2
  <2>4. Lists(RemoveAt(s, k), S \ {c}) /\ Sorted(t, RemoveAt(s, k))
    BY <1>1, <2>1, RemovedLists DEF Ranked
  <2>5. Ranked(t, S \ {c})
    BY FS_RemoveElement DEF Ranked
  <2> QED BY <2>3, <2>4, <2>5, SortedIsByPriority DEF s
<1>4. CASE c \notin S
  <2>1. S \ {c} = S
    BY <1>4
  <2>2. ~\E i \in 1 .. Len(s) : s[i] = c
    BY <1>1, <1>4 DEF Lists
  <2> QED BY <1>2, <2>1, <2>2 DEF s
<1> QED BY <1>3, <1>4

-----------------------------------------------------------------------------
(* Steps on the lists.                                                     *)

\* The operators on sequences that SaleCategoryOrder sees are those seen here.
LEMMA SameOperators ==
  ASSUME NEW s, NEW c, NEW left
  PROVE  /\ Order!ToSet(s) = ToSet(s)
         /\ Order!RemoveFirst(s, c) = RemoveFirst(s, c)
         /\ Order!After(s, left, c) =
              InsertAt(s, IF left = NoParent THEN 1
                          ELSE 1 + SelectInSeq(s, LAMBDA x : x = left), c)
<1>1. Order!ToSet(s) = ToSet(s)
  BY DEF ToSet, Order!ToSet
<1>2. Order!RemoveFirst(s, c) = RemoveFirst(s, c)
  BY DEF RemoveFirst, Order!RemoveFirst, RemoveAt, Order!RemoveAt, SelectInSeq,
         Order!SelectInSeq, Min, Order!Min
<1>3. Order!After(s, left, c) =
        InsertAt(s, IF left = NoParent THEN 1 ELSE 1 + SelectInSeq(s, LAMBDA x : x = left), c)
  BY DEF Order!After, Order!InsertAt, InsertAt, SelectInSeq, Order!SelectInSeq, Min, Order!Min
<1> QED BY <1>1, <1>2, <1>3

\* Where nothing but paths, depths and switches changes, the order stays.
LEMMA OrdersKept ==
  ASSUME NEW t, NEW u, Table(t), Numbered(t), DOMAIN u = DOMAIN t,
         \A d \in DOMAIN t : u[d].parent = t[d].parent /\ u[d].priority = t[d].priority
  PROVE  Orders(u) = Orders(t)
<1>1. \A p : Children(u, p) = Children(t, p)
  BY SubtreeByParents
<1>2. ASSUME NEW p \in Parents
      PROVE  ByPriority(u, Children(u, p)) = ByPriority(t, Children(t, p))
  <2>1. Ranked(t, Children(t, p))
    BY SiblingsRanked
  <2>2. \A d \in Children(t, p) : u[d].priority = t[d].priority
    BY DEF Children
  <2>3. ByPriority(u, Children(t, p)) = ByPriority(t, Children(t, p))
    BY <2>1, <2>2, SameOrder
  <2> QED BY <1>1, <2>3
<1> QED BY <1>2 DEF Orders

\* The categories on the lists are those in the table.
LEMMA PresentAre ==
  ASSUME NEW t, Table(t), Numbered(t)
  PROVE  UNION {ToSet(Orders(t)[p]) : p \in Parents} = DOMAIN t
<1>1. \A p \in Parents : ToSet(Orders(t)[p]) = Children(t, p)
  BY OrdersList
<1>2. UNION {Children(t, p) : p \in Parents} = DOMAIN t
  <2>1. \A d \in DOMAIN t : t[d].parent \in Parents
    BY RowFields DEF Table, Parents
  <2> QED BY <2>1 DEF Children
<1> HIDE DEF Orders
<1> QED BY <1>1, <1>2

LEMMA AddedOrders ==
  ASSUME NEW t, Table(t), Numbered(t), NEW u, Table(u), Numbered(u),
         NEW c \in Category \ DOMAIN t, NEW p \in Parents,
         Children(u, p) = Children(t, p) \cup {c},
         \A q : q # p => Children(u, q) = Children(t, q),
         \A d \in DOMAIN t : u[d].priority = t[d].priority,
         u[c].priority = Cardinality(Children(t, p)) + 1
  PROVE  Orders(u) = [Orders(t) EXCEPT ![p] = Append(@, c)]
<1>1. ASSUME NEW q \in Parents, q # p
      PROVE  ByPriority(u, Children(u, q)) = ByPriority(t, Children(t, q))
  <2>1. Ranked(t, Children(t, q))
    BY SiblingsRanked
  <2>2. \A d \in Children(t, q) : u[d].priority = t[d].priority
    BY DEF Children
  <2>3. ByPriority(u, Children(t, q)) = ByPriority(t, Children(t, q))
    BY <2>1, <2>2, SameOrder
  <2> QED BY <1>1, <2>3
<1> DEFINE s == ByPriority(t, Children(t, p))
           S == Children(t, p)
<1>2. Ranked(t, S) /\ Ranked(u, Children(u, p)) /\ c \notin S
  <2>1. c \notin S
    BY DEF Children
  <2> QED BY <2>1, SiblingsRanked
<1>3. Lists(s, S) /\ Sorted(t, s) /\ IsFiniteSet(S)
  BY <1>2, ByPriorityLists DEF Ranked
<1>4. Len(s) = Cardinality(S) /\ Len(s) \in Nat /\ \A i \in 1 .. Len(s) : s[i] \in S
  BY <1>3 DEF Lists
<1> HIDE DEF s
<1>5. /\ Lists(Append(s, c), S \cup {c}) /\ Len(Append(s, c)) = Len(s) + 1
      /\ \A i \in 1 .. Len(s) : Append(s, c)[i] = s[i]
      /\ Append(s, c)[Len(s) + 1] = c
  <2> HIDE DEF S
  <2> QED BY <1>2, <1>3, AppendedLists
<1>6. \A d \in S : u[d].priority = t[d].priority
  BY DEF Children
<1> HIDE DEF S
<1>7. Sorted(u, Append(s, c))
  <2> SUFFICES ASSUME NEW i \in 1 .. Len(s) + 1, NEW j \in 1 .. Len(s) + 1, i < j
               PROVE  u[Append(s, c)[i]].priority < u[Append(s, c)[j]].priority
    BY <1>5 DEF Sorted
  <2>1. i \in 1 .. Len(s) /\ Append(s, c)[i] = s[i] /\ s[i] \in S
    BY <1>4, <1>5
  <2>2. CASE j \in 1 .. Len(s)
    <3>1. Append(s, c)[j] = s[j] /\ s[j] \in S
      BY <1>4, <1>5, <2>2
    <3>2. t[s[i]].priority < t[s[j]].priority
      BY <1>3, <2>1, <2>2 DEF Sorted
    <3> QED BY <1>6, <2>1, <3>1, <3>2
  <2>3. CASE j \notin 1 .. Len(s)
    <3>1. j = Len(s) + 1 /\ Append(s, c)[j] = c
      BY <1>4, <1>5, <2>3
    <3>2. t[s[i]].priority \in 1 .. Cardinality(S)
      <4>1. {t[d].priority : d \in S} = 1 .. Cardinality(S)
        BY DEF Numbered, S
      <4> QED BY <2>1, <4>1
    <3>3. u[c].priority = Len(s) + 1
      BY <1>4 DEF S
    <3> QED BY <1>4, <1>6, <2>1, <3>1, <3>2, <3>3
  <2> QED BY <2>2, <2>3
<1>8. ByPriority(u, Children(u, p)) = Append(s, c)
  <2>1. Children(u, p) = S \cup {c}
    BY DEF S
  <2> QED BY <1>2, <1>5, <1>7, <2>1, SortedIsByPriority
<1> QED BY <1>1, <1>8 DEF Orders, s, S

\* The lists l once c is taken out and put below p.
DroppedIn(l, c, p, left) ==
  [[q \in Parents |-> RemoveFirst(l[q], c)] EXCEPT ![p] = Order!After(@, left, c)]

LEMMA DroppedOrders ==
  ASSUME NEW t, Table(t), Numbered(t), NEW c \in DOMAIN t,
         NEW p \in (DOMAIN t \cup {NoParent}) \ {c},
         NEW left \in (Children(t, p) \cup {NoParent}) \ {c},
         NEW u, MovedAs(t, c, p, left, u)
  PROVE  Orders(u) = DroppedIn(Orders(t), c, p, left)
<1> DEFINE o == t[c].parent
           without == [q \in Parents |-> RemoveFirst(Orders(t)[q], c)]
<1>1. Table(u) /\ Numbered(u) /\ o \in Parents /\ p \in Parents /\ c \in Children(t, o)
  BY RowFields DEF MovedAs, Table, Parents, Children
<1>2. \A q \in Parents : Ranked(t, Children(t, q)) /\ Ranked(t, Children(t, q) \ {c})
                         /\ Ranked(u, Children(u, q))
  BY <1>1, SiblingsRanked
<1>3. \A q \in Parents : RemoveFirst(Orders(t)[q], c) = ByPriority(t, Children(t, q) \ {c})
  BY <1>2, WithoutOne, OrdersOf
<1>4. ByPriority(u, Children(u, p)) = Order!After(ByPriority(t, Children(t, p) \ {c}), left, c)
  <2>1. ByPriority(u, Children(u, p)) = NewSiblings(t, c, p, left)
    <3> DEFINE s == NewSiblings(t, c, p, left)
    <3>1. Lists(s, Children(u, p)) /\ \A i \in 1 .. Len(s) : u[s[i]].priority = i
      BY DEF MovedAs
    <3> HIDE DEF s
    <3>2. ByPriority(u, Children(u, p)) = s
      BY <1>1, <1>2, <3>1, NumberedOrder
    <3> QED BY <3>2 DEF s
  <2>2. NewSiblings(t, c, p, left) = Order!After(ByPriority(t, Children(t, p) \ {c}), left, c)
    BY SameOperators DEF NewSiblings
  <2> QED BY <2>1, <2>2
<1>5. ASSUME NEW q \in Parents, q # p
      PROVE  ByPriority(u, Children(u, q)) = ByPriority(t, Children(t, q) \ {c})
  <2>1. Children(u, q) = Children(t, q) \ {c}
    BY <1>5 DEF MovedAs
  <2>2. CASE q = o
    <3>1. PICK r : /\ Lists(r, Children(t, o) \ {c}) /\ Sorted(t, r)
                   /\ \A i \in 1 .. Len(r) : u[r[i]].priority = i
      BY <1>5, <2>2 DEF MovedAs
    <3>2. Ranked(u, Children(u, o)) /\ Ranked(t, Children(t, o) \ {c})
      BY <1>1, <1>2
    <3> HIDE DEF o
    <3>3. ByPriority(u, Children(u, q)) = r
      BY <2>1, <2>2, <3>1, <3>2, NumberedOrder
    <3>4. ByPriority(t, Children(t, q) \ {c}) = r
      BY <2>2, <3>1, <3>2, SortedIsByPriority
    <3> QED BY <3>3, <3>4
  <2>3. CASE q # o
    <3>1. \A d \in Children(t, q) \ {c} : u[d].priority = t[d].priority
      BY <1>5, <2>3 DEF MovedAs, Children
    <3>2. ByPriority(u, Children(t, q) \ {c}) = ByPriority(t, Children(t, q) \ {c})
      BY <1>2, <3>1, SameOrder
    <3> QED BY <2>1, <3>2
  <2> QED BY <2>2, <2>3
<1>6. \A q \in Parents : Orders(u)[q] = ByPriority(u, Children(u, q))
  BY OrdersOf
<1>7. \A q \in Parents : Orders(u)[q] = IF q = p THEN Order!After(without[p], left, c) ELSE without[q]
  BY <1>1, <1>3, <1>4, <1>5, <1>6
<1>8. Orders(u) = [q \in Parents |-> Orders(u)[q]]
  BY DEF Orders
<1> HIDE DEF without
<1>9. without = [q \in Parents |-> without[q]]
  BY DEF without
<1>10. Orders(u) = [without EXCEPT ![p] = Order!After(@, left, c)]
  <2> HIDE DEF Orders
  <2> QED BY <1>1, <1>7, <1>8, <1>9
<1> QED BY <1>10 DEF without, DroppedIn

LEMMA InitIsOrder == Init => Order!Init
<1> SUFFICES ASSUME Init PROVE Orders(saved) = [p \in Parents |-> <<>>]
  BY DEF Order!Init, Order!Parents, Parents
<1>1. \A p \in Parents : Children(saved, p) = {}
  BY DEF Init, Children
<1>2. Ranked(saved, {})
  BY FS_EmptySet DEF Ranked
<1>3. Lists(<<>>, {}) /\ Sorted(saved, <<>>)
  BY FS_EmptySet DEF Lists, Sorted
<1>4. ByPriority(saved, {}) = <<>>
  BY <1>2, <1>3, SortedIsByPriority
<1> QED BY <1>1, <1>4 DEF Orders

LEMMA CreateIsAdd ==
  ASSUME IInv, NEW c \in Category, NEW p \in Parents, NEW active \in Switches,
         Create(c, p, active), IInv'
  PROVE  Order!Add(c, p)
<1>1. /\ Idle /\ saved = row /\ saved' = row' /\ Table(row) /\ Numbered(row)
      /\ Table(row') /\ Numbered(row')
      /\ c \notin DOMAIN row /\ p \in DOMAIN row \cup {NoParent} /\ p # c
  BY ConstantsAssumption DEF Create, IInv, Tables, Committed
<1>2. /\ DOMAIN row' = DOMAIN row \cup {c}
      /\ \A d \in DOMAIN row : row'[d] = row[d]
      /\ row'[c].parent = p /\ row'[c].priority = LastPriority(row, p) + 1
  BY <1>1 DEF Create
<1>3. LastPriority(row, p) = Cardinality(Children(row, p))
  <2>1. {row[d].priority : d \in Children(row, p)} = 1 .. Cardinality(Children(row, p))
    BY <1>1 DEF Numbered
  <2>2. Cardinality(Children(row, p)) \in Nat
    BY <1>1, SiblingsDistinct
  <2> QED BY <2>1, <2>2, MaxOfInterval DEF LastPriority
<1>4. Children(row', p) = Children(row, p) \cup {c}
  BY <1>1, <1>2 DEF Children
<1>5. \A q : q # p => Children(row', q) = Children(row, q)
  BY <1>1, <1>2 DEF Children
<1>6. PICK u : u = row'
  OBVIOUS
<1>7. Orders(u) = [Orders(row) EXCEPT ![p] = Append(@, c)]
  <2>1. /\ Table(u) /\ Numbered(u) /\ Children(u, p) = Children(row, p) \cup {c}
        /\ \A q : q # p => Children(u, q) = Children(row, q)
        /\ \A d \in DOMAIN row : u[d].priority = row[d].priority
        /\ u[c].priority = Cardinality(Children(row, p)) + 1
    BY <1>1, <1>2, <1>3, <1>4, <1>5, <1>6
  <2>2. c \in Category \ DOMAIN row
    BY <1>1
  <2> QED BY <1>1, <2>1, <2>2, AddedOrders
<1>8. Order!Present = DOMAIN row
  BY <1>1, PresentAre, SameOperators DEF Order!Present, Order!Listed, Order!Parents, Parents
<1>9. Orders(saved)' = Orders(u)
  BY <1>1, <1>6
<1> HIDE DEF Orders
<1> QED BY <1>1, <1>7, <1>8, <1>9 DEF Order!Add

LEMMA MoveIsDrop ==
  ASSUME IInv, NEW c \in Category, NEW p \in Parents, NEW left \in Parents, Move(c, p, left)
  PROVE  Order!Drop(c, p, left)
<1>1. /\ Idle /\ saved = row /\ saved' = row' /\ Table(row) /\ Numbered(row) /\ c \in DOMAIN row
      /\ p \in (DOMAIN row \cup {NoParent}) \ {c} /\ p \notin Subtree(row, c)
      /\ left \in (Children(row, p) \cup {NoParent}) \ {c}
      /\ row' = Moved(row, c, p, left)
  BY SubtreeHasRoot DEF Move, IInv, Tables, Committed
<1>2. PICK u : u = row'
  OBVIOUS
<1>3. MovedAs(row, c, p, left, u)
  BY <1>1, <1>2, MovedTable
<1>4. Orders(u) = DroppedIn(Orders(row), c, p, left)
  BY <1>1, <1>3, DroppedOrders
<1>5. Order!Present = DOMAIN row
  BY <1>1, PresentAre, SameOperators DEF Order!Present, Order!Listed, Order!Parents, Parents
<1>6. \A q \in Parents : Order!Listed(q) = Children(row, q)
  BY <1>1, OrdersList, SameOperators DEF Order!Listed
<1>7. ~Order!Under(c, p)
  <2> SUFFICES ASSUME Order!Under(c, p) PROVE FALSE
    OBVIOUS
  <2> DEFINE S == Subtree(row, c)
  <2>1. S \in SUBSET Category /\ c \in S /\ S \in SUBSET DOMAIN row
    BY <1>1, SubtreeHasRoot DEF Subtree, Table
  <2>2. \A x \in S : Order!Listed(x) \subseteq S
    BY <1>6, <2>1, SubtreeHasChildren DEF Parents
  <2>3. p \in S
    BY <2>1, <2>2 DEF Order!Under
  <2> QED BY <1>1, <2>3
<1>8. Orders(saved)' = Orders(u)
  BY <1>1, <1>2
<1> HIDE DEF Orders
<1>9. Orders(u) = [[q \in Parents |-> Order!RemoveFirst(Orders(row)[q], c)]
                     EXCEPT ![p] = Order!After(@, left, c)]
  <2>1. [q \in Parents |-> Order!RemoveFirst(Orders(row)[q], c)]
          = [q \in Parents |-> RemoveFirst(Orders(row)[q], c)]
    BY SameOperators
  <2> QED BY <1>4, <2>1 DEF DroppedIn
<1>10. p \in DOMAIN row \cup {NoParent} /\ left \in (Order!Listed(p) \cup {NoParent}) \ {c}
  BY <1>1, <1>6
<1> QED BY <1>1, <1>5, <1>7, <1>8, <1>9, <1>10 DEF Order!Drop, Order!Parents, Parents

\* The other steps write paths, depths and switches.
LEMMA RestKeepsOrder ==
  ASSUME IInv, IInv', [Next]_vars,
         \A c \in Category, p \in Parents, active \in Switches : ~Create(c, p, active),
         \A c \in Category, p, left \in Parents : ~Move(c, p, left)
  PROVE  Orders(saved)' = Orders(saved)
<1>1. Table(saved) /\ Numbered(saved) /\ Table(row) /\ DOMAIN saved = DOMAIN row
      /\ \A d \in DOMAIN row : row[d].parent = saved[d].parent /\ row[d].priority = saved[d].priority
  BY DEF IInv, Tables
<1>2. DOMAIN saved' = DOMAIN saved
      /\ \A d \in DOMAIN saved : saved'[d].parent = saved[d].parent /\ saved'[d].priority = saved[d].priority
  <2>1. /\ DOMAIN row' = DOMAIN row
        /\ \A d \in DOMAIN row : row'[d].parent = row[d].parent /\ row'[d].priority = row[d].priority
    <3>1. CASE UNCHANGED vars \/ Finish
      BY <3>1 DEF vars, Finish
    <3>2. CASE Crash
      BY <1>1, <3>2 DEF Crash
    <3>3. CASE Visit
      <4>1. PICK c, q : row' = [row EXCEPT ![c].path = PathBelow(row, q, c),
                                           ![c].depth = DepthBelow(row, q)]
        BY <3>3 DEF Visit
      <4>2. row \in [DOMAIN row -> Row]
        BY <1>1 DEF Table
      <4> QED BY <4>1, <4>2 DEF Row
    <3>4. ASSUME NEW c \in Category, NEW active \in Switches, Switch(c, active)
          PROVE  <2>1!:
      <4>1. \A d \in DOMAIN row : row[d] \in Row
        BY <1>1 DEF Table
      <4>2. \/ row' = [row EXCEPT ![c].active = TRUE]
            \/ row' = Deactivated(row, c)
        BY <3>4 DEF Switch
      <4>3. CASE row' = [row EXCEPT ![c].active = TRUE]
        BY <1>1, <4>1, <4>3 DEF Table, Row
      <4>4. CASE row' = Deactivated(row, c)
        <5>1. \A d \in DOMAIN row : LET r == [row[d] EXCEPT !.active = FALSE]
                                    IN  r.parent = row[d].parent /\ r.priority = row[d].priority
          BY <4>1 DEF Row
        <5> QED BY <4>4, <5>1 DEF Deactivated
      <4> QED BY <4>2, <4>3, <4>4
    <3> QED BY <3>1, <3>2, <3>3, <3>4 DEF Next
  <2>2. DOMAIN saved' = DOMAIN row'
        /\ \A d \in DOMAIN row' : row'[d].parent = saved'[d].parent /\ row'[d].priority = saved'[d].priority
    BY DEF IInv, Tables
  <2> QED BY <1>1, <2>1, <2>2
<1>3. PICK u : u = saved'
  OBVIOUS
<1>4. Orders(u) = Orders(saved)
  BY <1>1, <1>2, <1>3, OrdersKept
<1> QED BY <1>3, <1>4

\* The committed priorities are an ordered list under every parent, and the
\* requests act on these lists as SaleCategoryOrder says: for any finite set
\* of ids and any number of crashes.
THEOREM ActsAsOrder == Spec => ImplementsOrder
<1>1. IInv /\ IInv' /\ [Next]_vars => [Order!Next]_(Orders(saved))
  <2> SUFFICES ASSUME IInv, IInv', [Next]_vars
               PROVE  Order!Next \/ Orders(saved)' = Orders(saved)
    OBVIOUS
  <2>1. ASSUME NEW c \in Category, NEW p \in Parents, NEW active \in Switches, Create(c, p, active)
        PROVE  Order!Next
    BY <2>1, CreateIsAdd DEF Order!Next, Order!Parents, Parents
  <2>2. ASSUME NEW c \in Category, NEW p \in Parents, NEW left \in Parents, Move(c, p, left)
        PROVE  Order!Next
    BY <2>2, MoveIsDrop DEF Order!Next, Order!Parents, Parents
  <2> QED BY <2>1, <2>2, RestKeepsOrder
<1>2. Spec => []IInv
  BY InitInv, NextInv, PTL DEF Spec
<1> QED BY <1>1, <1>2, InitIsOrder, PTL DEF Spec, ImplementsOrder, Order!Spec
=============================================================================
