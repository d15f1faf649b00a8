------------------------- MODULE CategoryTreeProofs -------------------------
(***************************************************************************)
(* Theorems about CategoryTree for every set of ids and sessions: its      *)
(* types, the consistency of the committed tree, what update_category has  *)
(* done to the parents when its recursion is over, that it tells of it,    *)
(* that every commit is one step of CategoryForest, that those who read    *)
(* the tree by the paths of its rows, by their depths and by their parents *)
(* see the same tree, and that the recursion never writes a path with a    *)
(* circle.                                                                 *)
(***************************************************************************)
EXTENDS CategoryTree, WellFoundedInduction, TLAPS

-----------------------------------------------------------------------------
(* The inductive invariant.                                                *)

\* The categories a moving request may rewrite.
Moved(s) == Subtree(snap[s], job[s].node)

\* The parents it may give them.
NewParents(s) == Moved(s) \cup {job[s].target, snap[s][job[s].node].parent}

\* A pending call of move_node_to_new_parent stays inside the subtree.
CallOK(s, call) ==
  /\ call[1] \in Moved(s)
  /\ call[2] \in NewParents(s) \cap (Rows(snap[s]) \cup {NoParent})

Creating(s) ==
  /\ job[s].kind = "create"
  /\ job[s].node \in issued
  /\ job[s].node \notin Rows(table) \cup Rows(snap[s])
  /\ job[s].target \in Rows(snap[s]) \cup {NoParent}
  /\ work[s] = [snap[s] EXCEPT ![job[s].node] =
                   Placed(snap[s], job[s].node, job[s].target)]
  /\ todo[s] = {} /\ moves[s] = <<>>

Moving(s) ==
  /\ job[s].kind # "create"
  /\ job[s].node \in Rows(snap[s])
  /\ job[s].target \in Rows(snap[s]) \cup {NoParent}
  /\ Rows(work[s]) = Rows(snap[s])
  /\ \A c \in Category \ Moved(s) : work[s][c] = snap[s][c]
  /\ \A c \in Moved(s) : work[s][c].parent \in NewParents(s)
  /\ \A call \in todo[s] : CallOK(s, call)
  /\ \A i \in 1 .. Len(moves[s]) : CallOK(s, moves[s][i])
  /\ \A c \in Rows(work[s]) :
        FitsParent(work[s], c) \/ \E p \in Category \cup {NoParent} : <<c, p>> \in todo[s]

SessionOK(s) ==
  IF stage[s] = "running"
    THEN /\ Rows(snap[s]) \subseteq Rows(table)
         /\ Consistent(snap[s])
         /\ Creating(s) \/ Moving(s)
    ELSE todo[s] = {}

\* No id is given to two requests.
IdsFresh ==
  /\ Rows(table) \subseteq issued
  /\ \A r, s \in Session :
       (/\ stage[r] = "running" /\ job[r].kind = "create"
        /\ stage[s] = "running" /\ job[s].kind = "create"
        /\ job[r].node = job[s].node) => r = s

IInv == TypeOK /\ IdsFresh /\ TreeConsistent /\ \A s \in Session : SessionOK(s)

-----------------------------------------------------------------------------
(* Subtrees.                                                               *)

\* A category is in its own subtree.
LEMMA SubtreeHasRoot ==
  ASSUME NEW t, NEW c \in Rows(t)
  PROVE  c \in Subtree(t, c)
BY DEF Subtree

\* A subtree holds the children of its members (_is_child looks there too).
LEMMA SubtreeHasChildren ==
  ASSUME NEW t, NEW c, NEW x \in Subtree(t, c), NEW y \in Children(t, x)
  PROVE  y \in Subtree(t, c)
<1>1. y \in Rows(t) /\ x \in Rows(t)
  BY DEF Children, Subtree
<1>2. ASSUME NEW S \in SUBSET Rows(t), c \in S,
             \A z \in S : Children(t, z) \subseteq S
      PROVE  y \in S
  <2>1. x \in S
    BY <1>2 DEF Subtree
  <2>2. QED
    BY <2>1, <1>2
<1>3. QED
  BY <1>1, <1>2 DEF Subtree

\* Every member but the root has its parent in the subtree.
LEMMA SubtreeHasParents ==
  ASSUME NEW t, NEW c \in Rows(t), NEW d \in Subtree(t, c), d # c
  PROVE  t[d].parent \in Subtree(t, c)
<1> DEFINE Good == {x \in Subtree(t, c) : x = c \/ t[x].parent \in Subtree(t, c)}
<1>1. Good \in SUBSET Rows(t)
  BY DEF Subtree
<1>2. c \in Good
  BY SubtreeHasRoot
<1>3. ASSUME NEW x \in Good, NEW y \in Children(t, x)
      PROVE  y \in Good
  <2>1. y \in Subtree(t, c)
    BY <1>3, SubtreeHasChildren
  <2>2. t[y].parent = x
    BY <1>3 DEF Children
  <2>3. QED
    BY <2>1, <2>2, <1>3
<1>4. \A x \in Good : Children(t, x) \subseteq Good
  BY <1>3
<1> HIDE DEF Good
<1>5. d \in Good
  BY <1>1, <1>2, <1>4 DEF Subtree
<1>6. QED
  BY <1>5 DEF Good

-----------------------------------------------------------------------------
(* Rows.                                                                   *)

\* A committed or flushed row is a record; NoRow is none.
LEMMA RowsAreRecords ==
  ASSUME NEW t \in Table, NEW c \in Rows(t)
  PROVE  c \in Category /\ t[c] \in Row
BY DEF Table, Rows

\* Deriving a row from an existing parent gives a row.
LEMMA PlacedIsRow ==
  ASSUME NEW t \in Table, NEW c \in Category, NEW p \in Rows(t) \cup {NoParent}
  PROVE  Placed(t, c, p) \in Row /\ Placed(t, c, p).parent = p
         /\ Placed(t, c, p) # NoRow
<1>1. CASE p = NoParent
  <2>1. <<c>> \in Seq(Category)
    OBVIOUS
  <2>2. Placed(t, c, p) \in Row
    BY <1>1, <2>1 DEF Placed, Row
  <2>3. QED
    BY <1>1, <2>2, ConstantsAssumption DEF Placed, Row
<1>2. CASE p # NoParent
  <2>1. p \in Category /\ t[p] \in Row
    BY <1>2, RowsAreRecords
  <2>2. Append(t[p].path, c) \in Seq(Category) /\ t[p].depth + 1 \in Nat
    BY <2>1 DEF Row
  <2>3. Placed(t, c, p) \in Row
    BY <1>2, <2>1, <2>2 DEF Placed, Row
  <2>4. QED
    BY <1>2, <2>3, ConstantsAssumption DEF Placed, Row
<1>3. QED
  BY <1>1, <1>2

\* Only the parent's row matters.
LEMMA PlacedDependsOnParent ==
  ASSUME NEW t, NEW u, NEW c, NEW p, p # NoParent => t[p] = u[p]
  PROVE  Placed(t, c, p) = Placed(u, c, p)
BY DEF Placed

\* Committing over an unchanged row leaves what the session wrote.
LEMMA MergedOverUnchanged ==
  ASSUME NEW new \in Row, NEW old \in Row \cup {NoRow}
  PROVE  Merged(new, old, old) = new
<1>1. CASE new = old \/ old = NoRow
  BY <1>1 DEF Merged
<1>2. CASE new # old /\ old # NoRow
  BY <1>2 DEF Merged, Row
<1>3. QED
  BY <1>1, <1>2

\* A row the session did not change keeps its committed value.
LEMMA MergedUnchanged ==
  ASSUME NEW row, NEW cur
  PROVE  Merged(row, row, cur) = cur
BY DEF Merged

-----------------------------------------------------------------------------
(* The steps of a request preserve the inductive invariant.                *)

\* Nothing has happened yet.
LEMMA InitInv == Init => IInv
<1> SUFFICES ASSUME Init PROVE IInv
  OBVIOUS
<1>1. Rows(table) = {}
  BY DEF Init, NoTable, Rows
<1>2. NoTable \in Table /\ NoJob \in Job
  BY DEF NoTable, Table, NoJob, Job
<1>3. TypeOK
  <2>1. <<>> \in Seq(Category \X (Category \cup {NoParent}))
    OBVIOUS
  <2>2. QED
    BY <1>2, <2>1 DEF Init, TypeOK
<1>4. \A s \in Session : SessionOK(s)
  BY DEF Init, SessionOK
<1>5. QED
  BY <1>1, <1>3, <1>4 DEF Init, IInv, IdsFresh, TreeConsistent, Consistent

\* What a session needs to know of the rest: its own variables, the rows that
\* exist and the ids that are used.
LEMMA SessionFrame ==
  ASSUME NEW s \in Session, SessionOK(s),
         stage'[s] = stage[s], job'[s] = job[s], snap'[s] = snap[s],
         work'[s] = work[s], moves'[s] = moves[s], todo'[s] = todo[s],
         issued \subseteq issued', Rows(table) \subseteq Rows(table'),
         stage[s] = "running" /\ job[s].kind = "create" =>
            (job[s].node \in Rows(table') => job[s].node \in Rows(table))
  PROVE  SessionOK(s)'
<1> SUFFICES ASSUME stage[s] = "running"
             PROVE  /\ (Rows(snap[s]) \subseteq Rows(table))'
                    /\ Consistent(snap[s])'
                    /\ (Creating(s) \/ Moving(s))'
  BY DEF SessionOK
<1>1. Consistent(snap[s])' /\ (Rows(snap[s]) \subseteq Rows(table))'
  BY DEF SessionOK
<1>2. CASE Creating(s)
  BY <1>1, <1>2 DEF Creating
<1>3. CASE Moving(s)
  BY <1>1, <1>3 DEF Moving, CallOK, NewParents, Moved
<1>4. QED
  BY <1>1, <1>2, <1>3 DEF SessionOK

\* BeginCreate keeps the invariant.
LEMMA BeginCreateInv ==
  ASSUME IInv, ~stale, NEW s \in Session, NEW c \in Category,
         NEW p \in Category \cup {NoParent}, BeginCreate(s, c, p)
  PROVE  IInv'
<1> USE DEF BeginCreate, Begin
<1>1. table \in Table /\ p \in Rows(table) \cup {NoParent} /\ c \notin Rows(table)
  BY DEF IInv, TypeOK, IdsFresh
<1>2. [table EXCEPT ![c] = Placed(table, c, p)] \in Table
  BY <1>1, PlacedIsRow DEF Table
<1>3. [kind |-> "create", node |-> c, target |-> p] \in Job
  BY DEF Job
<1>4. <<>> \in Seq(Category \X (Category \cup {NoParent}))
  OBVIOUS
<1>5. TypeOK'
  BY <1>2, <1>3, <1>4 DEF IInv, TypeOK
<1>6. IdsFresh'
  <2>1. \A r \in Session : stage[r] = "running" /\ job[r].kind = "create"
                             => job[r].node \in issued
    BY DEF IInv, SessionOK, Creating, Moving
  <2>2. Rows(table') \subseteq issued'
    BY DEF IInv, IdsFresh
  <2>3. \A r \in Session : r # s => stage'[r] = stage[r] /\ job'[r] = job[r]
    BY DEF IInv, TypeOK
  <2>4. job'[s].node = c
    BY DEF IInv, TypeOK
  <2>5. c \notin issued
    OBVIOUS
  <2> HIDE DEF BeginCreate, Begin
  <2>6. QED
    BY <2>1, <2>2, <2>3, <2>4, <2>5 DEF IInv, IdsFresh
<1>7. TreeConsistent'
  BY DEF IInv, TreeConsistent, Consistent, FitsParent, Rows
<1>8. SessionOK(s)'
  <2>1. Consistent(snap'[s]) /\ Rows(snap'[s]) \subseteq Rows(table')
    BY DEF IInv, TypeOK, TreeConsistent
  <2>2. todo[s] = {}
    BY DEF IInv, SessionOK
  <2>3. Creating(s)'
    BY <1>1, <2>2 DEF IInv, TypeOK, Creating
  <2>4. stage'[s] = "running"
    BY DEF IInv, TypeOK
  <2>5. QED
    BY <2>1, <2>3, <2>4 DEF SessionOK
<1>9. ASSUME NEW r \in Session, r # s
      PROVE  SessionOK(r)'
  BY <1>9, SessionFrame DEF IInv, TypeOK
<1>10. QED
  BY <1>5, <1>6, <1>7, <1>8, <1>9 DEF IInv

\* BeginUpdate keeps the invariant.
LEMMA BeginUpdateInv ==
  ASSUME IInv, ~stale, NEW s \in Session, NEW c \in Category,
         NEW p \in Category \cup {NoParent}, BeginUpdate(s, c, p)
  PROVE  IInv'
<1> DEFINE j == [kind |-> IF IsChild(table, c, p) THEN "swap" ELSE "update",
                 node |-> c, target |-> p]
           Calls == Category \X (Category \cup {NoParent})
           q == table[c].parent
<1>1. /\ stage[s] = "idle" /\ stage' = [stage EXCEPT ![s] = "running"]
      /\ job' = [job EXCEPT ![s] = j] /\ snap' = [snap EXCEPT ![s] = table]
      /\ work' = [work EXCEPT ![s] = table]
      /\ moves' = [moves EXCEPT ![s] = MoveCalls(table, c, p)]
      /\ UNCHANGED <<table, todo, announced, stale, issued>>
      /\ c \in Rows(table) /\ p \in (Rows(table) \cup {NoParent}) \ {c}
  BY DEF BeginUpdate, Begin
<1>2. TypeOK /\ table \in Table /\ Consistent(table) /\ table[c] \in Row
  BY <1>1, RowsAreRecords DEF IInv, TypeOK, TreeConsistent
<1>3. j \in Job
  BY DEF Job
<1>4. q \in Rows(table) \cup {NoParent}
  BY <1>1, <1>2 DEF Consistent, FitsParent, Row
<1>5. IsChild(table, c, p) => p \in Subtree(table, c)
  BY DEF IsChild
<1>6. Subtree(table, c) \subseteq Rows(table) /\ Rows(table) \subseteq Category
  BY DEF Subtree, Rows
<1>7. /\ MoveCalls(table, c, p) \in Seq(Calls)
      /\ \A i \in 1 .. Len(MoveCalls(table, c, p)) :
           LET call == MoveCalls(table, c, p)[i]
           IN  /\ call[1] \in Subtree(table, c)
               /\ call[2] \in (Subtree(table, c) \cup {p, q})
                                \cap (Rows(table) \cup {NoParent})
  <2>1. CASE IsChild(table, c, p)
    <3>1. <<p, q>> \in Calls /\ <<c, p>> \in Calls
      BY <1>4, <1>5, <1>6, <2>1
    <3>2. << <<p, q>>, <<c, p>> >> \in Seq(Calls)
      BY <3>1
    <3>3. MoveCalls(table, c, p) = << <<p, q>>, <<c, p>> >>
      BY <2>1 DEF MoveCalls
    <3>4. c \in Subtree(table, c)
      BY <1>1, SubtreeHasRoot
    <3> HIDE DEF Calls
    <3>5. QED
      BY <1>1, <1>4, <1>5, <2>1, <3>2, <3>3, <3>4
  <2>2. CASE ~IsChild(table, c, p)
    <3>1. <<c, p>> \in Calls
      BY <1>1, <1>6
    <3>2. << <<c, p>> >> \in Seq(Calls)
      BY <3>1
    <3>3. MoveCalls(table, c, p) = << <<c, p>> >>
      BY <2>2 DEF MoveCalls
    <3>4. c \in Subtree(table, c)
      BY <1>1, SubtreeHasRoot
    <3> HIDE DEF Calls
    <3>5. QED
      BY <1>1, <3>2, <3>3, <3>4
  <2>3. QED
    BY <2>1, <2>2
<1>8. TypeOK'
  <2> HIDE DEF j, Calls
  <2>1. moves' \in [Session -> Seq(Calls)]
    BY <1>1, <1>2, <1>7 DEF TypeOK, Calls
  <2>2. QED
    BY <1>1, <1>2, <1>3, <2>1 DEF TypeOK, Calls
<1>9. IdsFresh'
  BY <1>1, <1>2 DEF IInv, IdsFresh, TypeOK, Rows
<1>10. TreeConsistent'
  BY <1>1, <1>2 DEF TreeConsistent, Consistent, FitsParent, Rows
<1>11. SessionOK(s)'
  <2>1. /\ stage'[s] = "running" /\ job'[s] = j /\ snap'[s] = table /\ work'[s] = table
        /\ moves'[s] = MoveCalls(table, c, p) /\ todo'[s] = {}
    BY <1>1, <1>2 DEF IInv, SessionOK, TypeOK
  <2>2. Moved(s)' = Subtree(table, c) /\ NewParents(s)' = Subtree(table, c) \cup {p, q}
    BY <2>1 DEF Moved, NewParents
  <2>3. \A i \in 1 .. Len(moves'[s]) : CallOK(s, moves[s][i])'
    BY <1>7, <2>1, <2>2 DEF CallOK
  <2>4. \A d \in Subtree(table, c) : table[d].parent \in Subtree(table, c) \cup {p, q}
    BY <1>1, SubtreeHasParents
  <2>5. Moving(s)'
    BY <1>1, <1>2, <2>1, <2>2, <2>3, <2>4 DEF Moving, Consistent
  <2>6. Rows(snap'[s]) \subseteq Rows(table')
    BY <1>1, <2>1
  <2>7. QED
    BY <1>2, <2>1, <2>5, <2>6 DEF SessionOK
<1>12. ASSUME NEW r \in Session, r # s
       PROVE  SessionOK(r)'
  BY <1>1, <1>2, <1>12, SessionFrame DEF IInv, TypeOK
<1>13. QED
  BY <1>8, <1>9, <1>10, <1>11, <1>12 DEF IInv

\* Starting the next top-level move keeps the invariant.
LEMMA NextMoveInv ==
  ASSUME IInv, NEW s \in Session, NextMove(s)
  PROVE  IInv'
<1> DEFINE Calls == Category \X (Category \cup {NoParent})
<1>1. /\ stage[s] = "running" /\ todo[s] = {} /\ moves[s] # <<>>
      /\ todo' = [todo EXCEPT ![s] = {Head(moves[s])}]
      /\ moves' = [moves EXCEPT ![s] = Tail(moves[s])]
      /\ UNCHANGED <<table, issued, stage, job, snap, work, announced, stale>>
  BY DEF NextMove
<1>2. /\ TypeOK /\ Moving(s) /\ Consistent(snap[s])
      /\ Rows(snap[s]) \subseteq Rows(table)
  BY <1>1 DEF IInv, SessionOK, Creating
<1>3. moves[s] \in Seq(Calls) /\ s \in DOMAIN todo /\ s \in DOMAIN moves
  BY <1>2 DEF TypeOK
<1>4. /\ Head(moves[s]) = moves[s][1] /\ 1 \in 1 .. Len(moves[s])
      /\ Head(moves[s]) \in Calls /\ Tail(moves[s]) \in Seq(Calls)
      /\ \A i \in 1 .. Len(Tail(moves[s])) :
           Tail(moves[s])[i] = moves[s][i + 1] /\ i + 1 \in 1 .. Len(moves[s])
  <2> HIDE DEF Calls
  <2>1. QED
    BY <1>1, <1>3
<1>5. TypeOK'
  <2>1. todo' \in [Session -> SUBSET Calls]
    BY <1>1, <1>2, <1>4 DEF TypeOK
  <2>2. moves' \in [Session -> Seq(Calls)]
    BY <1>1, <1>2, <1>4 DEF TypeOK
  <2>3. QED
    BY <1>1, <1>2, <2>1, <2>2 DEF TypeOK
<1>6. IdsFresh' /\ TreeConsistent'
  BY <1>1 DEF IInv, IdsFresh, TreeConsistent, Consistent, FitsParent, Rows
<1>7. SessionOK(s)'
  <2>1. todo'[s] = {Head(moves[s])} /\ moves'[s] = Tail(moves[s])
    BY <1>1, <1>3
  <2>2. \A call : CallOK(s, call)' <=> CallOK(s, call)
    BY <1>1 DEF CallOK, NewParents, Moved
  <2>3. \A call \in todo'[s] : CallOK(s, call)'
    BY <1>2, <1>4, <2>1, <2>2 DEF Moving
  <2>4. \A i \in 1 .. Len(moves'[s]) : CallOK(s, moves[s][i])'
    BY <1>2, <1>4, <2>1, <2>2 DEF Moving
  <2>5. Moving(s)'
    BY <1>1, <1>2, <2>3, <2>4 DEF Moving, NewParents, Moved
  <2>6. QED
    BY <1>1, <1>2, <2>5 DEF SessionOK
<1>8. ASSUME NEW r \in Session, r # s
      PROVE  SessionOK(r)'
  BY <1>1, <1>2, <1>8, SessionFrame DEF IInv, TypeOK
<1>9. QED
  BY <1>5, <1>6, <1>7, <1>8 DEF IInv

\* Rewriting one row of the subtree keeps the invariant: the children of the
\* row, which no longer fit it, are exactly the calls that become pending.
LEMMA MoveNodeInv ==
  ASSUME IInv, NEW s \in Session, NEW c \in Category,
         NEW p \in Category \cup {NoParent}, MoveNode(s, c, p)
  PROVE  IInv'
<1> DEFINE t == [work[s] EXCEPT ![c] = Placed(work[s], c, p)]
           pending == (todo[s] \ {<<c, p>>}) \cup (Children(t, c) \X {c})
<1>1. /\ stage[s] = "running" /\ <<c, p>> \in todo[s]
      /\ work' = [work EXCEPT ![s] = t] /\ todo' = [todo EXCEPT ![s] = pending]
      /\ UNCHANGED <<table, issued, stage, job, snap, moves, announced, stale>>
  BY DEF MoveNode
<1>2. /\ TypeOK /\ Moving(s) /\ Consistent(snap[s])
      /\ Rows(snap[s]) \subseteq Rows(table)
  BY <1>1 DEF IInv, SessionOK, Creating
<1>3. work'[s] = t /\ todo'[s] = pending
  BY <1>1, <1>2 DEF TypeOK
<1>4. c \in Moved(s) /\ p \in NewParents(s) /\ p \in Rows(work[s]) \cup {NoParent}
  BY <1>1, <1>2 DEF Moving, CallOK
<1>5. /\ work[s] \in Table /\ snap[s] \in Table
      /\ Moved(s) \subseteq Rows(work[s]) /\ Rows(work[s]) \subseteq Category
  BY <1>2 DEF TypeOK, Moving, Moved, Subtree, Rows
<1>6. /\ Placed(work[s], c, p) \in Row /\ Placed(work[s], c, p).parent = p
      /\ Placed(work[s], c, p) # NoRow
  BY <1>4, <1>5, PlacedIsRow
<1>7. /\ t \in Table /\ Rows(t) = Rows(work[s]) /\ t[c] = Placed(work[s], c, p)
      /\ \A d \in Category : d # c => t[d] = work[s][d]
  BY <1>4, <1>5, <1>6 DEF Table, Rows
<1> HIDE DEF t
<1>8. Children(t, c) \subseteq Moved(s)
  <2> SUFFICES ASSUME NEW d \in Children(t, c) PROVE d \in Moved(s)
    OBVIOUS
  <2>1. CASE d = c \/ d \in Moved(s)
    BY <1>4, <2>1
  <2>2. CASE d # c /\ d \notin Moved(s)
    <3>1. d \in Category /\ d \in Rows(work[s]) /\ work[s][d].parent = c
      BY <1>7, <2>2 DEF Children, Rows
    <3>2. snap[s][d] = work[s][d] /\ d \in Rows(snap[s])
      BY <1>2, <2>2, <3>1 DEF Moving, Rows
    <3>3. d \in Children(snap[s], c)
      BY <3>1, <3>2 DEF Children
    <3>4. QED
      BY <1>4, <3>3, SubtreeHasChildren DEF Moved
  <2>3. QED
    BY <2>1, <2>2
<1>9. TypeOK'
  <2>1. pending \in SUBSET (Category \X (Category \cup {NoParent}))
    BY <1>2, <1>5, <1>8 DEF TypeOK
  <2> HIDE DEF pending
  <2>2. QED
    BY <1>1, <1>2, <1>7, <2>1 DEF TypeOK
<1>10. IdsFresh' /\ TreeConsistent'
  BY <1>1 DEF IInv, IdsFresh, TreeConsistent, Consistent, FitsParent, Rows
<1>11. ASSUME NEW d \in Rows(t)
       PROVE  FitsParent(t, d) \/ \E q \in Category \cup {NoParent} : <<d, q>> \in pending
  <2>1. CASE t[d].parent = c
    BY <2>1, <1>11 DEF Children
  <2>2. CASE d = c /\ t[d].parent # c
    <3>1. t[d].parent = p /\ t[d] = Placed(work[s], d, p) /\ p # c
      BY <1>6, <1>7, <2>2
    <3>2. p # NoParent => p \in Rows(t) /\ t[p] = work[s][p]
      BY <1>4, <1>5, <1>7, <3>1
    <3>3. QED
      BY <3>1, <3>2, PlacedDependsOnParent DEF FitsParent
  <2>3. CASE d # c /\ t[d].parent # c
    <3>1. d \in Rows(work[s]) /\ t[d] = work[s][d]
      BY <1>5, <1>7, <2>3, <1>11
    <3>2. CASE FitsParent(work[s], d)
      <4>1. t[d].parent # NoParent =>
              t[d].parent \in Rows(t) /\ t[t[d].parent] = work[s][t[d].parent]
        BY <1>5, <1>7, <2>3, <3>1, <3>2 DEF FitsParent
      <4>2. QED
        BY <3>1, <3>2, <4>1, PlacedDependsOnParent DEF FitsParent
    <3>3. CASE \E q \in Category \cup {NoParent} : <<d, q>> \in todo[s]
      BY <2>3, <3>3
    <3>4. QED
      BY <1>2, <3>1, <3>2, <3>3 DEF Moving
  <2>4. QED
    BY <2>1, <2>2, <2>3
<1>12. SessionOK(s)'
  <2>1. /\ Moved(s)' = Moved(s) /\ NewParents(s)' = NewParents(s)
        /\ \A call : CallOK(s, call)' <=> CallOK(s, call)
    BY <1>1 DEF CallOK, NewParents, Moved
  <2>2. \A call \in pending : CallOK(s, call)
    <3>1. \A d \in Children(t, c) : CallOK(s, <<d, c>>)
      BY <1>2, <1>4, <1>5, <1>8 DEF CallOK, NewParents, Moving
    <3>2. QED
      BY <1>2, <3>1 DEF Moving
  <2>3. \A d \in Category \ Moved(s) : t[d] = snap[s][d]
    BY <1>2, <1>4, <1>7 DEF Moving
  <2>4. \A d \in Moved(s) : t[d].parent \in NewParents(s)
    BY <1>2, <1>4, <1>5, <1>6, <1>7 DEF Moving
  <2> HIDE DEF pending
  <2>5. Moving(s)'
    BY <1>1, <1>2, <1>3, <1>7, <1>11, <2>1, <2>2, <2>3, <2>4 DEF Moving
  <2>6. QED
    BY <1>1, <1>2, <2>5 DEF SessionOK
<1>13. ASSUME NEW r \in Session, r # s
       PROVE  SessionOK(r)'
  BY <1>1, <1>2, <1>13, SessionFrame DEF IInv, TypeOK
<1>14. QED
  BY <1>9, <1>10, <1>12, <1>13 DEF IInv

\* An undisturbed creation adds one row to the table.
LEMMA CreateCommitted ==
  ASSUME IInv, NEW s \in Session, Commit(s), Creating(s), Undisturbed(s)
  PROVE  LET c == job[s].node
             p == job[s].target
         IN  /\ c \in Category /\ c \notin Rows(table)
             /\ p \in Rows(table) \cup {NoParent}
             /\ p # NoParent => table[p] = snap[s][p]
             /\ table'[c] = Placed(snap[s], c, p) /\ table'[c].parent = p
             /\ \A d \in Category : d # c => table'[d] = table[d]
             /\ Rows(table') = Rows(table) \cup {c}
<1> DEFINE c == job[s].node
           p == job[s].target
<1>1. TypeOK /\ table \in Table /\ snap[s] \in Table
  BY DEF IInv, TypeOK
<1>2. c \in Category /\ snap[s][c] = NoRow /\ table[c] = NoRow
  BY <1>1 DEF Creating, Rows, TypeOK
<1>3. p \in Rows(snap[s]) \cup {NoParent}
  BY DEF Creating
<1>4. /\ work[s][c] = Placed(snap[s], c, p) /\ work[s][c] \in Row
      /\ work[s][c] # NoRow /\ work[s][c].parent = p
      /\ \A d \in Category : d # c => work[s][d] = snap[s][d]
  BY <1>1, <1>2, <1>3, PlacedIsRow DEF Creating, Table
<1>5. p # NoParent => p \in Rows(table) /\ table[p] = snap[s][p]
  BY <1>3 DEF Undisturbed, Footprint, Creating, Rows
<1>6. table'[c] = work[s][c]
  BY <1>2, <1>4, MergedOverUnchanged DEF Commit
<1>7. \A d \in Category : d # c => table'[d] = table[d]
  BY <1>4, MergedUnchanged DEF Commit
<1>8. Rows(table') = Rows(table) \cup {c}
  BY <1>2, <1>4, <1>6, <1>7 DEF Rows
<1> QED BY <1>2, <1>4, <1>5, <1>6, <1>7, <1>8 DEF Rows

\* An undisturbed creation commits the row its parent's committed row gives.
LEMMA CreateCommitConsistent ==
  ASSUME IInv, ~stale, NEW s \in Session, stage[s] = "running",
         Commit(s), Creating(s), Undisturbed(s)
  PROVE  /\ Rows(table') = Rows(table) \cup {job[s].node}
         /\ Consistent(table')
<1> DEFINE c == job[s].node
           p == job[s].target
<1>1. TypeOK /\ table \in Table /\ Consistent(table)
  BY DEF IInv, TypeOK, TreeConsistent
<1>2. /\ c \in Category /\ c \notin Rows(table)
      /\ p \in Rows(table) \cup {NoParent}
      /\ p # NoParent => table[p] = snap[s][p]
      /\ table'[c] = Placed(snap[s], c, p) /\ table'[c].parent = p
      /\ \A d \in Category : d # c => table'[d] = table[d]
      /\ Rows(table') = Rows(table) \cup {c}
  BY CreateCommitted
<1> HIDE DEF c, p
<1>3. ASSUME NEW d \in Rows(table') PROVE FitsParent(table', d)
  <2>1. CASE d = c
    <3>1. p # c /\ (p # NoParent => table'[p] = snap[s][p])
      BY <1>2, ConstantsAssumption DEF Rows
    <3>2. Placed(table', c, p) = Placed(snap[s], c, p)
      BY <3>1, PlacedDependsOnParent
    <3> QED BY <1>2, <2>1, <3>2 DEF FitsParent
  <2>2. CASE d # c
    <3>1. d \in Rows(table) /\ table'[d] = table[d] /\ FitsParent(table, d)
      BY <1>1, <1>2, <1>3, <2>2 DEF Consistent, Rows
    <3>2. table[d].parent # NoParent =>
            table[d].parent \in Rows(table) /\ table[d].parent # c
      BY <1>2, <3>1 DEF FitsParent, Rows
    <3>3. table[d].parent # NoParent => table'[table[d].parent] = table[table[d].parent]
      BY <1>2, <3>2 DEF Rows
    <3> QED BY <1>2, <3>1, <3>2, <3>3, PlacedDependsOnParent DEF FitsParent
  <2> QED BY <2>1, <2>2
<1> QED BY <1>2, <1>3 DEF Consistent, c

\* An undisturbed move commits the subtree it rewrote and nothing else.
LEMMA MoveCommitted ==
  ASSUME IInv, NEW s \in Session, Commit(s), Moving(s), Undisturbed(s)
  PROVE  /\ Moved(s) = Subtree(table, job[s].node)
         /\ Moved(s) \subseteq Rows(snap[s]) /\ Moved(s) \subseteq Category
         /\ \A d \in Moved(s) : /\ table[d] = snap[s][d] /\ table'[d] = work[s][d]
                                /\ work[s][d] \in Row /\ work[s][d] # NoRow
         /\ \A d \in Category \ Moved(s) : table'[d] = table[d]
<1> DEFINE D == Moved(s)
<1>1. snap[s] \in Table /\ work[s] \in Table
  BY DEF IInv, TypeOK
<1>2. D = Subtree(table, job[s].node)
  BY DEF Undisturbed, Moved, Moving
<1>3. /\ D \subseteq Rows(snap[s]) /\ D \subseteq Category
      /\ \A d \in D : table[d] = snap[s][d]
  BY DEF Undisturbed, Footprint, Moved, Moving, Subtree, Rows
<1>4. \A d \in D : table'[d] = work[s][d] /\ work[s][d] \in Row /\ work[s][d] # NoRow
  <2> SUFFICES ASSUME NEW d \in D
               PROVE  table'[d] = work[s][d] /\ work[s][d] \in Row /\ work[s][d] # NoRow
    OBVIOUS
  <2>1. d \in Category /\ d \in Rows(work[s])
    BY <1>3 DEF Moving
  <2>2. work[s][d] \in Row /\ snap[s][d] \in Row \cup {NoRow} /\ work[s][d] # NoRow
    BY <1>1, <2>1 DEF Table, Rows
  <2> QED BY <1>3, <2>1, <2>2, MergedOverUnchanged DEF Commit
<1>5. \A d \in Category \ D : table'[d] = table[d]
  BY MergedUnchanged DEF Commit, Moving
<1> QED BY <1>2, <1>3, <1>4, <1>5

\* The subtree that was moved fits where it now hangs.
LEMMA MoveCommitConsistent ==
  ASSUME IInv, ~stale, NEW s \in Session, stage[s] = "running",
         Commit(s), Moving(s), Undisturbed(s)
  PROVE  /\ Rows(table') = Rows(table)
         /\ Consistent(table')
<1> DEFINE n == job[s].node
           D == Moved(s)
<1>1. TypeOK /\ table \in Table /\ Consistent(table)
  BY DEF IInv, TypeOK, TreeConsistent
<1>2. todo[s] = {}
  BY DEF Commit, MovesDone
<1>3. D = Subtree(table, n)
  BY MoveCommitted
<1>4. /\ D \subseteq Rows(snap[s]) /\ D \subseteq Category
      /\ \A d \in D : table[d] = snap[s][d]
  BY MoveCommitted
<1>5. \A d \in D : table'[d] = work[s][d] /\ work[s][d] \in Row /\ work[s][d] # NoRow
  BY MoveCommitted
<1>6. \A d \in Category \ D : table'[d] = table[d]
  BY MoveCommitted
<1>7. Rows(table') = Rows(table)
  BY <1>4, <1>5, <1>6 DEF Rows
<1>8. \A p \in NewParents(s) \ D :
         p # NoParent /\ p \in Rows(work[s]) => table'[p] = work[s][p]
  <2> SUFFICES ASSUME NEW p \in NewParents(s) \ D, p # NoParent, p \in Rows(work[s])
               PROVE  table'[p] = work[s][p]
    OBVIOUS
  <2>1. p \in Category /\ p \in Footprint(s)
    BY DEF NewParents, Footprint, Moving, Moved, Rows
  <2>2. table[p] = snap[s][p] /\ work[s][p] = snap[s][p]
    BY <2>1 DEF Undisturbed, Moving
  <2>3. QED
    BY <1>6, <2>1, <2>2
<1>9. ASSUME NEW d \in Rows(table') PROVE FitsParent(table', d)
  <2>1. CASE d \in D
    <3>1. /\ d \in Rows(work[s]) /\ FitsParent(work[s], d)
          /\ table'[d] = work[s][d] /\ table'[d].parent \in NewParents(s)
      BY <1>2, <1>4, <1>5, <2>1 DEF Moving
    <3>2. ASSUME table'[d].parent # NoParent
          PROVE  /\ table'[d].parent \in Rows(table')
                 /\ table'[table'[d].parent] = work[s][table'[d].parent]
      <4>1. table'[d].parent \in Rows(work[s])
        BY <3>1, <3>2 DEF FitsParent
      <4>2. table'[table'[d].parent] = work[s][table'[d].parent]
        BY <1>5, <1>8, <3>1, <3>2, <4>1
      <4>3. QED
        BY <4>1, <4>2 DEF Rows
    <3>3. QED
      BY <3>1, <3>2, PlacedDependsOnParent DEF FitsParent
  <2>2. CASE d \notin D
    <3>1. d \in Rows(table) /\ d \in Category /\ table'[d] = table[d] /\ FitsParent(table, d)
      BY <1>1, <1>6, <1>7, <2>2, <1>9 DEF Consistent, Rows
    <3>2. ASSUME table[d].parent # NoParent
          PROVE  /\ table[d].parent \in Rows(table')
                 /\ table'[table[d].parent] = table[table[d].parent]
      <4>1. table[d].parent \in Rows(table)
        BY <3>1, <3>2 DEF FitsParent
      <4>2. table[d].parent \notin D
        BY <1>3, <2>2, <3>1, SubtreeHasChildren DEF Children
      <4>3. QED
        BY <1>6, <1>7, <4>1, <4>2 DEF Rows
    <3>3. QED
      BY <3>1, <3>2, PlacedDependsOnParent DEF FitsParent
  <2>3. QED
    BY <2>1, <2>2
<1>10. QED
  BY <1>7, <1>9 DEF Consistent

\* A commit, disturbed or not, yields rows; it removes none and adds at most
\* the one that was created.
LEMMA CommitRows ==
  ASSUME IInv, NEW s \in Session, stage[s] = "running", Commit(s)
  PROVE  /\ table' \in Table
         /\ Rows(table) \subseteq Rows(table')
         /\ Rows(table') \subseteq
              Rows(table) \cup (IF Creating(s) THEN {job[s].node} ELSE {})
<1>1. table \in Table /\ snap[s] \in Table /\ work[s] \in Table
  BY DEF IInv, TypeOK
<1>2. /\ Rows(snap[s]) \subseteq Rows(work[s])
      /\ Rows(work[s]) \subseteq Rows(snap[s]) \cup (IF Creating(s) THEN {job[s].node} ELSE {})
      /\ Rows(snap[s]) \subseteq Rows(table)
  <2>1. Rows(snap[s]) \subseteq Rows(table)
    BY DEF IInv, SessionOK
  <2>2. CASE Creating(s)
    BY <1>1, <2>1, <2>2 DEF Creating, Rows, Table
  <2>3. CASE ~Creating(s)
    BY <2>1, <2>3 DEF IInv, SessionOK, Moving
  <2>4. QED
    BY <2>2, <2>3
<1>3. ASSUME NEW d \in Category
      PROVE  /\ table'[d] \in Row \cup {NoRow}
             /\ table[d] # NoRow => table'[d] # NoRow
             /\ table'[d] # NoRow => d \in Rows(table) \cup Rows(work[s])
  <2>1. /\ work[s][d] \in Row \cup {NoRow} /\ snap[s][d] \in Row \cup {NoRow}
        /\ table[d] \in Row \cup {NoRow} /\ (work[s][d] = NoRow => snap[s][d] = NoRow)
    BY <1>1, <1>2 DEF Table, Rows
  <2>2. table'[d] = Merged(work[s][d], snap[s][d], table[d])
    BY DEF Commit
  <2>3. CASE work[s][d] = snap[s][d]
    BY <2>1, <2>2, <2>3, MergedUnchanged DEF Rows
  <2>4. CASE work[s][d] # snap[s][d] /\ (snap[s][d] = NoRow \/ table[d] = NoRow)
    BY <2>1, <2>2, <2>4 DEF Rows, Merged
  <2>5. CASE /\ work[s][d] # snap[s][d] /\ snap[s][d] # NoRow /\ table[d] # NoRow
    <3>1. table'[d] \in Row
      BY <2>1, <2>2, <2>5 DEF Merged, Row
    <3>2. QED
      BY <2>5, <3>1, ConstantsAssumption DEF Rows, Row
  <2>6. QED
    BY <2>3, <2>4, <2>5
<1>4. table' \in Table
  <2>1. table' = [d \in Category |-> Merged(work[s][d], snap[s][d], table[d])]
    BY DEF Commit
  <2>2. QED
    BY <1>3, <2>1 DEF Table
<1>5. QED
  BY <1>2, <1>3, <1>4 DEF Rows

\* Committing keeps the invariant.
LEMMA CommitInv ==
  ASSUME IInv, ~stale, NEW s \in Session, Commit(s)
  PROVE  IInv'
<1>1. /\ stage[s] = "running" /\ todo[s] = {}
      /\ stale' = (stale \/ ~Undisturbed(s))
      /\ stage' = [stage EXCEPT ![s] = "committed"]
      /\ UNCHANGED <<issued, job, snap, work, moves, todo, announced>>
  BY DEF Commit, MovesDone
<1>2. TypeOK /\ (Creating(s) \/ Moving(s))
  BY <1>1 DEF IInv, SessionOK
<1>3. /\ table' \in Table /\ Rows(table) \subseteq Rows(table')
      /\ Rows(table') \subseteq Rows(table) \cup (IF Creating(s) THEN {job[s].node} ELSE {})
  BY <1>1, CommitRows
<1>4. TypeOK'
  BY <1>1, <1>2, <1>3 DEF TypeOK
<1>5. IdsFresh'
  <2>1. Rows(table') \subseteq issued
    BY <1>3 DEF IInv, IdsFresh, Creating
  <2>2. \A r \in Session : stage'[r] = "running" => stage[r] = "running"
    BY <1>1, <1>2 DEF TypeOK
  <2>3. QED
    BY <1>1, <2>1, <2>2 DEF IInv, IdsFresh
<1>6. TreeConsistent'
  <2>1. CASE Undisturbed(s)
    BY <1>1, <1>2, <2>1, CreateCommitConsistent, MoveCommitConsistent DEF TreeConsistent
  <2>2. CASE ~Undisturbed(s)
    BY <1>1, <2>2 DEF TreeConsistent
  <2>3. QED
    BY <2>1, <2>2
<1>7. SessionOK(s)'
  BY <1>1, <1>2 DEF SessionOK, TypeOK
<1>8. ASSUME NEW r \in Session, r # s
      PROVE  SessionOK(r)'
  <2>1. stage'[r] = stage[r]
    BY <1>1, <1>2, <1>8 DEF TypeOK
  <2>2. stage[r] = "running" /\ job[r].kind = "create" =>
           (job[r].node \in Rows(table') => job[r].node \in Rows(table))
    BY <1>1, <1>3, <1>8 DEF IInv, IdsFresh, Creating
  <2>3. QED
    BY <1>1, <1>3, <2>1, <2>2, SessionFrame DEF IInv
<1>9. QED
  BY <1>4, <1>5, <1>6, <1>7, <1>8 DEF IInv

\* Signalling keeps the invariant.
LEMMA SignalInv ==
  ASSUME IInv, NEW s \in Session, SignalParent(s) \/ SignalNode(s)
  PROVE  IInv'
<1>1. /\ UNCHANGED <<table, issued, job, snap, work, moves, todo, stale>>
      /\ UNCHANGED stage \/ (stage[s] = "committed" /\ stage' = [stage EXCEPT ![s] = "answered"])
      /\ \/ announced' = [announced EXCEPT ![s] = {job[s].target}]
         \/ announced' = [announced EXCEPT ![s] = announced[s] \cup {job[s].node}]
  BY DEF SignalParent, SignalNode
<1>2. TypeOK'
  <2>1. TypeOK /\ job[s].target \in Category \cup {NoParent}
        /\ job[s].node \in Category \cup {NoParent}
    BY DEF IInv, TypeOK, Job
  <2>2. announced' \in [Session -> SUBSET (Category \cup {NoParent})]
    BY <1>1, <2>1 DEF TypeOK
  <2>3. QED
    BY <1>1, <2>1, <2>2 DEF TypeOK
<1>3. \A r \in Session : (stage'[r] = "running") <=> (stage[r] = "running")
  BY <1>1 DEF IInv, TypeOK
<1>4. IdsFresh' /\ TreeConsistent'
  BY <1>1, <1>3 DEF IInv, IdsFresh, TreeConsistent, Consistent, FitsParent, Rows
<1>5. ASSUME NEW r \in Session
      PROVE  SessionOK(r)'
  <2>1. CASE stage[r] = "running"
    <3>1. stage'[r] = stage[r]
      BY <1>3, <2>1
    <3>2. QED
      BY <1>1, <3>1, SessionFrame DEF IInv
  <2>2. CASE stage[r] # "running"
    BY <1>1, <1>3, <2>2 DEF IInv, SessionOK
  <2>3. QED
    BY <2>1, <2>2
<1>6. QED
  BY <1>2, <1>4, <1>5 DEF IInv

\* Ending a request, by an answer, an exception or a crash, keeps it.
LEMMA CloseInv ==
  ASSUME IInv, NEW s \in Session, Close(s)
  PROVE  IInv'
<1>1. TypeOK'
  <2>1. NoTable \in Table /\ NoJob \in Job /\ <<>> \in Seq(Category \X (Category \cup {NoParent}))
    BY DEF NoTable, Table, NoJob, Job
  <2>2. QED
    BY <2>1 DEF IInv, TypeOK, Close
<1>2. IdsFresh' /\ TreeConsistent'
  <2>1. \A r \in Session : stage'[r] = "running" =>
           stage[r] = "running" /\ job'[r] = job[r]
    BY DEF IInv, TypeOK, Close
  <2>2. UNCHANGED <<table, issued, stale>>
    BY DEF Close
  <2>3. QED
    BY <2>1, <2>2 DEF IInv, IdsFresh, TreeConsistent, Consistent, FitsParent, Rows
<1>3. SessionOK(s)'
  BY DEF IInv, TypeOK, Close, SessionOK
<1>4. ASSUME NEW r \in Session, r # s
      PROVE  SessionOK(r)'
  BY <1>4, SessionFrame DEF IInv, TypeOK, Close
<1>5. QED
  BY <1>1, <1>2, <1>3, <1>4 DEF IInv

\* Every step keeps the invariant.
LEMMA NextInv == IInv /\ [Next]_vars => IInv'
<1> SUFFICES ASSUME IInv, [Next]_vars PROVE IInv'
  OBVIOUS
<1>1. CASE UNCHANGED vars
  <2>1. IdsFresh' /\ TreeConsistent' /\ TypeOK'
    BY <1>1 DEF IInv, vars, IdsFresh, TreeConsistent, Consistent, FitsParent, Rows, TypeOK
  <2>2. \A s \in Session : SessionOK(s)'
    BY <1>1, SessionFrame DEF IInv, vars
  <2>3. QED
    BY <2>1, <2>2 DEF IInv
<1>2. ASSUME ~stale, NEW s \in Session, NEW c \in Category,
             NEW p \in Category \cup {NoParent},
             BeginCreate(s, c, p) \/ BeginUpdate(s, c, p) \/ MoveNode(s, c, p)
      PROVE  IInv'
  BY <1>2, BeginCreateInv, BeginUpdateInv, MoveNodeInv
<1>3. ASSUME ~stale, NEW s \in Session,
             NextMove(s) \/ SignalParent(s) \/ Commit(s) \/ SignalNode(s)
               \/ Answer(s) \/ Abort(s) \/ Crash(s)
      PROVE  IInv'
  BY <1>3, NextMoveInv, SignalInv, CommitInv, CloseInv DEF Answer, Abort, Crash
<1>4. QED
  BY <1>1, <1>2, <1>3 DEF Next

-----------------------------------------------------------------------------
(* Theorems.                                                               *)

\* The variables of the category service always have their types.
THEOREM TypeCorrect == Spec => []TypeOK
<1>1. IInv => TypeOK
  BY DEF IInv
<1>2. QED
  BY <1>1, InitInv, NextInv, PTL DEF Spec

\* For every number of categories and sessions: as long as no commit has
\* disturbed what another request had read, every category has the path and
\* the depth its parent's row gives it.
THEOREM TreeStaysConsistent == Spec => []TreeConsistent
<1>1. IInv => TreeConsistent
  BY DEF IInv
<1>2. QED
  BY <1>1, InitInv, NextInv, PTL DEF Spec

-----------------------------------------------------------------------------
(* The moves of update_category and the calls they leave to be made.       *)

\* The parent that d has when the moves of s are done.
Drawn(s, d) ==
  IF d = job[s].node THEN job[s].target
  ELSE IF job[s].kind = "swap" /\ d = job[s].target THEN snap[s][job[s].node].parent
  ELSE snap[s][d].parent

\* The call that gives d that parent is still to come.
Due(s, d) ==
  \/ <<d, Drawn(s, d)>> \in todo[s]
  \/ \E i \in 1 .. Len(moves[s]) : moves[s][i] = <<d, Drawn(s, d)>>

\* A pending call gives its category the parent it has already, being a call
\* for a child, except for the top-level calls: while one of them is pending
\* nothing else is.
MovingAsDrawn(s) ==
  /\ job[s].node # job[s].target
  /\ job[s].kind = "swap" <=> job[s].target \in Moved(s)
  /\ Rows(work[s]) = Rows(snap[s])
  /\ \A d \in Rows(snap[s]) : work[s][d].parent = Drawn(s, d) \/ Due(s, d)
  /\ \A call \in todo[s] :
       \/ call[2] = work[s][call[1]].parent
       \/ todo[s] = {call} /\ call[2] = Drawn(s, call[1])
  /\ \A i \in 1 .. Len(moves[s]) : moves[s][i][2] = Drawn(s, moves[s][i][1])

CreatingAlone(s) == \A c \in Category \ {job[s].node} : work[s][c] = snap[s][c]

\* A request that has committed has no move left, and it has told of what it
\* moved as far as it has come.
Told(s) ==
  /\ stage[s] # "running" =>
       moves[s] = <<>> /\ (job[s].kind = "swap" => job[s].target \in announced[s])
  /\ stage[s] = "answered" => job[s].node \in announced[s]

RequestOK(s) ==
  stage[s] # "idle" =>
    /\ IF job[s].kind = "create" THEN CreatingAlone(s) ELSE MovingAsDrawn(s)
    /\ Told(s)

MovesInv == \A s \in Session : RequestOK(s)

-----------------------------------------------------------------------------

\* The steps of one session leave the requests of the others alone.
LEMMA OthersKept ==
  ASSUME NEW s \in Session, RequestOK(s), stage'[s] = stage[s], job'[s] = job[s],
         snap'[s] = snap[s], work'[s] = work[s], moves'[s] = moves[s],
         todo'[s] = todo[s], announced'[s] = announced[s]
  PROVE  RequestOK(s)'
<1>1. MovingAsDrawn(s)' <=> MovingAsDrawn(s)
  BY DEF MovingAsDrawn, Due, Drawn, Moved
<1>2. (CreatingAlone(s)' <=> CreatingAlone(s)) /\ (Told(s)' <=> Told(s))
  BY DEF CreatingAlone, Told
<1> QED BY <1>1, <1>2 DEF RequestOK

LEMMA BeginCreateMoves ==
  ASSUME TypeOK, MovesInv, NEW s \in Session, NEW c \in Category,
         NEW p \in Category \cup {NoParent}, BeginCreate(s, c, p)
  PROVE  MovesInv'
<1> USE DEF BeginCreate, Begin
<1>1. /\ job'[s] = [kind |-> "create", node |-> c, target |-> p]
      /\ stage'[s] = "running" /\ snap'[s] = table
      /\ work'[s] = [table EXCEPT ![c] = Placed(table, c, p)]
  BY DEF TypeOK
<1>2. \A d \in Category : d # c => work'[s][d] = snap'[s][d]
  BY <1>1 DEF TypeOK, Table
<1>3. RequestOK(s)'
  BY <1>1, <1>2 DEF RequestOK, CreatingAlone, Told
<1>4. ASSUME NEW r \in Session, r # s
      PROVE  RequestOK(r)'
  BY <1>4, OthersKept DEF MovesInv, TypeOK
<1> QED BY <1>3, <1>4 DEF MovesInv

LEMMA BeginUpdateMoves ==
  ASSUME IInv, MovesInv, NEW s \in Session, NEW c \in Category,
         NEW p \in Category \cup {NoParent}, BeginUpdate(s, c, p)
  PROVE  MovesInv'
<1> DEFINE swaps == IsChild(table, c, p)
           o == table[c].parent
<1>1. /\ stage[s] = "idle" /\ c \in Rows(table) /\ p # c
      /\ job'[s] = [kind |-> IF swaps THEN "swap" ELSE "update", node |-> c, target |-> p]
      /\ stage'[s] = "running" /\ snap'[s] = table /\ work'[s] = table
      /\ moves'[s] = IF swaps THEN << <<p, o>>, <<c, p>> >> ELSE << <<c, p>> >>
      /\ todo'[s] = todo[s]
  BY DEF BeginUpdate, Begin, IInv, TypeOK, MoveCalls
<1>2. todo'[s] = {} /\ (swaps <=> p \in Moved(s)')
  BY <1>1 DEF IInv, SessionOK, IsChild, Moved
<1> HIDE DEF swaps, o
<1>3. \A d : Drawn(s, d)' = IF d = c THEN p
                            ELSE IF swaps /\ d = p THEN o ELSE table[d].parent
  BY <1>1 DEF Drawn, o
<1>4. MovingAsDrawn(s)'
  <2>1. CASE swaps
    <3>1. Len(moves'[s]) = 2 /\ moves'[s][1] = <<p, o>> /\ moves'[s][2] = <<c, p>>
      BY <1>1, <2>1
    <3>2. \A i \in 1 .. Len(moves'[s]) : i = 1 \/ i = 2
      BY <3>1
    <3>3. \A i \in 1 .. Len(moves'[s]) : moves'[s][i][2] = Drawn(s, moves[s][i][1])'
      BY <1>1, <1>3, <2>1, <3>1, <3>2
    <3>4. 1 \in 1 .. Len(moves'[s]) /\ 2 \in 1 .. Len(moves'[s])
      BY <3>1
    <3>5. \A d \in Rows(table) : table[d].parent = Drawn(s, d)' \/ Due(s, d)'
      BY <1>3, <2>1, <3>1, <3>4 DEF Due
    <3> QED BY <1>1, <1>2, <3>3, <3>5 DEF MovingAsDrawn
  <2>2. CASE ~swaps
    <3>1. Len(moves'[s]) = 1 /\ moves'[s][1] = <<c, p>>
      BY <1>1, <2>2
    <3>2. \A i \in 1 .. Len(moves'[s]) : i = 1
      BY <3>1
    <3>3. \A i \in 1 .. Len(moves'[s]) : moves'[s][i][2] = Drawn(s, moves[s][i][1])'
      BY <1>3, <3>1, <3>2
    <3>4. 1 \in 1 .. Len(moves'[s])
      BY <3>1
    <3>5. \A d \in Rows(table) : table[d].parent = Drawn(s, d)' \/ Due(s, d)'
      BY <1>3, <2>2, <3>1, <3>4 DEF Due
    <3> QED BY <1>1, <1>2, <3>3, <3>5 DEF MovingAsDrawn
  <2> QED BY <2>1, <2>2
<1>5. RequestOK(s)'
  BY <1>1, <1>4 DEF RequestOK, Told
<1>6. ASSUME NEW r \in Session, r # s
      PROVE  RequestOK(r)'
  BY <1>6, OthersKept DEF MovesInv, IInv, TypeOK, BeginUpdate, Begin
<1> QED BY <1>5, <1>6 DEF MovesInv

LEMMA NextMoveMoves ==
  ASSUME IInv, MovesInv, NEW s \in Session, NextMove(s)
  PROVE  MovesInv'
<1>1. /\ stage[s] = "running" /\ todo[s] = {} /\ moves[s] # <<>>
      /\ UNCHANGED <<stage, job, snap, work, announced>>
      /\ todo'[s] = {Head(moves[s])} /\ moves'[s] = Tail(moves[s])
      /\ moves[s] \in Seq(Category \X (Category \cup {NoParent}))
  BY DEF NextMove, IInv, TypeOK
<1>2. /\ Len(moves[s]) \in Nat \ {0} /\ 1 \in 1 .. Len(moves[s])
      /\ Head(moves[s]) = moves[s][1] /\ Len(Tail(moves[s])) = Len(moves[s]) - 1
      /\ \A i \in 1 .. Len(Tail(moves[s])) :
           i + 1 \in 1 .. Len(moves[s]) /\ Tail(moves[s])[i] = moves[s][i + 1]
  BY <1>1
<1>3. job[s].kind # "create" /\ MovingAsDrawn(s)
  <2>1. job[s].kind # "create"
    BY <1>1 DEF IInv, SessionOK, Creating, Moving
  <2> QED BY <1>1, <2>1 DEF MovesInv, RequestOK
<1>4. Moved(s)' = Moved(s) /\ \A d : Drawn(s, d)' = Drawn(s, d)
  BY <1>1 DEF Drawn, Moved
<1>5. ASSUME NEW d \in Rows(snap[s])
      PROVE  work[s][d].parent = Drawn(s, d) \/ Due(s, d)'
  <2> SUFFICES ASSUME work[s][d].parent # Drawn(s, d)
               PROVE  Due(s, d)'
    OBVIOUS
  <2>1. PICK i \in 1 .. Len(moves[s]) : moves[s][i] = <<d, Drawn(s, d)>>
    BY <1>1, <1>3 DEF MovingAsDrawn, Due
  <2>2. CASE i = 1
    BY <1>1, <1>2, <1>4, <2>1, <2>2 DEF Due
  <2>3. CASE i # 1
    <3>1. i - 1 \in 1 .. Len(Tail(moves[s])) /\ (i - 1) + 1 = i
      BY <1>2, <2>3
    <3>2. Tail(moves[s])[i - 1] = <<d, Drawn(s, d)>>
      BY <1>2, <2>1, <3>1
    <3> QED BY <1>1, <1>4, <3>1, <3>2 DEF Due
  <2> QED BY <2>2, <2>3
<1>6. \A i \in 1 .. Len(moves[s]) : moves[s][i][2] = Drawn(s, moves[s][i][1])
  BY <1>3 DEF MovingAsDrawn
<1>7. \A i \in 1 .. Len(moves'[s]) : moves'[s][i][2] = Drawn(s, moves'[s][i][1])
  <2> SUFFICES ASSUME NEW i \in 1 .. Len(Tail(moves[s]))
               PROVE  Tail(moves[s])[i][2] = Drawn(s, Tail(moves[s])[i][1])
    BY <1>1
  <2>1. i + 1 \in 1 .. Len(moves[s]) /\ Tail(moves[s])[i] = moves[s][i + 1]
    BY <1>2
  <2> QED BY <1>6, <2>1
<1>8. \A call \in todo'[s] : todo'[s] = {call} /\ call[2] = Drawn(s, call[1])
  BY <1>1, <1>2, <1>6
<1>9. MovingAsDrawn(s)'
  BY <1>1, <1>3, <1>4, <1>5, <1>7, <1>8 DEF MovingAsDrawn
<1>10. RequestOK(s)'
  BY <1>1, <1>3, <1>9 DEF RequestOK, Told
<1>11. ASSUME NEW r \in Session, r # s
       PROVE  RequestOK(r)'
  BY <1>11, OthersKept DEF MovesInv, IInv, TypeOK, NextMove
<1> QED BY <1>10, <1>11 DEF MovesInv

LEMMA MoveNodeMoves ==
  ASSUME IInv, IInv', MovesInv, NEW s \in Session, NEW c \in Category,
         NEW p \in Category \cup {NoParent}, MoveNode(s, c, p)
  PROVE  MovesInv'
<1> DEFINE t == [work[s] EXCEPT ![c] = Placed(work[s], c, p)]
<1>1. /\ stage[s] = "running" /\ <<c, p>> \in todo[s]
      /\ UNCHANGED <<stage, job, snap, moves, announced>>
      /\ work'[s] = t /\ todo'[s] = (todo[s] \ {<<c, p>>}) \cup (Children(t, c) \X {c})
  BY DEF MoveNode, IInv, TypeOK
<1>2. job[s].kind # "create" /\ MovingAsDrawn(s) /\ Moving(s)'
  <2>1. job[s].kind # "create"
    BY <1>1 DEF IInv, SessionOK, Creating, Moving
  <2>2. stage'[s] = "running" /\ job'[s].kind # "create"
    BY <1>1, <2>1
  <2> QED BY <1>1, <2>1, <2>2 DEF MovesInv, RequestOK, IInv, SessionOK, Creating
<1>3. t[c].parent = p /\ \A d \in Category : d # c => t[d] = work[s][d]
  BY DEF IInv, TypeOK, Table, Placed
<1> HIDE DEF t
<1>4. /\ Rows(work'[s]) = Rows(snap'[s]) /\ Rows(snap[s]) \subseteq Category
      /\ \A call \in todo[s] : call[1] \in Category /\ call = <<call[1], call[2]>>
  BY <1>2 DEF Moving, Rows, IInv, TypeOK
<1>5. Moved(s)' = Moved(s) /\ \A d : Drawn(s, d)' = Drawn(s, d)
  BY <1>1 DEF Drawn, Moved
<1>6. \/ p = work[s][c].parent
      \/ todo[s] = {<<c, p>>} /\ p = Drawn(s, c)
  BY <1>1, <1>2 DEF MovingAsDrawn
<1>7. ASSUME NEW d \in Rows(snap[s])
      PROVE  t[d].parent = Drawn(s, d) \/ Due(s, d)'
  <2> SUFFICES ASSUME t[d].parent # Drawn(s, d)
               PROVE  Due(s, d)'
    OBVIOUS
  <2>1. work[s][d].parent = t[d].parent /\ <<d, Drawn(s, d)>> # <<c, p>>
    BY <1>3, <1>4, <1>6
  <2>2. Due(s, d)
    BY <1>2, <2>1 DEF MovingAsDrawn
  <2> QED BY <1>1, <1>5, <2>1, <2>2 DEF Due
<1>8. ASSUME NEW call \in todo'[s]
      PROVE  call[2] = t[call[1]].parent
  <2>1. CASE call \in Children(t, c) \X {c}
    BY <2>1 DEF Children
  <2>2. CASE call \in todo[s] /\ call # <<c, p>>
    <3>1. call[2] = work[s][call[1]].parent /\ p = work[s][c].parent
      BY <1>1, <1>2, <1>6, <2>2 DEF MovingAsDrawn
    <3> QED BY <1>3, <1>4, <2>2, <3>1
  <2> QED BY <1>1, <1>8, <2>1, <2>2
<1>9. MovingAsDrawn(s)'
  BY <1>1, <1>2, <1>4, <1>5, <1>7, <1>8 DEF MovingAsDrawn
<1>10. RequestOK(s)'
  BY <1>1, <1>2, <1>9 DEF RequestOK, Told
<1>11. ASSUME NEW r \in Session, r # s
       PROVE  RequestOK(r)'
  BY <1>11, OthersKept DEF MovesInv, IInv, TypeOK, MoveNode
<1> QED BY <1>10, <1>11 DEF MovesInv

LEMMA SignalMoves ==
  ASSUME TypeOK, MovesInv, NEW s \in Session, SignalParent(s) \/ Commit(s) \/ SignalNode(s)
  PROVE  MovesInv'
<1>1. UNCHANGED <<job, snap, work, moves, todo>>
  BY DEF SignalParent, Commit, SignalNode
<1>2. /\ MovingAsDrawn(s)' <=> MovingAsDrawn(s)
      /\ CreatingAlone(s)' <=> CreatingAlone(s)
  BY <1>1 DEF MovingAsDrawn, Due, Drawn, Moved, CreatingAlone
<1>3. stage[s] # "idle" /\ Told(s)
  BY DEF MovesInv, RequestOK, SignalParent, Commit, SignalNode, MovesDone
<1>4. Told(s)'
  <2>1. CASE SignalParent(s)
    BY <1>1, <2>1 DEF SignalParent, MovesDone, Told, TypeOK
  <2>2. CASE Commit(s)
    BY <1>1, <2>2 DEF Commit, MovesDone, Told, TypeOK
  <2>3. CASE SignalNode(s)
    <3>1. /\ stage'[s] = "answered" /\ stage[s] = "committed"
          /\ announced'[s] = announced[s] \cup {job[s].node}
      BY <2>3 DEF SignalNode, TypeOK
    <3> QED BY <1>1, <1>3, <3>1 DEF Told
  <2> QED BY <2>1, <2>2, <2>3
<1>5. RequestOK(s)'
  BY <1>1, <1>2, <1>3, <1>4 DEF MovesInv, RequestOK
<1>6. ASSUME NEW r \in Session, r # s
      PROVE  RequestOK(r)'
  <2>1. stage'[r] = stage[r] /\ announced'[r] = announced[r]
    BY <1>6 DEF SignalParent, Commit, SignalNode, TypeOK
  <2> QED BY <1>1, <2>1, OthersKept DEF MovesInv
<1> QED BY <1>5, <1>6 DEF MovesInv

LEMMA CloseMoves ==
  ASSUME TypeOK, MovesInv, NEW s \in Session, Close(s)
  PROVE  MovesInv'
<1>1. RequestOK(s)'
  BY DEF Close, TypeOK, RequestOK
<1>2. ASSUME NEW r \in Session, r # s
      PROVE  RequestOK(r)'
  BY <1>2, OthersKept DEF Close, TypeOK, MovesInv
<1> QED BY <1>1, <1>2 DEF MovesInv

LEMMA NextMoves == IInv /\ IInv' /\ MovesInv /\ [Next]_vars => MovesInv'
<1> SUFFICES ASSUME IInv, IInv', MovesInv, [Next]_vars PROVE MovesInv'
  OBVIOUS
<1>1. TypeOK
  BY DEF IInv
<1>2. CASE UNCHANGED vars
  BY <1>2, OthersKept DEF MovesInv, vars
<1>3. ASSUME NEW s \in Session, NEW c \in Category, NEW p \in Category \cup {NoParent},
             BeginCreate(s, c, p) \/ BeginUpdate(s, c, p) \/ MoveNode(s, c, p)
      PROVE  MovesInv'
  BY <1>1, <1>3, BeginCreateMoves, BeginUpdateMoves, MoveNodeMoves
<1>4. ASSUME NEW s \in Session,
             NextMove(s) \/ SignalParent(s) \/ Commit(s) \/ SignalNode(s)
               \/ Answer(s) \/ Abort(s) \/ Crash(s)
      PROVE  MovesInv'
  BY <1>1, <1>4, NextMoveMoves, SignalMoves, CloseMoves DEF Answer, Abort, Crash
<1> QED BY <1>2, <1>3, <1>4 DEF Next

LEMMA InvHolds == Spec => [](IInv /\ MovesInv)
<1>1. Init => MovesInv
  BY DEF Init, MovesInv, RequestOK
<1> QED BY <1>1, InitInv, NextInv, NextMoves, PTL DEF Spec

-----------------------------------------------------------------------------
(* Theorems.                                                               *)

\* For any tree and any number of sessions: when the moves of a request are
\* done, the parents are as the docstring of update_category draws them.
THEOREM MovesEndAsDrawn == Spec => []MovesAsDrawn
<1>1. IInv /\ MovesInv => MovesAsDrawn
  <2> SUFFICES ASSUME IInv, MovesInv, NEW s \in Session, MovesDone(s), job[s].kind # "create"
               PROVE  LET c == job[s].node
                          p == job[s].target
                      IN  /\ work[s][c].parent = p
                          /\ job[s].kind = "swap" => work[s][p].parent = snap[s][c].parent
                          /\ \A d \in Rows(snap[s]) \ {c} :
                               (d = p => job[s].kind # "swap") =>
                                 work[s][d].parent = snap[s][d].parent
    BY DEF MovesAsDrawn
  <2>1. MovingAsDrawn(s) /\ Moving(s)
    BY DEF MovesInv, RequestOK, MovesDone, IInv, SessionOK, Creating
  <2>2. \A d \in Rows(snap[s]) : work[s][d].parent = Drawn(s, d)
    <3>1. todo[s] = {} /\ Len(moves[s]) = 0
      BY DEF MovesDone
    <3>2. 1 .. Len(moves[s]) = {}
      BY <3>1
    <3> QED BY <2>1, <3>1, <3>2 DEF MovingAsDrawn, Due
  <2>3. job[s].node \in Rows(snap[s]) /\ job[s].node # job[s].target
    BY <2>1 DEF Moving, MovingAsDrawn
  <2>4. job[s].kind = "swap" => job[s].target \in Rows(snap[s])
    BY <2>1 DEF MovingAsDrawn, Moved, Subtree
  <2> QED BY <2>2, <2>3, <2>4 DEF Drawn
<1> QED BY <1>1, InvHolds, PTL

\* A request that was answered has announced every category it created or
\* gave another parent, whatever other sessions did meanwhile.
THEOREM ChangesAnnounced == Spec => []ReparentedAnnounced
<1>1. IInv /\ MovesInv => ReparentedAnnounced
  <2> SUFFICES ASSUME IInv, MovesInv, NEW s \in Session, stage[s] = "answered",
                      NEW c \in Rows(work[s]),
                      snap[s][c] = NoRow \/ work[s][c].parent # snap[s][c].parent
               PROVE  c \in announced[s]
    BY DEF ReparentedAnnounced
  <2>1. c \in Category /\ work[s][c] # NoRow /\ Told(s) /\ todo[s] = {} /\ moves[s] = <<>>
    BY DEF Rows, MovesInv, RequestOK, Told, IInv, SessionOK
  <2>2. CASE job[s].kind = "create"
    BY <2>1, <2>2 DEF MovesInv, RequestOK, CreatingAlone, Told
  <2>3. CASE job[s].kind # "create"
    <3>1. MovingAsDrawn(s)
      BY <2>3 DEF MovesInv, RequestOK
    <3>2. c \in Rows(snap[s]) /\ snap[s][c] # NoRow /\ 1 .. Len(moves[s]) = {}
      BY <2>1, <3>1 DEF MovingAsDrawn, Rows
    <3>3. work[s][c].parent = Drawn(s, c)
      BY <2>1, <3>1, <3>2 DEF MovingAsDrawn, Due
    <3>4. c = job[s].node \/ (job[s].kind = "swap" /\ c = job[s].target)
      BY <3>2, <3>3 DEF Drawn
    <3> QED BY <2>1, <3>4 DEF Told
  <2> QED BY <2>2, <2>3
<1> QED BY <1>1, InvHolds, PTL


-----------------------------------------------------------------------------
(* The forest.                                                             *)

\* The parent a category has in the forest.
ParentIn(t, c) == IF t[c] = NoRow THEN NoRow ELSE t[c].parent

\* The categories of the forest are those with a row.
LEMMA PresentAreRows ==
  ASSUME table \in Table
  PROVE  Forest!Present = Rows(table)
<1>1. \A d \in Category : table[d] # NoRow => table[d].parent # NoRow
  BY ConstantsAssumption DEF Table, Row
<1> QED BY <1>1 DEF Forest!Present, Rows

\* What hangs below a category in the forest is its subtree in the table.
LEMMA BelowIsSubtree ==
  ASSUME NEW c \in Category, table \in Table
  PROVE  Forest!Below(c) = Subtree(table, c)
<1>1. ASSUME NEW S \in SUBSET Rows(table)
      PROVE  (\A x \in Rows(table) :
                [d \in Category |-> ParentIn(table, d)][x] \in S => x \in S)
               <=> (\A x \in S : Children(table, x) \subseteq S)
  BY DEF Rows, Children, ParentIn
<1>2. Forest!Below(c) =
        {d \in Rows(table) : \A S \in SUBSET Rows(table) :
           (c \in S /\ \A x \in Rows(table) :
                [e \in Category |-> ParentIn(table, e)][x] \in S => x \in S) => d \in S}
  BY PresentAreRows DEF Forest!Below, ParentIn
<1> QED BY <1>1, <1>2 DEF Subtree

\* An undisturbed creation inserts a category into the forest.
LEMMA CreationInserts ==
  ASSUME IInv, NEW s \in Session, Commit(s), Creating(s), Undisturbed(s),
         NEW c, c = job[s].node, NEW p, p = job[s].target
  PROVE  Forest!Insert(c, p)
<1> DEFINE f == [d \in Category |-> ParentIn(table, d)]
<1>1. /\ c \in Category /\ c \notin Rows(table) /\ p \in Rows(table) \cup {NoParent}
      /\ table'[c].parent = p /\ Rows(table') = Rows(table) \cup {c}
      /\ \A d \in Category : d # c => table'[d] = table[d]
  BY CreateCommitted
<1>2. Forest!Present = Rows(table)
  BY PresentAreRows DEF IInv, TypeOK
<1>3. [d \in Category |-> ParentIn(table', d)] = [f EXCEPT ![c] = p]
  BY <1>1 DEF ParentIn, Rows
<1> QED BY <1>1, <1>2, <1>3 DEF Forest!Insert, ParentIn

\* An undisturbed move moves a category in the forest or exchanges two.
LEMMA MoveReparents ==
  ASSUME IInv, MovesInv, NEW s \in Session, Commit(s), Moving(s), Undisturbed(s),
         NEW c, c = job[s].node, NEW p, p = job[s].target
  PROVE  Forest!Reparent(c, p) \/ Forest!Exchange(c, p)
<1> DEFINE f == [d \in Category |-> ParentIn(table, d)]
           g == [d \in Category |-> ParentIn(table', d)]
<1>1. /\ Moved(s) = Subtree(table, c)
      /\ Moved(s) \subseteq Rows(snap[s]) /\ Moved(s) \subseteq Category
      /\ \A d \in Moved(s) : /\ table[d] = snap[s][d] /\ table'[d] = work[s][d]
                             /\ work[s][d] \in Row /\ work[s][d] # NoRow
      /\ \A d \in Category \ Moved(s) : table'[d] = table[d]
  BY MoveCommitted
<1>2. /\ stage[s] = "running" /\ job[s].kind # "create" /\ MovingAsDrawn(s)
      /\ todo[s] = {} /\ moves[s] = <<>>
  BY DEF Commit, MovesDone, Moving, MovesInv, RequestOK
<1>3. /\ c \in Rows(snap[s]) /\ p \in Rows(snap[s]) \cup {NoParent} /\ c # p
      /\ Rows(snap[s]) \subseteq Rows(table) /\ Rows(table) \subseteq Category
      /\ table \in Table /\ (job[s].kind = "swap" <=> p \in Moved(s))
  BY <1>2 DEF Moving, MovingAsDrawn, IInv, SessionOK, TypeOK, Rows
<1>4. c \in Moved(s)
  BY <1>3, SubtreeHasRoot DEF Moved
<1>5. \A d \in Moved(s) : work[s][d].parent = Drawn(s, d)
  <2>1. 1 .. Len(moves[s]) = {}
    BY <1>2
  <2> QED BY <1>1, <1>2, <2>1 DEF MovingAsDrawn, Due
<1>6. \A d \in Category : g[d] = IF d = c THEN p
                                 ELSE IF p \in Moved(s) /\ d = p THEN f[c] ELSE f[d]
  <2> SUFFICES ASSUME NEW d \in Category
               PROVE  g[d] = IF d = c THEN p
                             ELSE IF p \in Moved(s) /\ d = p THEN f[c] ELSE f[d]
    OBVIOUS
  <2>1. CASE d \in Moved(s)
    <3>1. /\ g[d] = work[s][d].parent /\ f[d] = snap[s][d].parent
          /\ f[c] = snap[s][c].parent
      BY <1>1, <1>3, <1>4, <2>1 DEF ParentIn, Rows
    <3> QED BY <1>3, <1>5, <2>1, <3>1 DEF Drawn
  <2>2. CASE d \notin Moved(s)
    BY <1>1, <1>4, <2>2 DEF ParentIn
  <2> QED BY <2>1, <2>2
<1>7. /\ Forest!Present = Rows(table) /\ Forest!Below(c) = Moved(s)
      /\ c \in Rows(table) /\ p \in Rows(table) \cup {NoParent}
  BY <1>1, <1>3, PresentAreRows, BelowIsSubtree
<1>8. CASE p \notin Moved(s)
  <2>1. g = [f EXCEPT ![c] = p]
    BY <1>6, <1>8
  <2> QED BY <1>7, <1>8, <2>1 DEF Forest!Reparent, ParentIn
<1>9. CASE p \in Moved(s)
  <2>1. g = [f EXCEPT ![p] = f[c], ![c] = p]
    BY <1>3, <1>6, <1>9
  <2> QED BY <1>3, <1>7, <1>9, <2>1 DEF Forest!Exchange, ParentIn
<1> QED BY <1>8, <1>9

\* Before there are categories the forest is empty.
LEMMA InitIsForest == Init => Forest!Init
BY DEF Init, NoTable, Forest!Init

\* A step is one of the forest, or leaves it alone.
LEMMA NextIsForest == IInv /\ MovesInv /\ IInv' /\ [Next]_vars => [Forest!Next]_(Forest!vars)
<1> SUFFICES ASSUME IInv, MovesInv, IInv', [Next]_vars, ~ UNCHANGED <<table, stale>>
             PROVE  Forest!Next
  BY DEF Forest!vars
<1>1. Next /\ ~stale
  BY DEF Next, vars
<1>2. PICK s \in Session : Commit(s)
  <2>1. ASSUME NEW r \in Session, NEW c \in Category, NEW p \in Category \cup {NoParent},
               BeginCreate(r, c, p) \/ BeginUpdate(r, c, p) \/ MoveNode(r, c, p)
        PROVE  UNCHANGED <<table, stale>>
    BY <2>1 DEF BeginCreate, BeginUpdate, Begin, MoveNode
  <2>2. ASSUME NEW r \in Session, NextMove(r) \/ SignalParent(r) \/ SignalNode(r)
                 \/ Answer(r) \/ Abort(r) \/ Crash(r)
        PROVE  UNCHANGED <<table, stale>>
    BY <2>2 DEF NextMove, SignalParent, SignalNode, Answer, Abort, Crash, Close
  <2> QED BY <1>1, <2>1, <2>2 DEF Next
<1>3. /\ stage[s] = "running" /\ stale' = (stale \/ ~Undisturbed(s))
      /\ Creating(s) \/ Moving(s)
  BY <1>2 DEF Commit, MovesDone, IInv, SessionOK
<1>4. CASE Undisturbed(s)
  <2>1. UNCHANGED stale
    <3>1. stale \in BOOLEAN /\ stale' \in BOOLEAN
      BY DEF IInv, TypeOK
    <3>2. ~stale'
      BY <1>1, <1>3, <1>4
    <3> QED BY <1>1, <3>1, <3>2
  <2>2. job[s].node \in Category /\ job[s].target \in Category \cup {NoParent}
    <3>1. job[s].target \in Category \cup {NoParent}
      BY DEF IInv, TypeOK, Job
    <3>2. job[s].node \in Category
      BY <1>3 DEF Creating, Moving, Rows, IInv, TypeOK
    <3> QED BY <3>1, <3>2
  <2>3. PICK c \in Category, p \in Category \cup {NoParent} :
          c = job[s].node /\ p = job[s].target
    BY <2>2
  <2>4. Forest!Insert(c, p) \/ Forest!Reparent(c, p) \/ Forest!Exchange(c, p)
    BY <1>2, <1>3, <1>4, <2>3, CreationInserts, MoveReparents
  <2> QED BY <1>1, <2>1, <2>4 DEF Forest!Next
<1>5. CASE ~Undisturbed(s)
  <2>1. \A d \in Category : ParentIn(table', d) \in Category \cup {NoParent, NoRow}
    BY DEF IInv, TypeOK, Table, Row, ParentIn
  <2>2. Forest!Collide
    BY <1>3, <1>5, <2>1 DEF Forest!Collide, Forest!Forest, ParentIn
  <2> QED BY <1>1, <2>2 DEF Forest!Next
<1> QED BY <1>4, <1>5

\* For every tree and any number of sessions: what the requests commit, row by
\* row and from snapshots, is a forest in which each request takes effect at
\* once, up to the first commit that went over another one.
THEOREM ActsAsForest == Spec => ImplementsForest
<1>1. Init => Forest!Init
  BY InitIsForest
<1>2. IInv /\ MovesInv /\ IInv' /\ [Next]_vars => [Forest!Next]_(Forest!vars)
  BY NextIsForest
<1> QED BY <1>1, <1>2, InvHolds, PTL DEF Spec, ImplementsForest, Forest!Spec

-----------------------------------------------------------------------------
(* Paths.                                                                  *)

\* A path of t, and how long it is.
PathOf(t, c) == t[c].path
LengthOf(t, c) == Len(t[c].path)

-----------------------------------------------------------------------------
(* Consistent tables.                                                      *)

\* A set of natural numbers has a least one.
LEMMA LeastOfNumbers ==
  ASSUME NEW T \in SUBSET Nat, T # {}
  PROVE  \E x \in T : \A y \in T : x <= y
<1>1. PICK x \in T : \A y \in T : ~(<<y, x>> \in OpToRel(<, Nat))
  BY NatLessThanWellFounded, WFMin
<1>2. \A y \in T : ~(y < x)
  BY <1>1 DEF OpToRel
<1> QED BY <1>2

\* The path of a category is that of its parent and its own id.
LEMMA PathOfChild ==
  ASSUME NEW t \in Table, Consistent(t), NEW c \in Rows(t)
  PROVE  /\ c \in Category /\ PathOf(t, c) \in Seq(Category)
         /\ LengthOf(t, c) \in Nat \ {0}
         /\ PathOf(t, c)[LengthOf(t, c)] = c
         /\ t[c].parent = NoParent =>
              LengthOf(t, c) = 1 /\ PathOf(t, c) = <<c>> /\ t[c].depth = 1
         /\ t[c].parent # NoParent =>
              /\ t[c].parent \in Rows(t)
              /\ LengthOf(t, c) = LengthOf(t, t[c].parent) + 1
              /\ \A i \in 1 .. LengthOf(t, t[c].parent) :
                   PathOf(t, c)[i] = PathOf(t, t[c].parent)[i]
              /\ t[c].depth = t[t[c].parent].depth + 1
<1> DEFINE p == t[c].parent
<1>1. c \in Category /\ t[c] \in Row /\ FitsParent(t, c)
  BY RowsAreRecords DEF Consistent
<1>2. CASE p = NoParent
  <2>1. t[c].path = <<c>> /\ t[c].depth = 1
    BY <1>1, <1>2 DEF FitsParent, Placed
  <2>2. PathOf(t, c) \in Seq(Category)
    BY <1>1 DEF Row, PathOf
  <2>3. LengthOf(t, c) = 1 /\ PathOf(t, c)[1] = c
    BY <2>1 DEF LengthOf, PathOf
  <2> QED BY <1>1, <1>2, <2>1, <2>2, <2>3 DEF PathOf
<1>3. CASE p # NoParent
  <2>1. p \in Rows(t) /\ t[c].path = Append(t[p].path, c) /\ t[c].depth = t[p].depth + 1
    BY <1>1, <1>3 DEF FitsParent, Placed
  <2>2. t[p].path \in Seq(Category)
    BY <2>1, RowsAreRecords DEF Row
  <2> HIDE DEF p
  <2>3. /\ t[c].path \in Seq(Category) /\ Len(t[p].path) \in Nat
        /\ Len(t[c].path) = Len(t[p].path) + 1 /\ t[c].path[Len(t[p].path) + 1] = c
        /\ \A i \in 1 .. Len(t[p].path) : t[c].path[i] = t[p].path[i]
    BY <1>1, <2>1, <2>2
  <2> QED BY <1>1, <1>3, <2>1, <2>3 DEF PathOf, LengthOf, p
<1> QED BY <1>2, <1>3

\* What holds of roots, and of a category if it holds of its parent, holds of
\* all categories: no consistent table has a circle.
LEMMA FromRoots ==
  ASSUME NEW t \in Table, Consistent(t), NEW S \in SUBSET Rows(t),
         \A c \in Rows(t) : t[c].parent \in S \cup {NoParent} => c \in S
  PROVE  S = Rows(t)
<1> SUFFICES ASSUME Rows(t) \ S # {}
             PROVE  FALSE
  OBVIOUS
<1> DEFINE Lengths == {LengthOf(t, c) : c \in Rows(t) \ S}
<1>1. Lengths \in SUBSET Nat /\ Lengths # {}
  BY PathOfChild
<1>2. PICK n \in Lengths : \A m \in Lengths : n <= m
  BY <1>1, LeastOfNumbers
<1>3. PICK c \in Rows(t) \ S : n = LengthOf(t, c)
  BY <1>2
<1>4. /\ t[c].parent # NoParent /\ t[c].parent \in Rows(t) \ S
      /\ LengthOf(t, c) = LengthOf(t, t[c].parent) + 1
  BY <1>3, PathOfChild
<1>5. LengthOf(t, t[c].parent) \in Nat /\ LengthOf(t, t[c].parent) \in Lengths
  BY <1>4, PathOfChild
<1>6. n <= LengthOf(t, t[c].parent)
  BY <1>2, <1>5
<1> HIDE DEF Lengths
<1> QED BY <1>3, <1>4, <1>5, <1>6

\* The depth of a category is the length of its path.
LEMMA DepthIsLength ==
  ASSUME NEW t \in Table, Consistent(t), NEW c \in Rows(t)
  PROVE  t[c].depth = LengthOf(t, c)
<1> DEFINE S == {d \in Rows(t) : t[d].depth = LengthOf(t, d)}
<1>1. ASSUME NEW d \in Rows(t), t[d].parent \in S \cup {NoParent}
      PROVE  d \in S
  <2>1. CASE t[d].parent = NoParent
    BY <2>1, PathOfChild
  <2>2. CASE t[d].parent # NoParent
    <3>1. /\ t[d].depth = t[t[d].parent].depth + 1
          /\ LengthOf(t, d) = LengthOf(t, t[d].parent) + 1
      BY <2>2, PathOfChild
    <3>2. t[t[d].parent].depth = LengthOf(t, t[d].parent)
      BY <1>1, <2>2
    <3> QED BY <3>1, <3>2
  <2> QED BY <2>1, <2>2
<1>2. S = Rows(t)
  <2> HIDE DEF S
  <2>1. S \in SUBSET Rows(t)
    BY DEF S
  <2> QED BY <1>1, <2>1, FromRoots
<1> QED BY <1>2

\* The path of a category that is on a path is the part of it that ends there.
LEMMA PathOfAncestor ==
  ASSUME NEW t \in Table, Consistent(t), NEW c \in Rows(t), NEW i \in 1 .. LengthOf(t, c)
  PROVE  LET a == PathOf(t, c)[i]
         IN  /\ a \in Rows(t) /\ LengthOf(t, a) = i
             /\ \A j \in 1 .. i : PathOf(t, a)[j] = PathOf(t, c)[j]
<1> DEFINE Prefixed(d, k) ==
             /\ PathOf(t, d)[k] \in Rows(t) /\ LengthOf(t, PathOf(t, d)[k]) = k
             /\ \A j \in 1 .. k : PathOf(t, PathOf(t, d)[k])[j] = PathOf(t, d)[j]
           S == {d \in Rows(t) : \A k \in 1 .. LengthOf(t, d) : Prefixed(d, k)}
<1>1. ASSUME NEW d \in Rows(t), t[d].parent \in S \cup {NoParent}
      PROVE  d \in S
  <2> SUFFICES ASSUME NEW k \in 1 .. LengthOf(t, d)
               PROVE  Prefixed(d, k)
    OBVIOUS
  <2>1. LengthOf(t, d) \in Nat /\ PathOf(t, d)[LengthOf(t, d)] = d
    BY PathOfChild
  <2>2. CASE k = LengthOf(t, d)
    BY <2>1, <2>2
  <2>3. CASE k # LengthOf(t, d)
    <3> DEFINE p == t[d].parent
    <3>1. /\ p # NoParent /\ p \in S /\ p \in Rows(t)
          /\ LengthOf(t, p) \in Nat /\ LengthOf(t, d) = LengthOf(t, p) + 1
          /\ \A j \in 1 .. LengthOf(t, p) : PathOf(t, d)[j] = PathOf(t, p)[j]
      BY <1>1, <2>1, <2>3, PathOfChild
    <3>2. k \in 1 .. LengthOf(t, p) /\ \A j \in 1 .. k : j \in 1 .. LengthOf(t, p)
      BY <2>3, <3>1
    <3>3. Prefixed(p, k)
      BY <3>1, <3>2
    <3> HIDE DEF p
    <3> QED BY <3>1, <3>2, <3>3
  <2> QED BY <2>2, <2>3
<1>2. S = Rows(t)
  <2> HIDE DEF S
  <2>1. S \in SUBSET Rows(t)
    BY DEF S
  <2> QED BY <1>1, <2>1, FromRoots
<1>3. Prefixed(c, i)
  BY <1>2
<1> QED BY <1>3

\* A category stands on a path only once, and above it stands its parent.
LEMMA PathClimbs ==
  ASSUME NEW t \in Table, Consistent(t), NEW c \in Rows(t), NEW i \in 1 .. LengthOf(t, c)
  PROVE  /\ \A j \in 1 .. LengthOf(t, c) : PathOf(t, c)[i] = PathOf(t, c)[j] => i = j
         /\ t[PathOf(t, c)[i]].parent = IF i = 1 THEN NoParent ELSE PathOf(t, c)[i - 1]
<1> DEFINE a == PathOf(t, c)[i]
<1>1. /\ a \in Rows(t) /\ LengthOf(t, a) = i
      /\ \A j \in 1 .. i : PathOf(t, a)[j] = PathOf(t, c)[j]
  BY PathOfAncestor
<1>2. \A j \in 1 .. LengthOf(t, c) : LengthOf(t, PathOf(t, c)[j]) = j
  BY PathOfAncestor
<1>3. CASE t[a].parent = NoParent
  BY <1>1, <1>2, <1>3, PathOfChild
<1>4. CASE t[a].parent # NoParent
  <2> DEFINE p == t[a].parent
  <2>1. /\ p \in Rows(t) /\ LengthOf(t, a) = LengthOf(t, p) + 1
        /\ \A j \in 1 .. LengthOf(t, p) : PathOf(t, a)[j] = PathOf(t, p)[j]
    BY <1>1, <1>4, PathOfChild
  <2>2. LengthOf(t, p) \in Nat \ {0} /\ PathOf(t, p)[LengthOf(t, p)] = p
    BY <2>1, PathOfChild
  <2> HIDE DEF p, a
  <2>3. i # 1 /\ LengthOf(t, p) = i - 1 /\ i - 1 \in 1 .. LengthOf(t, p) /\ i - 1 \in 1 .. i
    BY <1>1, <2>1, <2>2
  <2>4. p = PathOf(t, c)[i - 1]
    BY <1>1, <2>1, <2>2, <2>3
  <2> QED BY <1>2, <2>3, <2>4 DEF p, a
<1> QED BY <1>3, <1>4

\* The categories below a are those with a on their path.
LEMMA SubtreeByPath ==
  ASSUME NEW t \in Table, Consistent(t), NEW a \in Rows(t)
  PROVE  Subtree(t, a) = {c \in Rows(t) : \E i \in 1 .. LengthOf(t, c) : PathOf(t, c)[i] = a}
<1> DEFINE Through == {c \in Rows(t) : \E i \in 1 .. LengthOf(t, c) : PathOf(t, c)[i] = a}
<1>1. a \in Through
  BY PathOfChild
<1>2. ASSUME NEW x \in Through, NEW y \in Children(t, x)
      PROVE  y \in Through
  <2>1. y \in Rows(t) /\ t[y].parent = x /\ x \in Rows(t) /\ x # NoParent
    BY <1>2, ConstantsAssumption DEF Children, Rows
  <2>2. PICK i \in 1 .. LengthOf(t, x) : PathOf(t, x)[i] = a
    BY <1>2
  <2>3. /\ LengthOf(t, x) \in Nat /\ LengthOf(t, y) = LengthOf(t, x) + 1
        /\ PathOf(t, y)[i] = a
    BY <2>1, <2>2, PathOfChild
  <2>4. i \in 1 .. LengthOf(t, y)
    BY <2>3
  <2> QED BY <2>1, <2>3, <2>4
<1>3. Subtree(t, a) \subseteq Through
  <2>1. Through \in SUBSET Rows(t) /\ \A x \in Through : Children(t, x) \subseteq Through
    BY <1>2
  <2> HIDE DEF Through
  <2> QED BY <1>1, <2>1 DEF Subtree
<1>4. Through \subseteq Subtree(t, a)
  <2> DEFINE S == {c \in Rows(t) : c \in Through => c \in Subtree(t, a)}
  <2>1. ASSUME NEW c \in Rows(t), t[c].parent \in S \cup {NoParent}
        PROVE  c \in S
    <3> SUFFICES ASSUME c \in Through, c # a
                 PROVE  c \in Subtree(t, a)
      BY SubtreeHasRoot
    <3>1. PICK i \in 1 .. LengthOf(t, c) : PathOf(t, c)[i] = a
      OBVIOUS
    <3>2. /\ LengthOf(t, c) \in Nat /\ PathOf(t, c)[LengthOf(t, c)] = c
          /\ t[c].parent = NoParent => LengthOf(t, c) = 1
      BY PathOfChild
    <3>3. i # LengthOf(t, c) /\ t[c].parent # NoParent
      BY <3>1, <3>2
    <3>4. /\ t[c].parent \in Rows(t) /\ t[c].parent \in S
          /\ LengthOf(t, c) = LengthOf(t, t[c].parent) + 1
          /\ LengthOf(t, t[c].parent) \in Nat
          /\ \A j \in 1 .. LengthOf(t, t[c].parent) :
               PathOf(t, c)[j] = PathOf(t, t[c].parent)[j]
      BY <2>1, <3>3, PathOfChild
    <3>5. i \in 1 .. LengthOf(t, t[c].parent)
      BY <3>2, <3>3, <3>4
    <3>6. t[c].parent \in Through
      BY <3>1, <3>4, <3>5
    <3>7. t[c].parent \in Subtree(t, a) /\ c \in Children(t, t[c].parent)
      BY <3>4, <3>6 DEF Children
    <3> QED BY <3>7, SubtreeHasChildren
  <2>2. S = Rows(t)
    <3> HIDE DEF S
    <3>1. S \in SUBSET Rows(t)
      BY DEF S
    <3> QED BY <2>1, <3>1, FromRoots
  <2> QED BY <2>2
<1> QED BY <1>3, <1>4

-----------------------------------------------------------------------------
(* Subtrees, branches and inherited attribute sets of a consistent table.  *)

\* The pattern with the id finds what is below a.
LEMMA IdFindsSubtree ==
  ASSUME NEW t \in Table, Consistent(t), NEW a \in Rows(t)
  PROVE  BelowById(t, a) = Subtree(t, a) \ {a}
<1>1. ASSUME NEW c \in Rows(t)
      PROVE  c \in BelowById(t, a) <=> c \in Subtree(t, a) /\ c # a
  <2>1. LengthOf(t, c) \in Nat \ {0} /\ PathOf(t, c)[LengthOf(t, c)] = c
    BY PathOfChild
  <2>2. c \in Subtree(t, a) <=> \E i \in 1 .. LengthOf(t, c) : PathOf(t, c)[i] = a
    BY SubtreeByPath
  <2>3. c \in BelowById(t, a) <=> \E i \in 1 .. LengthOf(t, c) - 1 : PathOf(t, c)[i] = a
    BY DEF BelowById, LengthOf, PathOf
  <2>4. ASSUME NEW i \in 1 .. LengthOf(t, c), PathOf(t, c)[i] = a
        PROVE  c # a <=> i \in 1 .. LengthOf(t, c) - 1
    <3>1. LengthOf(t, c) \in 1 .. LengthOf(t, c)
      BY <2>1
    <3>2. PathOf(t, c)[i] = PathOf(t, c)[LengthOf(t, c)] => i = LengthOf(t, c)
      BY <3>1, PathClimbs
    <3> QED BY <2>1, <2>4, <3>2
  <2>5. \A i \in 1 .. LengthOf(t, c) - 1 : i \in 1 .. LengthOf(t, c)
    BY <2>1
  <2> QED BY <2>2, <2>3, <2>4, <2>5
<1> QED BY <1>1 DEF BelowById, Subtree

\* The pattern with the path finds what is below a.
LEMMA PrefixFindsSubtree ==
  ASSUME NEW t \in Table, Consistent(t), NEW a \in Rows(t)
  PROVE  BelowByPrefix(t, a) = Subtree(t, a) \ {a}
<1> DEFINE n == LengthOf(t, a)
<1>1. n \in Nat \ {0} /\ PathOf(t, a)[n] = a /\ PathOf(t, a) \in Seq(Category)
  BY PathOfChild
<1>2. ASSUME NEW c \in Rows(t)
      PROVE  c \in BelowByPrefix(t, a) <=> c \in BelowById(t, a)
  <2>1. LengthOf(t, c) \in Nat \ {0} /\ PathOf(t, c) \in Seq(Category)
    BY PathOfChild
  <2>2. c \in BelowById(t, a) <=> \E i \in 1 .. LengthOf(t, c) - 1 : PathOf(t, c)[i] = a
    BY DEF BelowById, LengthOf, PathOf
  <2>3. c \in BelowByPrefix(t, a) <=>
          n < LengthOf(t, c) /\ SubSeq(PathOf(t, c), 1, n) = PathOf(t, a)
    BY DEF BelowByPrefix, LengthOf, PathOf
  <2>4. ASSUME n < LengthOf(t, c), SubSeq(PathOf(t, c), 1, n) = PathOf(t, a)
        PROVE  \E i \in 1 .. LengthOf(t, c) - 1 : PathOf(t, c)[i] = a
    <3>1. n \in 1 .. LengthOf(t, c) - 1 /\ n \in 1 .. n
      BY <1>1, <2>1, <2>4
    <3>2. SubSeq(PathOf(t, c), 1, n)[n] = PathOf(t, c)[n]
      BY <2>1, <3>1 DEF LengthOf, PathOf
    <3> QED BY <1>1, <2>4, <3>1, <3>2
  <2>5. ASSUME NEW i \in 1 .. LengthOf(t, c) - 1, PathOf(t, c)[i] = a
        PROVE  n < LengthOf(t, c) /\ SubSeq(PathOf(t, c), 1, n) = PathOf(t, a)
    <3>1. i \in 1 .. LengthOf(t, c) /\ i \in Nat /\ i < LengthOf(t, c)
      BY <2>1
    <3>2. n = i /\ \A j \in 1 .. i : PathOf(t, a)[j] = PathOf(t, c)[j]
      BY <2>5, <3>1, PathOfAncestor
    <3>3. SubSeq(PathOf(t, c), 1, n) = PathOf(t, a)
      BY <1>1, <2>1, <3>1, <3>2 DEF LengthOf, PathOf
    <3> QED BY <3>1, <3>2, <3>3
  <2> QED BY <2>2, <2>3, <2>4, <2>5
<1>3. BelowByPrefix(t, a) = BelowById(t, a)
  BY <1>2 DEF BelowByPrefix, BelowById
<1> QED BY <1>3, IdFindsSubtree

\* The branch of a category is its path.
LEMMA BranchIsPath ==
  ASSUME NEW t \in Table, Consistent(t), NEW c \in Rows(t)
  PROVE  /\ \A i \in 1 .. LengthOf(t, c) : PathOf(t, c)[i] \in Branch(t, c)
         /\ \A d \in Branch(t, c) : \E i \in 1 .. LengthOf(t, c) :
              PathOf(t, c)[i] = d /\ t[d].depth = i
         /\ BranchRoot(t, c) = PathOf(t, c)[1]
<1>1. DOMAIN t[c].path = 1 .. LengthOf(t, c)
  <2>1. t[c].path \in Seq(Category)
    BY PathOfChild DEF PathOf
  <2> QED BY <2>1 DEF LengthOf
<1>2. \A i \in 1 .. LengthOf(t, c) : /\ PathOf(t, c)[i] \in Rows(t)
                                     /\ LengthOf(t, PathOf(t, c)[i]) = i
  BY PathOfAncestor
<1>3. \A d \in Rows(t) : t[d].depth = LengthOf(t, d)
  BY DepthIsLength
<1> QED BY <1>1, <1>2, <1>3 DEF Branch, BranchRoot, PathOf

\* The branch of a category is a chain from a root down to the category.
LEMMA BranchClimbs ==
  ASSUME NEW t \in Table, Consistent(t), NEW c \in Rows(t)
  PROVE  LET branch == Branch(t, c) IN
         /\ {d \in branch : t[d].parent = NoParent} = {BranchRoot(t, c)}
         /\ \A d \in branch : t[d].parent # NoParent =>
              t[d].parent \in branch /\ t[t[d].parent].depth < t[d].depth
         /\ \A d, e \in branch : t[d].depth = t[e].depth => d = e
         /\ \A d \in branch : t[d].depth <= t[c].depth
<1> DEFINE n == LengthOf(t, c)
           path == PathOf(t, c)
<1>1. /\ \A i \in 1 .. n : path[i] \in Branch(t, c)
      /\ \A d \in Branch(t, c) : \E i \in 1 .. n : path[i] = d /\ t[d].depth = i
      /\ BranchRoot(t, c) = path[1]
  BY BranchIsPath
<1>2. n \in Nat \ {0} /\ t[c].depth = n /\ 1 \in 1 .. n
  BY PathOfChild, DepthIsLength
<1>3. \A i \in 1 .. n : t[path[i]].parent = IF i = 1 THEN NoParent ELSE path[i - 1]
  BY PathClimbs
<1>4. \A i \in 1 .. n : path[i] \in Rows(t) /\ path[i] # NoParent /\ t[path[i]].depth = i
  BY PathOfAncestor, DepthIsLength, ConstantsAssumption DEF Rows
<1> HIDE DEF n, path
<1>5. \A i \in 1 .. n : i # 1 => i - 1 \in 1 .. n
  BY <1>2
<1>6. {d \in Branch(t, c) : t[d].parent = NoParent} = {BranchRoot(t, c)}
  BY <1>1, <1>2, <1>3, <1>4, <1>5
<1>7. ASSUME NEW d \in Branch(t, c), t[d].parent # NoParent
      PROVE  t[d].parent \in Branch(t, c) /\ t[t[d].parent].depth < t[d].depth
  <2>1. PICK i \in 1 .. n : path[i] = d /\ t[d].depth = i
    BY <1>1
  <2>2. i # 1 /\ t[d].parent = path[i - 1] /\ i - 1 \in 1 .. n
    BY <1>3, <1>5, <1>7, <2>1
  <2>3. t[path[i - 1]].depth = i - 1 /\ path[i - 1] \in Branch(t, c)
    BY <1>1, <1>4, <2>2
  <2> QED BY <1>2, <2>1, <2>2, <2>3
<1>8. \A d, e \in Branch(t, c) : t[d].depth = t[e].depth => d = e
  BY <1>1
<1>9. \A d \in Branch(t, c) : t[d].depth <= t[c].depth
  BY <1>1, <1>2
<1> QED BY <1>6, <1>7, <1>8, <1>9

\* A set of numbers below a bound has a greatest one.
LEMMA GreatestOfNumbers ==
  ASSUME NEW n \in Nat, NEW T \in SUBSET (1 .. n), T # {}
  PROVE  \E x \in T : \A y \in T : y <= x
<1> DEFINE Gaps == {n - y : y \in T}
<1>1. Gaps \in SUBSET Nat /\ Gaps # {}
  <2>1. \A y \in T : n - y \in Nat
    OBVIOUS
  <2> QED BY <2>1
<1>2. PICK g \in Gaps : \A h \in Gaps : g <= h
  BY <1>1, LeastOfNumbers
<1>3. PICK x \in T : g = n - x
  BY <1>2
<1>4. ASSUME NEW y \in T
      PROVE  y <= x
  <2>1. n - x <= n - y
    BY <1>2, <1>3
  <2> QED BY <2>1
<1> QED BY <1>4

\* One step of get_category_with_id, as InheritedByPath sees it.
LEMMA InheritedStep ==
  ASSUME NEW t \in Table, Consistent(t), NEW With \in SUBSET Rows(t), NEW c \in Rows(t)
  PROVE  InheritedByPath(t[c].path, With) =
           IF c \in With THEN c
           ELSE IF t[c].parent = NoParent THEN NoParent
           ELSE InheritedByPath(t[t[c].parent].path, With)
<1> DEFINE Found(d) == {i \in 1 .. LengthOf(t, d) : PathOf(t, d)[i] \in With}
           last(d) == CHOOSE i \in Found(d) : \A j \in Found(d) : j <= i
<1>1. ASSUME NEW d \in Rows(t)
      PROVE  /\ LengthOf(t, d) \in Nat \ {0} /\ PathOf(t, d)[LengthOf(t, d)] = d
             /\ InheritedByPath(t[d].path, With) =
                  IF Found(d) = {} THEN NoParent ELSE PathOf(t, d)[last(d)]
             /\ Found(d) # {} =>
                  last(d) \in Found(d) /\ \A j \in Found(d) : j <= last(d)
  <2>1. LengthOf(t, d) \in Nat \ {0} /\ PathOf(t, d)[LengthOf(t, d)] = d
    BY PathOfChild
  <2>2. DOMAIN t[d].path = 1 .. LengthOf(t, d)
    <3>1. t[d].path \in Seq(Category)
      BY PathOfChild DEF PathOf
    <3> QED BY <3>1 DEF LengthOf
  <2>3. InheritedByPath(t[d].path, With) =
           IF Found(d) = {} THEN NoParent ELSE PathOf(t, d)[last(d)]
    BY <2>2 DEF InheritedByPath, PathOf
  <2>4. ASSUME Found(d) # {}
        PROVE  last(d) \in Found(d) /\ \A j \in Found(d) : j <= last(d)
    <3>1. Found(d) \in SUBSET (1 .. LengthOf(t, d))
      OBVIOUS
    <3> HIDE DEF Found
    <3>2. \E i \in Found(d) : \A j \in Found(d) : j <= i
      BY <2>1, <2>4, <3>1, GreatestOfNumbers
    <3> QED BY <3>2
  <2> QED BY <2>1, <2>3, <2>4
<1>2. CASE c \in With
  <2>1. LengthOf(t, c) \in Found(c)
    BY <1>1, <1>2
  <2>2. last(c) \in Found(c) /\ LengthOf(t, c) <= last(c)
    BY <1>1, <2>1
  <2> HIDE DEF last
  <2>3. last(c) = LengthOf(t, c)
    BY <1>1, <2>2
  <2> QED BY <1>1, <1>2, <2>1, <2>3
<1>3. CASE c \notin With /\ t[c].parent = NoParent
  <2>1. LengthOf(t, c) = 1
    BY <1>3, PathOfChild
  <2>2. Found(c) = {}
    BY <1>1, <1>3, <2>1
  <2> QED BY <1>1, <1>3, <2>2
<1>4. CASE c \notin With /\ t[c].parent # NoParent
  <2> DEFINE p == t[c].parent
  <2>1. /\ p \in Rows(t) /\ LengthOf(t, c) = LengthOf(t, p) + 1
        /\ \A i \in 1 .. LengthOf(t, p) : PathOf(t, c)[i] = PathOf(t, p)[i]
    BY <1>4, PathOfChild
  <2> HIDE DEF p
  <2>2. Found(c) = Found(p)
    <3>1. ASSUME NEW i \in 1 .. LengthOf(t, c)
          PROVE  IF i = LengthOf(t, c) THEN PathOf(t, c)[i] = c
                 ELSE i \in 1 .. LengthOf(t, p) /\ PathOf(t, c)[i] = PathOf(t, p)[i]
      BY <1>1, <2>1
    <3>2. \A i \in 1 .. LengthOf(t, p) : i \in 1 .. LengthOf(t, c)
      BY <1>1, <2>1
    <3> QED BY <1>4, <2>1, <3>1, <3>2
  <2>3. last(c) = last(p)
    BY <2>2
  <2>4. Found(p) # {} => last(p) \in 1 .. LengthOf(t, p)
    BY <1>1, <2>1
  <2> HIDE DEF Found, last
  <2>5. InheritedByPath(t[c].path, With) = InheritedByPath(t[p].path, With)
    BY <1>1, <2>1, <2>2, <2>3, <2>4
  <2> QED BY <1>4, <2>5 DEF p
<1> QED BY <1>2, <1>3, <1>4

\* g is what the recursion of get_category_with_id computes.
Inherits(t, With, g) ==
  g = [c \in Rows(t) |-> IF c \in With THEN c
                          ELSE IF t[c].parent = NoParent THEN NoParent
                          ELSE g[t[c].parent]]

\* The recursion has one result: it ends at a root.
LEMMA InheritedOnce ==
  ASSUME NEW t \in Table, Consistent(t), NEW With \in SUBSET Rows(t),
         NEW g, Inherits(t, With, g), NEW h, Inherits(t, With, h)
  PROVE  \A c \in Rows(t) : g[c] = h[c]
<1> DEFINE S == {c \in Rows(t) : g[c] = h[c]}
           Step(f, c) == f[c] = IF c \in With THEN c
                                ELSE IF t[c].parent = NoParent THEN NoParent
                                ELSE f[t[c].parent]
<1>1. \A c \in Rows(t) : Step(g, c)
  <2> DEFINE f == [c \in Rows(t) |-> IF c \in With THEN c
                          ELSE IF t[c].parent = NoParent THEN NoParent
                          ELSE g[t[c].parent]]
  <2>1. \A c \in Rows(t) : f[c] = IF c \in With THEN c
                                ELSE IF t[c].parent = NoParent THEN NoParent
                                ELSE g[t[c].parent]
    OBVIOUS
  <2>2. g = f
    BY DEF Inherits
  <2> HIDE DEF f
  <2> QED BY <2>1, <2>2
<1>2. \A c \in Rows(t) : Step(h, c)
  <2> DEFINE f == [c \in Rows(t) |-> IF c \in With THEN c
                          ELSE IF t[c].parent = NoParent THEN NoParent
                          ELSE h[t[c].parent]]
  <2>1. \A c \in Rows(t) : f[c] = IF c \in With THEN c
                                ELSE IF t[c].parent = NoParent THEN NoParent
                                ELSE h[t[c].parent]
    OBVIOUS
  <2>2. h = f
    BY DEF Inherits
  <2> HIDE DEF f
  <2> QED BY <2>1, <2>2
<1>3. ASSUME NEW c \in Rows(t), t[c].parent \in S \cup {NoParent}
      PROVE  c \in S
  BY <1>1, <1>2, <1>3
<1>4. S = Rows(t)
  <2> HIDE DEF S
  <2>1. S \in SUBSET Rows(t)
    BY DEF S
  <2> QED BY <1>3, <2>1, FromRoots
<1> QED BY <1>4

\* By its path a category inherits what it inherits by its parents.
LEMMA InheritedBothWays ==
  ASSUME NEW t \in Table, Consistent(t), NEW With \in SUBSET Rows(t), NEW c \in Rows(t)
  PROVE  InheritedByPath(t[c].path, With) = InheritedByParent(t, With)[c]
<1> DEFINE byPath == [d \in Rows(t) |-> InheritedByPath(t[d].path, With)]
<1>1. Inherits(t, With, byPath)
  <2>1. ASSUME NEW d \in Rows(t)
        PROVE  byPath[d] = IF d \in With THEN d
                           ELSE IF t[d].parent = NoParent THEN NoParent
                           ELSE byPath[t[d].parent]
    <3>1. t[d].parent # NoParent => t[d].parent \in Rows(t)
      BY PathOfChild
    <3> QED BY <3>1, InheritedStep
  <2>2. byPath = [d \in Rows(t) |-> byPath[d]]
    OBVIOUS
  <2> HIDE DEF byPath
  <2> QED BY <2>1, <2>2 DEF Inherits
<1>2. InheritedByParent(t, With) = CHOOSE g : Inherits(t, With, g)
  BY DEF InheritedByParent, Inherits
<1> HIDE DEF byPath
<1>3. Inherits(t, With, InheritedByParent(t, With))
  BY <1>1, <1>2
<1>4. byPath[c] = InheritedByParent(t, With)[c]
  BY <1>1, <1>3, InheritedOnce
<1> QED BY <1>4 DEF byPath

-----------------------------------------------------------------------------
(* The readers.                                                            *)

\* For every tree, however deep, and any number of sessions: as long as no
\* commit has disturbed what another request had read, both path patterns
\* find exactly the subtrees, the categories of a product detail are a chain
\* from a root, and attribute sets are inherited alike by path and by parent.
THEOREM ReadersFindTheTree == Spec => []ReadersAgree
<1>1. IInv => ReadersAgree
  <2> SUFFICES ASSUME IInv, ~stale
               PROVE  ReadersAgree
    BY DEF ReadersAgree, PathFindsSubtree, BranchIsChain, InheritanceAgrees
  <2>1. table \in Table /\ Consistent(table)
    BY DEF IInv, TypeOK, TreeConsistent
  <2>2. PathFindsSubtree
    BY <2>1, IdFindsSubtree, PrefixFindsSubtree DEF PathFindsSubtree
  <2>3. BranchIsChain
    BY <2>1, BranchClimbs DEF BranchIsChain
  <2>4. InheritanceAgrees
    BY <2>1, InheritedBothWays DEF InheritanceAgrees
  <2> QED BY <2>2, <2>3, <2>4 DEF ReadersAgree
<1> QED BY <1>1, InitInv, NextInv, PTL DEF Spec


-----------------------------------------------------------------------------
(* The recursion of move_node_to_new_parent.                               *)

Simple(path) == \A i, j \in DOMAIN path : path[i] = path[j] => i = j

OnPath(t, c, d) == \E i \in 1 .. LengthOf(t, c) : PathOf(t, c)[i] = d

\* The path of c goes up the parents as they are in t.
Climbs(t, c) ==
  /\ LengthOf(t, c) # 0 /\ PathOf(t, c)[LengthOf(t, c)] = c
  /\ \A i \in 1 .. LengthOf(t, c) :
       /\ PathOf(t, c)[i] \in Rows(t)
       /\ t[PathOf(t, c)[i]].parent = IF i = 1 THEN NoParent ELSE PathOf(t, c)[i - 1]

\* A pending call finds a parent whose path is right by the parents there are
\* at that moment, and not below the node that is to be moved.
CallClimbs(s, call) ==
  call[2] # NoParent =>
    /\ call[2] \in Rows(work[s]) /\ Climbs(work[s], call[2])
    /\ ~OnPath(work[s], call[2], call[1])

\* Which of the top-level moves are still to come.
Phase(s) ==
  \/ moves[s] = <<>>
  \/ /\ moves[s] = MoveCalls(snap[s], job[s].node, job[s].target)
     /\ work[s] = snap[s] /\ todo[s] = {}
  \/ /\ moves[s] = << <<job[s].node, job[s].target>> >>
     /\ job[s].kind = "swap"

SessionSimple(s) ==
  /\ \A c \in Rows(work[s]) : Simple(PathOf(work[s], c))
  /\ stage[s] = "running" /\ job[s].kind # "create" =>
       (\A call \in todo[s] : CallClimbs(s, call)) /\ Phase(s)

SimpleInv == \A s \in Session : SessionSimple(s)

\* In a consistent table every path climbs, and is simple.
LEMMA ConsistentClimbs ==
  ASSUME NEW t \in Table, Consistent(t), NEW c \in Rows(t)
  PROVE  Climbs(t, c) /\ Simple(PathOf(t, c))
<1>1. /\ PathOf(t, c) \in Seq(Category) /\ PathOf(t, c)[LengthOf(t, c)] = c
      /\ LengthOf(t, c) # 0
  BY PathOfChild
<1>2. DOMAIN PathOf(t, c) = 1 .. LengthOf(t, c)
  BY <1>1 DEF LengthOf, PathOf
<1>3. \A i \in 1 .. LengthOf(t, c) :
        /\ PathOf(t, c)[i] \in Rows(t)
        /\ t[PathOf(t, c)[i]].parent = IF i = 1 THEN NoParent ELSE PathOf(t, c)[i - 1]
        /\ \A j \in 1 .. LengthOf(t, c) : PathOf(t, c)[i] = PathOf(t, c)[j] => i = j
  BY PathOfAncestor, PathClimbs
<1> QED BY <1>1, <1>2, <1>3 DEF Climbs, Simple

\* Below the node of a path that is right is nothing of that path.
LEMMA ChildNotOnPath ==
  ASSUME NEW t \in Table, NEW c \in Rows(t), Climbs(t, c), Simple(PathOf(t, c)),
         NEW d, t[d].parent = c
  PROVE  ~OnPath(t, c, d)
<1> SUFFICES ASSUME NEW i \in 1 .. LengthOf(t, c), PathOf(t, c)[i] = d
             PROVE  FALSE
  BY DEF OnPath
<1>1. PathOf(t, c) \in Seq(Category) /\ LengthOf(t, c) \in Nat
      /\ DOMAIN PathOf(t, c) = 1 .. LengthOf(t, c)
  BY RowsAreRecords DEF Row, PathOf, LengthOf
<1>2. c # NoParent
  BY ConstantsAssumption DEF Rows
<1>3. i # 1 /\ PathOf(t, c)[i - 1] = PathOf(t, c)[LengthOf(t, c)]
  BY <1>2 DEF Climbs
<1>4. i - 1 \in 1 .. LengthOf(t, c) /\ LengthOf(t, c) \in 1 .. LengthOf(t, c)
  BY <1>1, <1>3
<1>5. i - 1 = LengthOf(t, c)
  BY <1>1, <1>3, <1>4 DEF Simple
<1> QED BY <1>1, <1>5

\* A path with one more id that was not on it.
LEMMA SimpleLonger ==
  ASSUME NEW n \in Nat, NEW path, NEW longer, Simple(path),
         DOMAIN path = 1 .. n, DOMAIN longer = 1 .. (n + 1),
         \A i \in 1 .. n : longer[i] = path[i] /\ path[i] # longer[n + 1]
  PROVE  Simple(longer)
<1> SUFFICES ASSUME NEW i \in 1 .. (n + 1), NEW j \in 1 .. (n + 1), longer[i] = longer[j]
             PROVE  i = j
  BY DEF Simple
<1>1. /\ i = n + 1 \/ i \in 1 .. n
      /\ j = n + 1 \/ j \in 1 .. n
  OBVIOUS
<1>2. CASE i \in 1 .. n /\ j \in 1 .. n
  BY <1>2 DEF Simple
<1> QED BY <1>1, <1>2

\* One call of move_node_to_new_parent: u is t after <<c, p>>.
LEMMA PlacedClimbs ==
  ASSUME NEW t \in Table, NEW c \in Category, NEW p \in Rows(t) \cup {NoParent},
         NEW u \in Table, u[c] = Placed(t, c, p), \A d \in Category : d # c => u[d] = t[d],
         p # NoParent => Climbs(t, p) /\ Simple(PathOf(t, p)) /\ ~OnPath(t, p, c)
  PROVE  /\ Simple(PathOf(u, c)) /\ Climbs(u, c) /\ u[c].parent = p
         /\ Rows(u) = Rows(t) \cup {c}
<1>1. t \in Table /\ Rows(t) \subseteq Category
  BY DEF Rows
<1>2. u[c] = Placed(t, c, p) /\ \A d \in Category : d # c => u[d] = t[d]
  OBVIOUS
<1>3. u[c].parent = p /\ u[c] # NoRow /\ Rows(u) = Rows(t) \cup {c}
  <2>1. Placed(t, c, p).parent = p /\ Placed(t, c, p) # NoRow
    BY PlacedIsRow
  <2> QED BY <1>2, <2>1 DEF Rows
<1>4. CASE p = NoParent
  <2>1. PathOf(u, c) = <<c>> /\ LengthOf(u, c) = 1
    BY <1>2, <1>4 DEF Placed, PathOf, LengthOf
  <2>2. Simple(PathOf(u, c))
    BY <2>1 DEF Simple
  <2>3. \A i \in 1 .. 1 : i = 1
    OBVIOUS
  <2>4. PathOf(u, c)[1] = c /\ c \in Rows(u)
    <3>1. c \in Rows(u)
      BY <1>3
    <3> QED BY <2>1, <3>1
  <2>5. Climbs(u, c)
    <3>1. \A i \in 1 .. LengthOf(u, c) :
            /\ PathOf(u, c)[i] \in Rows(u)
            /\ u[PathOf(u, c)[i]].parent = IF i = 1 THEN NoParent ELSE PathOf(u, c)[i - 1]
      BY <1>3, <1>4, <2>1, <2>3, <2>4
    <3>2. LengthOf(u, c) # 0 /\ PathOf(u, c)[LengthOf(u, c)] = c
      BY <2>1, <2>4
    <3> QED BY <3>1, <3>2 DEF Climbs
  <2> QED BY <1>3, <2>2, <2>5
<1>5. CASE p # NoParent
  <2> DEFINE n == LengthOf(t, p)
  <2>1. p \in Rows(t) /\ PathOf(t, p) \in Seq(Category) /\ n \in Nat
    BY <1>5, RowsAreRecords DEF Row, PathOf, LengthOf
  <2>2. PathOf(u, c) = Append(PathOf(t, p), c)
    BY <1>2, <1>5 DEF Placed, PathOf
  <2>3. /\ LengthOf(u, c) = n + 1 /\ PathOf(u, c)[n + 1] = c
        /\ \A i \in 1 .. n : PathOf(u, c)[i] = PathOf(t, p)[i]
        /\ DOMAIN PathOf(u, c) = 1 .. (n + 1) /\ DOMAIN PathOf(t, p) = 1 .. n
    BY <1>1, <2>1, <2>2 DEF PathOf, LengthOf
  <2> HIDE DEF n
  <2>4. \A i \in 1 .. (n + 1) : i = n + 1 \/ i \in 1 .. n
    BY <2>1
  <2>5. \A i \in 1 .. n : PathOf(t, p)[i] # c
    BY <1>5 DEF OnPath, n
  <2>6. Simple(PathOf(u, c))
    <3>1. \A i \in 1 .. n : /\ PathOf(u, c)[i] = PathOf(t, p)[i]
                            /\ PathOf(t, p)[i] # PathOf(u, c)[n + 1]
      BY <2>3, <2>5
    <3>2. Simple(PathOf(t, p)) /\ n \in Nat
      BY <1>5, <2>1
    <3>3. DOMAIN PathOf(u, c) = 1 .. (n + 1) /\ DOMAIN PathOf(t, p) = 1 .. n
      BY <2>3
    <3> QED BY <3>1, <3>2, <3>3, SimpleLonger
  <2>7. ASSUME NEW i \in 1 .. (n + 1)
        PROVE  /\ PathOf(u, c)[i] \in Rows(u)
               /\ u[PathOf(u, c)[i]].parent = IF i = 1 THEN NoParent ELSE PathOf(u, c)[i - 1]
    <3>1. CASE i = n + 1
      <4>1. n # 0 /\ PathOf(t, p)[n] = p
        BY <1>5 DEF Climbs, n
      <4>2. n \in 1 .. n /\ i # 1 /\ i - 1 = n
        BY <2>1, <3>1, <4>1
      <4> QED BY <1>3, <2>1, <2>3, <3>1, <4>1, <4>2
    <3>2. CASE i \in 1 .. n
      <4>1. /\ PathOf(t, p)[i] \in Rows(t) /\ PathOf(t, p)[i] # c
            /\ t[PathOf(t, p)[i]].parent = IF i = 1 THEN NoParent ELSE PathOf(t, p)[i - 1]
        BY <1>5, <2>5, <3>2 DEF Climbs, n
      <4>2. i # 1 => i - 1 \in 1 .. n
        BY <2>1, <3>2
      <4> QED BY <1>1, <1>2, <1>3, <2>3, <3>2, <4>1, <4>2
    <3> QED BY <2>4, <3>1, <3>2
  <2>8. Climbs(u, c)
    <3>1. \A i \in 1 .. LengthOf(u, c) :
            /\ PathOf(u, c)[i] \in Rows(u)
            /\ u[PathOf(u, c)[i]].parent = IF i = 1 THEN NoParent ELSE PathOf(u, c)[i - 1]
      BY <2>3, <2>7
    <3>2. LengthOf(u, c) # 0 /\ PathOf(u, c)[LengthOf(u, c)] = c
      BY <2>1, <2>3
    <3> QED BY <3>1, <3>2 DEF Climbs
  <2> QED BY <1>3, <2>6, <2>8
<1> QED BY <1>4, <1>5

\* Of two categories only one is below the other.
LEMMA SubtreesOneWay ==
  ASSUME NEW t \in Table, Consistent(t), NEW a \in Rows(t), NEW b \in Rows(t),
         a \in Subtree(t, b), b \in Subtree(t, a)
  PROVE  a = b
<1>1. PICK i \in 1 .. LengthOf(t, a) : PathOf(t, a)[i] = b
  BY SubtreeByPath
<1>2. PICK j \in 1 .. LengthOf(t, b) : PathOf(t, b)[j] = a
  BY SubtreeByPath
<1>3. LengthOf(t, b) = i /\ LengthOf(t, a) = j
  BY <1>1, <1>2, PathOfAncestor
<1>4. LengthOf(t, a) \in Nat /\ PathOf(t, a)[LengthOf(t, a)] = a
  BY PathOfChild
<1>5. i = LengthOf(t, a)
  BY <1>3, <1>4
<1> QED BY <1>1, <1>4, <1>5

-----------------------------------------------------------------------------
(* SimpleInv is inductive.                                                 *)

LEMMA SimpleKept ==
  ASSUME NEW s \in Session, SessionSimple(s), stage'[s] = "running" => stage[s] = "running",
         job'[s] = job[s], snap'[s] = snap[s], work'[s] = work[s],
         moves'[s] = moves[s], todo'[s] = todo[s]
  PROVE  SessionSimple(s)'
<1>1. Phase(s)' <=> Phase(s)
  BY DEF Phase
<1>2. \A call : CallClimbs(s, call)' <=> CallClimbs(s, call)
  BY DEF CallClimbs
<1> QED BY <1>1, <1>2 DEF SessionSimple

LEMMA BeginCreateSimple ==
  ASSUME IInv, IInv', ~stale, SimpleInv, NEW s \in Session, NEW c \in Category,
         NEW p \in Category \cup {NoParent}, BeginCreate(s, c, p)
  PROVE  SimpleInv'
<1>1. /\ table \in Table /\ Consistent(table) /\ c \notin Rows(table)
      /\ p \in Rows(table) \cup {NoParent} /\ job'[s].kind = "create"
      /\ work'[s] = [table EXCEPT ![c] = Placed(table, c, p)] /\ work'[s] \in Table
  BY DEF IInv, TypeOK, TreeConsistent, IdsFresh, BeginCreate, Begin
<1>2. p # NoParent => Climbs(table, p) /\ Simple(PathOf(table, p)) /\ ~OnPath(table, p, c)
  <2> SUFFICES ASSUME p # NoParent
               PROVE  Climbs(table, p) /\ Simple(PathOf(table, p)) /\ ~OnPath(table, p, c)
    OBVIOUS
  <2>1. Climbs(table, p) /\ Simple(PathOf(table, p))
    BY <1>1, ConsistentClimbs
  <2> QED BY <1>1, <2>1 DEF Climbs, OnPath
<1>3. ASSUME NEW u \in Table, u[c] = Placed(table, c, p),
             \A d \in Category : d # c => u[d] = table[d]
      PROVE  Simple(PathOf(u, c)) /\ Rows(u) = Rows(table) \cup {c}
  BY <1>1, <1>2, <1>3, PlacedClimbs
<1>4. ASSUME NEW d \in Rows(work'[s])
      PROVE  Simple(PathOf(work'[s], d))
  <2>1. /\ work'[s][c] = Placed(table, c, p)
        /\ \A e \in Category : e # c => work'[s][e] = table[e]
    BY <1>1 DEF Table
  <2>2. Simple(PathOf(work'[s], c)) /\ Rows(work'[s]) = Rows(table) \cup {c}
    BY <1>1, <1>3, <2>1
  <2>3. CASE d # c
    <3>1. d \in Rows(table) /\ d \in Category
      BY <2>2, <2>3 DEF Rows
    <3>2. PathOf(work'[s], d) = PathOf(table, d)
      BY <2>1, <2>3, <3>1 DEF PathOf
    <3> QED BY <1>1, <3>1, <3>2, ConsistentClimbs
  <2> QED BY <2>2, <2>3
<1>5. SessionSimple(s)'
  BY <1>1, <1>4 DEF SessionSimple, PathOf
<1>6. ASSUME NEW r \in Session, r # s
      PROVE  SessionSimple(r)'
  BY <1>6, SimpleKept DEF SimpleInv, IInv, TypeOK, BeginCreate, Begin
<1> QED BY <1>5, <1>6 DEF SimpleInv

LEMMA BeginUpdateSimple ==
  ASSUME IInv, ~stale, SimpleInv, NEW s \in Session, NEW c \in Category,
         NEW p \in Category \cup {NoParent}, BeginUpdate(s, c, p)
  PROVE  SimpleInv'
<1>1. /\ table \in Table /\ Consistent(table) /\ stage[s] = "idle"
      /\ job'[s].node = c /\ job'[s].target = p
      /\ snap'[s] = table /\ work'[s] = table /\ todo'[s] = todo[s]
      /\ moves'[s] = MoveCalls(table, c, p)
  BY DEF IInv, TypeOK, TreeConsistent, BeginUpdate, Begin
<1>2. todo'[s] = {}
  BY <1>1 DEF IInv, SessionOK
<1>3. Phase(s)'
  BY <1>1, <1>2 DEF Phase
<1>4. SessionSimple(s)'
  BY <1>1, <1>2, <1>3, ConsistentClimbs DEF SessionSimple
<1>5. ASSUME NEW r \in Session, r # s
      PROVE  SessionSimple(r)'
  BY <1>5, SimpleKept DEF SimpleInv, IInv, TypeOK, BeginUpdate, Begin
<1> QED BY <1>4, <1>5 DEF SimpleInv

\* The first of the top-level calls of a request.
LEMMA FirstCallClimbs ==
  ASSUME NEW t \in Table, Consistent(t), NEW c \in Rows(t), NEW p \in Rows(t) \cup {NoParent},
         p # c, NEW call, call = Head(MoveCalls(t, c, p)), call[2] # NoParent
  PROVE  call[2] \in Rows(t) /\ Climbs(t, call[2]) /\ ~OnPath(t, call[2], call[1])
<1>1. CASE p \notin Subtree(t, c)
  <2>1. call = <<c, p>> /\ p \in Rows(t)
    BY <1>1 DEF MoveCalls, IsChild
  <2>2. ~OnPath(t, p, c)
    BY <1>1, <2>1, SubtreeByPath DEF OnPath
  <2> QED BY <2>1, <2>2, ConsistentClimbs
<1>2. CASE p \in Subtree(t, c)
  <2> DEFINE o == t[c].parent
  <2>1. call = <<p, o>> /\ o # NoParent /\ p \in Rows(t)
    BY <1>2 DEF MoveCalls, IsChild, Subtree
  <2>2. o \in Rows(t) /\ c \in Children(t, o)
    BY <2>1 DEF Consistent, FitsParent, Children
  <2>3. ~OnPath(t, o, p)
    <3> SUFFICES ASSUME OnPath(t, o, p)
                 PROVE  FALSE
      OBVIOUS
    <3>1. o \in Subtree(t, p)
      BY <2>1, <2>2, SubtreeByPath DEF OnPath
    <3>2. c \in Subtree(t, p)
      BY <2>2, <3>1, SubtreeHasChildren
    <3> QED BY <1>2, <2>1, <3>2, SubtreesOneWay
  <2> QED BY <2>1, <2>2, <2>3, ConsistentClimbs
<1> QED BY <1>1, <1>2

\* The second one, when p has taken the place of c: nothing of the path of p
\* has to do with c any more.
LEMMA SecondCallClimbs ==
  ASSUME NEW t \in Table, Consistent(t), NEW c \in Rows(t), NEW p \in Rows(t), p # c,
         NEW u \in Table, Consistent(u), p \in Rows(u), u[p].parent = t[c].parent,
         \A d \in Rows(t) \ Subtree(t, c) : u[d] = t[d]
  PROVE  ~OnPath(u, p, c)
<1> DEFINE o == t[c].parent
<1> SUFFICES ASSUME NEW i \in 1 .. LengthOf(u, p), PathOf(u, p)[i] = c
             PROVE  FALSE
  BY DEF OnPath
<1>1. u[p] = Placed(u, p, o)
  BY DEF Consistent, FitsParent
<1>2. CASE o = NoParent
  <2>1. PathOf(u, p) = <<p>> /\ LengthOf(u, p) = 1
    BY <1>1, <1>2 DEF Placed, PathOf, LengthOf
  <2> QED BY <2>1
<1>3. CASE o # NoParent
  <2>1. o \in Rows(t)
    BY <1>3 DEF Consistent, FitsParent
  <2>2. ~OnPath(t, o, c)
    BY <2>1, ConsistentClimbs, ChildNotOnPath
  <2>3. u[o] = t[o]
    BY <2>1, <2>2, SubtreeByPath DEF OnPath
  <2>4. /\ PathOf(u, p) = Append(PathOf(t, o), p)
        /\ PathOf(t, o) \in Seq(Category) /\ LengthOf(t, o) \in Nat
    <3>1. PathOf(u, p) = Append(PathOf(t, o), p)
      BY <1>1, <1>3, <2>3 DEF Placed, PathOf
    <3> QED BY <2>1, <3>1, PathOfChild
  <2>5. p \in Category /\ LengthOf(t, o) = Len(PathOf(t, o)) /\ LengthOf(u, p) = Len(PathOf(u, p))
    BY RowsAreRecords DEF LengthOf, PathOf
  <2>6. i \in 1 .. LengthOf(t, o) \/ i = LengthOf(t, o) + 1
    BY <2>4, <2>5
  <2>7. CASE i \in 1 .. LengthOf(t, o)
    <3>1. PathOf(t, o)[i] = c
      BY <2>4, <2>5, <2>7
    <3> QED BY <2>2, <2>7, <3>1 DEF OnPath
  <2>8. CASE i = LengthOf(t, o) + 1
    <3>1. PathOf(u, p)[i] = p
      BY <2>4, <2>5, <2>8
    <3> QED BY <3>1
  <2> QED BY <2>6, <2>7, <2>8
<1> QED BY <1>2, <1>3

LEMMA NextMoveSimple ==
  ASSUME IInv, MovesInv, SimpleInv, NEW s \in Session, NextMove(s)
  PROVE  SimpleInv'
<1> DEFINE c == job[s].node
           p == job[s].target
<1>1. /\ stage[s] = "running" /\ todo[s] = {} /\ moves[s] # <<>>
      /\ UNCHANGED <<stage, job, snap, work>>
      /\ todo'[s] = {Head(moves[s])} /\ moves'[s] = Tail(moves[s])
      /\ work[s] \in Table /\ snap[s] \in Table
  BY DEF NextMove, IInv, TypeOK
<1>2. job[s].kind # "create" /\ Moving(s) /\ MovingAsDrawn(s) /\ Consistent(snap[s])
  <2>1. Moving(s) /\ Consistent(snap[s])
    BY <1>1 DEF IInv, SessionOK, Creating
  <2> QED BY <1>1, <2>1 DEF MovesInv, RequestOK, Moving
<1>3. Consistent(work[s])
  BY <1>1, <1>2 DEF Moving, Consistent
<1>4. /\ c \in Rows(snap[s]) /\ p \in Rows(snap[s]) \cup {NoParent} /\ p # c
      /\ job[s].kind = "swap" <=> p \in Subtree(snap[s], c)
      /\ Rows(work[s]) = Rows(snap[s])
  BY <1>2 DEF Moving, MovingAsDrawn, Moved
<1>5. \A d \in Rows(work[s]) : Simple(PathOf(work[s], d))
  BY DEF SimpleInv, SessionSimple
<1>6. /\ CallClimbs(s, Head(moves[s]))
      /\ \/ moves'[s] = <<>>
         \/ moves'[s] = << <<c, p>> >> /\ job[s].kind = "swap"
  <2>1. CASE moves[s] = MoveCalls(snap[s], c, p) /\ work[s] = snap[s]
    <3>1. CallClimbs(s, Head(moves[s]))
      BY <1>2, <1>4, <2>1, FirstCallClimbs, <1>1 DEF CallClimbs
    <3>2. CASE p \in Subtree(snap[s], c)
      <4>1. moves[s] = << <<p, snap[s][c].parent>>, <<c, p>> >>
        BY <2>1, <3>2 DEF MoveCalls, IsChild
      <4> QED BY <1>1, <1>4, <3>1, <3>2, <4>1
    <3>3. CASE p \notin Subtree(snap[s], c)
      <4>1. moves[s] = << <<c, p>> >>
        BY <2>1, <3>3 DEF MoveCalls, IsChild
      <4>2. moves'[s] = <<>>
        BY <1>1, <4>1
      <4> QED BY <3>1, <4>2
    <3> QED BY <3>2, <3>3
  <2>2. CASE moves[s] = << <<c, p>> >> /\ job[s].kind = "swap"
    <3>1. Head(moves[s]) = <<c, p>> /\ moves'[s] = <<>>
      BY <1>1, <2>2
    <3>2. p \in Rows(snap[s]) /\ p # NoParent
      BY <1>4, <2>2, ConstantsAssumption DEF Subtree, Rows
    <3>3. work[s][p].parent = snap[s][c].parent
      <4>1. Drawn(s, p) = snap[s][c].parent
        BY <1>4, <2>2 DEF Drawn
      <4>2. ~Due(s, p)
        <5>1. \A i \in 1 .. Len(moves[s]) : moves[s][i] = <<c, p>>
          BY <2>2
        <5> QED BY <1>1, <1>4, <5>1 DEF Due
      <4> QED BY <1>2, <3>2, <4>1, <4>2 DEF MovingAsDrawn
    <3>4. \A d \in Rows(snap[s]) \ Subtree(snap[s], c) : work[s][d] = snap[s][d]
      BY <1>2 DEF Moving, Moved, Rows
    <3>5. ~OnPath(work[s], p, c)
      BY <1>1, <1>2, <1>3, <1>4, <3>2, <3>3, <3>4, SecondCallClimbs
    <3>6. Climbs(work[s], p)
      BY <1>1, <1>3, <1>4, <3>2, ConsistentClimbs
    <3>7. CallClimbs(s, <<c, p>>)
      BY <1>4, <3>2, <3>5, <3>6 DEF CallClimbs
    <3> QED BY <3>1, <3>7
  <2> QED BY <1>1, <1>2, <2>1, <2>2 DEF SimpleInv, SessionSimple, Phase
<1>7. SessionSimple(s)'
  <2>1. \A call \in todo'[s] : CallClimbs(s, call)'
    BY <1>1, <1>6 DEF CallClimbs
  <2>2. Phase(s)'
    BY <1>1, <1>6 DEF Phase
  <2> QED BY <1>1, <1>5, <2>1, <2>2 DEF SessionSimple
<1>8. ASSUME NEW r \in Session, r # s
      PROVE  SessionSimple(r)'
  BY <1>8, SimpleKept DEF SimpleInv, IInv, TypeOK, NextMove
<1> QED BY <1>7, <1>8 DEF SimpleInv

\* A path that has not changed, over parents that have not changed.
LEMMA ClimbsKept ==
  ASSUME NEW t \in Table, NEW u \in Table, Rows(u) = Rows(t), NEW x \in Rows(t),
         PathOf(u, x) = PathOf(t, x), \A d \in Rows(t) : u[d].parent = t[d].parent, Climbs(t, x)
  PROVE  Climbs(u, x) /\ \A d : OnPath(u, x, d) <=> OnPath(t, x, d)
<1>1. LengthOf(u, x) = LengthOf(t, x)
  BY DEF LengthOf, PathOf
<1> QED BY <1>1 DEF Climbs, OnPath

LEMMA MoveNodeSimple ==
  ASSUME IInv, IInv', MovesInv, SimpleInv, NEW s \in Session, NEW c \in Category,
         NEW p \in Category \cup {NoParent}, MoveNode(s, c, p)
  PROVE  SimpleInv'
<1> DEFINE t == work[s]
           u == work'[s]
<1>1. /\ stage[s] = "running" /\ <<c, p>> \in todo[s]
      /\ UNCHANGED <<stage, job, snap, moves>>
      /\ todo'[s] = (todo[s] \ {<<c, p>>}) \cup (Children(u, c) \X {c})
  BY DEF MoveNode, IInv, TypeOK
<1>2. /\ t \in Table /\ u \in Table
      /\ u[c] = Placed(t, c, p) /\ \A d \in Category : d # c => u[d] = t[d]
  BY DEF MoveNode, IInv, TypeOK, Table
<1>3. job[s].kind # "create" /\ Moving(s) /\ MovingAsDrawn(s)
  <2>1. Moving(s)
    BY <1>1 DEF IInv, SessionOK, Creating
  <2> QED BY <1>1, <2>1 DEF MovesInv, RequestOK, Moving
<1>4. c \in Rows(t) /\ p \in Rows(t) \cup {NoParent}
  BY <1>1, <1>3 DEF Moving, CallOK, Moved, Subtree
<1>5. /\ \A d \in Rows(t) : Simple(PathOf(t, d))
      /\ \A call \in todo[s] : CallClimbs(s, call)
      /\ Phase(s)
  BY <1>1, <1>3 DEF SimpleInv, SessionSimple
<1>6. p # NoParent => Climbs(t, p) /\ Simple(PathOf(t, p)) /\ ~OnPath(t, p, c)
  <2>1. CallClimbs(s, <<c, p>>)
    BY <1>1, <1>5
  <2> QED BY <1>5, <2>1 DEF CallClimbs
<1>7. /\ \A call \in todo[s] :
           \/ call[2] = t[call[1]].parent
           \/ todo[s] = {call}
      /\ \A call \in todo[s] : call[1] \in Category /\ call = <<call[1], call[2]>>
  BY <1>3 DEF MovingAsDrawn, IInv, TypeOK
<1> HIDE DEF t, u
<1>8. /\ Simple(PathOf(u, c)) /\ Climbs(u, c) /\ u[c].parent = p /\ Rows(u) = Rows(t)
  <2>1. ASSUME NEW v \in Table, v[c] = Placed(t, c, p), \A d \in Category : d # c => v[d] = t[d]
        PROVE  Simple(PathOf(v, c)) /\ Climbs(v, c) /\ v[c].parent = p /\ Rows(v) = Rows(t) \cup {c}
    BY <1>2, <1>4, <1>6, <2>1, PlacedClimbs
  <2>2. Rows(t) \cup {c} = Rows(t)
    BY <1>4
  <2> QED BY <1>2, <2>1, <2>2
<1>9. \A d \in Rows(u) : Simple(PathOf(u, d))
  <2> SUFFICES ASSUME NEW d \in Rows(u), d # c
               PROVE  Simple(PathOf(u, d))
    BY <1>8
  <2>1. d \in Rows(t) /\ d \in Category
    BY <1>8 DEF Rows
  <2>2. PathOf(u, d) = PathOf(t, d)
    BY <1>2, <2>1 DEF PathOf
  <2> QED BY <1>5, <2>1, <2>2
<1>10. ASSUME NEW call \in todo'[s], call[2] # NoParent
       PROVE  call[2] \in Rows(u) /\ Climbs(u, call[2]) /\ ~OnPath(u, call[2], call[1])
  <2>1. CASE call \in Children(u, c) \X {c}
    <3>1. u[call[1]].parent = c /\ call[2] = c
      BY <2>1 DEF Children
    <3> QED BY <1>2, <1>4, <1>8, <3>1, ChildNotOnPath
  <2>2. CASE call \in todo[s] /\ call # <<c, p>>
    <3>1. call[2] = t[call[1]].parent /\ p = t[c].parent
      BY <1>1, <1>7, <2>2
    <3>2. \A d \in Rows(t) : u[d].parent = t[d].parent
      BY <1>2, <1>8, <3>1 DEF Rows
    <3>3. CASE call[2] = c
      <4>1. call[1] # c
        BY <1>7, <2>2, <3>1, <3>3
      <4>2. u[call[1]].parent = c
        BY <1>2, <1>7, <2>2, <3>1, <3>3, <4>1
      <4> QED BY <1>2, <1>4, <1>8, <3>3, <4>2, ChildNotOnPath
    <3>4. CASE call[2] # c
      <4>1. /\ call[2] \in Rows(t) /\ Climbs(t, call[2]) /\ ~OnPath(t, call[2], call[1])
        BY <1>5, <1>10, <2>2 DEF CallClimbs, t
      <4>2. call[2] \in Category
        BY <4>1 DEF Rows
      <4>3. PathOf(u, call[2]) = PathOf(t, call[2])
        BY <1>2, <3>4, <4>2 DEF PathOf
      <4> QED BY <1>2, <1>8, <3>2, <4>1, <4>3, ClimbsKept
    <3> QED BY <3>3, <3>4
  <2> QED BY <1>1, <1>10, <2>1, <2>2
<1>11. SessionSimple(s)'
  <2>1. \A call \in todo'[s] : CallClimbs(s, call)'
    BY <1>10 DEF CallClimbs, u
  <2>2. Phase(s)'
    BY <1>1, <1>5 DEF Phase
  <2> QED BY <1>9, <2>1, <2>2 DEF SessionSimple, u
<1>12. ASSUME NEW r \in Session, r # s
       PROVE  SessionSimple(r)'
  BY <1>12, SimpleKept DEF SimpleInv, IInv, TypeOK, MoveNode
<1> QED BY <1>11, <1>12 DEF SimpleInv

LEMMA NextSimple ==
  IInv /\ IInv' /\ MovesInv /\ SimpleInv /\ [Next]_vars => SimpleInv'
<1> SUFFICES ASSUME IInv, IInv', MovesInv, SimpleInv, [Next]_vars PROVE SimpleInv'
  OBVIOUS
<1>1. CASE UNCHANGED vars
  BY <1>1, SimpleKept DEF SimpleInv, vars
<1>2. ASSUME ~stale, NEW s \in Session, NEW c \in Category, NEW p \in Category \cup {NoParent},
             BeginCreate(s, c, p) \/ BeginUpdate(s, c, p) \/ MoveNode(s, c, p)
      PROVE  SimpleInv'
  BY <1>2, BeginCreateSimple, BeginUpdateSimple, MoveNodeSimple
<1>3. ASSUME NEW s \in Session, NextMove(s)
      PROVE  SimpleInv'
  BY <1>3, NextMoveSimple
<1>4. ASSUME NEW s \in Session, SignalParent(s) \/ Commit(s) \/ SignalNode(s)
      PROVE  SimpleInv'
  <2> SUFFICES ASSUME NEW r \in Session
               PROVE  SessionSimple(r)'
    BY DEF SimpleInv
  <2>1. UNCHANGED <<job, snap, work, moves, todo>> /\ (stage'[r] = "running" => stage[r] = "running")
    BY <1>4 DEF IInv, TypeOK, SignalParent, Commit, SignalNode
  <2> QED BY <2>1, SimpleKept DEF SimpleInv
<1>5. ASSUME NEW s \in Session, Close(s)
      PROVE  SimpleInv'
  <2>1. stage'[s] = "idle" /\ work'[s] = NoTable
    BY <1>5 DEF Close, IInv, TypeOK
  <2>2. SessionSimple(s)'
    BY <2>1 DEF SessionSimple, NoTable, Rows
  <2>3. ASSUME NEW r \in Session, r # s
        PROVE  SessionSimple(r)'
    BY <1>5, <2>3, SimpleKept DEF SimpleInv, IInv, TypeOK, Close
  <2> QED BY <2>2, <2>3 DEF SimpleInv
<1> QED BY <1>1, <1>2, <1>3, <1>4, <1>5 DEF Next, Answer, Abort, Crash

-----------------------------------------------------------------------------
(* The theorem.                                                            *)

\* For any tree and any number of sessions: every working copy keeps simple
\* paths at every step of the recursion, even while a category moves below
\* its own descendant; and what a request has done by its answer is announced.
THEOREM RequestsStaySound == Spec => []RequestsSound
<1>1. Init => SimpleInv
  BY DEF Init, SimpleInv, SessionSimple, NoTable, Rows
<1>2. IInv /\ SimpleInv => TypeOK /\ PathsAreSimple
  <2> SUFFICES ASSUME IInv, SimpleInv PROVE TypeOK /\ PathsAreSimple
    OBVIOUS
  <2> QED BY DEF IInv, SimpleInv, SessionSimple, PathsAreSimple, Simple, PathOf
<1>3. Spec => [](IInv /\ MovesInv /\ SimpleInv)
  <2>1. IInv /\ MovesInv /\ SimpleInv /\ [Next]_vars => (IInv /\ MovesInv /\ SimpleInv)'
    BY NextInv, NextMoves, NextSimple
  <2>2. Init => MovesInv
    BY DEF Init, MovesInv, RequestOK
  <2> QED BY <1>1, <2>1, <2>2, InitInv, PTL DEF Spec
<1> QED BY <1>2, <1>3, ChangesAnnounced, PTL DEF RequestsSound
=============================================================================
