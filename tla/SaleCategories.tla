--------------------------- MODULE SaleCategories ---------------------------
(***************************************************************************)
(* Sale categories: app/services/sale_categories/sale_category.py.         *)
(*                                                                         *)
(* A sale category has a place in a tree (parent_id, path, depth), a place *)
(* among its siblings (priority) and a switch (is_active).  A move commits *)
(* the new parents and priorities first and then rewrites the paths below  *)
(* the category in a recursion that commits whenever a call returns, so a  *)
(* worker that dies half way leaves a part of them behind.                 *)
(*                                                                         *)
(* Requests are taken one after the other.  The validators that guard the  *)
(* service (catalog/validators) are not in the repository: what they must  *)
(* ensure for the code to work, they are taken to ensure (a category is    *)
(* not moved below itself, an activation passes                            *)
(* _allow_edit_master_category).                                           *)
(***************************************************************************)
EXTENDS Integers, FiniteSets, SequencesExt

CONSTANTS
  Category,    \* the ids the auto-increment key can hand out
  NoParent,    \* parent_id 0 or NULL; also: no left node
  Unnumbered,  \* the empty last piece of a path that lacks its own id
  Switches,    \* bound: the values requests give is_active
  MaxCrashes   \* bound: how often a worker dies within a move

ASSUME ConstantsAssumption ==
  /\ IsFiniteSet(Category)
  /\ NoParent \notin Category
  /\ Unnumbered \notin Category
  /\ Switches \subseteq BOOLEAN
  /\ MaxCrashes \in Nat

VARIABLES
  row,      \* sale_categories as the session of the request sees it
  saved,    \* sale_categories as committed
  moving,   \* the category whose paths a move is rewriting, or NoParent
  calls,    \* the pending calls of _update_path_for_tree: <<node, parent>>
  fresh,    \* created, and not rewritten by a move since
  torn,     \* in a subtree whose last rewrite was cut short
  crashes   \* how many workers died

vars == <<row, saved, moving, calls, fresh, torn, crashes>>

-----------------------------------------------------------------------------
(* The table.  A path is kept split at its slashes.                        *)

Parents == Category \cup {NoParent}
Children(t, p) == {c \in DOMAIN t : t[c].parent = p}

\* c and everything below it.
Subtree(t, c) ==
  {d \in DOMAIN t :
     \A S \in SUBSET DOMAIN t :
        (c \in S /\ \A x \in S : Children(t, x) \subseteq S) => d \in S}

\* A set of rows as a query that orders by priority returns it.
ByPriority(t, S) ==
  CHOOSE s \in [1..Cardinality(S) -> S] :
    \A i, j \in DOMAIN s : i < j => t[s[i]].priority < t[s[j]].priority

\* The path and the depth _update_path_for_tree gives c below p, and the
\* depth create_sale_category gives it.
PathBelow(t, p, c) == IF p = NoParent THEN <<c>> ELSE Append(t[p].path, c)
DepthBelow(t, p) == IF p = NoParent THEN 1 ELSE t[p].depth + 1

Idle == moving = NoParent

Init ==
  /\ row = <<>>
  /\ saved = <<>>
  /\ moving = NoParent
  /\ calls = <<>>
  /\ fresh = {}
  /\ torn = {}
  /\ crashes = 0

-----------------------------------------------------------------------------
(* Creating.                                                               *)

\* Mutant of LastPriority: the next number instead of the last one taken.
NextPriority(t, p) == Cardinality(Children(t, p)) + 1

\* The priority of right_most, the sibling that comes last.
LastPriority(t, p) ==
  LET taken == {t[c].priority : c \in Children(t, p)}
  IN  IF taken = {} THEN 0 ELSE Max(taken)

\* create_sale_category.  The path is committed before the row has its id;
\* the id is added to the object afterwards and not committed any more.
Create(c, p, active) ==
  /\ Idle
  /\ c \notin DOMAIN row
  /\ p \in DOMAIN row \cup {NoParent}
  /\ row' = [d \in DOMAIN row \cup {c} |->
               IF d # c THEN row[d]
               ELSE [parent   |-> p,
                     priority |-> LastPriority(row, p) + 1,
                     path     |-> PathBelow(row, p, Unnumbered),
                     depth    |-> DepthBelow(row, p),
                     active   |-> active]]
  /\ saved' = row'
  /\ fresh' = fresh \cup {c}
  /\ UNCHANGED <<moving, calls, torn, crashes>>

-----------------------------------------------------------------------------
(* Moving.                                                                 *)

\* __resort_node: the categories of s are numbered from 1 in that order.
Resorted(t, s) ==
  [c \in DOMAIN t |->
     IF Contains(s, c)
       THEN [t[c] EXCEPT !.priority = SelectInSeq(s, LAMBDA x : x = c)]
       ELSE t[c]]

\* new_siblings with the category in its place.
NewSiblings(t, c, p, left) ==
  LET others == ByPriority(t, Children(t, p) \ {c})
  IN  InsertAt(others, IF left = NoParent THEN 1
                       ELSE 1 + SelectInSeq(others, LAMBDA x : x = left), c)

\* Mutant of Moved: the siblings left behind keep their numbers.
MovedLeavingGap(t, c, p, left) ==
  [Resorted(t, NewSiblings(t, c, p, left)) EXCEPT ![c].parent = p]

\* Mutant of Moved: the siblings left behind are numbered from the last one.
MovedReversing(t, c, p, left) ==
  LET joined == Resorted(t, NewSiblings(t, c, p, left))
      parted == IF t[c].parent = p THEN joined
                ELSE Resorted(joined, Reverse(ByPriority(joined, Children(t, t[c].parent) \ {c})))
  IN  [parted EXCEPT ![c].parent = p]

\* _move_node: the table it commits.
Moved(t, c, p, left) ==
  LET joined == Resorted(t, NewSiblings(t, c, p, left))
      parted == IF t[c].parent = p THEN joined
                ELSE Resorted(joined, ByPriority(joined, Children(t, t[c].parent) \ {c}))
  IN  [parted EXCEPT ![c].parent = p]

\* update_position up to the commit in _move_node.  A left node that is not
\* among the new siblings is a ValueError, which changes nothing.
Move(c, p, left) ==
  /\ Idle
  /\ c \in DOMAIN row
  /\ p \in (DOMAIN row \cup {NoParent}) \ Subtree(row, c)
  /\ left \in (Children(row, p) \cup {NoParent}) \ {c}
  /\ row' = Moved(row, c, p, left)
  /\ saved' = row'
  /\ moving' = c
  /\ calls' = << <<c, p>> >>
  /\ UNCHANGED <<fresh, torn, crashes>>

\* The calls for child_nodes, which are queried without an order.
Descend(t, c) == SetToSeqs({<<d, c>> : d \in Children(t, c)})

\* Mutant of Visit: the moved category itself is left as it is.
VisitBelow ==
  /\ calls # <<>>
  /\ LET c == Head(calls)[1]  p == Head(calls)[2]
     IN  /\ row' = IF c = moving THEN row
                   ELSE [row EXCEPT ![c].path = PathBelow(row, p, c),
                                    ![c].depth = DepthBelow(row, p)]
         /\ \E below \in Descend(row, c) :
              /\ calls' = below \o Tail(calls)
              /\ saved' = IF below = <<>> THEN row' ELSE saved
  /\ UNCHANGED <<moving, fresh, torn, crashes>>

\* One call of _update_path_for_tree.  It commits at its end, when the calls
\* for its children have committed: the first commit is that of a leaf.
Visit ==
  /\ calls # <<>>
  /\ LET c == Head(calls)[1]  p == Head(calls)[2]
     IN  /\ row' = [row EXCEPT ![c].path = PathBelow(row, p, c),
                               ![c].depth = DepthBelow(row, p)]
         /\ \E below \in Descend(row, c) :
              /\ calls' = below \o Tail(calls)
              /\ saved' = IF below = <<>> THEN row' ELSE saved
  /\ UNCHANGED <<moving, fresh, torn, crashes>>

\* update_position returns.
Finish ==
  /\ ~Idle
  /\ calls = <<>>
  /\ moving' = NoParent
  /\ fresh' = fresh \ Subtree(row, moving)
  /\ torn' = torn \ Subtree(row, moving)
  /\ UNCHANGED <<row, saved, calls, crashes>>

\* The worker dies or a query fails: what is not committed is gone.
Crash ==
  /\ ~Idle
  /\ crashes < MaxCrashes
  /\ crashes' = crashes + 1
  /\ row' = saved
  /\ torn' = torn \cup Subtree(saved, moving)
  /\ moving' = NoParent
  /\ calls' = <<>>
  /\ UNCHANGED <<saved, fresh>>

-----------------------------------------------------------------------------
(* Switching on and off.                                                   *)

\* Mutant of AncestorsActive: only the parent is asked.
ParentActive(t, c) == \A a \in DOMAIN t \cap {t[c].parent} : t[a].active

\* _check_ancestor: everything above c is active.
AncestorsActive(t, c) ==
  \A a \in DOMAIN t \ {c} : c \in Subtree(t, a) => t[a].active

\* _deactivate_master_category: c and everything below it.
Deactivated(t, c) ==
  [d \in DOMAIN t |->
     IF d \in Subtree(t, c) THEN [t[d] EXCEPT !.active = FALSE] ELSE t[d]]

\* update_sale_category with is_active in its data; switching on only when
\* _allow_edit_master_category agrees.
Switch(c, active) ==
  /\ Idle
  /\ c \in DOMAIN row
  /\ active => AncestorsActive(row, c)
  /\ row' = IF active THEN [row EXCEPT ![c].active = TRUE] ELSE Deactivated(row, c)
  /\ saved' = row'
  /\ UNCHANGED <<moving, calls, fresh, torn, crashes>>

-----------------------------------------------------------------------------

Next ==
  \/ \E c \in Category, p \in Parents, active \in Switches : Create(c, p, active)
  \/ \E c \in Category, p, left \in Parents : Move(c, p, left)
  \/ \E c \in Category, active \in Switches : Switch(c, active)
  \/ Visit
  \/ Finish
  \/ Crash

Spec == Init /\ [][Next]_vars

-----------------------------------------------------------------------------
(* Properties.                                                             *)

Row == [parent : Parents, priority : 1..Cardinality(Category),
        path : Seq(Category \cup {Unnumbered}), depth : Nat, active : BOOLEAN]

\* The variables have the shapes given above; the session sees the rows that
\* are committed, and no others.
TypeOK ==
  /\ DOMAIN row \subseteq Category /\ DOMAIN saved = DOMAIN row
  /\ \A t \in {row, saved} : \A c \in DOMAIN t : t[c] \in Row
  /\ moving \in Parents
  /\ calls \in Seq(Category \X Parents)
  /\ fresh \subseteq DOMAIN row /\ torn \subseteq DOMAIN row
  /\ crashes \in 0..MaxCrashes

\* Siblings are numbered 1, 2, 3, ... in the committed table at every moment,
\* whatever was created, moved away or moved in between and wherever a worker
\* died: create_sale_category takes the highest number plus one, _move_node
\* renumbers the siblings it joins and those it leaves.
SiblingsNumbered ==
  \A p \in Parents :
    {saved[c].priority : c \in Children(saved, p)} = 1..Cardinality(Children(saved, p))

\* Between requests the path and the depth of a category continue those of
\* its parent, however often both were moved, unless a worker died while
\* rewriting it.  The path ends with the category's own id, except that
\* create_sale_category leaves that piece empty until the next move.
PathsFollowParents ==
  Idle => \A c \in DOMAIN saved \ torn :
            /\ saved[c].depth = DepthBelow(saved, saved[c].parent)
            /\ saved[c].path = PathBelow(saved, saved[c].parent,
                                         IF c \in fresh THEN Unnumbered ELSE c)

\* The pairs of an inactive category and an active one below it.
Gaps(t) == {g \in (DOMAIN t) \X (DOMAIN t) :
              /\ g[2] \in Subtree(t, g[1])
              /\ ~t[g[1]].active /\ t[g[2]].active}

\* Switching a category on or off never puts an active category below an
\* inactive one: _check_ancestor asks all the way up, also across a category
\* that itself is active below an inactive one (creating and moving can make
\* such pairs), and _deactivate_master_category goes all the way down.
SwitchingOpensNoGap ==
  [][(\E c \in Category, active \in Switches : Switch(c, active))
        => Gaps(saved') \subseteq Gaps(saved)]_vars

\* The committed rows keep their shapes and siblings their numbers.
RowsNumbered == TypeOK /\ SiblingsNumbered

-----------------------------------------------------------------------------
(* The categories below each parent in the order of their priorities.      *)

Orders(t) == [p \in Parents |-> ByPriority(t, Children(t, p))]

Order == INSTANCE SaleCategoryOrder WITH lists <- Orders(saved)

\* The committed priorities, read in order, change as the lists do: a new
\* category comes last, a moved one lands where it was dropped, and the
\* renumbering of the siblings on both sides disturbs no other order.
ImplementsOrder == Order!Spec
=============================================================================
