---------------------------- MODULE MasterCategories ----------------------------
(***************************************************************************)
(* The tree of master categories, shared by all sellers, and the copies a  *)
(* seller takes of parts of it: app/services/master_categories and         *)
(* clone_top_level_cat in app/services/categories/category.py.             *)
(*                                                                         *)
(* A row stores the path of its parent with its own id, and a depth.  A    *)
(* move rewrites the rows whose old path names the moved category, in the  *)
(* order the database returns them, so a row may be rewritten before its   *)
(* parent is.  A category may be moved below itself: nothing in the        *)
(* repository refuses it.  A request is one transaction.                   *)
(***************************************************************************)
EXTENDS Integers, FiniteSets, SequencesExt

CONSTANTS
  Category,  \* ids a master category can get
  Root,      \* no parent
  MaxPath,   \* bound: the length of a path
  MaxClones, \* bound: how many copies are taken
  MaxWrites  \* bound: how many requests change the master tree

ASSUME TreeAssumption ==
  /\ Category \subseteq Nat /\ IsFiniteSet(Category)
  /\ Root \notin Category \cup (Nat \X Category)
  /\ MaxPath \in Nat /\ MaxClones \in Nat /\ MaxWrites \in Nat

VARIABLES
  master,  \* the rows of master_categories
  askew,   \* those rewritten before their parents were
  clones,  \* the seller's copies; <<k, c>> is the copy of c that request k took
  writes

treeVars == <<master, askew, clones, writes>>

TreeInit ==
  /\ master = [c \in {} |-> Root]
  /\ askew = {}
  /\ clones = [c \in {} |-> Root]
  /\ writes = 0

Write == writes < MaxWrites /\ writes' = writes + 1

\* create_master_category; ids are given out in order.
CreateMaster(c, p) ==
  /\ c \notin DOMAIN master /\ \A x \in Category \ DOMAIN master : c <= x
  /\ p \in DOMAIN master \cup {Root}
  /\ p # Root => Len(master[p].path) < MaxPath
  /\ Write
  /\ master' = [x \in DOMAIN master \cup {c} |->
       IF x # c THEN master[x]
       ELSE IF p = Root THEN [parent |-> Root, path |-> <<c>>, depth |-> 1, active |-> TRUE]
       ELSE [parent |-> p, path |-> Append(master[p].path, c),
             depth |-> master[p].depth + 1, active |-> TRUE]]
  /\ UNCHANGED <<askew, clones>>

\* Mutant of Below: only those whose path begins with c.
BelowTop(ms, c) == {x \in DOMAIN ms : Len(ms[x].path) > 1 /\ ms[x].path[1] = c}

\* The rows whose path is like 'c/%' or '%/c/%'.
Below(ms, c) == {x \in DOMAIN ms : c \in ToSet(Front(ms[x].path))}

\* Row r below p, with a path and its depth.
WithPath(r, p, path) == [parent |-> p, path |-> path, depth |-> Len(path), active |-> r.active]

\* Row x with the path its parent has in ms.
Repathed(ms, x) ==
  [ms EXCEPT ![x] = WithPath(ms[x], ms[x].parent, Append(ms[ms[x].parent].path, x))]

\* Mutant of Moved: the case without a parent is left out of the path.
MovedBelowRoot(ms, c, p) ==
  [ms EXCEPT ![c] = WithPath(ms[c], p, IF p = Root THEN <<Root, c>> ELSE Append(ms[p].path, c))]

\* The row of c in its new place.
Moved(ms, c, p) ==
  [ms EXCEPT ![c] = WithPath(ms[c], p, IF p = Root THEN <<c>> ELSE Append(ms[p].path, c))]

\* The rows of order rewritten one after the other.
Rewritten(ms, order) ==
  LET after[n \in 0..Len(order)] ==
        IF n = 0 THEN ms ELSE Repathed(after[n - 1], order[n])
  IN  after[Len(order)]

\* update_master_category with a parent; order is that of the query for the
\* rows below c, which is run when c has its new path.
MoveMaster(c, p) ==
  /\ c \in DOMAIN master /\ p \in DOMAIN master \cup {Root}
  /\ Write
  /\ \E order \in SetToSeqs(Below(Moved(master, c, p), c)) :
       LET late == {order[i] : i \in {i \in DOMAIN order :
                      Moved(master, c, p)[order[i]].parent \in {order[j] : j \in i..Len(order)}}}
       IN  /\ master' = Rewritten(Moved(master, c, p), order)
           /\ askew' = (askew \ (ToSet(order) \cup {c})) \cup late
  /\ \A x \in Category : x \in DOMAIN master' => Len(master'[x].path) <= MaxPath
  /\ UNCHANGED clones

\* update_master_category without a parent, of the fields is_active.
SwitchMaster(c) ==
  /\ c \in DOMAIN master
  /\ Write
  /\ master' = [master EXCEPT ![c].active = ~@]
  /\ UNCHANGED <<askew, clones>>

\* Mutant of TreeOf: only the children of c.
TreeOfChildren(c) ==
  {c} \cup {x \in Below(master, c) : master[x].active /\ master[x].parent = c}

\* get_master_category_tree: the rows below c that are active, and c, linked
\* by their parents; those that hang below an inactive one are not reached.
TreeOf(c) ==
  LET found == {c} \cup {x \in Below(master, c) : master[x].active}
      reach[n \in 0..Cardinality(Category)] ==
        IF n = 0 THEN {c}
        ELSE reach[n - 1] \cup {x \in found : master[x].parent \in reach[n - 1]}
  IN  reach[Cardinality(Category)]

Requests == Cardinality({x[1] : x \in DOMAIN clones})

\* clone_top_level_cat, unless a copy of c is there: each category is inserted
\* below the copy of its parent.  In a loop of categories the recursion ends
\* in an exception, and nothing is inserted.
Clone(c) ==
  /\ c \in DOMAIN master
  /\ \A x \in DOMAIN clones : x[2] # c
  /\ Requests < MaxClones
  /\ master[c].parent \notin TreeOf(c)
  /\ LET k == Requests + 1
         path[x \in TreeOf(c)] ==
           IF x = c THEN <<<<k, x>>>> ELSE Append(path[master[x].parent], <<k, x>>)
         copy(x) == [parent |-> IF x = c THEN Root ELSE <<k, master[x].parent>>,
                     path |-> path[x], depth |-> Len(path[x])]
     IN  clones' = [x \in DOMAIN clones \cup {<<k, y>> : y \in TreeOf(c)} |->
                      IF x \in DOMAIN clones THEN clones[x] ELSE copy(x[2])]
  /\ UNCHANGED <<master, askew, writes>>

TreeNext ==
  \/ \E c \in Category, p \in Category \cup {Root} : CreateMaster(c, p) \/ MoveMaster(c, p)
  \/ \E c \in Category : SwitchMaster(c)
  \/ \E c \in Category : Clone(c)

-----------------------------------------------------------------------------
(* Properties.                                                             *)

Row == [parent : Category \cup {Root}, path : Seq(Category), depth : Nat, active : BOOLEAN]

\* The path and the depth of a master category are those of its parent with
\* one more, unless the last move over it rewrote it before its parent: moves
\* before and after, of its ancestors old and new, do not disturb it, and a
\* move of an askew category puts it right.
PathsFollowMasters ==
  \A c \in DOMAIN master \ askew :
    LET p == master[c].parent IN
    /\ master[c].path = IF p = Root THEN <<c>> ELSE Append(master[p].path, c)
    /\ master[c].depth = Len(master[c].path)

\* Those above c by the links of the rows, with c.
Above(c) ==
  LET up[n \in 0..Cardinality(Category)] ==
        IF n = 0 THEN {c}
        ELSE up[n - 1] \cup ({master[x].parent : x \in up[n - 1]} \ {Root})
  IN  up[Cardinality(Category)]

\* A copy has the active categories below c that are reached through active
\* ones, whatever their paths say of it, and the shape of the master tree; it
\* may miss some only while a category is askew.
ClonesAreWhole ==
  [][\A x \in DOMAIN clones' \ DOMAIN clones :
       /\ clones'[x].parent = Root =>
            \A y \in DOMAIN master :
              /\ askew = {} /\ x[2] \in Above(y)
              /\ \A z \in Above(y) : x[2] \in Above(z) /\ z # x[2] => master[z].active
              => <<x[1], y>> \in DOMAIN clones'
       /\ clones'[x].parent # Root =>
            /\ clones'[x].parent = <<x[1], master[x[2]].parent>>
            /\ clones'[x].path = Append(clones'[clones'[x].parent].path, x)
            /\ master[x[2]].active]_treeVars
=============================================================================
