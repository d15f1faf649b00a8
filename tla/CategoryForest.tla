--------------------------- MODULE CategoryForest ---------------------------
(***************************************************************************)
(* What the category service promises its callers: a forest of categories  *)
(* in which each request takes effect at once.  CategoryTree implements it *)
(* with paths, depths, subtree rewrites and sessions that read snapshots.  *)
(***************************************************************************)
CONSTANTS Category, NoParent, Absent

VARIABLES
  parent,    \* the parent of every category that exists, else Absent
  collided   \* two requests have overlapped on the same categories

vars == <<parent, collided>>

Forest == [Category -> Category \cup {NoParent, Absent}]
Present == {c \in Category : parent[c] # Absent}

\* c and everything below it.
Below(c) ==
  {d \in Present :
     \A S \in SUBSET Present :
        (c \in S /\ \A x \in Present : parent[x] \in S => x \in S) => d \in S}

Init == parent = [c \in Category |-> Absent] /\ collided = FALSE

\* A new category below p, or a new root.
Insert(c, p) ==
  /\ c \notin Present /\ p \in Present \cup {NoParent}
  /\ parent' = [parent EXCEPT ![c] = p]

\* c moves, with everything below it, to a place that is not below itself.
Reparent(c, p) ==
  /\ c \in Present /\ p \in Present \cup {NoParent}
  /\ p \notin Below(c)
  /\ parent' = [parent EXCEPT ![c] = p]

\* c moves below its own descendant p: p takes its place first.
Exchange(c, p) ==
  /\ c \in Present /\ p \in Below(c) \ {c}
  /\ parent' = [parent EXCEPT ![p] = parent[c], ![c] = p]

\* Requests that touch the same categories at the same time: no promise.
Collide == collided' = TRUE /\ parent' \in Forest

Next ==
  /\ ~collided
  /\ \/ /\ UNCHANGED collided
        /\ \E c \in Category, p \in Category \cup {NoParent} :
             Insert(c, p) \/ Reparent(c, p) \/ Exchange(c, p)
     \/ Collide

Spec == Init /\ [][Next]_vars
=============================================================================
