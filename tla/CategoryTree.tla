---------------------------- MODULE CategoryTree ----------------------------
(***************************************************************************)
(* The category tree of one seller: app/services/categories/category.py.   *)
(*                                                                         *)
(* Every category row stores its parent_id and, redundantly, the path of   *)
(* ids from the root down to itself and its depth.  create_category reads  *)
(* the parent's row and derives the new row from it; update_category moves *)
(* a category, with everything below it, and rewrites path and depth of    *)
(* the whole subtree, one row at a time, in a recursion.                   *)
(*                                                                         *)
(* Requests run in database sessions with repeatable reads (the MySQL      *)
(* default, config.py sets no other level): a session reads the snapshot   *)
(* taken by its first query, sees its own writes, and on commit updates    *)
(* the columns it changed, whatever other sessions committed meanwhile.    *)
(* Nothing in the code locks a row or checks a version, so two requests    *)
(* can commit over each other; `stale` records that one did.               *)
(***************************************************************************)
EXTENDS Naturals, Sequences

CONSTANTS
  Category,   \* the ids the auto-increment key can hand out
  Session,    \* the worker threads that serve requests
  NoParent,   \* parent_id 0 or NULL: a root
  NoRow       \* no such row

ASSUME ConstantsAssumption ==
  /\ NoParent \notin Category
  /\ NoRow \notin Category \cup {NoParent}
  /\ NoRow \notin [parent : Category \cup {NoParent},
                   path : Seq(Category), depth : Nat]

VARIABLES
  table,      \* the committed categories table: id -> row
  issued,     \* ids already handed out by the auto-increment key
  stage,      \* where the request of a session is
  job,        \* what it was asked to do
  snap,       \* the snapshot its reads come from
  work,       \* the snapshot with its own flushed writes
  moves,      \* the top-level calls of move_node_to_new_parent still to make
  todo,       \* the pending (node, parent) calls of the recursion
  announced,  \* the categories it signalled to the RAM queue
  stale       \* a commit overwrote or missed what another session committed

vars == <<table, issued, stage, job, snap, work, moves, todo, announced, stale>>

-----------------------------------------------------------------------------
(* Rows and trees.                                                         *)

Row == [parent : Category \cup {NoParent}, path : Seq(Category), depth : Nat]
Table == [Category -> Row \cup {NoRow}]

Rows(t) == {c \in Category : t[c] # NoRow}

\* What the `children` relationship of a category holds.
Children(t, c) == {d \in Rows(t) : t[d].parent = c}

\* c and everything below it: the least set that holds c and, with a
\* category, its children.
Subtree(t, c) ==
  {d \in Rows(t) :
     \A S \in SUBSET Rows(t) :
        (c \in S /\ \A x \in S : Children(t, x) \subseteq S) => d \in S}

\* Mutant of Placed: the path is completed before the flush gave the id.
PlacedBeforeFlush(t, c, p) ==
  IF p = NoParent
    THEN [parent |-> NoParent, path |-> <<NoParent>>, depth |-> 1]
    ELSE [parent |-> p, path |-> Append(t[p].path, NoParent), depth |-> t[p].depth + 1]

\* The row of c once it hangs below p, from the row p has in t.
Placed(t, c, p) ==
  IF p = NoParent
    THEN [parent |-> NoParent, path |-> <<c>>, depth |-> 1]
    ELSE [parent |-> p, path |-> Append(t[p].path, c), depth |-> t[p].depth + 1]

-----------------------------------------------------------------------------
(* Requests.                                                               *)

NoJob == [kind |-> "none", node |-> NoParent, target |-> NoParent]
Job == [kind : {"none", "create", "update", "swap"},
        node : Category \cup {NoParent}, target : Category \cup {NoParent}]
NoTable == [c \in Category |-> NoRow]

Init ==
  /\ table = NoTable
  /\ issued = {}
  /\ stage = [s \in Session |-> "idle"]
  /\ job = [s \in Session |-> NoJob]
  /\ snap = [s \in Session |-> NoTable]
  /\ work = [s \in Session |-> NoTable]
  /\ moves = [s \in Session |-> <<>>]
  /\ todo = [s \in Session |-> {}]
  /\ announced = [s \in Session |-> {}]
  /\ stale = FALSE

Begin(s, j, t, calls) ==
  /\ stage[s] = "idle"
  /\ stage' = [stage EXCEPT ![s] = "running"]
  /\ job' = [job EXCEPT ![s] = j]
  /\ snap' = [snap EXCEPT ![s] = table]
  /\ work' = [work EXCEPT ![s] = t]
  /\ moves' = [moves EXCEPT ![s] = calls]
  /\ UNCHANGED <<table, todo, announced, stale>>

\* create_category: reads the parent, inserts the row (the flush hands out
\* its id) and completes its path with that id.
BeginCreate(s, c, p) ==
  /\ c \notin issued
  /\ p \in Rows(table) \cup {NoParent}
  /\ issued' = issued \cup {c}
  /\ Begin(s, [kind |-> "create", node |-> c, target |-> p],
           [table EXCEPT ![c] = Placed(table, c, p)], <<>>)

\* _is_child: id is current_node or somewhere below it.
IsChild(t, c, id) == id \in Subtree(t, c)

\* Mutant of MoveCalls: nobody asks whether the new parent is below the category.
MoveCallsUnchecked(t, c, p) == << <<c, p>> >>

\* Mutant of MoveCalls: the new parent becomes a root.
MoveCallsToRoot(t, c, p) ==
  IF IsChild(t, c, p) THEN << <<p, NoParent>>, <<c, p>> >> ELSE << <<c, p>> >>

\* The calls update_category makes: when the new parent is below the category
\* it first takes the category's place, then the category goes below it.
MoveCalls(t, c, p) ==
  IF IsChild(t, c, p) THEN << <<p, t[c].parent>>, <<c, p>> >> ELSE << <<c, p>> >>

\* Mutant of BeginUpdate: send_parent_to_queue is never set.
BeginUpdateSilent(s, c, p) ==
  /\ c \in Rows(table)
  /\ p \in (Rows(table) \cup {NoParent}) \ {c}
  /\ Begin(s, [kind |-> "update", node |-> c, target |-> p],
           table, MoveCalls(table, c, p))
  /\ UNCHANGED issued

\* update_category with a parent_id.  A category that is to be its own parent
\* is left out: the recursion would meet it as its own child until Python's
\* recursion limit ends the request, which is Abort.
BeginUpdate(s, c, p) ==
  /\ c \in Rows(table)
  /\ p \in (Rows(table) \cup {NoParent}) \ {c}
  /\ Begin(s, [kind |-> IF IsChild(table, c, p) THEN "swap" ELSE "update",
               node |-> c, target |-> p],
           table, MoveCalls(table, c, p))
  /\ UNCHANGED issued

\* The next top-level call of move_node_to_new_parent (a flush in between).
NextMove(s) ==
  /\ stage[s] = "running"
  /\ todo[s] = {} /\ moves[s] # <<>>
  /\ todo' = [todo EXCEPT ![s] = {Head(moves[s])}]
  /\ moves' = [moves EXCEPT ![s] = Tail(@)]
  /\ UNCHANGED <<table, issued, stage, job, snap, work, announced, stale>>

\* Mutant of MoveNode: the rows below the node are left alone.
MoveNodeAlone(s, c, p) ==
  /\ stage[s] = "running"
  /\ <<c, p>> \in todo[s]
  /\ work' = [work EXCEPT ![s] = [@ EXCEPT ![c] = Placed(work[s], c, p)]]
  /\ todo' = [todo EXCEPT ![s] = @ \ {<<c, p>>}]
  /\ UNCHANGED <<table, issued, stage, job, snap, moves, announced, stale>>

\* Mutant of MoveNode: the recursion passes the node's parent on.
MoveNodeFlattens(s, c, p) ==
  /\ stage[s] = "running"
  /\ <<c, p>> \in todo[s]
  /\ LET t == [work[s] EXCEPT ![c] = Placed(work[s], c, p)]
     IN  /\ work' = [work EXCEPT ![s] = t]
         /\ todo' = [todo EXCEPT ![s] =
                       (@ \ {<<c, p>>}) \cup (Children(t, c) \X {p})]
  /\ UNCHANGED <<table, issued, stage, job, snap, moves, announced, stale>>

\* One call of move_node_to_new_parent: rewrites the node's row from its
\* parent's and calls itself for each child.  The order among the pending
\* calls is left open.
MoveNode(s, c, p) ==
  /\ stage[s] = "running"
  /\ <<c, p>> \in todo[s]
  /\ LET t == [work[s] EXCEPT ![c] = Placed(work[s], c, p)]
     IN  /\ work' = [work EXCEPT ![s] = t]
         /\ todo' = [todo EXCEPT ![s] =
                       (@ \ {<<c, p>>}) \cup (Children(t, c) \X {c})]
  /\ UNCHANGED <<table, issued, stage, job, snap, moves, announced, stale>>

MovesDone(s) == stage[s] = "running" /\ todo[s] = {} /\ moves[s] = <<>>

\* ram_category_updated_signal for the parent, when the two changed places:
\* sent before the commit.
SignalParent(s) ==
  /\ MovesDone(s)
  /\ job[s].kind = "swap" /\ announced[s] = {}
  /\ announced' = [announced EXCEPT ![s] = {job[s].target}]
  /\ UNCHANGED <<table, issued, stage, job, snap, work, moves, todo, stale>>

\* UPDATE sets the columns whose value differs from the one that was read.
Merged(new, old, cur) ==
  IF new = old THEN cur
  ELSE IF old = NoRow \/ cur = NoRow THEN new
  ELSE [parent |-> IF new.parent = old.parent THEN cur.parent ELSE new.parent,
        path   |-> IF new.path = old.path THEN cur.path ELSE new.path,
        depth  |-> IF new.depth = old.depth THEN cur.depth ELSE new.depth]

\* The rows a request's result depends on: the parent for a creation, the
\* subtree and its old and new parent for a move.
Footprint(s) ==
  IF job[s].kind = "create" THEN {job[s].target} \cap Category
  ELSE Subtree(snap[s], job[s].node)
         \cup ({job[s].target, snap[s][job[s].node].parent} \cap Category)

\* No other session committed a change to the footprint since the snapshot.
Undisturbed(s) ==
  /\ \A c \in Footprint(s) : table[c] = snap[s][c]
  /\ job[s].kind # "create" =>
       Subtree(table, job[s].node) = Subtree(snap[s], job[s].node)

Commit(s) ==
  /\ MovesDone(s)
  /\ job[s].kind = "swap" => job[s].target \in announced[s]
  /\ table' = [c \in Category |-> Merged(work[s][c], snap[s][c], table[c])]
  /\ stale' = (stale \/ ~Undisturbed(s))
  /\ stage' = [stage EXCEPT ![s] = "committed"]
  /\ UNCHANGED <<issued, job, snap, work, moves, todo, announced>>

\* ram_category_created_signal or ram_category_updated_signal for the
\* category itself: sent after the commit.
SignalNode(s) ==
  /\ stage[s] = "committed"
  /\ announced' = [announced EXCEPT ![s] = @ \cup {job[s].node}]
  /\ stage' = [stage EXCEPT ![s] = "answered"]
  /\ UNCHANGED <<table, issued, job, snap, work, moves, todo, stale>>

Close(s) ==
  /\ stage' = [stage EXCEPT ![s] = "idle"]
  /\ job' = [job EXCEPT ![s] = NoJob]
  /\ snap' = [snap EXCEPT ![s] = NoTable]
  /\ work' = [work EXCEPT ![s] = NoTable]
  /\ moves' = [moves EXCEPT ![s] = <<>>]
  /\ todo' = [todo EXCEPT ![s] = {}]
  /\ announced' = [announced EXCEPT ![s] = {}]
  /\ UNCHANGED <<table, issued, stale>>

\* The session is removed when the request ends.
Answer(s) == stage[s] = "answered" /\ Close(s)

\* An exception before the commit: global_error_handler rolls back.  The id
\* that was handed out stays used.
Abort(s) == stage[s] = "running" /\ Close(s)

\* The worker dies between the commit and the signal.
Crash(s) == stage[s] = "committed" /\ Close(s)

\* A behaviour is followed up to the first commit that went over another one:
\* past it the paths may be wrong, and nothing is claimed about them.
Next ==
  /\ ~stale
  /\ \E s \in Session :
       \/ \E c \in Category, p \in Category \cup {NoParent} :
            BeginCreate(s, c, p) \/ BeginUpdate(s, c, p) \/ MoveNode(s, c, p)
       \/ NextMove(s) \/ SignalParent(s) \/ Commit(s) \/ SignalNode(s)
       \/ Answer(s) \/ Abort(s) \/ Crash(s)

Spec == Init /\ [][Next]_vars

-----------------------------------------------------------------------------
(* What other code reads off the table.                                    *)

\* apply_shipping_type_to_skus: path LIKE '{entity.path}/%'.
BelowByPrefix(t, a) ==
  {c \in Rows(t) : /\ Len(t[a].path) < Len(t[c].path)
                   /\ SubSeq(t[c].path, 1, Len(t[a].path)) = t[a].path}

\* get_category_tree: path LIKE '{id}/%' or '%/{id}/%'.
BelowById(t, a) ==
  {c \in Rows(t) : \E i \in 1 .. Len(t[c].path) - 1 : t[c].path[i] = a}

\* __get_category_tree: the categories of the detail of a product that is
\* filed under c, sorted by their depth; root_ids takes the first of the path.
Branch(t, c) == {d \in Rows(t) : \E i \in DOMAIN t[c].path : t[c].path[i] = d}
BranchRoot(t, c) == t[c].path[1]

\* Mutant of InheritedByPath: the ids are not taken from the end.
InheritedByPathFirst(path, With) ==
  LET found == {i \in DOMAIN path : path[i] \in With}
  IN  IF found = {} THEN NoParent
      ELSE path[CHOOSE i \in found : \A j \in found : i <= j]

\* _get_attribute_set_inherited_category: the last id of the path whose
\* category has an attribute set; With is the set of those that have one.
InheritedByPath(path, With) ==
  LET found == {i \in DOMAIN path : path[i] \in With}
  IN  IF found = {} THEN NoParent
      ELSE path[CHOOSE i \in found : \A j \in found : j <= i]

\* get_category_with_id: the same question, asked along parent links.
InheritedByParent(t, With) ==
  LET up[c \in Rows(t)] == IF c \in With THEN c
                           ELSE IF t[c].parent = NoParent THEN NoParent
                           ELSE up[t[c].parent]
  IN  up

-----------------------------------------------------------------------------
(* Properties.                                                             *)

TypeOK ==
  /\ table \in Table
  /\ issued \subseteq Category
  /\ stage \in [Session -> {"idle", "running", "committed", "answered"}]
  /\ job \in [Session -> Job]
  /\ snap \in [Session -> Table]
  /\ work \in [Session -> Table]
  /\ moves \in [Session -> Seq(Category \X (Category \cup {NoParent}))]
  /\ todo \in [Session -> SUBSET (Category \X (Category \cup {NoParent}))]
  /\ announced \in [Session -> SUBSET (Category \cup {NoParent})]
  /\ stale \in BOOLEAN

\* The row of c is the one its parent's row determines.
FitsParent(t, c) ==
  /\ t[c].parent # NoParent => t[c].parent \in Rows(t)
  /\ t[c] = Placed(t, c, t[c].parent)

Consistent(t) == \A c \in Rows(t) : FitsParent(t, c)

\* As long as no commit disturbed what another request had read, every
\* committed category has the path and the depth its parent's row gives it:
\* creations, moves and exchanges of place may interleave, half-done subtree
\* rewrites stay invisible, and requests that touch disjoint parts of the
\* tree may commit in any order (create_category, update_category and
\* move_node_to_new_parent, which lock nothing).
TreeConsistent == ~stale => Consistent(table)

\* No path in a session's working copy meets a category twice, however far
\* the recursion of move_node_to_new_parent has come: so it never walks in a
\* circle, not even when a category moves below its own descendant.
PathsAreSimple ==
  \A s \in Session : \A c \in Rows(work[s]) :
     LET path == work[s][c].path
     IN  \A i, j \in DOMAIN path : path[i] = path[j] => i = j

\* The two path patterns the queries use (in apply_shipping_type_to_skus and
\* in get_category_tree) both select exactly the categories that parent links
\* put below a category.
PathFindsSubtree ==
  ~stale => \A a \in Rows(table) :
              /\ BelowByPrefix(table, a) = Subtree(table, a) \ {a}
              /\ BelowById(table, a) = Subtree(table, a) \ {a}

\* Sorted by depth, the categories a product detail lists are a chain of
\* parents and children from a root, the one noted for the platform, down to
\* the category of the product.
BranchIsChain ==
  ~stale => \A c \in Rows(table) :
              LET branch == Branch(table, c) IN
              /\ {d \in branch : table[d].parent = NoParent} = {BranchRoot(table, c)}
              /\ \A d \in branch : table[d].parent # NoParent =>
                   table[d].parent \in branch /\ table[table[d].parent].depth < table[d].depth
              /\ \A d, e \in branch : table[d].depth = table[e].depth => d = e
              /\ \A d \in branch : table[d].depth <= table[c].depth

\* Whichever categories have an attribute set, a category inherits the same
\* one by its path (create_category, update_category) as by its parent links
\* (get_category_with_id).
InheritanceAgrees ==
  ~stale => \A With \in SUBSET Rows(table) : \A c \in Rows(table) :
              InheritedByPath(table[c].path, With) = InheritedByParent(table, With)[c]

\* When the moves of a request are done they have had the effect drawn in the
\* docstring of update_category: the category hangs below its new parent; a
\* new parent that was below it has taken its place; nothing else changed its
\* parent.
MovesAsDrawn ==
  \A s \in Session :
     MovesDone(s) /\ job[s].kind # "create" =>
       LET c == job[s].node
           p == job[s].target
       IN  /\ work[s][c].parent = p
           /\ job[s].kind = "swap" => work[s][p].parent = snap[s][c].parent
           /\ \A d \in Rows(snap[s]) \ {c} :
                (d = p => job[s].kind # "swap") =>
                  work[s][d].parent = snap[s][d].parent

\* A request that was answered has signalled every category it created or
\* gave a new parent to the RAM queue, from which other services learn of it.
ReparentedAnnounced ==
  \A s \in Session : stage[s] = "answered" =>
     \A c \in Rows(work[s]) :
        (snap[s][c] = NoRow \/ work[s][c].parent # snap[s][c].parent)
          => c \in announced[s]

\* What holds at every step of update_category: the variables keep their
\* shapes, its recursion never comes back to a category it is below, and a
\* category is announced if a request gave it another parent.
RequestsSound == TypeOK /\ PathsAreSimple /\ ReparentedAnnounced

\* The ways the code reads the tree give what the parent links say: subtrees
\* and branches by path, inherited attribute sets by path and by parent.
ReadersAgree == PathFindsSubtree /\ BranchIsChain /\ InheritanceAgrees

-----------------------------------------------------------------------------
(* As a forest of categories.                                              *)

Forest == INSTANCE CategoryForest WITH
  Absent <- NoRow,
  parent <- [c \in Category |-> IF table[c] = NoRow THEN NoRow ELSE table[c].parent],
  collided <- stale

\* The committed parent links change as the forest's do: every commit that
\* disturbed nothing another request had read is one insertion, one move or
\* one exchange of place on the forest as it stands at that moment, though it
\* was computed row by row from an older snapshot.
ImplementsForest == Forest!Spec
=============================================================================
