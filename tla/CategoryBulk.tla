------------------------------ MODULE CategoryBulk ------------------------------
(***************************************************************************)
(* The bulk import of a seller's categories:                               *)
(* app/services/categories/category_bulk.py.                               *)
(*                                                                         *)
(* A request is a list of rows, each with the codes of one to three        *)
(* categories, the second below the first, the third below the second.     *)
(* The first row that names a code on a level decides; later rows take the *)
(* category as it is in the dictionary of that level.  A category that is  *)
(* there is moved with its own path only.  One commit, then the signals,   *)
(* level by level with pauses of 30 s, which a worker may not survive.     *)
(* Codes are unique for a seller and stand for the categories.             *)
(***************************************************************************)
EXTENDS Integers, FiniteSets, Sequences

CONSTANTS
  Code,
  NoParent,
  BulkData,   \* bound: the rows of requests
  MaxBulks    \* bound: how many requests

\* A row has at least the code of its first level.
ASSUME BulkAssumption ==
  /\ NoParent \notin Code
  /\ \A lines \in BulkData :
       /\ lines \in Seq(Seq(Code))
       /\ \A i \in DOMAIN lines : Len(lines[i]) \in 1..3

VARIABLES
  tree,     \* the seller's categories
  stale,    \* categories whose parent was moved after they were placed
  signals,  \* the signals of the request at hand, in order
  sent,     \* how many of them were sent
  notifying, \* whether a worker is sending them
  bulks

bulkVars == <<tree, stale, signals, sent, notifying, bulks>>

BulkInit ==
  /\ tree = [c \in {} |-> NoParent]
  /\ stale = {}
  /\ signals = <<>> /\ sent = 0 /\ notifying = FALSE
  /\ bulks = 0

\* Mutant of Placed: the depth is left as it was.
PlacedAsDeep(t, c, p) ==
  IF p = NoParent THEN t
  ELSE [t EXCEPT ![c] = [parent |-> p, path |-> Append(t[p].path, c), depth |-> @.depth]]

\* A category that is there: under p, or as it is when there is no parent.
Placed(t, c, p) ==
  IF p = NoParent THEN t
  ELSE [t EXCEPT ![c] = [parent |-> p, path |-> Append(t[p].path, c), depth |-> t[p].depth + 1]]

\* __insert_category.
Inserted(t, c, p) ==
  [x \in DOMAIN t \cup {c} |->
     IF x # c THEN t[x]
     ELSE IF p = NoParent THEN [parent |-> p, path |-> <<c>>, depth |-> 1]
     ELSE [parent |-> p, path |-> Append(t[p].path, c), depth |-> t[p].depth + 1]]

ChildrenOf(t, c) == {x \in DOMAIN t : t[x].parent = c}

\* __get_and_init_dic for code c on a level.  The state of a request has the
\* tree, the stale categories and the dictionaries, each a sequence of codes
\* and kinds of signals.
GetAndInit(r, level, c, p) ==
  IF \E i \in DOMAIN r.dic[level] : r.dic[level][i][1] = c THEN r
  ELSE IF c \in DOMAIN r.tree
  THEN [tree  |-> Placed(r.tree, c, p),
        stale |-> IF p = NoParent THEN r.stale
                  ELSE (r.stale \ {c}) \cup ChildrenOf(Placed(r.tree, c, p), c),
        dic   |-> [r.dic EXCEPT ![level] = Append(@, <<c, "update">>)]]
  ELSE [tree  |-> Inserted(r.tree, c, p),
        stale |-> r.stale,
        dic   |-> [r.dic EXCEPT ![level] = Append(@, <<c, "insert">>)]]

\* One row of the request.
WithRow(r, codes) ==
  LET one == GetAndInit(r, 1, codes[1], NoParent)
      two == GetAndInit(one, 2, codes[2], codes[1])
  IN  CASE Len(codes) = 1 -> one
        [] Len(codes) = 2 -> two
        [] Len(codes) = 3 -> GetAndInit(two, 3, codes[3], codes[2])

\* Mutant of Announced: the deepest level first.
AnnouncedUpwards(dic) == dic[3] \o dic[2] \o dic[1]

\* The order of __notify_connector.
Announced(dic) == dic[1] \o dic[2] \o dic[3]

\* The rows of a request, one after the other.
WithRows(t, s, lines) ==
  LET after[n \in 0..Len(lines)] ==
        IF n = 0 THEN [tree |-> t, stale |-> s, dic |-> <<<<>>, <<>>, <<>>>>]
        ELSE WithRow(after[n - 1], lines[n])
  IN  after[Len(lines)]

\* create_bulk_categories until its commit.
Import(lines) ==
  /\ bulks < MaxBulks /\ bulks' = bulks + 1
  /\ ~notifying /\ notifying' = TRUE
  /\ LET done == WithRows(tree, stale, lines)
     IN  /\ tree' = done.tree
         /\ stale' = done.stale
         /\ signals' = Announced(done.dic)
  /\ sent' = 0

\* One signal of __notify_connector, which reads the category when it is sent.
Notify ==
  /\ notifying
  /\ sent' = sent + 1
  /\ notifying' = (sent + 1 < Len(signals))
  /\ UNCHANGED <<tree, stale, signals, bulks>>

\* The worker dies between two signals.
DieNotifying ==
  /\ notifying /\ notifying' = FALSE
  /\ UNCHANGED <<tree, stale, signals, sent, bulks>>

BulkNext == (\E lines \in BulkData : Import(lines)) \/ Notify \/ DieNotifying
BulkSpec == BulkInit /\ [][BulkNext]_bulkVars

-----------------------------------------------------------------------------
(* Properties.                                                             *)

\* A category has the path and the depth its parent gives it, unless its
\* parent was moved after it was placed: what rows of one request or of
\* several do to each other loses no more than that.
BulkPathsFollow ==
  \A c \in DOMAIN tree \ stale :
    LET p == tree[c].parent IN
    IF p = NoParent THEN tree[c].path = <<c>> /\ tree[c].depth = 1
    ELSE /\ tree[c].path = Append(tree[p].path, c)
         /\ tree[c].depth = tree[p].depth + 1

\* A new category is announced after its new parent, wherever the worker dies,
\* as long as the request names each of the two on one level only.
ParentsAnnouncedFirst ==
  \A i, j \in DOMAIN signals :
    /\ i < j /\ signals[i][2] = "insert" /\ signals[j][2] = "insert"
    /\ tree[signals[i][1]].parent = signals[j][1]
    => \E k \in DOMAIN signals \ {i, j} : signals[k][1] \in {signals[i][1], signals[j][1]}

\* Paths and depths of a seller's categories follow their parents, and
\* parents are announced before their children.
BulkFollowsParents == BulkPathsFollow /\ ParentsAnnouncedFirst
=============================================================================
