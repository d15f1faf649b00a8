------------------------------- MODULE FileImports -------------------------------
(***************************************************************************)
(* One file of products and the retries of its rows:                       *)
(* app/services/imports/file_import.py.                                    *)
(*                                                                         *)
(* A row is a product of its own (don), the parent of the rows with its    *)
(* tag (cha) or one of those (con).  A retry of a con row creates the      *)
(* parent when no row of the tag names a product.  The importers are in    *)
(* catalog/biz, which is not in the repository: one that succeeds has      *)
(* committed the session, as create_product, create_variants and           *)
(* create_sellable_products do, and one that fails returns a message and   *)
(* leaves the session as it is.  Retries run at the same time and see what *)
(* others have committed; locks are left out, and so are the data of rows, *)
(* which is all that a request with save_only changes.                     *)
(***************************************************************************)
EXTENDS Integers, FiniteSets, SequencesExt

CONSTANTS
  Line,       \* the rows of the file
  KindOf,     \* [Line -> {"don", "cha", "con"}]
  TagOf,      \* [Line -> tags]: what a parent and its children share
  Request,    \* retry requests that may run at the same time
  MaxRetries, \* bound: how many retries are made
  MaxLines    \* bound: how many rows a retry names

\* The rows of a file are finitely many, and a tag has one parent row: tags
\* are made so that they join a parent with its children (ResultImport.tag).
ASSUME FileConstants ==
  /\ IsFiniteSet(Line)
  /\ KindOf \in [Line -> {"don", "cha", "con"}]
  /\ \A k, l \in Line :
       KindOf[k] = "cha" /\ KindOf[l] = "cha" /\ TagOf[k] = TagOf[l] => k = l

VARIABLES
  file,      \* "none", "new" (committed), "announced" or "done"
  line,      \* result_imports, as committed: status and product, 0 for none
  total,     \* total_row_success, as committed
  products,  \* the tags of the products created, in order
  request,   \* what each retry request has left to do and not yet committed
  succeeded, \* how many rows were imported, retries counted
  disturbed, \* whether two requests overlapped or one died
  excused,   \* tags two requests handled at once, or one that died
  retries

fileVars == <<file, line, total, products, request, succeeded, disturbed, excused, retries>>

NoLine == [status |-> "none", product |-> 0]
Idle == [todo |-> <<>>, lines |-> {}, pending |-> [l \in {} |-> NoLine], total |-> 0,
         phase |-> "idle"]

FileInit ==
  /\ file = "none"
  /\ line = [l \in Line |-> NoLine]
  /\ total = 0 /\ succeeded = 0
  /\ products = <<>>
  /\ request = [s \in Request |-> Idle]
  /\ disturbed = FALSE /\ excused = {}
  /\ retries = 0

\* import_file: the record is committed when the file server has the file.
Upload ==
  /\ file = "none" /\ file' = "new"
  /\ UNCHANGED <<line, total, products, request, succeeded, disturbed, excused, retries>>

\* Its signal, which is not sent when the worker dies before.
Announce ==
  /\ file = "new" /\ file' = "announced"
  /\ UNCHANGED <<line, total, products, request, succeeded, disturbed, excused, retries>>

\* The background job: any rows of it succeed, children only with their parent.
Process ==
  /\ file = "announced" /\ file' = "done"
  /\ \E ok \in SUBSET Line :
       LET parents == {l \in ok : KindOf[l] # "con"}
           order == SetToSeq(parents)
       IN  /\ \A l \in ok : KindOf[l] = "con" =>
                \E p \in parents : KindOf[p] = "cha" /\ TagOf[p] = TagOf[l]
           /\ products' = [n \in DOMAIN order |-> TagOf[order[n]]]
           /\ line' = [l \in Line |->
                [status  |-> IF l \in ok THEN "SUCCESS" ELSE "FAILURE",
                 product |-> IF l \in ok
                             THEN CHOOSE n \in DOMAIN order : TagOf[order[n]] = TagOf[l]
                             ELSE 0]]
           /\ total' = Cardinality(ok) /\ succeeded' = Cardinality(ok)
  /\ UNCHANGED <<request, disturbed, excused, retries>>

Open(s) == request[s].phase # "idle"

\* save_retry_result until its loop, for some rows in the order the database
\* returns them.
BeginRetry(s, order) ==
  /\ file = "done" /\ ~Open(s) /\ Len(order) \in 1..MaxLines
  /\ retries < MaxRetries /\ retries' = retries + 1
  /\ request' = [request EXCEPT ![s] =
       [Idle EXCEPT !.todo = order, !.lines = ToSet(order), !.phase = "row"]]
  /\ LET others == UNION {request[t].lines : t \in Request \ {s}}
         tags(ls) == {TagOf[l] : l \in ls}
     IN  /\ disturbed' = (disturbed \/ others # {})
         /\ excused' = excused \cup (tags(others) \cap tags(ToSet(order)))
  /\ UNCHANGED <<file, line, total, products, succeeded>>

Now(s) == Head(request[s].todo)

\* The committed rows and count with what request s has pending.
Seen(s) == [l \in Line |-> IF l \in DOMAIN request[s].pending THEN request[s].pending[l]
                           ELSE line[l]]

\* total_row_success as request s sees it.
CountOf(s) == IF request[s].total # 0 THEN request[s].total ELSE total

\* A commit of request s.
Commit(s) ==
  /\ line' = Seen(s)
  /\ total' = CountOf(s)

\* What request s has pending when row becomes that of the line at hand.
Pend(s, row) ==
  [x \in DOMAIN request[s].pending \cup {Now(s)} |->
     IF x = Now(s) THEN row ELSE request[s].pending[x]]

\* Mutant of Siblings: only the row itself is asked.
SiblingsItself(s) == {l \in {Now(s)} : Seen(s)[l].product > 0}

\* The rows from which a con row takes its parent.
Siblings(s) == {l \in Line : TagOf[l] = TagOf[Now(s)] /\ Seen(s)[l].product > 0}

\* import_row_cha for a con row without a parent: the product is committed,
\* and then named by the row.
CreateParent(s) ==
  /\ request[s].phase = "row" /\ request[s].todo # <<>>
  /\ KindOf[Now(s)] = "con" /\ Siblings(s) = {}
  /\ products' = Append(products, TagOf[Now(s)])
  /\ Commit(s)
  /\ request' = [request EXCEPT ![s] = [@ EXCEPT
       !.pending = [x \in {Now(s)} |-> [Seen(s)[Now(s)] EXCEPT !.product = Len(products) + 1]],
       !.total = 0, !.phase = "con"]]
  /\ UNCHANGED <<file, succeeded, disturbed, excused, retries>>

\* Mutant of Adopted: the row does not name the product.
AdoptedUnnamed(s, l) == Seen(s)[Now(s)]

\* The row at hand with the product of row l.
Adopted(s, l) == [Seen(s)[Now(s)] EXCEPT !.product = Seen(s)[l].product]

\* The parent a row has found.
TakeParent(s) ==
  /\ request[s].phase = "row" /\ request[s].todo # <<>>
  /\ KindOf[Now(s)] = "con"
  /\ \E l \in Siblings(s) :
       request' = [request EXCEPT ![s] = [@ EXCEPT
         !.pending = Pend(s, Adopted(s, l)),
         !.phase = "con"]]
  /\ UNCHANGED <<file, line, total, products, succeeded, disturbed, excused, retries>>

\* A row may be imported: a don row, or a con row that has its parent.
Ready(s) ==
  /\ request[s].todo # <<>>
  /\ \/ request[s].phase = "row" /\ KindOf[Now(s)] = "don"
     \/ request[s].phase = "con"

\* The importer succeeds: it has committed, and then the count is read and
\* set, and the status.
Succeed(s) ==
  /\ Ready(s)
  /\ products' = IF KindOf[Now(s)] = "don" THEN Append(products, TagOf[Now(s)]) ELSE products
  /\ Commit(s)
  /\ succeeded' = succeeded + 1
  /\ request' = [request EXCEPT ![s] = [@ EXCEPT
       !.pending = [x \in {Now(s)} |-> [Seen(s)[Now(s)] EXCEPT !.status = "SUCCESS"]],
       !.total = CountOf(s) + 1, !.todo = Tail(request[s].todo), !.phase = "row"]]
  /\ UNCHANGED <<file, disturbed, excused, retries>>

\* An importer, of the row or of its parent, returns a message.
FailRow(s) ==
  /\ Ready(s) \/ (request[s].phase = "row" /\ request[s].todo # <<>>
                  /\ KindOf[Now(s)] = "con" /\ Siblings(s) = {})
  /\ request' = [request EXCEPT ![s] = [@ EXCEPT
       !.pending = Pend(s, [Seen(s)[Now(s)] EXCEPT !.status = "FAILURE"]),
       !.todo = Tail(request[s].todo), !.phase = "row"]]
  /\ UNCHANGED <<file, line, total, products, succeeded, disturbed, excused, retries>>

\* A cha row: no branch sets the result, and reading it raises; the row is
\* left as it is.
SkipParentRow(s) ==
  /\ request[s].phase = "row" /\ request[s].todo # <<>> /\ KindOf[Now(s)] = "cha"
  /\ request' = [request EXCEPT ![s].todo = Tail(@)]
  /\ UNCHANGED <<file, line, total, products, succeeded, disturbed, excused, retries>>

\* The commit at the end of the loop.
EndRetry(s) ==
  /\ Open(s) /\ request[s].todo = <<>>
  /\ Commit(s)
  /\ request' = [request EXCEPT ![s] = Idle]
  /\ UNCHANGED <<file, products, succeeded, disturbed, excused, retries>>

\* The worker dies, and with it what was not committed.
DieRetrying(s) ==
  /\ Open(s)
  /\ request' = [request EXCEPT ![s] = Idle]
  /\ disturbed' = TRUE
  /\ excused' = excused \cup {TagOf[l] : l \in request[s].lines}
  /\ UNCHANGED <<file, line, total, products, succeeded, retries>>

FileNext ==
  \/ Upload \/ Announce \/ Process
  \/ \E s \in Request :
       \/ \E ls \in SUBSET Line : \E order \in SetToSeqs(ls) : BeginRetry(s, order)
       \/ CreateParent(s) \/ TakeParent(s) \/ Succeed(s) \/ FailRow(s)
       \/ SkipParentRow(s) \/ EndRetry(s) \/ DieRetrying(s)

FileSpec == FileInit /\ [][FileNext]_fileVars

-----------------------------------------------------------------------------
(* Properties.                                                             *)

\* A child that was imported names a product of its tag, in whatever order
\* requests committed and wherever one died.
ChildrenHaveParents ==
  \A l \in Line :
    KindOf[l] = "con" /\ line[l].status = "SUCCESS" =>
      line[l].product \in DOMAIN products /\ products[line[l].product] = TagOf[l]

\* Children share one parent: a tag has a second product only if two requests
\* handled rows of it at once, or one died while it did.
OneParent ==
  \A i, j \in DOMAIN products :
    i # j /\ products[i] = products[j] =>
      \/ products[i] \in excused
      \/ \E l \in Line : TagOf[l] = products[i] /\ KindOf[l] = "don"

\* The count is never above the number of successful imports (those of a row
\* that had succeeded before are counted again, by the code and here), and
\* below it only after requests overlapped or died, or while one has yet to
\* commit.
TotalCounts ==
  /\ total <= succeeded
  /\ ~disturbed /\ (\A s \in Request : ~Open(s)) => total = succeeded

\* What the retries of a file keep, in whatever order requests run and commit:
\* imported children name a parent and share it, and each success counts once.
RetriesSound == ChildrenHaveParents /\ OneParent /\ TotalCounts
=============================================================================
