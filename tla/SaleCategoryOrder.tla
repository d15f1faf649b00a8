------------------------- MODULE SaleCategoryOrder -------------------------
(***************************************************************************)
(* What the sale categories promise the shop front: under every parent an  *)
(* ordered list of categories.  A new one comes last; a moved one goes     *)
(* first or directly after the sibling it was dropped on; nothing else     *)
(* changes its order.  SaleCategories implements it with priorities.       *)
(***************************************************************************)
EXTENDS SequencesExt

CONSTANTS Category, NoParent

VARIABLE lists   \* the categories below each parent, in order

Parents == Category \cup {NoParent}

Listed(p) == ToSet(lists[p])

\* p is c, or below c.
Under(c, p) ==
  \A S \in SUBSET Category :
     (c \in S /\ \A x \in S : Listed(x) \subseteq S) => p \in S

Init == lists = [p \in Parents |-> <<>>]

Present == UNION {Listed(p) : p \in Parents}

\* A new category at the end of its siblings.
Add(c, p) ==
  /\ c \notin Present
  /\ p \in Present \cup {NoParent}
  /\ lists' = [lists EXCEPT ![p] = Append(@, c)]

\* The list s with c directly after left, or first.
After(s, left, c) ==
  InsertAt(s, IF left = NoParent THEN 1 ELSE 1 + SelectInSeq(s, LAMBDA x : x = left), c)

\* c is dropped below p, after one of the siblings it will have there.
Drop(c, p, left) ==
  /\ c \in Present
  /\ p \in Present \cup {NoParent}
  /\ left \in (Listed(p) \cup {NoParent}) \ {c}
  /\ lists' = LET without == [q \in Parents |-> RemoveFirst(lists[q], c)]
              IN  [without EXCEPT ![p] = After(@, left, c)]
  /\ ~Under(c, p)

Next ==
  \E c \in Category, p \in Parents :
    \/ Add(c, p)
    \/ \E left \in Parents : Drop(c, p, left)

Spec == Init /\ [][Next]_lists
=============================================================================
