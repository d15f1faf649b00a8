----------------------------- MODULE SkuTerminals -----------------------------
(***************************************************************************)
(* Where a sellable product (SKU) is sold: its terminals and its terminal  *)
(* groups (app/services/products/sellable.py), and the terminals and group *)
(* mappings other services announce (app/services/terminal.py,             *)
(* app/services/terminal_group.py).                                        *)
(*                                                                         *)
(* The groups of SKUs are replaced by a delete with a commit of its own    *)
(* and an insert after it, so that requests overlap; a request that adds   *)
(* or removes groups reads the old ones before that.  Everything else is   *)
(* one transaction.  Messages arrive in any order and any number of times. *)
(***************************************************************************)
EXTENDS Skus, Integers, FiniteSets

CONSTANTS
  Session, Group,
  Terminal,   \* ids of terminals
  Code,       \* codes of terminals
  Type,       \* types of terminals
  Seller,     \* the sellers an SKU's terminals apply to
  Mapping,    \* ids of the mappings between terminals and groups
  All,        \* the terminal_codes "all"
  OrdersAsked, \* bound: the seller_terminals of requests
  MaxHandled  \* bound: how many requests and messages are handled

\* The shapes of orders, and of requests for groups.
SellerOrder == [seller : Seller, type : Type, codes : {All} \cup SUBSET Code]
GroupRequest ==
  [skus : SUBSET Sku, want : SUBSET Group, goal : SUBSET Group, stage : {"delete", "insert"}]

\* An order has one record for a seller and a type.
ASSUME TerminalAssumption ==
  /\ None \notin Terminal /\ None \notin Code /\ None \notin GroupRequest
  /\ \A codes \in SUBSET (Code \cup {None}) : codes # All
  /\ \A order \in OrdersAsked :
       /\ order \subseteq SellerOrder
       /\ \A o, p \in order : o.seller = p.seller /\ o.type = p.type => o = p

VARIABLES
  terminal,   \* terminals: id to code and type
  shown,      \* sellable_product_terminals of each SKU
  ordered,    \* what set_sellable_terminal was last asked for each SKU
  groups,     \* sellable_product_terminal_groups: how often each group
  upsert,     \* the request for groups each session works on, or None
  lone,       \* sessions whose request had its SKUs for itself so far
  asked,      \* the groups each SKU should have
  disturbed,  \* SKUs whose groups overlapping or dying requests left
  mapping,    \* terminal_group_terminals: id to terminal code and group
  first,      \* the first message about each mapping since it was deleted
  handled     \* how many requests and messages were handled

terminalTables == <<terminal, shown, ordered, mapping, first>>
groupWork == <<groups, upsert, lone, asked, disturbed>>
terminalVars == <<terminalTables, groupWork, handled>>

Handle == handled < MaxHandled /\ handled' = handled + 1

TerminalInit ==
  /\ terminal = [t \in {} |-> None]
  /\ shown = [k \in Sku |-> {}]
  /\ ordered = [k \in Sku |-> {}]
  /\ groups = [k \in Sku |-> [g \in Group |-> 0]]
  /\ upsert = [s \in Session |-> None]
  /\ lone = {}
  /\ asked = [k \in Sku |-> {}]
  /\ disturbed = {}
  /\ mapping = [i \in {} |-> None]
  /\ first = [i \in {} |-> None]
  /\ handled = 0

-----------------------------------------------------------------------------
(* Messages.                                                               *)

\* create_or_update_terminal: a terminal keeps its code.
UpsertTerminal(t, code, type) ==
  /\ Handle
  /\ t \in DOMAIN terminal => terminal[t].code = code
  /\ terminal' = [x \in DOMAIN terminal \cup {t} |->
                    IF x = t THEN [code |-> code, type |-> type] ELSE terminal[x]]
  /\ UNCHANGED <<shown, ordered, mapping, first, groupWork>>

\* Mutant of Remapped: the codes of a known mapping follow the message.
RemappedByLast(i, code, g) == <<code, g>>

\* upsert_terminal_group_mapping: of a known mapping it sets termial_id and
\* terminal_group_id, and not the two codes it fills in for a new one.
Remapped(i, code, g) == IF i \in DOMAIN mapping THEN mapping[i] ELSE <<code, g>>

MapGroup(i, code, g) ==
  /\ Handle
  /\ mapping' = [x \in DOMAIN mapping \cup {i} |->
                   IF x = i THEN Remapped(i, code, g) ELSE mapping[x]]
  /\ first' = [x \in DOMAIN first \cup {i} |->
                 IF x = i /\ i \notin DOMAIN first THEN <<code, g>> ELSE first[x]]
  /\ UNCHANGED <<terminal, shown, ordered, groupWork>>

\* delete_terminal_group_mapping.
UnmapGroups(is) ==
  /\ Handle
  /\ mapping' = [x \in DOMAIN mapping \ is |-> mapping[x]]
  /\ first' = [x \in DOMAIN first \ is |-> first[x]]
  /\ UNCHANGED <<terminal, shown, ordered, groupWork>>

-----------------------------------------------------------------------------
(* Terminals of SKUs.  An order is a set of records of a seller, a type and *)
(* terminal_codes, either All or a set of codes.                           *)

\* set_seller_terminals: the rows for one order; unknown codes are dropped.
Rows(order) ==
  UNION {IF o.codes = All THEN {[seller |-> o.seller, type |-> o.type, id |-> None, code |-> None]}
         ELSE {[seller |-> o.seller, type |-> o.type, id |-> t, code |-> terminal[t].code] :
                 t \in {x \in DOMAIN terminal : terminal[x].code \in o.codes}} : o \in order}

\* get_terminals_of_sellable_product: rows without a code stand for all.
TerminalsOf(k) ==
  {[seller |-> r.seller, type |-> r.type,
    codes |-> LET codes == {q.code : q \in {x \in shown[k] : x.seller = r.seller /\ x.type = r.type}}
              IN  IF codes = {None} THEN All ELSE codes] : r \in shown[k]}

\* Mutant of Unchanged: one SKU that is right is taken for all of them.
UnchangedForOne(ks, order) == \E k \in ks : TerminalsOf(k) = order

\* set_sellable_terminal asks every SKU whether it has the order already.
Unchanged(ks, order) == \A k \in ks : TerminalsOf(k) = order

\* What an order comes to when unknown codes are dropped.
Known(order) ==
  LET codes == {terminal[t].code : t \in DOMAIN terminal}
  IN  {o \in {[o EXCEPT !.codes = IF @ = All THEN All ELSE @ \cap codes] : o \in order} : o.codes # {}}

\* set_sellable_terminal.
SetTerminals(ks, order) ==
  /\ Handle
  /\ shown' = IF Unchanged(ks, order) THEN shown
              ELSE [k \in Sku |-> IF k \in ks THEN Rows(order) ELSE shown[k]]
  /\ ordered' = [k \in Sku |-> IF k \in ks THEN Known(order) ELSE ordered[k]]
  /\ UNCHANGED <<terminal, mapping, first, groupWork>>

\* _apply_terminal_filter: the SKUs sold at the terminal by its code, or at
\* all terminals of its type by the seller who asks.
FoundAtTerminal(t, seller) ==
  {k \in Sku : \E r \in shown[k] :
     \/ r.code = terminal[t].code
     \/ r.id = None /\ r.seller = seller /\ r.type = terminal[t].type}

-----------------------------------------------------------------------------
(* Terminal groups of SKUs.                                                *)

\* get_terminal_groups_of_sellable_product, for an SKU of the seller.
GroupsOf(k) == {g \in Group : groups[k][g] > 0}

Busy(k) == \E s \in Session : upsert[s] # None /\ k \in upsert[s].skus

\* A request for ks begins: it and every request for one of them that is
\* under way are no longer alone.
Enter(s, ks) ==
  LET others == {x \in Session : upsert[x] # None /\ upsert[x].skus \cap ks # {}}
  IN  lone' = IF others = {} THEN lone \cup {s} ELSE lone \ others

\* upsert_sellable_product_terminal_group is called.
SetGroups(s, ks, gs) ==
  /\ Handle
  /\ upsert[s] = None
  /\ Enter(s, ks)
  /\ upsert' = [upsert EXCEPT ![s] = [skus |-> ks, want |-> gs, goal |-> gs, stage |-> "delete"]]
  /\ UNCHANGED <<terminalTables, groups, asked, disturbed>>

\* Mutant of Changed: the groups to be removed are removed first.
ChangedAddingLast(old, new, gone) == (old \ gone) \cup new

\* The groups update_terminal_groups_for_sellable comes to.
Changed(old, new, gone) == (old \cup new) \ gone

\* update_terminal_groups_for_sellable reads what the SKU has.
ChangeGroups(s, k, new, gone) ==
  /\ Handle
  /\ upsert[s] = None
  /\ Enter(s, {k})
  /\ upsert' = [upsert EXCEPT ![s] =
       [skus |-> {k}, stage |-> "delete",
        want |-> Changed(GroupsOf(k), new, gone),
        goal |-> ((IF k \in disturbed THEN GroupsOf(k) ELSE asked[k]) \cup new) \ gone]]
  /\ UNCHANGED <<terminalTables, groups, asked, disturbed>>

\* Mutant of Delete: the old groups stay until the new ones are inserted.
DeleteNothing(s) ==
  /\ upsert[s] # None /\ upsert[s].stage = "delete"
  /\ upsert' = [upsert EXCEPT ![s].stage = "insert"]
  /\ UNCHANGED <<terminalTables, groups, lone, asked, disturbed, handled>>

\* The old groups of the SKUs are deleted, which is committed.
Delete(s) ==
  /\ upsert[s] # None /\ upsert[s].stage = "delete"
  /\ groups' = [k \in Sku |-> IF k \in upsert[s].skus THEN [g \in Group |-> 0] ELSE groups[k]]
  /\ upsert' = [upsert EXCEPT ![s].stage = "insert"]
  /\ UNCHANGED <<terminalTables, lone, asked, disturbed, handled>>

\* Mutant of Leave: the next request of the session is still taken for lone.
LeaveLone(s) ==
  /\ upsert' = [upsert EXCEPT ![s] = None]
  /\ lone' = lone

Leave(s) ==
  /\ upsert' = [upsert EXCEPT ![s] = None]
  /\ lone' = lone \ {s}

\* The new groups are inserted, each with each SKU.
Insert(s) ==
  /\ upsert[s] # None /\ upsert[s].stage = "insert"
  /\ groups' = [k \in Sku |-> IF k \notin upsert[s].skus THEN groups[k]
                  ELSE [g \in Group |-> groups[k][g] + IF g \in upsert[s].want THEN 1 ELSE 0]]
  /\ asked' = [k \in Sku |-> IF k \in upsert[s].skus THEN upsert[s].goal ELSE asked[k]]
  /\ disturbed' = IF s \in lone THEN disturbed \ upsert[s].skus ELSE disturbed \cup upsert[s].skus
  /\ Leave(s)
  /\ UNCHANGED <<terminalTables, handled>>

\* The worker dies: before the delete nothing has happened.
Crash(s) ==
  /\ upsert[s] # None
  /\ disturbed' = IF upsert[s].stage = "insert" THEN disturbed \cup upsert[s].skus ELSE disturbed
  /\ Leave(s)
  /\ UNCHANGED <<terminalTables, groups, asked, handled>>

TerminalNext ==
  \/ \E t \in Terminal, code \in Code, type \in Type : UpsertTerminal(t, code, type)
  \/ \E i \in Mapping, code \in Code, g \in Group : MapGroup(i, code, g)
  \/ \E is \in SUBSET Mapping : UnmapGroups(is)
  \/ \E ks \in (SUBSET Sku) \ {{}}, order \in OrdersAsked : SetTerminals(ks, order)
  \/ \E s \in Session, ks \in (SUBSET Sku) \ {{}}, gs \in SUBSET Group : SetGroups(s, ks, gs)
  \/ \E s \in Session, k \in Sku, new, gone \in SUBSET Group : ChangeGroups(s, k, new, gone)
  \/ \E s \in Session : Delete(s) \/ Insert(s) \/ Crash(s)

TerminalSpec == TerminalInit /\ [][TerminalNext]_terminalVars

-----------------------------------------------------------------------------
(* Properties.                                                             *)

\* The variables have the shapes given above; a session that is alone works.
TerminalTypeOK ==
  /\ DOMAIN terminal \subseteq Terminal
  /\ \A t \in DOMAIN terminal : terminal[t] \in [code : Code, type : Type]
  /\ groups \in [Sku -> [Group -> Nat]]
  /\ asked \in [Sku -> SUBSET Group] /\ disturbed \subseteq Sku
  /\ \A s \in Session : upsert[s] # None => upsert[s] \in GroupRequest
  /\ \A s \in lone : upsert[s] # None
  /\ \A i \in DOMAIN mapping : mapping[i] \in Code \X Group

\* When no request is about an SKU it has each group it should have, once,
\* and no other: setting replaces them, changing keeps those that are not
\* named.  Only requests for the same SKU that overlapped, or a worker that
\* died between the delete and the insert, leave anything else, until the
\* next request that has the SKU for itself.
GroupsAsAsked ==
  \A k \in Sku \ disturbed :
    ~Busy(k) => groups[k] = [g \in Group |-> IF g \in asked[k] THEN 1 ELSE 0]

\* Every SKU of a request is shown where the request says, with the codes
\* that were known then: reading the rows gives the order back, although an
\* order is not written if the SKUs seem to have it already.  The list query
\* of a seller finds it at the terminals that have one of the codes, and at
\* all of the type if the order is that seller's own.
TerminalsAsOrdered ==
  /\ \A k \in Sku : TerminalsOf(k) = ordered[k]
  /\ \A t \in DOMAIN terminal, seller \in Seller :
       FoundAtTerminal(t, seller) =
         {k \in Sku : \E o \in ordered[k] :
            IF o.codes = All THEN o.seller = seller /\ o.type = terminal[t].type
            ELSE terminal[t].code \in o.codes}

\* A mapping names the terminal and the group of the first message about it
\* since it was deleted, whatever later messages say.
MappingIsFirst == mapping = first

\* Terminal groups are what lone requests asked for, SKUs are shown at and
\* found by the terminals ordered, a mapping follows its first message.
TerminalsAsAsked == TerminalTypeOK /\ GroupsAsAsked /\ TerminalsAsOrdered /\ MappingIsFirst
=============================================================================
