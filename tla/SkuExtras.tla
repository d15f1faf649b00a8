------------------------------- MODULE SkuExtras -------------------------------
(***************************************************************************)
(* What an SKU has in tables of its own and one request writes:            *)
(* update_item_for_bundle_sellable, update_sellable_product_tag and        *)
(* upsert_info_of_sellable_product_on_terminals of                         *)
(* app/services/products/sellable.py, and create_sub_sku of                *)
(* app/services/products/product.py.                                       *)
(*                                                                         *)
(* Each reads the rows there are, writes what follows from them, commits,  *)
(* and then sends its signals one by one.  A request writes by what it     *)
(* read: the rows it saw are the ones it deletes or changes, a column that *)
(* is as it was read is not written, and where it saw no row it adds one,  *)
(* whatever others have committed since.                                   *)
(***************************************************************************)
EXTENDS Skus, Ascending, SequencesExt

CONSTANTS
  Bundle,      \* an SKU with items, beside those of Sku
  ItemLists,   \* the items it is given
  MaxSubs,     \* MAX_SUB_SKU
  Tag, TooLong, MaxTags, TagSets,  \* tags, those above 60 characters, 20, those given
  Text,        \* texts; None is one that is not sent
  Worker,
  MaxChanges   \* bound: how many requests are taken

ASSUME ExtrasAssumption ==
  /\ Bundle \notin Sku /\ ItemLists \subseteq Seq(Sku) /\ TagSets \subseteq SUBSET Tag
  /\ MaxSubs \in Nat /\ MaxChanges \in Nat
  /\ None \notin [by : Nat, sku : Sku, value : (SUBSET Tag) \cup Text \cup {None}]

VARIABLES
  about,    \* the table: "items", "tags", "texts" or "subs"
  extras,   \* its committed rows: by the request, for an SKU, with a value
  title,    \* the texts of the product, which its SKUs share
  gone,     \* SKUs that are deleted
  worker,   \* what each request has read and has left to do
  taken,    \* requests taken
  askedFor, \* SKU -> what requests one after the other have asked for, or None
  shared,   \* the same for title
  unsaid,   \* SKUs that changed since their last signal
  died      \* whether a request died before its last signal

extraVars == <<about, extras, title, gone, worker, taken, askedFor, shared, unsaid, died>>

Idle == [step |-> "idle"]
Owners == IF about = "items" THEN {Bundle} ELSE Sku
NothingAsked == IF about = "items" THEN <<>> ELSE IF about = "tags" THEN {} ELSE None
Signalled == about \in {"items", "texts"}  \* after the commit

ExtrasInit ==
  /\ about \in {"items", "tags", "texts", "subs"}
  /\ extras = {} /\ title = None /\ gone = {}
  /\ worker = [w \in Worker |-> Idle]
  /\ taken = 0
  /\ askedFor = [k \in Owners |-> [known |-> TRUE, value |-> NothingAsked]]
  /\ shared = [known |-> TRUE, value |-> None]
  /\ unsaid = {} /\ died = FALSE

RowsOf(k) == {r \in extras : r.sku = k}

\* query.first(): any of the rows, None without one.
First(k) == IF RowsOf(k) = {} THEN {None} ELSE RowsOf(k)

-----------------------------------------------------------------------------
(* What a request asks for: items of a bundle, tags that overwrite those   *)
(* there are or come to them, texts, of which None are not sent, or one    *)
(* sub SKU more.                                                           *)

Asks ==
  CASE about = "items" -> [sku : {Bundle}, items : {l \in ItemLists : ToSet(l) \cap gone = {}}]
    [] about = "tags"  -> [sku : Sku \ gone, tags : TagSets, overwrite : BOOLEAN]
    [] about = "subs"  -> [sku : Sku \ gone]
    [] about = "texts" -> [sku : Sku \ gone, title : Text \cup {None}, text : Text \cup {None}]

\* new_tags_set, from the tags of the row that was read.
NewTags(ask, old) == IF ask.overwrite THEN ask.tags ELSE old \cup ask.tags

Given(new, old) == IF new = None THEN old ELSE new

\* The value an ask makes of the old one.
Becomes(ask, old) ==
  CASE about = "items" -> ask.items
    [] about = "tags"  -> NewTags(ask, old)
    [] about = "texts" -> Given(ask.text, old)

\* Others are refused before anything is written.
Allowed(ask, old) ==
  /\ about = "tags" =>
       Cardinality(NewTags(ask, old)) <= MaxTags /\ NewTags(ask, old) \cap TooLong = {}
  /\ about = "subs" => Cardinality(RowsOf(ask.sku)) < MaxSubs

Begin(w, ask) ==
  /\ worker[w] = Idle /\ taken < MaxChanges
  /\ taken' = taken + 1
  /\ \E row \in First(ask.sku) :
       /\ Allowed(ask, IF row = None THEN NothingAsked ELSE row.value)
       /\ worker' = [worker EXCEPT ![w] =
            [step |-> "read", ask |-> ask, by |-> taken + 1,
             row |-> row, rows |-> extras, title |-> title]]
  /\ UNCHANGED <<about, extras, title, gone, askedFor, shared, unsaid, died>>

\* Mutant of Replaced: only the rows of items that are given again go.
ReplacedAgain(r) ==
  (extras \ {x \in r.rows : x.value[2] \in ToSet(r.ask.items)}) \cup
    {[by |-> r.by, sku |-> Bundle, value |-> <<n, r.ask.items[n]>>] : n \in DOMAIN r.ask.items}

\* The bundle's rows that were read are deleted, and one is added for each
\* item with its place in the list.
Replaced(r) ==
  (extras \ r.rows) \cup
    {[by |-> r.by, sku |-> Bundle, value |-> <<n, r.ask.items[n]>>] : n \in DOMAIN r.ask.items}

\* The row that was read is changed, or a new one is added.
Upserted(r) ==
  LET old == IF r.row = None THEN NothingAsked ELSE r.row.value
      new == Becomes(r.ask, old)
  IN  IF r.row = None THEN extras \cup {[by |-> r.by, sku |-> r.ask.sku, value |-> new]}
      ELSE {IF x.by = r.row.by /\ new # old THEN [x EXCEPT !.value = new] ELSE x : x \in extras}

\* _gen_sub_sku: the number after that of the rows that were counted.
Numbered(r) ==
  extras \cup {[by |-> r.by, sku |-> r.ask.sku,
             value |-> Cardinality({x \in r.rows : x.sku = r.ask.sku}) + 1]}

\* Nobody has committed to the rows of the SKU since they were read.
Alone(r) == RowsOf(r.ask.sku) = {x \in r.rows : x.sku = r.ask.sku}

\* Each item and then the bundle, or the SKU texts were sent for, though the
\* title is its siblings' as well.  Tags have no signal here, and that of a
\* sub SKU is sent before the commit.
Signals(ask) == IF about = "items" THEN Append(ask.items, Bundle) ELSE <<ask.sku>>

\* What requests have asked for one after the other; one that overlapped
\* another leaves it open until a request replaces it alone.
Follow(a, r) ==
  IF ~Alone(r) \/ (Cardinality(RowsOf(r.ask.sku)) > 1 /\ about \in {"tags", "texts"})
    THEN [a EXCEPT !.known = FALSE]
  ELSE IF about = "subs" THEN a
  ELSE IF a.known \/ about = "items" \/ (about = "tags" /\ r.ask.overwrite)
    THEN [known |-> TRUE, value |-> Becomes(r.ask, a.value)]
  ELSE a

Commit(w) ==
  LET r == worker[w] IN
  /\ r.step = "read"
  /\ extras' = CASE about = "items" -> Replaced(r)
               [] about = "subs"  -> Numbered(r)
               [] OTHER           -> Upserted(r)
  /\ IF about = "texts"
       THEN /\ title' = IF Given(r.ask.title, r.title) = r.title THEN title ELSE r.ask.title
            /\ shared' = [known |-> shared.known /\ title = r.title,
                          value |-> Given(r.ask.title, shared.value)]
       ELSE UNCHANGED <<title, shared>>
  /\ askedFor' = [askedFor EXCEPT ![r.ask.sku] = Follow(@, r)]
  /\ unsaid' = IF Signalled THEN unsaid \cup {r.ask.sku} ELSE {}
  /\ worker' = [worker EXCEPT ![w] =
                  IF Signalled THEN [step |-> "saying", left |-> Signals(r.ask)] ELSE Idle]
  /\ UNCHANGED <<about, gone, taken, died>>

\* One signal; what it starts reads what is committed by now.
Say(w) ==
  /\ worker[w].step = "saying"
  /\ IF worker[w].left = <<>>
       THEN worker' = [worker EXCEPT ![w] = Idle] /\ UNCHANGED unsaid
       ELSE /\ worker' = [worker EXCEPT ![w].left = Tail(@)]
            /\ unsaid' = unsaid \ {Head(worker[w].left)}
  /\ UNCHANGED <<about, extras, title, gone, taken, askedFor, shared, died>>

Die(w) ==
  /\ worker[w] # Idle
  /\ worker' = [worker EXCEPT ![w] = Idle]
  /\ died' = (died \/ worker[w].step = "saying")
  /\ UNCHANGED <<about, extras, title, gone, taken, askedFor, shared, unsaid>>

\* An item is deleted, while no request is under way.
DeleteItem(k) ==
  /\ about = "items" /\ gone = {} /\ \A w \in Worker : worker[w] = Idle
  /\ gone' = gone \cup {k}
  /\ UNCHANGED <<about, extras, title, worker, taken, askedFor, shared, unsaid, died>>

ExtrasNext ==
  \/ \E w \in Worker :
       \/ \E ask \in Asks : Begin(w, ask)
       \/ Commit(w) \/ Say(w) \/ Die(w)
  \/ \E k \in Sku : DeleteItem(k)

-----------------------------------------------------------------------------
(* Readers, and what they find.                                            *)

\* get_sellable_products_in_bundle: in the order of their places, rows of the
\* same place in any order; items that are deleted are left out.
InBundle ==
  {[n \in DOMAIN order |-> order[n].value[2]] :
     order \in {o \in SetToSeqs({r \in extras : r.value[2] \notin gone}) :
       \A m, n \in DOMAIN o : m < n => o[m].value[1] <= o[n].value[1]}}

\* What is read for an SKU.
Shown(k) ==
  IF about = "items" THEN InBundle
  ELSE {IF row = None THEN NothingAsked ELSE row.value : row \in First(k)}

\* The items of a list that are there, in its order.
Remaining(list) ==
  LET places == {n \in DOMAIN list : list[n] \notin gone}
  IN  [n \in 1 .. Cardinality(places) |-> list[Ascending(places)[n]]]

ExtrasTypeOK ==
  /\ \A r \in extras : r.by \in 1 .. taken /\ r.sku \in Owners
  /\ unsaid \subseteq Owners /\ gone \subseteq Sku

\* What is shown is what requests one after the other asked for, also after
\* overlapping ones left more, as soon as one replaces it alone.
ShownAsAsked ==
  /\ about # "subs" => \A k \in Owners : askedFor[k].known =>
       Shown(k) = {IF about = "items" THEN Remaining(askedFor[k].value) ELSE askedFor[k].value}
  /\ shared.known => title = shared.value

\* Also when requests overlap, a row never has more tags than are allowed,
\* and a list is in a bundle as a whole or not at all.
OverlapsBounded ==
  /\ about = "tags" => \A r \in extras : Cardinality(r.value) <= MaxTags
  /\ about = "items" => \A r \in extras : \E l \in ItemLists :
       {x.value : x \in {y \in extras : y.by = r.by}} = {<<n, l[n]>> : n \in DOMAIN l}

\* Sub SKUs are numbered from 1 on, each number once, unless requests
\* overlapped; then a number may stand twice and another be left out, but
\* none is above MaxSubs.
SubsNumbered ==
  about = "subs" => \A k \in Sku :
    LET numbers == {r.value : r \in RowsOf(k)}
    IN  /\ numbers \subseteq 1 .. MaxSubs
        /\ askedFor[k].known => numbers = 1 .. Cardinality(RowsOf(k))

\* A change is told after it can be read, or its request died before that.
ChangesTold ==
  \A k \in unsaid :
    \/ died
    \/ \E w \in Worker : worker[w].step = "saying" /\ k \in ToSet(worker[w].left)

ExtrasAsAsked == ExtrasTypeOK /\ ShownAsAsked /\ OverlapsBounded /\ SubsNumbered /\ ChangesTold
=============================================================================
