----------------------------- MODULE VariantGroups -----------------------------
(* The variants of one product and the units they are sold in: variant.py  *)
(* writes, into every variant of a group, which variants are the same      *)
(* thing in other units (all_uom_ratios, "id:ratio,..."), create_sellable  *)
(* takes the number of the base unit from there, and the product detail    *)
(* names the base unit and offers the choices.  A variant has the          *)
(* variation attributes "uom" and "uom_ratio", and may have a "color";     *)
(* names, keys and codes are left out.  A request creates a batch of       *)
(* variants in one transaction and reads the others as they were when it   *)
(* began.                                                                  *)
EXTENDS NoValue, Integers, FiniteSets, Sequences

CONSTANTS
  Variant,      \* ids, from 1 on
  Worker,       \* requests that create variants at the same time
  Color, Unit,  \* options of two attributes
  Ratio,        \* values of the third; 1 is the base unit
  Batches,      \* bound: the variants requests create, sequences of rows
  MaxEdits      \* bound: edits and deletions of a behaviour

\* The attributes of a variant.
VariantRow ==
  {r \in [{"uom", "uom_ratio"} -> Unit \cup Ratio] \cup [{"uom", "uom_ratio", "color"} -> Unit \cup Ratio \cup Color] :
     /\ r["uom"] \in Unit /\ r["uom_ratio"] \in Ratio
     /\ "color" \in DOMAIN r => r["color"] \in Color}
Table == UNION {[vs -> VariantRow] : vs \in SUBSET Variant}
VariantRequest == [seen : Table, new : Table]
VariantSku == [status : {"processing", "active"}, uom_ratio : Ratio, seller_sku : Variant \cup {None}]

\* Ids are counted from one on.
ASSUME VariantAssumption ==
  /\ Variant \subseteq Nat \ {0} /\ \A v \in Variant : 1..v \subseteq Variant
  /\ None \notin Unit \cup Ratio \cup Variant /\ None \notin VariantRequest /\ None \notin VariantSku
  /\ \A batch \in Batches : batch \in Seq(VariantRow)

VARIABLES
  rows,       \* variant -> its attributes, for the variants that exist
  ratios,     \* all_uom_ratios: variant -> set of <<id, ratio>>
  next,       \* the next id
  request,    \* worker -> the transaction it is in, or None
  variantSku, \* variant -> its SKU, or None
  edits,      \* how many edits there were
  unsettled   \* groups that were edited, or created into by two at a time

variantVars == <<rows, ratios, next, request, variantSku, edits, unsettled>>

\* Variants are the same thing when they agree on all but unit and ratio.
Key(r) == [a \in DOMAIN r \ {"uom", "uom_ratio"} |-> r[a]]

Members(all, k) == {v \in DOMAIN all : Key(all[v]) = k}
BasesIn(all, k) == {v \in Members(all, k) : all[v]["uom_ratio"] = 1}
Listing(all, k) == {<<v, all[v]["uom_ratio"]>> : v \in Members(all, k)}

VariantInit ==
  /\ rows = <<>> /\ ratios = <<>> /\ next = 1
  /\ request = [w \in Worker |-> None]
  /\ variantSku = [v \in Variant |-> None]
  /\ edits = 0 /\ unsettled = {}

-----------------------------------------------------------------------------

\* The insertions of a request: seen by nobody else until it commits.
BeginCreate(w, batch) ==
  /\ request[w] = None
  /\ next + Len(batch) - 1 \in Variant
  /\ next' = next + Len(batch)
  /\ request' = [request EXCEPT ![w] =
       [seen |-> rows, new |-> [v \in next .. next + Len(batch) - 1 |-> batch[v - next + 1]]]]
  /\ UNCHANGED <<rows, ratios, variantSku, edits, unsettled>>

Joined(f, g) == [x \in DOMAIN f \cup DOMAIN g |-> IF x \in DOMAIN g THEN g[x] ELSE f[x]]

\* Mutant of Regrouped: only the new variants are told of their group.
RegroupedNew(all, new, before) ==
  [v \in DOMAIN before |->
     IF v \in DOMAIN new /\ BasesIn(all, Key(all[v])) # {} THEN Listing(all, Key(all[v])) ELSE before[v]]

\* __update_uoms: a group that has a base unit is written into all of its
\* members, as the request sees them; one that has none is left alone.
Regrouped(all, new, before) ==
  [v \in DOMAIN before |->
     IF v \in DOMAIN all /\ Key(all[v]) \in {Key(new[x]) : x \in DOMAIN new} /\ BasesIn(all, Key(all[v])) # {}
       THEN Listing(all, Key(all[v]))
       ELSE before[v]]

KeysOf(r) == {Key(r.new[v]) : v \in DOMAIN r.new}

FinishCreate(w) ==
  LET r == request[w]
      all == Joined(r.seen, r.new)
      before == Joined(ratios, [v \in DOMAIN r.new |-> {}])
      others == UNION {KeysOf(request[x]) : x \in {y \in Worker \ {w} : request[y] # None}}
  IN /\ r # None
     /\ rows' = Joined(rows, r.new)
     /\ ratios' = Regrouped(all, r.new, before)
     /\ unsettled' = unsettled \cup (KeysOf(r) \cap others)
     /\ request' = [request EXCEPT ![w] = None]
     /\ UNCHANGED <<next, variantSku, edits>>

\* A worker that dies rolls back.
AbortCreate(w) ==
  /\ request[w] # None
  /\ request' = [request EXCEPT ![w] = None]
  /\ UNCHANGED <<rows, ratios, next, variantSku, edits, unsettled>>

\* upsert_variant_attributes writes a value, or takes it away, and leaves
\* the groups as they are.  A request in the middle of a creation does not
\* see it, so its groups count as unsettled too.
Upsert(v, a, value) ==
  LET rest == [b \in DOMAIN rows[v] \ {a} |-> rows[v][b]]
      row == IF value = None THEN rest ELSE Joined(rest, [b \in {a} |-> value])
  IN /\ edits < MaxEdits
     /\ rows' = [rows EXCEPT ![v] = row]
     /\ edits' = edits + 1
     /\ unsettled' = unsettled \cup {Key(rows[v]), Key(row)}
     /\ UNCHANGED <<ratios, next, request, variantSku>>

\* delete_variant leaves the id in the groups of the others.
DeleteVariant(v) ==
  /\ edits < MaxEdits
  /\ rows' = [x \in DOMAIN rows \ {v} |-> rows[x]]
  /\ ratios' = [x \in DOMAIN ratios \ {v} |-> ratios[x]]
  /\ variantSku' = [variantSku EXCEPT ![v] = None]
  /\ edits' = edits + 1
  /\ unsettled' = unsettled \cup {Key(rows[v])}
  /\ UNCHANGED <<next, request>>

-----------------------------------------------------------------------------

\* The base unit of a group as its string names it.
NamedBases(v) == {p[1] : p \in {q \in ratios[v] : q[2] = 1}}

\* create_sellable_product for a seller whose numbers are generated: a SKU
\* in another unit gets the seller's number of its base unit, if there is
\* one.  Without a base unit the request fails.
CreateSku(v) ==
  LET ratio == rows[v]["uom_ratio"] IN
  /\ variantSku[v] = None
  /\ \E b \in IF ratio = 1 THEN {v} ELSE NamedBases(v) :
       variantSku' = [variantSku EXCEPT ![v] =
         [status |-> "processing", uom_ratio |-> ratio,
          seller_sku |-> IF ratio = 1 THEN v
                         ELSE IF variantSku[b] # None THEN variantSku[b].seller_sku ELSE None]]
  /\ UNCHANGED <<rows, ratios, next, request, edits, unsettled>>

\* The listings only ask whether a SKU is active.
ActivateSku(v) ==
  /\ variantSku[v] # None /\ variantSku[v].status # "active"
  /\ variantSku' = [variantSku EXCEPT ![v].status = "active"]
  /\ UNCHANGED <<rows, ratios, next, request, edits, unsettled>>

VariantNext ==
  \/ \E w \in Worker :
       \/ \E batch \in Batches : BeginCreate(w, batch)
       \/ FinishCreate(w)
       \/ AbortCreate(w)
  \/ \E v \in DOMAIN rows :
       \/ \E a \in {"uom", "uom_ratio"}, value \in Unit \cup Ratio :
            /\ IF a = "uom" THEN value \in Unit ELSE value \in Ratio
            /\ Upsert(v, a, value)
       \/ \E value \in Color \cup {None} : Upsert(v, "color", value)
       \/ DeleteVariant(v)
       \/ CreateSku(v)
       \/ ActivateSku(v)

VariantSpec == VariantInit /\ [][VariantNext]_variantVars

-----------------------------------------------------------------------------
(* What the detail of a SKU of the product says (product_group.py).        *)

Sold == {v \in Variant : variantSku[v] # None}

\* get_variants: nothing for a single SKU, otherwise the active ones.
Listed == IF Cardinality(Sold) = 1 THEN {} ELSE {v \in Sold : variantSku[v].status = "active"}

\* __get_base_uom_name: empty when there is no base or it is gone.
BaseNames(v) ==
  IF ratios[v] = {} THEN {None}
  ELSE {IF b \in DOMAIN rows THEN rows[b]["uom"] ELSE None : b \in NamedBases(v)}

\* __get_attribute_value of the ratio: "box", or "box 12 piece".
RatioTexts(v) ==
  IF rows[v]["uom_ratio"] = 1 THEN {<<rows[v]["uom"]>>}
  ELSE {<<rows[v]["uom"], rows[v]["uom_ratio"], b>> : b \in BaseNames(v)}

\* __has_ratio_exchange, and the attributes that are left out.
RatioExchange == \E v \in Sold : variantSku[v].uom_ratio # 1
Excluded == IF RatioExchange THEN {"uom_ratio"} ELSE {"uom", "uom_ratio"}

\* The options some variant has, sold or not; those get_configurations offers.
OptionsHad(a) == {rows[v][a] : v \in {x \in DOMAIN rows : a \in DOMAIN rows[x]}}
Offered(a) == IF a \in Excluded THEN {} ELSE OptionsHad(a)

\* get_uoms_of_sellable_product: the SKUs a SKU says it can be bought as.
UomSkus(v) == {x \in Sold : \E p \in ratios[v] : p[1] = x}

-----------------------------------------------------------------------------

Quiet == {v \in DOMAIN rows : Key(rows[v]) \notin unsettled}

\* All variants of a group carry the same list, which names exactly the
\* group if it has a base unit and nobody otherwise.
GroupsWhole ==
  \A v \in Quiet :
    LET k == Key(rows[v]) IN
    ratios[v] = IF BasesIn(rows, k) = {} THEN {} ELSE Listing(rows, k)

\* The unit a listed SKU is said to be so many of is a base unit of its own
\* group, and SKUs that differ in their unit can be told apart by it.
ListingTellsUnits ==
  \A v \in Quiet \cap Listed :
    LET k == Key(rows[v]) IN
    /\ rows[v]["uom_ratio"] # 1 =>
         \A t \in RatioTexts(v) : \E b \in BasesIn(rows, k) : t[3] = rows[b]["uom"]
    /\ \A x \in Listed : x \in Members(rows, k) /\ rows[x]["uom_ratio"] # rows[v]["uom_ratio"] =>
         {rows[v]["uom"], rows[x]["uom"]} \subseteq Offered("uom")

\* A SKU can be bought as the SKUs of its group, itself among them, if the
\* group has a base unit, and as nothing else.
UomSkusShared ==
  \A v \in Quiet \cap Sold :
    UomSkus(v) = IF BasesIn(rows, Key(rows[v])) = {} THEN {} ELSE Members(rows, Key(rows[v])) \cap Sold

\* A SKU in another unit has its number from a base unit of its own group.
NumbersFromBase ==
  \A v \in Quiet \cap Sold : variantSku[v].seller_sku # None =>
    variantSku[v].seller_sku \in BasesIn(rows, Key(rows[v]))

VariantTypeOK ==
  /\ DOMAIN rows = DOMAIN ratios /\ DOMAIN rows \subseteq Variant
  /\ \A v \in DOMAIN rows :
       /\ rows[v] \in VariantRow
       /\ \A p \in ratios[v] : p[1] \in Variant /\ p[2] \in Ratio

\* Variants of one thing know each other, whatever requests create them,
\* and the detail and the numbers follow the groups.
VariantsKnowEachOther ==
  VariantTypeOK /\ GroupsWhole /\ ListingTellsUnits /\ UomSkusShared /\ NumbersFromBase
=============================================================================
