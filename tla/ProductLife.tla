---------------------------- MODULE ProductLife ----------------------------
(***************************************************************************)
(* The life of products, variants and sellable products (SKUs):            *)
(* app/services/products/product.py, variant.py and sellable.py.           *)
(*                                                                         *)
(* A product has variants, a variant has one SKU that is sold.  The SKU    *)
(* repeats the product of its variant, all three carry an editing status,  *)
(* and SKUs are numbered by month.  Requests create, group, release and    *)
(* delete them; every request modelled here has one commit, at its end, so *)
(* it is one step.  Two requests that overlap are not modelled.            *)
(*                                                                         *)
(* Not in the repository: the tables (taken without foreign keys, since    *)
(* the deletions below delete the referenced rows first) and the           *)
(* validators (taken to ask that an SKU is created for a variant of the    *)
(* product that is named, and for a variant without one).                  *)
(***************************************************************************)
EXTENDS Integers, FiniteSets, FiniteSetsExt, Functions

CONSTANTS
  Product, Variant,  \* ids; a key is never handed out twice
  Attribute,         \* attributes that do not make variants differ
  Requested,         \* bound: the editing statuses requests ask for
  Bundles,           \* bound: the values of is_bundle
  Block,             \* how many numbers a month has, by is_bundle
  MaxMonth,          \* bound: the last month
  MaxBatch           \* bound: how many SKUs one request creates or changes

\* Statuses that a product and a variant take over unless they are active.
Spreading == {"pending_approval", "reject", "inactive"}

\* Statuses that only the SKU takes.
OwnOnly == {"processing", "suspend"}

Status == {"draft", "active"} \cup Spreading \cup OwnOnly

ASSUME ConstantsAssumption ==
  /\ Requested \subseteq Status \ {"draft"}
  /\ Bundles \subseteq BOOLEAN
  /\ Block \in [BOOLEAN -> Nat \ {0}]
  /\ MaxMonth \in Nat
  /\ MaxBatch \in Nat

VARIABLES
  product,   \* products: is_bundle and editing_status_code
  variant,   \* product_variants: product_id and editing_status_code
  sku,       \* sellable_products, by their variant_id
  attrs,     \* variant_attribute: the attributes each variant has a value for
  used,      \* the ids handed out
  month,     \* the month that strftime('%y%m') prints
  abandoned, \* SKUs that delete_product left behind
  lost,      \* the products it left them of
  orphans    \* variants that it deleted without their rows in attrs

vars == <<product, variant, sku, attrs, used, month, abandoned, lost, orphans>>

-----------------------------------------------------------------------------

Init ==
  /\ product = <<>>
  /\ variant = <<>>
  /\ sku = <<>>
  /\ attrs = [v \in Variant |-> {}]
  /\ used = {}
  /\ month = 0
  /\ abandoned = {}
  /\ lost = {}
  /\ orphans = {}

VariantsOf(p) == {v \in DOMAIN variant : variant[v].product = p}
SkusOf(p) == {v \in DOMAIN sku : sku[v].product = p}

\* f without the rows of S.
Without(f, S) == [x \in DOMAIN f \ S |-> f[x]]

\* Time passes.
NextMonth ==
  /\ month < MaxMonth
  /\ month' = month + 1
  /\ UNCHANGED <<product, variant, sku, attrs, used, abandoned, lost, orphans>>

-----------------------------------------------------------------------------
(* Creating.                                                               *)

\* create_product.  The status is the default of the column.
CreateProduct(p, bundle) ==
  /\ p \notin used
  /\ used' = used \cup {p}
  /\ product' = [q \in DOMAIN product \cup {p} |->
                   IF q = p THEN [bundle |-> bundle, status |-> "draft"] ELSE product[q]]
  /\ UNCHANGED <<variant, sku, attrs, month, abandoned, lost, orphans>>

\* create_variants, for a product that exists.
CreateVariants(p, vs) ==
  /\ p \in DOMAIN product
  /\ vs \cap used = {}
  /\ used' = used \cup vs
  /\ variant' = [v \in DOMAIN variant \cup vs |->
                   IF v \in vs THEN [product |-> p, status |-> "draft"] ELSE variant[v]]
  /\ UNCHANGED <<product, sku, attrs, month, abandoned, lost, orphans>>

\* upsert_variant_attributes: a value is given or taken away.
SetAttributes(v, as) ==
  /\ v \in DOMAIN variant
  /\ attrs' = [attrs EXCEPT ![v] = as]
  /\ UNCHANGED <<product, variant, sku, used, month, abandoned, lost, orphans>>

\* The numbers in use that begin with the month.
NumbersOf(bundle) ==
  {n \in {sku[s].number : s \in {t \in DOMAIN sku : sku[t].bundle = bundle}} :
     n \div Block[bundle] = month}

\* Mutant of NewNumber: as many as there are, as if none were ever deleted.
NumberByCount(bundle) == month * Block[bundle] + Cardinality(NumbersOf(bundle))

\* gen_new_sku and gen_new_bundle_sku: the highest number of the month plus
\* one.  Numbers are year and month followed by as many digits as Block has.
NewNumber(bundle) ==
  IF NumbersOf(bundle) = {} THEN month * Block[bundle] ELSE Max(NumbersOf(bundle)) + 1

\* Mutant of BatchNumber: counted from the highest number, not the new one.
BatchNumberFromMax(bundle, i) == Min({NewNumber(bundle) + i - 2, (month + 1) * Block[bundle]})

\* The number of the i-th SKU of a request.  Once the number after the last
\* one of the month is given out, the next query does not find it.
BatchNumber(bundle, i) == Min({NewNumber(bundle) + i - 1, (month + 1) * Block[bundle]})

\* create_sellable_products, for the variants that the sequence vs names.
CreateSkus(p, vs) ==
  /\ p \in DOMAIN product
  /\ Range(vs) \subseteq VariantsOf(p) \ DOMAIN sku
  /\ sku' = [v \in DOMAIN sku \cup Range(vs) |->
               IF v \in DOMAIN sku THEN sku[v]
               ELSE [product |-> p,
                     status  |-> "processing",
                     bundle  |-> product[p].bundle,
                     number  |-> BatchNumber(product[p].bundle,
                                   CHOOSE i \in DOMAIN vs : vs[i] = v)]]
  /\ product' = [product EXCEPT ![p].status = "processing"]
  /\ UNCHANGED <<variant, attrs, used, month, abandoned, lost, orphans>>

-----------------------------------------------------------------------------
(* Editing statuses.                                                       *)

\* Mutant of Spread: an active one takes over every status.
SpreadAlways(old, s) ==
  IF s = "active" \/ s \in Spreading THEN s ELSE old

\* What a product or a variant of status old becomes when its SKU gets s.
Spread(old, s) ==
  IF s = "active" \/ (s \in Spreading /\ old # "active") THEN s ELSE old

\* update_sellable_editing_status for the SKUs S.  It finds the product
\* through the variant; where one of them is missing it raises.
SetStatus(S, s) ==
  /\ S \subseteq DOMAIN sku \cap DOMAIN variant
  /\ LET ps == {variant[v].product : v \in S}
     IN  /\ ps \subseteq DOMAIN product
         /\ product' = [p \in DOMAIN product |->
              IF p \in ps THEN [product[p] EXCEPT !.status = Spread(@, s)] ELSE product[p]]
  /\ variant' = [v \in DOMAIN variant |->
       IF v \in S THEN [variant[v] EXCEPT !.status = Spread(@, s)] ELSE variant[v]]
  /\ sku' = [v \in DOMAIN sku |->
       IF v \in S THEN [sku[v] EXCEPT !.status = s] ELSE sku[v]]
  /\ UNCHANGED <<attrs, used, month, abandoned, lost, orphans>>

-----------------------------------------------------------------------------
(* Moving SKUs to another product.                                         *)

\* Mutant of Rehomed: a row that is active stays where it is.
RehomedUnlessActive(f, S, p) ==
  [x \in DOMAIN f |-> IF x \in S /\ f[x].status # "active"
                      THEN [f[x] EXCEPT !.product = p] ELSE f[x]]

\* The rows of S in f belong to p now.
Rehomed(f, S, p) ==
  [x \in DOMAIN f |-> IF x \in S THEN [f[x] EXCEPT !.product = p] ELSE f[x]]

\* move_group.  That the two agree in attribute set, model and brand is up
\* to the request; without its variant the SKU is not moved.
MoveGroup(from, to) ==
  /\ from \in DOMAIN sku \cap DOMAIN variant
  /\ to \in DOMAIN sku
  /\ sku' = Rehomed(sku, {from}, sku[to].product)
  /\ variant' = Rehomed(variant, {from}, sku[to].product)
  /\ UNCHANGED <<product, attrs, used, month, abandoned, lost, orphans>>

\* Mutant of MovedAttrs: nothing is removed.
MovedAttrsKept(v, S, e) ==
  attrs[v] \cup (attrs[e] \ UNION {attrs[w] : w \in S})

\* The attributes of v when the SKUs S move beside the SKU e: those e lacks
\* are removed; those that none of S has are inserted.
MovedAttrs(v, S, e) ==
  (attrs[v] \cap attrs[e]) \cup (attrs[e] \ UNION {attrs[w] : w \in S})

\* move_skus_to_single_product: the SKUs S, and those of their variants that
\* exist, to p, of which e is the first SKU that the query returns.
MoveSkus(S, p, e) ==
  /\ S \subseteq DOMAIN sku
  /\ p \in DOMAIN product
  /\ e \in SkusOf(p)
  /\ sku' = Rehomed(sku, S, p)
  /\ variant' = Rehomed(variant, S, p)
  /\ attrs' = [v \in Variant |-> IF v \in S THEN MovedAttrs(v, S, e) ELSE attrs[v]]
  /\ UNCHANGED <<product, used, month, abandoned, lost, orphans>>

-----------------------------------------------------------------------------
(* Deleting.                                                               *)

\* Mutant of DeleteVariant: the SKU is forgotten.
DeleteVariantAlone(v) ==
  /\ variant' = Without(variant, {v})
  /\ attrs' = [attrs EXCEPT ![v] = {}]
  /\ UNCHANGED <<product, sku, used, month, abandoned, lost, orphans>>

\* delete_variant, which does not ask whether the variant exists.
DeleteVariant(v) ==
  /\ variant' = Without(variant, {v})
  /\ attrs' = [attrs EXCEPT ![v] = {}]
  /\ sku' = Without(sku, {v})
  /\ abandoned' = abandoned \ {v}
  /\ orphans' = orphans \ {v}
  /\ UNCHANGED <<product, used, month, lost>>

\* delete_draft_product: the variants go with their attributes, SKUs are not
\* looked for.
DeleteDraft(p) ==
  /\ p \in DOMAIN product
  /\ product[p].status = "draft"
  /\ product' = Without(product, {p})
  /\ variant' = Without(variant, VariantsOf(p))
  /\ attrs' = [v \in Variant |-> IF v \in VariantsOf(p) THEN {} ELSE attrs[v]]
  /\ UNCHANGED <<sku, used, month, abandoned, lost, orphans>>

\* delete_product, which looks for no attribute values.
DeleteProduct(p, all) ==
  /\ p \in DOMAIN product
  /\ product' = Without(product, {p})
  /\ variant' = Without(variant, VariantsOf(p))
  /\ sku' = IF all THEN Without(sku, SkusOf(p)) ELSE sku
  /\ abandoned' = IF all THEN abandoned \ SkusOf(p) ELSE abandoned \cup SkusOf(p)
  /\ lost' = IF ~all /\ SkusOf(p) # {} THEN lost \cup {p} ELSE lost
  /\ orphans' = orphans \cup VariantsOf(p)
  /\ UNCHANGED <<attrs, used, month>>

-----------------------------------------------------------------------------

\* The SKUs or variants of one request, and an order of them.
Batch == {S \in SUBSET Variant : S # {} /\ Cardinality(S) <= MaxBatch}
Orders == UNION {Bijection(1..Cardinality(S), S) : S \in Batch}

Next ==
  \/ NextMonth
  \/ \E p \in Product, bundle \in Bundles : CreateProduct(p, bundle)
  \/ \E p \in Product, vs \in Batch : CreateVariants(p, vs)
  \/ \E v \in Variant, as \in SUBSET Attribute : SetAttributes(v, as)
  \/ \E p \in Product, vs \in Orders : CreateSkus(p, vs)
  \/ \E S \in Batch, s \in Requested : SetStatus(S, s)
  \/ \E from, to \in Variant : MoveGroup(from, to)
  \/ \E S \in Batch, p \in Product, e \in Variant : MoveSkus(S, p, e)
  \/ \E v \in Variant : DeleteVariant(v)
  \/ \E p \in Product : DeleteDraft(p)
  \/ \E p \in Product, all \in BOOLEAN : DeleteProduct(p, all)

Spec == Init /\ [][Next]_vars

-----------------------------------------------------------------------------
(* Properties.                                                             *)

ProductRow == [bundle : BOOLEAN, status : Status]
VariantRow == [product : Product, status : Status]
SkuRow == [product : Product, status : Status, bundle : BOOLEAN, number : Nat]

\* The tables hold rows of their shapes, of ids that were handed out.
TypeOK ==
  /\ DOMAIN product \subseteq Product /\ \A p \in DOMAIN product : product[p] \in ProductRow
  /\ DOMAIN variant \subseteq Variant /\ \A v \in DOMAIN variant : variant[v] \in VariantRow
  /\ DOMAIN sku \subseteq Variant /\ \A v \in DOMAIN sku : sku[v] \in SkuRow
  /\ attrs \in [Variant -> SUBSET Attribute]
  /\ used \subseteq Product \cup Variant
  /\ DOMAIN product \cup DOMAIN variant \cup DOMAIN sku \subseteq used
  /\ month \in 0..MaxMonth
  /\ abandoned \subseteq DOMAIN sku
  /\ lost \cup orphans \subseteq used

\* An SKU and its variant name the same product, after any sequence of
\* creations, moves one by one or together, and deletions.  Half of the code
\* goes from the SKU to its product directly, the other half (the editing
\* status, the uom ratios) through the variant.
SkusFollowVariants ==
  \A v \in DOMAIN sku \cap DOMAIN variant : sku[v].product = variant[v].product

\* Variants and SKUs name products that exist, and SKUs and attribute values
\* name variants that exist, except what delete_product left behind: the
\* SKUs where it was told to keep them, and always the attribute values of
\* the variants it deleted.  No other deletion leaves such rows, also not
\* that of a draft, which never has an SKU (it does not look for them), even
\* though moves bring SKUs to products and take them away and insert
\* attribute values for variants they do not look for.
NothingDangles ==
  /\ \A v \in DOMAIN variant : variant[v].product \in DOMAIN product \cup lost
  /\ \A v \in DOMAIN sku : sku[v].product \in DOMAIN product \cup lost
  /\ DOMAIN sku \ DOMAIN variant \subseteq abandoned
  /\ \A v \in Variant : attrs[v] # {} => v \in DOMAIN variant \cup orphans

\* Active variants stay active; an active product that is not so any more
\* got new SKUs.
ReleaseKept ==
  /\ \A v \in DOMAIN variant \cap DOMAIN variant' :
       variant[v].status = "active" => variant'[v].status = "active"
  /\ \A p \in DOMAIN product \cap DOMAIN product' :
       (product[p].status = "active" /\ product'[p].status # "active")
         => \E v \in DOMAIN sku' \ DOMAIN sku : sku'[v].product = p

\* A release lasts: whatever becomes of other SKUs of the product, or later
\* of the same one, an active variant stays active, and an active product
\* stays active until SKUs are created for it, which puts it back to
\* processing although the ones it has are on sale.
ReleaseLasts == [][ReleaseKept]_vars

\* Numbers are taken from the SKUs that exist, and SKUs are deleted in
\* between: two SKUs still have the same number only if it is the one after
\* the last of a month, which gen_new_sku gives again to every further SKU.
NumbersDistinct ==
  \A s, t \in DOMAIN sku :
    (s # t /\ sku[s].bundle = sku[t].bundle /\ sku[s].number = sku[t].number)
      => sku[s].number > 0 /\ sku[s].number % Block[sku[s].bundle] = 0

\* An SKU that is moved to another product has no attribute afterwards that
\* the SKU it is moved next to lacks; moved alone, it has exactly those of
\* that one.  (Of several moved together, some may lack an attribute that
\* another one of them had.)
MovedTakeAttributes ==
  [][(\E v \in DOMAIN sku \cap DOMAIN sku' : sku'[v].product # sku[v].product) =>
       \A p \in DOMAIN product : \A e \in SkusOf(p), S \in Batch :
          MoveSkus(S, p, e) => \A v \in S :
             /\ attrs'[v] \subseteq attrs[e]
             /\ S = {v} => attrs'[v] = attrs[e]]_vars

=============================================================================
