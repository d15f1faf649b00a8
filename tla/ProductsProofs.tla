--------------------------- MODULE ProductsProofs ---------------------------
(***************************************************************************)
(* Theorems about ProductLife, for any products, variants and attributes,  *)
(* any sizes of the blocks of numbers and any number of months; about      *)
(* SkuDetails, for any SKUs, barcodes, shipping types and categories, any  *)
(* trees and owners of these, and any requests; about SkuTerminals, for    *)
(* any SKUs, terminals, codes, groups and mappings, any orders that name a *)
(* seller and a type once, and any number of sessions; about               *)
(* SkuAttachments, for any SKUs, variants, tags, texts and lists, and any  *)
(* number of requests; and about SkuSearch, for any SKUs, products,        *)
(* categories, rows of terminals and sizes of a page, and any requests     *)
(* that name no seller by None.                                            *)
(***************************************************************************)
EXTENDS ProductLife, SkuDetails, SkuTerminals, SkuAttachments, SkuSearch, TLAPS,
        WellFoundedInduction, FiniteSetTheorems

\* A draft has no SKU: creating SKUs ends the draft, and a move goes to a
\* product that has one.
DraftsHaveNoSkus ==
  \A v \in DOMAIN sku :
    sku[v].product \in DOMAIN product => product[sku[v].product].status # "draft"

\* A delete_product deleted the variant of each SKU that has none: a move
\* inserts attribute values for such variants only.
StraysAreOrphans == DOMAIN sku \ DOMAIN variant \subseteq orphans

Inv ==
  /\ TypeOK
  /\ SkusFollowVariants
  /\ NothingDangles
  /\ DraftsHaveNoSkus
  /\ StraysAreOrphans

-----------------------------------------------------------------------------
(* Numbers.                                                                *)

\* A set of natural numbers has a least one.
LEMMA LeastExists ==
  ASSUME NEW T \in SUBSET Nat, T # {}
  PROVE  \E x \in T : \A y \in T : x <= y
<1>1. PICK x \in T : \A y \in T : ~(<<y, x>> \in OpToRel(<, Nat))
  BY NatLessThanWellFounded, WFMin
<1>2. \A y \in T : ~(y < x)
  BY <1>1 DEF OpToRel
<1>3. QED
  BY <1>2

\* Max finds an element of a bounded set of numbers.
LEMMA MaxIsElement ==
  ASSUME NEW T \in SUBSET Nat, T # {}, NEW b \in Nat, \A n \in T : n < b
  PROVE  Max(T) \in T /\ \A n \in T : n <= Max(T)
<1> DEFINE Gap == {b - n : n \in T}
<1>1. \A n \in T : n \in Nat /\ b - n \in Nat
  OBVIOUS
<1>2. Gap \in SUBSET Nat /\ Gap # {}
  BY <1>1
<1>3. PICK g \in Gap : \A h \in Gap : g <= h
  BY <1>2, LeastExists
<1>4. PICK x \in T : g = b - x
  BY <1>3
<1>5. ASSUME NEW y \in T
      PROVE  x >= y
  <2>1. b - x <= b - y
    BY <1>3, <1>4
  <2>2. QED
    BY <2>1, <1>1
<1>6. QED
  BY <1>5 DEF Max

LEMMA SmallerIsNat ==
  ASSUME NEW m \in Nat, NEW n \in Nat
  PROVE  Min({m, n}) \in Nat /\ Min({m, n}) = IF m <= n THEN m ELSE n
<1>1. \E x \in {m, n} : \A y \in {m, n} : x =< y
  OBVIOUS
<1>2. Min({m, n}) \in {m, n} /\ \A y \in {m, n} : Min({m, n}) <= y
  BY <1>1 DEF Min
<1>3. QED
  BY <1>2

LEMMA NumberBelowBlock ==
  ASSUME NEW n \in Nat, NEW b \in Nat \ {0}, NEW m \in Nat, n \div b = m
  PROVE  n < (m + 1) * b
OBVIOUS

LEMMA BlockBounds ==
  ASSUME NEW b \in Nat \ {0}, NEW m \in Nat
  PROVE  m * b \in Nat /\ (m + 1) * b \in Nat
OBVIOUS

\* What gen_new_sku returns is a number.
LEMMA NewNumberTyped ==
  ASSUME ConstantsAssumption, TypeOK, NEW bundle \in BOOLEAN
  PROVE  NewNumber(bundle) \in Nat
<1>1. Block[bundle] \in Nat \ {0} /\ month \in Nat
  BY DEF ConstantsAssumption, TypeOK
<1>2. NumbersOf(bundle) \in SUBSET Nat
  BY DEF NumbersOf, TypeOK, SkuRow
<1>3. \A n \in NumbersOf(bundle) : n \div Block[bundle] = month
  BY DEF NumbersOf
<1>4. \A n \in NumbersOf(bundle) : n < (month + 1) * Block[bundle]
  BY <1>1, <1>2, <1>3, NumberBelowBlock
<1>5. CASE NumbersOf(bundle) = {}
  BY <1>1, <1>5, BlockBounds DEF NewNumber
<1>6. CASE NumbersOf(bundle) # {}
  <2>1. (month + 1) * Block[bundle] \in Nat
    BY <1>1, BlockBounds
  <2>2. Max(NumbersOf(bundle)) \in NumbersOf(bundle)
    BY <1>2, <1>4, <1>6, <2>1, MaxIsElement
  <2>3. QED
    BY <1>2, <1>6, <2>2 DEF NewNumber
<1>7. QED
  BY <1>5, <1>6

LEMMA BatchNumberTyped ==
  ASSUME ConstantsAssumption, TypeOK, NEW bundle \in BOOLEAN, NEW i \in Nat \ {0}
  PROVE  BatchNumber(bundle, i) \in Nat
<1>1. NewNumber(bundle) + i - 1 \in Nat
  BY NewNumberTyped
<1>2. Block[bundle] \in Nat \ {0} /\ month \in Nat
  BY DEF ConstantsAssumption, TypeOK
<1>3. (month + 1) * Block[bundle] \in Nat
  BY <1>2, BlockBounds
<1>4. QED
  BY <1>1, <1>3, SmallerIsNat DEF BatchNumber

-----------------------------------------------------------------------------
(* The actions preserve the invariant.                                     *)

LEMMA InitInv == ASSUME ConstantsAssumption, Init PROVE Inv
<1>1. DOMAIN product = {} /\ DOMAIN variant = {} /\ DOMAIN sku = {}
  BY DEF Init
<1>2. TypeOK
  BY <1>1 DEF Init, TypeOK, ConstantsAssumption
<1>3. \A v \in Variant : attrs[v] = {}
  BY DEF Init
<1>4. QED
  BY <1>1, <1>2, <1>3 DEF Inv, SkusFollowVariants, NothingDangles, DraftsHaveNoSkus, StraysAreOrphans

LEMMA NextMonthInv == ASSUME ConstantsAssumption, Inv, NextMonth PROVE Inv'
<1> USE DEF Inv, NextMonth
<1>1. month' \in 0..MaxMonth
  BY DEF TypeOK, ConstantsAssumption
<1>2. TypeOK'
  BY <1>1 DEF TypeOK
<1>3. (SkusFollowVariants /\ NothingDangles /\ DraftsHaveNoSkus /\ StraysAreOrphans)'
  BY DEF SkusFollowVariants, NothingDangles, DraftsHaveNoSkus, StraysAreOrphans
<1>4. QED
  BY <1>2, <1>3

LEMMA CreateProductInv ==
  ASSUME ConstantsAssumption, Inv, NEW p \in Product, NEW bundle \in Bundles,
         CreateProduct(p, bundle)
  PROVE  Inv'
<1> USE DEF Inv, CreateProduct
<1>1. [bundle |-> bundle, status |-> "draft"] \in ProductRow
  BY DEF ConstantsAssumption, ProductRow, Status
<1>2. DOMAIN product' = DOMAIN product \cup {p} /\ p \notin DOMAIN product
  BY DEF TypeOK
<1>3. TypeOK'
  BY <1>1, <1>2 DEF TypeOK
<1>4. NothingDangles'
  BY <1>2 DEF NothingDangles
<1>5. \A v \in DOMAIN sku : sku[v].product # p \/ p \in lost
  BY <1>2 DEF NothingDangles
<1>6. p \notin lost
  BY DEF TypeOK
<1>7. DraftsHaveNoSkus' /\ StraysAreOrphans'
  BY <1>2, <1>5, <1>6 DEF DraftsHaveNoSkus, StraysAreOrphans
<1>8. QED
  BY <1>3, <1>4, <1>7 DEF SkusFollowVariants

LEMMA CreateVariantsInv ==
  ASSUME ConstantsAssumption, Inv, NEW p \in Product, NEW vs \in Batch,
         CreateVariants(p, vs)
  PROVE  Inv'
<1> USE DEF Inv, CreateVariants
<1>1. [product |-> p, status |-> "draft"] \in VariantRow
  BY DEF VariantRow, Status
<1>2. DOMAIN variant' = DOMAIN variant \cup vs /\ vs \subseteq Variant
  BY DEF Batch
<1>3. vs \cap DOMAIN sku = {}
  BY DEF TypeOK
<1>4. TypeOK'
  BY <1>1, <1>2 DEF TypeOK
<1>5. SkusFollowVariants'
  BY <1>2, <1>3 DEF SkusFollowVariants
<1>6. NothingDangles'
  BY <1>2 DEF NothingDangles
<1>7. QED
  BY <1>4, <1>5, <1>6 DEF DraftsHaveNoSkus, StraysAreOrphans

LEMMA SetAttributesInv ==
  ASSUME ConstantsAssumption, Inv, NEW v \in Variant, NEW as \in SUBSET Attribute,
         SetAttributes(v, as)
  PROVE  Inv'
<1> USE DEF Inv, SetAttributes
<1>1. TypeOK'
  BY DEF TypeOK
<1>2. \A w \in Variant : attrs'[w] # {} => w = v \/ attrs[w] # {}
  BY DEF TypeOK
<1>3. NothingDangles'
  BY <1>2 DEF NothingDangles
<1>4. QED
  BY <1>1, <1>3 DEF SkusFollowVariants, DraftsHaveNoSkus, StraysAreOrphans

LEMMA CreateSkusInv ==
  ASSUME ConstantsAssumption, Inv, NEW p \in Product, NEW vs \in Orders,
         CreateSkus(p, vs)
  PROVE  Inv'
<1> USE DEF Inv, CreateSkus
<1> DEFINE New == Range(vs)
<1>1. PICK S \in Batch : vs \in Bijection(1..Cardinality(S), S)
  BY DEF Orders
<1>2. /\ New \subseteq DOMAIN variant \ DOMAIN sku
      /\ \A v \in New : variant[v].product = p
  BY DEF VariantsOf
<1>3. DOMAIN sku' = DOMAIN sku \cup New
  OBVIOUS
<1>4. /\ \A v \in DOMAIN sku : sku'[v] = sku[v]
      /\ \A v \in New : sku'[v].product = p
  BY <1>2
<1>5. DOMAIN product' = DOMAIN product /\ p \in DOMAIN product
  OBVIOUS
<1>6. \A q \in DOMAIN product : product'[q].status # "draft" \/ product'[q] = product[q]
  OBVIOUS
<1>7. product'[p].status = "processing"
  BY DEF TypeOK, ProductRow
<1>8. ASSUME NEW v \in New
      PROVE  sku'[v] \in SkuRow
  <2> DEFINE i == CHOOSE j \in DOMAIN vs : vs[j] = v
  <2>1. \E j \in DOMAIN vs : vs[j] = v
    BY DEF Range
  <2>2. i \in DOMAIN vs
    BY <2>1
  <2>3. DOMAIN vs \subseteq Nat \ {0}
    BY <1>1 DEF Bijection, Injection, Surjection
  <2>4. product[p].bundle \in BOOLEAN
    BY DEF TypeOK, ProductRow
  <2>5. BatchNumber(product[p].bundle, i) \in Nat
    BY <2>2, <2>3, <2>4, BatchNumberTyped
  <2>6. sku'[v] = [product |-> p, status |-> "processing", bundle |-> product[p].bundle,
                   number |-> BatchNumber(product[p].bundle, i)]
    BY <1>2
  <2>7. QED
    BY <2>4, <2>5, <2>6 DEF SkuRow, Status, OwnOnly
<1>9. \A q \in DOMAIN product : product'[q] \in ProductRow
  BY DEF TypeOK, ProductRow, Status, OwnOnly
<1>10. TypeOK'
  BY <1>2, <1>3, <1>4, <1>5, <1>8, <1>9 DEF TypeOK
<1>11. SkusFollowVariants'
  BY <1>2, <1>3, <1>4 DEF SkusFollowVariants
<1>12. NothingDangles'
  BY <1>2, <1>3, <1>4, <1>5 DEF NothingDangles
<1>13. DraftsHaveNoSkus' /\ StraysAreOrphans'
  BY <1>2, <1>3, <1>4, <1>5, <1>6, <1>7 DEF DraftsHaveNoSkus, StraysAreOrphans
<1>14. QED
  BY <1>10, <1>11, <1>12, <1>13

LEMMA SpreadTyped ==
  ASSUME NEW old \in Status, NEW s \in Requested, ConstantsAssumption
  PROVE  /\ Spread(old, s) \in Status
         /\ old # "draft" => Spread(old, s) # "draft"
         /\ old = "active" => Spread(old, s) = "active"
BY DEF Spread, Status, ConstantsAssumption

LEMMA SetStatusInv ==
  ASSUME ConstantsAssumption, Inv, NEW S \in Batch, NEW s \in Requested,
         SetStatus(S, s)
  PROVE  Inv'
<1> USE DEF Inv, SetStatus
<1>1. /\ DOMAIN product' = DOMAIN product
      /\ DOMAIN variant' = DOMAIN variant
      /\ DOMAIN sku' = DOMAIN sku
  OBVIOUS
<1>2. s \in Status
  BY DEF ConstantsAssumption
<1>3. ASSUME NEW p \in DOMAIN product
      PROVE  /\ product'[p] \in ProductRow
             /\ product[p].status # "draft" => product'[p].status # "draft"
  <2>1. product[p] \in ProductRow /\ product[p].status \in Status
    BY DEF TypeOK, ProductRow
  <2>2. \/ product'[p] = product[p]
        \/ product'[p] = [product[p] EXCEPT !.status = Spread(product[p].status, s)]
    OBVIOUS
  <2>3. QED
    BY <2>1, <2>2, SpreadTyped DEF ProductRow
<1>4. ASSUME NEW v \in DOMAIN variant
      PROVE  variant'[v] \in VariantRow /\ variant'[v].product = variant[v].product
  <2>1. variant[v] \in VariantRow /\ variant[v].status \in Status
    BY DEF TypeOK, VariantRow
  <2>2. \/ variant'[v] = variant[v]
        \/ variant'[v] = [variant[v] EXCEPT !.status = Spread(variant[v].status, s)]
    OBVIOUS
  <2>3. QED
    BY <2>1, <2>2, SpreadTyped DEF VariantRow
<1>5. ASSUME NEW v \in DOMAIN sku
      PROVE  sku'[v] \in SkuRow /\ sku'[v].product = sku[v].product
  <2>1. sku[v] \in SkuRow
    BY DEF TypeOK
  <2>2. sku'[v] = sku[v] \/ sku'[v] = [sku[v] EXCEPT !.status = s]
    OBVIOUS
  <2>3. QED
    BY <1>2, <2>1, <2>2 DEF SkuRow
<1>6. TypeOK'
  BY <1>1, <1>3, <1>4, <1>5 DEF TypeOK
<1>7. SkusFollowVariants'
  BY <1>1, <1>4, <1>5 DEF SkusFollowVariants
<1>8. NothingDangles'
  BY <1>1, <1>4, <1>5 DEF NothingDangles
<1>9. DraftsHaveNoSkus' /\ StraysAreOrphans'
  BY <1>1, <1>3, <1>5 DEF DraftsHaveNoSkus, StraysAreOrphans
<1>10. QED
  BY <1>6, <1>7, <1>8, <1>9

\* Rows that are rehomed keep everything but their product.
LEMMA RehomedRows ==
  ASSUME NEW f, NEW S, NEW p \in Product, NEW R \in {VariantRow, SkuRow},
         \A x \in DOMAIN f : f[x] \in R
  PROVE  /\ DOMAIN Rehomed(f, S, p) = DOMAIN f
         /\ \A x \in DOMAIN f : Rehomed(f, S, p)[x] \in R
         /\ \A x \in DOMAIN f \cap S : Rehomed(f, S, p)[x].product = p
         /\ \A x \in DOMAIN f \ S : Rehomed(f, S, p)[x] = f[x]
<1>1. \A x \in DOMAIN f : /\ f[x] \in R
                          /\ [f[x] EXCEPT !.product = p] \in R
                          /\ [f[x] EXCEPT !.product = p].product = p
  BY DEF VariantRow, SkuRow
<1>2. QED
  BY <1>1 DEF Rehomed

\* Moving SKUs with their variants to a product that has an SKU.
LEMMA RehomingInv ==
  ASSUME ConstantsAssumption, Inv, NEW S, NEW p \in Product,
         NEW e \in DOMAIN sku, sku[e].product = p,
         sku' = Rehomed(sku, S, p), variant' = Rehomed(variant, S, p),
         attrs' \in [Variant -> SUBSET Attribute],
         \A v \in Variant : v \in S \/ attrs'[v] = attrs[v], S \subseteq DOMAIN sku,
         UNCHANGED <<product, used, month, abandoned, lost, orphans>>
  PROVE  Inv'
<1> USE DEF Inv
<1>1. /\ \A v \in DOMAIN sku : sku[v] \in SkuRow
      /\ \A v \in DOMAIN variant : variant[v] \in VariantRow
  BY DEF TypeOK
<1>2. /\ DOMAIN sku' = DOMAIN sku
      /\ \A v \in DOMAIN sku : sku'[v] \in SkuRow
      /\ \A v \in DOMAIN sku \cap S : sku'[v].product = p
      /\ \A v \in DOMAIN sku \ S : sku'[v] = sku[v]
  BY <1>1, RehomedRows
<1>3. /\ DOMAIN variant' = DOMAIN variant
      /\ \A v \in DOMAIN variant : variant'[v] \in VariantRow
      /\ \A v \in DOMAIN variant \cap S : variant'[v].product = p
      /\ \A v \in DOMAIN variant \ S : variant'[v] = variant[v]
  BY <1>1, RehomedRows
<1>4. TypeOK'
  BY <1>2, <1>3 DEF TypeOK
<1>5. SkusFollowVariants'
  BY <1>2, <1>3 DEF SkusFollowVariants
<1>6. p \in DOMAIN product \cup lost
  BY DEF NothingDangles
<1>7. NothingDangles'
  BY <1>2, <1>3, <1>6 DEF NothingDangles, StraysAreOrphans
<1>8. DraftsHaveNoSkus' /\ StraysAreOrphans'
  BY <1>2, <1>3 DEF DraftsHaveNoSkus, StraysAreOrphans
<1>9. QED
  BY <1>4, <1>5, <1>7, <1>8

LEMMA MoveGroupInv ==
  ASSUME ConstantsAssumption, Inv, NEW from \in Variant, NEW to \in Variant,
         MoveGroup(from, to)
  PROVE  Inv'
<1>1. sku[to].product \in Product
  BY DEF Inv, TypeOK, SkuRow, MoveGroup
<1>2. attrs' = attrs /\ attrs \in [Variant -> SUBSET Attribute]
  BY DEF Inv, TypeOK, MoveGroup
<1>3. to \in DOMAIN sku /\ {from} \subseteq DOMAIN sku
  BY DEF MoveGroup
<1>4. QED
  BY <1>1, <1>2, <1>3, RehomingInv DEF MoveGroup

LEMMA MoveSkusInv ==
  ASSUME ConstantsAssumption, Inv, NEW S \in Batch, NEW p \in Product,
         NEW e \in Variant, MoveSkus(S, p, e)
  PROVE  Inv'
<1>1. e \in DOMAIN sku /\ sku[e].product = p
  BY DEF MoveSkus, SkusOf
<1>2. \A v \in Variant : MovedAttrs(v, S, e) \in SUBSET Attribute
  BY DEF MovedAttrs, Inv, TypeOK
<1>3. attrs' \in [Variant -> SUBSET Attribute]
  BY <1>2 DEF MoveSkus, Inv, TypeOK
<1>4. \A v \in Variant : v \in S \/ attrs'[v] = attrs[v]
  BY DEF MoveSkus
<1>5. S \subseteq DOMAIN sku
  BY DEF MoveSkus
<1>6. QED
  BY <1>1, <1>3, <1>4, <1>5, RehomingInv DEF MoveSkus

LEMMA DeleteVariantInv ==
  ASSUME ConstantsAssumption, Inv, NEW v \in Variant, DeleteVariant(v)
  PROVE  Inv'
<1> USE DEF Inv, DeleteVariant, Without
<1>1. TypeOK'
  BY DEF TypeOK
<1>2. SkusFollowVariants' /\ DraftsHaveNoSkus' /\ StraysAreOrphans'
  BY DEF SkusFollowVariants, DraftsHaveNoSkus, StraysAreOrphans
<1>3. \A w \in Variant : attrs'[w] # {} => w # v /\ attrs[w] # {}
  BY DEF TypeOK
<1>4. NothingDangles'
  BY <1>3 DEF NothingDangles
<1>5. QED
  BY <1>1, <1>2, <1>4

LEMMA DeleteDraftInv ==
  ASSUME ConstantsAssumption, Inv, NEW p \in Product, DeleteDraft(p)
  PROVE  Inv'
<1> USE DEF Inv, DeleteDraft, Without
<1>1. \A v \in DOMAIN sku : sku[v].product # p
  BY DEF DraftsHaveNoSkus
<1>2. VariantsOf(p) \cap DOMAIN sku = {}
  BY <1>1 DEF SkusFollowVariants, VariantsOf
<1>3. \A v \in DOMAIN variant' : variant[v].product # p
  BY DEF VariantsOf
<1>4. TypeOK'
  BY DEF TypeOK
<1>5. NothingDangles'
  BY <1>1, <1>2, <1>3 DEF NothingDangles
<1>6. SkusFollowVariants' /\ DraftsHaveNoSkus' /\ StraysAreOrphans'
  BY <1>2 DEF SkusFollowVariants, DraftsHaveNoSkus, StraysAreOrphans
<1>7. QED
  BY <1>4, <1>5, <1>6

LEMMA DeleteProductInv ==
  ASSUME ConstantsAssumption, Inv, NEW p \in Product, NEW all \in BOOLEAN,
         DeleteProduct(p, all)
  PROVE  Inv'
<1> USE DEF Inv, DeleteProduct, Without
<1>1. \A v \in DOMAIN sku \cap VariantsOf(p) : v \in SkusOf(p)
  BY DEF SkusFollowVariants, VariantsOf, SkusOf
<1>2. \A v \in DOMAIN variant' : variant[v].product # p
  BY DEF VariantsOf
<1>3. \A v \in DOMAIN sku' : sku'[v] = sku[v] /\ (sku[v].product = p => p \in lost')
  BY DEF SkusOf
<1>4. TypeOK'
  <2>1. VariantsOf(p) \subseteq used /\ p \in used
    BY DEF TypeOK, VariantsOf
  <2>2. lost' \cup orphans' \subseteq used'
    BY <2>1 DEF TypeOK
  <2> QED BY <2>2 DEF TypeOK, SkusOf
<1>5. DOMAIN sku' \subseteq DOMAIN sku /\ DOMAIN variant' = DOMAIN variant \ VariantsOf(p)
  OBVIOUS
<1>6. /\ \A v \in DOMAIN variant' : variant'[v].product \in DOMAIN product' \cup lost'
      /\ \A v \in DOMAIN sku' : sku'[v].product \in DOMAIN product' \cup lost'
      /\ DOMAIN sku' \ DOMAIN variant' \subseteq abandoned'
  BY <1>1, <1>2, <1>3 DEF NothingDangles, SkusOf
<1>7. \A v \in Variant : attrs'[v] # {} => v \in DOMAIN variant' \cup orphans'
  BY <1>5 DEF NothingDangles
<1>8. NothingDangles'
  BY <1>6, <1>7 DEF NothingDangles
<1>9. SkusFollowVariants' /\ DraftsHaveNoSkus'
  BY DEF SkusFollowVariants, DraftsHaveNoSkus
<1>10. StraysAreOrphans'
  BY <1>5 DEF StraysAreOrphans
<1>11. QED
  BY <1>4, <1>8, <1>9, <1>10

LEMMA NextInv == ASSUME ConstantsAssumption, Inv, [Next]_vars PROVE Inv'
<1>1. CASE NextMonth
  BY <1>1, NextMonthInv
<1>2. CASE \E p \in Product, bundle \in Bundles : CreateProduct(p, bundle)
  BY <1>2, CreateProductInv
<1>3. CASE \E p \in Product, vs \in Batch : CreateVariants(p, vs)
  BY <1>3, CreateVariantsInv
<1>4. CASE \E v \in Variant, as \in SUBSET Attribute : SetAttributes(v, as)
  BY <1>4, SetAttributesInv
<1>5. CASE \E p \in Product, vs \in Orders : CreateSkus(p, vs)
  BY <1>5, CreateSkusInv
<1>6. CASE \E S \in Batch, s \in Requested : SetStatus(S, s)
  BY <1>6, SetStatusInv
<1>7. CASE \E from, to \in Variant : MoveGroup(from, to)
  BY <1>7, MoveGroupInv
<1>8. CASE \E S \in Batch, p \in Product, e \in Variant : MoveSkus(S, p, e)
  BY <1>8, MoveSkusInv
<1>9. CASE \E v \in Variant : DeleteVariant(v)
  BY <1>9, DeleteVariantInv
<1>10. CASE \E p \in Product : DeleteDraft(p)
  BY <1>10, DeleteDraftInv
<1>11. CASE \E p \in Product, all \in BOOLEAN : DeleteProduct(p, all)
  BY <1>11, DeleteProductInv
<1>12. CASE UNCHANGED vars
  BY <1>12 DEF vars, Inv, TypeOK, SkusFollowVariants, NothingDangles, DraftsHaveNoSkus, StraysAreOrphans
<1>13. QED
  BY <1>1, <1>2, <1>3, <1>4, <1>5, <1>6, <1>7, <1>8, <1>9, <1>10, <1>11, <1>12 DEF Next

-----------------------------------------------------------------------------
(* The theorems.                                                           *)

LEMMA InvAlways == Spec => []Inv
<1>1. Init => Inv
  BY InitInv, ConstantsAssumption
<1>2. Inv /\ [Next]_vars => Inv'
  BY NextInv, ConstantsAssumption
<1>3. QED
  BY <1>1, <1>2, PTL DEF Spec

\* The tables always hold rows of their shapes, of ids that were handed out;
\* in particular what gen_new_sku returns is a number.
THEOREM TypeCorrect == Spec => []TypeOK
<1>1. Inv => TypeOK
  BY DEF Inv
<1>2. QED
  BY <1>1, InvAlways, PTL

\* For any catalogue, an SKU names the product of its variant.
THEOREM SkusStayWithVariants == Spec => []SkusFollowVariants
<1>1. Inv => SkusFollowVariants
  BY DEF Inv
<1>2. QED
  BY <1>1, InvAlways, PTL

\* For any catalogue, the SKUs that name a product or a variant that is gone,
\* and the attribute values that name a variant that is gone, are those that
\* delete_product left behind: the SKUs because it was told to keep them, the
\* values of the variants it deleted whatever it was told.
THEOREM DeletionsLeaveNothing == Spec => []NothingDangles
<1>1. Inv => NothingDangles
  BY DEF Inv
<1>2. QED
  BY <1>1, InvAlways, PTL

\* For any catalogue, a move aligns the attributes as MovedTakeAttributes says.
THEOREM MovesAlign == Spec => MovedTakeAttributes
<1> DEFINE Aligned ==
      (\E v \in DOMAIN sku \cap DOMAIN sku' : sku'[v].product # sku[v].product) =>
        \A p \in DOMAIN product : \A e \in SkusOf(p), S \in Batch :
          MoveSkus(S, p, e) => \A v \in S :
             /\ attrs'[v] \subseteq attrs[e]
             /\ S = {v} => attrs'[v] = attrs[e]
<1>1. Aligned
  <2> SUFFICES ASSUME NEW p \in DOMAIN product, NEW e \in SkusOf(p), NEW S \in Batch,
                      MoveSkus(S, p, e), NEW v \in S
               PROVE  /\ attrs'[v] \subseteq attrs[e]
                      /\ S = {v} => attrs'[v] = attrs[e]
    OBVIOUS
  <2>1. attrs'[v] = MovedAttrs(v, S, e)
    BY DEF MoveSkus, Batch
  <2>2. QED
    BY <2>1 DEF MovedAttrs
<1>2. QED
  BY <1>1, PTL DEF MovedTakeAttributes

LEMMA ReleaseUnchanged ==
  ASSUME \A p \in DOMAIN product \cap DOMAIN product' : product'[p] = product[p],
         \A v \in DOMAIN variant \cap DOMAIN variant' : variant'[v].status = variant[v].status
  PROVE  ReleaseKept
BY DEF ReleaseKept

LEMMA StepKeepsRelease == ASSUME ConstantsAssumption, Inv, [Next]_vars PROVE ReleaseKept
<1>1. ASSUME NEW p \in Product, NEW vs \in Orders, CreateSkus(p, vs)
      PROVE  ReleaseKept
  <2>1. PICK S \in Batch : vs \in Bijection(1..Cardinality(S), S)
    BY DEF Orders
  <2>2. \E v \in DOMAIN sku' \ DOMAIN sku : sku'[v].product = p
    <3>1. Range(vs) # {}
      BY <2>1 DEF Batch, Bijection, Surjection, Range
    <3>2. PICK v \in Range(vs) : TRUE
      BY <3>1
    <3>3. v \in DOMAIN sku' \ DOMAIN sku /\ sku'[v].product = p
      BY <1>1 DEF CreateSkus
    <3>4. QED
      BY <3>3
  <2>3. \A q \in DOMAIN product : q = p \/ product'[q] = product[q]
    BY <1>1 DEF CreateSkus
  <2>4. UNCHANGED variant
    BY <1>1 DEF CreateSkus
  <2>5. QED
    BY <2>2, <2>3, <2>4 DEF ReleaseKept
<1>2. ASSUME NEW S \in Batch, NEW s \in Requested, SetStatus(S, s)
      PROVE  ReleaseKept
  <2>1. ASSUME NEW p \in DOMAIN product, product[p].status = "active"
        PROVE  product'[p].status = "active"
    <3>1. \/ product'[p] = product[p]
          \/ product'[p] = [product[p] EXCEPT !.status = Spread(product[p].status, s)]
      BY <1>2 DEF SetStatus
    <3>2. product[p] \in ProductRow
      BY DEF Inv, TypeOK
    <3>3. QED
      BY <2>1, <3>1, <3>2, SpreadTyped DEF ProductRow
  <2>2. ASSUME NEW v \in DOMAIN variant, variant[v].status = "active"
        PROVE  variant'[v].status = "active"
    <3>1. \/ variant'[v] = variant[v]
          \/ variant'[v] = [variant[v] EXCEPT !.status = Spread(variant[v].status, s)]
      BY <1>2 DEF SetStatus
    <3>2. variant[v] \in VariantRow
      BY DEF Inv, TypeOK
    <3>3. QED
      BY <2>2, <3>1, <3>2, SpreadTyped DEF VariantRow
  <2>3. QED
    BY <2>1, <2>2 DEF ReleaseKept
<1>3. ASSUME NEW S, NEW p, variant' = Rehomed(variant, S, p), UNCHANGED product
      PROVE  ReleaseKept
  <2>1. \A v \in DOMAIN variant : variant[v] \in VariantRow
    BY DEF Inv, TypeOK
  <2>2. \A v \in DOMAIN variant \cap DOMAIN variant' : variant'[v].status = variant[v].status
    BY <1>3, <2>1 DEF Rehomed, VariantRow
  <2>3. QED
    BY <1>3, <2>2, ReleaseUnchanged
<1>4. CASE \E from, to \in Variant : MoveGroup(from, to)
  BY <1>3, <1>4 DEF MoveGroup
<1>5. CASE \E S \in Batch, p \in Product, e \in Variant : MoveSkus(S, p, e)
  BY <1>3, <1>5 DEF MoveSkus
<1>6. CASE \E p \in Product, bundle \in Bundles : CreateProduct(p, bundle)
  <2>1. PICK p \in Product, bundle \in Bundles : CreateProduct(p, bundle)
    BY <1>6
  <2>2. p \notin DOMAIN product
    BY <2>1 DEF CreateProduct, Inv, TypeOK
  <2>3. QED
    BY <2>1, <2>2, ReleaseUnchanged DEF CreateProduct
<1>7. CASE \E p \in Product, vs \in Batch : CreateVariants(p, vs)
  <2>1. PICK p \in Product, vs \in Batch : CreateVariants(p, vs)
    BY <1>7
  <2>2. vs \cap DOMAIN variant = {}
    BY <2>1 DEF CreateVariants, Inv, TypeOK
  <2>3. QED
    BY <2>1, <2>2, ReleaseUnchanged DEF CreateVariants
<1>8. CASE \E v \in Variant : DeleteVariant(v)
  BY <1>8, ReleaseUnchanged DEF DeleteVariant, Without
<1>9. CASE \E p \in Product : DeleteDraft(p)
  BY <1>9, ReleaseUnchanged DEF DeleteDraft, Without
<1>10. CASE \E p \in Product, all \in BOOLEAN : DeleteProduct(p, all)
  BY <1>10, ReleaseUnchanged DEF DeleteProduct, Without
<1>11. CASE \E v \in Variant, as \in SUBSET Attribute : SetAttributes(v, as)
  BY <1>11, ReleaseUnchanged DEF SetAttributes
<1>12. CASE NextMonth
  BY <1>12, ReleaseUnchanged DEF NextMonth
<1>13. CASE UNCHANGED vars
  BY <1>13, ReleaseUnchanged DEF vars
<1>14. QED
  BY <1>1, <1>2, <1>4, <1>5, <1>6, <1>7, <1>8, <1>9, <1>10, <1>11, <1>12, <1>13 DEF Next

\* For any catalogue, a release lasts as ReleaseLasts says.
THEOREM ReleasesLast == Spec => ReleaseLasts
<1>1. Inv /\ [Next]_vars => ReleaseKept
  BY StepKeepsRelease, ConstantsAssumption
<1>2. QED
  BY <1>1, InvAlways, PTL DEF Spec, ReleaseLasts

-----------------------------------------------------------------------------
(* The numbers of SKUs are distinct.                                       *)

\* No number is beyond the one that follows the last of the month.
NumbersBounded ==
  \A v \in DOMAIN sku : sku[v].number <= (month + 1) * Block[sku[v].bundle]

NumbersInv == NumbersBounded /\ NumbersDistinct

LEMMA NumberInBlock ==
  ASSUME NEW n \in Nat, NEW b \in Nat \ {0}, NEW m \in Nat, m * b <= n, n < (m + 1) * b
  PROVE  n \div b = m
OBVIOUS

LEMMA EndOfBlock ==
  ASSUME NEW b \in Nat \ {0}, NEW m \in Nat
  PROVE  (m + 1) * b > 0 /\ ((m + 1) * b) % b = 0 /\ m * b <= (m + 1) * b
OBVIOUS

\* The number that gen_new_sku returns is above all the numbers there are,
\* except the one that follows the last of the month.
LEMMA NewNumberIsNew ==
  ASSUME ConstantsAssumption, TypeOK, NumbersBounded, NEW bundle \in BOOLEAN
  PROVE  /\ NewNumber(bundle) <= (month + 1) * Block[bundle]
         /\ \A v \in DOMAIN sku : sku[v].bundle = bundle =>
              \/ sku[v].number < NewNumber(bundle)
              \/ sku[v].number = (month + 1) * Block[bundle]
<1> DEFINE b == Block[bundle]
           T == NumbersOf(bundle)
<1>1. b \in Nat \ {0} /\ month \in Nat
  BY DEF ConstantsAssumption, TypeOK
<1>2. month * b \in Nat /\ (month + 1) * b \in Nat /\ month * b <= (month + 1) * b
  BY <1>1, BlockBounds, EndOfBlock
<1>3. T \in SUBSET Nat
  BY DEF NumbersOf, TypeOK, SkuRow
<1>4. \A n \in T : n < (month + 1) * b
  <2>1. \A n \in T : n \div b = month
    BY DEF NumbersOf
  <2> QED BY <1>1, <1>3, <2>1, NumberBelowBlock
<1>5. NewNumber(bundle) \in Nat
  BY NewNumberTyped
<1>6. \A n \in T : n < NewNumber(bundle)
  <2> SUFFICES ASSUME NEW n \in T PROVE n < NewNumber(bundle)
    OBVIOUS
  <2>1. Max(T) \in T /\ n <= Max(T)
    BY <1>2, <1>3, <1>4, MaxIsElement
  <2>2. NewNumber(bundle) = Max(T) + 1
    BY DEF NewNumber
  <2> QED BY <1>3, <2>1, <2>2
<1>7. NewNumber(bundle) <= (month + 1) * b
  <2>1. CASE T = {}
    BY <1>2, <2>1 DEF NewNumber
  <2>2. CASE T # {}
    <3>1. Max(T) \in T
      BY <1>2, <1>3, <1>4, <2>2, MaxIsElement
    <3>2. NewNumber(bundle) = Max(T) + 1 /\ Max(T) < (month + 1) * b /\ Max(T) \in Nat
      BY <1>3, <1>4, <2>2, <3>1 DEF NewNumber
    <3> QED BY <1>2, <3>2
  <2> QED BY <2>1, <2>2
<1>8. month * b <= NewNumber(bundle)
  <2>1. CASE T = {}
    BY <1>2, <2>1 DEF NewNumber
  <2>2. CASE T # {}
    <3>1. PICK n \in T : n \div b = month
      BY <2>2 DEF NumbersOf
    <3>2. month * b <= n
      BY <1>1, <1>3, <3>1
    <3> QED BY <1>2, <1>3, <1>5, <1>6, <3>2
  <2> QED BY <2>1, <2>2
<1>9. ASSUME NEW v \in DOMAIN sku, sku[v].bundle = bundle
      PROVE  sku[v].number < NewNumber(bundle) \/ sku[v].number = (month + 1) * b
  <2> DEFINE n == sku[v].number
  <2>1. n \in Nat /\ n <= (month + 1) * b
    BY <1>9 DEF TypeOK, SkuRow, NumbersBounded
  <2> HIDE DEF n, b, T
  <2>2. CASE n < month * b \/ n = (month + 1) * b
    BY <1>2, <1>5, <1>8, <2>1, <2>2 DEF n, b
  <2>3. CASE month * b <= n /\ n < (month + 1) * b
    <3>1. n \div b = month
      BY <1>1, <2>1, <2>3, NumberInBlock
    <3>2. n \in T
      BY <1>9, <3>1 DEF NumbersOf, n, b, T
    <3> QED BY <1>6, <3>2 DEF n, T
  <2> QED BY <1>2, <2>1, <2>2, <2>3
<1> QED BY <1>7, <1>9

\* The numbers of a request are above those there are, too, and differ as far
\* as the month has numbers.
LEMMA BatchNumberIsNew ==
  ASSUME ConstantsAssumption, TypeOK, NumbersBounded, NEW bundle \in BOOLEAN,
         NEW i \in Nat \ {0}
  PROVE  LET end == (month + 1) * Block[bundle]
             n   == BatchNumber(bundle, i)
         IN  /\ n \in Nat /\ n <= end
             /\ \A v \in DOMAIN sku :
                  sku[v].bundle = bundle /\ sku[v].number = n => n = end
             /\ \A j \in Nat \ {0} : BatchNumber(bundle, j) = n => i = j \/ n = end
<1> DEFINE end == (month + 1) * Block[bundle]
           new == NewNumber(bundle)
<1>1. new \in Nat /\ end \in Nat /\ new <= end
  <2>1. Block[bundle] \in Nat \ {0} /\ month \in Nat
    BY DEF ConstantsAssumption, TypeOK
  <2> QED BY <2>1, NewNumberTyped, NewNumberIsNew, BlockBounds
<1>2. \A v \in DOMAIN sku : sku[v].bundle = bundle => sku[v].number < new \/ sku[v].number = end
  BY NewNumberIsNew
<1>3. \A v \in DOMAIN sku : sku[v].number \in Nat
  BY DEF TypeOK, SkuRow
<1> HIDE DEF end, new
<1>4. \A j \in Nat \ {0} :
        BatchNumber(bundle, j) = IF new + j - 1 <= end THEN new + j - 1 ELSE end
  <2> SUFFICES ASSUME NEW j \in Nat \ {0}
               PROVE  BatchNumber(bundle, j) = IF new + j - 1 <= end THEN new + j - 1 ELSE end
    OBVIOUS
  <2>1. new + j - 1 \in Nat
    BY <1>1
  <2>2. BatchNumber(bundle, j) = Min({new + j - 1, end})
    BY DEF BatchNumber, new, end
  <2> QED BY <1>1, <2>1, <2>2, SmallerIsNat
<1>5. BatchNumber(bundle, i) \in Nat /\ new <= BatchNumber(bundle, i) /\ BatchNumber(bundle, i) <= end
  BY <1>1, <1>4
<1>6. \A v \in DOMAIN sku :
        sku[v].bundle = bundle /\ sku[v].number = BatchNumber(bundle, i) => BatchNumber(bundle, i) = end
  BY <1>1, <1>2, <1>3, <1>5
<1>7. \A j \in Nat \ {0} :
        BatchNumber(bundle, j) = BatchNumber(bundle, i) => i = j \/ BatchNumber(bundle, i) = end
  BY <1>1, <1>4
<1> QED BY <1>5, <1>6, <1>7 DEF end

LEMMA CreateSkusNumbers ==
  ASSUME ConstantsAssumption, TypeOK, NumbersInv, NEW p \in Product, NEW vs \in Orders,
         CreateSkus(p, vs)
  PROVE  NumbersInv'
<1> USE DEF NumbersInv
<1> DEFINE bundle == product[p].bundle
           end == (month + 1) * Block[bundle]
           place(v) == CHOOSE i \in DOMAIN vs : vs[i] = v
<1>1. bundle \in BOOLEAN /\ month' = month
  BY DEF CreateSkus, TypeOK, ProductRow
<1>2. \A v \in Range(vs) : place(v) \in Nat \ {0} /\ vs[place(v)] = v
  <2>1. PICK S \in Batch : vs \in Bijection(1..Cardinality(S), S)
    BY DEF Orders
  <2>2. DOMAIN vs \subseteq Nat \ {0}
    BY <2>1 DEF Bijection, Injection, Surjection
  <2>3. \A v \in Range(vs) : \E i \in DOMAIN vs : vs[i] = v
    BY DEF Range
  <2> QED BY <2>2, <2>3
<1>3. /\ DOMAIN sku' = DOMAIN sku \cup Range(vs)
      /\ \A v \in DOMAIN sku : sku'[v] = sku[v] /\ v \notin Range(vs)
      /\ \A v \in Range(vs) :
           sku'[v].bundle = bundle /\ sku'[v].number = BatchNumber(bundle, place(v))
  BY DEF CreateSkus, VariantsOf
<1>4. end > 0 /\ end % Block[bundle] = 0
  <2>1. Block[bundle] \in Nat \ {0} /\ month \in Nat
    BY <1>1 DEF ConstantsAssumption, TypeOK
  <2> QED BY <2>1, EndOfBlock
<1> HIDE DEF bundle, end, place
<1>5. ASSUME NEW v \in Range(vs)
      PROVE  /\ sku'[v].number <= end
             /\ \A w \in DOMAIN sku :
                  sku[w].bundle = bundle /\ sku[w].number = sku'[v].number => sku'[v].number = end
             /\ \A w \in Range(vs) :
                  sku'[w].number = sku'[v].number => w = v \/ sku'[v].number = end
  <2>1. place(v) \in Nat \ {0} /\ \A w \in Range(vs) : place(w) \in Nat \ {0}
    BY <1>2
  <2>2. /\ BatchNumber(bundle, place(v)) <= end
        /\ \A w \in DOMAIN sku :
             sku[w].bundle = bundle /\ sku[w].number = BatchNumber(bundle, place(v))
               => BatchNumber(bundle, place(v)) = end
        /\ \A j \in Nat \ {0} :
             BatchNumber(bundle, j) = BatchNumber(bundle, place(v))
               => place(v) = j \/ BatchNumber(bundle, place(v)) = end
    BY <1>1, <2>1, BatchNumberIsNew DEF end
  <2>3. \A w \in Range(vs) : place(w) = place(v) => w = v
    BY <1>2
  <2> QED BY <1>3, <2>1, <2>2, <2>3
<1>6. NumbersBounded'
  BY <1>1, <1>3, <1>5 DEF NumbersBounded, end
<1>7. NumbersDistinct'
  <2> SUFFICES ASSUME NEW s \in DOMAIN sku', NEW t \in DOMAIN sku', s # t,
                      sku'[s].bundle = sku'[t].bundle, sku'[s].number = sku'[t].number
               PROVE  sku'[s].number > 0 /\ sku'[s].number % Block[sku'[s].bundle] = 0
    BY DEF NumbersDistinct
  <2>1. CASE s \in DOMAIN sku /\ t \in DOMAIN sku
    BY <1>3, <2>1 DEF NumbersDistinct
  <2>2. CASE s \in Range(vs) \/ t \in Range(vs)
    <3>1. sku'[s].number = end /\ sku'[s].bundle = bundle
      BY <1>3, <1>5, <2>2
    <3> QED BY <1>4, <3>1
  <2> QED BY <1>3, <2>1, <2>2
<1> QED BY <1>6, <1>7

\* Every other step leaves the numbers of the SKUs that remain.
LEMMA NumbersKept ==
  ASSUME ConstantsAssumption, TypeOK, NumbersInv,
         DOMAIN sku' \subseteq DOMAIN sku, month' \in {month, month + 1},
         \A v \in DOMAIN sku' : sku'[v].number = sku[v].number /\ sku'[v].bundle = sku[v].bundle
  PROVE  NumbersInv'
<1> USE DEF NumbersInv
<1>1. NumbersDistinct'
  BY DEF NumbersDistinct
<1>2. ASSUME NEW v \in DOMAIN sku'
      PROVE  sku'[v].number <= (month' + 1) * Block[sku'[v].bundle]
  <2> DEFINE b == Block[sku[v].bundle]
  <2>1. b \in Nat \ {0} /\ month \in Nat /\ sku[v].number \in Nat
    BY DEF ConstantsAssumption, TypeOK, SkuRow
  <2>2. sku[v].number <= (month + 1) * b
    BY DEF NumbersBounded
  <2> HIDE DEF b
  <2>3. (month + 1) * b <= (month' + 1) * b
    <3>1. month + 1 \in Nat
      BY <2>1
    <3>2. (month + 1) * b <= (month + 1 + 1) * b /\ (month + 1) * b \in Nat
      BY <2>1, <3>1, EndOfBlock, BlockBounds
    <3> QED BY <3>2
  <2>4. (month + 1) * b \in Nat /\ (month' + 1) * b \in Nat
    <3>1. month' \in Nat
      BY <2>1
    <3> QED BY <2>1, <3>1, BlockBounds
  <2> QED BY <2>1, <2>2, <2>3, <2>4 DEF b
<1>3. NumbersBounded'
  BY <1>2 DEF NumbersBounded
<1> QED BY <1>1, <1>3

LEMMA StepKeepsNumbers ==
  ASSUME ConstantsAssumption, TypeOK, NumbersInv, [Next]_vars
  PROVE  NumbersInv'
<1>1. CASE \E p \in Product, vs \in Orders : CreateSkus(p, vs)
  BY <1>1, CreateSkusNumbers
<1>2. CASE \/ \E p \in Product, bundle \in Bundles : CreateProduct(p, bundle)
           \/ \E p \in Product, vs \in Batch : CreateVariants(p, vs)
           \/ \E v \in Variant, as \in SUBSET Attribute : SetAttributes(v, as)
           \/ NextMonth \/ UNCHANGED vars
  BY <1>2, NumbersKept DEF CreateProduct, CreateVariants, SetAttributes, NextMonth, vars
<1>3. ASSUME NEW S \in Batch, NEW s \in Requested, SetStatus(S, s)
      PROVE  NumbersInv'
  <2>1. DOMAIN sku' = DOMAIN sku /\ month' = month
    BY <1>3 DEF SetStatus
  <2>2. \A v \in DOMAIN sku : sku'[v] \in {sku[v], [sku[v] EXCEPT !.status = s]}
    BY <1>3 DEF SetStatus
  <2>3. \A v \in DOMAIN sku : sku'[v].number = sku[v].number /\ sku'[v].bundle = sku[v].bundle
    BY <2>2 DEF TypeOK, SkuRow
  <2> QED BY <2>1, <2>3, NumbersKept
<1>4. ASSUME NEW S, NEW p, sku' = Rehomed(sku, S, p), month' = month
      PROVE  NumbersInv'
  <2>1. DOMAIN sku' = DOMAIN sku
    BY <1>4 DEF Rehomed
  <2>2. \A v \in DOMAIN sku : sku'[v].number = sku[v].number /\ sku'[v].bundle = sku[v].bundle
    BY <1>4 DEF Rehomed, TypeOK, SkuRow
  <2> QED BY <1>4, <2>1, <2>2, NumbersKept
<1>5. CASE \E from, to \in Variant : MoveGroup(from, to)
  BY <1>4, <1>5 DEF MoveGroup
<1>6. CASE \E S \in Batch, p \in Product, e \in Variant : MoveSkus(S, p, e)
  BY <1>4, <1>6 DEF MoveSkus
<1>7. CASE \/ \E v \in Variant : DeleteVariant(v)
           \/ \E p \in Product : DeleteDraft(p)
           \/ \E p \in Product, all \in BOOLEAN : DeleteProduct(p, all)
  <2>1. month' = month /\ (sku' = sku \/ \E S \in SUBSET Variant : sku' = Without(sku, S))
    <3>1. \A v \in Variant : {v} \in SUBSET Variant
      OBVIOUS
    <3>2. \A p \in Product : SkusOf(p) \in SUBSET Variant
      BY DEF SkusOf, TypeOK
    <3> QED BY <1>7, <3>1, <3>2 DEF DeleteVariant, DeleteDraft, DeleteProduct
  <2>2. DOMAIN sku' \subseteq DOMAIN sku /\ \A v \in DOMAIN sku' : sku'[v] = sku[v]
    BY <2>1 DEF Without
  <2> QED BY <2>1, <2>2, NumbersKept
<1> QED BY <1>1, <1>2, <1>3, <1>5, <1>6, <1>7 DEF Next

\* For any catalogue, any block sizes and any number of months: where the
\* numbers of a month were never used up, no two SKUs have the same number.
THEOREM NumbersApart == Spec => []NumbersDistinct
<1>1. Init => NumbersInv
  BY DEF Init, NumbersInv, NumbersBounded, NumbersDistinct
<1>2. TypeOK /\ NumbersInv /\ [Next]_vars => NumbersInv'
  BY ConstantsAssumption, StepKeepsNumbers
<1>3. NumbersInv => NumbersDistinct
  BY DEF NumbersInv
<1> QED BY <1>1, <1>2, <1>3, TypeCorrect, PTL DEF Spec

-----------------------------------------------------------------------------
(* What hangs on an SKU (SkuDetails).                                      *)

BarcodeRow == [code : Barcode, default : BOOLEAN]
CodesApart(codes) == \A r, q \in codes : r.code = q.code => r = q
Marked(codes) == {r.code : r \in {x \in codes : x.default}}
BarcodesFit(row, bare) == IF bare THEN row.codes = {} ELSE Marked(row.codes) = {row.barcode} \ {None}
SellersApart(f) == \A c \in f : OfSeller(f, c) = {c}

\* A pair of a row and what is filed is whole; bare says whether the SKU was
\* never given a list of barcodes.
StateOK(s, bare) ==
  /\ s[1] \in Row /\ CodesApart(s[1].codes) /\ BarcodesFit(s[1], bare)
  /\ s[2] \subseteq Category /\ SellersApart(s[2])

FieldOK(f) ==
  /\ f.key = "barcodes" => f.value \in BarcodeLists
  /\ f.key = "shipping_types" => f.value \in TypeLists
  /\ f.key = "category_id" => f.value \in Category

GivesList(f, overwrite) == f.key = "barcodes" /\ (overwrite \/ f.value # <<>>)

\* Barcodes that are given: one row for each, the last one marked.
LEMMA InsertedCodes ==
  ASSUME NEW codes \in SUBSET BarcodeRow, CodesApart(codes), NEW l \in BarcodeLists
  PROVE  /\ Inserted(codes, l) \in SUBSET BarcodeRow /\ CodesApart(Inserted(codes, l))
         /\ l = <<>> => Inserted(codes, l) = codes
         /\ l # <<>> => Marked(Inserted(codes, l)) = {Last(l)} /\ Last(l) \in Barcode
<1>1. /\ l \in Seq(Barcode) /\ IsInjective(l)
  BY DetailAssumption
<1>2. /\ Len(l) \in Nat /\ DOMAIN l = 1 .. Len(l) /\ \A i \in DOMAIN l : l[i] \in Barcode
      /\ \A i, j \in DOMAIN l : l[i] = l[j] => i = j
  BY <1>1 DEF IsInjective
<1>3. CASE l = <<>>
  BY <1>3 DEF Inserted
<1>4. CASE l # <<>>
  <2>1. Len(l) \in DOMAIN l /\ Last(l) = l[Len(l)]
    BY <1>1, <1>2, <1>4 DEF Last
  <2> DEFINE Old == {[code |-> r.code, default |-> FALSE] : r \in {x \in codes : x.code \notin ToSet(l)}}
             New == {[code |-> l[i], default |-> i = Len(l)] : i \in DOMAIN l}
  <2>2. Inserted(codes, l) = Old \cup New
    BY <1>4 DEF Inserted
  <2>3. ToSet(l) = {l[i] : i \in DOMAIN l}
    BY DEF ToSet
  <2>4. \A r \in Old : r \in BarcodeRow /\ ~r.default /\ r.code \notin ToSet(l)
    <3>1. SUFFICES ASSUME NEW x \in codes, x.code \notin ToSet(l), NEW r, r = [code |-> x.code, default |-> FALSE]
                   PROVE  r \in BarcodeRow /\ ~r.default /\ r.code \notin ToSet(l)
      OBVIOUS
    <3>2. x.code \in Barcode
      BY DEF BarcodeRow
    <3> QED BY <3>1, <3>2 DEF BarcodeRow
  <2>5. \A r \in New : r \in BarcodeRow /\ \E i \in DOMAIN l : r.code = l[i] /\ (r.default <=> i = Len(l))
    <3>1. SUFFICES ASSUME NEW i \in DOMAIN l, NEW r, r = [code |-> l[i], default |-> i = Len(l)]
                   PROVE  r \in BarcodeRow /\ r.code = l[i] /\ (r.default <=> i = Len(l))
      OBVIOUS
    <3>2. l[i] \in Barcode /\ (i = Len(l)) \in BOOLEAN
      BY <1>2
    <3> QED BY <3>1, <3>2 DEF BarcodeRow
  <2>6. \A r, q \in Old : r.code = q.code => r = q
    <3>1. \A r \in Old : r = [code |-> r.code, default |-> FALSE]
      OBVIOUS
    <3> HIDE DEF Old
    <3> QED BY <3>1
  <2>7. \A r, q \in New : r.code = q.code => r = q
    BY <1>2
  <2>8. [code |-> l[Len(l)], default |-> TRUE] \in New
    <3>1. [code |-> l[Len(l)], default |-> Len(l) = Len(l)] \in New
      BY <2>1
    <3> QED BY <3>1
  <2> HIDE DEF Old, New
  <2>9. \A r \in Old, q \in New : r.code # q.code
    BY <2>3, <2>4, <2>5
  <2>10. CodesApart(Inserted(codes, l))
    BY <2>2, <2>6, <2>7, <2>9 DEF CodesApart
  <2>11. Inserted(codes, l) \in SUBSET BarcodeRow
    BY <2>2, <2>4, <2>5
  <2>12. \A r \in Inserted(codes, l) : r.default => r.code = Last(l)
    BY <2>1, <2>2, <2>4, <2>5
  <2>13. PICK r : r \in Inserted(codes, l) /\ r.default /\ r.code = Last(l)
    BY <2>1, <2>2, <2>8
  <2>14. Marked(Inserted(codes, l)) = {Last(l)}
    BY <2>12, <2>13 DEF Marked
  <2> QED BY <1>2, <1>4, <2>1, <2>10, <2>11, <2>14
<1> QED BY <1>3, <1>4

\* A category takes the place of the one of its seller.
LEMMA RefiledApart ==
  ASSUME NEW f \in SUBSET Category, SellersApart(f), NEW c \in Category, NEW g \in Refiled(f, c)
  PROVE  g \in SUBSET Category /\ SellersApart(g)
<1>1. CASE OfSeller(f, c) = {}
  BY <1>1 DEF Refiled, OfSeller, SellersApart
<1>2. CASE OfSeller(f, c) # {}
  <2>1. PICK d \in OfSeller(f, c) : g = (f \ {d}) \cup {c}
    BY <1>2 DEF Refiled
  <2>2. d \in f /\ OwnerOf[d] = OwnerOf[c] /\ OfSeller(f, d) = {d}
    BY <2>1 DEF OfSeller, SellersApart
  <2>3. \A e \in f : OwnerOf[e] = OwnerOf[c] => e = d
    BY <2>2 DEF OfSeller
  <2> QED BY <2>1, <2>2, <2>3 DEF OfSeller, SellersApart
<1> QED BY <1>1, <1>2

\* The states one field leads to.
LEMMA TakenOK ==
  ASSUME NEW s, NEW bare \in BOOLEAN, StateOK(s, bare), NEW f, FieldOK(f), NEW overwrite \in BOOLEAN,
         NEW t \in Taken(s, f, overwrite)
  PROVE  /\ StateOK(t, bare /\ ~GivesList(f, overwrite))
         /\ f.key # "category_id" => t[2] = s[2]
<1> DEFINE row == s[1]
           still == bare /\ ~GivesList(f, overwrite)
<1>1. /\ row \in Row /\ CodesApart(row.codes) /\ BarcodesFit(row, bare)
      /\ s[2] \subseteq Category /\ SellersApart(s[2])
  BY DEF StateOK
<1>2. /\ row.category \in Category /\ row.barcode \in Barcode \cup {None}
      /\ row.codes \in SUBSET BarcodeRow /\ row.types \in SUBSET ShippingType
  BY <1>1 DEF Row, BarcodeRow
<1>3. CASE f.key = "barcodes"
  <2> DEFINE l == f.value
             base == IF overwrite THEN {} ELSE row.codes
             codes == Inserted(base, l)
             barcode == IF l # <<>> THEN Last(l) ELSE IF overwrite THEN None ELSE row.barcode
             new == [row EXCEPT !.codes = codes, !.barcode = barcode]
  <2>1. t = <<new, s[2]>>
    BY <1>3 DEF Taken, Barcoded
  <2>2. base \in SUBSET BarcodeRow /\ CodesApart(base) /\ l \in BarcodeLists
    BY <1>1, <1>2, <1>3 DEF CodesApart, FieldOK
  <2>3. /\ codes \in SUBSET BarcodeRow /\ CodesApart(codes)
        /\ l = <<>> => codes = base
        /\ l # <<>> => Marked(codes) = {Last(l)} /\ Last(l) \in Barcode
    <3> HIDE DEF base, l
    <3> QED BY <2>2, InsertedCodes
  <2> HIDE DEF codes
  <2>4. barcode \in Barcode \cup {None}
    BY <1>2, <2>3
  <2>5. Marked(codes) = {barcode} \ {None} \/ (still /\ codes = {})
    <3>1. CASE l # <<>>
      BY <2>3, <3>1, DetailAssumption
    <3>2. CASE l = <<>> /\ overwrite
      BY <2>3, <3>2 DEF Marked
    <3>3. CASE l = <<>> /\ ~overwrite
      BY <1>1, <2>3, <3>3 DEF BarcodesFit, GivesList
    <3> QED BY <3>1, <3>2, <3>3
  <2>6. still => codes = {}
    BY <1>1, <1>3, <2>3 DEF BarcodesFit, GivesList
  <2> HIDE DEF barcode
  <2>7. new \in Row /\ new.codes = codes /\ new.barcode = barcode
    BY <1>1, <2>3, <2>4 DEF Row, BarcodeRow
  <2> HIDE DEF new, still
  <2>8. StateOK(t, still)
    BY <1>1, <2>1, <2>3, <2>5, <2>6, <2>7 DEF StateOK, BarcodesFit
  <2> QED BY <1>3, <2>1, <2>8 DEF still
<1>4. CASE f.key # "barcodes"
  <2>1. still = bare
    BY <1>4 DEF GivesList
  <2>2. CASE f.key = "shipping_types"
    <3>1. t = <<[row EXCEPT !.types = f.value], s[2]>>
      BY <2>2 DEF Taken
    <3>2. f.value \in SUBSET ShippingType
      BY <2>2, DetailAssumption DEF FieldOK
    <3> DEFINE new == [row EXCEPT !.types = f.value]
    <3>3. new \in Row /\ new.codes = row.codes /\ new.barcode = row.barcode
      BY <1>1, <3>2 DEF Row
    <3> HIDE DEF new
    <3>4. t = <<new, s[2]>>
      BY <3>1 DEF new
    <3> HIDE DEF row
    <3> QED BY <1>1, <2>1, <3>3, <3>4 DEF StateOK, BarcodesFit
  <2>3. CASE f.key = "category_id" /\ f.value # row.category
    <3>1. PICK g \in Refiled(s[2], f.value) : t = <<[row EXCEPT !.category = f.value], g>>
      BY <2>3 DEF Taken
    <3>2. f.value \in Category
      BY <2>3 DEF FieldOK
    <3>3. g \in SUBSET Category /\ SellersApart(g)
      BY <1>1, <3>2, RefiledApart
    <3> DEFINE new == [row EXCEPT !.category = f.value]
    <3>4. new \in Row /\ new.codes = row.codes /\ new.barcode = row.barcode
      BY <1>1, <3>2 DEF Row
    <3> HIDE DEF new
    <3>5. t = <<new, g>>
      BY <3>1 DEF new
    <3> HIDE DEF row
    <3> QED BY <1>1, <2>1, <2>3, <3>3, <3>4, <3>5 DEF StateOK, BarcodesFit
  <2>4. CASE f.key # "shipping_types" /\ ~(f.key = "category_id" /\ f.value # row.category)
    <3>1. t = s
      BY <1>4, <2>4 DEF Taken
    <3> QED BY <2>1, <3>1
  <2> QED BY <2>2, <2>3, <2>4
<1> QED BY <1>3, <1>4

-----------------------------------------------------------------------------
(* Fields one after the other.                                             *)

\* What defines the states after each field.
Reaches(F, state, fields, overwrite, m) ==
  F = [n \in 0 .. m |-> IF n = 0 THEN {state}
                        ELSE UNION {Taken(s, fields[n], overwrite) : s \in F[n - 1]}]

LEMMA ReachExists ==
  ASSUME NEW state, NEW fields, NEW overwrite, Len(fields) \in Nat
  PROVE  \E F : Reaches(F, state, fields, overwrite, Len(fields))
<1> DEFINE N == Len(fields)
           Step(F, n) == IF n = 0 THEN {state} ELSE UNION {Taken(s, fields[n], overwrite) : s \in F[n - 1]}
           Solved(m) == \E F : Reaches(F, state, fields, overwrite, m)
           Unsolved == {m \in 0 .. N : ~Solved(m)}
<1>1. SUFFICES Unsolved = {}
  <2>1. N \in 0 .. N
    OBVIOUS
  <2> HIDE DEF N
  <2>2. Unsolved = {} => Solved(N)
    BY <2>1
  <2> QED BY <2>2 DEF N
<1>2. SUFFICES ASSUME Unsolved # {}
               PROVE  FALSE
  OBVIOUS
<1>3. Unsolved \in SUBSET Nat
  OBVIOUS
<1>4. PICK m \in Unsolved : \A k \in Unsolved : m <= k
  <2> HIDE DEF Unsolved
  <2> QED BY <1>2, <1>3, LeastExists
<1>5. m \in 0 .. N /\ ~Solved(m)
  OBVIOUS
<1>6. CASE m = 0
  <2> DEFINE f == [n \in 0 .. 0 |-> {state}]
  <2>1. f = [n \in 0 .. 0 |-> Step(f, n)]
    OBVIOUS
  <2>2. Solved(0)
    BY <2>1 DEF Reaches
  <2> QED BY <1>5, <1>6, <2>2
<1>7. CASE m # 0
  <2>1. m \in Nat /\ m - 1 \in 0 .. N /\ ~(m <= m - 1)
    BY <1>5, <1>7
  <2>2. Solved(m - 1)
    <3>1. m - 1 \notin Unsolved
      BY <1>4, <2>1
    <3> HIDE DEF Solved
    <3> QED BY <2>1, <3>1
  <2>3. PICK f : f = [n \in 0 .. (m - 1) |-> Step(f, n)]
    BY <2>2 DEF Reaches
  <2> DEFINE g == [n \in 0 .. m |-> IF n = m THEN Step(f, m) ELSE f[n]]
  <2>4. \A n \in 0 .. m : /\ n = m \/ n \in 0 .. (m - 1)
                          /\ n # 0 => n - 1 \in 0 .. m /\ n - 1 # m
    BY <2>1
  <2>5. DOMAIN f = 0 .. (m - 1) /\ \A n \in 0 .. (m - 1) : f[n] = Step(f, n)
    BY <2>3
  <2>6. ASSUME NEW n \in 0 .. m
        PROVE  (IF n = m THEN Step(f, m) ELSE f[n]) = Step(g, n)
    <3>1. (IF n = m THEN Step(f, m) ELSE f[n]) = Step(f, n)
      <4> HIDE DEF Step
      <4> QED BY <2>4, <2>5
    <3>2. n # 0 => g[n - 1] = f[n - 1]
      BY <2>4
    <3> HIDE DEF g
    <3> QED BY <3>1, <3>2
  <2>7. g = [n \in 0 .. m |-> Step(g, n)]
    <3> HIDE DEF Step
    <3> QED BY <2>6
  <2>8. Solved(m)
    <3> HIDE DEF g
    <3> QED BY <2>7 DEF Reaches
  <2> QED BY <1>5, <2>8
<1> QED BY <1>6, <1>7

\* F has the states after each field.
IsReach(F, state, fields, overwrite) ==
  /\ F[0] = {state} /\ After(state, fields, overwrite) = F[Len(fields)]
  /\ \A n \in 1 .. Len(fields) : F[n] = UNION {Taken(s, fields[n], overwrite) : s \in F[n - 1]}

\* After is what is reached with the last field.
LEMMA AfterIsLast ==
  ASSUME NEW state, NEW fields, NEW overwrite, Len(fields) \in Nat
  PROVE  \E F : IsReach(F, state, fields, overwrite)
<1> DEFINE N == Len(fields)
           h == CHOOSE F : Reaches(F, state, fields, overwrite, N)
<1>1. \E F : Reaches(F, state, fields, overwrite, N)
  BY ReachExists
<1>2. h = [n \in 0 .. N |-> IF n = 0 THEN {state} ELSE UNION {Taken(s, fields[n], overwrite) : s \in h[n - 1]}]
  <2>1. Reaches(h, state, fields, overwrite, N)
    BY <1>1
  <2> HIDE DEF h
  <2> QED BY <2>1 DEF Reaches
<1>3. After(state, fields, overwrite) = h[N]
  BY DEF After, Reaches
<1> HIDE DEF h
<1>4. 0 \in 0 .. N /\ \A n \in 1 .. N : n \in 0 .. N /\ n # 0
  OBVIOUS
<1>5. h[0] = {state} /\ \A n \in 1 .. N : h[n] = UNION {Taken(s, fields[n], overwrite) : s \in h[n - 1]}
  <2> HIDE DEF N
  <2> QED BY <1>2, <1>4
<1> QED BY <1>3, <1>5 DEF IsReach

\* What the fields up to the n-th keep.
KeptBy(s, n, state, bare, fields, overwrite) ==
  /\ StateOK(s, bare /\ \A i \in 1 .. n : ~GivesList(fields[i], overwrite))
  /\ (\A i \in 1 .. n : fields[i].key # "category_id") => s[2] = state[2]

LEMMA AfterOK ==
  ASSUME NEW state, NEW bare \in BOOLEAN, StateOK(state, bare), NEW fields, Len(fields) \in Nat,
         \A i \in 1 .. Len(fields) : FieldOK(fields[i]), NEW overwrite \in BOOLEAN,
         NEW t \in After(state, fields, overwrite)
  PROVE  /\ KeptBy(t, Len(fields), state, bare, fields, overwrite)
         /\ Len(fields) = 0 => t = state
<1>0. PICK F : IsReach(F, state, fields, overwrite)
  BY AfterIsLast
<1>1. /\ F[0] = {state} /\ After(state, fields, overwrite) = F[Len(fields)]
      /\ \A n \in 1 .. Len(fields) : F[n] = UNION {Taken(s, fields[n], overwrite) : s \in F[n - 1]}
  BY <1>0 DEF IsReach
<1> DEFINE N == Len(fields)
           Good(n) == \A s \in F[n] : KeptBy(s, n, state, bare, fields, overwrite)
           Bad == {n \in 0 .. N : ~Good(n)}
<1>2. SUFFICES Bad = {}
  <2>1. N \in 0 .. N
    OBVIOUS
  <2>2. Good(N)
    <3> HIDE DEF Good, N
    <3> QED BY <1>2, <2>1
  <2> QED BY <1>1, <2>2
<1>3. SUFFICES ASSUME Bad # {}
               PROVE  FALSE
  OBVIOUS
<1>4. Bad \in SUBSET Nat
  OBVIOUS
<1>5. PICK m \in Bad : \A k \in Bad : m <= k
  <2> HIDE DEF Bad
  <2> QED BY <1>3, <1>4, LeastExists
<1>6. m \in 0 .. N /\ ~Good(m)
  OBVIOUS
<1>7. CASE m = 0
  <2>1. (bare /\ \A i \in 1 .. 0 : ~GivesList(fields[i], overwrite)) = bare
    OBVIOUS
  <2>2. KeptBy(state, 0, state, bare, fields, overwrite)
    BY <2>1 DEF KeptBy
  <2> QED BY <1>1, <1>6, <1>7, <2>2
<1>8. CASE m # 0
  <2>1. m \in 1 .. N /\ m - 1 \in 0 .. N /\ ~(m <= m - 1)
    BY <1>6, <1>8
  <2>2. Good(m - 1)
    <3>1. m - 1 \notin Bad
      BY <1>5, <2>1
    <3> HIDE DEF Good
    <3> QED BY <2>1, <3>1
  <2>3. ASSUME NEW s \in F[m]
        PROVE  KeptBy(s, m, state, bare, fields, overwrite)
    <3>1. PICK r \in F[m - 1] : s \in Taken(r, fields[m], overwrite)
      BY <1>1, <2>1
    <3> DEFINE still == bare /\ \A i \in 1 .. (m - 1) : ~GivesList(fields[i], overwrite)
    <3>2. StateOK(r, still) /\ ((\A i \in 1 .. (m - 1) : fields[i].key # "category_id") => r[2] = state[2])
      BY <2>2, <3>1 DEF KeptBy
    <3>3. FieldOK(fields[m]) /\ still \in BOOLEAN
      BY <2>1
    <3>4. \A i : i \in 1 .. m <=> i \in 1 .. (m - 1) \/ i = m
      BY <2>1
    <3>5. (still /\ ~GivesList(fields[m], overwrite))
            = (bare /\ \A i \in 1 .. m : ~GivesList(fields[i], overwrite))
      BY <3>4
    <3> HIDE DEF still
    <3>6. /\ StateOK(s, still /\ ~GivesList(fields[m], overwrite))
          /\ fields[m].key # "category_id" => s[2] = r[2]
      BY <3>1, <3>2, <3>3, TakenOK
    <3> QED BY <3>2, <3>4, <3>5, <3>6 DEF KeptBy
  <2> QED BY <1>6, <2>3
<1> QED BY <1>7, <1>8

-----------------------------------------------------------------------------
(* The actions.                                                            *)

\* SatellitesWhole, SKU by SKU.
RowWhole(row, bare) == row \in Row /\ CodesApart(row.codes) /\ BarcodesFit(row, bare)
Ships(row) == DefaultType # None => row.types # {}
Filings == category \in Category /\ filed \subseteq Category /\ SellersApart(filed)
Skus ==
  /\ DOMAIN sellable \subseteq Sku /\ cut \subseteq DOMAIN sellable /\ unlisted \subseteq DOMAIN sellable
  /\ \A k \in DOMAIN sellable : RowWhole(sellable[k], k \in unlisted) /\ (Ships(sellable[k]) \/ k \in cut)
Counted == refused \in BOOLEAN /\ requests \in 0 .. MaxRequests

LEMMA WholeParts == SatellitesWhole <=> Skus /\ Filings /\ Counted
<1>1. DefaultIsBarcode <=> \A k \in DOMAIN sellable : BarcodesFit(sellable[k], k \in unlisted)
  <2>1. \A k \in DOMAIN sellable : \A marked :
          marked = {r.code : r \in {x \in sellable[k].codes : x.default}} /\ marked # {} => k \in FoundByBarcode(marked)
    BY DEF FoundByBarcode
  <2> QED BY <2>1 DEF DefaultIsBarcode, BarcodesFit, Marked
<1>2. OneCategoryPerSeller <=> SellersApart(filed)
  BY DEF OneCategoryPerSeller, SellersApart
<1>3. EverySkuShips <=> \A k \in DOMAIN sellable : Ships(sellable[k]) \/ k \in cut
  BY DEF EverySkuShips, Ships
<1> QED BY <1>1, <1>2, <1>3 DEF SatellitesWhole, DetailTypeOK, Skus, Filings, Counted, RowWhole, CodesApart

\* One more request, refused or not.
Asked == Request(TRUE) \/ Request(FALSE)

LEMMA RequestCounts ==
  ASSUME SatellitesWhole, Asked
  PROVE  Counted'
<1>1. /\ requests < MaxRequests /\ requests' = requests + 1
      /\ refused' = ~TRUE \/ refused' = ~FALSE
  BY DEF Asked, Request
<1>2. requests' \in 0 .. MaxRequests
  BY <1>1, DetailAssumption, WholeParts DEF Counted
<1>3. refused' \in BOOLEAN
  BY <1>1, Zenon
<1> QED BY <1>2, <1>3 DEF Counted

\* The default type is there for those that have none.
LEMMA ShippingAdded ==
  ASSUME NEW row \in Row
  PROVE  /\ WithShipping(row.types) \in SUBSET ShippingType
         /\ DefaultType # None => WithShipping(row.types) # {}
<1>1. row.types \in SUBSET ShippingType
  BY DEF Row
<1> QED BY <1>1, DetailAssumption DEF WithShipping

LEMMA InitDetails == DetailInit => SatellitesWhole
<1> SUFFICES ASSUME DetailInit
             PROVE  Skus /\ Filings /\ Counted
  BY WholeParts
<1>1. DOMAIN sellable = {} /\ category \in Category /\ filed = {category} /\ cut = {} /\ unlisted = {}
  BY DEF DetailInit
<1>2. Filings
  BY <1>1 DEF Filings, SellersApart, OfSeller
<1>3. Counted
  <2>1. refused = FALSE /\ requests = 0 /\ MaxRequests \in Nat
    BY DetailAssumption DEF DetailInit
  <2>2. refused \in BOOLEAN
    BY <2>1, Zenon
  <2>3. requests \in 0 .. MaxRequests
    BY <2>1
  <2> QED BY <2>2, <2>3 DEF Counted
<1> QED BY <1>1, <1>2, <1>3 DEF Skus

LEMMA CreateWhole ==
  ASSUME SatellitesWhole, NEW k \in Sku, NEW l \in BarcodeLists, NEW given \in Barcode \cup {None},
         NEW types \in TypeLists, Create(k, l, given, types)
  PROVE  SatellitesWhole'
<1>1. Skus /\ Filings
  BY WholeParts
<1> DEFINE codes == Inserted({}, l)
           barcode == IF l = <<>> THEN given ELSE Last(l)
           shipping == WithShipping(types)
           row == [category |-> category, barcode |-> barcode, codes |-> codes, types |-> shipping]
<1>2. /\ Request(TRUE) /\ k \notin DOMAIN sellable /\ (l # <<>> => given = None)
      /\ sellable' = [x \in DOMAIN sellable \cup {k} |-> IF x # k THEN sellable[x] ELSE row]
      /\ unlisted' = IF given = None THEN unlisted ELSE unlisted \cup {k}
      /\ UNCHANGED <<category, filed, cut>>
  BY DEF Create
<1>3. /\ codes \in SUBSET BarcodeRow /\ CodesApart(codes)
      /\ l = <<>> => codes = {}
      /\ l # <<>> => Marked(codes) = {Last(l)} /\ Last(l) \in Barcode
  <2>1. CodesApart({}) /\ {} \in SUBSET BarcodeRow
    BY DEF CodesApart
  <2> QED BY <2>1, InsertedCodes
<1>4. types \in SUBSET ShippingType
  BY DetailAssumption
<1>5. shipping \in SUBSET ShippingType /\ (DefaultType # None => shipping # {})
  BY <1>4, DetailAssumption DEF WithShipping
<1> HIDE DEF codes, shipping
<1>6. barcode \in Barcode \cup {None}
  BY <1>3
<1>7. IF given = None THEN Marked(codes) = {barcode} \ {None} ELSE codes = {}
  <2>1. CASE l = <<>>
    BY <1>3, <2>1 DEF Marked
  <2>2. CASE l # <<>>
    BY <1>2, <1>3, <2>2, DetailAssumption
  <2> QED BY <2>1, <2>2
<1> HIDE DEF barcode
<1>8. category \in Category
  BY <1>1 DEF Filings
<1>9. row \in Row /\ row.codes = codes /\ row.barcode = barcode /\ row.types = shipping
  BY <1>3, <1>5, <1>6, <1>8 DEF Row, BarcodeRow
<1> HIDE DEF row
<1>10. RowWhole(row, given # None) /\ Ships(row)
  BY <1>3, <1>5, <1>7, <1>9 DEF RowWhole, BarcodesFit, Ships
<1>11. k \notin unlisted
  BY <1>1, <1>2 DEF Skus
<1>12. Skus'
  <2>1. /\ DOMAIN sellable' = DOMAIN sellable \cup {k} /\ sellable'[k] = row
        /\ \A x \in DOMAIN sellable : sellable'[x] = sellable[x] /\ (x \in unlisted' <=> x \in unlisted)
        /\ k \in unlisted' <=> given # None
        /\ unlisted' \subseteq DOMAIN sellable'
    BY <1>1, <1>2, <1>11 DEF Skus
  <2>2. \A x \in DOMAIN sellable' :
          RowWhole(sellable'[x], x \in unlisted') /\ (Ships(sellable'[x]) \/ x \in cut)
    <3>1. ASSUME NEW x \in DOMAIN sellable
          PROVE  RowWhole(sellable'[x], x \in unlisted') /\ (Ships(sellable'[x]) \/ x \in cut)
      BY <1>1, <2>1 DEF Skus
    <3>2. RowWhole(sellable'[k], k \in unlisted') /\ Ships(sellable'[k])
      BY <1>10, <2>1
    <3> QED BY <2>1, <3>1, <3>2
  <2> QED BY <1>1, <1>2, <2>1, <2>2 DEF Skus, RowWhole, Ships, BarcodesFit
<1>13. Filings'
  BY <1>1, <1>2 DEF Filings, SellersApart, OfSeller
<1>14. Counted'
  <2>1. Asked
    BY <1>2 DEF Asked
  <2> QED BY <2>1, RequestCounts
<1> QED BY <1>12, <1>13, <1>14, WholeParts, PTL

-----------------------------------------------------------------------------
(* Requests that change an SKU.                                            *)

\* The fields of a request, their number and their shapes.
Fields(d) ==
  /\ Len(d) \in Nat /\ DOMAIN d = 1 .. Len(d)
  /\ \A i \in 1 .. Len(d) : FieldOK(d[i])
  /\ \A i, j \in 1 .. Len(d) : d[i].key = d[j].key => i = j

LEMMA DataOK ==
  ASSUME NEW d \in Data
  PROVE  Fields(d)
<1>1. PICK o \in FieldOrders :
        /\ d \in [DOMAIN o -> UNION {[key : {o[i]}, value : Values[o[i]]] : i \in DOMAIN o}]
        /\ \A i \in DOMAIN o : d[i].key = o[i]
  BY DEF Data
<1>2. o \in Seq({"barcodes", "shipping_types", "category_id", "editing_status_code"}) /\ IsInjective(o)
  BY DetailAssumption
<1>3. Len(o) \in Nat /\ DOMAIN o = 1 .. Len(o) /\ \A i, j \in DOMAIN o : o[i] = o[j] => i = j
  BY <1>2 DEF IsInjective
<1>4. DOMAIN d = 1 .. Len(o)
  BY <1>1, <1>3
<1>5. Len(d) = Len(o)
  BY <1>3, <1>4
<1>6. ASSUME NEW i \in DOMAIN o
      PROVE  FieldOK(d[i])
  <2>1. PICK j \in DOMAIN o : d[i] \in [key : {o[j]}, value : Values[o[j]]]
    BY <1>1
  <2>2. d[i].key = o[j] /\ d[i].value \in Values[o[j]]
    BY <2>1
  <2> QED BY <2>2 DEF FieldOK, Values
<1>7. \A i, j \in DOMAIN o : d[i].key = d[j].key => i = j
  BY <1>1, <1>3
<1> QED BY <1>3, <1>4, <1>5, <1>6, <1>7 DEF Fields

\* Of a refused request the first fields are kept, and not the refused one.
KeptFields(d, n, e) ==
  /\ Len(e) \in Nat /\ DOMAIN e = 1 .. Len(e) /\ Len(e) < n
  /\ \A i \in 1 .. Len(e) : e[i] = d[i]

LEMMA KeptIs ==
  ASSUME NEW d \in Data, NEW n \in DOMAIN d
  PROVE  KeptFields(d, n, Kept(d, n))
<1> DEFINE T == {0} \cup {i \in 1 .. (n - 1) : d[i].key = "editing_status_code"}
           m == Max(T)
<1>1. Fields(d)
  BY DataOK
<1>2. Len(d) \in Nat /\ DOMAIN d = 1 .. Len(d) /\ n \in 1 .. Len(d)
  BY <1>1 DEF Fields
<1>3. T \in SUBSET Nat /\ T # {} /\ n \in Nat /\ \A i \in T : i < n
  BY <1>2
<1>4. m \in T
  <2> HIDE DEF T
  <2> QED BY <1>3, MaxIsElement
<1>5. m \in Nat /\ m < n
  <2> HIDE DEF T
  <2> QED BY <1>3, <1>4
<1>6. Kept(d, n) = SubSeq(d, 1, m)
  BY DEF Kept
<1> HIDE DEF m
<1>7. \A i \in 1 .. m : i \in DOMAIN d
  BY <1>2, <1>5
<1>8. SubSeq(d, 1, m) = [i \in 1 .. m |-> d[i]]
  BY <1>5, <1>7
<1>9. Len(SubSeq(d, 1, m)) = m
  BY <1>5, <1>8
<1> QED BY <1>5, <1>6, <1>8, <1>9 DEF KeptFields

\* What the fields of e make of an SKU and of what is filed.
LEMMA AfterWhole ==
  ASSUME SatellitesWhole, NEW k \in DOMAIN sellable, NEW overwrite \in BOOLEAN,
         NEW e, Len(e) \in Nat, DOMAIN e = 1 .. Len(e), \A i \in 1 .. Len(e) : FieldOK(e[i]),
         NEW s \in After(<<sellable[k], filed>>, e, overwrite)
  PROVE  /\ RowWhole(s[1], k \in unlisted \ Listed(k, e, overwrite))
         /\ s[2] \subseteq Category /\ SellersApart(s[2])
         /\ (\A i \in 1 .. Len(e) : e[i].key # "category_id") => s[2] = filed
         /\ Len(e) = 0 => s[1] = sellable[k]
<1> DEFINE state == <<sellable[k], filed>>
           bare == k \in unlisted
           still == bare /\ \A i \in 1 .. Len(e) : ~GivesList(e[i], overwrite)
<1>1. Skus /\ Filings
  BY WholeParts
<1>2. RowWhole(sellable[k], bare) /\ filed \subseteq Category /\ SellersApart(filed)
  BY <1>1 DEF Skus, Filings
<1>3. state[1] = sellable[k] /\ state[2] = filed
  OBVIOUS
<1>4. bare \in BOOLEAN
  OBVIOUS
<1>5. s \in After(state, e, overwrite)
  OBVIOUS
<1> HIDE DEF state
<1>6. StateOK(state, bare)
  BY <1>2, <1>3 DEF RowWhole, StateOK
<1> HIDE DEF bare
<1>7. KeptBy(s, Len(e), state, bare, e, overwrite) /\ (Len(e) = 0 => s = state)
  BY <1>4, <1>5, <1>6, AfterOK
<1>8. /\ StateOK(s, still)
      /\ (\A i \in 1 .. Len(e) : e[i].key # "category_id") => s[2] = filed
      /\ Len(e) = 0 => s[1] = sellable[k]
  BY <1>3, <1>7 DEF KeptBy
<1>9. still <=> k \in unlisted \ Listed(k, e, overwrite)
  BY DEF Listed, GivesList, bare
<1> HIDE DEF still
<1>10. /\ s[1] \in Row /\ CodesApart(s[1].codes) /\ BarcodesFit(s[1], still)
       /\ s[2] \subseteq Category /\ SellersApart(s[2])
  BY <1>8 DEF StateOK
<1>11. BarcodesFit(s[1], k \in unlisted \ Listed(k, e, overwrite))
  BY <1>9, <1>10 DEF BarcodesFit
<1> QED BY <1>8, <1>10, <1>11 DEF RowWhole

\* The SKU that changes is whole, the others are as they were.
LEMMA SkuChanges ==
  ASSUME Skus, NEW k \in DOMAIN sellable, NEW row, NEW listed \in SUBSET {k},
         sellable' = [sellable EXCEPT ![k] = row],
         unlisted' = unlisted \ listed,
         cut' \subseteq cut \cup {k}, cut \ {k} \subseteq cut',
         RowWhole(row, k \in unlisted \ listed), Ships(row) \/ k \in cut'
  PROVE  Skus'
<1>1. /\ DOMAIN sellable' = DOMAIN sellable /\ sellable'[k] = row
      /\ \A x \in DOMAIN sellable : x # k => sellable'[x] = sellable[x]
  OBVIOUS
<1>2. /\ DOMAIN sellable' \subseteq Sku /\ cut' \subseteq DOMAIN sellable'
      /\ unlisted' \subseteq DOMAIN sellable'
  BY <1>1 DEF Skus
<1>3. ASSUME NEW x \in DOMAIN sellable
      PROVE  RowWhole(sellable'[x], x \in unlisted') /\ (Ships(sellable'[x]) \/ x \in cut')
  <2>1. CASE x = k
    BY <1>1, <2>1
  <2>2. CASE x # k
    <3>1. RowWhole(sellable[x], x \in unlisted) /\ (Ships(sellable[x]) \/ x \in cut)
      BY DEF Skus
    <3>2. (x \in unlisted') = (x \in unlisted) /\ (x \in cut => x \in cut') /\ sellable'[x] = sellable[x]
      BY <1>1, <2>2
    <3> QED BY <3>1, <3>2
  <2> QED BY <2>1, <2>2
<1> QED BY <1>1, <1>2, <1>3 DEF Skus, RowWhole, Ships, BarcodesFit

LEMMA UpdateWhole ==
  ASSUME SatellitesWhole, NEW k \in Sku, NEW d \in Data, NEW overwrite \in BOOLEAN,
         Update(k, d, overwrite)
  PROVE  SatellitesWhole'
<1>1. Skus /\ Filings
  BY WholeParts
<1>2. /\ k \in DOMAIN sellable /\ cut' = cut \ {k} /\ category' = category
      /\ unlisted' = unlisted \ Listed(k, d, overwrite)
      /\ Asked
  BY DEF Update, Asked
<1>3. PICK s \in After(<<sellable[k], filed>>, d, overwrite) :
        /\ sellable' = [sellable EXCEPT ![k] = [s[1] EXCEPT !.types = WithShipping(@)]]
        /\ filed' = s[2]
  BY DEF Update
<1>4. Len(d) \in Nat /\ DOMAIN d = 1 .. Len(d) /\ \A i \in 1 .. Len(d) : FieldOK(d[i])
  BY DataOK DEF Fields
<1>5. /\ RowWhole(s[1], k \in unlisted \ Listed(k, d, overwrite))
      /\ s[2] \subseteq Category /\ SellersApart(s[2])
  BY <1>2, <1>4, AfterWhole
<1> DEFINE listed == Listed(k, d, overwrite)
           types == WithShipping(s[1].types)
           row == [s[1] EXCEPT !.types = types]
<1>6. s[1] \in Row
  BY <1>5 DEF RowWhole
<1>7. types \in SUBSET ShippingType /\ (DefaultType # None => types # {})
  BY <1>6, ShippingAdded
<1>8. sellable' = [sellable EXCEPT ![k] = row]
  BY <1>3
<1> HIDE DEF types
<1>9. row \in Row /\ row.codes = s[1].codes /\ row.barcode = s[1].barcode /\ row.types = types
  BY <1>6, <1>7 DEF Row
<1> HIDE DEF row
<1>10. listed \in SUBSET {k}
  BY DEF Listed
<1> HIDE DEF listed
<1>11. RowWhole(row, k \in unlisted \ listed) /\ Ships(row)
  BY <1>5, <1>7, <1>9 DEF RowWhole, BarcodesFit, Ships, listed
<1>12. Skus'
  <2>1. unlisted' = unlisted \ listed
    BY <1>2 DEF listed
  <2> QED BY <1>1, <1>2, <1>8, <1>10, <1>11, <2>1, SkuChanges
<1>13. Filings'
  BY <1>1, <1>2, <1>3, <1>5 DEF Filings, SellersApart, OfSeller
<1>14. Counted'
  BY <1>2, RequestCounts
<1> QED BY <1>12, <1>13, <1>14, WholeParts, PTL

\* A refused request keeps the category it found, and what it has filed.
LEMMA UpdateRefusedWhole ==
  ASSUME SatellitesWhole, NEW k \in Sku, NEW d \in Data, NEW overwrite \in BOOLEAN,
         NEW n \in DOMAIN d, UpdateRefused(k, d, n, overwrite)
  PROVE  SatellitesWhole' /\ filed' = filed
<1>1. Skus /\ Filings
  BY WholeParts
<1> DEFINE e == Kept(d, n)
           listed == Listed(k, e, overwrite)
<1>2. /\ k \in DOMAIN sellable /\ cut' = (IF e = <<>> THEN cut ELSE cut \cup {k}) /\ category' = category
      /\ unlisted' = unlisted \ listed
  BY DEF UpdateRefused
<1>3. PICK s \in After(<<sellable[k], filed>>, e, overwrite) :
        sellable' = [sellable EXCEPT ![k] = s[1]] /\ filed' = s[2]
  BY DEF UpdateRefused
<1>4. Asked /\ d[n].key = "category_id"
  BY DEF UpdateRefused, Asked, Refuses
<1>5. KeptFields(d, n, e)
  BY KeptIs
<1> HIDE DEF e
<1>6. /\ Len(d) \in Nat /\ DOMAIN d = 1 .. Len(d) /\ \A i \in 1 .. Len(d) : FieldOK(d[i])
      /\ \A i, j \in 1 .. Len(d) : d[i].key = d[j].key => i = j
  BY DataOK DEF Fields
<1>7. Len(e) \in Nat /\ DOMAIN e = 1 .. Len(e) /\ Len(e) < n /\ \A i \in 1 .. Len(e) : e[i] = d[i]
  BY <1>5 DEF KeptFields
<1>8. \A i \in 1 .. Len(e) : i \in 1 .. Len(d) /\ i # n
  BY <1>6, <1>7
<1>9. \A i \in 1 .. Len(e) : FieldOK(e[i]) /\ e[i].key # "category_id"
  BY <1>4, <1>6, <1>7, <1>8
<1>10. /\ RowWhole(s[1], k \in unlisted \ listed)
       /\ s[2] = filed
       /\ Len(e) = 0 => s[1] = sellable[k]
  BY <1>2, <1>7, <1>9, AfterWhole
<1>11. listed \in SUBSET {k}
  BY DEF Listed
<1> HIDE DEF listed
<1>12. Ships(s[1]) \/ k \in cut'
  <2>1. CASE e = <<>>
    <3>1. Len(e) = 0
      BY <2>1
    <3> QED BY <1>1, <1>2, <1>10, <2>1, <3>1 DEF Skus
  <2>2. CASE e # <<>>
    BY <1>2, <2>2
  <2> QED BY <2>1, <2>2
<1>13. Skus'
  <2>1. cut' \subseteq cut \cup {k} /\ cut \ {k} \subseteq cut'
    BY <1>2
  <2> QED BY <1>1, <1>2, <1>3, <1>10, <1>11, <1>12, <2>1, SkuChanges
<1>14. filed' = filed
  BY <1>3, <1>10
<1>15. Filings'
  BY <1>1, <1>2, <1>14 DEF Filings, SellersApart, OfSeller
<1>16. Counted'
  BY <1>4, RequestCounts
<1> QED BY <1>13, <1>14, <1>15, <1>16, WholeParts, PTL

-----------------------------------------------------------------------------
(* Other writers.                                                          *)

\* The categories given take the place of those of their sellers.
LEMMA UpdateProductWhole ==
  ASSUME SatellitesWhole, NEW cs \in SUBSET Category, NEW c \in cs, UpdateProduct(c, cs)
  PROVE  SatellitesWhole'
<1>1. Skus /\ Filings
  BY WholeParts
<1>2. /\ Asked /\ category' = c /\ UNCHANGED <<sellable, cut, unlisted>>
      /\ \A d \in cs : OfSeller(cs, d) = {d}
  BY DEF UpdateProduct, Asked
<1>3. PICK reused \in [{d \in cs : OfSeller(filed, d) # {}} -> filed] :
        /\ \A d \in DOMAIN reused : reused[d] \in OfSeller(filed, d)
        /\ filed' = (filed \ Range(reused)) \cup cs
  BY DEF UpdateProduct
<1>4. filed \subseteq Category /\ SellersApart(filed) /\ category \in Category
  BY <1>1 DEF Filings
<1>5. Range(reused) = {reused[d] : d \in DOMAIN reused}
  BY DEF Range
<1>6. filed' \subseteq Category /\ category' \in Category
  BY <1>2, <1>3, <1>4
<1>7. \A a, b \in filed : OwnerOf[a] = OwnerOf[b] => a = b
  BY <1>4 DEF SellersApart, OfSeller
<1>8. \A a, b \in cs : OwnerOf[a] = OwnerOf[b] => a = b
  BY <1>2 DEF OfSeller
<1>9. ASSUME NEW a \in filed \ Range(reused), NEW b \in cs
      PROVE  OwnerOf[a] # OwnerOf[b]
  <2>1. SUFFICES ASSUME OwnerOf[a] = OwnerOf[b]
                 PROVE  FALSE
    OBVIOUS
  <2>2. a \in OfSeller(filed, b)
    BY <2>1 DEF OfSeller
  <2>3. b \in DOMAIN reused
    BY <1>3, <2>2
  <2>4. reused[b] \in filed /\ OwnerOf[reused[b]] = OwnerOf[b]
    BY <1>3, <2>3 DEF OfSeller
  <2>5. reused[b] = a
    BY <1>7, <2>1, <2>4
  <2> QED BY <1>5, <2>3, <2>5
<1>10. \A a, b \in filed' : OwnerOf[a] = OwnerOf[b] => a = b
  BY <1>3, <1>7, <1>8, <1>9
<1>11. Filings'
  BY <1>6, <1>10 DEF Filings, SellersApart, OfSeller
<1>12. Skus'
  BY <1>1, <1>2 DEF Skus, RowWhole, Ships, BarcodesFit
<1>13. Counted'
  BY <1>2, RequestCounts
<1> QED BY <1>11, <1>12, <1>13, WholeParts, PTL

LEMMA ApplyShippingWhole ==
  ASSUME SatellitesWhole, NEW c \in Category, NEW given \in TypeLists, ApplyShipping(c, given)
  PROVE  SatellitesWhole'
<1>1. Skus /\ Filings
  BY WholeParts
<1> DEFINE added == IF given = {} THEN TypesOf[c] ELSE given
           Applied(row) == [row EXCEPT !.types = @ \cup added]
<1>2. /\ Asked /\ UNCHANGED <<category, filed, cut, unlisted>>
      /\ sellable' = [k \in DOMAIN sellable |-> IF k \in Reached(c) THEN Applied(sellable[k]) ELSE sellable[k]]
  BY DEF ApplyShipping, Asked
<1>3. added \in SUBSET ShippingType
  BY DetailAssumption
<1> HIDE DEF added
<1>4. ASSUME NEW row, NEW bare, RowWhole(row, bare)
      PROVE  RowWhole(Applied(row), bare) /\ (Ships(row) => Ships(Applied(row)))
  <2>1. row \in Row
    BY <1>4 DEF RowWhole
  <2>2. row.types \cup added \in SUBSET ShippingType
    BY <1>3, <2>1 DEF Row
  <2>3. /\ Applied(row) \in Row /\ Applied(row).codes = row.codes /\ Applied(row).barcode = row.barcode
        /\ Applied(row).types = row.types \cup added
    BY <2>1, <2>2 DEF Row
  <2> HIDE DEF Applied
  <2> QED BY <1>4, <2>3 DEF RowWhole, BarcodesFit, Ships
<1> HIDE DEF Applied
<1>5. \A k \in DOMAIN sellable : /\ RowWhole(sellable'[k], k \in unlisted)
                                 /\ Ships(sellable'[k]) \/ k \in cut
  BY <1>1, <1>2, <1>4 DEF Skus
<1>6. Skus'
  BY <1>1, <1>2, <1>5 DEF Skus, RowWhole, Ships, BarcodesFit
<1>7. Filings'
  BY <1>1, <1>2 DEF Filings, SellersApart, OfSeller
<1>8. Counted'
  BY <1>2, RequestCounts
<1> QED BY <1>6, <1>7, <1>8, WholeParts, PTL

\* No request breaks what hangs on an SKU, and a refused one files nothing.
LEMMA NextWhole ==
  SatellitesWhole /\ [DetailNext]_detailVars => SatellitesWhole' /\ (refused' => filed' = filed)
<1> SUFFICES ASSUME SatellitesWhole, [DetailNext]_detailVars
             PROVE  SatellitesWhole' /\ (refused' => filed' = filed)
  OBVIOUS
<1>1. CASE \E k \in Sku, l \in BarcodeLists, b \in Barcode \cup {None}, t \in TypeLists : Create(k, l, b, t)
  <2>1. PICK k \in Sku, l \in BarcodeLists, b \in Barcode \cup {None}, t \in TypeLists : Create(k, l, b, t)
    BY <1>1
  <2>2. filed' = filed
    BY <2>1 DEF Create
  <2> QED BY <2>1, <2>2, CreateWhole
<1>2. CASE \E k \in Sku, d \in Data, overwrite \in BOOLEAN : Update(k, d, overwrite)
  <2>1. PICK k \in Sku, d \in Data, overwrite \in BOOLEAN : Update(k, d, overwrite)
    BY <1>2
  <2>2. ~refused'
    <3>1. refused' = ~TRUE
      BY <2>1 DEF Update, Request
    <3> QED BY <3>1, Zenon
  <2> QED BY <2>1, <2>2, UpdateWhole
<1>3. CASE \E k \in Sku, d \in Data, overwrite \in BOOLEAN : \E n \in DOMAIN d : UpdateRefused(k, d, n, overwrite)
  <2>1. PICK k \in Sku, d \in Data, overwrite \in BOOLEAN : \E n \in DOMAIN d : UpdateRefused(k, d, n, overwrite)
    BY <1>3
  <2>2. PICK n \in DOMAIN d : UpdateRefused(k, d, n, overwrite)
    BY <2>1
  <2> QED BY <2>2, UpdateRefusedWhole
<1>4. CASE \E cs \in SUBSET Category : \E c \in cs : UpdateProduct(c, cs)
  <2>1. PICK cs \in SUBSET Category : \E c \in cs : UpdateProduct(c, cs)
    BY <1>4
  <2>2. PICK c \in cs : UpdateProduct(c, cs)
    BY <2>1
  <2>3. ~refused'
    <3>1. refused' = ~TRUE
      BY <2>2 DEF UpdateProduct, Request
    <3> QED BY <3>1, Zenon
  <2> QED BY <2>2, <2>3, UpdateProductWhole
<1>5. CASE \E c \in Category, t \in TypeLists : ApplyShipping(c, t)
  <2>1. PICK c \in Category, t \in TypeLists : ApplyShipping(c, t)
    BY <1>5
  <2>2. filed' = filed
    BY <2>1 DEF ApplyShipping
  <2> QED BY <2>1, <2>2, ApplyShippingWhole
<1>6. CASE UNCHANGED detailVars
  <2>1. SatellitesWhole <=> Skus /\ Filings /\ Counted
    BY WholeParts
  <2>2. Skus' /\ Filings' /\ Counted'
    BY <1>6, <2>1 DEF detailVars, Skus, Filings, Counted, RowWhole, Ships, BarcodesFit, SellersApart, OfSeller
  <2>3. SatellitesWhole'
    BY <2>2, WholeParts, PTL
  <2>4. filed' = filed
    BY <1>6 DEF detailVars
  <2> QED BY <2>3, <2>4
<1> QED BY <1>1, <1>2, <1>3, <1>4, <1>5, <1>6 DEF DetailNext

-----------------------------------------------------------------------------

\* What hangs on an SKU is whole between any two requests: one default
\* barcode, a shipping type unless a refused request took the last, and one
\* category of each seller (sellable.py, update_common and its callers).
THEOREM SatellitesStayWhole == DetailSpec => []SatellitesWhole
<1>1. DetailInit => SatellitesWhole
  BY InitDetails
<1>2. SatellitesWhole /\ [DetailNext]_detailVars => SatellitesWhole'
  BY NextWhole
<1> QED BY <1>1, <1>2, PTL DEF DetailSpec

\* A refused request files nothing, whatever it committed before it was
\* refused (update_sellable_editing_status commits, the handler rolls back).
THEOREM RefusalsFileNothing == DetailSpec => RefusalFilesNothing
<1>1. SatellitesWhole /\ [DetailNext]_detailVars => [refused' => filed' = filed]_detailVars
  BY NextWhole
<1>2. DetailSpec => []SatellitesWhole
  BY SatellitesStayWhole
<1> QED BY <1>1, <1>2, PTL DEF DetailSpec, RefusalFilesNothing

-----------------------------------------------------------------------------
(* Terminals and terminal groups.                                          *)

\* Those who work on groups: functions with the sessions as their domain.
Shapes ==
  /\ TerminalTypeOK
  /\ DOMAIN upsert = Session /\ lone \subseteq Session
  /\ DOMAIN shown = Sku /\ DOMAIN ordered = Sku

\* A session that is alone shares no SKU with another.
LoneApart ==
  \A s \in lone, x \in Session : x # s /\ upsert[x] # None => upsert[x].skus \cap upsert[s].skus = {}

\* What it will insert is what it should.
WantsGoal == \A s \in lone : upsert[s].want = upsert[s].goal

HasGroups(k, gs) == groups[k] = [g \in Group |-> IF g \in gs THEN 1 ELSE 0]

\* Nothing comes between its delete and its insert.
Emptied ==
  \A s \in lone : upsert[s].stage = "insert" => \A k \in upsert[s].skus : HasGroups(k, {})

Inserting(k) == \E s \in Session : upsert[s] # None /\ upsert[s].stage = "insert" /\ k \in upsert[s].skus

\* An undisturbed SKU has its groups, unless it is between delete and insert.
Settled == \A k \in Sku \ disturbed : ~Inserting(k) => HasGroups(k, asked[k])

GroupsInv == LoneApart /\ WantsGoal /\ Emptied /\ Settled

\* A row is for all terminals of its seller and type, or for one there is.
RowsFine(rows) ==
  \A r \in rows :
    /\ (r.id = None /\ r.code = None) \/ (r.id \in DOMAIN terminal /\ r.code = terminal[r.id].code)
    /\ \A q \in rows : q.seller = r.seller /\ q.type = r.type => (q.code = None <=> r.code = None)

\* The codes of the rows beside r, what they stand for, and the orders read.
CodesBeside(rows, r) == {q.code : q \in {x \in rows : x.seller = r.seller /\ x.type = r.type}}
ReadAs(rows, r) ==
  [seller |-> r.seller, type |-> r.type,
   codes |-> IF CodesBeside(rows, r) = {None} THEN All ELSE CodesBeside(rows, r)]
Read(rows) == {ReadAs(rows, r) : r \in rows}

\* The orders of each SKU are what its rows are read as.
ShownInv == \A k \in Sku : RowsFine(shown[k]) /\ Read(shown[k]) = ordered[k]

TerminalInv == Shapes /\ GroupsInv /\ ShownInv /\ MappingIsFirst

-----------------------------------------------------------------------------
(* Orders and rows.                                                        *)

LEMMA TerminalsRead == \A k : TerminalsOf(k) = Read(shown[k])
BY DEF TerminalsOf, Read, ReadAs, CodesBeside

KnownCodes == {terminal[t].code : t \in DOMAIN terminal}
Trimmed(o) == IF o.codes = All THEN All ELSE o.codes \cap KnownCodes

LEMMA KnownTrimmed ==
  ASSUME NEW order \in OrdersAsked
  PROVE  Known(order) =
           {o \in {[seller |-> o.seller, type |-> o.type, codes |-> Trimmed(o)] : o \in order} : o.codes # {}}
<1>1. \A o \in order : o \in SellerOrder
  BY TerminalAssumption
<1>2. \A o \in order : [o EXCEPT !.codes = Trimmed(o)] = [seller |-> o.seller, type |-> o.type, codes |-> Trimmed(o)]
  BY <1>1 DEF SellerOrder
<1> DEFINE Abridged(o) == [o EXCEPT !.codes = Trimmed(o)]
           Full(o) == [seller |-> o.seller, type |-> o.type, codes |-> Trimmed(o)]
<1>3. Known(order) = {x \in {Abridged(o) : o \in order} : x.codes # {}}
  BY DEF Known, Trimmed, KnownCodes
<1>4. \A o \in order : Abridged(o) = Full(o)
  BY <1>2
<1> HIDE DEF Abridged, Full
<1>5. Known(order) = {x \in {Full(o) : o \in order} : x.codes # {}}
  BY <1>3, <1>4
<1> QED BY <1>5 DEF Full

\* A row that an order has made.
RowFor(r, o) ==
  /\ r.seller = o.seller /\ r.type = o.type
  /\ IF o.codes = All THEN r.id = None /\ r.code = None
     ELSE r.id \in DOMAIN terminal /\ r.code = terminal[r.id].code /\ r.code \in o.codes

LEMMA RowsMade ==
  ASSUME NEW order
  PROVE  /\ \A r \in Rows(order) : \E o \in order : RowFor(r, o)
         /\ \A o \in order : o.codes = All => \E r \in Rows(order) : RowFor(r, o)
         /\ \A o \in order : o.codes # All => \A t \in DOMAIN terminal :
              terminal[t].code \in o.codes => \E r \in Rows(order) : RowFor(r, o) /\ r.code = terminal[t].code
<1> DEFINE RowsOfOrder(o) ==
             IF o.codes = All THEN {[seller |-> o.seller, type |-> o.type, id |-> None, code |-> None]}
             ELSE {[seller |-> o.seller, type |-> o.type, id |-> t, code |-> terminal[t].code] :
                     t \in {x \in DOMAIN terminal : terminal[x].code \in o.codes}}
<1>1. Rows(order) = UNION {RowsOfOrder(o) : o \in order}
  BY DEF Rows
<1>2. ASSUME NEW o
      PROVE  /\ \A r \in RowsOfOrder(o) : RowFor(r, o)
             /\ o.codes = All => \E r \in RowsOfOrder(o) : RowFor(r, o)
             /\ o.codes # All => \A t \in DOMAIN terminal :
                  terminal[t].code \in o.codes => \E r \in RowsOfOrder(o) : RowFor(r, o) /\ r.code = terminal[t].code
  <2>1. CASE o.codes = All
    BY <2>1 DEF RowFor
  <2>2. CASE o.codes # All
    <3>1. \A r \in RowsOfOrder(o) : RowFor(r, o)
      BY <2>2 DEF RowFor
    <3>2. ASSUME NEW t \in DOMAIN terminal, terminal[t].code \in o.codes
          PROVE  \E r \in RowsOfOrder(o) : RowFor(r, o) /\ r.code = terminal[t].code
      <4>1. PICK r : r = [seller |-> o.seller, type |-> o.type, id |-> t, code |-> terminal[t].code]
        OBVIOUS
      <4>2. r \in RowsOfOrder(o) /\ r.code = terminal[t].code
        BY <2>2, <3>2, <4>1
      <4> QED BY <3>1, <4>2
    <3> QED BY <2>2, <3>1, <3>2
  <2> QED BY <2>1, <2>2
<1> HIDE DEF RowsOfOrder
<1> QED BY <1>1, <1>2

\* The rows of an order are read as the order, without the codes nobody has.
LEMMA OrdersRead ==
  ASSUME NEW order \in OrdersAsked, \A t \in DOMAIN terminal : terminal[t].code \in Code
  PROVE  Read(Rows(order)) = Known(order) /\ RowsFine(Rows(order))
<1> DEFINE R == Rows(order)
<1>1. /\ \A o \in order : o.codes = All \/ o.codes \subseteq Code
      /\ \A o, p \in order : o.seller = p.seller /\ o.type = p.type => o = p
      /\ None \notin Code /\ All # {} /\ All # {None}
      /\ \A codes \in SUBSET Code : codes # All
  BY TerminalAssumption DEF SellerOrder
<1>2. /\ \A r \in R : \E o \in order : RowFor(r, o)
      /\ \A o \in order : o.codes = All => \E r \in R : RowFor(r, o)
      /\ \A o \in order : o.codes # All => \A t \in DOMAIN terminal :
           terminal[t].code \in o.codes => \E r \in R : RowFor(r, o) /\ r.code = terminal[t].code
  BY RowsMade
<1> HIDE DEF R
<1>3. ASSUME NEW r \in R, NEW o \in order, RowFor(r, o)
      PROVE  ReadAs(R, r) = [seller |-> o.seller, type |-> o.type, codes |-> Trimmed(o)] /\ Trimmed(o) # {}
  <2>1. \A q \in R : q.seller = r.seller /\ q.type = r.type => RowFor(q, o)
    BY <1>1, <1>2, <1>3 DEF RowFor
  <2>2. CASE o.codes = All
    <3>1. CodesBeside(R, r) = {None}
      BY <1>3, <2>1, <2>2 DEF CodesBeside, RowFor
    <3> QED BY <1>1, <1>3, <2>2, <3>1 DEF ReadAs, Trimmed, RowFor
  <2>3. CASE o.codes # All
    <3>1. CodesBeside(R, r) = o.codes \cap KnownCodes
      <4>1. \A c \in CodesBeside(R, r) : c \in o.codes \cap KnownCodes
        BY <2>1, <2>3 DEF CodesBeside, RowFor, KnownCodes
      <4>2. ASSUME NEW c \in o.codes \cap KnownCodes
            PROVE  c \in CodesBeside(R, r)
        <5>1. PICK t \in DOMAIN terminal : terminal[t].code = c
          BY DEF KnownCodes
        <5>2. PICK q \in R : RowFor(q, o) /\ q.code = c
          BY <1>2, <2>3, <5>1
        <5>3. q.seller = r.seller /\ q.type = r.type
          BY <1>3, <5>2 DEF RowFor
        <5> QED BY <5>2, <5>3 DEF CodesBeside
      <4> QED BY <4>1, <4>2
    <3>2. r.code \in CodesBeside(R, r)
      BY DEF CodesBeside
    <3>3. CodesBeside(R, r) # {None} /\ CodesBeside(R, r) # {}
      BY <1>1, <2>3, <3>1, <3>2
    <3>4. Trimmed(o) = CodesBeside(R, r)
      BY <2>3, <3>1 DEF Trimmed
    <3>5. r.seller = o.seller /\ r.type = o.type
      BY <1>3 DEF RowFor
    <3> QED BY <3>3, <3>4, <3>5 DEF ReadAs
  <2> QED BY <2>2, <2>3
<1>4. ASSUME NEW o \in order, Trimmed(o) # {}
      PROVE  \E r \in R : RowFor(r, o)
  <2>1. CASE o.codes = All
    BY <1>2, <2>1
  <2>2. CASE o.codes # All
    <3>1. PICK c : c \in o.codes \cap KnownCodes
      BY <1>4, <2>2 DEF Trimmed
    <3>2. PICK t \in DOMAIN terminal : terminal[t].code = c
      BY <3>1 DEF KnownCodes
    <3> QED BY <1>2, <2>2, <3>1, <3>2
  <2> QED BY <2>1, <2>2
<1>5. Read(R) = {o \in {[seller |-> o.seller, type |-> o.type, codes |-> Trimmed(o)] : o \in order} : o.codes # {}}
  <2> DEFINE Full(o) == [seller |-> o.seller, type |-> o.type, codes |-> Trimmed(o)]
  <2>0. \A o : Full(o).codes = Trimmed(o)
    OBVIOUS
  <2> HIDE DEF Full
  <2>1. ASSUME NEW x \in Read(R)
        PROVE  \E o \in order : x = Full(o) /\ Trimmed(o) # {}
    <3>1. PICK r \in R : x = ReadAs(R, r)
      BY DEF Read
    <3>2. PICK o \in order : RowFor(r, o)
      BY <1>2
    <3> QED BY <1>3, <3>1, <3>2 DEF Full
  <2>2. ASSUME NEW o \in order, Trimmed(o) # {}
        PROVE  Full(o) \in Read(R)
    <3>1. PICK r \in R : RowFor(r, o)
      BY <1>4, <2>2
    <3> QED BY <1>3, <3>1 DEF Read, Full
  <2>3. Read(R) = {o \in {Full(o) : o \in order} : o.codes # {}}
    BY <2>0, <2>1, <2>2
  <2> QED BY <2>3 DEF Full
<1>6. RowsFine(R)
  <2>1. SUFFICES ASSUME NEW r \in R
                 PROVE  /\ (r.id = None /\ r.code = None) \/ (r.id \in DOMAIN terminal /\ r.code = terminal[r.id].code)
                        /\ \A q \in R : q.seller = r.seller /\ q.type = r.type => (q.code = None <=> r.code = None)
    BY DEF RowsFine
  <2>2. PICK o \in order : RowFor(r, o)
    BY <1>2
  <2>3. \A q \in R : q.seller = r.seller /\ q.type = r.type => RowFor(q, o)
    BY <1>1, <1>2, <2>2 DEF RowFor
  <2> QED BY <1>1, <2>2, <2>3 DEF RowFor
<1> QED BY <1>5, <1>6, KnownTrimmed DEF R

\* An order that is read has codes that terminals have.
LEMMA ReadIsKnown ==
  ASSUME NEW rows, RowsFine(rows), NEW order \in OrdersAsked, Read(rows) = order,
         \A t \in DOMAIN terminal : terminal[t].code \in Code
  PROVE  Known(order) = order
<1>1. ASSUME NEW o \in order
      PROVE  o = [seller |-> o.seller, type |-> o.type, codes |-> Trimmed(o)] /\ Trimmed(o) # {}
  <2>1. PICK r \in rows : o = ReadAs(rows, r)
    BY DEF Read
  <2>2. r.code \in CodesBeside(rows, r)
    BY DEF CodesBeside
  <2>3. o.seller = r.seller /\ o.type = r.type
        /\ o.codes = (IF CodesBeside(rows, r) = {None} THEN All ELSE CodesBeside(rows, r))
        /\ o = [seller |-> o.seller, type |-> o.type, codes |-> o.codes]
    BY <2>1 DEF ReadAs
  <2>4. CASE CodesBeside(rows, r) = {None}
    <3>1. Trimmed(o) = All /\ All # {}
      BY <2>3, <2>4, TerminalAssumption DEF Trimmed
    <3> QED BY <2>3, <2>4, <3>1
  <2>5. CASE CodesBeside(rows, r) # {None}
    <3>1. ASSUME NEW c \in CodesBeside(rows, r)
          PROVE  c \in KnownCodes
      <4>1. PICK q \in rows : q.seller = r.seller /\ q.type = r.type /\ c = q.code
        BY DEF CodesBeside
      <4>2. q.code # None
        BY <2>5, <4>1 DEF RowsFine, CodesBeside
      <4> QED BY <4>1, <4>2 DEF RowsFine, KnownCodes
    <3>2. CodesBeside(rows, r) \subseteq Code
      BY <3>1 DEF KnownCodes
    <3>3. o.codes # All /\ o.codes \cap KnownCodes = o.codes /\ o.codes # {}
      BY <2>2, <2>3, <2>5, <3>1, <3>2, TerminalAssumption
    <3> QED BY <2>3, <3>3 DEF Trimmed
  <2> QED BY <2>4, <2>5
<1>2. order = {o \in {[seller |-> o.seller, type |-> o.type, codes |-> Trimmed(o)] : o \in order} : o.codes # {}}
  <2> DEFINE Full(o) == [seller |-> o.seller, type |-> o.type, codes |-> Trimmed(o)]
  <2>0. \A o : Full(o).codes = Trimmed(o)
    OBVIOUS
  <2> HIDE DEF Full
  <2>1. \A o \in order : o = Full(o) /\ Trimmed(o) # {}
    BY <1>1 DEF Full
  <2>2. order = {o \in {Full(o) : o \in order} : o.codes # {}}
    BY <2>0, <2>1
  <2> QED BY <2>2 DEF Full
<1> QED BY <1>2, KnownTrimmed

-----------------------------------------------------------------------------
(* Each step keeps the invariant.                                          *)

LEMMA TerminalsHaveCodes ==
  TerminalTypeOK => \A t \in DOMAIN terminal : terminal[t].code \in Code
BY DEF TerminalTypeOK

LEMMA TerminalInvHolds == TerminalInit => TerminalInv
<1> SUFFICES ASSUME TerminalInit PROVE TerminalInv
  OBVIOUS
<1>1. Shapes
  BY DEF TerminalInit, Shapes, TerminalTypeOK
<1>2. GroupsInv
  BY DEF TerminalInit, GroupsInv, LoneApart, WantsGoal, Emptied, Settled, HasGroups
<1>3. ShownInv
  BY DEF TerminalInit, ShownInv, RowsFine, Read
<1>4. MappingIsFirst
  BY DEF TerminalInit, MappingIsFirst
<1> QED BY <1>1, <1>2, <1>3, <1>4 DEF TerminalInv

\* What a step that leaves the groups, or the terminals, alone keeps.
LEMMA GroupsKept ==
  ASSUME GroupsInv, UNCHANGED groupWork
  PROVE  GroupsInv'
BY DEF GroupsInv, groupWork, LoneApart, WantsGoal, Emptied, Settled, HasGroups, Inserting

LEMMA ShownKept ==
  ASSUME ShownInv, UNCHANGED <<terminal, shown, ordered>>
  PROVE  ShownInv'
BY DEF ShownInv, RowsFine

LEMMA TerminalUpserted ==
  ASSUME TerminalInv, NEW t \in Terminal, NEW code \in Code, NEW type \in Type,
         UpsertTerminal(t, code, type)
  PROVE  TerminalInv'
<1> USE DEF UpsertTerminal
<1>1. DOMAIN terminal' = DOMAIN terminal \cup {t}
      /\ (\A x \in DOMAIN terminal : terminal'[x].code = terminal[x].code)
      /\ (\A x \in DOMAIN terminal' : terminal'[x] \in [code : Code, type : Type])
  BY DEF TerminalInv, Shapes, TerminalTypeOK
<1>2. Shapes'
  BY <1>1 DEF TerminalInv, Shapes, TerminalTypeOK, groupWork
<1>3. GroupsInv'
  BY GroupsKept DEF TerminalInv
<1>4. ShownInv'
  <2>1. shown' = shown /\ ordered' = ordered
    OBVIOUS
  <2>2. ASSUME NEW k \in Sku
        PROVE  RowsFine(shown[k])' /\ (Read(shown[k]) = ordered[k])'
    <3>1. RowsFine(shown[k]) /\ Read(shown[k]) = ordered[k]
      BY DEF TerminalInv, ShownInv
    <3>2. RowsFine(shown[k])'
      BY <1>1, <2>1, <3>1 DEF RowsFine
    <3> QED BY <2>1, <3>1, <3>2
  <2> QED BY <2>2 DEF ShownInv
<1>5. MappingIsFirst'
  BY DEF TerminalInv, MappingIsFirst
<1> QED BY <1>2, <1>3, <1>4, <1>5 DEF TerminalInv

LEMMA GroupMapped ==
  ASSUME TerminalInv, NEW i \in Mapping, NEW code \in Code, NEW g \in Group,
         MapGroup(i, code, g)
  PROVE  TerminalInv'
<1> USE DEF MapGroup
<1>1. Shapes'
  BY DEF TerminalInv, Shapes, TerminalTypeOK, groupWork, Remapped
<1>2. GroupsInv' /\ ShownInv'
  BY GroupsKept, ShownKept DEF TerminalInv
<1>3. MappingIsFirst'
  BY DEF TerminalInv, MappingIsFirst, Remapped
<1> QED BY <1>1, <1>2, <1>3 DEF TerminalInv

LEMMA GroupsUnmapped ==
  ASSUME TerminalInv, NEW is \in SUBSET Mapping, UnmapGroups(is)
  PROVE  TerminalInv'
<1> USE DEF UnmapGroups
<1>1. Shapes'
  BY DEF TerminalInv, Shapes, TerminalTypeOK, groupWork
<1>2. GroupsInv' /\ ShownInv'
  BY GroupsKept, ShownKept DEF TerminalInv
<1>3. MappingIsFirst'
  BY DEF TerminalInv, MappingIsFirst
<1> QED BY <1>1, <1>2, <1>3 DEF TerminalInv

\* An SKU that seems to have the order has what the order comes to.
LEMMA TerminalsSet ==
  ASSUME TerminalInv, NEW ks \in (SUBSET Sku) \ {{}}, NEW order \in OrdersAsked, SetTerminals(ks, order)
  PROVE  TerminalInv'
<1> USE DEF SetTerminals
<1>0. \A t \in DOMAIN terminal : terminal[t].code \in Code
  BY TerminalsHaveCodes DEF TerminalInv, Shapes
<1>1. Shapes'
  BY DEF TerminalInv, Shapes, TerminalTypeOK, groupWork
<1>2. GroupsInv' /\ MappingIsFirst'
  BY GroupsKept DEF TerminalInv, MappingIsFirst
<1>3. ASSUME NEW k \in Sku
      PROVE  RowsFine(shown'[k]) /\ Read(shown'[k]) = ordered'[k]
  <2>1. RowsFine(shown[k]) /\ Read(shown[k]) = ordered[k]
    BY DEF TerminalInv, ShownInv
  <2>2. CASE k \notin ks
    BY <2>1, <2>2 DEF TerminalInv, Shapes
  <2>3. CASE k \in ks /\ Unchanged(ks, order)
    <3>1. Read(shown[k]) = order
      BY <2>3, TerminalsRead DEF Unchanged
    <3>2. Known(order) = order
      BY <1>0, <2>1, <3>1, ReadIsKnown
    <3> QED BY <2>1, <2>3, <3>1, <3>2
  <2>4. CASE k \in ks /\ ~Unchanged(ks, order)
    <3>1. Read(Rows(order)) = Known(order) /\ RowsFine(Rows(order))
      BY <1>0, OrdersRead
    <3> QED BY <2>4, <3>1
  <2> QED BY <2>2, <2>3, <2>4
<1>4. ShownInv'
  <2>1. terminal' = terminal
    OBVIOUS
  <2>2. ASSUME NEW k \in Sku
        PROVE  RowsFine(shown[k])' /\ (Read(shown[k]) = ordered[k])'
    <3>1. RowsFine(shown[k])'
      BY <1>3, <2>1 DEF RowsFine
    <3> QED BY <1>3, <3>1
  <2> QED BY <2>2 DEF ShownInv
<1> QED BY <1>1, <1>2, <1>4 DEF TerminalInv

-----------------------------------------------------------------------------
(* Groups.                                                                 *)

\* Who is alone after a request for ks has begun.
LEMMA EnterApart ==
  ASSUME TerminalInv, NEW s \in Session, NEW ks \in SUBSET Sku, upsert[s] = None,
         NEW want, NEW goal, NEW stage,
         upsert' = [upsert EXCEPT ![s] = [skus |-> ks, want |-> want, goal |-> goal, stage |-> stage]],
         Enter(s, ks)
  PROVE  /\ lone' \subseteq lone \cup {s}
         /\ \A x \in lone' : \A y \in Session :
              y # x /\ upsert'[y] # None => upsert'[y].skus \cap upsert'[x].skus = {}
<1> DEFINE others == {x \in Session : upsert[x] # None /\ upsert[x].skus \cap ks # {}}
           new == [skus |-> ks, want |-> want, goal |-> goal, stage |-> stage]
<1>1. lone' = IF others = {} THEN lone \cup {s} ELSE lone \ others
  BY DEF Enter
<1>2. \A x \in Session : upsert'[x] = IF x = s THEN new ELSE upsert[x]
  BY DEF TerminalInv, Shapes
<1>3. new.skus = ks
  OBVIOUS
<1>4. /\ lone \subseteq Session /\ s \notin lone
      /\ \A x \in lone, y \in Session : y # x /\ upsert[y] # None => upsert[y].skus \cap upsert[x].skus = {}
      /\ \A x \in lone : upsert[x] # None
  BY DEF TerminalInv, Shapes, TerminalTypeOK, GroupsInv, LoneApart
<1> HIDE DEF new
<1>5. ASSUME NEW x \in lone', NEW y \in Session, y # x, upsert'[y] # None
      PROVE  upsert'[y].skus \cap upsert'[x].skus = {}
  <2>1. x \in Session
    BY <1>1, <1>4
  <2>2. CASE x = s
    BY <1>1, <1>2, <1>3, <1>4, <1>5, <2>2
  <2>3. CASE y = s
    BY <1>1, <1>2, <1>3, <1>4, <1>5, <2>1, <2>3
  <2>4. CASE x # s /\ y # s
    BY <1>1, <1>2, <1>4, <1>5, <2>1, <2>4
  <2> QED BY <2>2, <2>3, <2>4
<1> QED BY <1>1, <1>5

\* A request that begins with a goal it wants if it is alone.
LEMMA RequestBegun ==
  ASSUME TerminalInv, NEW s \in Session, NEW ks \in SUBSET Sku, upsert[s] = None,
         NEW want \in SUBSET Group, NEW goal \in SUBSET Group,
         upsert' = [upsert EXCEPT ![s] = [skus |-> ks, want |-> want, goal |-> goal, stage |-> "delete"]],
         Enter(s, ks), UNCHANGED <<terminalTables, groups, asked, disturbed>>,
         s \in lone' => want = goal
  PROVE  TerminalInv'
<1> DEFINE new == [skus |-> ks, want |-> want, goal |-> goal, stage |-> "delete"]
<1>1. \A x \in Session : upsert'[x] = IF x = s THEN new ELSE upsert[x]
  BY DEF TerminalInv, Shapes
<1>2. new \in GroupRequest /\ new # None
  BY TerminalAssumption DEF GroupRequest
<1>3. new.stage = "delete" /\ new.skus = ks /\ new.want = want /\ new.goal = goal
  OBVIOUS
<1>4. /\ lone' \subseteq lone \cup {s}
      /\ \A x \in lone' : \A y \in Session :
           y # x /\ upsert'[y] # None => upsert'[y].skus \cap upsert'[x].skus = {}
  BY EnterApart
<1>5. lone \subseteq Session /\ DOMAIN upsert' = Session
  BY DEF TerminalInv, Shapes
<1> HIDE DEF new
<1>6. Shapes'
  BY <1>1, <1>2, <1>4, <1>5 DEF TerminalInv, Shapes, TerminalTypeOK, terminalTables
<1>7. LoneApart'
  BY <1>4 DEF LoneApart
<1>8. WantsGoal'
  BY <1>1, <1>3, <1>4, <1>5 DEF TerminalInv, GroupsInv, WantsGoal
<1>9. Emptied'
  <2>1. ASSUME NEW x \in lone', upsert'[x].stage = "insert", NEW k \in upsert'[x].skus
        PROVE  HasGroups(k, {})'
    <3>1. x # s /\ x \in lone /\ upsert'[x] = upsert[x]
      BY <1>1, <1>3, <1>4, <1>5, <2>1
    <3>2. HasGroups(k, {})
      BY <2>1, <3>1 DEF TerminalInv, GroupsInv, Emptied
    <3> QED BY <3>2 DEF HasGroups
  <2> QED BY <2>1 DEF Emptied
<1>10. Settled'
  <2>1. ASSUME NEW k \in Sku, Inserting(k)
        PROVE  Inserting(k)'
    BY <1>1, <2>1 DEF Inserting
  <2> QED BY <2>1 DEF TerminalInv, GroupsInv, Settled, HasGroups
<1>11. ShownInv' /\ MappingIsFirst'
  BY ShownKept DEF TerminalInv, terminalTables, MappingIsFirst
<1> QED BY <1>6, <1>7, <1>8, <1>9, <1>10, <1>11 DEF TerminalInv, GroupsInv

LEMMA GroupsSet ==
  ASSUME TerminalInv, NEW s \in Session, NEW ks \in (SUBSET Sku) \ {{}}, NEW gs \in SUBSET Group,
         SetGroups(s, ks, gs)
  PROVE  TerminalInv'
BY RequestBegun DEF SetGroups

\* A request that reads groups while it is alone reads those there should be.
LEMMA GroupsChanged ==
  ASSUME TerminalInv, NEW s \in Session, NEW k \in Sku, NEW new \in SUBSET Group, NEW dropped \in SUBSET Group,
         ChangeGroups(s, k, new, dropped)
  PROVE  TerminalInv'
<1> DEFINE want == Changed(GroupsOf(k), new, dropped)
           goal == ((IF k \in disturbed THEN GroupsOf(k) ELSE asked[k]) \cup new) \ dropped
<1>1. upsert[s] = None /\ Enter(s, {k})
      /\ upsert' = [upsert EXCEPT ![s] = [skus |-> {k}, want |-> want, goal |-> goal, stage |-> "delete"]]
      /\ UNCHANGED <<terminalTables, groups, asked, disturbed>>
  BY DEF ChangeGroups
<1>2. asked[k] \in SUBSET Group /\ GroupsOf(k) \in SUBSET Group
  BY DEF TerminalInv, Shapes, TerminalTypeOK, GroupsOf
<1>3. want \in SUBSET Group /\ goal \in SUBSET Group
  BY <1>2 DEF Changed
<1>4. ASSUME s \in lone'
      PROVE  want = goal
  <2>1. CASE k \in disturbed
    BY <2>1 DEF Changed
  <2>2. CASE k \notin disturbed
    <3>1. s \notin lone
      BY <1>1 DEF TerminalInv, Shapes, TerminalTypeOK
    <3>2. {x \in Session : upsert[x] # None /\ upsert[x].skus \cap {k} # {}} = {}
      BY <1>1, <1>4, <3>1 DEF Enter
    <3>3. ~Inserting(k)
      BY <3>2 DEF Inserting
    <3>4. HasGroups(k, asked[k])
      BY <2>2, <3>3 DEF TerminalInv, GroupsInv, Settled
    <3>5. \A g \in Group : groups[k][g] = IF g \in asked[k] THEN 1 ELSE 0
      BY <3>4 DEF HasGroups
    <3>6. GroupsOf(k) = asked[k]
      BY <1>2, <3>5 DEF GroupsOf
    <3> QED BY <2>2, <3>6 DEF Changed
  <2> QED BY <2>1, <2>2
<1> HIDE DEF want, goal
<1> QED BY <1>1, <1>3, <1>4, RequestBegun

LEMMA GroupsDeleted ==
  ASSUME TerminalInv, NEW s \in Session, Delete(s)
  PROVE  TerminalInv'
<1>1. upsert[s] \in GroupRequest /\ upsert[s] # None /\ upsert[s].stage = "delete"
  BY DEF Delete, TerminalInv, Shapes, TerminalTypeOK
<1>2. PICK old : old = upsert[s]
  OBVIOUS
<1> DEFINE new == [old EXCEPT !.stage = "insert"]
<1>3. /\ new \in GroupRequest /\ new.stage = "insert"
      /\ new.skus = old.skus /\ new.want = old.want /\ new.goal = old.goal
  BY <1>1, <1>2 DEF GroupRequest
<1>4. new # None
  BY <1>3, TerminalAssumption
<1>5. upsert' = [upsert EXCEPT ![s] = new]
  BY <1>2 DEF Delete
<1> HIDE DEF new
<1>6. \A x \in Session : upsert'[x] = IF x = s THEN new ELSE upsert[x]
  BY <1>5 DEF TerminalInv, Shapes
<1>7. DOMAIN upsert' = Session
  BY <1>5 DEF TerminalInv, Shapes
<1>8. groups' = [k \in Sku |-> IF k \in old.skus THEN [g \in Group |-> 0] ELSE groups[k]]
      /\ UNCHANGED <<terminalTables, lone, asked, disturbed>>
  BY <1>2 DEF Delete
<1>9. Shapes'
  BY <1>3, <1>4, <1>6, <1>7, <1>8 DEF TerminalInv, Shapes, TerminalTypeOK, terminalTables
<1>10. LoneApart'
  <2>1. LoneApart /\ lone \subseteq Session
    BY DEF TerminalInv, GroupsInv, Shapes
  <2> QED BY <1>1, <1>2, <1>3, <1>6, <1>8, <2>1 DEF LoneApart
<1>11. WantsGoal'
  <2>1. WantsGoal /\ lone \subseteq Session
    BY DEF TerminalInv, GroupsInv, Shapes
  <2> QED BY <1>2, <1>3, <1>6, <1>8, <2>1 DEF WantsGoal
<1>12. \A k \in Sku : HasGroups(k, {})' <=> (k \in old.skus \/ HasGroups(k, {}))
  BY <1>8 DEF HasGroups
<1>13. Emptied'
  <2>1. Emptied /\ lone \subseteq Session /\ old.skus \subseteq Sku
    BY <1>1, <1>2 DEF TerminalInv, GroupsInv, Shapes, GroupRequest
  <2>2. \A x \in lone : upsert[x] \in GroupRequest
    BY DEF TerminalInv, Shapes, TerminalTypeOK
  <2>3. \A x \in lone : upsert[x].skus \subseteq Sku
    BY <2>2 DEF GroupRequest
  <2>4. ASSUME NEW x \in lone, upsert'[x].stage = "insert", NEW k \in upsert'[x].skus
        PROVE  HasGroups(k, {})'
    <3>1. CASE x = s
      BY <1>3, <1>6, <1>12, <2>1, <2>4, <3>1
    <3>2. CASE x # s
      BY <1>6, <1>12, <2>1, <2>3, <2>4, <3>2 DEF Emptied
    <3> QED BY <3>1, <3>2
  <2> QED BY <1>8, <2>4 DEF Emptied
<1>14. Settled'
  <2>1. ASSUME NEW k \in Sku, ~Inserting(k)'
        PROVE  ~Inserting(k) /\ k \notin old.skus
    BY <1>1, <1>2, <1>3, <1>4, <1>6, <2>1 DEF Inserting
  <2>2. ASSUME NEW k \in Sku \ disturbed, ~Inserting(k)'
        PROVE  HasGroups(k, asked[k])'
    <3>1. HasGroups(k, asked[k])
      BY <2>1, <2>2 DEF TerminalInv, GroupsInv, Settled
    <3> QED BY <1>8, <2>1, <2>2, <3>1 DEF HasGroups
  <2> QED BY <1>8, <2>2 DEF Settled
<1>15. ShownInv' /\ MappingIsFirst'
  BY <1>8, ShownKept DEF TerminalInv, terminalTables, MappingIsFirst
<1> QED BY <1>9, <1>10, <1>11, <1>13, <1>14, <1>15 DEF TerminalInv, GroupsInv

\* What leaving keeps, but for the groups of the SKUs.
LEMMA Left ==
  ASSUME TerminalInv, NEW s \in Session, Leave(s)
  PROVE  /\ DOMAIN upsert' = Session /\ lone' \subseteq lone /\ s \notin lone'
         /\ \A x \in Session : upsert'[x] = IF x = s THEN None ELSE upsert[x]
         /\ LoneApart' /\ WantsGoal'
<1>1. /\ DOMAIN upsert' = Session /\ lone' \subseteq lone /\ s \notin lone'
      /\ \A x \in Session : upsert'[x] = IF x = s THEN None ELSE upsert[x]
  BY DEF TerminalInv, Shapes, Leave
<1>2. lone \subseteq Session
  BY DEF TerminalInv, Shapes
<1>3. LoneApart'
  BY <1>1, <1>2 DEF TerminalInv, GroupsInv, LoneApart
<1>4. WantsGoal'
  BY <1>1, <1>2 DEF TerminalInv, GroupsInv, WantsGoal
<1> QED BY <1>1, <1>3, <1>4

\* Lone requests find no groups and leave those they want, once each.
LEMMA GroupsInserted ==
  ASSUME TerminalInv, NEW s \in Session, Insert(s)
  PROVE  TerminalInv'
<1>1. upsert[s] \in GroupRequest /\ upsert[s] # None /\ upsert[s].stage = "insert"
  BY DEF Insert, TerminalInv, Shapes, TerminalTypeOK
<1>2. PICK old : old = upsert[s]
  OBVIOUS
<1>3. old.skus \subseteq Sku /\ old.want \subseteq Group /\ old.goal \subseteq Group
  BY <1>1, <1>2 DEF GroupRequest
<1>4. /\ DOMAIN upsert' = Session /\ lone' \subseteq lone /\ s \notin lone'
      /\ \A x \in Session : upsert'[x] = IF x = s THEN None ELSE upsert[x]
      /\ LoneApart' /\ WantsGoal'
  BY Left DEF Insert
<1>5. /\ groups' = [k \in Sku |-> IF k \notin old.skus THEN groups[k]
                      ELSE [g \in Group |-> groups[k][g] + IF g \in old.want THEN 1 ELSE 0]]
      /\ asked' = [k \in Sku |-> IF k \in old.skus THEN old.goal ELSE asked[k]]
      /\ disturbed' = IF s \in lone THEN disturbed \ old.skus ELSE disturbed \cup old.skus
      /\ UNCHANGED <<terminalTables, handled>>
  BY <1>2 DEF Insert
<1>6. Shapes'
  <2>1. asked' \in [Sku -> SUBSET Group] /\ disturbed' \subseteq Sku
    BY <1>3, <1>5 DEF TerminalInv, Shapes, TerminalTypeOK
  <2>2. groups' \in [Sku -> [Group -> Nat]]
    <3>1. ASSUME NEW k \in Sku
          PROVE  groups'[k] \in [Group -> Nat]
      <4>1. groups[k] \in [Group -> Nat]
        BY DEF TerminalInv, Shapes, TerminalTypeOK
      <4>2. CASE k \notin old.skus
        BY <1>5, <4>1, <4>2
      <4>3. CASE k \in old.skus
        BY <1>5, <4>1, <4>3
      <4> QED BY <4>2, <4>3
    <3> QED BY <1>5, <3>1
  <2> QED BY <1>4, <1>5, <2>1, <2>2 DEF TerminalInv, Shapes, TerminalTypeOK, terminalTables
<1>7. Emptied'
  <2>1. lone \subseteq Session
    BY DEF TerminalInv, Shapes
  <2>2. ASSUME NEW x \in lone', upsert'[x].stage = "insert", NEW k \in upsert'[x].skus
        PROVE  HasGroups(k, {})'
    <3>1. x \in lone /\ x # s /\ upsert'[x] = upsert[x]
      BY <1>4, <2>1, <2>2
    <3>2. k \notin old.skus
      BY <1>1, <1>2, <2>1, <2>2, <3>1 DEF TerminalInv, GroupsInv, LoneApart
    <3>3. upsert[x] \in GroupRequest
      BY <3>1 DEF TerminalInv, Shapes, TerminalTypeOK
    <3>4. k \in Sku
      BY <2>2, <3>1, <3>3 DEF GroupRequest
    <3>5. HasGroups(k, {})
      BY <2>2, <3>1 DEF TerminalInv, GroupsInv, Emptied
    <3> QED BY <1>5, <3>2, <3>4, <3>5 DEF HasGroups
  <2> QED BY <2>2 DEF Emptied
<1>8. Settled'
  <2>1. ASSUME NEW k \in Sku \ disturbed', ~Inserting(k)'
        PROVE  HasGroups(k, asked[k])'
    <3>1. CASE k \in old.skus
      <4>1. s \in lone
        BY <1>5, <2>1, <3>1
      <4>2. HasGroups(k, {}) /\ old.want = old.goal
        BY <1>1, <1>2, <3>1, <4>1 DEF TerminalInv, GroupsInv, Emptied, WantsGoal
      <4>3. \A g \in Group : groups[k][g] = 0
        BY <4>2 DEF HasGroups
      <4>4. groups'[k] = [g \in Group |-> groups[k][g] + IF g \in old.want THEN 1 ELSE 0]
        BY <1>5, <2>1, <3>1
      <4>5. groups'[k] = [g \in Group |-> IF g \in old.want THEN 1 ELSE 0]
        BY <4>3, <4>4
      <4> QED BY <1>5, <2>1, <3>1, <4>2, <4>5 DEF HasGroups
    <3>2. CASE k \notin old.skus
      <4>1. k \notin disturbed
        BY <1>5, <2>1, <3>2
      <4>2. ~Inserting(k)
        BY <1>2, <1>4, <2>1, <3>2 DEF Inserting
      <4>3. HasGroups(k, asked[k])
        BY <2>1, <4>1, <4>2 DEF TerminalInv, GroupsInv, Settled
      <4> QED BY <1>5, <2>1, <3>2, <4>3 DEF HasGroups
    <3> QED BY <3>1, <3>2
  <2> QED BY <2>1 DEF Settled
<1>9. ShownInv' /\ MappingIsFirst'
  BY <1>5, ShownKept DEF TerminalInv, terminalTables, MappingIsFirst
<1> QED BY <1>4, <1>6, <1>7, <1>8, <1>9 DEF TerminalInv, GroupsInv

LEMMA WorkerDied ==
  ASSUME TerminalInv, NEW s \in Session, Crash(s)
  PROVE  TerminalInv'
<1>1. upsert[s] \in GroupRequest /\ upsert[s] # None
  BY DEF Crash, TerminalInv, Shapes, TerminalTypeOK
<1>2. /\ DOMAIN upsert' = Session /\ lone' \subseteq lone /\ s \notin lone'
      /\ \A x \in Session : upsert'[x] = IF x = s THEN None ELSE upsert[x]
      /\ LoneApart' /\ WantsGoal'
  BY Left DEF Crash
<1>3. /\ disturbed' = IF upsert[s].stage = "insert" THEN disturbed \cup upsert[s].skus ELSE disturbed
      /\ UNCHANGED <<terminalTables, groups, asked, handled>>
  BY DEF Crash
<1>4. Shapes'
  BY <1>1, <1>2, <1>3 DEF TerminalInv, Shapes, TerminalTypeOK, terminalTables, GroupRequest
<1>5. Emptied'
  <2>1. lone \subseteq Session /\ Emptied
    BY DEF TerminalInv, Shapes, GroupsInv
  <2> QED BY <1>2, <1>3, <2>1 DEF Emptied, HasGroups
<1>6. Settled'
  <2>1. ASSUME NEW k \in Sku \ disturbed', ~Inserting(k)'
        PROVE  k \notin disturbed /\ ~Inserting(k)
    BY <1>2, <1>3, <2>1 DEF Inserting
  <2>2. ASSUME NEW k \in Sku \ disturbed', ~Inserting(k)'
        PROVE  HasGroups(k, asked[k])'
    BY <1>3, <2>1, <2>2 DEF TerminalInv, GroupsInv, Settled, HasGroups
  <2> QED BY <2>2 DEF Settled
<1>7. ShownInv' /\ MappingIsFirst'
  BY <1>3, ShownKept DEF TerminalInv, terminalTables, MappingIsFirst
<1> QED BY <1>2, <1>4, <1>5, <1>6, <1>7 DEF TerminalInv, GroupsInv

LEMMA TerminalInvStays == TerminalInv /\ [TerminalNext]_terminalVars => TerminalInv'
<1> SUFFICES ASSUME TerminalInv, [TerminalNext]_terminalVars
             PROVE  TerminalInv'
  OBVIOUS
<1>1. CASE UNCHANGED terminalVars
  <2>1. Shapes'
    BY <1>1 DEF TerminalInv, Shapes, TerminalTypeOK, terminalVars, terminalTables, groupWork
  <2>2. GroupsInv' /\ ShownInv' /\ MappingIsFirst'
    BY <1>1, GroupsKept, ShownKept DEF TerminalInv, terminalVars, terminalTables, MappingIsFirst
  <2> QED BY <2>1, <2>2 DEF TerminalInv
<1>2. CASE TerminalNext
  BY <1>2, TerminalUpserted, GroupMapped, GroupsUnmapped, TerminalsSet, GroupsSet, GroupsChanged,
     GroupsDeleted, GroupsInserted, WorkerDied DEF TerminalNext
<1> QED BY <1>1, <1>2

\* What the list query finds is what the orders say.
LEMMA FoundAsOrdered ==
  ASSUME TerminalInv, NEW t \in DOMAIN terminal, NEW seller \in Seller
  PROVE  FoundAtTerminal(t, seller) =
           {k \in Sku : \E o \in ordered[k] :
              IF o.codes = All THEN o.seller = seller /\ o.type = terminal[t].type
              ELSE terminal[t].code \in o.codes}
<1>0. /\ \A x \in DOMAIN terminal : terminal[x].code \in Code /\ x # None
      /\ None \notin Code
      /\ \A codes \in SUBSET (Code \cup {None}) : codes # All
  BY TerminalAssumption DEF TerminalInv, Shapes, TerminalTypeOK
<1> DEFINE Sold(r) == r.code = terminal[t].code \/ (r.id = None /\ r.seller = seller /\ r.type = terminal[t].type)
           Says(o) == IF o.codes = All THEN o.seller = seller /\ o.type = terminal[t].type
                      ELSE terminal[t].code \in o.codes
<1>1. ASSUME NEW k \in Sku
      PROVE  (\E r \in shown[k] : Sold(r)) <=> (\E o \in ordered[k] : Says(o))
  <2> DEFINE rows == shown[k]
  <2>1. RowsFine(rows) /\ ordered[k] = Read(rows)
    BY DEF TerminalInv, ShownInv
  <2> HIDE DEF rows
  <2>2. ASSUME NEW r \in rows
        PROVE  /\ ReadAs(rows, r).seller = r.seller /\ ReadAs(rows, r).type = r.type
               /\ r.code = None => ReadAs(rows, r).codes = All
               /\ r.code # None => ReadAs(rows, r).codes = CodesBeside(rows, r) /\ CodesBeside(rows, r) # All
               /\ r.code \in CodesBeside(rows, r)
               /\ r.id = None <=> r.code = None
    <3>1. r.code \in CodesBeside(rows, r)
      BY DEF CodesBeside
    <3>2. r.id = None <=> r.code = None
      BY <1>0, <2>1 DEF RowsFine
    <3>3. CASE r.code = None
      <4>1. CodesBeside(rows, r) = {None}
        BY <2>1, <3>1, <3>3 DEF RowsFine, CodesBeside
      <4> QED BY <3>1, <3>2, <3>3, <4>1 DEF ReadAs
    <3>4. CASE r.code # None
      <4>1. \A c \in CodesBeside(rows, r) : c \in Code
        BY <1>0, <2>1, <3>4 DEF RowsFine, CodesBeside
      <4>2. CodesBeside(rows, r) # All /\ CodesBeside(rows, r) # {None}
        BY <1>0, <3>1, <3>4, <4>1
      <4> QED BY <3>1, <3>2, <3>4, <4>2 DEF ReadAs
    <3> QED BY <3>3, <3>4
  <2>3. ASSUME NEW r \in rows, Sold(r)
        PROVE  Says(ReadAs(rows, r))
    <3>1. CASE r.code = None
      BY <1>0, <2>2, <2>3, <3>1
    <3>2. CASE r.code # None
      BY <2>2, <2>3, <3>2
    <3> QED BY <3>1, <3>2
  <2>4. ASSUME NEW r \in rows, Says(ReadAs(rows, r))
        PROVE  \E q \in rows : Sold(q)
    <3>1. CASE r.code = None
      BY <2>2, <2>4, <3>1
    <3>2. CASE r.code # None
      <4>1. terminal[t].code \in CodesBeside(rows, r)
        BY <2>2, <2>4, <3>2
      <4> QED BY <4>1 DEF CodesBeside
    <3> QED BY <3>1, <3>2
  <2> HIDE DEF Sold, Says
  <2>5. (\E r \in rows : Sold(r)) <=> (\E o \in Read(rows) : Says(o))
    BY <2>3, <2>4 DEF Read
  <2> QED BY <2>1, <2>5 DEF rows
<1> QED BY <1>1 DEF FoundAtTerminal

LEMMA TerminalInvSuffices == TerminalInv => TerminalsAsAsked
<1> SUFFICES ASSUME TerminalInv PROVE TerminalsAsAsked
  OBVIOUS
<1>1. TerminalTypeOK /\ MappingIsFirst
  BY DEF TerminalInv, Shapes
<1>2. GroupsAsAsked
  BY DEF TerminalInv, GroupsInv, Settled, HasGroups, Inserting, Busy, GroupsAsAsked
<1>3. \A k \in Sku : TerminalsOf(k) = ordered[k]
  BY TerminalsRead DEF TerminalInv, ShownInv
<1>4. TerminalsAsOrdered
  BY <1>3, FoundAsOrdered DEF TerminalsAsOrdered
<1> QED BY <1>1, <1>2, <1>4 DEF TerminalsAsAsked

\* Terminals of SKUs are read and searched as ordered, the terminal groups of
\* an SKU are those that requests which had it for themselves asked for, and
\* a mapping follows its first message, whatever overlaps and whatever dies.
THEOREM TerminalsStayAsAsked == TerminalSpec => []TerminalsAsAsked
<1>1. TerminalInit => TerminalInv
  BY TerminalInvHolds
<1>2. TerminalInv /\ [TerminalNext]_terminalVars => TerminalInv'
  BY TerminalInvStays
<1>3. TerminalInv => TerminalsAsAsked
  BY TerminalInvSuffices
<1> QED BY <1>1, <1>2, <1>3, PTL DEF TerminalSpec

-----------------------------------------------------------------------------
(* Numbers in order.                                                       *)

\* s lists the n elements of ids in ascending order.
Lists(s, n, ids) ==
  /\ s \in [1 .. n -> ids]
  /\ \A i, j \in 1 .. n : i < j => s[i] < s[j]

LEMMA ListExists ==
  ASSUME NEW ids, \A x \in ids : x \in Nat, IsFiniteSet(ids)
  PROVE  \E s : Lists(s, Cardinality(ids), ids)
<1> DEFINE Bad == {m \in Nat : \E Q \in SUBSET Nat :
                     IsFiniteSet(Q) /\ Cardinality(Q) = m /\ ~\E s : Lists(s, m, Q)}
<1>1. SUFFICES Bad = {}
  <2>1. Cardinality(ids) \in Nat /\ ids \in SUBSET Nat
    BY FS_CardinalityType
  <2> QED BY <2>1
<1>2. SUFFICES ASSUME Bad # {}
               PROVE  FALSE
  OBVIOUS
<1>3. PICK m \in Bad : \A k \in Bad : m <= k
  <2>1. Bad \in SUBSET Nat
    OBVIOUS
  <2> HIDE DEF Bad
  <2> QED BY <1>2, <2>1, LeastExists
<1>4. PICK Q \in SUBSET Nat : IsFiniteSet(Q) /\ Cardinality(Q) = m /\ ~\E s : Lists(s, m, Q)
  OBVIOUS
<1>5. m \in Nat
  OBVIOUS
<1>6. CASE m = 0
  <2>1. PICK s : s = [i \in 1 .. 0 |-> 0]
    OBVIOUS
  <2>2. s \in [1 .. 0 -> Q]
    BY <2>1
  <2>3. Lists(s, 0, Q)
    BY <2>2 DEF Lists
  <2> QED BY <1>4, <1>6, <2>3
<1>7. CASE m # 0
  <2>1. Q # {}
    BY <1>4, <1>7, FS_EmptySet
  <2>2. PICK x \in Q : \A y \in Q : x <= y
    BY <2>1, LeastExists
  <2>3. PICK R : R = Q \ {x}
    OBVIOUS
  <2>4. IsFiniteSet(R) /\ Cardinality(R) = m - 1
    BY <1>4, <2>2, <2>3, FS_RemoveElement
  <2>5. m - 1 \in Nat /\ ~(m <= m - 1) /\ R \in SUBSET Nat
    BY <1>5, <1>7, <2>3
  <2>6. PICK t : Lists(t, m - 1, R)
    BY <1>3, <2>4, <2>5
  <2>7. PICK s : s = [i \in 1 .. m |-> IF i = 1 THEN x ELSE t[i - 1]]
    OBVIOUS
  <2>8. \A i \in 1 .. m : /\ i \in Nat
                          /\ i # 1 => i - 1 \in 1 .. (m - 1) /\ s[i] = t[i - 1]
                          /\ i = 1 => s[i] = x
    BY <1>5, <2>7
  <2>9. t \in [1 .. (m - 1) -> R] /\ \A i, j \in 1 .. (m - 1) : i < j => t[i] < t[j]
    BY <2>6 DEF Lists
  <2>10. s \in [1 .. m -> Q]
    BY <2>3, <2>7, <2>8, <2>9
  <2>11. ASSUME NEW i \in 1 .. m, NEW j \in 1 .. m, i < j
         PROVE  s[i] < s[j]
    <3>1. j # 1 /\ j - 1 \in 1 .. (m - 1) /\ s[j] = t[j - 1] /\ s[j] \in R
      <4>1. j # 1
        BY <2>11
      <4> QED BY <2>8, <2>9, <4>1
    <3>2. CASE i = 1
      <4>1. s[i] = x /\ s[j] \in Q /\ s[j] # x
        BY <2>3, <2>8, <3>1, <3>2
      <4>2. x <= s[j] /\ x \in Nat /\ s[j] \in Nat
        BY <2>2, <4>1
      <4> QED BY <4>1, <4>2
    <3>3. CASE i # 1
      <4>1. i - 1 \in 1 .. (m - 1) /\ s[i] = t[i - 1] /\ i - 1 < j - 1
        BY <1>5, <2>8, <2>11, <3>3
      <4> QED BY <2>9, <3>1, <4>1
    <3> QED BY <3>2, <3>3
  <2>12. Lists(s, m, Q)
    BY <2>10, <2>11 DEF Lists
  <2> QED BY <1>4, <2>12
<1> QED BY <1>6, <1>7

\* There are n of them.
Counts(n, ids) == IsFiniteSet(ids) /\ Cardinality(ids) = n

\* s has each of the n elements of ids at one place.
EachOnce(s, n, ids) ==
  /\ n \in Nat /\ s \in [1 .. n -> ids]
  /\ \A i, j \in 1 .. n : s[i] = s[j] => i = j
  /\ \A x \in ids : \E i \in 1 .. n : s[i] = x

LEMMA ListsAll ==
  ASSUME NEW ids, \A x \in ids : x \in Nat, NEW n, Counts(n, ids),
         NEW s, Lists(s, n, ids)
  PROVE  EachOnce(s, n, ids)
<1>1. n \in Nat
  BY FS_CardinalityType DEF Counts
<1>2. s \in [1 .. n -> ids] /\ \A i, j \in 1 .. n : i < j => s[i] < s[j]
  BY DEF Lists
<1>3. \A i, j \in 1 .. n : s[i] = s[j] => i = j
  <2>1. TAKE i, j \in 1 .. n
  <2>2. s[i] \in ids /\ s[j] \in ids
    BY <1>2
  <2>3. s[i] \in Nat /\ s[j] \in Nat /\ (i < j \/ j < i \/ i = j)
    BY <1>1, <2>2
  <2> QED BY <1>2, <2>3
<1>4. s \in Injection(1 .. n, ids)
  BY <1>2, <1>3 DEF Injection, IsInjective
<1>5. Cardinality(1 .. n) = n
  BY <1>1, FS_Interval
<1>6. s \in Surjection(1 .. n, ids)
  BY <1>4, <1>5, FS_Injection, <1>1, FS_Interval DEF Counts
<1> QED BY <1>1, <1>2, <1>3, <1>6 DEF Surjection, EachOnce

LEMMA AscendingLists ==
  ASSUME NEW ids, \A x \in ids : x \in Nat, IsFiniteSet(ids)
  PROVE  Lists(Ascending(ids), Cardinality(ids), ids)
<1>1. PICK s : Lists(s, Cardinality(ids), ids)
  BY ListExists
<1> QED BY <1>1 DEF Lists, Ascending

\* Those up to the i-th are i.
UpTo(ids, y) == {x \in ids : x <= y}

LEMMA UpToPlace ==
  ASSUME NEW ids, \A x \in ids : x \in Nat, NEW n, Counts(n, ids),
         NEW s, Lists(s, n, ids), NEW i \in 1 .. n
  PROVE  Cardinality(UpTo(ids, s[i])) = i
<1>1. /\ n \in Nat /\ s \in [1 .. n -> ids]
      /\ \A k, j \in 1 .. n : s[k] = s[j] => k = j
      /\ \A x \in ids : \E k \in 1 .. n : s[k] = x
  <2>1. EachOnce(s, n, ids)
    BY ListsAll
  <2> QED BY <2>1 DEF EachOnce
<1>2. \A k, j \in 1 .. n : k < j => s[k] < s[j]
  BY DEF Lists
<1>3. PICK below : below = {x \in ids : x <= s[i]}
  OBVIOUS
<1>4. PICK f : f = [j \in 1 .. i |-> s[j]]
  OBVIOUS
<1>5. i \in Nat /\ \A j \in 1 .. i : j \in 1 .. n /\ f[j] = s[j] /\ (j < i \/ j = i)
  BY <1>1, <1>4
<1>6. f \in [1 .. i -> below]
  <2>1. \A j \in 1 .. i : s[j] \in below
    <3>1. TAKE j \in 1 .. i
    <3>2. s[j] \in ids /\ s[j] \in Nat /\ s[i] \in Nat /\ (s[j] < s[i] \/ s[j] = s[i])
      BY <1>1, <1>2, <1>5
    <3> QED BY <1>3, <3>2
  <2> QED BY <1>4, <2>1
<1>7. \A x \in below : \E j \in 1 .. i : f[j] = x
  <2>1. TAKE x \in below
  <2>2. PICK k \in 1 .. n : s[k] = x
    BY <1>1, <1>3
  <2>3. k <= i
    <3>1. x <= s[i] /\ x \in ids /\ s[i] \in ids /\ x \in Nat /\ s[i] \in Nat /\ k \in Nat
      <4>1. x <= s[i] /\ x \in ids /\ s[i] \in ids
        BY <1>1, <1>3
      <4>2. k \in Nat
        BY <1>1
      <4> QED BY <4>1, <4>2
    <3>2. ~(s[i] < s[k])
      BY <2>2, <3>1
    <3> QED BY <1>2, <1>5, <3>1, <3>2
  <2>4. k \in 1 .. i
    BY <1>5, <2>3
  <2> QED BY <1>5, <2>2, <2>4
<1>8. f \in Injection(1 .. i, below)
  BY <1>1, <1>5, <1>6 DEF Injection, IsInjective
<1>9. f \in Surjection(1 .. i, below)
  BY <1>6, <1>7 DEF Surjection
<1>10. IsFiniteSet(1 .. i) /\ Cardinality(1 .. i) = i
  BY <1>5, FS_Interval
<1>11. ExistsBijection(1 .. i, below)
  BY <1>8, <1>9 DEF ExistsBijection, Bijection
<1>12. Cardinality(below) = i
  BY <1>10, <1>11, FS_Bijection
<1> QED BY <1>3, <1>12 DEF UpTo

\* There is one list of a set.
LEMMA OneList ==
  ASSUME NEW ids, \A x \in ids : x \in Nat, NEW n, Counts(n, ids),
         NEW s, Lists(s, n, ids), NEW t, Lists(t, n, ids)
  PROVE  s = t
<1>1. \A i \in 1 .. n : s[i] = t[i]
  <2>1. TAKE i \in 1 .. n
  <2>2. /\ n \in Nat /\ s \in [1 .. n -> ids] /\ t \in [1 .. n -> ids]
        /\ \A x \in ids : \E k \in 1 .. n : t[k] = x
    <3>1. EachOnce(s, n, ids) /\ EachOnce(t, n, ids)
      BY ListsAll
    <3> QED BY <3>1 DEF EachOnce
  <2>3. PICK k \in 1 .. n : t[k] = s[i]
    BY <2>2
  <2>4. Cardinality(UpTo(ids, s[i])) = i
    BY UpToPlace
  <2>5. Cardinality(UpTo(ids, t[k])) = k
    BY UpToPlace
  <2> QED BY <2>3, <2>4, <2>5
<1>2. n \in Nat /\ s \in [1 .. n -> ids] /\ t \in [1 .. n -> ids]
  BY FS_CardinalityType DEF Lists, Counts
<1> QED BY <1>1, <1>2

-----------------------------------------------------------------------------
(* Items of a bundle, tags, texts and sub SKUs.                            *)

Reading(w) == worker[w].step = "read"

\* A saying request, and the signals it has left.
Sayings == [step : {"saying"}, left : Seq(Sku \cup {Bundle})]

OfOneRow == about \in {"tags", "texts"}
RowValues == IF about = "tags" THEN SUBSET Tag ELSE Text \cup {None}
SkuRows == [by : Nat, sku : Sku, value : RowValues]

AskedValues ==
  IF about = "items" THEN ItemLists \cup {<<>>}
  ELSE IF about = "tags" THEN SUBSET Tag ELSE Text \cup {None}

AskOK(ask) ==
  /\ ask.sku \in Owners
  /\ about = "items" => ask.items \in ItemLists
  /\ about = "tags" => ask.tags \in SUBSET Tag /\ ask.overwrite \in BOOLEAN
  /\ about = "texts" => ask.text \in Text \cup {None}

WorkersOK ==
  /\ worker = [w \in Worker |-> worker[w]]
  /\ \A w \in Worker : worker[w] = Idle \/ Reading(w) \/ worker[w] \in Sayings

ExtrasShapes ==
  /\ about \in {"items", "tags", "texts", "subs"}
  /\ taken \in Nat /\ gone \subseteq Sku /\ unsaid \subseteq Owners
  /\ \A x \in extras : x.by \in 1 .. taken /\ x.sku \in Owners
  /\ \A w \in Worker : Reading(w) =>
       /\ worker[w].by \in 1 .. taken /\ AskOK(worker[w].ask)
       /\ \A y \in worker[w].rows : y.by \in 1 .. taken /\ y.sku \in Owners
  /\ OfOneRow =>
       /\ extras \subseteq SkuRows
       /\ \A w \in Worker : Reading(w) /\ worker[w].row # None =>
             worker[w].row \in SkuRows /\ worker[w].row.sku = worker[w].ask.sku

AskedShapes == askedFor \in [Owners -> [known : BOOLEAN, value : AskedValues]]

\* The number of a request that has not committed is that of no row and of no
\* other request.
NumbersFree ==
  /\ \A w \in Worker : Reading(w) => \A x \in extras : x.by # worker[w].by
  /\ \A w, u \in Worker : Reading(w) /\ Reading(u) /\ w # u => worker[w].by # worker[u].by
  /\ \A w, u \in Worker : Reading(w) /\ Reading(u) => \A y \in worker[w].rows : y.by # worker[u].by

-----------------------------------------------------------------------------

\* What a step leaves as it is.
RowsStay == UNCHANGED <<about, extras, title, askedFor, shared>>

\* The other requests have what they had.
OthersStay(w) ==
  /\ worker' = [u \in Worker |-> worker'[u]]
  /\ \A u \in Worker \ {w} : worker'[u] = worker[u]

\* No request starts to read.
NobodyReads ==
  /\ worker' = [u \in Worker |-> worker'[u]]
  /\ \A u \in Worker : worker'[u].step = "read" => worker'[u] = worker[u]

\* What a request has when it has just read.
HasRead(w, ask) ==
  /\ worker'[w].step = "read"
  /\ worker'[w].ask = ask /\ worker'[w].by = taken + 1
  /\ worker'[w].rows = extras /\ worker'[w].title = title
  /\ worker'[w].row \in First(ask.sku)
  /\ Allowed(ask, IF worker'[w].row = None THEN NothingAsked ELSE worker'[w].row.value)

LEMMA BeginEffect ==
  ASSUME WorkersOK, NEW w \in Worker, NEW ask, Begin(w, ask)
  PROVE  /\ taken' = taken + 1 /\ RowsStay /\ UNCHANGED <<gone, unsaid, died>>
         /\ worker[w] = Idle /\ OthersStay(w) /\ HasRead(w, ask)
<1>1. PICK row \in First(ask.sku) :
        /\ Allowed(ask, IF row = None THEN NothingAsked ELSE row.value)
        /\ worker' = [worker EXCEPT ![w] =
            [step |-> "read", ask |-> ask, by |-> taken + 1,
             row |-> row, rows |-> extras, title |-> title]]
  BY DEF Begin
<1>2. PICK r : r = [step |-> "read", ask |-> ask, by |-> taken + 1,
                    row |-> row, rows |-> extras, title |-> title]
  OBVIOUS
<1>3. /\ r.step = "read" /\ r.ask = ask /\ r.by = taken + 1 /\ r.row = row
      /\ r.rows = extras /\ r.title = title
  BY <1>2
<1>4. worker' = [u \in Worker |-> IF u = w THEN r ELSE worker[u]]
  BY <1>1, <1>2 DEF WorkersOK
<1>5. worker'[w] = r /\ OthersStay(w)
  BY <1>4 DEF OthersStay
<1>6. HasRead(w, ask)
  BY <1>1, <1>3, <1>5 DEF HasRead
<1> QED BY <1>5, <1>6 DEF Begin, RowsStay

\* After the commit.
Committed(w) ==
  IF Signalled THEN [step |-> "saying", left |-> Signals(worker[w].ask)] ELSE Idle

LEMMA CommitEffect ==
  ASSUME WorkersOK, NEW w \in Worker, Commit(w)
  PROVE  /\ Reading(w) /\ UNCHANGED <<about, gone, taken, died>>
         /\ OthersStay(w) /\ NobodyReads /\ worker'[w] = Committed(w)
<1>1. PICK r : r = Committed(w)
  OBVIOUS
<1>2. worker' = [u \in Worker |-> IF u = w THEN r ELSE worker[u]]
  BY <1>1 DEF WorkersOK, Commit, Committed
<1>3. worker'[w] = r /\ OthersStay(w)
  BY <1>2 DEF OthersStay
<1>4. r.step # "read"
  BY <1>1 DEF Committed, Idle
<1>5. NobodyReads
  BY <1>3, <1>4 DEF NobodyReads, OthersStay
<1> QED BY <1>1, <1>3, <1>5 DEF Commit, Reading

\* Signals, deaths and deletions of items.
Quiet == RowsStay /\ UNCHANGED taken /\ NobodyReads

LEMMA SayEffect ==
  ASSUME WorkersOK, NEW w \in Worker, Say(w)
  PROVE  /\ Quiet /\ UNCHANGED <<gone, died>> /\ OthersStay(w)
         /\ worker[w] \in Sayings
         /\ IF worker[w].left = <<>> THEN worker'[w] = Idle /\ UNCHANGED unsaid
            ELSE /\ worker'[w] = [step |-> "saying", left |-> Tail(worker[w].left)]
                 /\ unsaid' = unsaid \ {Head(worker[w].left)}
<1>1. worker[w] \in Sayings
  BY DEF WorkersOK, Say, Reading, Idle
<1>2. PICK left \in Seq(Sku \cup {Bundle}) : worker[w] = [step |-> "saying", left |-> left]
  BY <1>1 DEF Sayings
<1>3. worker[w].left = left
  BY <1>2
<1>4. PICK r : r = IF left = <<>> THEN Idle ELSE [step |-> "saying", left |-> Tail(left)]
  OBVIOUS
<1>5. worker' = [u \in Worker |-> IF u = w THEN r ELSE worker[u]]
  <2>1. CASE left = <<>>
    BY <1>3, <1>4, <2>1 DEF WorkersOK, Say
  <2>2. CASE left # <<>>
    <3>1. worker' = [worker EXCEPT ![w].left = Tail(worker[w].left)]
      BY <1>3, <2>2 DEF Say
    <3>2. PICK t : t = Tail(left)
      OBVIOUS
    <3>3. [[step |-> "saying", left |-> left] EXCEPT !.left = t] = [step |-> "saying", left |-> t]
      OBVIOUS
    <3>4. [worker[w] EXCEPT !.left = t] = r
      BY <1>2, <1>4, <2>2, <3>2, <3>3
    <3> QED BY <1>3, <3>1, <3>2, <3>4 DEF WorkersOK
  <2> QED BY <2>1, <2>2
<1>6. worker'[w] = r /\ OthersStay(w) /\ r.step # "read"
  BY <1>4, <1>5 DEF OthersStay, Idle
<1>7. NobodyReads
  BY <1>6 DEF NobodyReads, OthersStay
<1> QED BY <1>1, <1>3, <1>4, <1>6, <1>7 DEF Say, Quiet, RowsStay

LEMMA DieEffect ==
  ASSUME WorkersOK, NEW w \in Worker, Die(w)
  PROVE  /\ Quiet /\ UNCHANGED <<gone, unsaid>> /\ OthersStay(w) /\ worker'[w] = Idle
         /\ died' = (died \/ worker[w].step = "saying")
<1>1. worker' = [u \in Worker |-> IF u = w THEN Idle ELSE worker[u]]
  BY DEF WorkersOK, Die
<1>2. worker'[w] = Idle /\ OthersStay(w)
  BY <1>1 DEF OthersStay
<1>3. NobodyReads
  BY <1>2 DEF NobodyReads, OthersStay, Idle
<1> QED BY <1>2, <1>3 DEF Die, Quiet, RowsStay

LEMMA DeleteEffect ==
  ASSUME WorkersOK, NEW k \in Sku, DeleteItem(k)
  PROVE  Quiet /\ gone' = gone \cup {k} /\ UNCHANGED <<worker, unsaid, died>>
BY DEF DeleteItem, Quiet, RowsStay, NobodyReads, WorkersOK

-----------------------------------------------------------------------------

LEMMA AsksOK ==
  ASSUME ExtrasAssumption, ExtrasShapes, NEW ask \in Asks
  PROVE  AskOK(ask)
<1>1. CASE about = "items"
  BY <1>1 DEF Asks, AskOK, ExtrasShapes, Owners
<1>2. CASE about = "tags"
  BY <1>2 DEF Asks, AskOK, ExtrasShapes, Owners, ExtrasAssumption
<1>3. CASE about = "texts"
  BY <1>3 DEF Asks, AskOK, ExtrasShapes, Owners
<1>4. CASE about = "subs"
  BY <1>4 DEF Asks, AskOK, ExtrasShapes, Owners
<1> QED BY <1>1, <1>2, <1>3, <1>4 DEF ExtrasShapes

\* The rows of a list of items.
RowsFrom(by, list) == {[by |-> by, sku |-> Bundle, value |-> <<n, list[n]>>] : n \in DOMAIN list}

NewValue(r) == Becomes(r.ask, IF r.row = None THEN NothingAsked ELSE r.row.value)

LEMMA NewValueOK ==
  ASSUME ExtrasAssumption, ExtrasShapes, OfOneRow, NEW w \in Worker, Reading(w)
  PROVE  NewValue(worker[w]) \in RowValues
<1>1. PICK r : r = worker[w]
  OBVIOUS
<1>2. AskOK(r.ask) /\ (r.row # None => r.row \in SkuRows)
  BY <1>1 DEF ExtrasShapes
<1>3. PICK old : old = IF r.row = None THEN NothingAsked ELSE r.row.value
  OBVIOUS
<1>4. old \in RowValues
  BY <1>2, <1>3 DEF NothingAsked, RowValues, SkuRows, OfOneRow
<1>5. CASE about = "tags"
  BY <1>1, <1>2, <1>3, <1>4, <1>5 DEF AskOK, NewValue, Becomes, NewTags, RowValues
<1>6. CASE about = "texts"
  BY <1>1, <1>2, <1>3, <1>4, <1>6 DEF AskOK, NewValue, Becomes, Given, RowValues
<1> QED BY <1>5, <1>6 DEF OfOneRow

LEMMA CommitRows ==
  ASSUME NEW w \in Worker, Commit(w), NEW r, r = worker[w]
  PROVE  /\ about = "items" => extras' = (extras \ r.rows) \cup RowsFrom(r.by, r.ask.items)
         /\ about = "subs" => extras' = Numbered(r)
         /\ OfOneRow /\ r.row = None =>
              extras' = extras \cup {[by |-> r.by, sku |-> r.ask.sku, value |-> NewValue(r)]}
         /\ OfOneRow /\ r.row # None =>
              extras' = {IF x.by = r.row.by /\ NewValue(r) # r.row.value
                         THEN [x EXCEPT !.value = NewValue(r)] ELSE x : x \in extras}
<1>1. CASE about = "items"
  BY <1>1 DEF Commit, Replaced, RowsFrom, OfOneRow
<1>2. CASE about = "subs"
  BY <1>2 DEF Commit, OfOneRow
<1>3. CASE OfOneRow
  <2>1. about # "items" /\ about # "subs"
    BY <1>3 DEF OfOneRow
  <2>2. extras' = Upserted(r)
    BY <2>1 DEF Commit
  <2> QED BY <2>1, <2>2 DEF Upserted, NewValue
<1> QED BY <1>1, <1>2, <1>3

\* A committed row is the request's own or has the number and the SKU of one
\* there was.
RowsKeepNumbers(w) ==
  \A x \in extras' :
    \/ x.by = worker[w].by /\ x.sku = worker[w].ask.sku
    \/ \E y \in extras : x.by = y.by /\ x.sku = y.sku

LEMMA CommittedRows ==
  ASSUME ExtrasAssumption, ExtrasShapes, WorkersOK, NEW w \in Worker, Commit(w)
  PROVE  /\ RowsKeepNumbers(w)
         /\ OfOneRow => extras' \subseteq SkuRows
<1>1. PICK r : r = worker[w]
  OBVIOUS
<1>2. Reading(w)
  BY CommitEffect
<1>3. CASE about = "items"
  <2>1. r.ask.sku = Bundle
    BY <1>1, <1>2, <1>3 DEF ExtrasShapes, AskOK, Owners
  <2> QED BY <1>1, <1>3, <2>1, CommitRows DEF RowsFrom, RowsKeepNumbers, OfOneRow
<1>4. CASE about = "subs"
  <2>1. PICK c : extras' = extras \cup {[by |-> r.by, sku |-> r.ask.sku, value |-> c]}
    BY <1>1, <1>4, CommitRows DEF Numbered
  <2> QED BY <1>1, <1>4, <2>1 DEF RowsKeepNumbers, OfOneRow
<1>5. CASE OfOneRow
  <2>1. extras \subseteq SkuRows /\ NewValue(r) \in RowValues
    BY <1>1, <1>2, <1>5, NewValueOK DEF ExtrasShapes
  <2>2. r.by \in Nat /\ r.ask.sku \in Sku
    BY <1>1, <1>2, <1>5 DEF ExtrasShapes, AskOK, Owners, OfOneRow
  <2>3. PICK new : new = NewValue(r)
    OBVIOUS
  <2>4. CASE r.row = None
    <3>1. extras' = extras \cup {[by |-> r.by, sku |-> r.ask.sku, value |-> new]}
      BY <1>1, <1>5, <2>3, <2>4, CommitRows
    <3>2. [by |-> r.by, sku |-> r.ask.sku, value |-> new] \in SkuRows
      BY <2>1, <2>2, <2>3 DEF SkuRows
    <3> QED BY <1>1, <2>1, <3>1, <3>2 DEF RowsKeepNumbers
  <2>5. CASE r.row # None
    <3>1. extras' = {IF x.by = r.row.by /\ new # r.row.value
                     THEN [x EXCEPT !.value = new] ELSE x : x \in extras}
      BY <1>1, <1>5, <2>3, <2>5, CommitRows
    <3>2. \A x \in extras : /\ [x EXCEPT !.value = new] \in SkuRows
                            /\ [x EXCEPT !.value = new].by = x.by
                            /\ [x EXCEPT !.value = new].sku = x.sku
      BY <2>1, <2>3 DEF SkuRows
    <3>3. \A x \in extras' : x \in SkuRows /\ \E y \in extras : x.by = y.by /\ x.sku = y.sku
      <4>1. TAKE x \in extras'
      <4>2. PICK y \in extras : x = IF y.by = r.row.by /\ new # r.row.value
                                   THEN [y EXCEPT !.value = new] ELSE y
        BY <3>1
      <4> QED BY <2>1, <3>2, <4>2
    <3> QED BY <3>3 DEF RowsKeepNumbers
  <2> QED BY <2>4, <2>5
<1> QED BY <1>3, <1>4, <1>5 DEF ExtrasShapes, OfOneRow

-----------------------------------------------------------------------------
(* Shapes.                                                                 *)

LEMMA InitShapes ==
  ASSUME ExtrasInit
  PROVE  WorkersOK /\ ExtrasShapes /\ AskedShapes /\ NumbersFree
<1>1. /\ extras = {} /\ taken = 0 /\ gone = {} /\ unsaid = {}
      /\ about \in {"items", "tags", "texts", "subs"}
  BY DEF ExtrasInit
<1>2. WorkersOK /\ \A w \in Worker : ~Reading(w)
  BY DEF ExtrasInit, WorkersOK, Reading, Idle
<1>3. ExtrasShapes
  BY <1>1, <1>2 DEF ExtrasShapes
<1>4. NothingAsked \in AskedValues
  BY <1>1 DEF NothingAsked, AskedValues
<1>5. AskedShapes
  BY <1>4 DEF ExtrasInit, AskedShapes
<1> QED BY <1>1, <1>2, <1>3, <1>5 DEF NumbersFree

LEMMA WorkersStay ==
  ASSUME ExtrasAssumption, ExtrasShapes, WorkersOK, ExtrasNext
  PROVE  WorkersOK'
<1>1. ASSUME NEW w \in Worker, NEW ask \in Asks, Begin(w, ask)
      PROVE  WorkersOK'
  BY <1>1, BeginEffect DEF WorkersOK, OthersStay, HasRead, Reading
<1>2. ASSUME NEW w \in Worker, Commit(w)
      PROVE  WorkersOK'
  <2>1. Reading(w) /\ OthersStay(w) /\ worker'[w] = Committed(w)
    BY <1>2, CommitEffect
  <2>2. AskOK(worker[w].ask)
    BY <2>1 DEF ExtrasShapes
  <2>3. PICK ask : ask = worker[w].ask
    OBVIOUS
  <2>4. Committed(w) = Idle \/ Committed(w) \in Sayings
    <3>1. CASE about = "items"
      <4>1. PICK items : items = ask.items
        OBVIOUS
      <4>2. items \in Seq(Sku \cup {Bundle})
        BY <2>2, <2>3, <3>1, <4>1 DEF AskOK, ExtrasAssumption
      <4>3. Append(items, Bundle) \in Seq(Sku \cup {Bundle})
        BY <4>2
      <4> QED BY <2>3, <3>1, <4>1, <4>3 DEF Committed, Signalled, Signals, Sayings
    <3>2. CASE about = "texts"
      <4>1. PICK k : k = ask.sku
        OBVIOUS
      <4>2. k \in Sku
        BY <2>2, <2>3, <3>2, <4>1 DEF AskOK, Owners
      <4>3. <<k>> \in Seq(Sku \cup {Bundle})
        BY <4>2
      <4> QED BY <2>3, <3>2, <4>1, <4>3 DEF Committed, Signalled, Signals, Sayings
    <3>3. CASE about \notin {"items", "texts"}
      BY <3>3 DEF Committed, Signalled
    <3> QED BY <3>1, <3>2, <3>3
  <2> QED BY <2>1, <2>4 DEF WorkersOK, OthersStay, Reading
<1>3. ASSUME NEW w \in Worker, Say(w)
      PROVE  WorkersOK'
  <2>1. PICK left \in Seq(Sku \cup {Bundle}) : worker[w] = [step |-> "saying", left |-> left]
    BY <1>3, SayEffect DEF Sayings
  <2>2. worker[w].left = left
    BY <2>1
  <2>3. left # <<>> => Tail(left) \in Seq(Sku \cup {Bundle})
    OBVIOUS
  <2>4. PICK t : t = Tail(left)
    OBVIOUS
  <2>5. worker'[w] = Idle \/ worker'[w] \in Sayings
    <3>1. IF left = <<>> THEN worker'[w] = Idle ELSE worker'[w] = [step |-> "saying", left |-> t]
      BY <1>3, <2>2, <2>4, SayEffect
    <3>2. left # <<>> => t \in Seq(Sku \cup {Bundle})
      BY <2>3, <2>4
    <3>3. left # <<>> => [step |-> "saying", left |-> t] \in Sayings
      BY <3>2 DEF Sayings
    <3> QED BY <3>1, <3>3
  <2> QED BY <1>3, <2>5, SayEffect DEF WorkersOK, OthersStay, Reading
<1>4. ASSUME NEW w \in Worker, Die(w)
      PROVE  WorkersOK'
  BY <1>4, DieEffect DEF WorkersOK, OthersStay, Reading
<1>5. ASSUME NEW k \in Sku, DeleteItem(k)
      PROVE  WorkersOK'
  BY <1>5, DeleteEffect DEF WorkersOK, Reading
<1> QED BY <1>1, <1>2, <1>3, <1>4, <1>5 DEF ExtrasNext

LEMMA UnsaidKnown ==
  ASSUME ExtrasAssumption, ExtrasShapes, WorkersOK, ExtrasNext
  PROVE  about' = about /\ gone' \subseteq Sku /\ unsaid' \subseteq Owners
<1>1. ASSUME NEW w \in Worker, NEW ask \in Asks, Begin(w, ask)
      PROVE  about' = about /\ gone' \subseteq Sku /\ unsaid' \subseteq Owners
  BY <1>1 DEF Begin, ExtrasShapes
<1>2. ASSUME NEW w \in Worker, Commit(w)
      PROVE  about' = about /\ gone' \subseteq Sku /\ unsaid' \subseteq Owners
  <2>1. Reading(w) /\ UNCHANGED <<about, gone>>
    BY <1>2, CommitEffect
  <2>2. worker[w].ask.sku \in Owners
    BY <2>1 DEF ExtrasShapes, AskOK
  <2>3. unsaid' = IF Signalled THEN unsaid \cup {worker[w].ask.sku} ELSE {}
    BY <1>2 DEF Commit
  <2> QED BY <2>1, <2>2, <2>3 DEF ExtrasShapes
<1>3. ASSUME NEW w \in Worker, Say(w)
      PROVE  about' = about /\ gone' \subseteq Sku /\ unsaid' \subseteq Owners
  <2>1. unsaid' = unsaid \/ unsaid' = unsaid \ {Head(worker[w].left)}
    BY <1>3 DEF Say
  <2> QED BY <1>3, <2>1 DEF Say, ExtrasShapes
<1>4. ASSUME NEW w \in Worker, Die(w)
      PROVE  about' = about /\ gone' \subseteq Sku /\ unsaid' \subseteq Owners
  BY <1>4 DEF Die, ExtrasShapes
<1>5. ASSUME NEW k \in Sku, DeleteItem(k)
      PROVE  about' = about /\ gone' \subseteq Sku /\ unsaid' \subseteq Owners
  BY <1>5 DEF DeleteItem, ExtrasShapes
<1> QED BY <1>1, <1>2, <1>3, <1>4, <1>5 DEF ExtrasNext

\* What depends on about alone.
LEMMA AboutStays ==
  ASSUME about' = about
  PROVE  /\ Owners' = Owners /\ (OfOneRow <=> OfOneRow') /\ SkuRows' = SkuRows /\ RowValues' = RowValues
         /\ AskedValues' = AskedValues /\ NothingAsked' = NothingAsked
         /\ \A ask : AskOK(ask)' <=> AskOK(ask)
BY DEF Owners, OfOneRow, SkuRows, RowValues, AskedValues, NothingAsked, AskOK

LEMMA ShapesStay ==
  ASSUME ExtrasAssumption, ExtrasShapes, WorkersOK, NumbersFree, ExtrasNext
  PROVE  ExtrasShapes'
<1>1. about' = about /\ gone' \subseteq Sku /\ unsaid' \subseteq Owners
  BY UnsaidKnown
<1>2. /\ Owners' = Owners /\ (OfOneRow <=> OfOneRow') /\ SkuRows' = SkuRows
      /\ \A ask : AskOK(ask)' <=> AskOK(ask)
  BY <1>1, AboutStays
<1>3. ASSUME NEW w \in Worker, NEW ask \in Asks, Begin(w, ask)
      PROVE  ExtrasShapes'
  <2>1. /\ taken' = taken + 1 /\ RowsStay /\ OthersStay(w) /\ HasRead(w, ask)
    BY <1>3, BeginEffect
  <2>2. taken \in Nat /\ taken' \in Nat /\ \A b \in 1 .. taken : b \in 1 .. taken'
    BY <2>1 DEF ExtrasShapes
  <2>3. taken' \in 1 .. taken'
    BY <2>1, <2>2
  <2>4. \A x \in extras' : x.by \in 1 .. taken' /\ x.sku \in Owners'
    BY <1>2, <2>1, <2>2 DEF ExtrasShapes, RowsStay
  <2>5. AskOK(ask)
    BY AsksOK
  <2>6. \A u \in Worker : worker'[u].step = "read" =>
          /\ worker'[u].by \in 1 .. taken' /\ AskOK(worker'[u].ask)
          /\ \A y \in worker'[u].rows : y.by \in 1 .. taken' /\ y.sku \in Owners
    <3>1. TAKE u \in Worker
    <3>2. CASE u = w
      <4>1. \A y \in worker'[w].rows : y.by \in 1 .. taken' /\ y.sku \in Owners
        BY <2>1, <2>2 DEF HasRead, ExtrasShapes
      <4> QED BY <2>1, <2>3, <2>5, <3>2, <4>1 DEF HasRead
    <3>3. CASE u # w
      BY <2>1, <2>2, <3>3 DEF OthersStay, ExtrasShapes, Reading
    <3> QED BY <3>2, <3>3
  <2>7. ASSUME OfOneRow
        PROVE  /\ extras' \subseteq SkuRows
               /\ \A u \in Worker : worker'[u].step = "read" /\ worker'[u].row # None =>
                      worker'[u].row \in SkuRows /\ worker'[u].row.sku = worker'[u].ask.sku
    <3>1. extras' \subseteq SkuRows
      BY <2>1, <2>7 DEF RowsStay, ExtrasShapes
    <3>2. First(ask.sku) \subseteq {None} \cup {x \in extras : x.sku = ask.sku}
      BY DEF First, RowsOf
    <3>3. worker'[w].row # None =>
            worker'[w].row \in SkuRows /\ worker'[w].row.sku = worker'[w].ask.sku
      BY <2>1, <2>7, <3>2 DEF HasRead, ExtrasShapes
    <3>4. \A u \in Worker \ {w} : worker'[u].step = "read" /\ worker'[u].row # None =>
              worker'[u].row \in SkuRows /\ worker'[u].row.sku = worker'[u].ask.sku
      BY <2>1, <2>7 DEF OthersStay, ExtrasShapes, Reading
    <3> QED BY <3>1, <3>3, <3>4
  <2>8. about' \in {"items", "tags", "texts", "subs"}
    BY <1>1 DEF ExtrasShapes
  <2> QED BY <1>1, <1>2, <2>2, <2>4, <2>6, <2>7, <2>8 DEF ExtrasShapes, Reading
<1>4. ASSUME NEW w \in Worker, Commit(w)
      PROVE  ExtrasShapes'
  <2>1. /\ Reading(w) /\ taken' = taken /\ NobodyReads
    BY <1>4, CommitEffect
  <2>2. RowsKeepNumbers(w) /\ (OfOneRow => extras' \subseteq SkuRows)
    BY <1>4, CommittedRows
  <2>3. \A x \in extras' : x.by \in 1 .. taken' /\ x.sku \in Owners'
    BY <1>2, <2>1, <2>2 DEF RowsKeepNumbers, ExtrasShapes, AskOK
  <2>4. \A u \in Worker : worker'[u].step = "read" => worker'[u] = worker[u] /\ Reading(u)
    BY <2>1 DEF NobodyReads, Reading
  <2>5. about' \in {"items", "tags", "texts", "subs"} /\ taken' \in Nat
    BY <1>1, <2>1 DEF ExtrasShapes
  <2>6. \A u \in Worker : worker'[u].step = "read" =>
          /\ worker'[u].by \in 1 .. taken' /\ AskOK(worker'[u].ask)
          /\ \A y \in worker'[u].rows : y.by \in 1 .. taken' /\ y.sku \in Owners
    BY <2>1, <2>4 DEF ExtrasShapes
  <2>7. OfOneRow => \A u \in Worker : worker'[u].step = "read" /\ worker'[u].row # None =>
            worker'[u].row \in SkuRows /\ worker'[u].row.sku = worker'[u].ask.sku
    BY <2>4 DEF ExtrasShapes
  <2> QED BY <1>1, <1>2, <2>2, <2>3, <2>5, <2>6, <2>7 DEF ExtrasShapes, Reading
<1>5. ASSUME Quiet
      PROVE  ExtrasShapes'
  <2>1. \A u \in Worker : worker'[u].step = "read" => worker'[u] = worker[u] /\ Reading(u)
    BY <1>5 DEF Quiet, NobodyReads, Reading
  <2>2. UNCHANGED <<extras, taken>>
    BY <1>5 DEF Quiet, RowsStay
  <2>3. \A u \in Worker : worker'[u].step = "read" =>
          /\ worker'[u].by \in 1 .. taken' /\ AskOK(worker'[u].ask)
          /\ \A y \in worker'[u].rows : y.by \in 1 .. taken' /\ y.sku \in Owners
    BY <2>1, <2>2 DEF ExtrasShapes
  <2>4. OfOneRow => \A u \in Worker : worker'[u].step = "read" /\ worker'[u].row # None =>
            worker'[u].row \in SkuRows /\ worker'[u].row.sku = worker'[u].ask.sku
    BY <2>1 DEF ExtrasShapes
  <2> QED BY <1>1, <1>2, <2>2, <2>3, <2>4 DEF ExtrasShapes, Reading
<1> QED BY <1>3, <1>4, <1>5, SayEffect, DieEffect, DeleteEffect DEF ExtrasNext

LEMMA NumbersStayFree ==
  ASSUME ExtrasAssumption, ExtrasShapes, WorkersOK, NumbersFree, ExtrasNext
  PROVE  NumbersFree'
<1>1. ASSUME NEW w \in Worker, NEW ask \in Asks, Begin(w, ask)
      PROVE  NumbersFree'
  <2>1. /\ taken' = taken + 1 /\ RowsStay /\ OthersStay(w) /\ HasRead(w, ask)
    BY <1>1, BeginEffect
  <2>2. \A b \in 1 .. taken : b # taken + 1
    BY DEF ExtrasShapes
  <2>3. \A u \in Worker \ {w} : worker'[u].step = "read" => worker'[u] = worker[u] /\ Reading(u)
    BY <2>1 DEF OthersStay, Reading
  <2>4. /\ worker'[w].by = taken + 1 /\ worker'[w].rows = extras /\ extras' = extras
    BY <2>1 DEF HasRead, RowsStay
  <2>5. \A x \in extras : x.by # taken + 1
    BY <2>2 DEF ExtrasShapes
  <2>6. \A u \in Worker : Reading(u) =>
          worker[u].by # taken + 1 /\ \A y \in worker[u].rows : y.by # taken + 1
    BY <2>2 DEF ExtrasShapes
  <2>7. \A u \in Worker : worker'[u].step = "read" => \A x \in extras' : x.by # worker'[u].by
    BY <2>3, <2>4, <2>5 DEF NumbersFree
  <2>8. \A u, v \in Worker : worker'[u].step = "read" /\ worker'[v].step = "read" /\ u # v =>
          worker'[u].by # worker'[v].by
    BY <2>3, <2>4, <2>6 DEF NumbersFree
  <2>9. \A u, v \in Worker : worker'[u].step = "read" /\ worker'[v].step = "read" =>
          \A y \in worker'[u].rows : y.by # worker'[v].by
    BY <2>3, <2>4, <2>5, <2>6 DEF NumbersFree
  <2> QED BY <2>7, <2>8, <2>9 DEF NumbersFree, Reading
<1>2. ASSUME NobodyReads, \A u \in Worker : worker'[u].step = "read" => \A x \in extras' : x.by # worker[u].by
      PROVE  NumbersFree'
  <2>1. \A u \in Worker : worker'[u].step = "read" => worker'[u] = worker[u] /\ Reading(u)
    BY <1>2 DEF NobodyReads, Reading
  <2> QED BY <1>2, <2>1 DEF NumbersFree, Reading
<1>3. ASSUME NEW w \in Worker, Commit(w)
      PROVE  NumbersFree'
  <2>1. Reading(w) /\ NobodyReads /\ RowsKeepNumbers(w) /\ worker'[w] = Committed(w)
    BY <1>3, CommitEffect, CommittedRows
  <2>2. Committed(w).step # "read"
    BY DEF Committed, Idle
  <2>3. \A u \in Worker : worker'[u].step = "read" => \A x \in extras' : x.by # worker[u].by
    <3>1. TAKE u \in Worker
    <3>2. HAVE worker'[u].step = "read"
    <3>3. u # w /\ Reading(u)
      BY <2>1, <2>2, <3>2 DEF NobodyReads, Reading
    <3> QED BY <2>1, <3>3 DEF RowsKeepNumbers, NumbersFree
  <2> QED BY <1>2, <2>1, <2>3
<1>4. ASSUME Quiet
      PROVE  NumbersFree'
  BY <1>2, <1>4 DEF Quiet, RowsStay, NobodyReads, NumbersFree, Reading
<1> QED BY <1>1, <1>3, <1>4, SayEffect, DieEffect, DeleteEffect DEF ExtrasNext

\* What requests ask for keeps its kind.
LEMMA FollowOK ==
  ASSUME ExtrasAssumption, ExtrasShapes, NEW w \in Worker, Reading(w),
         NEW a \in [known : BOOLEAN, value : AskedValues]
  PROVE  Follow(a, worker[w]) \in [known : BOOLEAN, value : AskedValues]
<1>1. PICK r : r = worker[w]
  OBVIOUS
<1>2. AskOK(r.ask)
  BY <1>1 DEF ExtrasShapes
<1>3. [a EXCEPT !.known = FALSE] \in [known : BOOLEAN, value : AskedValues]
  OBVIOUS
<1>4. ASSUME about # "subs"
      PROVE  Becomes(r.ask, a.value) \in AskedValues
  <2>1. CASE about = "items"
    BY <1>2, <2>1 DEF AskOK, Becomes, AskedValues
  <2>2. CASE about = "tags"
    BY <1>2, <2>2 DEF AskOK, Becomes, AskedValues, NewTags
  <2>3. CASE about = "texts"
    BY <1>2, <2>3 DEF AskOK, Becomes, AskedValues, Given
  <2> QED BY <1>4, <2>1, <2>2, <2>3 DEF ExtrasShapes
<1>5. PICK v : v = Becomes(r.ask, a.value)
  OBVIOUS
<1>6. about # "subs" => [known |-> TRUE, value |-> v] \in [known : BOOLEAN, value : AskedValues]
  BY <1>4, <1>5
<1> QED BY <1>1, <1>3, <1>5, <1>6 DEF Follow

\* The record of what has been asked for an SKU.
LEMMA FollowOne ==
  ASSUME ExtrasAssumption, ExtrasShapes, AskedShapes, WorkersOK, NEW w \in Worker, Commit(w)
  PROVE  /\ AskedShapes' /\ worker[w].ask.sku \in Owners
         /\ \A k \in Owners : askedFor'[k] =
              IF k = worker[w].ask.sku THEN Follow(askedFor[k], worker[w]) ELSE askedFor[k]
<1>1. PICK k : k = worker[w].ask.sku
  OBVIOUS
<1>2. Reading(w) /\ about' = about /\ k \in Owners
  BY <1>1, CommitEffect DEF ExtrasShapes, AskOK
<1>3. PICK f : f = Follow(askedFor[k], worker[w])
  OBVIOUS
<1>4. f \in [known : BOOLEAN, value : AskedValues]
  BY <1>2, <1>3, FollowOK DEF AskedShapes
<1>5. askedFor' = [askedFor EXCEPT ![k] = f]
  BY <1>1, <1>3 DEF Commit
<1>6. Owners' = Owners /\ AskedValues' = AskedValues
  BY <1>2, AboutStays
<1> QED BY <1>1, <1>2, <1>3, <1>4, <1>5, <1>6 DEF AskedShapes

LEMMA AskedStays ==
  ASSUME ExtrasAssumption, ExtrasShapes, AskedShapes, WorkersOK, ExtrasNext
  PROVE  AskedShapes'
<1>1. ASSUME UNCHANGED <<about, askedFor>>
      PROVE  AskedShapes'
  BY <1>1, AboutStays DEF AskedShapes
<1>2. ASSUME NEW w \in Worker, NEW ask \in Asks, Begin(w, ask)
      PROVE  AskedShapes'
  BY <1>1, <1>2 DEF Begin
<1>3. ASSUME Quiet
      PROVE  AskedShapes'
  BY <1>1, <1>3 DEF Quiet, RowsStay
<1> QED BY <1>2, <1>3, FollowOne, SayEffect, DieEffect, DeleteEffect DEF ExtrasNext

-----------------------------------------------------------------------------
(* The title, and what is told.                                            *)

TitleInv == shared.known => title = shared.value

LEMMA TitleStays ==
  ASSUME TitleInv, ExtrasNext
  PROVE  TitleInv'
<1>1. ASSUME UNCHANGED <<title, shared>>
      PROVE  TitleInv'
  BY <1>1 DEF TitleInv
<1>2. ASSUME NEW w \in Worker, Commit(w), about = "texts"
      PROVE  TitleInv'
  <2>1. PICK r : r = worker[w]
    OBVIOUS
  <2>2. PICK new : new = r.ask.title
    OBVIOUS
  <2>3. title' = IF Given(new, r.title) = r.title THEN title ELSE new
    BY <1>2, <2>1, <2>2 DEF Commit
  <2>4. shared' = [known |-> shared.known /\ title = r.title, value |-> Given(new, shared.value)]
    BY <1>2, <2>1, <2>2 DEF Commit
  <2>5. PICK v : v = Given(new, shared.value)
    OBVIOUS
  <2>6. shared'.known = (shared.known /\ title = r.title) /\ shared'.value = v
    BY <2>4, <2>5
  <2> QED BY <2>3, <2>5, <2>6 DEF TitleInv, Given
<1>3. ASSUME NEW w \in Worker, Commit(w), about # "texts"
      PROVE  TitleInv'
  BY <1>1, <1>3 DEF Commit
<1>4. ASSUME NEW w \in Worker, NEW ask \in Asks, Begin(w, ask)
      PROVE  TitleInv'
  BY <1>1, <1>4 DEF Begin
<1>5. ASSUME NEW w \in Worker, Say(w) \/ Die(w)
      PROVE  TitleInv'
  BY <1>1, <1>5 DEF Say, Die
<1>6. ASSUME NEW k \in Sku, DeleteItem(k)
      PROVE  TitleInv'
  BY <1>1, <1>6 DEF DeleteItem
<1> QED BY <1>2, <1>3, <1>4, <1>5, <1>6 DEF ExtrasNext

\* A request has the signal of k left.
ToldBy(u, k) == worker[u].step = "saying" /\ k \in ToSet(worker[u].left)

LEMMA ToldParts == ChangesTold <=> \A k \in unsaid : died \/ \E u \in Worker : ToldBy(u, k)
BY DEF ChangesTold, ToldBy

LEMMA ToldStays ==
  ASSUME ExtrasAssumption, ExtrasShapes, WorkersOK, ChangesTold, ExtrasNext
  PROVE  ChangesTold'
<1>1. \A k \in unsaid : died \/ \E u \in Worker : ToldBy(u, k)
  BY ToldParts
<1>2. SUFFICES \A k \in unsaid' : died' \/ \E u \in Worker : ToldBy(u, k)'
  BY DEF ChangesTold, ToldBy
<1>3. ASSUME NEW w \in Worker, OthersStay(w), worker[w].step # "saying", NEW k \in unsaid, died => died'
      PROVE  died' \/ \E u \in Worker : ToldBy(u, k)'
  BY <1>1, <1>3 DEF OthersStay, ToldBy
<1>4. ASSUME NEW w \in Worker, NEW ask \in Asks, Begin(w, ask)
      PROVE  \A k \in unsaid' : died' \/ \E u \in Worker : ToldBy(u, k)'
  BY <1>3, <1>4, BeginEffect DEF Idle
<1>5. ASSUME NEW w \in Worker, Commit(w)
      PROVE  \A k \in unsaid' : died' \/ \E u \in Worker : ToldBy(u, k)'
  <2>1. Reading(w) /\ died' = died /\ OthersStay(w) /\ worker'[w] = Committed(w)
    BY <1>5, CommitEffect
  <2>2. PICK ask : ask = worker[w].ask
    OBVIOUS
  <2>3. AskOK(ask) /\ unsaid' = IF Signalled THEN unsaid \cup {ask.sku} ELSE {}
    BY <1>5, <2>1, <2>2 DEF ExtrasShapes, Commit
  <2>4. ASSUME Signalled
        PROVE  ToldBy(w, ask.sku)'
    <3>1. PICK left : left = Signals(ask)
      OBVIOUS
    <3>2. ask.sku \in ToSet(left)
      <4>1. CASE about = "items"
        <5>1. PICK items : items = ask.items
          OBVIOUS
        <5>2. items \in Seq(Sku)
          BY <2>3, <4>1, <5>1 DEF AskOK, ExtrasAssumption
        <5>3. left = Append(items, Bundle) /\ ask.sku = Bundle
          BY <2>3, <3>1, <4>1, <5>1 DEF Signals, AskOK, Owners
        <5>4. Len(items) + 1 \in DOMAIN left /\ left[Len(items) + 1] = Bundle
          BY <5>2, <5>3
        <5> QED BY <5>3, <5>4 DEF ToSet
      <4>2. CASE about # "items"
        <5>1. PICK k : k = ask.sku
          OBVIOUS
        <5>2. left = <<k>>
          BY <3>1, <4>2, <5>1 DEF Signals
        <5>3. 1 \in DOMAIN left /\ left[1] = k
          BY <5>2
        <5> QED BY <5>1, <5>3 DEF ToSet
      <4> QED BY <4>1, <4>2
    <3>3. worker'[w] = [step |-> "saying", left |-> left]
      BY <2>1, <2>2, <2>4, <3>1 DEF Committed
    <3> QED BY <3>2, <3>3 DEF ToldBy
  <2>5. worker[w].step # "saying"
    BY <2>1 DEF Reading
  <2> QED BY <1>3, <2>1, <2>3, <2>4, <2>5
<1>6. ASSUME NEW w \in Worker, Say(w)
      PROVE  \A k \in unsaid' : died' \/ \E u \in Worker : ToldBy(u, k)'
  <2>1. PICK left \in Seq(Sku \cup {Bundle}) : worker[w] = [step |-> "saying", left |-> left]
    BY <1>6, SayEffect DEF Sayings
  <2>2. worker[w].left = left /\ OthersStay(w) /\ died' = died
    <3>1. OthersStay(w) /\ UNCHANGED <<gone, died>>
      BY <1>6, SayEffect
    <3> QED BY <2>1, <3>1
  <2>3. CASE left = <<>>
    <3>1. \A k : ~ToldBy(w, k)
      BY <2>2, <2>3 DEF ToldBy, ToSet
    <3>2. unsaid' = unsaid
      BY <1>6, <2>2, <2>3, SayEffect
    <3> QED BY <1>1, <2>2, <3>1, <3>2 DEF OthersStay, ToldBy
  <2>4. CASE left # <<>>
    <3>1. PICK t : t = Tail(left)
      OBVIOUS
    <3>2. worker'[w] = [step |-> "saying", left |-> t] /\ unsaid' = unsaid \ {Head(left)}
      BY <1>6, <2>2, <2>4, <3>1, SayEffect
    <3>3. \A i \in DOMAIN left : i # 1 => i - 1 \in DOMAIN t /\ t[i - 1] = left[i]
      BY <2>4, <3>1
    <3>4. Head(left) = left[1]
      BY <2>4
    <3>5. \A k \in ToSet(left) : k # Head(left) => k \in ToSet(t)
      BY <3>3, <3>4 DEF ToSet
    <3>6. \A k : ToldBy(w, k) /\ k # Head(left) => ToldBy(w, k)'
      BY <2>2, <3>2, <3>5 DEF ToldBy
    <3> QED BY <1>1, <2>2, <3>2, <3>6 DEF OthersStay, ToldBy
  <2> QED BY <2>3, <2>4
<1>7. ASSUME NEW w \in Worker, Die(w)
      PROVE  \A k \in unsaid' : died' \/ \E u \in Worker : ToldBy(u, k)'
  <2>1. CASE worker[w].step = "saying"
    BY <1>7, <2>1, DieEffect
  <2>2. CASE worker[w].step # "saying"
    <3>1. /\ died' = (died \/ worker[w].step = "saying")
          /\ OthersStay(w) /\ unsaid' = unsaid
      BY <1>7, DieEffect
    <3>2. died => died'
      BY <3>1, Zenon
    <3> QED BY <1>3, <2>2, <3>1, <3>2
  <2> QED BY <2>1, <2>2
<1>8. ASSUME NEW k \in Sku, DeleteItem(k)
      PROVE  \A x \in unsaid' : died' \/ \E u \in Worker : ToldBy(u, x)'
  BY <1>1, <1>8, DeleteEffect DEF ToldBy
<1> QED BY <1>4, <1>5, <1>6, <1>7, <1>8 DEF ExtrasNext

-----------------------------------------------------------------------------
(* The items of a bundle.                                                  *)

\* The rows of a request, some or all.
By(rows, by) == {y \in rows : y.by = by}

\* Rows are Bundle's, all rows of a request are there or none, also among
\* those another request has read.
ItemsWhole ==
  about = "items" =>
    /\ \A x \in extras : \E l \in ItemLists : By(extras, x.by) = RowsFrom(x.by, l)
    /\ \A w \in Worker : Reading(w) =>
         \A x \in extras, y \in worker[w].rows : x.by = y.by => x \in worker[w].rows

\* What is there is what was asked for last, when that is known.
ItemsFollow ==
  about = "items" /\ askedFor[Bundle].known =>
    \E by : extras = RowsFrom(by, askedFor[Bundle].value)

LEMMA InitItems == ExtrasInit => ItemsWhole /\ ItemsFollow
<1> SUFFICES ASSUME ExtrasInit PROVE ItemsWhole /\ ItemsFollow
  OBVIOUS
<1>1. extras = {} /\ \A w \in Worker : ~Reading(w)
  BY DEF ExtrasInit, Reading, Idle
<1>2. ASSUME about = "items"
      PROVE  askedFor[Bundle].value = <<>>
  BY <1>2 DEF ExtrasInit, Owners, NothingAsked
<1>3. ASSUME about = "items"
      PROVE  extras = RowsFrom(0, askedFor[Bundle].value)
  BY <1>1, <1>2, <1>3 DEF RowsFrom
<1> QED BY <1>1, <1>3 DEF ItemsWhole, ItemsFollow

LEMMA ItemsStayWhole ==
  ASSUME ExtrasAssumption, ExtrasShapes, WorkersOK, NumbersFree, ItemsWhole, ExtrasNext
  PROVE  ItemsWhole'
<1>1. SUFFICES ASSUME about = "items"
               PROVE  /\ \A x \in extras' : \E l \in ItemLists : By(extras', x.by) = RowsFrom(x.by, l)
                      /\ \A w \in Worker : worker'[w].step = "read" =>
                           \A x \in extras', y \in worker'[w].rows : x.by = y.by => x \in worker'[w].rows
  BY UnsaidKnown DEF ItemsWhole, Reading, By, RowsFrom
<1>2. /\ \A x \in extras : \E l \in ItemLists : By(extras, x.by) = RowsFrom(x.by, l)
      /\ \A w \in Worker : Reading(w) =>
           \A x \in extras, y \in worker[w].rows : x.by = y.by => x \in worker[w].rows
  BY <1>1 DEF ItemsWhole
<1>3. ASSUME NEW w \in Worker, NEW ask \in Asks, Begin(w, ask)
      PROVE  /\ \A x \in extras' : \E l \in ItemLists : By(extras', x.by) = RowsFrom(x.by, l)
             /\ \A u \in Worker : worker'[u].step = "read" =>
                  \A x \in extras', y \in worker'[u].rows : x.by = y.by => x \in worker'[u].rows
  <2>1. extras' = extras /\ OthersStay(w) /\ worker'[w].rows = extras
    BY <1>3, BeginEffect DEF RowsStay, HasRead
  <2>2. \A u \in Worker \ {w} : worker'[u] = worker[u] /\ (worker'[u].step = "read" => Reading(u))
    BY <2>1 DEF OthersStay, Reading
  <2> QED BY <1>2, <2>1, <2>2
<1>4. ASSUME NEW w \in Worker, Commit(w)
      PROVE  /\ \A x \in extras' : \E l \in ItemLists : By(extras', x.by) = RowsFrom(x.by, l)
             /\ \A u \in Worker : worker'[u].step = "read" =>
                  \A x \in extras', y \in worker'[u].rows : x.by = y.by => x \in worker'[u].rows
  <2>1. Reading(w) /\ NobodyReads
    BY <1>4, CommitEffect
  <2>2. PICK r : r = worker[w]
    OBVIOUS
  <2>3. PICK l : l = r.ask.items
    OBVIOUS
  <2>4. l \in ItemLists /\ \A x \in extras : x.by # r.by
    BY <1>1, <2>1, <2>2, <2>3 DEF ExtrasShapes, AskOK, NumbersFree
  <2>5. PICK new : new = RowsFrom(r.by, l)
    OBVIOUS
  <2>6. extras' = (extras \ r.rows) \cup new
    BY <1>1, <1>4, <2>2, <2>3, <2>5, CommitRows
  <2>7. \A x \in new : x.by = r.by
    BY <2>5 DEF RowsFrom
  <2>8. \A x \in extras, y \in r.rows : x.by = y.by => x \in r.rows
    BY <1>2, <2>1, <2>2
  <2>9. \A x \in extras' : \E k \in ItemLists : By(extras', x.by) = RowsFrom(x.by, k)
    <3>1. TAKE x \in extras'
    <3>2. CASE x \in new
      <4>1. By(extras', x.by) = new
        BY <2>4, <2>6, <2>7, <3>2 DEF By
      <4> QED BY <2>4, <2>5, <2>7, <3>2, <4>1
    <3>3. CASE x \notin new
      <4>1. x \in extras /\ x \notin r.rows /\ x.by # r.by
        BY <2>4, <2>6, <3>3
      <4>2. By(extras', x.by) = By(extras, x.by)
        BY <2>6, <2>7, <2>8, <4>1 DEF By
      <4> QED BY <1>2, <4>1, <4>2
    <3> QED BY <3>2, <3>3
  <2>10. \A u \in Worker : worker'[u].step = "read" =>
           \A x \in extras', y \in worker'[u].rows : x.by = y.by => x \in worker'[u].rows
    <3>1. TAKE u \in Worker
    <3>2. HAVE worker'[u].step = "read"
    <3>3. worker'[u] = worker[u] /\ Reading(u)
      BY <2>1, <3>2 DEF NobodyReads, Reading
    <3>4. \A y \in worker[u].rows : y.by # r.by
      BY <2>1, <2>2, <3>3 DEF NumbersFree
    <3> QED BY <1>2, <2>6, <2>7, <3>3, <3>4
  <2> QED BY <2>9, <2>10
<1>5. ASSUME Quiet
      PROVE  /\ \A x \in extras' : \E l \in ItemLists : By(extras', x.by) = RowsFrom(x.by, l)
             /\ \A u \in Worker : worker'[u].step = "read" =>
                  \A x \in extras', y \in worker'[u].rows : x.by = y.by => x \in worker'[u].rows
  <2>1. extras' = extras
    BY <1>5 DEF Quiet, RowsStay
  <2>2. \A u \in Worker : worker'[u].step = "read" => worker'[u] = worker[u] /\ Reading(u)
    BY <1>5 DEF Quiet, NobodyReads, Reading
  <2> QED BY <1>2, <2>1, <2>2
<1> QED BY <1>3, <1>4, <1>5, SayEffect, DieEffect, DeleteEffect DEF ExtrasNext

LEMMA FollowedUnchanged ==
  ASSUME ItemsFollow, UNCHANGED <<about, extras, askedFor>>
  PROVE  ItemsFollow'
<1>1. PICK v : v = askedFor[Bundle].value
  OBVIOUS
<1>2. CASE about = "items" /\ askedFor[Bundle].known
  <2>1. PICK by : extras = RowsFrom(by, v)
    BY <1>1, <1>2 DEF ItemsFollow
  <2>2. extras' = RowsFrom(by, v) /\ askedFor'[Bundle].value = v
    BY <1>1, <2>1
  <2> QED BY <2>2 DEF ItemsFollow, RowsFrom
<1>3. CASE ~(about = "items" /\ askedFor[Bundle].known)
  BY <1>3 DEF ItemsFollow
<1> QED BY <1>2, <1>3

LEMMA ItemsStayFollowed ==
  ASSUME ExtrasAssumption, ExtrasShapes, AskedShapes, WorkersOK, ItemsFollow, ExtrasNext
  PROVE  ItemsFollow'
<1>1. ASSUME UNCHANGED <<about, extras, askedFor>>
      PROVE  ItemsFollow'
  BY <1>1, FollowedUnchanged
<1>2. ASSUME NEW w \in Worker, Commit(w), about = "items"
      PROVE  ItemsFollow'
  <2>1. Reading(w) /\ about' = about
    BY <1>2, CommitEffect
  <2>2. PICK r : r = worker[w]
    OBVIOUS
  <2>3. r.ask.sku = Bundle /\ (\A x \in extras : x.sku = Bundle) /\ \A x \in r.rows : x.sku = Bundle
    BY <1>2, <2>1, <2>2 DEF ExtrasShapes, AskOK, Owners
  <2>4. askedFor'[Bundle] = Follow(askedFor[Bundle], r)
    BY <1>2, <2>2, <2>3, FollowOne DEF Owners
  <2>5. PICK a : a = askedFor[Bundle]
    OBVIOUS
  <2>6. a \in [known : BOOLEAN, value : AskedValues]
    BY <1>2, <2>5 DEF AskedShapes, Owners
  <2>7. CASE ~Alone(r)
    <3>1. askedFor'[Bundle] = [a EXCEPT !.known = FALSE]
      BY <2>4, <2>5, <2>7 DEF Follow
    <3>2. [a EXCEPT !.known = FALSE].known = FALSE
      BY <2>6
    <3> QED BY <3>1, <3>2 DEF ItemsFollow
  <2>8. CASE Alone(r)
    <3>1. extras = r.rows
      <4>1. {x \in extras : x.sku = Bundle} = {x \in r.rows : x.sku = Bundle}
        BY <2>3, <2>8 DEF Alone, RowsOf
      <4>2. {x \in extras : x.sku = Bundle} = extras /\ {x \in r.rows : x.sku = Bundle} = r.rows
        BY <2>3
      <4> QED BY <4>1, <4>2
    <3>2. PICK l : l = r.ask.items
      OBVIOUS
    <3>3. askedFor'[Bundle] = [known |-> TRUE, value |-> l]
      BY <1>2, <2>4, <2>8, <3>2 DEF Follow, Becomes
    <3>4. extras' = (extras \ r.rows) \cup RowsFrom(r.by, l)
      BY <1>2, <2>2, <3>2, CommitRows
    <3>5. extras' = RowsFrom(r.by, l) /\ askedFor'[Bundle].value = l
      BY <3>1, <3>3, <3>4
    <3> QED BY <3>5 DEF ItemsFollow, RowsFrom
  <2> QED BY <2>7, <2>8
<1>3. ASSUME about # "items"
      PROVE  ItemsFollow'
  BY <1>3, UnsaidKnown DEF ItemsFollow
<1>4. ASSUME NEW w \in Worker, NEW ask \in Asks, Begin(w, ask)
      PROVE  ItemsFollow'
  BY <1>1, <1>4 DEF Begin
<1>5. ASSUME Quiet
      PROVE  ItemsFollow'
  BY <1>1, <1>5 DEF Quiet, RowsStay
<1> QED BY <1>2, <1>3, <1>4, <1>5, SayEffect, DieEffect, DeleteEffect DEF ExtrasNext

-----------------------------------------------------------------------------
(* Tags and texts.                                                         *)

\* A request has one row at most, which stays the same SKU's; a request that
\* read no row saw none of its SKU.
RowsApart ==
  OfOneRow =>
    /\ IsFiniteSet(extras)
    /\ \A x, y \in extras : x.by = y.by => x = y
    /\ \A w \in Worker : Reading(w) =>
         /\ \A x \in extras, y \in worker[w].rows : x.by = y.by => x.sku = y.sku
         /\ worker[w].row = None => \A y \in worker[w].rows : y.sku # worker[w].ask.sku
         /\ worker[w].row # None => worker[w].row \in worker[w].rows

\* An SKU has the row that was asked for, or none when nothing was.
OneRow(k, v) ==
  \/ RowsOf(k) = {} /\ v = NothingAsked
  \/ \E x : RowsOf(k) = {x} /\ x.value = v

RowsFollow == OfOneRow => \A k \in Sku : askedFor[k].known => OneRow(k, askedFor[k].value)

\* The tags a request has seen.
TagsSeen(r) == IF r.row = None THEN {} ELSE r.row.value

TagsBounded ==
  about = "tags" =>
    /\ \A x \in extras : Cardinality(x.value) <= MaxTags
    /\ \A w \in Worker : Reading(w) => Cardinality(NewTags(worker[w].ask, TagsSeen(worker[w]))) <= MaxTags

LEMMA InitRows == ExtrasInit => RowsApart /\ RowsFollow /\ TagsBounded
<1> SUFFICES ASSUME ExtrasInit PROVE RowsApart /\ RowsFollow /\ TagsBounded
  OBVIOUS
<1>1. extras = {} /\ \A w \in Worker : ~Reading(w)
  BY DEF ExtrasInit, Reading, Idle
<1>2. RowsApart /\ TagsBounded
  BY <1>1, FS_EmptySet DEF RowsApart, TagsBounded
<1>3. ASSUME OfOneRow, NEW k \in Sku
      PROVE  OneRow(k, askedFor[k].value)
  <2>1. k \in Owners
    BY <1>3 DEF OfOneRow, Owners
  <2>2. askedFor[k].value = NothingAsked
    BY <2>1 DEF ExtrasInit
  <2> QED BY <1>1, <2>2 DEF OneRow, RowsOf
<1> QED BY <1>2, <1>3 DEF RowsFollow

\* What a commit makes of the rows: it adds one, leaves them, or changes one.
LEMMA RowCommitted ==
  ASSUME ExtrasAssumption, ExtrasShapes, NumbersFree, WorkersOK, RowsApart, OfOneRow,
         NEW w \in Worker, Commit(w), NEW r, r = worker[w]
  PROVE  \/ /\ r.row = None
            /\ \E z \in SkuRows : /\ extras' = extras \cup {z} /\ z.value = NewValue(r)
                                  /\ z.by = r.by /\ z.sku = r.ask.sku
         \/ /\ r.row # None
            /\ extras' = extras /\ (r.row \in extras => NewValue(r) = r.row.value)
         \/ /\ r.row # None /\ r.row \in r.rows
            /\ \E x \in extras, z \in SkuRows :
                 /\ x.by = r.row.by /\ extras' = (extras \ {x}) \cup {z}
                 /\ z.by = x.by /\ z.sku = x.sku /\ x.sku = r.ask.sku /\ z.value = NewValue(r)
<1>1. Reading(w)
  BY CommitEffect
<1>2. /\ r.by \in Nat /\ r.ask.sku \in Sku
      /\ r.row # None => r.row \in SkuRows /\ r.row.sku = r.ask.sku /\ r.row \in r.rows
  BY <1>1 DEF ExtrasShapes, AskOK, Owners, OfOneRow, RowsApart
<1>3. /\ extras \subseteq SkuRows /\ NewValue(r) \in RowValues
      /\ \A x, y \in extras : x.by = y.by => x = y
      /\ \A x \in extras, y \in r.rows : x.by = y.by => x.sku = y.sku
  BY <1>1, NewValueOK DEF ExtrasShapes, RowsApart
<1>4. PICK new : new = NewValue(r)
  OBVIOUS
<1>5. CASE r.row = None
  <2>1. PICK z : z = [by |-> r.by, sku |-> r.ask.sku, value |-> new]
    OBVIOUS
  <2>2. z \in SkuRows /\ z.by = r.by /\ z.sku = r.ask.sku /\ z.value = new
    BY <1>2, <1>3, <1>4, <2>1 DEF SkuRows
  <2>3. extras' = extras \cup {z}
    BY <1>4, <1>5, <2>1, CommitRows
  <2> QED BY <1>4, <1>5, <2>2, <2>3
<1>6. CASE r.row # None
  <2>1. extras' = {IF x.by = r.row.by /\ new # r.row.value THEN [x EXCEPT !.value = new] ELSE x : x \in extras}
    BY <1>4, <1>6, CommitRows
  <2>2. CASE new = r.row.value \/ \A x \in extras : x.by # r.row.by
    <3>1. extras' = extras
      BY <2>1, <2>2
    <3> QED BY <1>4, <1>6, <2>2, <3>1
  <2>3. CASE new # r.row.value /\ \E x \in extras : x.by = r.row.by
    <3>1. PICK x \in extras : x.by = r.row.by
      BY <2>3
    <3>2. PICK z : z = [x EXCEPT !.value = new]
      OBVIOUS
    <3>3. z \in SkuRows /\ z.by = x.by /\ z.sku = x.sku /\ z.value = new
      BY <1>3, <1>4, <3>1, <3>2 DEF SkuRows
    <3>4. x.sku = r.ask.sku
      BY <1>2, <1>3, <1>6, <3>1
    <3>5. \A y \in extras : y # x => y.by # r.row.by
      BY <1>3, <3>1
    <3>6. extras' = (extras \ {x}) \cup {z}
      BY <2>1, <2>3, <3>1, <3>2, <3>5
    <3> QED BY <1>2, <1>4, <1>6, <3>1, <3>3, <3>4, <3>6
  <2> QED BY <2>2, <2>3
<1> QED BY <1>5, <1>6

LEMMA RowsStayApart ==
  ASSUME ExtrasAssumption, ExtrasShapes, WorkersOK, NumbersFree, RowsApart, ExtrasNext
  PROVE  RowsApart'
<1>1. SUFFICES ASSUME OfOneRow
               PROVE  /\ IsFiniteSet(extras')
                      /\ \A x, y \in extras' : x.by = y.by => x = y
                      /\ \A u \in Worker : worker'[u].step = "read" =>
                           /\ \A x \in extras', y \in worker'[u].rows : x.by = y.by => x.sku = y.sku
                           /\ worker'[u].row = None => \A y \in worker'[u].rows : y.sku # worker'[u].ask.sku
                           /\ worker'[u].row # None => worker'[u].row \in worker'[u].rows
  BY UnsaidKnown DEF RowsApart, OfOneRow, Reading
<1>2. /\ IsFiniteSet(extras)
      /\ \A x, y \in extras : x.by = y.by => x = y
      /\ \A w \in Worker : Reading(w) =>
           /\ \A x \in extras, y \in worker[w].rows : x.by = y.by => x.sku = y.sku
           /\ worker[w].row = None => \A y \in worker[w].rows : y.sku # worker[w].ask.sku
           /\ worker[w].row # None => worker[w].row \in worker[w].rows
  BY <1>1 DEF RowsApart
<1>3. ASSUME NEW w \in Worker, NEW ask \in Asks, Begin(w, ask)
      PROVE  /\ extras' = extras
             /\ \A u \in Worker : worker'[u].step = "read" =>
                  /\ \A x \in extras', y \in worker'[u].rows : x.by = y.by => x.sku = y.sku
                  /\ worker'[u].row = None => \A y \in worker'[u].rows : y.sku # worker'[u].ask.sku
                  /\ worker'[u].row # None => worker'[u].row \in worker'[u].rows
  <2>1. extras' = extras /\ OthersStay(w) /\ HasRead(w, ask)
    BY <1>3, BeginEffect DEF RowsStay
  <2>2. \A u \in Worker \ {w} : worker'[u] = worker[u] /\ (worker'[u].step = "read" => Reading(u))
    BY <2>1 DEF OthersStay, Reading
  <2>3. None \notin extras
    BY <1>1 DEF ExtrasShapes, SkuRows, ExtrasAssumption, RowValues
  <2>4. /\ \A x \in extras', y \in worker'[w].rows : x.by = y.by => x.sku = y.sku
        /\ worker'[w].row = None => \A y \in worker'[w].rows : y.sku # worker'[w].ask.sku
        /\ worker'[w].row # None => worker'[w].row \in worker'[w].rows
    BY <1>2, <2>1, <2>3 DEF HasRead, First, RowsOf
  <2> QED BY <1>2, <2>1, <2>2, <2>4
<1>4. ASSUME NEW w \in Worker, Commit(w)
      PROVE  /\ IsFiniteSet(extras')
             /\ \A x, y \in extras' : x.by = y.by => x = y
             /\ \A u \in Worker : worker'[u].step = "read" =>
                  /\ \A x \in extras', y \in worker'[u].rows : x.by = y.by => x.sku = y.sku
                  /\ worker'[u].row = None => \A y \in worker'[u].rows : y.sku # worker'[u].ask.sku
                  /\ worker'[u].row # None => worker'[u].row \in worker'[u].rows
  <2>1. PICK r : r = worker[w]
    OBVIOUS
  <2>2. Reading(w) /\ NobodyReads
    BY <1>4, CommitEffect
  <2>3. \A u \in Worker : worker'[u].step = "read" =>
          worker'[u] = worker[u] /\ Reading(u) /\ \A y \in worker[u].rows : y.by # r.by
    BY <2>1, <2>2 DEF NobodyReads, Reading, NumbersFree
  <2>4. \A x \in extras : x.by # r.by
    BY <2>1, <2>2 DEF NumbersFree
  <2>5. CASE \E z \in SkuRows : extras' = extras \cup {z} /\ z.by = r.by
    <3>1. PICK z \in SkuRows : extras' = extras \cup {z} /\ z.by = r.by
      BY <2>5
    <3>2. IsFiniteSet(extras')
      BY <1>2, <3>1, FS_AddElement
    <3>3. \A x, y \in extras' : x.by = y.by => x = y
      BY <1>2, <2>4, <3>1
    <3>4. \A u \in Worker : worker'[u].step = "read" =>
            \A x \in extras', y \in worker'[u].rows : x.by = y.by => x.sku = y.sku
      BY <1>2, <2>3, <3>1
    <3> QED BY <1>2, <2>3, <3>2, <3>3, <3>4
  <2>6. CASE extras' = extras
    BY <1>2, <2>3, <2>6
  <2>7. CASE \E x \in extras, z \in SkuRows :
               extras' = (extras \ {x}) \cup {z} /\ z.by = x.by /\ z.sku = x.sku
    <3>1. PICK x \in extras, z \in SkuRows :
               extras' = (extras \ {x}) \cup {z} /\ z.by = x.by /\ z.sku = x.sku
      BY <2>7
    <3>2. IsFiniteSet(extras')
      BY <1>2, <3>1, FS_AddElement, FS_RemoveElement
    <3>3. \A a, b \in extras' : a.by = b.by => a = b
      BY <1>2, <3>1
    <3>4. \A u \in Worker : worker'[u].step = "read" =>
            \A a \in extras', y \in worker'[u].rows : a.by = y.by => a.sku = y.sku
      BY <1>2, <2>3, <3>1
    <3> QED BY <1>2, <2>3, <3>2, <3>3, <3>4
  <2> QED BY <1>1, <1>4, <2>1, <2>5, <2>6, <2>7, RowCommitted
<1>5. ASSUME Quiet
      PROVE  /\ extras' = extras
             /\ \A u \in Worker : worker'[u].step = "read" => worker'[u] = worker[u] /\ Reading(u)
  BY <1>5 DEF Quiet, RowsStay, NobodyReads, Reading
<1>6. ASSUME Quiet
      PROVE  /\ IsFiniteSet(extras')
             /\ \A x, y \in extras' : x.by = y.by => x = y
             /\ \A u \in Worker : worker'[u].step = "read" =>
                  /\ \A x \in extras', y \in worker'[u].rows : x.by = y.by => x.sku = y.sku
                  /\ worker'[u].row = None => \A y \in worker'[u].rows : y.sku # worker'[u].ask.sku
                  /\ worker'[u].row # None => worker'[u].row \in worker'[u].rows
  BY <1>2, <1>5, <1>6
<1>7. CASE \E w \in Worker, ask \in Asks : Begin(w, ask)
  BY <1>2, <1>3, <1>7
<1>8. CASE \E w \in Worker : Commit(w)
  BY <1>4, <1>8
<1>9. CASE Quiet
  BY <1>6, <1>9
<1> QED BY <1>7, <1>8, <1>9, SayEffect, DieEffect, DeleteEffect DEF ExtrasNext

\* The row read, or none, is all there is.
ReadAll(r, k) == RowsOf(k) = IF r.row = None THEN {} ELSE {r.row}

\* What a request makes of a known value is what it writes, when it saw that.
LEMMA FollowValue ==
  ASSUME OfOneRow, NEW w \in Worker, Reading(w), NEW r, r = worker[w], NEW k, k = r.ask.sku, k \in Sku,
         ExtrasShapes, RowsFollow, Alone(r), ~(Cardinality(RowsOf(k)) > 1),
         Follow(askedFor[k], r).known,
         ReadAll(r, k)
  PROVE  Follow(askedFor[k], r).value = NewValue(r)
<1>1. PICK a : a = askedFor[k]
  OBVIOUS
<1>2. PICK v : v = Becomes(r.ask, a.value)
  OBVIOUS
<1>3. PICK old : old = IF r.row = None THEN NothingAsked ELSE r.row.value
  OBVIOUS
<1>4. NewValue(r) = Becomes(r.ask, old)
  BY <1>3 DEF NewValue
<1>5. CASE a.known
  <2>1. OneRow(k, a.value)
    BY <1>1, <1>5 DEF RowsFollow
  <2>2. a.value = old
    BY <1>3, <2>1 DEF OneRow, ReadAll
  <2>3. Follow(a, r) = [known |-> TRUE, value |-> v]
    BY <1>2, <1>5 DEF Follow, OfOneRow
  <2> QED BY <1>1, <1>2, <1>4, <2>2, <2>3
<1>6. CASE ~a.known
  <2>1. about = "tags" /\ r.ask.overwrite
    BY <1>1, <1>6 DEF Follow, OfOneRow
  <2>2. v = r.ask.tags /\ NewValue(r) = r.ask.tags
    BY <1>2, <1>4, <2>1 DEF Becomes, NewTags
  <2>3. Follow(a, r) = [known |-> TRUE, value |-> v]
    BY <1>2, <2>1 DEF Follow, OfOneRow
  <2> QED BY <1>1, <2>2, <2>3
<1> QED BY <1>5, <1>6

\* A new value for an SKU with a row or none, whose request read that.
LEMMA FollowAlone ==
  ASSUME ExtrasAssumption, ExtrasShapes, AskedShapes, WorkersOK, RowsApart, RowsFollow, OfOneRow,
         NEW w \in Worker, Reading(w), NEW r, r = worker[w], NEW k, k = r.ask.sku,
         Follow(askedFor[k], r).known
  PROVE  ReadAll(r, k) /\ Follow(askedFor[k], r).value = NewValue(r)
<1>1. PICK a : a = askedFor[k]
  OBVIOUS
<1>2. k \in Sku /\ k \in Owners
  BY DEF ExtrasShapes, AskOK, Owners, OfOneRow
<1>3. a \in [known : BOOLEAN, value : AskedValues]
  BY <1>1, <1>2 DEF AskedShapes
<1>4. [a EXCEPT !.known = FALSE].known = FALSE
  BY <1>3
<1>5. Alone(r) /\ ~(Cardinality(RowsOf(k)) > 1)
  BY <1>1, <1>4 DEF Follow, OfOneRow
<1>6. RowsOf(k) = {x \in r.rows : x.sku = k}
  BY <1>5 DEF Alone
<1>7. CASE r.row = None
  <2>1. RowsOf(k) = {}
    BY <1>6, <1>7 DEF RowsApart
  <2>2. ReadAll(r, k)
    BY <1>7, <2>1 DEF ReadAll
  <2> QED BY <1>2, <1>5, <2>2, FollowValue
<1>8. CASE r.row # None
  <2>1. r.row \in RowsOf(k)
    BY <1>6, <1>8 DEF RowsApart, ExtrasShapes
  <2>2. RowsOf(k) = {r.row}
    <3>1. IsFiniteSet(RowsOf(k))
      <4>1. RowsOf(k) \subseteq extras /\ IsFiniteSet(extras)
        BY DEF RowsOf, RowsApart
      <4> QED BY <4>1, FS_Subset
    <3>2. SUFFICES ASSUME NEW y \in RowsOf(k), y # r.row
                   PROVE  FALSE
      BY <2>1
    <3>3. PICK one : one = {y}
      OBVIOUS
    <3>4. IsFiniteSet(one) /\ Cardinality(one) = 1 /\ r.row \notin one
      BY <3>2, <3>3, FS_Singleton
    <3>5. PICK two : two = one \cup {r.row}
      OBVIOUS
    <3>6. Cardinality(two) = 2 /\ two \subseteq RowsOf(k)
      <4>1. Cardinality(two) = Cardinality(one) + 1
        BY <3>4, <3>5, FS_AddElement
      <4>2. two \subseteq RowsOf(k)
        BY <2>1, <3>2, <3>3, <3>5
      <4> QED BY <3>4, <4>1, <4>2
    <3>7. Cardinality(two) <= Cardinality(RowsOf(k)) /\ Cardinality(RowsOf(k)) \in Nat
      BY <3>1, <3>6, FS_Subset, FS_CardinalityType
    <3> QED BY <1>5, <3>6, <3>7
  <2>3. ReadAll(r, k)
    BY <1>8, <2>2 DEF ReadAll
  <2> QED BY <1>2, <1>5, <2>3, FollowValue
<1> QED BY <1>7, <1>8

LEMMA RowsStayFollowed ==
  ASSUME ExtrasAssumption, ExtrasShapes, AskedShapes, WorkersOK, NumbersFree, RowsApart, RowsFollow,
         ExtrasNext
  PROVE  RowsFollow'
<1>1. SUFFICES ASSUME OfOneRow, NEW k \in Sku, askedFor'[k].known
               PROVE  \/ {x \in extras' : x.sku = k} = {} /\ askedFor'[k].value = NothingAsked
                      \/ \E x : {y \in extras' : y.sku = k} = {x} /\ x.value = askedFor'[k].value
  BY UnsaidKnown, AboutStays DEF RowsFollow, OneRow, RowsOf
<1>2. ASSUME UNCHANGED <<extras, askedFor>>
      PROVE  \/ {x \in extras' : x.sku = k} = {} /\ askedFor'[k].value = NothingAsked
             \/ \E x : {y \in extras' : y.sku = k} = {x} /\ x.value = askedFor'[k].value
  BY <1>1, <1>2 DEF RowsFollow, OneRow, RowsOf
<1>3. ASSUME NEW w \in Worker, Commit(w)
      PROVE  \/ {x \in extras' : x.sku = k} = {} /\ askedFor'[k].value = NothingAsked
             \/ \E x : {y \in extras' : y.sku = k} = {x} /\ x.value = askedFor'[k].value
  <2>1. PICK r : r = worker[w]
    OBVIOUS
  <2>2. Reading(w) /\ k \in Owners
    BY <1>1, <1>3, CommitEffect DEF OfOneRow, Owners
  <2>3. askedFor'[k] = IF k = r.ask.sku THEN Follow(askedFor[k], r) ELSE askedFor[k]
    BY <1>3, <2>1, <2>2, FollowOne
  <2>4. PICK new : new = NewValue(r)
    OBVIOUS
  <2>5. CASE k # r.ask.sku
    <3>1. {x \in extras' : x.sku = k} = {x \in extras : x.sku = k}
      BY <1>1, <1>3, <2>1, <2>5, RowCommitted
    <3>2. OneRow(k, askedFor[k].value)
      BY <1>1, <2>3, <2>5 DEF RowsFollow
    <3> QED BY <2>3, <2>5, <3>1, <3>2 DEF OneRow, RowsOf
  <2>6. CASE k = r.ask.sku
    <3>1. /\ RowsOf(k) = IF r.row = None THEN {} ELSE {r.row}
          /\ askedFor'[k].value = new
      <4>1. Follow(askedFor[k], r).known
        BY <1>1, <2>3, <2>6
      <4>2. ReadAll(r, k) /\ Follow(askedFor[k], r).value = NewValue(r)
        BY <1>1, <2>1, <2>2, <2>6, <4>1, FollowAlone
      <4> QED BY <2>3, <2>4, <2>6, <4>2 DEF ReadAll
    <3>2. CASE r.row = None
      <4>1. PICK z \in SkuRows : extras' = extras \cup {z} /\ z.value = new /\ z.sku = k
        BY <1>1, <1>3, <2>1, <2>4, <2>6, <3>2, RowCommitted
      <4>2. {y \in extras' : y.sku = k} = {z}
        BY <3>1, <3>2, <4>1 DEF RowsOf
      <4> QED BY <3>1, <4>1, <4>2
    <3>3. CASE r.row # None
      <4>1. r.row \in extras /\ \A y \in extras : y.sku = k => y = r.row
        BY <3>1, <3>3 DEF RowsOf
      <4>2. CASE extras' = extras /\ new = r.row.value
        BY <3>1, <3>3, <4>2 DEF RowsOf
      <4>3. CASE \E x \in extras, z \in SkuRows :
                   /\ extras' = (extras \ {x}) \cup {z}
                   /\ z.sku = x.sku /\ x.sku = k /\ z.value = new
        <5>1. PICK x \in extras, z \in SkuRows :
                   /\ extras' = (extras \ {x}) \cup {z}
                   /\ z.sku = x.sku /\ x.sku = k /\ z.value = new
          BY <4>3
        <5>2. {y \in extras' : y.sku = k} = {z}
          BY <4>1, <5>1
        <5> QED BY <3>1, <5>1, <5>2
      <4> QED BY <1>1, <1>3, <2>1, <2>4, <2>6, <3>3, <4>1, <4>2, <4>3, RowCommitted
    <3> QED BY <3>2, <3>3
  <2> QED BY <2>5, <2>6
<1>4. ASSUME NEW w \in Worker, NEW ask \in Asks, Begin(w, ask)
      PROVE  UNCHANGED <<extras, askedFor>>
  BY <1>4 DEF Begin
<1>5. ASSUME Quiet
      PROVE  UNCHANGED <<extras, askedFor>>
  BY <1>5 DEF Quiet, RowsStay
<1>6. CASE \E w \in Worker, ask \in Asks : Begin(w, ask)
  BY <1>2, <1>4, <1>6
<1>7. CASE \E w \in Worker : Commit(w)
  BY <1>3, <1>7
<1>8. CASE Quiet
  BY <1>2, <1>5, <1>8
<1> QED BY <1>6, <1>7, <1>8, SayEffect, DieEffect, DeleteEffect DEF ExtrasNext

\* The tags a request writes are those it was allowed.
LEMMA TagsWritten ==
  ASSUME about = "tags", NEW r
  PROVE  NewValue(r) = NewTags(r.ask, TagsSeen(r))
BY DEF NewValue, Becomes, TagsSeen, NothingAsked

LEMMA TagsStayBounded ==
  ASSUME ExtrasAssumption, ExtrasShapes, WorkersOK, NumbersFree, RowsApart, TagsBounded, ExtrasNext
  PROVE  TagsBounded'
<1>1. SUFFICES ASSUME about = "tags"
               PROVE  /\ \A x \in extras' : Cardinality(x.value) <= MaxTags
                      /\ \A u \in Worker : worker'[u].step = "read" =>
                           Cardinality(NewTags(worker'[u].ask, TagsSeen(worker'[u]))) <= MaxTags
  BY UnsaidKnown DEF TagsBounded, Reading, NewTags, TagsSeen
<1>2. /\ \A x \in extras : Cardinality(x.value) <= MaxTags
      /\ \A u \in Worker : Reading(u) => Cardinality(NewTags(worker[u].ask, TagsSeen(worker[u]))) <= MaxTags
  BY <1>1 DEF TagsBounded
<1>3. ASSUME NEW w \in Worker, NEW ask \in Asks, Begin(w, ask)
      PROVE  /\ \A x \in extras' : Cardinality(x.value) <= MaxTags
             /\ \A u \in Worker : worker'[u].step = "read" =>
                  Cardinality(NewTags(worker'[u].ask, TagsSeen(worker'[u]))) <= MaxTags
  <2>1. extras' = extras /\ OthersStay(w) /\ HasRead(w, ask)
    BY <1>3, BeginEffect DEF RowsStay
  <2>2. \A u \in Worker \ {w} : worker'[u] = worker[u] /\ (worker'[u].step = "read" => Reading(u))
    BY <2>1 DEF OthersStay, Reading
  <2>3. PICK r : r = worker'[w]
    OBVIOUS
  <2>4. Cardinality(NewTags(r.ask, TagsSeen(r))) <= MaxTags
    BY <1>1, <2>1, <2>3 DEF HasRead, Allowed, TagsSeen, NothingAsked
  <2> QED BY <1>2, <2>1, <2>2, <2>3, <2>4
<1>4. ASSUME NEW w \in Worker, Commit(w)
      PROVE  /\ \A x \in extras' : Cardinality(x.value) <= MaxTags
             /\ \A u \in Worker : worker'[u].step = "read" =>
                  Cardinality(NewTags(worker'[u].ask, TagsSeen(worker'[u]))) <= MaxTags
  <2>1. PICK r : r = worker[w]
    OBVIOUS
  <2>2. Reading(w) /\ NobodyReads /\ OfOneRow
    BY <1>1, <1>4, CommitEffect DEF OfOneRow
  <2>3. \A u \in Worker : worker'[u].step = "read" => worker'[u] = worker[u] /\ Reading(u)
    BY <2>2 DEF NobodyReads, Reading
  <2>4. Cardinality(NewValue(r)) <= MaxTags
    BY <1>1, <1>2, <2>1, <2>2, TagsWritten
  <2>5. \A x \in extras' : x \in extras \/ x.value = NewValue(r)
    BY <1>4, <2>1, <2>2, RowCommitted
  <2> QED BY <1>2, <2>3, <2>4, <2>5
<1>5. ASSUME Quiet
      PROVE  /\ \A x \in extras' : Cardinality(x.value) <= MaxTags
             /\ \A u \in Worker : worker'[u].step = "read" =>
                  Cardinality(NewTags(worker'[u].ask, TagsSeen(worker'[u]))) <= MaxTags
  <2>1. extras' = extras
    BY <1>5 DEF Quiet, RowsStay
  <2>2. \A u \in Worker : worker'[u].step = "read" => worker'[u] = worker[u] /\ Reading(u)
    BY <1>5 DEF Quiet, NobodyReads, Reading
  <2> QED BY <1>2, <2>1, <2>2
<1>6. CASE \E w \in Worker, ask \in Asks : Begin(w, ask)
  BY <1>3, <1>6
<1>7. CASE \E w \in Worker : Commit(w)
  BY <1>4, <1>7
<1>8. CASE Quiet
  BY <1>5, <1>8
<1> QED BY <1>6, <1>7, <1>8, SayEffect, DieEffect, DeleteEffect DEF ExtrasNext

-----------------------------------------------------------------------------
(* Sub SKUs.                                                               *)

\* The rows of an SKU among rows.
RowsFor(rows, k) == {x \in rows : x.sku = k}

\* A request has counted fewer sub SKUs than there may be.
SubsCounted ==
  about = "subs" =>
    /\ IsFiniteSet(extras)
    /\ \A w \in Worker : Reading(w) =>
         /\ IsFiniteSet(worker[w].rows)
         /\ Cardinality(RowsFor(worker[w].rows, worker[w].ask.sku)) < MaxSubs

\* The numbers given in rows are allowed; they are all up to how many they are.
InRange(rows) == {x.value : x \in rows} \subseteq 1 .. MaxSubs
Gapless(rows) == {x.value : x \in rows} = 1 .. Cardinality(rows)
NumberedFor(rows, known) == InRange(rows) /\ (known => Gapless(rows))

LEMMA SubsParts ==
  SubsNumbered <=> (about = "subs" => \A k \in Sku : NumberedFor(RowsFor(extras, k), askedFor[k].known))
BY DEF SubsNumbered, NumberedFor, InRange, Gapless, RowsFor, RowsOf

LEMMA InitSubs ==
  ASSUME ExtrasAssumption, ExtrasInit
  PROVE  SubsCounted /\ SubsNumbered
<1>1. extras = {} /\ \A w \in Worker : ~Reading(w)
  BY DEF ExtrasInit, Reading, Idle
<1>2. SubsCounted
  BY <1>1, FS_EmptySet DEF SubsCounted
<1>3. \A k \in Sku : RowsFor(extras, k) = {}
  BY <1>1 DEF RowsFor
<1>4. InRange({}) /\ Gapless({})
  <2>1. Cardinality({}) = 0 /\ 1 .. 0 = {}
    BY FS_EmptySet
  <2> QED BY <2>1 DEF InRange, Gapless
<1> QED BY <1>2, <1>3, <1>4, SubsParts DEF NumberedFor

LEMMA CountsStay ==
  ASSUME ExtrasAssumption, ExtrasShapes, WorkersOK, SubsCounted, ExtrasNext
  PROVE  SubsCounted'
<1>1. SUFFICES ASSUME about = "subs"
               PROVE  /\ IsFiniteSet(extras')
                      /\ \A u \in Worker : worker'[u].step = "read" =>
                           /\ IsFiniteSet(worker'[u].rows)
                           /\ Cardinality(RowsFor(worker'[u].rows, worker'[u].ask.sku)) < MaxSubs
  BY UnsaidKnown DEF SubsCounted, Reading, RowsFor
<1>2. /\ IsFiniteSet(extras)
      /\ \A u \in Worker : Reading(u) =>
           /\ IsFiniteSet(worker[u].rows)
           /\ Cardinality(RowsFor(worker[u].rows, worker[u].ask.sku)) < MaxSubs
  BY <1>1 DEF SubsCounted
<1>3. ASSUME NEW w \in Worker, NEW ask \in Asks, Begin(w, ask)
      PROVE  /\ IsFiniteSet(extras')
             /\ \A u \in Worker : worker'[u].step = "read" =>
                  /\ IsFiniteSet(worker'[u].rows)
                  /\ Cardinality(RowsFor(worker'[u].rows, worker'[u].ask.sku)) < MaxSubs
  <2>1. extras' = extras /\ OthersStay(w) /\ HasRead(w, ask)
    BY <1>3, BeginEffect DEF RowsStay
  <2>2. \A u \in Worker \ {w} : worker'[u] = worker[u] /\ (worker'[u].step = "read" => Reading(u))
    BY <2>1 DEF OthersStay, Reading
  <2>3. PICK r : r = worker'[w]
    OBVIOUS
  <2>4. r.rows = extras /\ r.ask = ask
    BY <2>1, <2>3 DEF HasRead
  <2>5. Cardinality(RowsFor(r.rows, r.ask.sku)) < MaxSubs
    BY <1>1, <2>1, <2>4 DEF HasRead, Allowed, RowsOf, RowsFor
  <2> QED BY <1>2, <2>1, <2>2, <2>3, <2>4, <2>5
<1>4. ASSUME NEW w \in Worker, Commit(w)
      PROVE  /\ IsFiniteSet(extras')
             /\ \A u \in Worker : worker'[u].step = "read" =>
                  /\ IsFiniteSet(worker'[u].rows)
                  /\ Cardinality(RowsFor(worker'[u].rows, worker'[u].ask.sku)) < MaxSubs
  <2>1. PICK r : r = worker[w]
    OBVIOUS
  <2>2. PICK z : extras' = extras \cup {z}
    BY <1>1, <1>4, <2>1, CommitRows DEF Numbered
  <2>3. IsFiniteSet(extras')
    BY <1>2, <2>2, FS_AddElement
  <2>4. NobodyReads
    BY <1>4, CommitEffect
  <2>5. \A u \in Worker : worker'[u].step = "read" => worker'[u] = worker[u] /\ Reading(u)
    BY <2>4 DEF NobodyReads, Reading
  <2> QED BY <1>2, <2>3, <2>5
<1>5. ASSUME Quiet
      PROVE  /\ IsFiniteSet(extras')
             /\ \A u \in Worker : worker'[u].step = "read" =>
                  /\ IsFiniteSet(worker'[u].rows)
                  /\ Cardinality(RowsFor(worker'[u].rows, worker'[u].ask.sku)) < MaxSubs
  <2>1. extras' = extras
    BY <1>5 DEF Quiet, RowsStay
  <2>2. \A u \in Worker : worker'[u].step = "read" => worker'[u] = worker[u] /\ Reading(u)
    BY <1>5 DEF Quiet, NobodyReads, Reading
  <2> QED BY <1>2, <2>1, <2>2
<1>6. CASE \E w \in Worker, ask \in Asks : Begin(w, ask)
  BY <1>3, <1>6
<1>7. CASE \E w \in Worker : Commit(w)
  BY <1>4, <1>7
<1>8. CASE Quiet
  BY <1>5, <1>8
<1> QED BY <1>6, <1>7, <1>8, SayEffect, DieEffect, DeleteEffect DEF ExtrasNext

\* One more row, with the number after those there are.
LEMMA OneMore ==
  ASSUME ExtrasAssumption, NEW rows, IsFiniteSet(rows), NEW c \in Nat, c < MaxSubs,
         NEW z, z \notin rows, z.value = c + 1, InRange(rows)
  PROVE  /\ InRange(rows \cup {z})
         /\ Gapless(rows) /\ Cardinality(rows) = c => Gapless(rows \cup {z})
<1>1. PICK more : more = rows \cup {z}
  OBVIOUS
<1>2. {x.value : x \in more} = {x.value : x \in rows} \cup {c + 1}
  BY <1>1
<1>3. c + 1 \in 1 .. MaxSubs
  BY DEF ExtrasAssumption
<1>4. Cardinality(more) = Cardinality(rows) + 1
  BY <1>1, FS_AddElement
<1>5. 1 .. (c + 1) = (1 .. c) \cup {c + 1}
  OBVIOUS
<1>6. ASSUME Gapless(rows), Cardinality(rows) = c
      PROVE  Gapless(more)
  <2>1. {x.value : x \in rows} = 1 .. c
    BY <1>6 DEF Gapless
  <2>2. Cardinality(more) = c + 1
    BY <1>4, <1>6
  <2> QED BY <1>2, <1>5, <2>1, <2>2 DEF Gapless
<1>7. InRange(more)
  BY <1>2, <1>3 DEF InRange
<1> QED BY <1>1, <1>6, <1>7

LEMMA SubsStayNumbered ==
  ASSUME ExtrasAssumption, ExtrasShapes, AskedShapes, WorkersOK, NumbersFree, SubsCounted,
         SubsNumbered, ExtrasNext
  PROVE  SubsNumbered'
<1>1. SUFFICES ASSUME about = "subs", NEW k \in Sku
               PROVE  NumberedFor(RowsFor(extras', k), askedFor'[k].known)
  BY UnsaidKnown DEF SubsNumbered, NumberedFor, InRange, Gapless, RowsFor, RowsOf
<1>2. NumberedFor(RowsFor(extras, k), askedFor[k].known)
  BY <1>1, SubsParts
<1>3. ASSUME NEW w \in Worker, Commit(w)
      PROVE  NumberedFor(RowsFor(extras', k), askedFor'[k].known)
  <2>1. PICK r : r = worker[w]
    OBVIOUS
  <2>2. Reading(w) /\ k \in Owners
    BY <1>1, <1>3, CommitEffect DEF Owners
  <2>3. PICK seen : seen = RowsFor(r.rows, r.ask.sku)
    OBVIOUS
  <2>4. IsFiniteSet(r.rows) /\ Cardinality(seen) < MaxSubs /\ IsFiniteSet(extras)
    BY <1>1, <2>1, <2>2, <2>3 DEF SubsCounted
  <2>5. IsFiniteSet(seen) /\ Cardinality(seen) \in Nat
    <3>1. seen \subseteq r.rows
      BY <2>3 DEF RowsFor
    <3> QED BY <2>4, <3>1, FS_Subset, FS_CardinalityType
  <2>6. PICK c \in Nat : c = Cardinality(seen)
    BY <2>5
  <2>7. PICK z : z = [by |-> r.by, sku |-> r.ask.sku, value |-> c + 1]
    OBVIOUS
  <2>8. z.by = r.by /\ z.sku = r.ask.sku /\ z.value = c + 1
    BY <2>7
  <2>9. extras' = extras \cup {z}
    <3>1. extras' = Numbered(r)
      BY <1>1, <1>3, <2>1, CommitRows
    <3>2. {x \in r.rows : x.sku = r.ask.sku} = seen
      BY <2>3 DEF RowsFor
    <3> QED BY <2>6, <2>7, <3>1, <3>2 DEF Numbered
  <2>10. askedFor'[k] = IF k = r.ask.sku THEN Follow(askedFor[k], r) ELSE askedFor[k]
    BY <1>3, <2>1, <2>2, FollowOne
  <2>11. CASE k # r.ask.sku
    <3>1. RowsFor(extras', k) = RowsFor(extras, k)
      BY <2>8, <2>9, <2>11 DEF RowsFor
    <3> QED BY <1>2, <2>10, <2>11, <3>1
  <2>12. CASE k = r.ask.sku
    <3>1. PICK a : a = askedFor[k]
      OBVIOUS
    <3>2. a \in [known : BOOLEAN, value : AskedValues]
      BY <2>2, <3>1 DEF AskedShapes
    <3>3. [a EXCEPT !.known = FALSE].known = FALSE
      BY <3>2
    <3>4. PICK rows : rows = RowsFor(extras, k)
      OBVIOUS
    <3>5. RowsFor(extras', k) = rows \cup {z} /\ z \notin rows
      BY <2>1, <2>2, <2>8, <2>9, <2>12, <3>4 DEF RowsFor, NumbersFree
    <3>6. IsFiniteSet(rows)
      <4>1. rows \subseteq extras
        BY <3>4 DEF RowsFor
      <4> QED BY <2>4, <4>1, FS_Subset
    <3>7. ASSUME askedFor'[k].known
          PROVE  a.known /\ rows = seen
      <4>1. Follow(a, r).known
        BY <2>10, <2>12, <3>1, <3>7
      <4>2. Alone(r) /\ Follow(a, r) = a
        BY <1>1, <3>3, <4>1 DEF Follow
      <4>3. rows = seen
        BY <2>3, <2>12, <3>4, <4>2 DEF Alone, RowsOf, RowsFor
      <4> QED BY <4>1, <4>2, <4>3
    <3>8. InRange(rows) /\ (a.known => Gapless(rows)) /\ c < MaxSubs
      BY <1>2, <2>4, <2>6, <3>1, <3>4 DEF NumberedFor
    <3>9. /\ InRange(rows \cup {z})
          /\ Gapless(rows) /\ Cardinality(rows) = c => Gapless(rows \cup {z})
      BY <2>8, <3>5, <3>6, <3>8, OneMore
    <3> QED BY <2>6, <3>5, <3>7, <3>8, <3>9 DEF NumberedFor
  <2> QED BY <2>11, <2>12
<1>4. ASSUME NEW w \in Worker, NEW ask \in Asks, Begin(w, ask)
      PROVE  UNCHANGED <<extras, askedFor>>
  BY <1>4 DEF Begin
<1>5. ASSUME Quiet
      PROVE  UNCHANGED <<extras, askedFor>>
  BY <1>5 DEF Quiet, RowsStay
<1>6. CASE \E w \in Worker, ask \in Asks : Begin(w, ask)
  BY <1>2, <1>4, <1>6
<1>7. CASE \E w \in Worker : Commit(w)
  BY <1>3, <1>7
<1>8. CASE Quiet
  BY <1>2, <1>5, <1>8
<1> QED BY <1>6, <1>7, <1>8, SayEffect, DieEffect, DeleteEffect DEF ExtrasNext

-----------------------------------------------------------------------------
(* What is read.                                                           *)

\* Rows in the order of their places.
InPlace(o) == \A m, n \in DOMAIN o : m < n => o[m].value[1] <= o[n].value[1]

\* The rows in S are those of the places in P, R[n] that of n.
Placed(S, P, R) ==
  /\ \A n \in P : n \in Nat /\ R[n] \in S /\ R[n].value[1] = n
  /\ \A x \in S : x.value[1] \in P /\ R[x.value[1]] = x

LEMMA AsManyAsPlaces ==
  ASSUME NEW S, NEW P, NEW R, Placed(S, P, R), IsFiniteSet(P)
  PROVE  Cardinality(S) = Cardinality(P)
<1>1. PICK f : f = [n \in P |-> R[n]]
  OBVIOUS
<1>2. f \in [P -> S]
  BY <1>1 DEF Placed
<1>3. f \in Injection(P, S)
  <2>1. \A m, n \in P : f[m] = f[n] => m = n
    BY <1>1 DEF Placed
  <2> QED BY <1>2, <2>1 DEF Injection, IsInjective
<1>4. f \in Surjection(P, S)
  BY <1>1, <1>2 DEF Surjection, Placed
<1>5. ExistsBijection(P, S)
  BY <1>3, <1>4 DEF ExistsBijection, Bijection
<1> QED BY <1>5, FS_Bijection

\* There is one such order.
LEMMA OneOrder ==
  ASSUME NEW S, NEW P, NEW R, Placed(S, P, R), NEW k, k \in Nat, Counts(k, P),
         NEW o, o \in [1 .. k -> S], \A i, j \in 1 .. k : i # j => o[i] # o[j], InPlace(o)
  PROVE  \A i \in 1 .. k : o[i] = R[Ascending(P)[i]]
<1>1. \A n \in P : n \in Nat
  BY DEF Placed
<1>2. PICK p : p = [i \in 1 .. k |-> o[i].value[1]]
  OBVIOUS
<1>3. \A i \in 1 .. k : p[i] = o[i].value[1] /\ p[i] \in P /\ o[i] = R[p[i]]
  BY <1>2 DEF Placed
<1>4. p \in [1 .. k -> P]
  BY <1>2, <1>3
<1>5. \A i, j \in 1 .. k : i < j => p[i] < p[j]
  <2>1. TAKE i, j \in 1 .. k
  <2>2. HAVE i < j
  <2>3. i # j /\ p[i] # p[j]
    BY <1>3, <2>2
  <2>4. p[i] <= p[j]
    BY <1>3, <2>2 DEF InPlace
  <2>5. p[i] \in Nat /\ p[j] \in Nat
    BY <1>1, <1>3
  <2> QED BY <2>3, <2>4, <2>5
<1>6. Lists(p, k, P)
  BY <1>4, <1>5 DEF Lists
<1>7. Lists(Ascending(P), k, P)
  BY <1>1, AscendingLists DEF Counts
<1>8. p = Ascending(P)
  BY <1>1, <1>6, <1>7, OneList
<1> QED BY <1>3, <1>8

\* And that one is an order.
LEMMA OrderExists ==
  ASSUME NEW S, NEW P, NEW R, Placed(S, P, R), NEW k, k \in Nat, Counts(k, P)
  PROVE  \E o : /\ o \in [1 .. k -> S] /\ (\A i, j \in 1 .. k : i # j => o[i] # o[j]) /\ InPlace(o)
<1>1. \A n \in P : n \in Nat
  BY DEF Placed
<1>2. PICK p : p = Ascending(P)
  OBVIOUS
<1>3. Lists(p, k, P)
  BY <1>1, <1>2, AscendingLists DEF Counts
<1>4. p \in [1 .. k -> P] /\ \A i, j \in 1 .. k : i < j => p[i] < p[j]
  BY <1>3 DEF Lists
<1>5. PICK o : o = [i \in 1 .. k |-> R[p[i]]]
  OBVIOUS
<1>6. \A i \in 1 .. k : p[i] \in P /\ o[i] \in S /\ o[i].value[1] = p[i] /\ p[i] \in Nat
  BY <1>4, <1>5 DEF Placed
<1>7. o \in [1 .. k -> S]
  BY <1>5, <1>6
<1>8. \A i, j \in 1 .. k : i # j => o[i] # o[j]
  <2>1. TAKE i, j \in 1 .. k
  <2>2. HAVE i # j
  <2>3. i < j \/ j < i
    BY <2>2
  <2>4. p[i] < p[j] \/ p[j] < p[i]
    BY <1>4, <2>3
  <2> QED BY <1>6, <2>4
<1>9. InPlace(o)
  <2>1. DOMAIN o = 1 .. k
    BY <1>7
  <2> QED BY <1>4, <1>6, <2>1 DEF InPlace
<1> QED BY <1>7, <1>8, <1>9

LEMMA ItemsRead ==
  ASSUME NEW list, list \in Seq(Sku), NEW by, extras = RowsFrom(by, list)
  PROVE  InBundle = {Remaining(list)}
<1>1. PICK P : P = {n \in DOMAIN list : list[n] \notin gone}
  OBVIOUS
<1>2. PICK R : R = [n \in P |-> [by |-> by, sku |-> Bundle, value |-> <<n, list[n]>>]]
  OBVIOUS
<1>3. PICK S : S = {r \in extras : r.value[2] \notin gone}
  OBVIOUS
<1>4. \A n \in P : n \in Nat /\ n \in DOMAIN list /\ list[n] \notin gone
  BY <1>1
<1>5. \A n \in P : R[n].value[1] = n /\ R[n].value[2] = list[n]
  BY <1>2
<1>6. \A n \in P : R[n] \in S
  BY <1>2, <1>3, <1>4, <1>5 DEF RowsFrom
<1>7. \A x \in S : x.value[1] \in P /\ R[x.value[1]] = x
  <2>1. TAKE x \in S
  <2>2. x \in RowsFrom(by, list) /\ x.value[2] \notin gone
    BY <1>3
  <2>3. PICK n \in DOMAIN list : x = [by |-> by, sku |-> Bundle, value |-> <<n, list[n]>>]
    BY <2>2 DEF RowsFrom
  <2>4. x.value[1] = n /\ x.value[2] = list[n]
    BY <2>3
  <2>5. n \in P
    BY <1>1, <2>2, <2>4
  <2> QED BY <1>2, <2>3, <2>4, <2>5
<1>8. Placed(S, P, R)
  BY <1>4, <1>5, <1>6, <1>7 DEF Placed
<1>9. IsFiniteSet(P)
  <2>1. Len(list) \in Nat /\ DOMAIN list = 1 .. Len(list)
    OBVIOUS
  <2>2. IsFiniteSet(1 .. Len(list)) /\ P \subseteq 1 .. Len(list)
    BY <1>1, <2>1, FS_Interval
  <2> QED BY <2>2, FS_Subset
<1>10. PICK k \in Nat : Counts(k, P)
  BY <1>9, FS_CardinalityType DEF Counts
<1>11. Cardinality(S) = k /\ Cardinality(P) = k
  BY <1>8, <1>9, <1>10, AsManyAsPlaces DEF Counts
<1>12. PICK p : p = Ascending(P)
  OBVIOUS
<1>13. Remaining(list) = [n \in 1 .. k |-> list[p[n]]]
  BY <1>1, <1>11, <1>12 DEF Remaining
<1>14. PICK O : O = {o \in SetToSeqs(S) : \A m, n \in DOMAIN o : m < n => o[m].value[1] <= o[n].value[1]}
  OBVIOUS
<1>15. \A o : o \in O <=>
          /\ o \in [1 .. k -> S] /\ (\A i, j \in 1 .. k : i # j => o[i] # o[j]) /\ InPlace(o)
  BY <1>11, <1>14 DEF SetToSeqs, InPlace
<1>16. InBundle = {[n \in DOMAIN o |-> o[n].value[2]] : o \in O}
  BY <1>3, <1>14 DEF InBundle
<1>17. EachOnce(p, k, P)
  <2>1. Lists(p, k, P)
    BY <1>4, <1>10, <1>12, AscendingLists DEF Counts
  <2> QED BY <1>4, <1>10, <2>1, ListsAll
<1>18. ASSUME NEW o \in O
       PROVE  [n \in DOMAIN o |-> o[n].value[2]] = Remaining(list)
  <2>1. o \in [1 .. k -> S] /\ (\A i, j \in 1 .. k : i # j => o[i] # o[j]) /\ InPlace(o)
    BY <1>15
  <2>2. \A i \in 1 .. k : o[i] = R[p[i]]
    BY <1>8, <1>10, <1>12, <2>1, OneOrder
  <2>3. \A i \in 1 .. k : o[i].value[2] = list[p[i]]
    BY <1>5, <1>17, <2>2 DEF EachOnce
  <2>4. DOMAIN o = 1 .. k
    BY <2>1
  <2> QED BY <1>13, <2>3, <2>4
<1>19. \E o : o \in O
  BY <1>8, <1>10, <1>15, OrderExists
<1> QED BY <1>16, <1>18, <1>19

-----------------------------------------------------------------------------

ExtrasInv ==
  /\ WorkersOK /\ ExtrasShapes /\ AskedShapes /\ NumbersFree
  /\ TitleInv /\ ChangesTold
  /\ ItemsWhole /\ ItemsFollow
  /\ RowsApart /\ RowsFollow /\ TagsBounded
  /\ SubsCounted /\ SubsNumbered

LEMMA ExtrasInvHolds == ASSUME ExtrasAssumption, ExtrasInit PROVE ExtrasInv
<1>1. TitleInv
  <2>1. title = None /\ shared.value = None
    BY DEF ExtrasInit
  <2> QED BY <2>1 DEF TitleInv
<1>2. ChangesTold
  BY DEF ExtrasInit, ChangesTold
<1> QED BY <1>1, <1>2, InitShapes, InitItems, InitRows, InitSubs DEF ExtrasInv

LEMMA ExtrasUnchanged ==
  ASSUME ExtrasInv, UNCHANGED extraVars
  PROVE  ExtrasInv'
<1>1. UNCHANGED <<about, extras, title, gone, worker, taken, askedFor, shared, unsaid, died>>
  BY DEF extraVars
<1>2. WorkersOK' /\ ExtrasShapes' /\ AskedShapes' /\ NumbersFree'
  BY <1>1, AboutStays DEF ExtrasInv, WorkersOK, Reading, ExtrasShapes, AskedShapes, NumbersFree
<1>3. TitleInv' /\ ChangesTold'
  BY <1>1 DEF ExtrasInv, TitleInv, ChangesTold
<1>4. ItemsWhole' /\ ItemsFollow'
  <2>1. ItemsWhole'
    BY <1>1 DEF ExtrasInv, ItemsWhole, Reading, By, RowsFrom
  <2> QED BY <1>1, <2>1, FollowedUnchanged DEF ExtrasInv
<1>5. RowsApart' /\ RowsFollow' /\ TagsBounded'
  BY <1>1, AboutStays DEF ExtrasInv, RowsApart, RowsFollow, TagsBounded, Reading, OneRow, RowsOf, NewTags, TagsSeen
<1>6. SubsCounted' /\ SubsNumbered'
  BY <1>1 DEF ExtrasInv, SubsCounted, SubsNumbered, Reading, RowsFor, RowsOf
<1> QED BY <1>2, <1>3, <1>4, <1>5, <1>6 DEF ExtrasInv

LEMMA ExtrasInvStays ==
  ASSUME ExtrasAssumption, ExtrasInv, ExtrasNext
  PROVE  ExtrasInv'
<1>1. WorkersOK' /\ ExtrasShapes' /\ AskedShapes' /\ NumbersFree'
  BY WorkersStay, ShapesStay, AskedStays, NumbersStayFree DEF ExtrasInv
<1>2. TitleInv' /\ ChangesTold'
  BY TitleStays, ToldStays DEF ExtrasInv
<1>3. ItemsWhole' /\ ItemsFollow'
  BY ItemsStayWhole, ItemsStayFollowed DEF ExtrasInv
<1>4. RowsApart' /\ RowsFollow' /\ TagsBounded'
  BY RowsStayApart, RowsStayFollowed, TagsStayBounded DEF ExtrasInv
<1>5. SubsCounted' /\ SubsNumbered'
  BY CountsStay, SubsStayNumbered DEF ExtrasInv
<1> QED BY <1>1, <1>2, <1>3, <1>4, <1>5 DEF ExtrasInv

LEMMA ShownIs ==
  ASSUME ExtrasAssumption, ExtrasInv, about # "subs", NEW k \in Owners, askedFor[k].known
  PROVE  Shown(k) = {IF about = "items" THEN Remaining(askedFor[k].value) ELSE askedFor[k].value}
<1>1. PICK v : v = askedFor[k].value
  OBVIOUS
<1>2. CASE about = "items"
  <2>1. k = Bundle /\ v \in ItemLists \cup {<<>>}
    BY <1>1, <1>2 DEF ExtrasInv, AskedShapes, AskedValues, Owners
  <2>2. v \in Seq(Sku)
    <3>1. v \in ItemLists \/ v = <<>>
      BY <2>1
    <3>2. <<>> \in Seq(Sku)
      OBVIOUS
    <3> QED BY <3>1, <3>2 DEF ExtrasAssumption
  <2>3. PICK by : extras = RowsFrom(by, v)
    BY <1>1, <1>2, <2>1 DEF ExtrasInv, ItemsFollow
  <2>4. InBundle = {Remaining(v)}
    BY <2>2, <2>3, ItemsRead
  <2> QED BY <1>1, <1>2, <2>4 DEF Shown
<1>3. CASE about # "items"
  <2>1. OfOneRow /\ k \in Sku
    BY <1>3 DEF ExtrasInv, ExtrasShapes, OfOneRow, Owners
  <2>2. OneRow(k, v)
    BY <1>1, <2>1 DEF ExtrasInv, RowsFollow
  <2>3. None \notin extras
    BY <2>1 DEF ExtrasInv, ExtrasShapes, SkuRows, ExtrasAssumption, RowValues
  <2>4. Shown(k) = {IF row = None THEN NothingAsked ELSE row.value : row \in First(k)}
    BY <1>3 DEF Shown
  <2>5. CASE RowsOf(k) = {} /\ v = NothingAsked
    BY <1>1, <1>3, <2>4, <2>5 DEF First
  <2>6. CASE \E x : RowsOf(k) = {x} /\ x.value = v
    <3>1. PICK x : RowsOf(k) = {x} /\ x.value = v
      BY <2>6
    <3>2. x # None /\ First(k) = {x}
      BY <2>3, <3>1 DEF RowsOf, First
    <3> QED BY <1>1, <1>3, <2>4, <3>1, <3>2
  <2> QED BY <2>2, <2>5, <2>6 DEF OneRow
<1> QED BY <1>2, <1>3

LEMMA ItemListsWhole ==
  ASSUME ExtrasInv, about = "items", NEW r \in extras
  PROVE  \E l \in ItemLists : {x.value : x \in {y \in extras : y.by = r.by}} = {<<n, l[n]>> : n \in DOMAIN l}
<1>1. PICK l \in ItemLists : {y \in extras : y.by = r.by} = RowsFrom(r.by, l)
  BY DEF ExtrasInv, ItemsWhole, By
<1>2. {x.value : x \in RowsFrom(r.by, l)} = {<<n, l[n]>> : n \in DOMAIN l}
  <2>1. PICK row : row = [n \in DOMAIN l |-> [by |-> r.by, sku |-> Bundle, value |-> <<n, l[n]>>]]
    OBVIOUS
  <2>2. \A n \in DOMAIN l : row[n].value = <<n, l[n]>>
    BY <2>1
  <2>3. RowsFrom(r.by, l) = {row[n] : n \in DOMAIN l}
    BY <2>1 DEF RowsFrom
  <2> QED BY <2>2, <2>3
<1> QED BY <1>1, <1>2

LEMMA ExtrasInvSuffices == ASSUME ExtrasAssumption, ExtrasInv PROVE ExtrasAsAsked
<1>1. ExtrasTypeOK
  BY DEF ExtrasInv, ExtrasShapes, ExtrasTypeOK
<1>2. ShownAsAsked
  BY ShownIs DEF ExtrasInv, TitleInv, ShownAsAsked
<1>3. OverlapsBounded
  BY ItemListsWhole DEF ExtrasInv, TagsBounded, OverlapsBounded
<1> QED BY <1>1, <1>2, <1>3 DEF ExtrasInv, ExtrasAsAsked

-----------------------------------------------------------------------------
(* Images of variants.                                                     *)

\* What a request still has to do.
NumberedSeqs == {s \in Seq(KnownVariant) : s # <<>> /\ \A i, j \in DOMAIN s : s[i] = s[j] => i = j}
Jobs == [next : NumberedSeqs, data : ImageData, by : Nat, told : BOOLEAN]

WorkOK ==
  /\ updates \in Nat
  /\ work = [w \in Updater |-> work[w]]
  /\ \A w \in Updater :
       \/ work[w] = NoUpdate
       \/ work[w] \in Jobs /\ ToSet(work[w].next) \subseteq DOMAIN work[w].data

AskedOK ==
  /\ images = [v \in KnownVariant |-> images[v]]
  /\ imagesAsked = [v \in KnownVariant |-> imagesAsked[v]]
  /\ \A v \in KnownVariant : imagesAsked[v] = [known |-> imagesAsked[v].known, list |-> imagesAsked[v].list]

\* A list of images.
IsList(list) == Len(list) \in Nat /\ DOMAIN list = 1 .. Len(list)

\* The rows of a list.
ListRows(by, list) == {[by |-> by, priority |-> n, url |-> list[n]] : n \in DOMAIN list}

-----------------------------------------------------------------------------

\* The ids in data that are of variants.
Found(data) == DOMAIN data \cap KnownVariant

LEMMA FoundOK ==
  ASSUME ImagesAssumption, NEW data \in ImageData
  PROVE  /\ IsFiniteSet(Found(data)) /\ \A x \in Found(data) : x \in Nat
         /\ IsFiniteSet(DOMAIN data) /\ \A x \in DOMAIN data : x \in Nat
         /\ \A v \in DOMAIN data : IsList(data[v])
<1>1. DOMAIN data \in SUBSET Nat /\ IsFiniteSet(DOMAIN data)
  BY DEF ImagesAssumption
<1>2. \A v \in DOMAIN data : IsList(data[v])
  BY DEF ImagesAssumption, IsList
<1>3. IsFiniteSet(Found(data))
  <2>1. Found(data) \subseteq DOMAIN data
    BY DEF Found
  <2> QED BY <1>1, <2>1, FS_Subset
<1> QED BY <1>1, <1>2, <1>3 DEF Found

\* What a request starts with: the variants found, each once.
LEMMA FoundListed ==
  ASSUME ImagesAssumption, NEW data \in ImageData, Found(data) # {}
  PROVE  Ascending(Found(data)) \in NumberedSeqs /\ ToSet(Ascending(Found(data))) = Found(data)
<1>1. PICK ids : ids = Found(data)
  OBVIOUS
<1>2. IsFiniteSet(ids) /\ (\A x \in ids : x \in Nat) /\ ids \subseteq KnownVariant
  BY <1>1, FoundOK DEF Found
<1>3. PICK n \in Nat : Counts(n, ids)
  BY <1>2, FS_CardinalityType DEF Counts
<1>4. PICK s : s = Ascending(ids)
  OBVIOUS
<1>5. Lists(s, n, ids)
  BY <1>2, <1>3, <1>4, AscendingLists DEF Counts
<1>6. EachOnce(s, n, ids)
  BY <1>2, <1>3, <1>5, ListsAll
<1>7. /\ s \in [1 .. n -> ids]
      /\ \A i, j \in 1 .. n : s[i] = s[j] => i = j
      /\ \A x \in ids : \E i \in 1 .. n : s[i] = x
  BY <1>6 DEF EachOnce
<1>8. s \in Seq(ids) /\ Len(s) = n
  BY <1>3, <1>7
<1>9. s \in Seq(KnownVariant)
  BY <1>2, <1>8
<1>10. DOMAIN s = 1 .. n
  BY <1>7
<1>11. s # <<>>
  <2>1. PICK x \in ids : TRUE
    BY <1>1
  <2>2. 1 .. n # {}
    BY <1>7, <2>1
  <2> QED BY <1>10, <2>2
<1>12. ToSet(s) = ids
  BY <1>7, <1>10 DEF ToSet
<1> QED BY <1>1, <1>4, <1>7, <1>9, <1>10, <1>11, <1>12 DEF NumberedSeqs

\* A variant is given a list that was sent.
LEMMA GivenIsList ==
  ASSUME ImagesAssumption, NEW data \in ImageData, NEW v \in Found(data)
  PROVE  IsList(GivenTo(v, data))
<1>1. PICK ids : ids = DOMAIN data
  OBVIOUS
<1>2. IsFiniteSet(ids) /\ (\A x \in ids : x \in Nat) /\ v \in ids /\ v \in KnownVariant
  BY <1>1, FoundOK DEF Found
<1>3. PICK n \in Nat : Counts(n, ids)
  BY <1>2, FS_CardinalityType DEF Counts
<1>4. PICK s : s = Ascending(ids)
  OBVIOUS
<1>5. Lists(s, n, ids)
  BY <1>2, <1>3, <1>4, AscendingLists DEF Counts
<1>6. s \in [1 .. n -> ids]
  BY <1>5 DEF Lists
<1>7. PICK up : up = {x \in ids \cap KnownVariant : x <= v}
  OBVIOUS
<1>8. up \subseteq ids /\ v \in up
  BY <1>2, <1>7
<1>9. IsFiniteSet(up) /\ Cardinality(up) <= n /\ Cardinality(up) \in Nat
  BY <1>2, <1>3, <1>8, FS_Subset, FS_CardinalityType DEF Counts
<1>10. Cardinality(up) # 0
  BY <1>8, <1>9, FS_EmptySet
<1>11. PICK c \in 1 .. n : c = Cardinality(up)
  BY <1>9, <1>10
<1>12. GivenTo(v, data) = data[s[c]]
  BY <1>1, <1>4, <1>7, <1>11 DEF GivenTo
<1>13. s[c] \in DOMAIN data
  BY <1>1, <1>6
<1> QED BY <1>12, <1>13, FoundOK

\* Its own, unless an id below is unknown.
LEMMA GivenItsOwn ==
  ASSUME ImagesAssumption, NEW data \in ImageData, NEW v \in Found(data),
         \A x \in DOMAIN data \ KnownVariant : x > v
  PROVE  GivenTo(v, data) = data[v]
<1>1. PICK ids : ids = DOMAIN data
  OBVIOUS
<1>2. IsFiniteSet(ids) /\ (\A x \in ids : x \in Nat) /\ v \in ids /\ v \in KnownVariant
  BY <1>1, FoundOK DEF Found
<1>3. PICK n \in Nat : Counts(n, ids)
  BY <1>2, FS_CardinalityType DEF Counts
<1>4. PICK s : s = Ascending(ids)
  OBVIOUS
<1>5. Lists(s, n, ids)
  BY <1>2, <1>3, <1>4, AscendingLists DEF Counts
<1>6. EachOnce(s, n, ids)
  BY <1>2, <1>3, <1>5, ListsAll
<1>7. PICK i \in 1 .. n : s[i] = v
  BY <1>2, <1>6 DEF EachOnce
<1>8. {x \in ids \cap KnownVariant : x <= v} = {x \in ids : x <= v}
  <2>1. \A x \in ids : x <= v => x \in KnownVariant
    BY <1>1, <1>2
  <2> QED BY <2>1
<1>9. Cardinality(UpTo(ids, s[i])) = i
  BY <1>2, <1>3, <1>5, UpToPlace
<1>10. Cardinality({x \in ids \cap KnownVariant : x <= v}) = i
  BY <1>7, <1>8, <1>9 DEF UpTo
<1> QED BY <1>1, <1>4, <1>7, <1>10 DEF GivenTo

-----------------------------------------------------------------------------

\* The variants a request still has, and those that wait for their images.
Due(w) == ToSet(work[w].next)
Awaits(w, v) == v \in Due(w) /\ (v = Head(work[w].next) => work[w].told)

\* The other requests have what they had, and w has job.
Takes(w, job) == work' = [u \in Updater |-> IF u = w THEN job ELSE work[u]]

LEMMA JobsParts ==
  ASSUME WorkOK, NEW w \in Updater, work[w] # NoUpdate
  PROVE  /\ \E next, data, by, told :
              work[w] = [next |-> next, data |-> data, by |-> by, told |-> told]
         /\ work[w].next \in NumberedSeqs /\ work[w].data \in ImageData
         /\ work[w].by \in Nat /\ work[w].told \in BOOLEAN
         /\ Due(w) \subseteq Found(work[w].data)
<1>1. work[w] \in Jobs /\ ToSet(work[w].next) \subseteq DOMAIN work[w].data
  BY DEF WorkOK
<1>2. work[w] = [next |-> work[w].next, data |-> work[w].data, by |-> work[w].by, told |-> work[w].told]
  BY <1>1 DEF Jobs
<1>3. work[w].next \in NumberedSeqs
  BY <1>1 DEF Jobs
<1>4. ToSet(work[w].next) \subseteq KnownVariant
  <2>1. PICK s : s = work[w].next
    OBVIOUS
  <2>2. s \in Seq(KnownVariant)
    BY <1>3, <2>1 DEF NumberedSeqs
  <2>3. \A i \in DOMAIN s : s[i] \in KnownVariant
    BY <2>2
  <2> QED BY <2>1, <2>3 DEF ToSet
<1> QED BY <1>1, <1>2, <1>4 DEF Jobs, Due, Found

LEMMA NothingDue == ASSUME NEW w, work[w] = NoUpdate PROVE Due(w) = {}
<1>1. work[w].next = <<>>
  BY DEF NoUpdate
<1>2. DOMAIN <<>> = {}
  OBVIOUS
<1> QED BY <1>1, <1>2 DEF Due, ToSet

\* What is first is not among the others.
LEMMA RestOf ==
  ASSUME NEW s \in NumberedSeqs
  PROVE  /\ Head(s) \in ToSet(s) /\ Len(s) \in Nat
         /\ Len(s) = 1 => ToSet(s) = {Head(s)}
         /\ Len(s) # 1 => /\ Tail(s) \in NumberedSeqs
                          /\ ToSet(Tail(s)) = ToSet(s) \ {Head(s)}
<1>1. s \in Seq(KnownVariant) /\ s # <<>> /\ \A i, j \in DOMAIN s : s[i] = s[j] => i = j
  BY DEF NumberedSeqs
<1>2. PICK n \in Nat : n = Len(s)
  BY <1>1
<1>3. DOMAIN s = 1 .. n /\ n # 0 /\ Head(s) = s[1] /\ 1 \in 1 .. n
  BY <1>1, <1>2
<1>4. Head(s) \in ToSet(s)
  BY <1>3 DEF ToSet
<1>5. n = 1 => ToSet(s) = {Head(s)}
  BY <1>3 DEF ToSet
<1>6. ASSUME n # 1
      PROVE  Tail(s) \in NumberedSeqs /\ ToSet(Tail(s)) = ToSet(s) \ {Head(s)}
  <2>1. PICK t : t = Tail(s)
    OBVIOUS
  <2>2. t \in Seq(KnownVariant) /\ Len(t) = n - 1
    BY <1>1, <1>2, <2>1
  <2>3. DOMAIN t = 1 .. (n - 1) /\ \A i \in 1 .. (n - 1) : t[i] = s[i + 1] /\ i + 1 \in 1 .. n
    BY <1>1, <1>2, <2>1, <2>2
  <2>4. \A i, j \in DOMAIN t : t[i] = t[j] => i = j
    BY <1>1, <1>3, <2>3
  <2>5. t # <<>>
    BY <1>3, <1>6, <2>2
  <2>6. ToSet(t) = ToSet(s) \ {Head(s)}
    <3>1. \A x \in ToSet(t) : x \in ToSet(s) /\ x # Head(s)
      BY <1>1, <1>3, <2>3 DEF ToSet
    <3>2. \A x \in ToSet(s) : x # Head(s) => x \in ToSet(t)
      <4>1. TAKE x \in ToSet(s)
      <4>2. HAVE x # Head(s)
      <4>3. PICK i \in 1 .. n : s[i] = x
        BY <1>3 DEF ToSet
      <4>4. i - 1 \in 1 .. (n - 1) /\ (i - 1) + 1 = i
        BY <1>3, <4>2, <4>3
      <4>5. t[i - 1] = x
        BY <2>3, <4>3, <4>4
      <4> QED BY <2>3, <4>4, <4>5 DEF ToSet
    <3> QED BY <3>1, <3>2
  <2> QED BY <2>1, <2>2, <2>4, <2>5, <2>6 DEF NumberedSeqs
<1> QED BY <1>2, <1>4, <1>5, <1>6

-----------------------------------------------------------------------------

\* What a request begins with.
LEMMA DeleteJob ==
  ASSUME ImagesAssumption, WorkOK, AskedOK, NEW w \in Updater, NEW data \in ImageData, DeleteImages(w, data)
  PROVE  \E job :
           /\ Takes(w, job) /\ work[w] = NoUpdate
           /\ job = NoUpdate \/ (job \in Jobs /\ job.data = data /\ job.told)
           /\ ToSet(job.next) = Found(data)
           /\ \A v \in KnownVariant \ DOMAIN data :
                images'[v] = images[v] /\ imagesAsked'[v] = imagesAsked[v]
           /\ \A v \in Found(data) :
                /\ images'[v] = {} /\ imagesAsked'[v].list = <<>>
                /\ imagesAsked'[v].known =>
                     (\A u \in Updater : v \notin Due(u)) /\ \A x \in DOMAIN data \ KnownVariant : x > v
           /\ updates' = updates + 1
<1>1. PICK job : job = IF Found(data) = {} THEN NoUpdate
                       ELSE [next |-> Ascending(Found(data)), data |-> data, by |-> updates', told |-> TRUE]
  OBVIOUS
<1>2. Takes(w, job)
  BY <1>1 DEF DeleteImages, Found, WorkOK, Takes
<1>3. job = NoUpdate \/ (job \in Jobs /\ job.data = data /\ job.told)
  <2>1. updates' \in Nat
    BY DEF DeleteImages, WorkOK
  <2>2. PICK s : s = Ascending(Found(data))
    OBVIOUS
  <2>3. Found(data) # {} => s \in NumberedSeqs
    BY <2>2, FoundListed
  <2> QED BY <1>1, <2>1, <2>2, <2>3 DEF Jobs
<1>4. ToSet(job.next) = Found(data)
  <2>1. CASE Found(data) = {}
    <3>1. job.next = <<>> /\ DOMAIN <<>> = {}
      BY <1>1, <2>1 DEF NoUpdate
    <3> QED BY <2>1, <3>1 DEF ToSet
  <2>2. CASE Found(data) # {}
    <3>1. job.next = Ascending(Found(data))
      BY <1>1, <2>2
    <3> QED BY <2>2, <3>1, FoundListed
  <2> QED BY <2>1, <2>2
<1>5. /\ images' = [v \in KnownVariant |-> IF v \in DOMAIN data THEN {} ELSE images[v]]
      /\ imagesAsked' = [v \in KnownVariant |->
           IF v \notin DOMAIN data THEN imagesAsked[v]
           ELSE [known |-> /\ \A u \in Updater : v \notin ToSet(work[u].next)
                           /\ \A x \in DOMAIN data \ KnownVariant : x > v,
                 list |-> <<>>]]
  BY DEF DeleteImages
<1>6. \A v \in KnownVariant \ DOMAIN data : images'[v] = images[v] /\ imagesAsked'[v] = imagesAsked[v]
  BY <1>5
<1>7. \A v \in Found(data) :
        /\ images'[v] = {} /\ imagesAsked'[v].list = <<>>
        /\ imagesAsked'[v].known =>
             (\A u \in Updater : v \notin Due(u)) /\ \A x \in DOMAIN data \ KnownVariant : x > v
  BY <1>5 DEF Found, Due
<1> QED BY <1>2, <1>3, <1>4, <1>6, <1>7 DEF DeleteImages

\* What a request does next.
LEMMA InsertJob ==
  ASSUME ImagesAssumption, WorkOK, AskedOK, NEW w \in Updater, InsertImages(w)
  PROVE  \E job, v, list :
           /\ Takes(w, job) /\ work[w] # NoUpdate /\ work[w].told
           /\ job \in Jobs /\ job.next = work[w].next /\ job.data = work[w].data /\ ~job.told
           /\ v = Head(work[w].next) /\ v \in Due(w) /\ list = GivenTo(v, work[w].data)
           /\ images' = [images EXCEPT ![v] = @ \cup ListRows(work[w].by, list)]
           /\ imagesAsked' = [imagesAsked EXCEPT ![v].list = work[w].data[v]]
           /\ untold' = untold \cup {v} /\ UNCHANGED <<updates, diedUpdating>>
<1>1. work[w] # NoUpdate /\ work[w].told
  BY DEF InsertImages
<1>2. PICK next, data, by, told : work[w] = [next |-> next, data |-> data, by |-> by, told |-> told]
  BY <1>1, JobsParts
<1>3. next \in NumberedSeqs /\ data \in ImageData /\ by \in Nat
  <2>1. work[w].next = next /\ work[w].data = data /\ work[w].by = by
    BY <1>2
  <2>2. work[w].next \in NumberedSeqs /\ work[w].data \in ImageData /\ work[w].by \in Nat
    BY <1>1, JobsParts
  <2> QED BY <2>1, <2>2
<1>4. PICK job : job = [next |-> next, data |-> data, by |-> by, told |-> FALSE]
  OBVIOUS
<1>5. job \in Jobs /\ job.next = next /\ job.data = data /\ ~job.told
  BY <1>3, <1>4 DEF Jobs
<1>6. Takes(w, job)
  <2> PICK no : no = FALSE
    OBVIOUS
  <2>1. [[next |-> next, data |-> data, by |-> by, told |-> told] EXCEPT !.told = no]
          = [next |-> next, data |-> data, by |-> by, told |-> no]
    OBVIOUS
  <2>2. work' = [work EXCEPT ![w].told = FALSE]
    BY DEF InsertImages
  <2> QED BY <1>2, <1>4, <2>1, <2>2 DEF WorkOK, Takes
<1>7. PICK v : v = Head(next)
  OBVIOUS
<1>8. PICK list : list = GivenTo(v, data)
  OBVIOUS
<1>9. v \in Due(w)
  BY <1>2, <1>3, <1>7, RestOf DEF Due
<1>10. /\ images' = [images EXCEPT ![v] = @ \cup ListRows(by, list)]
       /\ imagesAsked' = [imagesAsked EXCEPT ![v].list = data[v]]
       /\ untold' = untold \cup {v} /\ UNCHANGED <<updates, diedUpdating>>
  BY <1>2, <1>7, <1>8 DEF InsertImages, ListRows
<1>11. work[w].next = next /\ work[w].data = data /\ work[w].by = by
  BY <1>2
<1> QED BY <1>1, <1>5, <1>6, <1>7, <1>8, <1>9, <1>10, <1>11, Zenon

\* The signals are sent and the variant is done.
LEMMA TellJob ==
  ASSUME ImagesAssumption, WorkOK, NEW w \in Updater, Tell(w)
  PROVE  \E job, v :
           /\ Takes(w, job) /\ work[w] # NoUpdate /\ ~work[w].told
           /\ job = NoUpdate \/ (job \in Jobs /\ job.data = work[w].data /\ job.told)
           /\ v = Head(work[w].next) /\ v \in Due(w) /\ ToSet(job.next) = Due(w) \ {v}
           /\ untold' = untold \ {v} /\ UNCHANGED <<images, updates, imagesAsked, diedUpdating>>
<1>1. work[w] # NoUpdate /\ ~work[w].told
  BY DEF Tell
<1>2. PICK next, data, by, told : work[w] = [next |-> next, data |-> data, by |-> by, told |-> told]
  BY <1>1, JobsParts
<1>3. next \in NumberedSeqs /\ data \in ImageData /\ by \in Nat /\ Due(w) = ToSet(next)
  BY <1>1, <1>2, JobsParts DEF Due
<1>4. PICK t : t = Tail(next)
  OBVIOUS
<1>5. PICK job : job = IF Len(next) = 1 THEN NoUpdate
                       ELSE [next |-> t, data |-> data, by |-> by, told |-> TRUE]
  OBVIOUS
<1>6. Takes(w, job)
  <2>1. \A yes : [[next |-> next, data |-> data, by |-> by, told |-> told] EXCEPT !.next = t, !.told = yes]
                   = [next |-> t, data |-> data, by |-> by, told |-> yes]
    <3> TAKE yes
    <3>1. [[next |-> next, data |-> data, by |-> by, told |-> told] EXCEPT !.next = t]
            = [next |-> t, data |-> data, by |-> by, told |-> told]
      OBVIOUS
    <3>2. [[next |-> t, data |-> data, by |-> by, told |-> told] EXCEPT !.told = yes]
            = [next |-> t, data |-> data, by |-> by, told |-> yes]
      OBVIOUS
    <3> QED BY <3>1, <3>2
  <2>2. work' = [work EXCEPT ![w] = IF Len(work[w].next) = 1 THEN NoUpdate
                   ELSE [work[w] EXCEPT !.next = Tail(work[w].next), !.told = TRUE]]
    BY DEF Tell
  <2>3. work[w].next = next
    BY <1>2
  <2>4. work' = [work EXCEPT ![w] = job]
    BY <1>2, <1>4, <1>5, <2>1, <2>2, <2>3
  <2> QED BY <2>4 DEF WorkOK, Takes
<1>7. PICK v : v = Head(next)
  OBVIOUS
<1>8. v \in Due(w)
  BY <1>3, <1>7, RestOf
<1>9. CASE Len(next) = 1
  <2>1. job = NoUpdate /\ job.next = <<>>
    BY <1>5, <1>9 DEF NoUpdate
  <2>2. ToSet(job.next) = {} /\ Due(w) = {v}
    BY <1>3, <1>7, <1>9, <2>1, RestOf DEF ToSet
  <2> QED BY <1>1, <1>2, <1>6, <1>7, <1>8, <2>1, <2>2 DEF Tell
<1>10. CASE Len(next) # 1
  <2>1. t \in NumberedSeqs /\ ToSet(t) = Due(w) \ {v}
    BY <1>3, <1>4, <1>7, <1>10, RestOf
  <2>2. job \in Jobs /\ job.data = data /\ job.told /\ job.next = t
    BY <1>3, <1>5, <1>10, <2>1 DEF Jobs
  <2> QED BY <1>1, <1>2, <1>6, <1>7, <1>8, <2>1, <2>2 DEF Tell
<1> QED BY <1>9, <1>10

LEMMA DieJob ==
  ASSUME WorkOK, NEW w \in Updater, DieUpdating(w)
  PROVE  Takes(w, NoUpdate) /\ diedUpdating' = TRUE /\ UNCHANGED <<images, updates, imagesAsked, untold>>
BY DEF DieUpdating, WorkOK, Takes

-----------------------------------------------------------------------------

\* Two requests for a variant overlap if both have it; the images of one whose
\* requests did not are those of one list, or none before they are inserted.
DueOnce(v) == \A u1, u2 \in Updater : v \in Due(u1) /\ v \in Due(u2) => u1 = u2
Waiting(v) ==
  \A u \in Updater : Awaits(u, v) =>
    /\ images[v] = {} /\ imagesAsked[v].list = <<>>
    /\ GivenTo(v, work[u].data) = work[u].data[v]
OfOneList(v) ==
  /\ IsList(imagesAsked[v].list)
  /\ \E by : images[v] = ListRows(by, imagesAsked[v].list)
ImageFollows(v) == imagesAsked[v].known => DueOnce(v) /\ Waiting(v) /\ OfOneList(v)

\* The rows of a list are there from the first one on.
ImagesWhole(v) ==
  \A r \in images[v] : \A n \in 1 .. r.priority : \E x \in images[v] : x.by = r.by /\ x.priority = n

ImageInv ==
  /\ WorkOK /\ AskedOK /\ ImagesTold
  /\ \A v \in KnownVariant : ImageFollows(v) /\ ImagesWhole(v)

LEMMA NoRows ==
  IsList(<<>>) /\ \A by : ListRows(by, <<>>) = {}
<1>1. Len(<<>>) = 0 /\ DOMAIN <<>> = {} /\ 1 .. 0 = {}
  OBVIOUS
<1> QED BY <1>1 DEF IsList, ListRows

LEMMA ImageInvHolds ==
  ASSUME ImagesAssumption, ImageInit
  PROVE  ImageInv
<1>1. WorkOK
  BY DEF ImageInit, WorkOK
<1>2. AskedOK
  BY DEF ImageInit, AskedOK
<1>3. ImagesTold
  BY DEF ImageInit, ImagesTold
<1>4. \A u \in Updater : Due(u) = {}
  <2>1. TAKE u \in Updater
  <2>2. work[u] = NoUpdate
    BY DEF ImageInit
  <2> QED BY <2>2, NothingDue
<1>5. \A v \in KnownVariant : images[v] = {} /\ imagesAsked[v].list = <<>>
  BY DEF ImageInit
<1>6. \A v \in KnownVariant : ImageFollows(v) /\ ImagesWhole(v)
  BY <1>4, <1>5, NoRows DEF ImageFollows, DueOnce, Waiting, Awaits, OfOneList, ImagesWhole
<1> QED BY <1>1, <1>2, <1>3, <1>6 DEF ImageInv

LEMMA ImagesUnchanged ==
  ASSUME ImageInv, UNCHANGED imageVars
  PROVE  ImageInv'
BY DEF ImageInv, imageVars, WorkOK, AskedOK, ImagesTold, ImageFollows, DueOnce, Waiting, Awaits, Due,
       OfOneList, ImagesWhole

\* What the requests have once one takes job.
LEMMA AfterTakes ==
  ASSUME NEW w \in Updater, NEW job, Takes(w, job)
  PROVE  /\ work'[w] = job /\ Due(w)' = ToSet(job.next)
         /\ \A u \in Updater \ {w} : work'[u] = work[u] /\ Due(u)' = Due(u)
BY DEF Takes, Due

LEMMA WorkStaysOK ==
  ASSUME WorkOK, NEW w \in Updater, NEW job, Takes(w, job), updates' \in Nat,
         job = NoUpdate \/ (job \in Jobs /\ ToSet(job.next) \subseteq DOMAIN job.data)
  PROVE  WorkOK'
BY DEF WorkOK, Takes

\* A variant that a step leaves as it is.
LEMMA FollowsOn ==
  ASSUME NEW v \in KnownVariant, ImageFollows(v),
         imagesAsked'[v] = imagesAsked[v], images'[v] = images[v],
         \A u \in Updater : v \in Due(u)' => v \in Due(u),
         \A u \in Updater : Awaits(u, v)' => Awaits(u, v) /\ work'[u].data = work[u].data
  PROVE  ImageFollows(v)'
<1>1. SUFFICES ASSUME imagesAsked'[v].known
               PROVE  DueOnce(v)' /\ Waiting(v)' /\ OfOneList(v)'
  BY DEF ImageFollows
<1>2. DueOnce(v) /\ Waiting(v) /\ OfOneList(v)
  BY <1>1 DEF ImageFollows
<1>3. DueOnce(v)'
  BY <1>2 DEF DueOnce
<1>4. Waiting(v)'
  BY <1>2 DEF Waiting
<1>5. OfOneList(v)'
  BY <1>2 DEF OfOneList
<1> QED BY <1>3, <1>4, <1>5

LEMMA ToldOn ==
  ASSUME ImagesTold, NEW w \in Updater, NEW more, untold' = untold \cup more,
         \A v \in more : v \in Due(w)',
         \A u \in Updater : Due(u) \subseteq Due(u)', UNCHANGED diedUpdating
  PROVE  ImagesTold'
BY DEF ImagesTold, Due

-----------------------------------------------------------------------------

LEMMA DeleteKeeps ==
  ASSUME ImagesAssumption, ImageInv, NEW w \in Updater, NEW data \in ImageData, DeleteImages(w, data)
  PROVE  ImageInv'
<1>1. WorkOK /\ AskedOK /\ ImagesTold
  BY DEF ImageInv
<1>2. PICK job :
        /\ Takes(w, job) /\ work[w] = NoUpdate
        /\ job = NoUpdate \/ (job \in Jobs /\ job.data = data /\ job.told)
        /\ ToSet(job.next) = Found(data)
        /\ \A v \in KnownVariant \ DOMAIN data :
             images'[v] = images[v] /\ imagesAsked'[v] = imagesAsked[v]
        /\ \A v \in Found(data) :
             /\ images'[v] = {} /\ imagesAsked'[v].list = <<>>
             /\ imagesAsked'[v].known =>
                  (\A u \in Updater : v \notin Due(u)) /\ \A x \in DOMAIN data \ KnownVariant : x > v
        /\ updates' = updates + 1
  BY <1>1, DeleteJob, Zenon
<1>3. /\ work'[w] = job /\ Due(w)' = Found(data)
      /\ \A u \in Updater \ {w} : work'[u] = work[u] /\ Due(u)' = Due(u)
  BY <1>2, AfterTakes
<1>4. Due(w) = {}
  BY <1>2, NothingDue
<1>5. WorkOK'
  <2>1. updates' \in Nat
    BY <1>1, <1>2 DEF WorkOK
  <2>2. Found(data) \subseteq DOMAIN data
    BY DEF Found
  <2> QED BY <1>1, <1>2, <2>1, <2>2, WorkStaysOK
<1>6. AskedOK'
  <2>1. images' = [v \in KnownVariant |-> images'[v]]
    BY DEF DeleteImages
  <2>2. imagesAsked' = [v \in KnownVariant |-> imagesAsked'[v]]
    BY DEF DeleteImages
  <2>3. \A v \in KnownVariant :
          imagesAsked'[v] = [known |-> imagesAsked'[v].known, list |-> imagesAsked'[v].list]
    BY <1>1 DEF DeleteImages, AskedOK
  <2> QED BY <2>1, <2>2, <2>3 DEF AskedOK
<1>7. ImagesTold'
  <2>1. PICK more : more = {v \in KnownVariant : images'[v] # images[v]}
    OBVIOUS
  <2>2. untold' = untold \cup more /\ UNCHANGED diedUpdating
    BY <2>1 DEF DeleteImages
  <2>3. \A v \in more : v \in Due(w)'
    BY <1>2, <1>3, <2>1 DEF Found
  <2>4. \A u \in Updater : Due(u) \subseteq Due(u)'
    BY <1>3, <1>4
  <2> QED BY <1>1, <2>2, <2>3, <2>4, ToldOn
<1>8. ASSUME NEW v \in KnownVariant \ DOMAIN data
      PROVE  ImageFollows(v)' /\ ImagesWhole(v)'
  <2>1. ImageFollows(v) /\ ImagesWhole(v) /\ v \notin Found(data)
    BY DEF ImageInv, Found
  <2>2. \A u \in Updater : v \in Due(u)' => u # w /\ v \in Due(u)
    BY <1>3, <2>1
  <2>3. \A u \in Updater : Awaits(u, v)' => Awaits(u, v) /\ work'[u].data = work[u].data
    <3>1. \A u \in Updater : Awaits(u, v)' => u # w
      BY <2>2 DEF Awaits
    <3> QED BY <1>3, <3>1 DEF Awaits
  <2>4. ImageFollows(v)'
    BY <1>2, <2>1, <2>2, <2>3, FollowsOn
  <2> QED BY <1>2, <2>1, <2>4 DEF ImagesWhole
<1>9. ASSUME NEW v \in Found(data)
      PROVE  ImageFollows(v)' /\ ImagesWhole(v)'
  <2>1. ASSUME imagesAsked'[v].known
        PROVE  DueOnce(v)' /\ Waiting(v)' /\ OfOneList(v)'
    <3>1. (\A u \in Updater : v \notin Due(u)) /\ \A x \in DOMAIN data \ KnownVariant : x > v
      BY <1>2, <2>1
    <3>2. \A u \in Updater : v \in Due(u)' => u = w
      BY <1>3, <3>1
    <3>3. DueOnce(v)'
      BY <3>2 DEF DueOnce
    <3>4. GivenTo(v, data) = data[v]
      BY <3>1, GivenItsOwn
    <3>5. work'[w].data = data
      BY <1>2, <1>3, FoundListed DEF NoUpdate, ToSet
    <3>6. Waiting(v)'
      BY <1>2, <3>2, <3>4, <3>5 DEF Waiting, Awaits
    <3>7. OfOneList(v)'
      BY <1>2, NoRows DEF OfOneList
    <3> QED BY <3>3, <3>6, <3>7
  <2>2. ImageFollows(v)'
    BY <2>1 DEF ImageFollows
  <2> QED BY <1>2, <2>2 DEF ImagesWhole
<1>10. \A v \in KnownVariant : ImageFollows(v)' /\ ImagesWhole(v)'
  BY <1>8, <1>9 DEF Found
<1> QED BY <1>5, <1>6, <1>7, <1>10 DEF ImageInv

\* A list with all its rows is whole.
LEMMA ListWhole ==
  ASSUME NEW list, IsList(list), NEW by, NEW r \in ListRows(by, list), NEW n \in 1 .. r.priority
  PROVE  \E x \in ListRows(by, list) : x.by = r.by /\ x.priority = n
<1>1. PICK m \in DOMAIN list : r = [by |-> by, priority |-> m, url |-> list[m]]
  BY DEF ListRows
<1>2. n \in DOMAIN list
  BY <1>1 DEF IsList
<1>3. PICK x : x = [by |-> by, priority |-> n, url |-> list[n]]
  OBVIOUS
<1>4. x \in ListRows(by, list) /\ x.by = r.by /\ x.priority = n
  BY <1>1, <1>2, <1>3 DEF ListRows
<1> QED BY <1>4

LEMMA InsertKeeps ==
  ASSUME ImagesAssumption, ImageInv, NEW w \in Updater, InsertImages(w)
  PROVE  ImageInv'
<1>1. WorkOK /\ AskedOK /\ ImagesTold
  BY DEF ImageInv
<1>2. PICK job, v, list :
        /\ Takes(w, job) /\ work[w] # NoUpdate /\ work[w].told
        /\ job \in Jobs /\ job.next = work[w].next /\ job.data = work[w].data /\ ~job.told
        /\ v = Head(work[w].next) /\ v \in Due(w) /\ list = GivenTo(v, work[w].data)
        /\ images' = [images EXCEPT ![v] = @ \cup ListRows(work[w].by, list)]
        /\ imagesAsked' = [imagesAsked EXCEPT ![v].list = work[w].data[v]]
        /\ untold' = untold \cup {v} /\ UNCHANGED <<updates, diedUpdating>>
  BY <1>1, InsertJob, Zenon
<1>3. PICK data : data = work[w].data
  OBVIOUS
<1>4. data \in ImageData /\ Due(w) \subseteq Found(data)
  BY <1>1, <1>2, <1>3, JobsParts
<1>5. v \in Found(data) /\ v \in KnownVariant /\ v \in DOMAIN data
  BY <1>2, <1>4 DEF Found
<1>6. /\ work'[w] = job /\ Due(w)' = Due(w)
      /\ \A u \in Updater \ {w} : work'[u] = work[u] /\ Due(u)' = Due(u)
  BY <1>2, AfterTakes DEF Due
<1>7. /\ images'[v] = images[v] \cup ListRows(work[w].by, list)
      /\ \A x \in KnownVariant \ {v} : images'[x] = images[x]
      /\ images' = [x \in KnownVariant |-> images'[x]]
  BY <1>1, <1>2, <1>5 DEF AskedOK
<1>8. PICK sent : sent = data[v]
  OBVIOUS
<1>9. /\ imagesAsked'[v] = [known |-> imagesAsked[v].known, list |-> sent]
      /\ \A x \in KnownVariant \ {v} : imagesAsked'[x] = imagesAsked[x]
      /\ imagesAsked' = [x \in KnownVariant |-> imagesAsked'[x]]
  <2>1. PICK known, was : imagesAsked[v] = [known |-> known, list |-> was]
    BY <1>1, <1>5 DEF AskedOK
  <2>2. [[known |-> known, list |-> was] EXCEPT !.list = sent] = [known |-> known, list |-> sent]
    OBVIOUS
  <2>3. imagesAsked' = [imagesAsked EXCEPT ![v].list = sent]
    BY <1>2, <1>3, <1>8
  <2> QED BY <1>1, <1>5, <2>1, <2>2, <2>3 DEF AskedOK
<1>10. WorkOK'
  <2>1. ToSet(job.next) \subseteq DOMAIN job.data
    BY <1>2, <1>3, <1>4 DEF Due, Found
  <2> QED BY <1>1, <1>2, <2>1, WorkStaysOK DEF WorkOK
<1>11. AskedOK'
  <2>1. \A x \in KnownVariant :
          imagesAsked'[x] = [known |-> imagesAsked'[x].known, list |-> imagesAsked'[x].list]
    BY <1>1, <1>9 DEF AskedOK
  <2> QED BY <1>7, <1>9, <2>1 DEF AskedOK
<1>12. ImagesTold'
  <2>1. PICK more : more = {v}
    OBVIOUS
  <2>2. untold' = untold \cup more /\ UNCHANGED diedUpdating
    BY <1>2, <2>1
  <2>3. \A x \in more : x \in Due(w)'
    BY <1>2, <1>6, <2>1
  <2>4. \A u \in Updater : Due(u) \subseteq Due(u)'
    BY <1>6
  <2> QED BY <1>1, <2>2, <2>3, <2>4, ToldOn
<1>13. ASSUME NEW x \in KnownVariant \ {v}
       PROVE  ImageFollows(x)' /\ ImagesWhole(x)'
  <2>1. ImageFollows(x) /\ ImagesWhole(x)
    BY DEF ImageInv
  <2>2. \A u \in Updater : x \in Due(u)' => x \in Due(u)
    BY <1>6
  <2>3. \A u \in Updater : Awaits(u, x)' => Awaits(u, x) /\ work'[u].data = work[u].data
    BY <1>2, <1>6 DEF Awaits
  <2>4. ImageFollows(x)'
    BY <1>7, <1>9, <2>1, <2>2, <2>3, FollowsOn
  <2> QED BY <1>7, <2>1, <2>4 DEF ImagesWhole
<1>14. ImageFollows(v)'
  <2>1. SUFFICES ASSUME imagesAsked'[v].known
                 PROVE  DueOnce(v)' /\ Waiting(v)' /\ OfOneList(v)'
    BY DEF ImageFollows
  <2>2. imagesAsked[v].known
    BY <1>9, <2>1
  <2>3. DueOnce(v) /\ Waiting(v)
    BY <1>5, <2>2 DEF ImageInv, ImageFollows
  <2>4. DueOnce(v)'
    BY <1>6, <2>3 DEF DueOnce
  <2>5. Waiting(v)'
    <3>1. \A u \in Updater : v \in Due(u)' => u = w
      BY <1>2, <1>6, <2>3 DEF DueOnce
    <3>2. ~Awaits(w, v)'
      BY <1>2, <1>6 DEF Awaits
    <3>3. \A u \in Updater : ~Awaits(u, v)'
      BY <3>1, <3>2 DEF Awaits
    <3> QED BY <3>3 DEF Waiting
  <2>6. images[v] = {} /\ list = sent
    BY <1>2, <1>3, <1>8, <2>3 DEF Waiting, Awaits
  <2>7. IsList(sent)
    BY <1>4, <1>5, <1>8, FoundOK
  <2>8. images'[v] = ListRows(work[w].by, sent) /\ imagesAsked'[v].list = sent
    BY <1>7, <1>9, <2>6
  <2>9. OfOneList(v)'
    BY <2>7, <2>8 DEF OfOneList
  <2> QED BY <2>4, <2>5, <2>9
<1>15. ImagesWhole(v)'
  <2>1. IsList(list)
    BY <1>2, <1>3, <1>4, <1>5, GivenIsList
  <2>2. ImagesWhole(v)
    BY <1>5 DEF ImageInv
  <2>3. ASSUME NEW r \in images'[v], NEW n \in 1 .. r.priority
        PROVE  \E x \in images'[v] : x.by = r.by /\ x.priority = n
    <3>1. CASE r \in images[v]
      BY <1>7, <2>2, <3>1 DEF ImagesWhole
    <3>2. CASE r \in ListRows(work[w].by, list)
      BY <1>7, <2>1, <3>2, ListWhole
    <3> QED BY <1>7, <3>1, <3>2
  <2> QED BY <2>3 DEF ImagesWhole
<1>16. \A x \in KnownVariant : ImageFollows(x)' /\ ImagesWhole(x)'
  BY <1>13, <1>14, <1>15
<1> QED BY <1>10, <1>11, <1>12, <1>16 DEF ImageInv

LEMMA TellKeeps ==
  ASSUME ImagesAssumption, ImageInv, NEW w \in Updater, Tell(w)
  PROVE  ImageInv'
<1>1. WorkOK /\ AskedOK /\ ImagesTold
  BY DEF ImageInv
<1>2. PICK job, v :
        /\ Takes(w, job) /\ work[w] # NoUpdate /\ ~work[w].told
        /\ job = NoUpdate \/ (job \in Jobs /\ job.data = work[w].data /\ job.told)
        /\ v = Head(work[w].next) /\ v \in Due(w) /\ ToSet(job.next) = Due(w) \ {v}
        /\ untold' = untold \ {v} /\ UNCHANGED <<images, updates, imagesAsked, diedUpdating>>
  BY <1>1, TellJob, Zenon
<1>3. /\ work'[w] = job /\ Due(w)' = Due(w) \ {v}
      /\ \A u \in Updater \ {w} : work'[u] = work[u] /\ Due(u)' = Due(u)
  BY <1>2, AfterTakes
<1>4. WorkOK'
  <2>1. Due(w) \subseteq DOMAIN work[w].data
    BY <1>1, <1>2, JobsParts DEF Found
  <2> QED BY <1>1, <1>2, <2>1, WorkStaysOK DEF WorkOK
<1>5. AskedOK'
  BY <1>1, <1>2 DEF AskedOK
<1>6. ImagesTold'
  <2>1. \A x \in untold' : diedUpdating' \/ \E u \in Updater : x \in Due(u)'
    BY <1>1, <1>2, <1>3 DEF ImagesTold, Due
  <2> QED BY <2>1 DEF ImagesTold, Due
<1>7. ASSUME NEW x \in KnownVariant
      PROVE  ImageFollows(x)' /\ ImagesWhole(x)'
  <2>1. ImageFollows(x) /\ ImagesWhole(x)
    BY DEF ImageInv
  <2>2. \A u \in Updater : x \in Due(u)' => x \in Due(u)
    BY <1>3
  <2>3. \A u \in Updater : Awaits(u, x)' => Awaits(u, x) /\ work'[u].data = work[u].data
    <3>1. TAKE u \in Updater
    <3>2. HAVE Awaits(u, x)'
    <3>3. x \in Due(u)'
      BY <3>2 DEF Awaits
    <3>4. CASE u = w
      <4>1. x \in Due(w) /\ x # v
        BY <1>3, <3>3, <3>4
      <4>2. job # NoUpdate
        BY <1>3, <3>3, <3>4, NothingDue DEF NoUpdate, Due, ToSet
      <4> QED BY <1>2, <1>3, <3>4, <4>1, <4>2 DEF Awaits
    <3>5. CASE u # w
      BY <1>3, <3>2, <3>5 DEF Awaits
    <3> QED BY <3>4, <3>5
  <2>4. ImageFollows(x)'
    BY <1>2, <2>1, <2>2, <2>3, FollowsOn
  <2> QED BY <1>2, <2>1, <2>4 DEF ImagesWhole
<1> QED BY <1>4, <1>5, <1>6, <1>7 DEF ImageInv

LEMMA DieKeeps ==
  ASSUME ImagesAssumption, ImageInv, NEW w \in Updater, DieUpdating(w)
  PROVE  ImageInv'
<1>1. WorkOK /\ AskedOK
  BY DEF ImageInv
<1>2. /\ Takes(w, NoUpdate) /\ diedUpdating' = TRUE
      /\ UNCHANGED <<images, updates, imagesAsked, untold>>
  BY <1>1, DieJob
<1>3. /\ Due(w)' = {}
      /\ \A u \in Updater \ {w} : work'[u] = work[u] /\ Due(u)' = Due(u)
  <2>1. ToSet(NoUpdate.next) = {}
    BY DEF NoUpdate, ToSet
  <2> QED BY <1>2, <2>1, AfterTakes
<1>4. WorkOK'
  BY <1>1, <1>2, WorkStaysOK DEF WorkOK
<1>5. AskedOK'
  BY <1>1, <1>2 DEF AskedOK
<1>6. ImagesTold'
  BY <1>2 DEF ImagesTold
<1>7. ASSUME NEW x \in KnownVariant
      PROVE  ImageFollows(x)' /\ ImagesWhole(x)'
  <2>1. ImageFollows(x) /\ ImagesWhole(x)
    BY DEF ImageInv
  <2>2. \A u \in Updater : x \in Due(u)' => u # w /\ x \in Due(u)
    BY <1>3
  <2>3. \A u \in Updater : Awaits(u, x)' => Awaits(u, x) /\ work'[u].data = work[u].data
    <3>1. \A u \in Updater : Awaits(u, x)' => u # w
      BY <2>2 DEF Awaits
    <3> QED BY <1>3, <3>1 DEF Awaits
  <2>4. ImageFollows(x)'
    BY <1>2, <2>1, <2>2, <2>3, FollowsOn
  <2> QED BY <1>2, <2>1, <2>4 DEF ImagesWhole
<1> QED BY <1>4, <1>5, <1>6, <1>7 DEF ImageInv

LEMMA ImageInvStays ==
  ASSUME ImagesAssumption, ImageInv, ImageNext
  PROVE  ImageInv'
<1>1. PICK w \in Updater :
        (\E data \in ImageData : DeleteImages(w, data)) \/ InsertImages(w) \/ Tell(w) \/ DieUpdating(w)
  BY DEF ImageNext
<1>2. CASE \E data \in ImageData : DeleteImages(w, data)
  BY <1>2, DeleteKeeps
<1>3. CASE InsertImages(w)
  BY <1>3, InsertKeeps
<1>4. CASE Tell(w)
  BY <1>4, TellKeeps
<1>5. CASE DieUpdating(w)
  BY <1>5, DieKeeps
<1> QED BY <1>1, <1>2, <1>3, <1>4, <1>5

-----------------------------------------------------------------------------

\* A list has as many rows as images.
LEMMA RowsCounted ==
  ASSUME NEW list, IsList(list), NEW by
  PROVE  Cardinality(ListRows(by, list)) = Len(list)
<1>1. PICK n \in Nat : n = Len(list) /\ DOMAIN list = 1 .. n
  BY DEF IsList
<1>2. PICK rows : rows = ListRows(by, list)
  OBVIOUS
<1>3. PICK f : f = [i \in 1 .. n |-> [by |-> by, priority |-> i, url |-> list[i]]]
  OBVIOUS
<1>4. \A i \in 1 .. n : f[i] \in rows /\ f[i].priority = i
  BY <1>1, <1>2, <1>3 DEF ListRows
<1>5. f \in [1 .. n -> rows] /\ \A i, j \in 1 .. n : f[i] = f[j] => i = j
  BY <1>3, <1>4
<1>6. \A r \in rows : \E i \in 1 .. n : f[i] = r
  BY <1>1, <1>2, <1>3 DEF ListRows
<1>7. ExistsBijection(1 .. n, rows)
  BY <1>5, <1>6 DEF ExistsBijection, Bijection, Injection, Surjection, IsInjective
<1>8. IsFiniteSet(1 .. n) /\ Cardinality(1 .. n) = n
  <2>1. n - 1 + 1 = n /\ 1 \in Int /\ n \in Int
    OBVIOUS
  <2> QED BY <2>1, FS_Interval
<1>9. Cardinality(rows) = n
  BY <1>7, <1>8, FS_Bijection
<1> QED BY <1>1, <1>2, <1>9

LEMMA ImageInvSuffices ==
  ASSUME ImageInv
  PROVE  ImagesAsAsked /\ ImagesTold
<1>1. ASSUME NEW v \in KnownVariant, imagesAsked[v].known
      PROVE  /\ {<<r.priority, r.url>> : r \in images[v]}
                  = {<<n, imagesAsked[v].list[n]>> : n \in DOMAIN imagesAsked[v].list}
             /\ Cardinality(images[v]) = Len(imagesAsked[v].list)
  <2>1. PICK list : list = imagesAsked[v].list
    OBVIOUS
  <2>2. PICK by : IsList(list) /\ images[v] = ListRows(by, list)
    BY <1>1, <2>1 DEF ImageInv, ImageFollows, OfOneList
  <2>3. {<<r.priority, r.url>> : r \in images[v]} = {<<n, list[n]>> : n \in DOMAIN list}
    <3>1. ASSUME NEW r \in images[v]
          PROVE  \E n \in DOMAIN list : <<r.priority, r.url>> = <<n, list[n]>>
      BY <2>2 DEF ListRows
    <3>2. ASSUME NEW n \in DOMAIN list
          PROVE  \E r \in images[v] : <<n, list[n]>> = <<r.priority, r.url>>
      <4>1. PICK r : r = [by |-> by, priority |-> n, url |-> list[n]]
        OBVIOUS
      <4>2. r \in images[v] /\ r.priority = n /\ r.url = list[n]
        BY <2>2, <4>1 DEF ListRows
      <4> QED BY <4>2
    <3> QED BY <3>1, <3>2
  <2> QED BY <2>1, <2>2, <2>3, RowsCounted
<1>2. \A v \in KnownVariant : ImagesWhole(v)
  BY DEF ImageInv
<1> QED BY <1>1, <1>2 DEF ImagesAsAsked, ImagesWhole, ImageInv

-----------------------------------------------------------------------------

\* What requests attach to SKUs and variants is what they asked for, unless
\* they overlapped or died: an item list, the images of a variant and sub SKUs
\* come whole, in their order and numbered, and whatever changed is told.
THEOREM AttachmentsStayAsAsked == AttachSpec => []AttachmentsAsAsked
<1> DEFINE Attached == ExtrasInv /\ ImageInv
<1>1. AttachInit => Attached
  BY ExtrasAssumption, ImagesAssumption, ExtrasInvHolds, ImageInvHolds DEF AttachInit
<1>2. Attached /\ [AttachNext]_<<extraVars, imageVars>> => Attached'
  <2>1. SUFFICES ASSUME ExtrasInv, ImageInv, [AttachNext]_<<extraVars, imageVars>>
                 PROVE  ExtrasInv' /\ ImageInv'
    OBVIOUS
  <2>2. CASE ExtrasNext /\ UNCHANGED imageVars
    BY <2>1, <2>2, ExtrasAssumption, ExtrasInvStays, ImagesUnchanged
  <2>3. CASE ImageNext /\ UNCHANGED extraVars
    BY <2>1, <2>3, ImagesAssumption, ImageInvStays, ExtrasUnchanged
  <2>4. CASE UNCHANGED <<extraVars, imageVars>>
    BY <2>1, <2>4, ExtrasUnchanged, ImagesUnchanged
  <2> QED BY <2>1, <2>2, <2>3, <2>4 DEF AttachNext
<1>3. Attached => AttachmentsAsAsked
  BY ExtrasAssumption, ExtrasInvSuffices, ImageInvSuffices DEF AttachmentsAsAsked
<1> HIDE DEF Attached
<1> QED BY <1>1, <1>2, <1>3, PTL DEF AttachSpec

-----------------------------------------------------------------------------
(* Lists of SKUs.                                                          *)

LEMMA TimesMore ==
  ASSUME NEW a \in Nat, NEW b \in Nat, NEW c \in Nat
  PROVE  /\ a * c \in Nat /\ b * c \in Nat /\ (a + b) * c = a * c + b * c
         /\ a <= b => a * c <= b * c
         /\ c # 0 => (a * c < b * c => a < b) /\ (a * c >= b * c => a >= b)
OBVIOUS

\* Rows that no page cuts are on one page.
LEMMA OnOnePage ==
  ASSUME NEW size \in Nat \ {0}, NEW b \in Nat, NEW u \in Nat, NEW n \in Nat,
         b < u, u <= n * size, \A m \in 1 .. n : ~(b < m * size /\ m * size < u)
  PROVE  \E m \in 1 .. n : (m - 1) * size <= b /\ u <= m * size
<1> DEFINE T == {m \in Nat : b < m * size}
<1>1. n * size \in Nat /\ b < n * size
  OBVIOUS
<1>2. PICK m \in T : \A x \in T : m <= x
  <2>1. T \in SUBSET Nat /\ n \in T
    BY <1>1
  <2> HIDE DEF T
  <2> QED BY <2>1, LeastExists
<1>3. m \in Nat /\ b < m * size /\ m * size \in Nat /\ m <= n
  BY <1>1, <1>2
<1>4. m # 0
  <2>1. 0 * size = 0
    OBVIOUS
  <2> QED BY <1>3, <2>1
<1>5. m - 1 \in Nat /\ (m - 1) * size \in Nat /\ m - 1 \notin T
  BY <1>2, <1>3, <1>4
<1>6. (m - 1) * size <= b
  BY <1>5
<1>7. u <= m * size
  BY <1>3, <1>4
<1> QED BY <1>3, <1>4, <1>6, <1>7

\* And not on another.
LEMMA OnNoOther ==
  ASSUME NEW size \in Nat \ {0}, NEW b \in Nat, NEW u \in Nat, NEW n \in Nat, NEW m \in Nat,
         n # 0, m # 0, n # m, (n - 1) * size <= b, u <= n * size
  PROVE  (b + 1 .. u) \cap ((m - 1) * size + 1 .. m * size) = {}
<1>1. CASE m < n
  <2>1. m * size <= (n - 1) * size
    BY <1>1
  <2> QED BY <2>1
<1>2. CASE n < m
  <2>1. n * size <= (m - 1) * size
    BY <1>2
  <2> QED BY <2>1
<1> QED BY <1>1, <1>2

\* Products that are found are finitely many, and the rows of each come one
\* after the other.
SkusFound(found, p) == {k \in found : ProductOf[k] = p}

LEMMA RowsOfProduct ==
  ASSUME SearchAssumption, NEW found, found \subseteq Listable, NEW times \in Nat, NEW p \in ProductNumber
  PROVE  /\ IsFiniteSet(SkusFound(found, p)) /\ Cardinality(SkusFound(found, p)) \in Nat
         /\ Cardinality(found) \in Nat
         /\ RowsBefore(found, times, p) \in Nat
         /\ RowsUpTo(found, times, p)
              = RowsBefore(found, times, p) + Cardinality(SkusFound(found, p)) * times
         /\ RowsUpTo(found, times, p) <= Cardinality(found) * times
<1>1. IsFiniteSet(found) /\ p \in Nat /\ \A k \in found : ProductOf[k] \in Nat
  BY FS_Subset DEF SearchAssumption
<1>2. PICK more : more = {k \in found : ProductOf[k] > p}
  OBVIOUS
<1>3. PICK all : all = {k \in found : ProductOf[k] >= p}
  OBVIOUS
<1>4. PICK here : here = SkusFound(found, p)
  OBVIOUS
<1>5. more \subseteq found /\ all \subseteq found /\ here \subseteq found
  BY <1>2, <1>3, <1>4 DEF SkusFound
<1>6. all = more \cup here /\ more \cap here = {}
  BY <1>1, <1>2, <1>3, <1>4 DEF SkusFound
<1>7. IsFiniteSet(more) /\ IsFiniteSet(all) /\ IsFiniteSet(here)
  BY <1>1, <1>5, FS_Subset
<1>8. /\ Cardinality(found) \in Nat /\ Cardinality(all) \in Nat
      /\ Cardinality(more) \in Nat /\ Cardinality(here) \in Nat
  BY <1>1, <1>7, FS_CardinalityType
<1>9. Cardinality(all) <= Cardinality(found)
  BY <1>1, <1>5, FS_Subset
<1>10. Cardinality(all) = Cardinality(more) + Cardinality(here)
  <2>1. Cardinality({}) = 0
    BY FS_EmptySet
  <2>2. Cardinality(more \cup here) = Cardinality(more) + Cardinality(here) - Cardinality(more \cap here)
    BY <1>7, FS_Union
  <2>3. Cardinality(all) = Cardinality(more) + Cardinality(here) - 0
    BY <1>6, <2>1, <2>2
  <2> QED BY <1>8, <2>3
<1>11. /\ RowsBefore(found, times, p) = Cardinality(more) * times
       /\ RowsUpTo(found, times, p) = Cardinality(all) * times
  BY <1>2, <1>3 DEF RowsBefore, RowsUpTo
<1>12. PICK m \in Nat, h \in Nat, a \in Nat, f \in Nat :
         m = Cardinality(more) /\ h = Cardinality(here) /\ a = Cardinality(all) /\ f = Cardinality(found)
  BY <1>8
<1>13. a = m + h /\ a <= f
  BY <1>9, <1>10, <1>12
<1>14. m * times \in Nat /\ a * times = m * times + h * times /\ a * times <= f * times
  BY <1>13, TimesMore
<1> QED BY <1>4, <1>7, <1>8, <1>11, <1>12, <1>14

\* What a page shows of a product.
Shows(page, found, times, n) ==
  \A p \in ProductNumber : \E S \in MayShow(found, times, p, n) :
    \A k \in SkusFound(found, p) : k \in page <=> k \in S

LEMMA PageShows ==
  ASSUME SearchAssumption, NEW found, found \subseteq Listable, NEW times, NEW n, NEW page \in OnPage(found, times, n)
  PROVE  Shows(page, found, times, n)
<1>1. PICK pick \in [ProductNumber -> SUBSET found] :
        /\ \A p \in ProductNumber : pick[p] \in MayShow(found, times, p, n)
        /\ page = UNION {pick[p] : p \in ProductNumber}
  BY DEF OnPage
<1>3. ASSUME NEW p \in ProductNumber
      PROVE  \E S \in MayShow(found, times, p, n) : \A k \in SkusFound(found, p) : k \in page <=> k \in S
  <2>1. \A x \in ProductNumber : \A k \in pick[x] : ProductOf[k] = x
    BY <1>1 DEF MayShow
  <2>2. ASSUME NEW k \in SkusFound(found, p)
        PROVE  k \in page <=> k \in pick[p]
    BY <1>1, <2>1 DEF SkusFound
  <2> QED BY <1>1, <2>2
<1> QED BY <1>3 DEF Shows

\* A product that no page cuts is all on one page.
Uncut(found, times, p, count) ==
  \A m \in 1 .. count : ~(/\ RowsBefore(found, times, p) < m * PageSize
                          /\ m * PageSize < RowsUpTo(found, times, p))
IsOnPage(found, times, p, count, m) ==
  /\ \A S \in MayShow(found, times, p, m) : S = SkusFound(found, p)
  /\ \A n \in 1 .. count : n # m => \A S \in MayShow(found, times, p, n) : S = {}

LEMMA OnItsPage ==
  ASSUME SearchAssumption, NEW found, found \subseteq Listable, NEW times \in Nat \ {0},
         NEW count \in Nat, Cardinality(found) * times <= count * PageSize,
         NEW p \in ProductNumber, SkusFound(found, p) # {},
         Uncut(found, times, p, count)
  PROVE  \E m \in 1 .. count : IsOnPage(found, times, p, count, m)
<1> PICK here : here = SkusFound(found, p)
  OBVIOUS
<1>1. PICK s \in Nat : here = SkusFound(found, p) /\ s = Cardinality(here) /\ IsFiniteSet(here)
  BY RowsOfProduct
<1>2. PICK b \in Nat, u \in Nat : b = RowsBefore(found, times, p) /\ u = RowsUpTo(found, times, p)
  <2>1. Cardinality(SkusFound(found, p)) * times \in Nat
    BY RowsOfProduct, TimesMore
  <2> QED BY <2>1, RowsOfProduct
<1>3. u = b + s * times /\ u <= count * PageSize
  <2>1. u = b + s * times /\ u <= Cardinality(found) * times /\ Cardinality(found) \in Nat
    BY <1>1, <1>2, RowsOfProduct
  <2>2. Cardinality(found) * times \in Nat /\ count * PageSize \in Nat
    BY <2>1, TimesMore DEF SearchAssumption
  <2> QED BY <2>1, <2>2
<1>4. s # 0
  BY <1>1, FS_EmptySet
<1>5. b < u
  <2>1. s * times > 0
    BY <1>4
  <2> QED BY <1>3, <2>1
<1>6. PageSize \in Nat \ {0}
  BY DEF SearchAssumption
<1>7. \A m \in 1 .. count : ~(b < m * PageSize /\ m * PageSize < u)
  BY <1>2 DEF Uncut
<1>8. PICK m \in 1 .. count : (m - 1) * PageSize <= b /\ u <= m * PageSize
  BY <1>3, <1>5, <1>6, <1>7, OnOnePage
<1>9. RowsOnPage(found, times, p, m) = b + 1 .. u
  <2>1. (m - 1) * PageSize \in Int /\ m * PageSize \in Int
    BY <1>6
  <2>2. (b + 1 .. u) \cap ((m - 1) * PageSize + 1 .. m * PageSize) = b + 1 .. u
    BY <1>8, <2>1
  <2> QED BY <1>2, <2>2 DEF RowsOnPage, PageRows
<1>10. Cardinality(RowsOnPage(found, times, p, m)) = s * times
  <2>1. Cardinality(b + 1 .. u) = u - b
    <3>1. b + 1 \in Int /\ u \in Int /\ ~(b + 1 > u) /\ u - (b + 1) + 1 = u - b
      BY <1>5
    <3> QED BY <3>1, FS_Interval
  <2>2. s * times \in Nat
    BY TimesMore
  <2> QED BY <1>3, <1>9, <2>1, <2>2
<1>11. ASSUME NEW S \in MayShow(found, times, p, m)
       PROVE  S = SkusFound(found, p)
  <2>1. S \in SUBSET here /\ Cardinality(S) * times >= s * times
    BY <1>1, <1>10 DEF MayShow, SkusFound
  <2>2. IsFiniteSet(S) /\ Cardinality(S) <= s /\ (s = Cardinality(S) => here = S)
    BY <1>1, <2>1, FS_Subset
  <2>3. PICK c \in Nat : c = Cardinality(S)
    BY <2>2, FS_CardinalityType
  <2>4. c >= s
    BY <2>1, <2>3, TimesMore
  <2> QED BY <1>1, <2>2, <2>3, <2>4
<1>12. ASSUME NEW n \in 1 .. count, n # m, NEW S \in MayShow(found, times, p, n)
       PROVE  S = {}
  <2>1. (b + 1 .. u) \cap ((n - 1) * PageSize + 1 .. n * PageSize) = {}
    BY <1>6, <1>8, <1>12, OnNoOther
  <2>2. RowsOnPage(found, times, p, n) = {}
    BY <1>2, <2>1 DEF RowsOnPage, PageRows
  <2>3. S \in SUBSET here /\ Cardinality(S) <= 0
    BY <1>1, <2>2, FS_EmptySet DEF MayShow, SkusFound
  <2>4. IsFiniteSet(S) /\ Cardinality(S) \in Nat
    BY <1>1, <2>3, FS_Subset, FS_CardinalityType
  <2> QED BY <2>3, <2>4, FS_EmptySet
<1> QED BY <1>8, <1>11, <1>12 DEF IsOnPage

-----------------------------------------------------------------------------

LEMMA FoundAreThere ==
  ASSUME NEW q, NEW given
  PROVE  FoundFor(q, given) \subseteq Matching(q, given) /\ Matching(q, given) \subseteq SellersOwn(q)
         /\ SellersOwn(q) \subseteq Listable
BY DEF FoundFor, Matching, SellersOwn

LEMMA PagesAreEnough ==
  ASSUME SearchAssumption, NEW q, NEW given
  PROVE  /\ Times(q) \in Nat /\ PageCount(q, given) \in Nat
         /\ Cardinality(FoundFor(q, given)) * Times(q) <= PageCount(q, given) * PageSize
<1>1. Times(q) \in Nat
  <2>1. PICK rows : rows = {r \in TerminalRows : r[1] \in q.seller}
    OBVIOUS
  <2>2. rows \subseteq TerminalRows
    BY <2>1
  <2>3. Cardinality(rows) \in Nat
    BY <2>2, FS_Subset, FS_CardinalityType DEF SearchAssumption
  <2> QED BY <2>1, <2>3 DEF Times
<1>2. IsFiniteSet(FoundFor(q, given))
  <2>1. FoundFor(q, given) \subseteq Listable
    BY FoundAreThere
  <2> QED BY <2>1, FS_Subset DEF SearchAssumption
<1>3. PICK f \in Nat : f = Cardinality(FoundFor(q, given))
  BY <1>2, FS_CardinalityType
<1>4. PICK t \in Nat : t = Times(q)
  BY <1>1
<1>5. PICK total \in Nat : total = f * t
  BY TimesMore
<1>6. PageSize \in Nat \ {0}
  BY DEF SearchAssumption
<1>7. (total + PageSize - 1) \div PageSize \in Nat /\ ((total + PageSize - 1) \div PageSize) * PageSize >= total
  BY <1>6
<1>8. PageCount(q, given) = (total + PageSize - 1) \div PageSize
  BY <1>3, <1>4, <1>5 DEF PageCount, Total
<1> QED BY <1>1, <1>3, <1>4, <1>5, <1>6, <1>7, <1>8

QueryOK ==
  /\ query.asked \in Requests
  /\ query.first \in IF ObviouslyNone(query.asked) THEN {NotGiven} ELSE Firsts(query.asked)

\* The pages read so far are pages of the list.
PagesOfList ==
  /\ Len(pages) <= PageCount(query.asked, query.first)
  /\ \A n \in DOMAIN pages : pages[n] \in OnPage(FoundFor(query.asked, query.first), Times(query.asked), n)

SearchInv ==
  /\ active \subseteq CategoryId /\ filings \in [ProductNumber -> OneOfEach]
  /\ pages \in Seq(SUBSET Listable)
  /\ query # NotGiven => QueryOK /\ PagesOfList

LEMMA SearchInvHolds == ASSUME SearchInit PROVE SearchInv
BY DEF SearchInit, SearchInv

\* What is found changes only with the categories and what is filed.
LEMMA FoundAsBefore ==
  ASSUME UNCHANGED <<active, filings>>
  PROVE  \A q, given : FoundFor(q, given)' = FoundFor(q, given) /\ PageCount(q, given)' = PageCount(q, given)
<1> TAKE q, given
<1>1. FoundFor(q, given)' = FoundFor(q, given)
  BY DEF FoundFor, Matching, InCategories, FiledUnder, Below, CategoriesAsked
<1> QED BY <1>1 DEF PageCount, Total

LEMMA SearchUnchanged ==
  ASSUME SearchInv, UNCHANGED searchVars
  PROVE  SearchInv'
<1>1. UNCHANGED <<active, filings, query, pages>>
  BY DEF searchVars
<1>2. PagesOfList' <=> PagesOfList
  BY <1>1, FoundAsBefore DEF PagesOfList
<1> QED BY <1>1, <1>2 DEF SearchInv, QueryOK

LEMMA SearchInvStays ==
  ASSUME SearchAssumption, SearchInv, SearchNext
  PROVE  SearchInv'
<1>1. CASE query = NotGiven /\ \E q \in Requests : Ask(q)
  <2>1. PICK q \in Requests : Ask(q)
    BY <1>1
  <2>2. PICK given \in IF ObviouslyNone(q) THEN {NotGiven} ELSE Firsts(q) :
          query' = [asked |-> q, first |-> given]
    BY <2>1 DEF Ask
  <2>3. query'.asked = q /\ query'.first = given /\ pages' = <<>> /\ UNCHANGED <<active, filings>>
    BY <2>1, <2>2 DEF Ask
  <2>4. QueryOK'
    BY <2>2, <2>3 DEF QueryOK
  <2>5. PagesOfList'
    <3>1. PageCount(q, given) \in Nat
      BY PagesAreEnough
    <3>2. PageCount(query.asked, query.first)' = PageCount(q, given)
      BY <2>3 DEF PageCount, Total, Times, FoundFor, ObviouslyNone, Matching, SellersOwn, OfSellers,
                  OfProducts, InCategories, FiledUnder, Below, CategoriesAsked
    <3>3. DOMAIN pages' = {} /\ Len(pages') = 0
      BY <2>3
    <3> QED BY <3>1, <3>2, <3>3 DEF PagesOfList
  <2> QED BY <2>3, <2>4, <2>5 DEF SearchInv
<1>2. CASE ReadPage
  <2>1. query # NotGiven /\ QueryOK /\ PagesOfList /\ UNCHANGED <<active, filings, query>>
    BY <1>2 DEF ReadPage, SearchInv
  <2>2. PICK found : found = FoundFor(query.asked, query.first)
    OBVIOUS
  <2>3. PICK times : times = Times(query.asked)
    OBVIOUS
  <2>4. PICK page \in OnPage(found, times, Len(pages) + 1) : pages' = Append(pages, page)
    BY <1>2, <2>2, <2>3 DEF ReadPage
  <2>5. found \subseteq Listable
    BY <2>2, FoundAreThere
  <2>6. pages \in Seq(SUBSET Listable) /\ page \in SUBSET Listable
    <3>1. page \subseteq found
      BY <2>4 DEF OnPage
    <3> QED BY <2>5, <3>1 DEF SearchInv
  <2>7. PICK n \in Nat : n = Len(pages)
    BY <2>6
  <2>8. /\ pages' \in Seq(SUBSET Listable) /\ Len(pages') = n + 1
        /\ DOMAIN pages' = 1 .. (n + 1) /\ DOMAIN pages = 1 .. n
        /\ \A i \in 1 .. n : pages'[i] = pages[i]
        /\ pages'[n + 1] = page
    BY <2>4, <2>6, <2>7
  <2>9. \A i \in 1 .. (n + 1) : pages'[i] \in OnPage(found, times, i)
    <3>1. \A i \in 1 .. n : pages[i] \in OnPage(found, times, i)
      BY <2>1, <2>2, <2>3, <2>8 DEF PagesOfList
    <3>2. \A i \in 1 .. (n + 1) : i \in 1 .. n \/ i = n + 1
      BY <2>7
    <3> QED BY <2>4, <2>7, <2>8, <3>1, <3>2
  <2>10. n + 1 <= PageCount(query.asked, query.first)
    <3>1. PageCount(query.asked, query.first) \in Nat
      BY PagesAreEnough
    <3> QED BY <1>2, <2>7, <3>1 DEF ReadPage
  <2>11. PagesOfList'
    <3>1. /\ FoundFor(query.asked, query.first)' = found
          /\ PageCount(query.asked, query.first)' = PageCount(query.asked, query.first)
      BY <2>1, <2>2, FoundAsBefore
    <3>2. Times(query.asked)' = times
      BY <2>1, <2>3
    <3> QED BY <2>8, <2>9, <2>10, <3>1, <3>2 DEF PagesOfList
  <2> QED BY <2>1, <2>8, <2>11 DEF SearchInv, QueryOK
<1>3. CASE LeaveList
  BY <1>3 DEF LeaveList, SearchInv
<1>4. CASE \E c \in CategoryId : SwitchCategory(c)
  BY <1>4 DEF SwitchCategory, SearchInv
<1> QED BY <1>1, <1>2, <1>3, <1>4 DEF SearchNext

-----------------------------------------------------------------------------

\* What is listed has been found, and what no page cuts is listed once.
LEMMA ListedOnce ==
  ASSUME SearchAssumption, SearchInv, query # NotGiven
  PROVE  /\ ListedSkus \subseteq FoundFor(query.asked, query.first)
         /\ AllRead => \A k \in FoundFor(query.asked, query.first) :
              ~Cut(query.asked, query.first, ProductOf[k]) /\ Times(query.asked) > 0 =>
                \E i \in DOMAIN pages : {j \in DOMAIN pages : k \in pages[j]} = {i}
<1>1. PICK found : found = FoundFor(query.asked, query.first)
  OBVIOUS
<1>2. PICK times \in Nat : times = Times(query.asked)
  BY PagesAreEnough
<1>3. PICK count \in Nat : count = PageCount(query.asked, query.first)
  BY PagesAreEnough
<1>4. found \subseteq Listable /\ Cardinality(found) * times <= count * PageSize
  BY <1>1, <1>2, <1>3, FoundAreThere, PagesAreEnough
<1>5. \A i \in DOMAIN pages : pages[i] \in OnPage(found, times, i)
  BY <1>1, <1>2 DEF SearchInv, PagesOfList
<1>6. \A i \in DOMAIN pages : pages[i] \subseteq found
  BY <1>5 DEF OnPage
<1>7. ASSUME AllRead, NEW k \in found, ~Cut(query.asked, query.first, ProductOf[k]), times > 0
      PROVE  \E i \in DOMAIN pages : {j \in DOMAIN pages : k \in pages[j]} = {i}
  <2>1. DOMAIN pages = 1 .. count
    BY <1>3, <1>7 DEF AllRead, SearchInv
  <2>2. PICK p \in ProductNumber : p = ProductOf[k]
    BY <1>4 DEF SearchAssumption
  <2>3. k \in SkusFound(found, p)
    BY <2>2 DEF SkusFound
  <2>4. Uncut(found, times, p, count)
    BY <1>1, <1>2, <1>3, <1>7, <2>2 DEF Cut, Uncut
  <2>5. PICK m \in 1 .. count : IsOnPage(found, times, p, count, m)
    <3>1. times \in Nat \ {0} /\ SkusFound(found, p) # {}
      BY <1>7, <2>3
    <3> QED BY <1>4, <2>4, <3>1, OnItsPage
  <2>6. ASSUME NEW n \in 1 .. count
        PROVE  k \in pages[n] <=> n = m
    <3>1. pages[n] \in OnPage(found, times, n)
      BY <1>5, <2>1
    <3>2. Shows(pages[n], found, times, n)
      BY <1>4, <3>1, PageShows
    <3>3. PICK S \in MayShow(found, times, p, n) : k \in pages[n] <=> k \in S
      BY <2>3, <3>2 DEF Shows
    <3>4. CASE n = m
      BY <2>3, <2>5, <3>3, <3>4 DEF IsOnPage
    <3>5. CASE n # m
      BY <2>5, <3>3, <3>5 DEF IsOnPage
    <3> QED BY <3>4, <3>5
  <2>7. {j \in 1 .. count : k \in pages[j]} = {m}
    BY <2>6
  <2> QED BY <2>1, <2>7
<1> QED BY <1>1, <1>2, <1>6, <1>7 DEF ListedSkus

\* Categories asked for.
LEMMA Filed ==
  ASSUME NEW cs, NEW restrict
  PROVE  InCategories(cs, restrict, NotGiven) =
           IF CategoriesAsked(cs, restrict) = {} THEN {} ELSE FiledUnder(Below(CategoriesAsked(cs, restrict)))
<1>1. PICK full : full = Below(CategoriesAsked(cs, restrict))
  OBVIOUS
<1>2. FiledUnder(full \ full) = Listable /\ FiledUnder(full) \subseteq Listable
  BY DEF FiledUnder
<1> QED BY <1>1, <1>2 DEF InCategories

\* An active category that was asked for is below itself.
LEMMA BelowItself ==
  ASSUME SearchAssumption, SearchInv, NEW cs, NEW restrict, NEW c \in CategoriesAsked(cs, restrict)
  PROVE  c \in Below(CategoriesAsked(cs, restrict)) /\ c \in active /\ c \in CategoryId /\ c \in PathOf[c]
BY DEF SearchAssumption, SearchInv, CategoriesAsked, Below

\* k is filed under an active category that c is, or is above.
UnderActive(k, c) == \E d \in active : c \in PathOf[d] /\ d \in filings[ProductOf[k]]

LEMMA CategoriesFind ==
  ASSUME SearchAssumption, SearchInv, NEW cs, NEW restrict, NEW k
  PROVE  k \in InCategories(cs, restrict, NotGiven) <=>
           k \in Listable /\ \E c \in CategoriesAsked(cs, restrict) : UnderActive(k, c)
<1>1. CASE CategoriesAsked(cs, restrict) = {}
  BY <1>1, Filed
<1>2. CASE CategoriesAsked(cs, restrict) # {}
  <2>1. Below(CategoriesAsked(cs, restrict)) # {}
    BY <1>2, BelowItself
  <2> QED BY <1>2, <2>1, Filed DEF FiledUnder, Below, UnderActive
<1> QED BY <1>1, <1>2

LEMMA CategoriesStayAdded ==
  ASSUME SearchAssumption, SearchInv
  PROVE  CategoriesAddUp
<1> DEFINE restrict == query.asked.restrict
<1>1. ASSUME NEW c \in active, NEW d \in active, c \in PathOf[d], HolderOf[c] = HolderOf[d]
      PROVE  InCategories({d}, restrict, NotGiven) \subseteq InCategories({c}, restrict, NotGiven)
  <2>1. d \in CategoriesAsked({d}, restrict) => c \in CategoriesAsked({c}, restrict)
    BY <1>1 DEF CategoriesAsked
  <2>2. \A e \in active : d \in PathOf[e] => c \in PathOf[e]
    BY <1>1 DEF SearchAssumption, SearchInv
  <2>3. \A x \in CategoriesAsked({d}, restrict) : x = d
    BY DEF CategoriesAsked
  <2>4. ASSUME NEW k \in InCategories({d}, restrict, NotGiven)
        PROVE  k \in InCategories({c}, restrict, NotGiven)
    <3>1. k \in Listable /\ d \in CategoriesAsked({d}, restrict) /\ UnderActive(k, d)
      <4>1. k \in Listable /\ \E x \in CategoriesAsked({d}, restrict) : UnderActive(k, x)
        BY <2>4, CategoriesFind
      <4> QED BY <2>3, <4>1
    <3>2. UnderActive(k, c)
      BY <2>2, <3>1 DEF UnderActive
    <3>3. \E x \in CategoriesAsked({c}, restrict) : UnderActive(k, x)
      BY <2>1, <3>1, <3>2
    <3> QED BY <3>1, <3>3, CategoriesFind
  <2> QED BY <2>4
<1>2. ASSUME NEW cs \in SUBSET CategoryId
      PROVE  InCategories(cs, restrict, NotGiven) = UNION {InCategories({c}, restrict, NotGiven) : c \in cs}
  <2>1. \A c : c \in CategoriesAsked(cs, restrict) <=> c \in cs /\ c \in CategoriesAsked({c}, restrict)
    BY DEF CategoriesAsked
  <2>2. \A c : \A x \in CategoriesAsked({c}, restrict) : x = c
    BY DEF CategoriesAsked
  <2>3. PICK f : f = [c \in cs |-> InCategories({c}, restrict, NotGiven)]
    OBVIOUS
  <2>4. PICK found : found = InCategories(cs, restrict, NotGiven)
    OBVIOUS
  <2>5. ASSUME NEW k
        PROVE  k \in found <=> \E c \in cs : k \in f[c]
    <3>1. ASSUME NEW c \in cs
          PROVE  k \in f[c] <=> k \in Listable /\ c \in CategoriesAsked({c}, restrict) /\ UnderActive(k, c)
      <4>1. k \in InCategories({c}, restrict, NotGiven) <=>
              k \in Listable /\ \E x \in CategoriesAsked({c}, restrict) : UnderActive(k, x)
        BY CategoriesFind
      <4> QED BY <2>2, <2>3, <4>1
    <3>2. k \in found <=> k \in Listable /\ \E c \in CategoriesAsked(cs, restrict) : UnderActive(k, c)
      BY <2>4, CategoriesFind
    <3> QED BY <2>1, <3>1, <3>2
  <2>6. found = UNION {f[c] : c \in cs}
    BY <2>5, Zenon
  <2>7. {f[c] : c \in cs} = {InCategories({c}, restrict, NotGiven) : c \in cs}
    BY <2>3
  <2> QED BY <2>4, <2>6, <2>7
<1> QED BY <1>1, <1>2 DEF CategoriesAddUp

\* Who asks for one seller and its categories is shown these.
LEMMA ShownAreAsked ==
  ASSUME SearchAssumption, SearchInv
  PROVE  ShownUnderAsked
<1>1. SUFFICES ASSUME query # NotGiven, query.asked.seller_ids = {query.first}, query.asked.category_ids # {},
                      NEW k \in ListedSkus,
                      \A c \in query.asked.category_ids : HolderOf[c] = PlatformOwner[SellerOf[k]]
               PROVE  /\ DefaultCategory(k) # {}
                      /\ DefaultCategory(k) \subseteq
                           Below(CategoriesAsked(query.asked.category_ids, query.asked.restrict))
  BY DEF ShownUnderAsked
<1>2. PICK q \in Requests : q = query.asked
  BY <1>1 DEF SearchInv, QueryOK
<1>3. PICK given : given = query.first
  OBVIOUS
<1>4. PICK roots : roots = CategoriesAsked(q.category_ids, q.restrict)
  OBVIOUS
<1>5. PICK full : full = Below(roots)
  OBVIOUS
<1>6. k \in FoundFor(q, given)
  BY <1>1, <1>2, <1>3, ListedOnce
<1>7. q.seller_ids = {given} /\ given # NotGiven /\ q.seller_ids # NotGiven
  <2>1. q.seller_ids = {given} /\ ~(q.seller_ids = {})
    BY <1>1, <1>2, <1>3
  <2>2. ~ObviouslyNone(q)
    BY <1>6 DEF FoundFor
  <2>3. given \in Firsts(q)
    BY <1>1, <1>2, <1>3, <2>2 DEF SearchInv, QueryOK
  <2>4. given # NotGiven
    BY <2>1 DEF SearchAssumption
  <2> QED BY <2>1, <2>3, <2>4 DEF Firsts
<1>8. k \in InCategories(q.category_ids, q.restrict, given) /\ k \in Listable /\ SellerOf[k] = given
  <2>1. k \in Matching(q, given) /\ ~(q.seller_ids = {}) /\ ~(q.product_ids = {})
    BY <1>6 DEF FoundFor, ObviouslyNone
  <2>2. k \in OfSellers(q) /\ k \in InCategories(q.category_ids, q.restrict, given)
    BY <1>1, <1>2, <2>1 DEF Matching
  <2>3. q.seller_ids # NotGiven => k \in Listable /\ SellerOf[k] \in q.seller_ids
    BY <2>2 DEF OfSellers
  <2> QED BY <1>7, <2>2, <2>3
<1>9. PICK platforms : platforms = {c \in full : HolderOf[c] = PlatformOwner[given]}
  OBVIOUS
<1>10. roots # {} /\ k \in FiledUnder(platforms)
  BY <1>4, <1>5, <1>7, <1>8, <1>9 DEF InCategories
<1>11. platforms # {}
  <2>1. PICK c \in roots : TRUE
    BY <1>10
  <2>2. c \in full
    BY <1>4, <1>5, <2>1, BelowItself
  <2>3. HolderOf[c] = PlatformOwner[given]
    BY <1>1, <1>2, <1>4, <1>8, <2>1 DEF CategoriesAsked
  <2> QED BY <1>9, <2>2, <2>3
<1>12. PICK c \in platforms : c \in filings[ProductOf[k]]
  BY <1>10, <1>11 DEF FiledUnder
<1>13. c \in DefaultCategory(k)
  BY <1>8, <1>9, <1>12 DEF DefaultCategory
<1>14. ASSUME NEW d \in DefaultCategory(k)
       PROVE  d = c
  <2>1. filings[ProductOf[k]] \in OneOfEach
    BY <1>8 DEF SearchInv, SearchAssumption
  <2> QED BY <1>13, <1>14, <2>1 DEF DefaultCategory, OneOfEach
<1> QED BY <1>2, <1>4, <1>5, <1>9, <1>13, <1>14

-----------------------------------------------------------------------------

\* The request an export is made with.
LEMMA UnrestrictedRequest ==
  ASSUME SearchAssumption, NEW q \in Requests
  PROVE  /\ Unrestricted(q).restrict = FALSE
         /\ Unrestricted(q).seller_id = q.seller_id /\ Unrestricted(q).seller = q.seller
         /\ Unrestricted(q).seller_ids = q.seller_ids /\ Unrestricted(q).product_ids = q.product_ids
         /\ Unrestricted(q).category = q.category /\ Unrestricted(q).category_ids = q.category_ids
<1>1. q = [restrict |-> q.restrict, seller_id |-> q.seller_id, seller |-> q.seller,
           seller_ids |-> q.seller_ids, product_ids |-> q.product_ids,
           category |-> q.category, category_ids |-> q.category_ids]
  BY DEF SearchAssumption
<1> QED BY <1>1 DEF Unrestricted

\* Without the restriction a search finds more.
LEMMA CategoriesUnrestricted ==
  ASSUME SearchAssumption, SearchInv, NEW cs, NEW restrict
  PROVE  InCategories(cs, restrict, NotGiven) \subseteq InCategories(cs, FALSE, NotGiven)
<1>1. CategoriesAsked(cs, restrict) \subseteq CategoriesAsked(cs, FALSE)
  BY DEF CategoriesAsked
<1>2. ASSUME NEW k \in InCategories(cs, restrict, NotGiven)
      PROVE  k \in InCategories(cs, FALSE, NotGiven)
  <2>1. k \in Listable /\ \E c \in CategoriesAsked(cs, restrict) : UnderActive(k, c)
    BY <1>2, CategoriesFind
  <2>2. \E c \in CategoriesAsked(cs, FALSE) : UnderActive(k, c)
    BY <1>1, <2>1
  <2> QED BY <2>1, <2>2, CategoriesFind
<1> QED BY <1>2

\* What a list found is exported, ...
LEMMA FoundIsExported ==
  ASSUME SearchAssumption, SearchInv, NEW q \in Requests, NEW given,
         ~ObviouslyNone(q), Times(Unrestricted(q)) # 0,
         ~q.restrict \/ q.category_ids = {} \/ given = NotGiven,
         NEW k \in Matching(q, given)
  PROVE  k \in Exported(q, given)
<1>1. PICK e : e = Unrestricted(q)
  OBVIOUS
<1>2. /\ ~e.restrict /\ e.seller_id = q.seller_id
      /\ e.seller_ids = q.seller_ids /\ e.product_ids = q.product_ids
      /\ e.category = q.category /\ e.category_ids = q.category_ids
  BY <1>1, UnrestrictedRequest
<1>3. ~(q.seller_ids = {}) /\ ~(q.product_ids = {})
  BY DEF ObviouslyNone
<1>4. /\ k \in SellersOwn(q) /\ k \in OfSellers(q) /\ k \in OfProducts(q)
      /\ q.category # {} => k \in InCategories(q.category, q.restrict, NotGiven)
      /\ q.category_ids # {} => k \in InCategories(q.category_ids, q.restrict, given)
  BY <1>3 DEF Matching
<1>5. k \in SellersOwn(e) /\ k \in OfSellers(e) /\ k \in OfProducts(e) /\ k \in Listable
  BY <1>2, <1>4 DEF SellersOwn, OfSellers, OfProducts
<1>6. e.category # {} => k \in InCategories(e.category, e.restrict, NotGiven)
  BY <1>1, <1>2, <1>4, CategoriesUnrestricted, UnrestrictedRequest
<1>7. ASSUME e.category_ids # {}
      PROVE  k \in InCategories(e.category_ids, e.restrict, given)
  <2>1. CASE given = NotGiven
    BY <1>1, <1>2, <1>4, <1>7, <2>1, CategoriesUnrestricted, UnrestrictedRequest
  <2>2. CASE ~q.restrict
    <3>1. CategoriesAsked(q.category_ids, q.restrict) = CategoriesAsked(q.category_ids, e.restrict)
      BY <1>2, <2>2 DEF CategoriesAsked
    <3> QED BY <1>2, <1>4, <1>7, <3>1 DEF InCategories
  <2> QED BY <1>2, <1>7, <2>1, <2>2
<1>8. k \in Matching(e, given)
  BY <1>2, <1>3, <1>5, <1>6, <1>7 DEF Matching
<1> QED BY <1>1, <1>8 DEF Exported

\* ... and what is exported of the seller's own was found.
LEMMA ExportedIsFound ==
  ASSUME SearchAssumption, NEW q \in Requests, NEW given, ~ObviouslyNone(q),
         ~q.restrict \/ q.category \cup q.category_ids = {},
         NEW k \in Exported(q, given), k \in SellersOwn(q)
  PROVE  k \in FoundFor(q, given) /\ Times(q) # 0
<1>1. PICK e : e = Unrestricted(q)
  OBVIOUS
<1>2. /\ ~e.restrict /\ e.seller_id = q.seller_id /\ e.seller = q.seller
      /\ e.seller_ids = q.seller_ids /\ e.product_ids = q.product_ids
      /\ e.category = q.category /\ e.category_ids = q.category_ids
  BY <1>1, UnrestrictedRequest
<1>3. ~(q.seller_ids = {}) /\ ~(q.product_ids = {})
  BY DEF ObviouslyNone
<1>4. Times(e) # 0 /\ k \in Matching(e, given)
  BY <1>1 DEF Exported
<1>5. Times(q) # 0
  <2>1. CASE q.restrict
    BY <2>1 DEF Times
  <2>2. CASE ~q.restrict
    BY <1>2, <1>4, <2>2 DEF Times
  <2> QED BY <2>1, <2>2
<1>6. /\ k \in OfSellers(e) /\ k \in OfProducts(e) /\ k \in SellersOwn(e)
      /\ e.category # {} => k \in InCategories(e.category, e.restrict, NotGiven)
      /\ e.category_ids # {} => k \in InCategories(e.category_ids, e.restrict, given)
  BY <1>2, <1>3, <1>4 DEF Matching
<1>7. k \in OfSellers(q) /\ k \in OfProducts(q) /\ k \in Listable
  BY <1>2, <1>6 DEF OfSellers, OfProducts, SellersOwn
<1>8. k \in Matching(q, given)
  <2>1. CASE q.category \cup q.category_ids = {}
    <3>1. q.category = {} /\ q.category_ids = {}
      BY <2>1
    <3> QED BY <1>3, <1>7, <3>1 DEF Matching
  <2>2. CASE ~q.restrict
    <3>1. \A cs : CategoriesAsked(cs, q.restrict) = CategoriesAsked(cs, e.restrict)
      BY <1>2, <2>2 DEF CategoriesAsked
    <3>2. q.category # {} => k \in InCategories(q.category, q.restrict, NotGiven)
      BY <1>2, <1>6, <3>1 DEF InCategories
    <3>3. q.category_ids # {} => k \in InCategories(q.category_ids, q.restrict, given)
      BY <1>2, <1>6, <3>1 DEF InCategories
    <3> QED BY <1>3, <1>7, <3>2, <3>3 DEF Matching
  <2> QED BY <2>1, <2>2
<1> QED BY <1>5, <1>8 DEF FoundFor

LEMMA SearchInvSuffices ==
  ASSUME SearchAssumption, SearchInv
  PROVE  SearchFinds
<1>1. SearchTypeOK
  BY DEF SearchTypeOK, SearchInv, OneOfEach
<1>2. PagesHoldTheList
  <2>1. \A i : Cardinality({i}) = 1
    BY FS_Singleton
  <2> QED BY <2>1, ListedOnce DEF PagesHoldTheList, AllRead
<1>3. ExportsTheList
  <2>1. SUFFICES ASSUME AllRead, ~ObviouslyNone(query.asked)
                 PROVE  ExportsTheList
    BY DEF ExportsTheList
  <2>2. query # NotGiven
    BY <2>1 DEF AllRead
  <2>3. PICK q \in Requests : q = query.asked
    BY <2>2 DEF SearchInv, QueryOK
  <2>4. PICK given : given = query.first
    OBVIOUS
  <2>5. ASSUME NEW k \in Exported(q, given), k \in SellersOwn(q), ~Cut(q, given, ProductOf[k]),
               ~q.restrict \/ q.category \cup q.category_ids = {}
        PROVE  k \in ListedSkus
    <3>1. k \in FoundFor(q, given) /\ Times(q) # 0
      BY <2>1, <2>3, <2>5, ExportedIsFound
    <3>2. Times(q) > 0
      BY <2>2, <2>3, <3>1, PagesAreEnough
    <3>3. PICK i \in DOMAIN pages : {j \in DOMAIN pages : k \in pages[j]} = {i}
      BY <2>1, <2>2, <2>3, <2>4, <2>5, <3>1, <3>2, ListedOnce
    <3> QED BY <3>3 DEF ListedSkus
  <2>6. ASSUME NEW k \in ListedSkus, Times(Unrestricted(q)) # 0,
               ~q.restrict \/ q.category_ids = {} \/ given = NotGiven
        PROVE  k \in Exported(q, given)
    <3>1. k \in FoundFor(q, given)
      BY <2>2, <2>3, <2>4, <2>6, ListedOnce
    <3>2. k \in Matching(q, given)
      BY <2>1, <2>3, <3>1 DEF FoundFor
    <3> QED BY <2>1, <2>3, <2>6, <3>2, FoundIsExported
  <2> QED BY <2>3, <2>4, <2>5, <2>6 DEF ExportsTheList
<1>4. StaysWithSeller
  <2>1. SUFFICES ASSUME query # NotGiven, query.asked.restrict, query.asked.seller_id = NotGiven,
                        NEW k \in ListedSkus
                 PROVE  SellerOf[k] = User
    BY DEF StaysWithSeller
  <2>2. k \in SellersOwn(query.asked)
    BY <2>1, ListedOnce, FoundAreThere
  <2> QED BY <2>1, <2>2 DEF SellersOwn, SearchAssumption
<1> QED BY <1>1, <1>2, <1>3, <1>4, CategoriesStayAdded, ShownAreAsked DEF SearchFinds

\* A list that is read page by page holds every SKU that was found once,
\* unless a page ends in the middle of its product, and nothing else; who is
\* restricted to a seller is listed its SKUs only; categories find what
\* those below them find; and an export, which is never restricted, differs
\* from its list as ExportsTheList says.
THEOREM ListsFind == SearchSpec => []SearchFinds
<1>1. SearchInit => SearchInv
  BY SearchInvHolds
<1>2. SearchInv /\ [SearchNext]_searchVars => SearchInv'
  BY SearchUnchanged, SearchInvStays, SearchAssumption
<1>3. SearchInv => SearchFinds
  BY SearchInvSuffices, SearchAssumption
<1> QED BY <1>1, <1>2, <1>3, PTL DEF SearchSpec
=============================================================================
