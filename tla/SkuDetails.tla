------------------------------ MODULE SkuDetails ------------------------------
(***************************************************************************)
(* What hangs on a sellable product (SKU): its category and the categories *)
(* its product is filed under, its barcodes, its shipping types            *)
(* (app/services/products/sellable.py, app/services/shipping_types,        *)
(* apply_shipping_type_to_skus of app/services/categories/category.py,     *)
(* the product categories of app/services/products/product.py).            *)
(*                                                                         *)
(* All SKUs belong to one product and one seller.  Requests are taken one  *)
(* after the other, but a request may be refused after it has committed:   *)
(* update_common goes through the fields of its data in their order, and   *)
(* the field editing_status_code commits what the fields before it did.    *)
(* Category trees, sellers and attribute sets do not change here.          *)
(***************************************************************************)
EXTENDS Skus, Integers, FiniteSets, SequencesExt

CONSTANTS
  Barcode, ShippingType, Category,
  DefaultType,   \* the active default shipping type, or None
  Above,         \* [Category -> SUBSET Category]: itself and what is above it
  OwnerOf,       \* [Category -> sellers]
  WithSet,       \* the categories that have a default attribute set
  TypesOf,       \* [Category -> SUBSET ShippingType]: category_shipping_type
  FieldOrders,        \* bound: the keys of update requests, in the sender's order
  BarcodeLists,  \* bound: the barcode lists requests carry, last one default
  TypeLists,     \* bound: the sets of shipping types requests carry
  MaxRequests    \* bound: how many requests are made

ASSUME DetailAssumption ==
  /\ None \notin Barcode \cup ShippingType \cup Category
  /\ DefaultType \in ShippingType \cup {None}
  /\ Above \in [Category -> SUBSET Category] /\ \A c \in Category : c \in Above[c]
  /\ Category = DOMAIN OwnerOf /\ WithSet \subseteq Category
  /\ \A o \in FieldOrders :
       /\ o \in Seq({"barcodes", "shipping_types", "category_id", "editing_status_code"})
       /\ o # <<>> /\ IsInjective(o)
  /\ TypesOf \in [Category -> SUBSET ShippingType]
  /\ BarcodeLists \subseteq Seq(Barcode) /\ <<>> \in BarcodeLists
  /\ \A l \in BarcodeLists : IsInjective(l)
  /\ TypeLists \subseteq SUBSET ShippingType
  /\ MaxRequests \in Nat

VARIABLES
  sellable,       \* sellable_products with what hangs on them, as committed
  category,  \* the category_id of the product
  filed,     \* product_categories of the product
  cut,       \* SKUs whose last update_common was refused after a commit
  unlisted,  \* SKUs created with a barcode and no list of barcodes
  refused,   \* the last request was refused
  requests   \* how many requests were made

detailVars == <<sellable, category, filed, cut, unlisted, refused, requests>>

-----------------------------------------------------------------------------
(* The satellites.                                                         *)

\* Mutant of Inserted: the barcodes the SKU has keep their mark.
InsertedBesideDefault(codes, l) ==
  {r \in codes : r.code \notin ToSet(l)}
    \cup {[code |-> l[i], default |-> i = Len(l)] : i \in DOMAIN l}

\* Mutant of Inserted: barcodes given again are inserted a second time.
InsertedAgain(codes, l) ==
  IF l = <<>> THEN codes
  ELSE {[code |-> r.code, default |-> FALSE] : r \in codes}
         \cup {[code |-> l[i], default |-> i = Len(l)] : i \in DOMAIN l}

\* _insert_sellable_product_barcodes: barcodes given again are replaced, the
\* others lose the mark, the last one given is the default.
Inserted(codes, l) ==
  IF l = <<>> THEN codes
  ELSE {[code |-> r.code, default |-> FALSE] : r \in {x \in codes : x.code \notin ToSet(l)}}
         \cup {[code |-> l[i], default |-> i = Len(l)] : i \in DOMAIN l}

\* The rows of filed that belong to c's seller.
OfSeller(f, c) == {d \in f : OwnerOf[d] = OwnerOf[c]}

\* Mutant of Refiled: a category is added and none replaced.
RefiledBeside(f, c) == {f \cup {c}}

\* __upsert_product_category and the product category of an SKU that changes
\* its category: a row of the same seller is reused, if there is one.
Refiled(f, c) ==
  IF OfSeller(f, c) = {} THEN {f \cup {c}}
  ELSE {(f \ {d}) \cup {c} : d \in OfSeller(f, c)}

\* Mutant of WithShipping: nothing is added for an SKU that has no type left.
WithShippingAsIs(types) == types

\* The default shipping type, for an SKU that would have none.
WithShipping(types) ==
  IF types = {} /\ DefaultType # None THEN {DefaultType} ELSE types

DetailInit ==
  /\ sellable = [k \in {} |-> None]
  /\ category \in Category
  /\ filed = {category}
  /\ cut = {} /\ unlisted = {}
  /\ refused = FALSE
  /\ requests = 0

Request(ok) ==
  /\ requests < MaxRequests
  /\ requests' = requests + 1
  /\ refused' = ~ok

-----------------------------------------------------------------------------
(* Creating.                                                               *)

\* create_sellable_product: the SKU takes the product's category_id.  given is
\* the field barcode, which counts when no list is given.
Create(k, l, given, types) ==
  /\ Request(TRUE)
  /\ k \notin DOMAIN sellable
  /\ l # <<>> => given = None
  /\ sellable' = [x \in DOMAIN sellable \cup {k} |->
       IF x # k THEN sellable[x]
       ELSE [category |-> category,
             barcode  |-> IF l = <<>> THEN given ELSE Last(l),
             codes    |-> Inserted({}, l),
             types    |-> WithShipping(types)]]
  /\ unlisted' = IF given = None THEN unlisted ELSE unlisted \cup {k}
  /\ UNCHANGED <<category, filed, cut>>

-----------------------------------------------------------------------------
(* update_common.  A field is a record of its key and its value; state is  *)
(* a pair of the SKU's row and the rows filed, as the session sees them.   *)

Values ==
  [barcodes |-> BarcodeLists, shipping_types |-> TypeLists,
   category_id |-> Category, editing_status_code |-> {None}]

\* The data of a request: a key is given once, the order is the sender's.
Data == UNION {{d \in [DOMAIN o -> UNION {[key : {o[i]}, value : Values[o[i]]] : i \in DOMAIN o}] :
                  \A i \in DOMAIN o : d[i].key = o[i]} : o \in FieldOrders}

Barcoded(row, l, overwrite) ==
  [row EXCEPT !.codes   = Inserted(IF overwrite THEN {} ELSE @, l),
              !.barcode = IF l # <<>> THEN Last(l) ELSE IF overwrite THEN None ELSE @]

\* The states one field may lead to (which row of filed is reused is up to a
\* query without an order).
Taken(state, f, overwrite) ==
  LET row == state[1]
  IN  CASE f.key = "barcodes" -> {<<Barcoded(row, f.value, overwrite), state[2]>>}
        [] f.key = "shipping_types" -> {<<[row EXCEPT !.types = f.value], state[2]>>}
        [] f.key = "category_id" /\ f.value # row.category ->
             {<<[row EXCEPT !.category = f.value], g>> : g \in Refiled(state[2], f.value)}
        [] OTHER -> {state}

\* The states a sequence of fields may lead to.
After(state, fields, overwrite) ==
  LET after[n \in 0..Len(fields)] ==
        IF n = 0 THEN {state}
        ELSE UNION {Taken(s, fields[n], overwrite) : s \in after[n - 1]}
  IN  after[Len(fields)]

\* _update_category_sellable_product refuses a category without an attribute
\* set.  sellable.category is the old category if it was loaded before, which
\* is up to the model class, and the new one otherwise.
Refuses(row, f, loaded) ==
  /\ f.key = "category_id"
  /\ f.value # row.category
  /\ f.value \notin WithSet \/ (loaded /\ row.category \notin WithSet)

\* {k} if the fields give k a list of barcodes.
Listed(k, d, overwrite) ==
  {x \in {k} : \E i \in DOMAIN d : d[i].key = "barcodes" /\ (overwrite \/ d[i].value # <<>>)}

\* update_common of all its fields, then the default shipping type.
Update(k, d, overwrite) ==
  /\ Request(TRUE)
  /\ k \in DOMAIN sellable
  /\ \E loaded \in BOOLEAN : \A i \in DOMAIN d : ~Refuses(sellable[k], d[i], loaded)
  /\ \E s \in After(<<sellable[k], filed>>, d, overwrite) :
       /\ sellable' = [sellable EXCEPT ![k] = [s[1] EXCEPT !.types = WithShipping(@)]]
       /\ filed' = s[2]
  /\ cut' = cut \ {k}
  /\ unlisted' = unlisted \ Listed(k, d, overwrite)
  /\ UNCHANGED category

\* Mutant of Kept: the error does not undo the field that raised it.
KeptRefused(d, n) == SubSeq(d, 1, n)

\* The fields a request refused at field n has committed: those up to the
\* last editing_status_code before n (update_sellable_editing_status commits).
Kept(d, n) ==
  SubSeq(d, 1, Max({0} \cup {i \in 1..(n - 1) : d[i].key = "editing_status_code"}))

\* update_common whose field n is refused; the handler of the error rolls back
\* what is not committed.
UpdateRefused(k, d, n, overwrite) ==
  /\ Request(FALSE)
  /\ k \in DOMAIN sellable
  /\ \E loaded \in BOOLEAN : Refuses(sellable[k], d[n], loaded)
  /\ \E s \in After(<<sellable[k], filed>>, Kept(d, n), overwrite) :
       /\ sellable' = [sellable EXCEPT ![k] = s[1]]
       /\ filed' = s[2]
  /\ cut' = IF Kept(d, n) = <<>> THEN cut ELSE cut \cup {k}
  /\ unlisted' = unlisted \ Listed(k, Kept(d, n), overwrite)
  /\ UNCHANGED category

-----------------------------------------------------------------------------
(* Writers from other services.                                            *)

\* update_product with category_ids, one of which becomes the category_id.
\* The categories are taken to be of different sellers, so each reuses a row
\* of filed as it was.  The SKUs keep theirs.
UpdateProduct(c, cs) ==
  /\ Request(TRUE)
  /\ c \in cs
  /\ \A d \in cs : OfSeller(cs, d) = {d}
  /\ category' = c
  /\ \E reused \in [{d \in cs : OfSeller(filed, d) # {}} -> filed] :
       /\ \A d \in DOMAIN reused : reused[d] \in OfSeller(filed, d)
       /\ filed' = (filed \ Range(reused)) \cup cs
  /\ UNCHANGED <<sellable, cut, unlisted>>

\* Mutant of Reached: only SKUs of the category itself.
ReachedDirectly(c) == {k \in DOMAIN sellable : sellable[k].category = c}

\* The SKUs apply_shipping_type_to_skus finds by the path of the category.
Reached(c) == {k \in DOMAIN sellable : c \in Above[sellable[k].category]}

\* apply_shipping_type_to_skus with the given types or those of the category.
ApplyShipping(c, given) ==
  LET types == IF given = {} THEN TypesOf[c] ELSE given
  IN  /\ Request(TRUE)
      /\ types # {}
      /\ sellable' = [k \in DOMAIN sellable |->
                   IF k \in Reached(c) THEN [sellable[k] EXCEPT !.types = @ \cup types] ELSE sellable[k]]
      /\ UNCHANGED <<category, filed, cut, unlisted>>

DetailNext ==
  \/ \E k \in Sku, l \in BarcodeLists, b \in Barcode \cup {None}, t \in TypeLists : Create(k, l, b, t)
  \/ \E k \in Sku, d \in Data, overwrite \in BOOLEAN : Update(k, d, overwrite)
  \/ \E k \in Sku, d \in Data, overwrite \in BOOLEAN :
        \E n \in DOMAIN d : UpdateRefused(k, d, n, overwrite)
  \/ \E cs \in SUBSET Category : \E c \in cs : UpdateProduct(c, cs)
  \/ \E c \in Category, t \in TypeLists : ApplyShipping(c, t)

DetailSpec == DetailInit /\ [][DetailNext]_detailVars

-----------------------------------------------------------------------------
(* Reading: a filter of SellableProductListQuery.                          *)

\* _apply_barcodes_filter.
FoundByBarcode(bs) == {k \in DOMAIN sellable : \E r \in sellable[k].codes : r.code \in bs}

-----------------------------------------------------------------------------
(* Properties.                                                             *)

Row == [category : Category, barcode : Barcode \cup {None},
        codes : SUBSET [code : Barcode, default : BOOLEAN], types : SUBSET ShippingType]

\* The variables have the shapes given above; a barcode is stored once per SKU.
DetailTypeOK ==
  /\ DOMAIN sellable \subseteq Sku /\ \A k \in DOMAIN sellable : sellable[k] \in Row
  /\ \A k \in DOMAIN sellable : \A r, q \in sellable[k].codes : r.code = q.code => r = q
  /\ category \in Category /\ filed \subseteq Category
  /\ cut \subseteq DOMAIN sellable /\ unlisted \subseteq DOMAIN sellable
  /\ refused \in BOOLEAN /\ requests \in 0..MaxRequests

\* The barcode of an SKU is the one row marked as default, and the list query
\* finds the SKU by it, whether lists were overwritten or added to and whether
\* a later field of the request was refused.  Only an SKU that was created
\* with a barcode and no list has no rows.
DefaultIsBarcode ==
  \A k \in DOMAIN sellable :
    LET marked == {r.code : r \in {x \in sellable[k].codes : x.default}}
    IN  IF k \in unlisted THEN sellable[k].codes = {}
        ELSE /\ marked = {sellable[k].barcode} \ {None}
             /\ marked # {} => k \in FoundByBarcode(marked)

\* An SKU always has a shipping type, unless its last update_common removed
\* them, was committed by its editing_status_code and then refused: the
\* default type is added only at the end.  The next one that is not refused
\* repairs it.
EverySkuShips ==
  DefaultType # None => \A k \in DOMAIN sellable : sellable[k].types # {} \/ k \in cut

\* A product is filed under one category of each seller, however its category
\* is changed: through the product, with several sellers' categories, or
\* through one of its SKUs.
OneCategoryPerSeller == \A c \in filed : OfSeller(filed, c) = {c}

\* A refused request leaves the categories of the product as they were,
\* although _update_category_sellable_product has already changed them when it
\* raises, and its editing_status_code may have committed other fields.
RefusalFilesNothing == [][refused' => filed' = filed]_detailVars

\* What hangs on an SKU is whole between any two requests: one default
\* barcode, a shipping type, one category of each seller.
SatellitesWhole == DetailTypeOK /\ DefaultIsBarcode /\ EverySkuShips /\ OneCategoryPerSeller
=============================================================================
