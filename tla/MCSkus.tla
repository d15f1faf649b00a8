-------------------------------- MODULE MCSkus --------------------------------
(* SkuDetails and SkuTerminals on two SKUs, SkuSearch on three SKUs of two *)
(* products, SkuExtras on two SKUs and a bundle, VariantImages on two      *)
(* variants and an id that is unknown.  The requests of a behaviour are    *)
(* about one of the five, so what they do to the tables of the others,     *)
(* which is nothing, is left out.  Category c2 is below c1, both of one    *)
(* seller; p1 is another seller's.                                         *)
EXTENDS SkuDetails, SkuTerminals, SkuSearch, SkuAttachments

CONSTANTS b1, b2, t1, t2, c1, c2, p1, own, platform

AboveThem == (c1 :> {c1}) @@ (c2 :> {c1, c2}) @@ (p1 :> {p1})
OwnersOfAll == (c1 :> own) @@ (c2 :> own) @@ (p1 :> platform)
Types == (c1 :> {t2}) @@ (c2 :> {}) @@ (p1 :> {})
Lists == {<<>>, <<b1>>, <<b1, b2>>}
Sets == {{}, {t2}}
RequestOrders ==
  {<<"barcodes">>, <<"shipping_types">>, <<"category_id">>,
   <<"shipping_types", "editing_status_code", "category_id">>,
   <<"category_id", "editing_status_code", "shipping_types">>,
   <<"barcodes", "category_id", "editing_status_code">>}

-----------------------------------------------------------------------------

CONSTANT shop

VARIABLE part  \* what the requests of the behaviour are about

OrderOf(seller, codes) == {[seller |-> seller, type |-> shop, codes |-> codes]}
Orderings ==
  {{}} \cup {OrderOf(own, codes) : codes \in {All} \cup SUBSET Code}
    \cup {OrderOf(own, codes) \cup OrderOf(platform, All) : codes \in {{c} : c \in Code}}

-----------------------------------------------------------------------------

CONSTANTS k3, k4, k5, other

SearchProducts == (k3 :> 1) @@ (k4 :> 1) @@ (k5 :> 2)
SearchSellers == (k3 :> own) @@ (k4 :> other) @@ (k5 :> own)
SearchOwners == (own :> own) @@ (other :> platform) @@ (platform :> platform)
SearchRows == {<<own, 1>>, <<own, 2>>}
Searches ==
  {q \in [restrict : BOOLEAN, seller_id : {NotGiven, Every, other}, seller : {{}, {own}, {other}},
           seller_ids : {NotGiven, {}, {own}, {own, other}}, product_ids : {NotGiven, {}, {1}},
           category : {{}, {c2}}, category_ids : {{}, {c1}, {c1, p1}}] :
     /\ q.seller # {} => q.seller_ids = NotGiven /\ q.seller_id = NotGiven /\ q.product_ids = NotGiven
     /\ q.category = {} \/ q.category_ids = {}
     /\ q.product_ids # NotGiven => q.category = {}}

-----------------------------------------------------------------------------

Items == {<<>>} \cup {<<k>> : k \in Sku} \cup Sku \X Sku
TagChoices == {{1}, {2, 3}, {4}}

ImageLists ==
  {1 :> <<"x">>, 2 :> <<"y", "x">>, (1 :> <<"y">>) @@ (2 :> <<"x">>),
   (1 :> <<"x">>) @@ (2 :> <<>>) @@ (3 :> <<"y">>), (2 :> <<"x">>) @@ (3 :> <<"y", "y">>)}

-----------------------------------------------------------------------------

AllInit ==
  /\ DetailInit /\ TerminalInit /\ AttachInit
  /\ part \in {"details", "terminals", "search", "extras", "images"}
  /\ part = "extras" \/ about = "items"
  /\ SearchInit /\ (part = "search" \/ filings = [p \in ProductNumber |-> {}])
AllNext ==
  \/ part = "details" /\ DetailNext /\ UNCHANGED <<terminalVars, searchVars, extraVars, imageVars, part>>
  \/ part = "terminals" /\ TerminalNext /\ UNCHANGED <<detailVars, searchVars, extraVars, imageVars, part>>
  \/ part = "search" /\ SearchNext /\ UNCHANGED <<detailVars, terminalVars, extraVars, imageVars, part>>
  \/ part = "extras" /\ ExtrasNext /\ UNCHANGED <<detailVars, terminalVars, searchVars, imageVars, part>>
  \/ part = "images" /\ ImageNext /\ UNCHANGED <<detailVars, terminalVars, searchVars, extraVars, part>>
AllSpec == AllInit /\ [][AllNext]_<<detailVars, terminalVars, searchVars, extraVars, imageVars, part>>

Symmetry == Permutations(Sku) \cup Permutations(Session) \cup Permutations(Group) \cup Permutations(Code)
=============================================================================
