--------------------------------- MODULE Skus ---------------------------------
(* The sellable products (SKUs) that SkuDetails and SkuTerminals are about, *)
(* and what stands for no value.                                           *)

CONSTANTS Sku, None
=============================================================================
