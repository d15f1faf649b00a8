------------------------------- MODULE NoValue -------------------------------
(* What stands for no value in AttributeSets, DetailContent and             *)
(* VariantGroups: NULL, or nothing that a request sent.                     *)

CONSTANT None
=============================================================================
