---------------------------- MODULE SkuAttachments ----------------------------
(* What is attached to SKUs and to variants and written by requests of its *)
(* own: SkuExtras and VariantImages, whose requests come in any order and   *)
(* share no table.                                                         *)
EXTENDS SkuExtras, VariantImages

AttachInit == ExtrasInit /\ ImageInit
AttachNext == \/ ExtrasNext /\ UNCHANGED imageVars
              \/ ImageNext /\ UNCHANGED extraVars
AttachSpec == AttachInit /\ [][AttachNext]_<<extraVars, imageVars>>

-----------------------------------------------------------------------------
(* Properties.                                                             *)

\* The items of a bundle, tags, texts and sub SKUs, and the images of
\* variants, are what requests asked for, and are told.
AttachmentsAsAsked == ExtrasAsAsked /\ ImagesAsAsked /\ ImagesTold
=============================================================================
