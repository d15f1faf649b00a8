--------------------------- MODULE MCAttributeSets ---------------------------
(* AttributeSets with two attributes, one system group and up to two       *)
(* groups in a drawing and two options in a configuration request.  A      *)
(* configuration of one attribute leaves a slot empty, one of two none.    *)
EXTENDS AttributeSets, DetailContent, VariantGroups

CONSTANTS a, b, v, s, t1, t2, brand

SystemAttributes == s :> {a}

DrawnGroup == [temp : {s} \cup Temp, parent : {None, s, t1}, attrs : SUBSET Attribute]
DrawingsOfTwo ==
  {d \in SeqOf(DrawnGroup, 2) :
     /\ \A i, j \in DOMAIN d : d[i].temp = d[j].temp => i = j
     /\ \A i \in DOMAIN d : d[i].temp = t2 => \E j \in 1..i : d[j].temp = t1}

Option == [id : ConfigId \cup {None}, brand : {None, brand},
           attrs : {<< <<a, v>> >>, << <<b, v>>, <<a, v>> >>}, deleted : BOOLEAN]
OptionsOfTwo ==
  {os \in SeqOf(Option, 2) : os # <<>> /\ \A n \in DOMAIN os : os[n].id = None => ~os[n].deleted}

-----------------------------------------------------------------------------
(* The detail of a SKU and the variants of a product.  They share no       *)
(* variable with the drawing of a set, so a behaviour is about one of the  *)
(* three.                                                                  *)

CONSTANTS kht, opt, size, pack, red, piece, box

VARIABLE part

ContentOptions == (size :> {opt, kht}) @@ (pack :> {opt})

Packs == pack :> size

UnitRows == {r \in VariantRow : <<r["uom"], r["uom_ratio"]>> # <<piece, 12>>}
RowsOfTwo == UNION {[1..n -> UnitRows] : n \in 1..2}
BatchesOfTwo == RowsOfTwo  \* TLC keeps the value of RowsOfTwo

AllInit == Init /\ ContentInit /\ VariantInit /\ part \in {"set", "detail", "variants"}
AllNext ==
  \/ part = "set" /\ Next /\ UNCHANGED <<contentVars, variantVars, part>>
  \/ part = "detail" /\ ContentNext /\ UNCHANGED <<vars, variantVars, part>>
  \/ part = "variants" /\ VariantNext /\ UNCHANGED <<vars, contentVars, part>>
AllSpec == AllInit /\ [][AllNext]_<<vars, contentVars, variantVars, part>>
=============================================================================
