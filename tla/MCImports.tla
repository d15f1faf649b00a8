------------------------------- MODULE MCImports -------------------------------
(* The master tree with its copies, the shipping policies over it, the     *)
(* bulk import of a seller's categories, the retries of a product file, and *)
(* the units and the brands that files name.  They share no table but the  *)
(* master tree, so a behaviour has requests of one kind.  With policies    *)
(* there are at most three categories, four writes and no copies; the      *)
(* master tree alone has the bounds of the cfg.                            *)
EXTENDS ShippingPolicies, CategoryBulk, FileImports, Units, Brands, TLC

-----------------------------------------------------------------------------

VARIABLE part  \* what the requests of the behaviour are about

CodesOfRow == {r \in SeqOf(Code, 3) : r # <<>> /\ IsInjective(r)}
TwoRows == {d \in SeqOf(CodesOfRow, 2) : d # <<>>}
BulkRequests == TwoRows

-----------------------------------------------------------------------------

CONSTANTS don, cha, con1, con2  \* the rows of the file

Kinds == (don :> "don") @@ (cha :> "cha") @@ (con1 :> "con") @@ (con2 :> "con")
Tags == [l \in Line |-> IF l = don THEN "own" ELSE "shared"]

-----------------------------------------------------------------------------

others == <<part, bulkVars, fileVars, unitVars, brandVars>>

ImportsInit ==
  /\ Init /\ BulkInit /\ FileInit /\ UnitInit /\ BrandInit
  /\ part \in {"masters", "policies", "bulk", "file", "units", "brands"}

ImportsNext ==
  \/ part = "masters" /\ TreeNext /\ UNCHANGED <<policyVars, others>>
  \/ /\ part = "policies" /\ Next /\ UNCHANGED others
     /\ Cardinality(DOMAIN master') <= 3 /\ writes' <= 4 /\ clones' = clones
  \/ part = "bulk" /\ BulkNext /\ UNCHANGED <<allVars, part, fileVars, unitVars, brandVars>>
  \/ part = "file" /\ FileNext /\ UNCHANGED <<allVars, part, bulkVars, unitVars, brandVars>>
  \/ part = "units" /\ UnitNext /\ UNCHANGED <<allVars, part, bulkVars, fileVars, brandVars>>
  \/ /\ part = "brands" /\ BrandNext /\ UNCHANGED <<allVars, part, bulkVars, fileVars, unitVars>>
     \* while a list is read one request at a time runs, and writes are three
     /\ list' = Nothing \/ (clock' <= 3 /\ Cardinality({w \in Worker : work'[w] # IdleWorker}) <= 1)

ImportsSpec == ImportsInit /\ [][ImportsNext]_<<allVars, others>>

Symmetry ==
  Permutations(ShippingType) \cup Permutations(Request) \cup Permutations({con1, con2})
  \cup Permutations(Session) \cup Permutations(UnitCode) \cup Permutations(UnitName)
=============================================================================
