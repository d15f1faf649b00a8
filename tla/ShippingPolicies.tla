---------------------------- MODULE ShippingPolicies ----------------------------
(***************************************************************************)
(* app/services/shipping_policy.py over the tree of master categories.     *)
(*                                                                         *)
(* A policy has a row for every pair of a provider and a category.  An     *)
(* update that names only one of the two takes the other from the rows     *)
(* there are, one element for each row, so that rows come to stand several *)
(* times.  The shipping type of a product is that of the policies of its   *)
(* provider for the deepest category on the path of its own.               *)
(***************************************************************************)
EXTENDS MasterCategories

CONSTANTS
  Policy, Provider,
  ShippingType,
  All,        \* what is answered when no policy applies
  MaxRows,    \* bound: how often a policy has a row
  MaxChanges  \* bound: how many requests change policies

ASSUME PolicyAssumption ==
  /\ Policy \subseteq Nat /\ IsFiniteSet(Provider)
  /\ MaxRows \in Nat \ {0} /\ MaxChanges \in Nat

VARIABLES
  policies,  \* shipping_policy: type and is_active
  rows,      \* how many rows there are of a policy, provider and category
  asked,     \* the providers and categories last asked for
  changes

policyVars == <<policies, rows, asked, changes>>
allVars == <<treeVars, policyVars>>

NoRows == [x \in Provider \X Category |-> 0]

PolicyInit ==
  /\ policies = [q \in {} |-> All]
  /\ rows = [q \in Policy |-> NoRows]
  /\ asked = [q \in Policy |-> [providers |-> {}, categories |-> {}]]
  /\ changes = 0

Change == changes < MaxChanges /\ changes' = changes + 1

\* A product of lists: one row for each pair of an element of one and an
\* element of the other; a list is given by how often it has an element.
Product(providers, categories) ==
  [x \in Provider \X Category |-> providers[x[1]] * categories[x[2]]]

Listed(S, T) == [x \in T |-> IF x \in S THEN 1 ELSE 0]

\* create_shipping_policy; ids are given out in order.
CreatePolicy(q, ps, cs, type) ==
  /\ q \notin DOMAIN policies /\ \A x \in Policy \ DOMAIN policies : q <= x
  /\ Change
  /\ policies' = [x \in DOMAIN policies \cup {q} |->
       IF x = q THEN [type |-> type, active |-> TRUE] ELSE policies[x]]
  /\ rows' = [rows EXCEPT ![q] = Product(Listed(ps, Provider), Listed(cs, Category))]
  /\ asked' = [asked EXCEPT ![q] = [providers |-> ps, categories |-> cs]]

\* The rows of q, numbered where a pair has several.
RowsOf(q) == {r \in (Provider \X Category) \X (1..MaxRows) : r[2] <= rows[q][r[1]]}

\* The elements of the rows of q, once for each row.
ProvidersOf(q)  == [p \in Provider |-> Cardinality({r \in RowsOf(q) : r[1][1] = p})]
CategoriesOf(q) == [c \in Category |-> Cardinality({r \in RowsOf(q) : r[1][2] = c})]

\* Mutant of Replaced: the old rows are not deleted.
ReplacedBeside(q, ps, cs) ==
  LET new == Product(IF ps = {} THEN ProvidersOf(q) ELSE Listed(ps, Provider),
                     IF cs = {} THEN CategoriesOf(q) ELSE Listed(cs, Category))
  IN  [x \in Provider \X Category |-> rows[q][x] + new[x]]

\* The rows of q after an update that names ps and cs; an empty list counts
\* as not named.
Replaced(q, ps, cs) ==
  Product(IF ps = {} THEN ProvidersOf(q) ELSE Listed(ps, Provider),
          IF cs = {} THEN CategoriesOf(q) ELSE Listed(cs, Category))

\* update_shipping_policy, of lists, type and is_active: the old rows are
\* deleted, and inserted again also when neither list is named.
UpdatePolicy(q, ps, cs, type, active) ==
  /\ q \in DOMAIN policies
  /\ Change
  /\ \A x \in DOMAIN Replaced(q, ps, cs) : Replaced(q, ps, cs)[x] <= MaxRows
  /\ rows' = [rows EXCEPT ![q] = Replaced(q, ps, cs)]
  /\ policies' = [policies EXCEPT ![q] = [type |-> type, active |-> active]]
  /\ asked' = [asked EXCEPT
       ![q].providers  = IF ps = {} THEN @ ELSE ps,
       ![q].categories = IF cs = {} THEN @ ELSE cs]

PolicyNext ==
  \E q \in Policy, ps \in SUBSET Provider, cs \in SUBSET Category, type \in ShippingType :
    \/ ps # {} /\ cs # {} /\ cs \subseteq DOMAIN master /\ CreatePolicy(q, ps, cs, type)
    \/ cs \subseteq DOMAIN master /\ \E active \in BOOLEAN : UpdatePolicy(q, ps, cs, type, active)

\* Mutant of Deepest: in ascending order.
DeepestFirst(cs) == {c \in cs : \A x \in cs : master[c].depth <= master[x].depth}

\* order_by depth desc.
Deepest(cs) == {c \in cs : \A x \in cs : master[x].depth <= master[c].depth}

\* The active policies that provider p has for category x.
PoliciesFor(p, x) == {q \in DOMAIN policies : policies[q].active /\ rows[q][<<p, x>>] > 0}

\* get_shipping_property_of_sellable_product: what it may answer, as first()
\* takes any of several policies of the deepest category.
ShippingOf(p, c) ==
  LET mapped == {x \in ToSet(master[c].path) : PoliciesFor(p, x) # {}}
  IN  IF mapped = {} THEN {All}
      ELSE {policies[q].type : q \in UNION {PoliciesFor(p, x) : x \in Deepest(mapped)}}

\* ShippingPolicyListQuery, asked for providers and categories, of which an
\* empty list counts as not given: a row that has one of each, grouped by its
\* policy, so that a policy is listed and counted once.
PoliciesShown(ps, cs) ==
  LET matches(x) == IF ps # {} /\ cs # {} THEN x[1] \in ps /\ x[2] \in cs
                    ELSE x[1] \in ps \/ x[2] \in cs
  IN  IF ps = {} /\ cs = {} THEN DOMAIN policies
      ELSE {q \in DOMAIN policies : \E x \in DOMAIN rows[q] : rows[q][x] > 0 /\ matches(x)}

Init == TreeInit /\ PolicyInit
Next == \/ TreeNext /\ UNCHANGED policyVars
        \/ PolicyNext /\ UNCHANGED treeVars
Spec == Init /\ [][Next]_allVars

-----------------------------------------------------------------------------
(* Properties.                                                             *)

\* The variables have the shapes given above.
TypeOK ==
  /\ DOMAIN master \subseteq Category /\ \A c \in DOMAIN master : master[c] \in Row
  /\ askew \subseteq DOMAIN master
  /\ \A x \in DOMAIN clones : x \in (1..MaxClones) \X Category
  /\ DOMAIN policies \subseteq Policy
  /\ \A q \in DOMAIN policies : policies[q] \in [type : ShippingType, active : BOOLEAN]
  /\ rows \in [Policy -> [Provider \X Category -> 0..MaxRows]]
  /\ writes \in 0..MaxWrites /\ changes \in 0..MaxChanges

\* A policy covers the providers last asked for, each with the categories last
\* asked for, however often updates that named one list, or neither, have
\* multiplied its rows.
CoversWhatWasAsked ==
  \A q \in DOMAIN policies :
    {x \in DOMAIN rows[q] : rows[q][x] > 0} = asked[q].providers \X asked[q].categories

\* A product is shipped as the nearest category above its own asks, by the
\* links of the rows, although paths and depths are what is read: as long as
\* no category above it is askew.
NearestPolicyDecides ==
  \A c \in DOMAIN master, p \in Provider :
    LET mapped == {x \in Above(c) : PoliciesFor(p, x) # {}}
    IN  Above(c) \cap askew = {} =>
          ShippingOf(p, c) =
            IF mapped = {} THEN {All}
            ELSE {policies[q].type : q \in UNION {PoliciesFor(p, x) :
                    x \in {y \in mapped : \A z \in mapped : z \in Above(y)}}}

\* A list for providers and categories has the policies that were asked to
\* cover one of each, whatever pairs of them the rows were made of.
ListsWhatWasAsked ==
  \A ps \in SUBSET Provider, cs \in SUBSET Category :
    PoliciesShown(ps, cs) =
      {q \in DOMAIN policies : /\ ps # {} => asked[q].providers \cap ps # {}
                               /\ cs # {} => asked[q].categories \cap cs # {}}

\* Policies cover what was asked and are listed under it, and the nearest one
\* decides.
PoliciesAsAsked == TypeOK /\ CoversWhatWasAsked /\ NearestPolicyDecides /\ ListsWhatWasAsked
=============================================================================
