------------------------------- MODULE SkuSearch -------------------------------
(* SellableProductListQuery: which SKUs a list shows, how many it says     *)
(* there are, what its pages hold, and what an export of the same list     *)
(* holds.  Conditions that compare one column with a set are one           *)
(* condition, on the product; the sellers and the categories, whose        *)
(* conditions depend on each other, are as in the code.  A list is read    *)
(* page by page while nobody changes what it shows.                        *)
EXTENDS Integers, FiniteSets, Sequences

CONSTANTS
  Listable, ProductNumber, ProductOf, SellerOf,  \* SKUs, and products, of which the largest are listed first
  CategoryId, PathOf, HolderOf,  \* PathOf: a category and those above it; HolderOf: its seller
  User,                          \* the seller of who asks
  PlatformOwner,                 \* get_default_platform_owner_of_seller
  TerminalRows,                  \* the rows of SKUs on terminals, with the sellers they apply to
  Requests,                      \* the parameters that are asked with
  PageSize,
  NotGiven, Every                \* None; the seller_id 0

ASSUME SearchAssumption ==
  /\ IsFiniteSet(Listable) /\ IsFiniteSet(TerminalRows)
  /\ ProductOf \in [Listable -> ProductNumber] /\ \A p \in ProductNumber : p \in Nat
  /\ PageSize \in Nat \ {0}
  /\ \A c \in CategoryId : c \in PathOf[c]
  /\ \A c, d \in CategoryId : c \in PathOf[d] => PathOf[c] \subseteq PathOf[d]
  /\ NotGiven # Every
  /\ \A q \in Requests :
       /\ q = [restrict |-> q.restrict, seller_id |-> q.seller_id, seller |-> q.seller,
               seller_ids |-> q.seller_ids, product_ids |-> q.product_ids,
               category |-> q.category, category_ids |-> q.category_ids]
       /\ q.seller_ids # {NotGiven}

VARIABLES
  active,   \* the active categories
  filings,  \* product -> its categories
  query,    \* the parameters of the list that is read, or NotGiven
  pages     \* the SKUs of each of its pages read so far

searchVars == <<active, filings, query, pages>>

\* A product is in one category of each seller at most.
OneOfEach == {cs \in SUBSET CategoryId : \A c, d \in cs : HolderOf[c] = HolderOf[d] => c = d}

SearchInit ==
  /\ active = CategoryId
  /\ filings \in [ProductNumber -> OneOfEach]
  /\ query = NotGiven /\ pages = <<>>

-----------------------------------------------------------------------------
(* A request restrict |-> restrict_seller, seller_id |-> a seller,         *)
(* NotGiven or Every, seller |-> sellers of terminals, seller_ids and      *)
(* product_ids |-> a set or NotGiven, category and category_ids |-> sets.  *)

\* apply_filters: the seller of the SKU, unless all were asked for, ...
SellersOwn(q) ==
  IF q.restrict /\ q.seller_id # Every
    THEN {k \in Listable : SellerOf[k] = IF q.seller_id = NotGiven THEN User ELSE q.seller_id}
    ELSE Listable

\* ... or a second table, joined to it by nothing: every SKU comes once for
\* each of its rows.
Times(q) ==
  IF ~q.restrict /\ q.seller_id # Every /\ q.seller # {}
    THEN Cardinality({r \in TerminalRows : r[1] \in q.seller})
    ELSE 1

\* Empty lists end the building of the query where they are met.
ObviouslyNone(q) == q.seller_ids = {} \/ q.product_ids = {}

\* The categories asked for and those below them, active ones only.
CategoriesAsked(cs, restrict) == {c \in cs \cap active : restrict => HolderOf[c] = User}
Below(cs) == {c \in active : PathOf[c] \cap cs # {}}

\* _filter_by_category_ids: no condition when there are none.
FiledUnder(cs) == IF cs = {} THEN Listable ELSE {k \in Listable : filings[ProductOf[k]] \cap cs # {}}

\* _apply_category_filter: for the SKUs of a seller the categories of the
\* owner of its platform and the others are two conditions.
InCategories(cs, restrict, seller) ==
  LET full == Below(CategoriesAsked(cs, restrict))
      platforms == IF seller = NotGiven THEN full ELSE {c \in full : HolderOf[c] = PlatformOwner[seller]}
  IN IF CategoriesAsked(cs, restrict) = {} THEN {} ELSE FiledUnder(platforms) \cap FiledUnder(full \ platforms)

OfSellers(q) == IF q.seller_ids = NotGiven THEN Listable ELSE {k \in Listable : SellerOf[k] \in q.seller_ids}
OfProducts(q) == IF q.product_ids = NotGiven THEN Listable ELSE {k \in Listable : ProductOf[k] \in q.product_ids}

\* seller_ids[0] when several are given: any of them.
Firsts(q) == IF q.seller_ids = NotGiven THEN {NotGiven} ELSE q.seller_ids

\* The condition the query has been built to.
Matching(q, first) ==
  IF q.seller_ids = {} THEN SellersOwn(q)
  ELSE IF q.product_ids = {} THEN SellersOwn(q) \cap OfSellers(q)
  ELSE SellersOwn(q) \cap OfSellers(q) \cap OfProducts(q)
       \cap (IF q.category = {} THEN Listable ELSE InCategories(q.category, q.restrict, NotGiven))
       \cap (IF q.category_ids = {} THEN Listable ELSE InCategories(q.category_ids, q.restrict, first))

\* _set_sku_category: the category a listed SKU is shown with is the one its
\* product has of the owner of the platform.
DefaultCategory(k) == {c \in filings[ProductOf[k]] : HolderOf[c] = PlatformOwner[SellerOf[k]]}

\* len(), all() and pages look at obvious_not_found first.
FoundFor(q, first) == IF ObviouslyNone(q) THEN {} ELSE Matching(q, first)

\* base_export_query always passes restrict_seller=False, whatever the list
\* was restricted to, and the exporters take the query itself.
Unrestricted(q) == [q EXCEPT !.restrict = FALSE]
Exported(q, first) ==
  IF Times(Unrestricted(q)) = 0 THEN {} ELSE Matching(Unrestricted(q), first)

Total(q, first) == Cardinality(FoundFor(q, first)) * Times(q)
PageCount(q, first) == (Total(q, first) + PageSize - 1) \div PageSize

-----------------------------------------------------------------------------

\* Rows come with the products in descending order, and the rows of one
\* product in any order, another one in every query.
RowsBefore(found, times, p) == Cardinality({k \in found : ProductOf[k] > p}) * times
RowsUpTo(found, times, p) == Cardinality({k \in found : ProductOf[k] >= p}) * times

\* Mutant of PageRows: the first page is left out.
PageRowsFromOne(n) == n * PageSize + 1 .. (n + 1) * PageSize

\* pagination: the rows from (page - 1) * page_size on.
PageRows(n) == (n - 1) * PageSize + 1 .. n * PageSize

\* Rows of one product of which some are on the page and some are not may be
\* those of any of its SKUs.
RowsOnPage(found, times, p, n) ==
  (RowsBefore(found, times, p) + 1 .. RowsUpTo(found, times, p)) \cap PageRows(n)
MayShow(found, times, p, n) ==
  {S \in SUBSET {k \in found : ProductOf[k] = p} :
     /\ Cardinality(S) <= Cardinality(RowsOnPage(found, times, p, n))
     /\ Cardinality(S) * times >= Cardinality(RowsOnPage(found, times, p, n))}

OnPage(found, times, n) ==
  {UNION {pick[p] : p \in ProductNumber} : pick \in
     {f \in [ProductNumber -> SUBSET found] : \A p \in ProductNumber : f[p] \in MayShow(found, times, p, n)}}

Ask(q) ==
  /\ \E first \in IF ObviouslyNone(q) THEN {NotGiven} ELSE Firsts(q) : query' = [asked |-> q, first |-> first]
  /\ pages' = <<>>
  /\ UNCHANGED <<active, filings>>

ReadPage ==
  /\ query # NotGiven
  /\ Len(pages) < PageCount(query.asked, query.first)
  /\ \E page \in OnPage(FoundFor(query.asked, query.first), Times(query.asked), Len(pages) + 1) :
       pages' = Append(pages, page)
  /\ UNCHANGED <<active, filings, query>>

LeaveList ==
  /\ query # NotGiven
  /\ query' = NotGiven /\ pages' = <<>>
  /\ UNCHANGED <<active, filings>>

\* A category is switched on or off (nothing is said of those around it).
SwitchCategory(c) ==
  /\ query = NotGiven
  /\ active' = IF c \in active THEN active \ {c} ELSE active \cup {c}
  /\ UNCHANGED <<filings, query, pages>>

SearchNext ==
  \/ query = NotGiven /\ \E q \in Requests : Ask(q)
  \/ ReadPage \/ LeaveList
  \/ \E c \in CategoryId : SwitchCategory(c)

SearchSpec == SearchInit /\ [][SearchNext]_searchVars

-----------------------------------------------------------------------------

ListedSkus == UNION {pages[i] : i \in DOMAIN pages}
AllRead == query # NotGiven /\ Len(pages) = PageCount(query.asked, query.first)

\* A SKU is missing from the pages, or on two of them, only when a page ends
\* in the middle of its product.
Cut(q, first, p) ==
  \E n \in 1 .. PageCount(q, first) :
    /\ RowsBefore(FoundFor(q, first), Times(q), p) < n * PageSize
    /\ n * PageSize < RowsUpTo(FoundFor(q, first), Times(q), p)

PagesHoldTheList ==
  AllRead =>
    /\ ListedSkus \subseteq FoundFor(query.asked, query.first)
    /\ \A k \in FoundFor(query.asked, query.first) :
         ~Cut(query.asked, query.first, ProductOf[k]) /\ Times(query.asked) > 0 =>
           Cardinality({i \in DOMAIN pages : k \in pages[i]}) = 1

\* An export beside the list it was asked for from, where no list of the
\* request is empty.  It is never restricted: of a list that is, it also
\* holds the SKUs of other sellers and those filed under the categories of
\* other sellers.  What it holds of the seller's own SKUs is in the list if
\* no category was asked for.  It leaves out nothing that is listed, unless
\* sellers of terminals that have no row were asked for (a restricted list
\* does not look for them), or the list is restricted and its categories are
\* told apart for a seller.
ExportsTheList ==
  AllRead /\ ~ObviouslyNone(query.asked) =>
    LET asked == query.asked
        exported == Exported(asked, query.first)
    IN /\ (~asked.restrict \/ asked.category \cup asked.category_ids = {}) =>
            \A k \in exported \cap SellersOwn(asked) :
               k \in ListedSkus \/ Cut(asked, query.first, ProductOf[k])
       /\ (/\ ~asked.restrict \/ asked.category_ids = {} \/ query.first = NotGiven
           /\ Times(Unrestricted(asked)) # 0) => ListedSkus \subseteq exported

\* No list of who is restricted to a seller shows another's SKU, unless all
\* were asked for.
StaysWithSeller ==
  query # NotGiven /\ query.asked.restrict /\ query.asked.seller_id = NotGiven =>
    \A k \in ListedSkus : SellerOf[k] = User

\* A search for a category finds what a search for one below it finds, and a
\* search for several what the searches for each find, together.
CategoriesAddUp ==
  query # NotGiven =>
    LET In(cs) == InCategories(cs, query.asked.restrict, NotGiven)
    IN /\ \A c, d \in active : c \in PathOf[d] /\ HolderOf[c] = HolderOf[d] => In({d}) \subseteq In({c})
       /\ \A cs \in SUBSET CategoryId : In(cs) = UNION {In({c}) : c \in cs}

\* A SKU that is listed for one seller under categories of its platform is
\* shown with one of the categories asked for, or one below them.
ShownUnderAsked ==
  query # NotGiven /\ query.asked.seller_ids = {query.first} /\ query.asked.category_ids # {} =>
    \A k \in ListedSkus :
      (\A c \in query.asked.category_ids : HolderOf[c] = PlatformOwner[SellerOf[k]]) =>
        /\ DefaultCategory(k) # {}
        /\ DefaultCategory(k) \subseteq Below(CategoriesAsked(query.asked.category_ids, query.asked.restrict))

SearchTypeOK ==
  /\ active \subseteq CategoryId /\ filings \in [ProductNumber -> SUBSET CategoryId]
  /\ pages \in Seq(SUBSET Listable)

\* A list shows what was asked for and no more, page by page and in total.
SearchFinds ==
  SearchTypeOK /\ PagesHoldTheList /\ ExportsTheList /\ StaysWithSeller /\ CategoriesAddUp
  /\ ShownUnderAsked
=============================================================================
