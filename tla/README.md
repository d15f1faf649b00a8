# A TLA+ verification of the catalogue service

The repository is a Flask service that keeps a product catalogue: sellers, the
categories they file products under, products with their variants, the sellable
products (SKUs) made of them, brands, units, attributes. Requests change MySQL
tables through SQLAlchemy. Changes are told to other services through signals, which
become events of a RAM queue (a table polled by consumers), Kafka messages or
RabbitMQ messages. The ORM models (`catalog/models`), the signal handlers
(`catalog/biz`) and the RAM library (`library/pyram`) are imported by the code but
are not part of the repository. They are modelled from how `src/app` uses them, and
marked external in `PROJECT.json`.

## 1. Inventory

| Component | State | Operations | Interacts with | Hard behaviour | What makes it correct |
|---|---|---|---|---|---|
| Seller categories (`services/categories`) | `categories`: parent_id, path, depth | create, update (move a subtree), bulk import, clone a master tree | signals to the RAM queue; SKUs inherit attribute sets and shipping types by path | concurrent requests on snapshots, recursive rewrite, exchange of place with a descendant | paths and depths agree with parents; no circle; moves are announced |
| Master categories | the same columns | create, update | cloned into seller categories | reparenting without a check, unordered rewrite | the same |
| Sale categories | parent_id, path, depth, priority, is_active | create, move among siblings, deactivate | none | several commits in one request | priorities order the siblings; paths agree; nothing active below something inactive |
| Sellable products (`services/products/sellable.py`) | `sellable_products`, barcodes, terminals, bundles, tags | create, update, editing status, move to another product | signals per SKU, product details | SKU numbers by read-then-add, commits in the middle of a loop | SKUs unique; one default barcode; every change is followed by its event |
| Products and variants | `products`, `product_variants`, attributes, images, product categories | create, update, move group | sellable products | partial commits, check-then-act on names and codes | a variant and its SKUs belong to the same product |
| Brands, units | `brands`, `units`, attribute options | create, update, delete | RAM queue, attribute option of the unit | code = last code + 1 | codes unique; option mirrors the unit |
| Attribute sets, attributes | groups, priorities, options, configurations | create, update with retries | variants | retry of half-done work | priorities without gaps |
| Sellers and platforms | `sellers`, `platform_sellers`, a 300 s cache | upsert, assign platform | category events per platform | flags never reset, an event that resends itself, two events about the same pair in either order | one owner per platform; every default seller is told the active categories |
| Terminals, terminal groups | terminals, groups, mappings | upsert from messages | sellable products | duplicates, reordering | mappings follow the last message |
| Shipping policies and types | policies, mappings | create, update | categories, SKUs | two policies for one category | a category has one policy per provider |
| Product imports (`services/imports`) | `file_imports`, `result_imports` | upload, retry rows | importers in `catalog/biz` | retry of rows that succeeded, concurrent retries | counters agree with rows; one parent per tag |
| RAM consumers (`extensions/ram_queue_consumer`) | event table, `product_details_v2` | one handler per event key | everything that signals | at-least-once, reordering, crash between commit and signal | derived rows end up right |
| Kafka consumer and publisher (`extensions/ram`) | none | update dimensions, publish new SKU | warehouse | swallowed errors, retries | an update is not lost |
| RabbitMQ consumer (`extensions/queue_consumer`) | `msg_log`, connection | run, process | handlers by signal | crash, dropped connection, redelivery, failing handler | nothing lost without a trace |
| Login (`extensions/login_manager.py`) | token cache, `users` | load user | IAM service | first login twice, stale token | one user row |
| API framework, logs, templates | none of their own | | | | not modelled |

`PROJECT.json` lists each part with its files, and under `hazards` the places where
the code is hard to test, with the properties that cover them.

## 2. Plan

The order was: the category tree (the richest data invariant of the code), the
RabbitMQ consumer (crashes and redelivery), the projection of products into
`product_details_v2` (events between components), sale categories (a request with
many commits), the categories of a platform (events in either order), the life of
products, variants and SKUs; then what hangs on them, attribute sets and the content
of a detail, units and brands, and master categories with the bulk import and the
retries of files. These are done.

Compositions: `CategoryTree` implements `CategoryForest`, `SaleCategories`
implements `SaleCategoryOrder`, `CategoryDepth` is evaluated on the trees of
`CategoryTree`, `ShippingPolicies` extends `MasterCategories`. Parts that share no
table are checked side by side: `MCSkus`, `MCAttributeSets` and `MCImports`
put several modules together, `MCConsumers` the two kinds of consumers, and a
variable `part` says whose requests a behaviour
takes, so the states of a run add up instead of multiplying. A property of such a
run is that of the part, and trivially true of the others. `Skus` declares what
`SkuDetails`, `SkuTerminals` and `SkuExtras` all are about, `Ascending` is the order of
ids that several sort by, `NoValue` what stands for no value in
`AttributeSets`, `DetailContent` and `VariantGroups`; the modules with theorems are
extended by the module of their run, so that what is proved is what is checked.

Left, by what it would add: the product events of `ProductDetailSync` fed by
`SkuDetails` (one of its requests commits in the middle); copying of attribute sets;
the other fields of `update_product`. Every safety property of section 4 but
`ResultIsHeight` is a theorem.

## 3. Modules

### CategoryTree, CategoryForest

`CategoryTree` models `CategoryService.create_category` and `update_category` with
everything they call. `table` is the committed table; a row holds parent, path and
depth. A session takes a snapshot with its first query (`snap`), works on its own
copy (`work`) and commits column by column (`Merged`), because an UPDATE of
SQLAlchemy names only the columns whose value changed. The session has repeatable
reads, MySQL's default, which `config.py` leaves alone.

| Action | Code |
|---|---|
| `BeginCreate` | `create_category` up to the commit |
| `BeginUpdate`, `MoveCalls`, `IsChild` | `update_category` up to the first move, `_is_child` |
| `NextMove` | the one or two top-level calls of `move_node_to_new_parent`, with the flush between them |
| `MoveNode`, `Placed` | one call of that recursion; the pending calls are the set `todo` |
| `SignalParent`, `Commit`, `SignalNode`, `Answer` | the end of either request |
| `Abort`, `Crash` | `global_error_handler` before the commit; a dying worker after it |

Read off the table: `BelowByPrefix` (`apply_shipping_type_to_skus`), `BelowById`
(`get_category_tree`), `InheritedByPath` (`_get_attribute_set_inherited_category`)
and `InheritedByParent` (`get_category_with_id`).

The model of `Category` is external: its relationship `children` is taken to be a
query over the session's flushed rows (the flush between the two moves is only
needed then). A category that is to be its own parent makes the code recurse until
Python's limit, so that request only aborts, and `BeginUpdate` leaves it out.
Nothing in the code locks rows or checks versions, so two requests that touch the
same categories can overwrite each other. `stale` becomes true at such a commit and
the behaviour is not followed further: the properties say what holds as long as
requests do not collide, and every property that needs this says so. Other columns,
shipping types and the choice of a master category are left out.

`CategoryForest` is the abstract promise: a forest in which each request is one
atomic insertion, move or exchange of place. `CategoryTree` holds the refinement
mapping (`Forest`: the committed parent links; `collided` is `stale`).

### CategoryDepth

`calculate_maximal_children_depth` (it has no caller in the repository): the loop
over a queue, and a recursive definition of the height. `MCCategoryTree`
instantiates it with the rows of the committed tree, so it is evaluated on every
tree that requests build. It holds RECURSIVE operators and no theorem. The docstring
of the helper counts differently from the code: its example is `ExampleIsFour`, a
finding; `ResultIsHeight` says what the code computes, the links on the longest way
down.

### MessageConsumer

`QueueConsumer` and `MessageProcessor`. `broker` says where each message is, `acks`
what each connection still carries, `log` the committed `MsgLog` rows with what
became of the handlers. `Receive`, `Save`, `Ack`, `Process`, then `Return` or
`Raise` are the steps of `_on_msg_received`; `CrashConsumer`, `Drop`, `Notice` and
`Restart` the failures. The handlers themselves are external: they return or raise. A
database error has the effect of `CrashConsumer`, since nothing catches it.

### ProductDetailSync

How `product_details_v2` follows `sellable_products` and `brands`. `Create`,
`UpdateStatus`, `UpdateCommon`, `UpdateCommonStatus` and `UpdateCommonRest` are the
commits of `create_sellable_products`, `update_sellable_editing_status` and
`update_common`; `Signal` sends one signal after the commit. `UpdateBrand` is
`__update_brand`, which sends its signal before its commit. `Select`, `Insert` and
`BrandDone` are `process_update_brand` inside `session_scope`; `Compute`, `Upsert`
and `DetailDone` are `process_update_product_detail_v2`. A detail row is reduced to
the brand, the name of the brand and a revision of the product's own data. One
consumer works on each event key (`run_default_consumer`,
`run_update_product_detail_v2_consumer`). The signal handlers are external: an event
is stored when its signal is sent, within the sender's transaction if that is still
open. `MCConsumers` checks this module and `MessageConsumer` in one run.

### SaleCategories, SaleCategoryOrder

`SaleCategoryService`. `row` is what the session of the request sees, `saved` what
is committed: `update_position` commits parents and priorities first (`Move`), then
rewrites the paths in a recursion whose pending calls are `calls` (`Visit`), each
call committing when it returns, so that a `Crash` leaves a part of them behind.
`Create` is `create_sale_category`, `Switch` is `update_sale_category` with
`is_active`. Two facts of the code show up as variables: a new category's path lacks
its own id until the next move, because the id is added after the commit (`fresh`),
and a subtree whose rewriting was cut short keeps old paths (`torn`); the path
property names both exceptions. Requests are taken one after the other. The
validators are not in the repository and are taken to ensure what the code needs: no
move below oneself, no activation that `_allow_edit_master_category` refuses.

`SaleCategoryOrder` is what a user sees: an ordered list under every parent, to
which a category is added last or in which it is dropped after another one.
`Orders` reads those lists off the committed priorities.

### PlatformCategories

How the sellers of a platform learn the categories of its owner, with
`services/seller.py`, the requests of `services/categories/category.py` and the
category and platform handlers of the RAM consumer. `CreateCategory`,
`UpdateCategory` and `Assign` end with their commit and leave an event in `due`;
`Signal` sends it, `Die` loses it (`lost`). `TakeCategory` finds out who is to be
told when the event is handled; `TakePlatform` finds the categories of the owner and
asks the other service, which may `Accept` or `Refuse` (the event is then sent again
with a delay); `Publish` and `Seed` are one round of the two loops, `Done` and
`Fail` their ends. `told` holds the pairs published, by a message of creation or of
update alike. A delayed event may be taken at any later time, equal waiting events
count once, and the scoped session is taken to start afresh with each event (were it
kept, `platform_sellers` would be read from an old snapshot).

### ProductLife

Products, variants and SKUs through their operations in
`services/products/product.py`, `variant.py` and `sellable.py`. Every request
modelled has one commit, at its end, so it is one step; overlapping requests are not
modelled.

| Action | Code |
|---|---|
| `CreateProduct`, `CreateVariants`, `SetAttributes` | `create_product`, `create_variants`, `upsert_variant_attributes` |
| `CreateSkus`, `NewNumber`, `BatchNumber` | `create_sellable_products`, `create_sellable_product`, `gen_new_sku`, `gen_new_bundle_sku` |
| `SetStatus`, `Spread` | `update_sellable_editing_status` |
| `MoveGroup`, `MoveSkus`, `MovedAttrs` | `move_group`, `move_skus_to_single_product` |
| `DeleteVariant`, `DeleteDraft`, `DeleteProduct` | the three deletions |
| `NextMonth` | the clock that the SKU prefix is read from |

SKUs are keyed by their variant: the importers and validators, which are external,
are taken to give a variant one SKU. A number is year and month followed by a
serial; `Block` is how many serials a month has, and the number after the last one
is given out once more for every further SKU, since the query compares a prefix and
a length. The tables have no foreign keys in the model (their definition is not in
the repository; the deletions delete referenced rows first, but `delete_product` not
the attribute values of its variants). `abandoned` and `lost`
remember what `delete_product` left behind when told to keep the SKUs, `orphans` the
variants it deleted, whose attribute values always stay. Left out: names, codes, uom,
images and barcodes (of deleted rows too), the default variant, and the signals, which
are those of `ProductDetailSync`.

### SkuDetails, SkuTerminals, SkuSearch, SkuExtras, VariantImages

What hangs on SKUs; `MCSkus` checks the five together, each in behaviours of its
own.

`SkuDetails`: category, barcodes and shipping types of SKUs, and the categories
their product is filed under. `Create`, `Update`, `UpdateProduct` and
`ApplyShipping` are `create_sellable_product`, `update_common`, the categories of
`update_product` and `apply_shipping_type_to_skus`. `update_common` applies the
fields of its data in the order they were sent, and the field `editing_status_code`
commits; `UpdateRefused` is a request that a later field refuses, so that only
`Kept`, the fields before that commit, stays.

`SkuTerminals`: `SetTerminals` writes the terminals of SKUs unless `Unchanged` says
they are as ordered; `SetGroups` or `ChangeGroups`, then `Delete` and `Insert` with
a commit each, are the requests about terminal groups; `UpsertTerminal`, `MapGroup`
and `UnmapGroups` are the messages of other services, in any order.

`SkuSearch`: `SellableProductListQuery` with its conditions on sellers, categories and
products. `Total`, `OnPage` and `Exported` are the count, a page and the export of one
request; `base_export_query` drops the restriction to the seller (`Unrestricted`).
Conditions that compare one column with a set are one condition, on the product. A row
that a page ends before may be that of any SKU of its product, for the query sorts by
product only (`MayShow`).

`SkuExtras`: items of a bundle, tags, texts on terminals, and sub SKUs. The four
requests read rows, write what follows from what they read, commit, and signal, so
they are one set of actions (`Begin`, `Commit`, `Say`, `Die`) and `about` says which
table a behaviour is about.

`VariantImages`: `update_variant`: the images of all variants of the request are
deleted in a commit, then each variant gets its new ones in a commit of its own
(`DeleteImages`, `InsertImages`, `Tell`). The variants found and the data sent are
paired by their places when both are sorted (`GivenTo`), so an unknown id shifts
those after it. `SkuAttachments` puts it beside `SkuExtras`, with which it shares no
table, and `AttachmentsAsAsked` is what both promise.

### AttributeSets, DetailContent, VariantGroups

`AttributeSets`: one set. `Update` draws its groups anew and carries over which
attributes vary; `CreateVariation` and `OrderVariations` rank those; `CreateConfigs`
and `SetDetails` are the SEO configurations with their check for `Duplicates`, and
`SeoByConfig` and `SeoDefault` are how `seo_config.py` of the RAM consumer chooses
one for a product. Rows that are saved one after the other get the free ids in order
(`Assigned`); options are handled by `Sorted` order. Requests name no two groups by the
same `temp_id`, and an option has no more pairs than a row has slots
(`DrawingsAssumption`, `OptionsAssumption`).

`DetailContent`: the rows a product detail has for the attributes of a variant
(`sellable_product_advanced_info.py` and `attribute_group.py`): `JoinedRows`, `CommonRows`,
`HeadingRows` and `FlatRows`. Its actions change the tables one row at a time.
`place` holds `attribute_group_attribute`: an attribute may be in several groups, and
its value is then shown in each that displays it. That a group has one row of an
attribute is assumed (requests name an attribute once in a group).

`VariantGroups`: variants that are the same thing in different units. `BeginCreate`
reads the others in the request's snapshot, `FinishCreate` commits the batch and
writes `Regrouped`, the list of the whole group, into each; `Upsert` and `DeleteVariant`
are the other writers, `CreateSku` takes the number of the base unit from that list.
`Listed`, `Offered` and `UomSkus` are what `product_group.py` makes of it.

`MCAttributeSets` checks the three together.

### Units, Brands

`Units`: `unit.py`, its validators, and the option of the attribute `uom` that
mirrors a unit. A request reads in `Begin*` and writes in `CommitSync` or
`CommitDelete`; options can be edited on their own (`CreateOption`, `UpdateOption`,
`DeleteOption`). `CodesOf` and `OptionsToUse` are what importers find by a name.
`synced` holds what was written after the last edit by hand, `raced` and `missed`
the keys of requests that met.

`Brands`: `GenCode` adds one to the code of the last coded brand, `Insert` and
`CommitCreate` follow after the call of the image service, which may fail
(`GiveUp`); `Read` and `CommitUpdate` are the updates by id and by code. `OpenList`
and `ReadPage` page through the list, sorted by time of the last update, while the
table changes; each write has a time of its own, so that order is one.

### MasterCategories, ShippingPolicies, CategoryBulk, FileImports

`MasterCategories`: `MoveMaster` rewrites the rows below in any order (`Repathed`),
as the code's query is unordered (`Rewritten`); `askew` holds what a rewrite before
the parent's has left. `Clone` is `clone_top_level_cat`. `ShippingPolicies` extends it:
`CreatePolicy`, `UpdatePolicy` (the product of two lists read from the rows, `RowsOf`),
`ShippingOf` (the policies of the deepest category on the path) and `PoliciesShown`
(the list).

`CategoryBulk`: `Import` is one request of rows on three levels with one commit
(`WithRows`, one `WithRow` after the other), `Notify` one signal after it, level by
level, and `DieNotifying` a worker that dies in the pauses between them.

`FileImports`: one file. `BeginRetry` takes the rows in an order, `CreateParent` or
`TakeParent` finds the product of a tag, `Succeed`, `FailRow` and `SkipParentRow`
end a row, `EndRetry` and `DieRetrying` the request. The importers themselves are
external, and one that succeeds commits the session, so what a retry had not
committed yet is committed with it. `FileConstants` says that a tag has one parent
row: tags are made outside the repository so that they join a parent with its
children (`ResultImport.tag`).

`MCImports` extends these and the two of the last section and checks them together.

## 4. Runs

| Run | Question | Bounds and why they are enough |
|---|---|---|
| `category_interleaved` | do interleaved requests keep the tree consistent, announce every move and act like atomic steps? | 3 ids, 2 sessions: enough for a chain of three, an exchange of place in the middle of it, and two requests on disjoint and on overlapping parts. 4 ids were not explored to the end |
| `category_deep` | do moves and path readers agree on deeper trees, and does the depth helper measure them? | 6 ids, 1 session: every tree of six, so subtrees of depth four on the move |
| `depth_docstring` | a statement of a docstring | 5 ids, 1 session: the tree the docstring draws is one of those built |
| `consumers` | what do failures of the RabbitMQ consumers lose or repeat, and does the queue empty? can a change of brand or of a product slip through the fan-out, and do detail rows end up right? | messages: 2 messages, 2 consumers (one with debug), 2 failures: a failure while another one's redelivery is under way; 3 failures were also explored once without an error. details: 1 product of 3 revisions (the two commits of `update_common` need two changes), 2 brands with one change of name each, 2 sessions, 1 failure: the product leaves and enters a brand whose name changes meanwhile; 2 products were explored once without an error for the invariant alone |
| `consumer_ack` | a statement of the docstrings | 1 message, no failure |
| `sale` | are siblings numbered without gaps, do paths follow parents when a move commits in parts, does switching open gaps, is every commit one drop or addition on the lists? | 3 ids, both switches, 1 crash: a chain of three whose middle is active below an inactive one; three siblings to reorder; a moved category with two below it. 4 ids without switches were explored once without an error |
| `platform_told` | can a category and a new seller of the platform miss each other? | an owner and a seller, 1 platform, 1 category, 2 sessions, 1 failure, 1 lost signal: the race is between one category and one assignment; the second session puts a deactivation or another assignment in between |
| `platform_everybody` | is every default seller told in the end? | the same with 1 session and no lost signal |
| `product_life` | do SKUs stay with their variants, and what do deletions, moves and releases leave? | 2 products, 3 variants, 1 attribute, 2 months of 2 serials, batches of 2, without bundles: two SKUs moved together beside a third; a month that is used up and one that begins. Bundles use the same definitions with another block; with them and two months the exploration was not finished |
| `skus` | is what hangs on SKUs what requests asked for, and do lists show what they are asked for? | details: 2 SKUs, 3 categories of 2 sellers, 4 requests, six orders of fields with the committing one in each place; terminals: 2 codes on 2 terminals, 2 groups, 2 sessions; search: 3 SKUs of 2 products on pages of 2, so that a page ends inside a product, and sellers whose rows multiply; extras: 2 SKUs and a bundle, 2 sessions, 3 requests, at most 2 tags and 3 sub SKUs; images: 2 variants with an unknown id between or above them, 2 sessions, 3 requests |
| `attribute_sets` | do sets, configurations, details and variants survive each other's changes? | set: 2 attributes, 1 system group, 2 groups in a drawing, 2 configurations with 2 slots, 4 requests, enough for an update, two configurations and their exchange in one request, and an update again; detail: every set of 3 groups with 2 attributes, 2 options and 2 rows of attributes in groups, so an attribute stands in two groups, flat or not, below each other or not, or two attributes in one; variants: 3 variants, 2 units, 2 ratios, with a color or without, 2 workers |
| `imports` | do the other writers of category paths keep them, and do retries, units and brands count right? | masters: 4 ids, 6 writes, 2 copies, so a tree of four is built and moved twice; policies: 3 ids, 4 writes, 2 policies, 1 provider, 2 changes; bulk: 3 codes, 2 requests of 2 rows; file: a row of its own, a parent and two children, 2 requests at once, 2 retries each; units: 2 units, the platform and 2 sellers, 2 sessions, 4 writes, 3 options; brands: 1 code, 2 sessions, 4 writes, pages of one. While a list of brands is read one other request runs at a time |

`RequestsSound`, `ReadersAgree`, `FailureCostsOne`, `RowsOrPending`, `RowsNumbered`,
`SatellitesWhole`, `TerminalsAsAsked`, `SearchFinds`, `AttachmentsAsAsked`,
`GroupsWellDrawn`, `ConfigsSound`, `PoliciesAsAsked`, `RetriesSound`,
`OptionsFollowUnits`, `BrandsCounted` and others are conjunctions; the parts are
defined, each with what it says, in the module of the component, and the type
invariant of a module is one of them (`CategoryTree`, `SaleCategories`,
`PlatformCategories`, `ProductLife` and `FileImports` have theirs proved instead,
section 5).

Many properties name an exception, such as requests that overlapped or a worker that
died: this is what the code does, seen in a counterexample to the property without
it. Section 7 lists the ones worth knowing. Some exceptions are the very outcome that
a hazard fears. These properties do not show that it stays away; they show how far it
goes:

| Property | What the code does and the property excuses | What it shows |
|---|---|---|
| `NumbersDistinct` | the number after the last of a month is given again | no other number repeats |
| `BulkFollowsParents` | a bulk import leaves the paths below a moved category | no other path is wrong |
| `PathsFollowMasters` | a row rewritten before its parent gets the old prefix | which rows those are, and that a later move puts them right |
| `BrandsCounted` | codes repeat after overlaps and brands without a code | none is skipped, and coded ones rise |
| `RetriesSound` | a row that is retried after it succeeded counts again | overlaps and deaths add nothing to the count |
| `MovedTakeAttributes` | SKUs moved together may lack an attribute of the target | none has one that the target lacks |
| `ReleaseLasts` | new SKUs put an active product back to processing | nothing else does |

The two runs that expect a violation, `consumer_ack` and `depth_docstring`, show where
docstrings say something else than the code does; `findings` in `PROJECT.json` quotes
them.

Deadlock is not checked: requests may stop coming, ids run out, and the behaviours
of `CategoryTree` end after a collision.

Fairness. `consumers`, for messages: a consumer's thread is scheduled, data on a
connection that stays up arrives, and a supervisor restarts a process that ended;
failures are finitely many. For details: a request that was begun goes on and the
consumers keep running; requests and failures have no fairness. Both use weak
fairness only, and a part that a behaviour is not about has nothing enabled that it
would be owed. `platform_everybody`: weak fairness of the signals and of a handler's
loop; strong fairness of taking each event, because the RAM library is taken to pass
no event of its table over for ever, and of being accepted for each seller, because
the code resends the event until the other service knows the seller: that it will
some day is the assumption the retry rests on.

## 5. Proofs

`CategoryTreeProofs` proves, for any sets of ids and sessions, that `CategoryTree`
keeps its types (`TypeCorrect`) and that the committed tree stays consistent
(`TreeStaysConsistent`), from `ConstantsAssumption` alone. `TreeConsistent` is not
inductive: a commit writes what a session computed earlier, from an older snapshot.
The invariant `IInv` adds

- `IdsFresh`: an id in the table, or in a session's creation, has been issued, and
  two sessions do not create the same one;
- `SessionOK(s)`: the snapshot of a running session is a consistent tree whose rows
  still exist, and its working copy differs from it as far as its work has come: for
  a creation in one row that fits its parent, for a move only inside the subtree of
  the moved category, where every row fits its parent except those that still have a
  call pending.

The step that matters is the commit: when no call is pending the subtree fits,
nothing outside it was written, and, if the footprint is undisturbed, the rows that
other sessions committed neither are in the subtree nor hang from it with a path of
their own. The proof goes action by action (`BeginCreateInv` to `CloseInv`), with
the commit split into `CreateCommitConsistent` and `MoveCommitConsistent`;
`SessionFrame` says what a session needs of the others.

The same module goes on with what the requests promise: `MovesEndAsDrawn`
(`MovesAsDrawn`) and `ChangesAnnounced` (`ReparentedAnnounced`, a part of
`RequestsSound`), again for any ids and sessions. `MovesInv` says for every category
which parent it will have (`Drawn`), and that it has it or the call that gives it is
still to come (`Due`). The recursion could undo a move only through a call with another
parent, so the invariant also says what calls are pending: one for a child repeats the
parent the child has, and a top-level call that changes a parent is pending alone.

`ActsAsForest` proves `ImplementsForest`, the refinement, step by step: the initial
table maps to the empty forest, a commit of a creation to `Insert`, of a move to
`Move` or `Swap` (by `MovesInv` the committed parents are those drawn), a commit over
another one to the step that sets `collided`, and every other step to a stutter.

The last part of the module is about the paths. `ReadersFindTheTree` (`ReadersAgree`) says
that those who read the tree by paths, by depths and by parents see the same tree:
in a consistent table an ancestor stands on the path at the place its depth names
(`PathOfAncestor`), so the rows whose path has a category's as prefix are its
subtree (`PrefixFindsSubtree`), and inheriting by path and by parent end at the same
ancestor (`InheritedBothWays`). These are proved from the roots down (`FromRoots`: a
set that holds the roots, and with a category its children, holds every row),
because a path of a row that breaks a claim would have a shortest one.
`RequestsStaySound` (`RequestsSound`) adds that no path a session ever writes, also
in the middle of a move, has a circle. That is not inductive: `move_node_to_new_parent`
reads the path of the new parent from rows it is about to rewrite. `SimpleInv` says
of every pending call that the path of the parent it names climbs by the parents of
that moment and does not pass the node to be moved (`CallClimbs`), and of the two
calls of an exchange which is still to come (`Phase`).

`SaleCategoriesProofs` proves for any finite set of ids and any number of crashes
`SiblingsStayNumbered` (`RowsNumbered`), `PathsStayBelowParents`
(`PathsFollowParents`), `SwitchingIsSafe` (`SwitchingOpensNoGap`) and `ActsAsOrder`
(`ImplementsOrder`). `IInv` relates the session's rows to the committed ones:

- `Tables`: both have the same ids, parents and priorities, and siblings are
  numbered from one;
- `Committed`: when no call is pending everything is committed;
- `CallsInside`, `Inside`, `Outside`: pending calls are of the moved subtree and
  repeat parents; what of it does not fit yet is below one of them; all other rows
  are committed and fit, but for those that `fresh` or `torn` excuse.

The step that matters is `Move`, which sorts siblings, inserts one and numbers them
again. `ByPriorityLists` and `InsertedLists` say what such a list holds, `MovedTable`
what the numbering makes of the table; the refinement adds that sorting a numbered
list gives the list itself (`SortedOnce`), so `Create` is `Add` and `Move` is `Drop`
on the lists (`CreateIsAdd`, `MoveIsDrop`) and the other steps leave them alone.

`PlatformCategoriesProofs` proves, for any sets of sellers, owners, platforms,
categories and sessions and any number of failures and lost signals, `TypeCorrect`
and `NobodyForgotten` (`[]NoneForgotten`): an active category and a seller of its
owner's platform never miss each other. `NoneForgotten` counts what is published,
what the handler has left to send and what is waiting; it is not inductive, because
while the other service is asked, and when a handler fails, what was left is thrown
away and only the event remains. `Inv` adds

- `OwnersKnown`: whoever sells a platform in an owner's name finds that owner among
  the platform's, so the audience of a category includes all its sellers;
- `WorkNamed`: what the handler has left is brought by the event it handles, so
  putting the event back puts all of it back;
- `CategoriesKnown`: an event names a category that exists, whose owner is fixed.

The step that matters is `TakeCategory` and `TakePlatform`: an event that covered a
pair leaves the queue, and the query made in that step must find the pair. There is
one lemma per action.

`ProductsProofs` proves about `ProductLife`, for any sets of ids, any sizes of a month's
block and with bundles, `TypeCorrect`, `SkusStayWithVariants` (`SkusFollowVariants`),
`DeletionsLeaveNothing` (`NothingDangles`), `MovesAlign` (`MovedTakeAttributes`),
`ReleasesLast` (`ReleaseLasts`) and `NumbersApart` (`NumbersDistinct`). `NothingDangles`
is not inductive: `delete_draft_product` deletes variants and never looks for SKUs.
`Inv` adds `DraftsHaveNoSkus`: a product in status draft has no SKU, since creating an
SKU ends the draft, no status leads back, and SKUs are moved to products that have some.
Moves insert attribute values for variants that they do not look for, so `Inv` also says
that an SKU that lost its variant lost it to a `delete_product`, which then knows of its
attribute values (`StraysAreOrphans`). Both moves share the lemma `RehomingInv`. The
types of SKU numbers rest on `MaxIsElement`: a set of naturals below a bound has its
maximum as an element, from the well-foundedness of the naturals. `NumbersDistinct`
needs `NumbersBounded` as well: no number is beyond the one that follows the last of the
month. A new number is then above all others of the month, and what it is not above can
only be that one, which begins the next month (`NewNumberIsNew`, `BatchNumberIsNew`).

About `SkuDetails` it proves `SatellitesStayWhole` (`SatellitesWhole`) and
`RefusalsFileNothing` (`RefusalFilesNothing`) from `DetailAssumption`, for any SKUs,
barcodes, shipping types and categories, whoever owns these, and any orders of
fields. `SatellitesWhole` is inductive as it stands. What the fields of a request
make of an SKU is said field by field (`TakenOK`), and of all of them by the first
field after which it would fail (`AfterOK`): barcodes fit, each seller has one
category, and without a category among the fields nothing is filed. Of a refused
request the fields before its last commit are kept (`KeptIs`), and the category
that was refused is not one of them, because a key is given once. `update_product`
reuses a row for each seller that has one, so no seller has two (`UpdateProductWhole`).

About `SkuTerminals` it proves `TerminalsStayAsAsked` (`TerminalsAsAsked`) from
`TerminalAssumption`, for any SKUs, terminals, groups and sessions, any orders that
name a seller and a type once, and messages in any order. A request about groups
deletes in one commit and inserts in later ones, so that an SKU has the groups it was
asked to have is not inductive. `GroupsInv` says of the requests that had their SKUs
for themselves that no two are about one SKU (`LoneApart`), that they will insert what
was last asked for (`WantsGoal`), that the SKUs they are to insert for have no group
(`Emptied`), and that every other undisturbed SKU has its groups (`Settled`). What is
shown follows from the rows one by one: a row reads as the order it was written for
(`OrdersRead`), because it names all terminals only where the order did, and codes
that were unknown to an order stay unknown to its row (`ReadIsKnown`).

About `SkuAttachments` it proves `AttachmentsStayAsAsked` (`AttachmentsAsAsked`) from
`ExtrasAssumption` and `ImagesAssumption`, for any SKUs, variants, lists, tags and
texts and any number of requests. `ExtrasInv` says what requests that overlap cannot
spoil: the number of a request that has not committed is that of no row
(`NumbersFree`); of a list that went into a bundle all rows are there or none, also
among those another request has read, so clearing what was read clears whole lists
(`ItemsWhole`); a request has one row of tags or texts at most, which stays its SKU's
(`RowsApart`); a request that counted sub SKUs found fewer than there may be
(`SubsCounted`). What is shown while no overlap is unresolved follows from
`ItemsFollow` and `RowsFollow`, which a request that overwrites alone restores
(`FollowAlone`). That a bundle is read in one order only, the asked one without
the deleted items, needs that a finite set of numbers has exactly one ascending
list (`ListExists`, `OneList`, `OneOrder`). Of images, `ImageFollows` says for a variant
whose images are known that one request at most still has it (`DueOnce`), and that
until it inserts there are none (`Waiting`); then `InsertImages` makes them those of one
list. That the list is the variant's own where no id below is unknown is
`GivenItsOwn`: it stands at the same place among the variants found and among the ids
sent.

About `SkuSearch` it proves `ListsFind` (`SearchFinds`) from `SearchAssumption`, for any
finite set of SKUs, any products and rows of terminals, pages of any size, and any
requests that do not ask for the sellers `[None]` (`_set_sku_category` takes each seller
for a number). Paths name the category itself and the paths of what they name, which is
what `TreeConsistent` says of a tree that no move left askew. `SearchInv` says that each
page read is one the list may have at its place. The rest is counting: the rows of a
product follow each other (`RowsOfProduct`); those that no page cuts are between two
ends of pages (`OnOnePage`), so one page has them all and shows every SKU of the
product, and the others have none (`OnItsPage`, `ListedOnce`); and there are pages for
all rows (`PagesAreEnough`). An export is compared with a list that is restricted where
the list is: what either finds of the seller's own SKUs the other finds too, in the
cases `ExportsTheList` names (`FoundIsExported`, `ExportedIsFound`). What categories
find is said category by category (`CategoriesFind`).

`ProductDetailSyncProofs` proves `NoRowLeftBehind` (`RowsOrPending`) from
`SyncAssumption`, for any products, brands and sessions and any number of revisions,
names and failures: a detail row that is out of date has a recomputation ahead of
it, unless its request died between commit and signal. `StaleIsPending` is not
inductive, because a consumer that has computed a row and not yet stored it may
hold the newer or the older content. `Inv` adds

- `SignalsKnown` and `FreeIsDone`: signals, events and what the fan-out selected are
  about products that exist, and a free session has nothing left to send;
- `EventsHeld`: the event that a consumer works on stays in its table until it is
  done, so a failure leaves it to be handled again;
- `RowsBrought`: if the row that is stored, or the one about to be stored, is out of
  date, another recomputation is ahead that has not begun (`Brought`).

The step that matters is a failure of the fan-out, which throws its selection away.
A selected product counts as brought only while it still has the brand whose event
is handled; when it has left that brand, the request that moved it has a signal of
its own.

`MessageConsumerProofs` proves `AcknowledgedIsLogged` (`GoneIsLogged`) and
`FailuresCostOne` (`FailureCostsOne`) from `ConsumerAssumption`, for any messages and
consumers and any number of failures. What failures cost is a statement about
cardinalities, so `Inv` keeps an account:

- `CallsPaid`: the calls of a message's handlers, the consumers that may yet call
  them, and the message itself while it waits, are together at most one more than
  the failures; taking a message, calling its handlers and a redelivery each move one
  unit from one of these to another, or are paid for by a failure;
- `LossPaid`: the messages that are gone, that no handler was called for, and that no
  consumer will call for (`Lost`) are at most as many as the failures. A consumer
  that took its message on a connection it lost is `Doomed` to notice and does not
  count as one that will call: noticing is not a failure of its own;
- `AtWork`, `RowsNamed`, `AcksHeld`, `Holding`, `Logged`: what a consumer's place in
  `_on_msg_received` says of its message, its row, the acknowledgements on its
  connection and the broker's view of them.

`HandsApart` shows on top of `Inv` that two consumers with a connection have
different messages: a message that is taken is ready, and the broker holds those of
the other consumers or has dropped them.

`ImportsProofs` proves seven theorems about the parts of the run `imports`.

`RetriesStaySound` (`RetriesSound`) rests on `FileConstants` and holds for any file,
any requests and any number of retries. What the property says of committed rows is
not inductive, because every step acts on what a request sees, the committed rows
under its own pending ones. `FileInv` adds

- `RowsNamed`: pending rows name products of their tag as committed ones do;
- `NothingHidden`: a pending row never hides the product of a committed one, so a
  request that finds no sibling with a product is right about the committed rows;
- `EachHasHolder`: a product of a tag is named by a row of it, committed or pending,
  so the parent of a tag is found again;
- `OverlapsExcused`: the last two may fail only for tags that two requests handle
  at once, or that one handled when it died;
- `CountsFollow`: no count, committed or pending, is above the imports that
  succeeded, and undisturbed the one open request has the exact count.

The step that matters is a commit in the middle of a request (`CommittingKeeps`):
rows of the request become committed under the pending rows of the others.

`MastersFollow` (`PathsFollowMasters`) rests on `TreeAssumption` and holds for any
finite set of ids and any order of rewriting. `TreeInv` adds `RowsSound`: a path
ends with the row's own id and is as long as the depth says. A row whose path does
not name the moved category has a parent whose path does not name it either, so
rows that are not rewritten follow parents that are not (`OutsideStays`). What the
rewritten ones become is said of the trace of tables between the first and the last
(`IsTrace`): the first table at which it failed would come after one at which it
held (`TraceSound`, `TraceStays`, `RewrittenRows`).

`ClonesStayWhole` (`ClonesAreWhole`) adds `ClonesNumbered`, that the copies so far have
the numbers up to the last, so a request finds a number free. What a copy reaches is a
recursive function over the number of links, and so are the paths it gives: both are
shown to exist as iterations of a step (`IteratesExist`, by the least number that
could not be reached), and what holds at first and after each step holds of them all
(`HoldsUpTo`). When nothing is askew, a category above another stands on its path, so
the query by paths finds whatever the links lead to (`ReachedThroughActive`).

`PoliciesStayAsAsked` (`PoliciesAsAsked`) rests on `TreeAssumption` and
`PolicyAssumption` and holds for any number of providers, where the run has one.
`CoversWhatWasAsked` is inductive together with `AskedOK`: nobody asks for an empty
list, so a product with the list read from the rows covers what the rows covered
(`ReplacedCovers`). `NearestPolicyDecides` is about a category and those above it by
links. `AboveIs` says that these are its path: if a category above it were missing
there, the line of links would have more members than there are categories; `Deepest`
on that path is then the nearest.

`BulkFollows` (`BulkFollowsParents`) rests on `BulkAssumption` and holds for any lists
of rows, codes that stand in one row twice included. A request is a recursive
function over its rows; every row keeps the set `RequestStates`, so all rows do
(`IteratesExist`). It holds the trees whose paths fit and the dictionaries that fit
the tree (`DicFits`): a code stands once in the dictionary of a level, is inserted on
one level only, and its parent is named on the level above unless a row named the
code elsewhere. `BulkInv` says that the signals of the last request are the
announcement of such a dictionary; signals of one level come before those of the next
(`AnnouncedIs`), which puts the parent first.

`BrandsStayCounted` (`BrandsCounted`) rests on `BrandAssumption` and holds for any
workers, codes and sizes of a page. What is counted are committed brands, so
`BrandInv` says of the number that a worker has drawn what the property says of
theirs (`PendingCounts`, `PendingRises`, `PendingFollows`), and that without an
overlap at most one worker has drawn one (`OneCreates`). `PagesGoOn` says of a list
half read that a brand nobody touched was seen or has as many before it as were
read: an update puts a brand before the others, so the brands before an untouched
one only become more (`PagesNoticed`).

`UnitsFollowed` (`OptionsFollowUnits`) rests on `UnitAssumption` and holds for any
units, sellers, options and requests. `UnitInv` adds, of every request that is open,

- `UnitRequestOK`: whoever else is at work, its option has the key of its unit or is
  gone, and so has its unit;
- `QuietOK`: while no other request about units of the same seller was open with it,
  what its validator and its search found is as true of the committed rows as it
  was; and if its option was edited since (`clean`), its unit is not in `synced`;
- that quiet requests are about different sellers, so one that commits leaves the
  others as right as they were (`OthersApart`, `QuietElsewhere`);

and of the options that at most one of a key was made by a unit (`OneByUnit`). Edits
by hand keep the keys of all options and add none made by a unit (`OptionsKept`,
`ByHandOnly`). What the readers find follows from the option that `synced` promises,
and from a seller's own options coming before the platform's (`LargestSeller`).

`AttributeSetsProofs` proves `GroupsStayWellDrawn`, `ConfigsStaySound`,
`VariationStays` and `SeoFound` from `ConstantsAssumption`, `DrawingsAssumption` and
`OptionsAssumption`, for any attributes, drawings and options and any number of
requests. `IInv` is `GroupsWellDrawn` and `ConfigsSound` with

- `RanksBounded`: ranks are natural numbers below a bound, so the maximum that
  `NextRank` adds one to exists, and no attribute has the new rank yet;
- `ConfigsFit`: a configuration has no more pairs than slots.

`Update` needs that a drawing's paths exist: they are a recursive function over the
places of the drawing, and `PathsExist` finds it by the least place where it could
not go on, since a parent stands before its children. `PathsOfDrawing` does the same
for what the paths say. A request for configurations handles its options one by one;
`AcceptedApart` says that an option that passes `Duplicates` differs from all rows
but those of options still to come, whose old values no longer count, and
`AllAcceptedApart` that after the last one nothing is left out. `SeoFound` needs that
the `ORDER BY` of `seo_config.py` has a first row, which is built slot by slot from
the last (`FirstBySlots`), with the brand at the end.

About `DetailContent` it proves `DetailAlwaysShows` (`DetailShowsValues`) from
`ContentAssumption`: whatever the tables hold, each of the four ways a row comes about
is about groups and attributes of its own kind (`RowKinds`), and a group has one row of
an attribute that it displays (`OneRowSays`). The property is a statement about all
tables of these types, and the tables keep their types.

About `VariantGroups` it proves `VariantsStayAware` (`VariantsKnowEachOther`) from
`VariantAssumption`, for any batches, any number of overlapping or dying requests and
any number of edits. The list of a group is written from what a request read when it
began. `VariantInv` says that requests that are open create different ids (`IdsApart`),
that one which no other request disturbed sees its group as it is (`RequestsSee`), that
undisturbed groups list exactly each other (`GroupsWhole`), and that SKUs have the
units, choices and numbers of their group (`SkusFit`). The step that matters is the
commit of a batch (`CreateFinished`), where what the request saw and its new variants
become the group.

Only model-checked: `ResultIsHeight`, with the bounds of section 4, because
`CategoryDepth` is RECURSIVE like the helper it models; and liveness (`Drained`,
`Converges`, `EverybodyTold`), which needs fairness.

## 6. Not modelled

Per component, `PROJECT.json` says under `note` what of it is modelled and what is
not. In short:

- spreadsheets, templates, logs, request parsing and the formatting of names and
  texts: no state worth a model, or layout only;
- login and its token cache, the Kafka consumer and publisher, the RabbitMQ
  publisher, providers and taxes: one read or write of another service. The Kafka
  handler catches every exception and returns an empty list, so the retries of its
  library never start;
- lists other than those of SKUs, brands and shipping policies, and plain upserts of
  one row (`create_or_update` of sellers, terminal groups and seller terminals,
  `update_status_from_srm`);
- `catalog/models`, `catalog/biz`, `catalog/validators` and `library/pyram`, which
  are not in the repository and stand as external definitions;
- requests that overlap in `SaleCategories`, `ProductLife`, `SkuDetails`,
  `AttributeSets`, `MasterCategories` and `CategoryBulk`: there a request is one
  step, or one after the other in parts. The code takes no locks, so an overlap can
  undo what these modules promise.

## 7. What the models showed

Two docstrings say something else than the code does; they are the findings:

- The RabbitMQ consumer acknowledges a message before its handlers run and never
  writes that they succeeded (`consumer_ack`).
- `calculate_maximal_children_depth` returns 3 for the tree its docstring draws and
  gives 4 for (`depth_docstring`): it counts links, the docstring categories. Nothing
  calls it.

The rest is behaviour that a reader of the code would hardly expect, met while
modelling. Where we found no statement in the repository that says otherwise, it is an
exception named in a property or a choice named in a module, and not a finding.

- Products and SKUs. Terminal groups, and the images of variants, are deleted in a
  commit of their own, so a worker that dies then leaves none. In `update_variant`
  an unknown id gives the variants after it the images of others. A sub SKU's number
  is a count, so after overlapping requests one number stands twice and another is
  missing. `update_product` with two new categories of one seller inserts both.
  `move_skus_to_single_product` signals one SKU for each product, and items dropped
  from a bundle are not signalled. Lists are sorted by product alone, so a page may
  repeat an SKU; the condition on sellers joins rows without relating them, so
  totals multiply; exports ignore that an empty list matches nothing, and the
  restriction to the seller: who is restricted exports the SKUs of others too.
  `delete_product` leaves the attribute values of the variants it deletes, also when it
  is told to delete the SKUs.
- Variants. Those created before their base unit are told of it but not renamed; two
  base units in a group cannot be told apart when no SKU has another ratio. The
  detail rows of siblings are not computed again when one SKU's status, attributes
  or title change.
- Attribute sets. `get_variant_attribute_by_attribute_set_id` filters by
  `is_variation is True`, a comparison made in Python, and so always returns an
  empty list: the check of variation attributes never refuses. An attribute that a
  configuration names can vanish by being moved to a system group. A configuration
  with an empty slot matches every product of its brand. A group that is not flat
  and heads flat groups is exported twice with one id; an attribute in several groups
  is shown in each.
- Units and brands. Options are found, then added, without a lock, so there may be
  two; a deleted unit leaves its option; a seller may rename a unit of the platform,
  checked against its own names only; `create_product` takes the first unit with a
  code, whoever's it is. A brand without a code is passed over when the next code is
  made. Signals of units, attributes, brands and sub SKUs are sent before their
  commit.
- Categories and imports. Copying a category and then one above it copies the first
  twice. A worker that dies in the pauses of a bulk import announces nothing
  further. A parent created by a retry that dies before its end is created again by
  the next one; retrying a parent's row raises `UnboundLocalError`.
  `update_shipping_policy` always rewrites the rows of a policy, because its
  condition begins with a constant that is true.
