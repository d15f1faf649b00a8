------------------------- MODULE ProductDetailSync -------------------------
(***************************************************************************)
(* How table product_details_v2 follows the sellable products and brands.  *)
(*                                                                         *)
(* Requests commit changes of sellable products and then send a signal for *)
(* each one (services/products/sellable.py); a brand's new name is stored  *)
(* together with its signal (services/brand.py).  The signals become RAM   *)
(* events.  One consumer turns a brand's event into an event for each of   *)
(* its products, another one recomputes the detail row of a product        *)
(* (extensions/ram_queue_consumer).  A consumer works inside session_scope *)
(* and marks the event done when its handler returned, so an event may be  *)
(* handled again; a request that dies after its commit sends no signal.    *)
(*                                                                         *)
(* The signal handlers and the RAM library are not part of the repository: *)
(* an event is stored when its signal is sent, by the sender's session if  *)
(* that has still to commit, and is handed out until a handler returned.   *)
(* Which of several events comes first is left open.                       *)
(***************************************************************************)
EXTENDS Naturals, FiniteSets

CONSTANTS
  Sku,
  Brand,
  Session,      \* the worker threads that serve requests
  None,         \* no row, no product, no brand
  MaxRevision,  \* bound on the revisions of a product
  MaxName,      \* bound on the changes of a brand's name
  MaxFaults   \* bound on crashes and failed handlers

\* A row of sellable_products, as far as it is told on.
Product == [brand : Brand, data : 1 .. MaxRevision]

ASSUME SyncAssumption ==
  /\ None \notin Sku \cup Brand /\ None \notin Product
  /\ MaxRevision \in Nat \ {0} /\ MaxName \in Nat /\ MaxFaults \in Nat

VARIABLES
  product,      \* sellable_products: its brand and the revision of its data
  name,         \* brands: the revision of the name
  detail,       \* product_details_v2
  request,      \* per session: the signals still to send, and what follows
  skuEvents,    \* open update_product_detail_v2 events of each product
  brandEvents,  \* open brand update events of each brand
  fan,          \* the consumer of brand events
  worker,       \* the consumer of product events
  missed,       \* products whose last signal was lost and not made up for
  faults

vars == <<product, name, detail, request, skuEvents, brandEvents, fan, worker,
          missed, faults>>

-----------------------------------------------------------------------------

Detail == [brand : Brand, data : 1 .. MaxRevision, name : 0 .. MaxName]
Present == {k \in Sku : product[k] # None}
NoRequest == [busy |-> FALSE, signals |-> {}, rest |-> None]
IdleFan == [brand |-> None, selected |-> {}, stage |-> "idle"]
IdleWorker == [sku |-> None, row |-> None, stage |-> "idle"]

\* Mutant of Computed: the brand's name is not looked up.
ComputedWithoutName(k) ==
  [brand |-> product[k].brand, data |-> product[k].data, name |-> None]

\* init_product_detail_v2: the detail row computed from the tables.
Computed(k) ==
  [brand |-> product[k].brand, data |-> product[k].data, name |-> name[product[k].brand]]

Init ==
  /\ product = [k \in Sku |-> None]
  /\ name = [b \in Brand |-> 0]
  /\ detail = [k \in Sku |-> None]
  /\ request = [s \in Session |-> NoRequest]
  /\ skuEvents = [k \in Sku |-> 0]
  /\ brandEvents = [b \in Brand |-> 0]
  /\ fan = IdleFan
  /\ worker = IdleWorker
  /\ missed = {}
  /\ faults = 0

\* Mutant of Committed: the signal is sent once, after the loop.
CommittedLast(s, K, rest) ==
  /\ request' = [request EXCEPT ![s] =
                   [busy |-> TRUE, signals |-> {CHOOSE k \in K : TRUE}, rest |-> rest]]
  /\ UNCHANGED <<name, detail, skuEvents, brandEvents, fan, worker, missed, faults>>

\* The commit of a request: a signal is due for each product in K.
Committed(s, K, rest) ==
  /\ request' = [request EXCEPT ![s] = [busy |-> TRUE, signals |-> K, rest |-> rest]]
  /\ UNCHANGED <<name, detail, skuEvents, brandEvents, fan, worker, missed, faults>>

\* create_sellable_products: all the products in one commit.
Create(s, K, b) ==
  /\ ~request[s].busy
  /\ K # {} /\ K \cap Present = {}
  /\ product' = [k \in Sku |-> IF k \in K THEN [brand |-> b, data |-> 1] ELSE product[k]]
  /\ Committed(s, K, None)

Revised(K) ==
  [k \in Sku |-> IF k \in K THEN [product[k] EXCEPT !.data = @ + 1] ELSE product[k]]

\* update_sellable_editing_status for several products.
UpdateStatus(s, K) ==
  /\ ~request[s].busy
  /\ K # {} /\ K \subseteq Present
  /\ \A k \in K : product[k].data < MaxRevision
  /\ product' = Revised(K)
  /\ Committed(s, K, None)

\* update_common without an editing status: every field in one commit.  The
\* brand is one of the fields.
UpdateCommon(s, k, b) ==
  /\ ~request[s].busy
  /\ k \in Present /\ product[k].data < MaxRevision
  /\ product' = [product EXCEPT ![k] = [brand |-> b, data |-> product[k].data + 1]]
  /\ Committed(s, {k}, None)

\* update_common with an editing status among the fields: the status is
\* committed, with the fields before it, and signalled while the fields after
\* it are still to come.
UpdateCommonStatus(s, k) ==
  /\ ~request[s].busy
  /\ k \in Present /\ product[k].data < MaxRevision
  /\ product' = Revised({k})
  /\ Committed(s, {k}, k)

\* The second commit of such a request.
UpdateCommonRest(s) ==
  /\ request[s].signals = {} /\ request[s].rest # None
  /\ product[request[s].rest].data < MaxRevision
  /\ product' = Revised({request[s].rest})
  /\ Committed(s, {request[s].rest}, None)

\* sellable_create_signal or sellable_update_signal, one product at a time.
Signal(s, k) ==
  /\ k \in request[s].signals
  /\ request' = [request EXCEPT ![s].signals = @ \ {k}]
  /\ skuEvents' = [skuEvents EXCEPT ![k] = @ + 1]
  /\ missed' = missed \ {k}
  /\ UNCHANGED <<product, name, detail, brandEvents, fan, worker, faults>>

\* The request is answered; or, with fields still to come, one of them is
\* refused and the request ends with an error.
Answer(s) ==
  /\ request[s].busy /\ request[s].signals = {}
  /\ request' = [request EXCEPT ![s] = NoRequest]
  /\ UNCHANGED <<product, name, detail, skuEvents, brandEvents, fan, worker, missed, faults>>

\* The thread dies between its commit and its last signal.
Crash(s) ==
  /\ request[s].signals # {} /\ faults < MaxFaults
  /\ missed' = missed \cup request[s].signals
  /\ request' = [request EXCEPT ![s] = NoRequest]
  /\ faults' = faults + 1
  /\ UNCHANGED <<product, name, detail, skuEvents, brandEvents, fan, worker>>

\* Mutant of UpdateBrand: is_change is not set for the name.
UpdateBrandUnsignalled(b) ==
  /\ name[b] < MaxName
  /\ name' = [name EXCEPT ![b] = @ + 1]
  /\ UNCHANGED <<product, detail, request, skuEvents, brandEvents, fan, worker, missed, faults>>

\* __update_brand with another name: the signal is sent before the commit, so
\* that both are stored together.
UpdateBrand(b) ==
  /\ name[b] < MaxName
  /\ name' = [name EXCEPT ![b] = @ + 1]
  /\ brandEvents' = [brandEvents EXCEPT ![b] = @ + 1]
  /\ UNCHANGED <<product, detail, request, skuEvents, fan, worker, missed, faults>>

\* process_update_brand: INSERT ... SELECT reads the products of the brand.
Select(b) ==
  /\ fan.stage = "idle" /\ brandEvents[b] > 0
  /\ fan' = [brand |-> b, stage |-> "selected",
             selected |-> {k \in Present : product[k].brand = b}]
  /\ UNCHANGED <<product, name, detail, request, skuEvents, brandEvents, worker, missed, faults>>

\* session_scope commits the events.
Insert ==
  /\ fan.stage = "selected"
  /\ skuEvents' = [k \in Sku |-> skuEvents[k] + IF k \in fan.selected THEN 1 ELSE 0]
  /\ missed' = missed \ fan.selected
  /\ fan' = [fan EXCEPT !.stage = "handled", !.selected = {}]
  /\ UNCHANGED <<product, name, detail, request, brandEvents, worker, faults>>

\* RAM marks the event done.
BrandDone ==
  /\ fan.stage = "handled"
  /\ brandEvents' = [brandEvents EXCEPT ![fan.brand] = @ - 1]
  /\ fan' = IdleFan
  /\ UNCHANGED <<product, name, detail, request, skuEvents, worker, missed, faults>>

\* The handler raised (session_scope rolled back) or the consumer died.
BrandFailed ==
  /\ fan.stage # "idle" /\ faults < MaxFaults
  /\ fan' = IdleFan
  /\ faults' = faults + 1
  /\ UNCHANGED <<product, name, detail, request, skuEvents, brandEvents, worker, missed>>

\* process_update_product_detail_v2: the row is computed from one snapshot.
Compute(k) ==
  /\ worker.stage = "idle" /\ skuEvents[k] > 0
  /\ worker' = [sku |-> k, row |-> Computed(k), stage |-> "computed"]
  /\ UNCHANGED <<product, name, detail, request, skuEvents, brandEvents, fan, missed, faults>>

\* Mutant of Upsert: a row that exists is kept.
UpsertInsertsOnly ==
  /\ worker.stage = "computed"
  /\ detail' = [detail EXCEPT ![worker.sku] = IF @ = None THEN worker.row ELSE @]
  /\ worker' = [worker EXCEPT !.stage = "handled", !.row = None]
  /\ UNCHANGED <<product, name, request, skuEvents, brandEvents, fan, missed, faults>>

\* The row is inserted, or replaces the one that exists, and is committed.
Upsert ==
  /\ worker.stage = "computed"
  /\ detail' = [detail EXCEPT ![worker.sku] = worker.row]
  /\ worker' = [worker EXCEPT !.stage = "handled", !.row = None]
  /\ UNCHANGED <<product, name, request, skuEvents, brandEvents, fan, missed, faults>>

DetailDone ==
  /\ worker.stage = "handled"
  /\ skuEvents' = [skuEvents EXCEPT ![worker.sku] = @ - 1]
  /\ worker' = IdleWorker
  /\ UNCHANGED <<product, name, detail, request, brandEvents, fan, missed, faults>>

DetailFailed ==
  /\ worker.stage # "idle" /\ faults < MaxFaults
  /\ worker' = IdleWorker
  /\ faults' = faults + 1
  /\ UNCHANGED <<product, name, detail, request, skuEvents, brandEvents, fan, missed>>

Requests(s) ==
  \/ \E K \in SUBSET Sku : UpdateStatus(s, K) \/ \E b \in Brand : Create(s, K, b)
  \/ \E k \in Sku : UpdateCommonStatus(s, k) \/ \E b \in Brand : UpdateCommon(s, k, b)

Ends(s) == UpdateCommonRest(s) \/ Answer(s) \/ \E k \in Sku : Signal(s, k)
FanStep == Insert \/ BrandDone \/ \E b \in Brand : Select(b)
WorkerStep == Upsert \/ DetailDone \/ \E k \in Sku : Compute(k)

Next ==
  \/ \E s \in Session : Requests(s) \/ Ends(s) \/ Crash(s)
  \/ \E b \in Brand : UpdateBrand(b)
  \/ FanStep \/ BrandFailed
  \/ WorkerStep \/ DetailFailed

Spec == Init /\ [][Next]_vars

\* A request that was begun goes on, and the consumers are kept running.
Fairness ==
  /\ \A s \in Session : WF_vars(Ends(s))
  /\ WF_vars(FanStep) /\ WF_vars(WorkerStep)

FairSpec == Spec /\ Fairness

-----------------------------------------------------------------------------
(* Properties.                                                             *)

TypeOK ==
  /\ product \in [Sku -> Product \cup {None}]
  /\ name \in [Brand -> 0 .. MaxName]
  /\ detail \in [Sku -> Detail \cup {None}]
  /\ request \in [Session -> [busy : BOOLEAN, signals : SUBSET Sku, rest : Sku \cup {None}]]
  /\ skuEvents \in [Sku -> Nat] /\ brandEvents \in [Brand -> Nat]
  /\ fan \in [brand : Brand \cup {None}, selected : SUBSET Sku,
              stage : {"idle", "selected", "handled"}]
  /\ worker \in [sku : Sku \cup {None}, row : Detail \cup {None},
                 stage : {"idle", "computed", "handled"}]
  /\ missed \subseteq Sku
  /\ faults \in Nat

Stale(k) == k \in Present /\ detail[k] # Computed(k)

\* Something under way will read the product as it now is.
UpdatePending(k) ==
  \/ \E s \in Session : k \in request[s].signals
  \/ skuEvents[k] > IF worker.sku = k THEN 1 ELSE 0
  \/ worker.stage = "computed" /\ worker.sku = k /\ worker.row = Computed(k)
  \/ fan.stage = "selected" /\ k \in fan.selected
  \/ brandEvents[product[k].brand] > IF fan.brand = product[k].brand THEN 1 ELSE 0

\* At every moment the detail row of a product is either what
\* init_product_detail_v2 would compute, or its recomputation is still ahead:
\* no interleaving of a product's update, a change of its brand, its brand's
\* new name, the fan-out and a recomputation that has read older rows, and no
\* failure of a consumer, leaves a row behind.  The exception is a request
\* that dies between its commit and its signals.
StaleIsPending == \A k \in Sku : Stale(k) /\ k \notin missed => UpdatePending(k)

\* When there are no more changes, every detail row ends up right, except
\* after such a crash (session_scope, process_update_brand and
\* process_update_product_detail_v2, handled at least once).
Converges == <>[](\A k \in Sku \ missed : ~Stale(k))

\* Rows keep their shapes, and those out of date are about to be computed.
RowsOrPending == TypeOK /\ StaleIsPending
=============================================================================
