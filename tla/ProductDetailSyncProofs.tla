------------------------ MODULE ProductDetailSyncProofs ------------------------
(***************************************************************************)
(* Theorems about ProductDetailSync, for any products, brands and sessions *)
(* and for any number of revisions, names and faults.                    *)
(***************************************************************************)
EXTENDS ProductDetailSync, TLAPS

\* Signals, events and the selection of the fan-out are about products that
\* exist, and products are never deleted.
SignalsKnown ==
  /\ \A s \in Session : request[s].signals \subseteq Present
  /\ \A s \in Session : request[s].rest # None => request[s].rest \in Present
  /\ \A k \in Sku : skuEvents[k] > 0 => k \in Present
  /\ fan.selected \subseteq Present

\* A session that is free has nothing left to send.
FreeIsDone == \A s \in Session : ~request[s].busy => request[s].signals = {}

\* The event a consumer works on stays in the table until it is done, so that
\* a failure leaves it to be handled again.
EventsHeld ==
  /\ fan.stage = "idle" <=> fan.brand = None
  /\ fan.stage # "idle" => brandEvents[fan.brand] > 0
  /\ worker.stage = "idle" <=> worker.sku = None
  /\ worker.stage # "idle" => skuEvents[worker.sku] > 0

\* A recomputation of k that has not begun is ahead.  What the fan-out has
\* selected counts only while k has the brand whose event is handled: for
\* another brand the event that remains after a failure is not about k.
Brought(k) ==
  \/ \E s \in Session : k \in request[s].signals
  \/ skuEvents[k] > IF worker.sku = k THEN 1 ELSE 0
  \/ fan.stage = "selected" /\ k \in fan.selected /\ product[k].brand = fan.brand
  \/ brandEvents[product[k].brand] > IF fan.brand = product[k].brand THEN 1 ELSE 0

\* The consumer is about to write the row of k.
Writing(k) == worker.stage = "computed" /\ worker.sku = k

\* Neither the row that is stored nor the one about to be stored can be out
\* of date, unless another recomputation is ahead.
RowsBrought ==
  \A k \in Present \ missed :
    /\ Writing(k) /\ worker.row # Computed(k) => Brought(k)
    /\ ~Writing(k) /\ detail[k] # Computed(k) => Brought(k)

Inv == TypeOK /\ SignalsKnown /\ FreeIsDone /\ EventsHeld /\ RowsBrought

-----------------------------------------------------------------------------

LEMMA InitInv == ASSUME SyncAssumption, Init PROVE Inv
<1>1. TypeOK
  BY DEF Init, TypeOK, SyncAssumption, NoRequest, IdleFan, IdleWorker
<1>2. Present = {}
  BY DEF Init, Present
<1>3. SignalsKnown /\ FreeIsDone /\ EventsHeld
  BY <1>2 DEF Init, SignalsKnown, FreeIsDone, EventsHeld, NoRequest, IdleFan, IdleWorker
<1> QED BY <1>1, <1>2, <1>3 DEF Inv, RowsBrought

\* A product that exists has a row.
LEMMA PresentRows ==
  ASSUME SyncAssumption, TypeOK, NEW k \in Present
  PROVE  k \in Sku /\ product[k] \in Product /\ product[k].brand \in Brand
                   /\ product[k].data \in 1 .. MaxRevision
BY DEF Present, TypeOK, Product

\* What every commit of a request about the products K comes down to: rows of
\* K appear or change, and each of K is in the signals that are due.
LEMMA CommittedInv ==
  ASSUME SyncAssumption, Inv,
         NEW s \in Session, NEW K \in SUBSET Sku, NEW rest \in K \cup {None},
         request[s].signals = {},
         product' \in [Sku -> Product \cup {None}],
         \A k \in K : product'[k] \in Product,
         \A k \in Sku \ K : product'[k] = product[k],
         Committed(s, K, rest)
  PROVE  Inv'
<1> USE DEF Inv
<1>1. TypeOK'
  BY DEF TypeOK, Committed
<1>2. Present \subseteq Present' /\ K \subseteq Present'
  BY DEF Present, SyncAssumption, Product
<1>3. \A t \in Session : request'[t] =
        IF t = s THEN [busy |-> TRUE, signals |-> K, rest |-> rest] ELSE request[t]
  BY DEF TypeOK, Committed
<1>4. SignalsKnown' /\ FreeIsDone' /\ EventsHeld'
  BY <1>2, <1>3 DEF SignalsKnown, FreeIsDone, EventsHeld, Committed
<1>5. RowsBrought'
  <2> SUFFICES ASSUME NEW k \in Present' \ missed'
               PROVE  /\ (Writing(k) /\ worker.row # Computed(k) => Brought(k))'
                      /\ (~Writing(k) /\ detail[k] # Computed(k) => Brought(k))'
    BY DEF RowsBrought
  <2>1. CASE k \in K
    BY <1>3, <2>1 DEF Brought
  <2>2. CASE k \notin K
    <3>1. k \in Present \ missed /\ product'[k] = product[k]
      BY <2>2 DEF Present, Committed
    <3>2. Computed(k)' = Computed(k) /\ Writing(k)' = Writing(k)
      BY <3>1 DEF Computed, Writing, Committed
    <3>3. Brought(k) => Brought(k)'
      BY <1>3, <3>1 DEF Brought, Committed
    <3> QED BY <3>1, <3>2, <3>3 DEF RowsBrought, Committed
  <2> QED BY <2>1, <2>2
<1> QED BY <1>1, <1>4, <1>5

LEMMA CreateInv ==
  ASSUME SyncAssumption, Inv,
         NEW s \in Session, NEW K \in SUBSET Sku, NEW b \in Brand, Create(s, K, b)
  PROVE  Inv'
<1>1. request[s].signals = {}
  BY DEF Create, Inv, FreeIsDone
<1>2. [brand |-> b, data |-> 1] \in Product
  BY DEF Product, SyncAssumption
<1>3. /\ product' \in [Sku -> Product \cup {None}]
      /\ \A k \in K : product'[k] \in Product
      /\ \A k \in Sku \ K : product'[k] = product[k]
  BY <1>2 DEF Create, Inv, TypeOK
<1> QED BY <1>1, <1>3, CommittedInv DEF Create

\* Revisions of products that may have one more are rows again.
LEMMA RevisedRows ==
  ASSUME SyncAssumption, Inv,
         NEW K \in SUBSET Present, \A k \in K : product[k].data < MaxRevision,
         product' = Revised(K)
  PROVE  /\ product' \in [Sku -> Product \cup {None}]
         /\ \A k \in K : product'[k] \in Product
         /\ \A k \in Sku \ K : product'[k] = product[k]
<1>1. ASSUME NEW k \in K
      PROVE  [product[k] EXCEPT !.data = @ + 1] \in Product
  <2>1. k \in Sku /\ product[k] \in Product
    BY PresentRows DEF Inv
  <2>2. product[k].data \in 1 .. MaxRevision /\ product[k].data + 1 \in 1 .. MaxRevision
    BY <2>1 DEF Product, SyncAssumption
  <2> QED BY <2>1, <2>2 DEF Product
<1> QED BY <1>1 DEF Revised, Inv, TypeOK, Present

LEMMA UpdateInv ==
  ASSUME SyncAssumption, Inv, NEW s \in Session,
         \/ \E K \in SUBSET Sku : UpdateStatus(s, K)
         \/ \E k \in Sku : UpdateCommonStatus(s, k)
         \/ UpdateCommonRest(s)
  PROVE  Inv'
<1>1. ASSUME NEW K \in SUBSET Sku, UpdateStatus(s, K)
      PROVE  Inv'
  <2>1. request[s].signals = {}
    BY <1>1 DEF UpdateStatus, Inv, FreeIsDone
  <2> QED BY <1>1, <2>1, RevisedRows, CommittedInv DEF UpdateStatus
<1>2. ASSUME NEW k \in Sku, UpdateCommonStatus(s, k)
      PROVE  Inv'
  <2>1. request[s].signals = {}
    BY <1>2 DEF UpdateCommonStatus, Inv, FreeIsDone
  <2>2. {k} \in SUBSET Present /\ \A x \in {k} : product[x].data < MaxRevision
    BY <1>2 DEF UpdateCommonStatus
  <2> QED BY <1>2, <2>1, <2>2, RevisedRows, CommittedInv DEF UpdateCommonStatus
<1>3. ASSUME UpdateCommonRest(s)
      PROVE  Inv'
  <2> DEFINE k == request[s].rest
  <2>1. {k} \in SUBSET Present /\ \A x \in {k} : product[x].data < MaxRevision
    BY <1>3 DEF UpdateCommonRest, Inv, SignalsKnown
  <2>2. {k} \in SUBSET Sku
    BY <2>1 DEF Present
  <2>3. product' = Revised({k}) /\ Committed(s, {k}, None) /\ request[s].signals = {}
    BY <1>3 DEF UpdateCommonRest
  <2> HIDE DEF k
  <2> QED BY <2>1, <2>2, <2>3, RevisedRows, CommittedInv
<1> QED BY <1>1, <1>2, <1>3

LEMMA UpdateCommonInv ==
  ASSUME SyncAssumption, Inv,
         NEW s \in Session, NEW k \in Sku, NEW b \in Brand, UpdateCommon(s, k, b)
  PROVE  Inv'
<1>1. request[s].signals = {}
  BY DEF UpdateCommon, Inv, FreeIsDone
<1>2. product[k].data \in 1 .. MaxRevision /\ product[k].data < MaxRevision
  BY PresentRows DEF UpdateCommon, Inv
<1>3. [brand |-> b, data |-> product[k].data + 1] \in Product
  BY <1>2 DEF Product, SyncAssumption
<1>4. /\ product' \in [Sku -> Product \cup {None}]
      /\ \A x \in {k} : product'[x] \in Product
      /\ \A x \in Sku \ {k} : product'[x] = product[x]
  BY <1>3 DEF UpdateCommon, Inv, TypeOK
<1> QED BY <1>1, <1>4, CommittedInv DEF UpdateCommon

LEMMA SignalInv ==
  ASSUME SyncAssumption, Inv, NEW s \in Session, NEW k \in Sku, Signal(s, k)
  PROVE  Inv'
<1> USE DEF Inv
<1>1. TypeOK'
  BY DEF TypeOK, Signal
<1>2. \A x \in Sku : skuEvents'[x] = IF x = k THEN skuEvents[k] + 1 ELSE skuEvents[x]
  BY DEF TypeOK, Signal
<1>3. /\ \A t \in Session : t # s => request'[t] = request[t]
      /\ request'[s].signals = request[s].signals \ {k}
      /\ request'[s].busy = request[s].busy /\ request'[s].rest = request[s].rest
  BY DEF TypeOK, Signal
<1>4. Present' = Present
  BY DEF Signal, Present
<1>5. \A x \in Sku : skuEvents[x] \in Nat
  BY DEF TypeOK
<1>6. SignalsKnown'
  BY <1>2, <1>3, <1>4 DEF SignalsKnown, Signal
<1>7. FreeIsDone'
  BY <1>3 DEF FreeIsDone
<1>8. worker.stage # "idle" => worker.sku \in Sku
  BY DEF EventsHeld, TypeOK
<1>9. EventsHeld'
  BY <1>2, <1>5, <1>8 DEF EventsHeld, Signal
<1>10. RowsBrought'
  <2> SUFFICES ASSUME NEW x \in Present \ missed'
               PROVE  /\ (Writing(x) /\ worker.row # Computed(x) => Brought(x))'
                      /\ (~Writing(x) /\ detail[x] # Computed(x) => Brought(x))'
    BY <1>4 DEF RowsBrought
  <2>0. x \in Sku
    BY DEF Present
  <2>1. CASE x = k
    <3>1. worker.sku = k => skuEvents[k] > 0
      BY DEF EventsHeld, SyncAssumption, TypeOK
    <3>2. skuEvents'[k] > IF worker'.sku = k THEN 1 ELSE 0
      BY <1>2, <1>5, <3>1 DEF Signal
    <3> QED BY <2>1, <3>2 DEF Brought
  <2>2. CASE x # k
    <3>1. x \in Present \ missed
      BY <2>2 DEF Signal
    <3>2. Computed(x)' = Computed(x) /\ Writing(x)' = Writing(x)
      BY DEF Computed, Writing, Signal
    <3>3. Brought(x) => Brought(x)'
      BY <1>2, <1>3, <2>0, <2>2 DEF Brought, Signal
    <3> QED BY <3>1, <3>2, <3>3 DEF RowsBrought, Signal
  <2> QED BY <2>1, <2>2
<1> QED BY <1>1, <1>6, <1>7, <1>9, <1>10

LEMMA EndInv ==
  ASSUME SyncAssumption, Inv, NEW s \in Session, Answer(s) \/ Crash(s)
  PROVE  Inv'
<1> USE DEF Inv
<1>1. TypeOK'
  <2>1. NoRequest \in [busy : BOOLEAN, signals : SUBSET Sku, rest : Sku \cup {None}]
    BY DEF NoRequest
  <2>2. request[s].signals \subseteq Sku /\ faults + 1 \in Nat
    BY DEF TypeOK
  <2>3. request' \in [Session -> [busy : BOOLEAN, signals : SUBSET Sku, rest : Sku \cup {None}]]
    BY <2>1 DEF TypeOK, Answer, Crash
  <2> QED BY <2>2, <2>3 DEF TypeOK, Answer, Crash
<1>2. \A t \in Session : request'[t] = IF t = s THEN NoRequest ELSE request[t]
  BY DEF TypeOK, Answer, Crash
<1>3. Present' = Present
  BY DEF Answer, Crash, Present
<1>4. SignalsKnown' /\ FreeIsDone' /\ EventsHeld'
  BY <1>2, <1>3 DEF SignalsKnown, FreeIsDone, EventsHeld, Answer, Crash, NoRequest
<1>5. RowsBrought'
  <2> SUFFICES ASSUME NEW x \in Present \ missed'
               PROVE  /\ (Writing(x) /\ worker.row # Computed(x) => Brought(x))'
                      /\ (~Writing(x) /\ detail[x] # Computed(x) => Brought(x))'
    BY <1>3 DEF RowsBrought
  <2>1. x \in Present \ missed /\ x \notin request[s].signals
    BY DEF Answer, Crash
  <2>2. Computed(x)' = Computed(x) /\ Writing(x)' = Writing(x)
    BY DEF Computed, Writing, Answer, Crash
  <2>3. Brought(x) => Brought(x)'
    BY <1>2, <2>1 DEF Brought, Answer, Crash
  <2> QED BY <2>1, <2>2, <2>3 DEF RowsBrought, Answer, Crash
<1> QED BY <1>1, <1>4, <1>5

LEMMA UpdateBrandInv ==
  ASSUME SyncAssumption, Inv, NEW b \in Brand, UpdateBrand(b)
  PROVE  Inv'
<1> USE DEF Inv
<1>1. TypeOK'
  BY DEF TypeOK, UpdateBrand, SyncAssumption
<1>2. /\ \A c \in Brand : c # b => name'[c] = name[c] /\ brandEvents'[c] = brandEvents[c]
      /\ brandEvents[b] \in Nat /\ brandEvents'[b] = brandEvents[b] + 1
  BY DEF TypeOK, UpdateBrand
<1>3. Present' = Present
  BY DEF UpdateBrand, Present
<1>4. SignalsKnown' /\ FreeIsDone'
  BY <1>3 DEF SignalsKnown, FreeIsDone, UpdateBrand
<1>5. fan.stage # "idle" => fan.brand \in Brand
  BY DEF EventsHeld, TypeOK
<1>6. EventsHeld'
  BY <1>2, <1>5 DEF EventsHeld, UpdateBrand
<1>7. RowsBrought'
  <2> SUFFICES ASSUME NEW x \in Present \ missed
               PROVE  /\ (Writing(x) /\ worker.row # Computed(x) => Brought(x))'
                      /\ (~Writing(x) /\ detail[x] # Computed(x) => Brought(x))'
    BY <1>3 DEF RowsBrought, UpdateBrand
  <2>1. product[x].brand \in Brand /\ product' = product
    BY PresentRows DEF UpdateBrand
  <2>2. CASE product[x].brand = b
    <3>1. fan.brand = b => brandEvents[b] > 0
      BY DEF EventsHeld, SyncAssumption
    <3>2. brandEvents'[b] > IF fan'.brand = b THEN 1 ELSE 0
      BY <1>2, <3>1 DEF UpdateBrand
    <3> QED BY <2>1, <2>2, <3>2 DEF Brought
  <2>3. CASE product[x].brand # b
    <3>1. Computed(x)' = Computed(x) /\ Writing(x)' = Writing(x)
      BY <1>2, <2>1, <2>3 DEF Computed, Writing, UpdateBrand
    <3>2. Brought(x) => Brought(x)'
      BY <1>2, <2>1, <2>3 DEF Brought, UpdateBrand
    <3> QED BY <3>1, <3>2 DEF RowsBrought, UpdateBrand
  <2> QED BY <2>2, <2>3
<1> QED BY <1>1, <1>4, <1>6, <1>7

LEMMA SelectInv ==
  ASSUME SyncAssumption, Inv, NEW b \in Brand, Select(b)
  PROVE  Inv'
<1> USE DEF Inv
<1>1. TypeOK'
  BY DEF TypeOK, Select, Present
<1>2. Present' = Present /\ fan.brand = None
  BY DEF Select, Present, EventsHeld
<1>3. SignalsKnown' /\ FreeIsDone'
  BY <1>2 DEF SignalsKnown, FreeIsDone, Select
<1>4. EventsHeld'
  BY DEF EventsHeld, Select, SyncAssumption
<1>5. RowsBrought'
  <2> SUFFICES ASSUME NEW x \in Present \ missed
               PROVE  /\ (Writing(x) /\ worker.row # Computed(x) => Brought(x))'
                      /\ (~Writing(x) /\ detail[x] # Computed(x) => Brought(x))'
    BY <1>2 DEF RowsBrought, Select
  <2>1. Computed(x)' = Computed(x) /\ Writing(x)' = Writing(x)
    BY DEF Computed, Writing, Select
  <2>2. product[x].brand = b => Brought(x)'
    BY DEF Brought, Select
  <2>3. fan'.brand = b /\ product[x].brand # None
    BY PresentRows DEF Select, SyncAssumption
  <2>4. product[x].brand # b /\ Brought(x) => Brought(x)'
    BY <1>2, <2>3 DEF Brought, Select
  <2> QED BY <2>1, <2>2, <2>4 DEF RowsBrought, Select
<1> QED BY <1>1, <1>3, <1>4, <1>5

LEMMA InsertInv ==
  ASSUME SyncAssumption, Inv, Insert
  PROVE  Inv'
<1> USE DEF Inv
<1>1. TypeOK'
  <2>1. \A x \in Sku : skuEvents[x] + (IF x \in fan.selected THEN 1 ELSE 0) \in Nat
    BY DEF TypeOK
  <2>2. skuEvents' \in [Sku -> Nat]
    BY <2>1 DEF Insert
  <2>3. fan' \in [brand : Brand \cup {None}, selected : SUBSET Sku,
                 stage : {"idle", "selected", "handled"}]
    BY DEF TypeOK, Insert
  <2> QED BY <2>2, <2>3 DEF TypeOK, Insert
<1>2. \A x \in Sku : /\ skuEvents[x] \in Nat
                     /\ x \in fan.selected => skuEvents'[x] = skuEvents[x] + 1
                     /\ x \notin fan.selected => skuEvents'[x] = skuEvents[x]
  BY DEF TypeOK, Insert
<1>3. Present' = Present /\ Present \subseteq Sku
  BY DEF Insert, Present
<1>4. fan'.brand = fan.brand /\ fan'.stage = "handled" /\ fan'.selected = {}
  BY DEF Insert, TypeOK
<1>5. SignalsKnown' /\ FreeIsDone'
  BY <1>2, <1>3, <1>4 DEF SignalsKnown, FreeIsDone, Insert
<1>6. worker.stage # "idle" => worker.sku \in Sku
  BY DEF EventsHeld, TypeOK
<1>7. EventsHeld'
  BY <1>2, <1>4, <1>6 DEF EventsHeld, Insert
<1>8. RowsBrought'
  <2> SUFFICES ASSUME NEW x \in Present \ missed'
               PROVE  /\ (Writing(x) /\ worker.row # Computed(x) => Brought(x))'
                      /\ (~Writing(x) /\ detail[x] # Computed(x) => Brought(x))'
    BY <1>3 DEF RowsBrought
  <2>1. CASE x \in fan.selected
    <3>1. worker.sku = x => skuEvents[x] > 0
      BY <1>3 DEF EventsHeld, SyncAssumption
    <3>2. skuEvents'[x] > IF worker'.sku = x THEN 1 ELSE 0
      BY <1>2, <1>3, <2>1, <3>1 DEF Insert
    <3> QED BY <3>2 DEF Brought
  <2>2. CASE x \notin fan.selected
    <3>1. x \in Present \ missed
      BY <2>2 DEF Insert
    <3>2. Computed(x)' = Computed(x) /\ Writing(x)' = Writing(x)
      BY DEF Computed, Writing, Insert
    <3>3. Brought(x) => Brought(x)'
      BY <1>2, <1>3, <1>4, <2>2 DEF Brought, Insert
    <3> QED BY <3>1, <3>2, <3>3 DEF RowsBrought, Insert
  <2> QED BY <2>1, <2>2
<1> QED BY <1>1, <1>5, <1>7, <1>8

LEMMA BrandEndInv ==
  ASSUME SyncAssumption, Inv, BrandDone \/ BrandFailed
  PROVE  Inv'
<1> USE DEF Inv
<1>1. fan.brand \in Brand /\ brandEvents[fan.brand] \in Nat \ {0}
  BY DEF EventsHeld, TypeOK, BrandDone, BrandFailed
<1>2. /\ brandEvents'[fan.brand] \in {brandEvents[fan.brand] - 1, brandEvents[fan.brand]}
      /\ BrandFailed => brandEvents' = brandEvents
      /\ \A c \in Brand : c # fan.brand => brandEvents'[c] = brandEvents[c]
  BY <1>1 DEF BrandDone, BrandFailed, TypeOK
<1>3. brandEvents' \in [Brand -> Nat]
  <2>1. brandEvents[fan.brand] - 1 \in Nat
    BY <1>1
  <2> QED BY <1>1, <2>1 DEF BrandDone, BrandFailed, TypeOK
<1>4. TypeOK'
  BY <1>3 DEF TypeOK, BrandDone, BrandFailed, IdleFan
<1>5. Present' = Present /\ fan' = IdleFan
  BY DEF BrandDone, BrandFailed, Present
<1>6. SignalsKnown' /\ FreeIsDone' /\ EventsHeld'
  BY <1>5 DEF SignalsKnown, FreeIsDone, EventsHeld, BrandDone, BrandFailed, IdleFan
<1>7. RowsBrought'
  <2> SUFFICES ASSUME NEW x \in Present \ missed
               PROVE  /\ (Writing(x) /\ worker.row # Computed(x) => Brought(x))'
                      /\ (~Writing(x) /\ detail[x] # Computed(x) => Brought(x))'
    BY <1>5 DEF RowsBrought, BrandDone, BrandFailed
  <2>1. Computed(x)' = Computed(x) /\ Writing(x)' = Writing(x)
    BY DEF Computed, Writing, BrandDone, BrandFailed
  <2>2. product[x].brand \in Brand /\ product' = product
    BY PresentRows DEF BrandDone, BrandFailed
  <2>3. fan'.brand = None /\ product[x].brand # None
    BY <1>5, <2>2 DEF IdleFan, SyncAssumption
  <2>4. CASE BrandFailed /\ product[x].brand = fan.brand
    BY <1>1, <1>2, <2>2, <2>3, <2>4 DEF Brought
  <2>5. CASE product[x].brand # fan.brand
    <3>1. Brought(x) => Brought(x)'
      BY <1>2, <2>2, <2>3, <2>5 DEF Brought, BrandDone, BrandFailed
    <3> QED BY <2>1, <3>1 DEF RowsBrought, BrandDone, BrandFailed
  <2>6. CASE BrandDone /\ product[x].brand = fan.brand
    <3>1. fan.stage # "selected" /\ brandEvents'[fan.brand] = brandEvents[fan.brand] - 1
      BY <1>1, <2>6 DEF BrandDone, TypeOK
    <3>2. Brought(x) => Brought(x)'
      BY <1>1, <2>2, <2>3, <2>6, <3>1 DEF Brought, BrandDone
    <3> QED BY <2>1, <2>6, <3>2 DEF RowsBrought, BrandDone
  <2> QED BY <2>4, <2>5, <2>6
<1> QED BY <1>4, <1>6, <1>7

LEMMA ComputeInv ==
  ASSUME SyncAssumption, Inv, NEW k \in Sku, Compute(k)
  PROVE  Inv'
<1> USE DEF Inv
<1>1. k \in Present
  BY DEF SignalsKnown, Compute
<1>2. Computed(k) \in Detail
  BY <1>1, PresentRows DEF Computed, Detail, TypeOK
<1>3. TypeOK'
  BY <1>2 DEF TypeOK, Compute
<1>4. Present' = Present /\ worker.sku = None
  BY DEF Compute, Present, EventsHeld
<1>5. SignalsKnown' /\ FreeIsDone' /\ EventsHeld'
  BY <1>4 DEF SignalsKnown, FreeIsDone, EventsHeld, Compute, SyncAssumption
<1>6. RowsBrought'
  <2> SUFFICES ASSUME NEW x \in Present \ missed
               PROVE  /\ (Writing(x) /\ worker.row # Computed(x) => Brought(x))'
                      /\ (~Writing(x) /\ detail[x] # Computed(x) => Brought(x))'
    BY <1>4 DEF RowsBrought, Compute
  <2>1. Computed(x)' = Computed(x)
    BY DEF Computed, Compute
  <2>2. CASE x = k
    BY <2>1, <2>2 DEF Compute, Writing
  <2>3. CASE x # k
    <3>1. ~Writing(x) /\ ~Writing(x)'
      BY <2>3 DEF Writing, Compute
    <3>2. worker'.sku = k /\ x \in Sku /\ x # None
      BY DEF Compute, Present, SyncAssumption
    <3>3. Brought(x) => Brought(x)'
      BY <1>4, <2>3, <3>2 DEF Brought, Compute
    <3> QED BY <2>1, <3>1, <3>3 DEF RowsBrought, Compute
  <2> QED BY <2>2, <2>3
<1> QED BY <1>3, <1>5, <1>6

LEMMA UpsertInv ==
  ASSUME SyncAssumption, Inv, Upsert
  PROVE  Inv'
<1> USE DEF Inv
<1>1. TypeOK'
  BY DEF TypeOK, Upsert
<1>2. worker'.sku = worker.sku /\ worker'.stage = "handled" /\ worker.sku \in Sku
  BY DEF Upsert, TypeOK, EventsHeld
<1>3. Present' = Present
  BY DEF Upsert, Present
<1>4. SignalsKnown' /\ FreeIsDone' /\ EventsHeld'
  BY <1>2, <1>3 DEF SignalsKnown, FreeIsDone, EventsHeld, Upsert
<1>5. RowsBrought'
  <2> SUFFICES ASSUME NEW x \in Present \ missed
               PROVE  /\ (Writing(x) /\ worker.row # Computed(x) => Brought(x))'
                      /\ (~Writing(x) /\ detail[x] # Computed(x) => Brought(x))'
    BY <1>3 DEF RowsBrought, Upsert
  <2>1. Computed(x)' = Computed(x) /\ ~Writing(x)'
    BY <1>2 DEF Computed, Writing, Upsert
  <2>2. Brought(x) => Brought(x)'
    BY <1>2 DEF Brought, Upsert
  <2>3. detail'[x] = IF x = worker.sku THEN worker.row ELSE detail[x]
    BY DEF Upsert, TypeOK, Present
  <2>4. Writing(x) <=> x = worker.sku
    BY DEF Writing, Upsert
  <2> QED BY <2>1, <2>2, <2>3, <2>4 DEF RowsBrought
<1> QED BY <1>1, <1>4, <1>5

LEMMA DetailEndInv ==
  ASSUME SyncAssumption, Inv, DetailDone \/ DetailFailed
  PROVE  Inv'
<1> USE DEF Inv
<1>1. worker.sku \in Sku /\ skuEvents[worker.sku] \in Nat \ {0}
  BY DEF EventsHeld, TypeOK, DetailDone, DetailFailed
<1>2. /\ DetailDone => skuEvents' = [skuEvents EXCEPT ![worker.sku] = @ - 1]
      /\ DetailFailed => skuEvents' = skuEvents
  BY DEF DetailDone, DetailFailed
<1>3. skuEvents' \in [Sku -> Nat] /\ \A x \in Sku : skuEvents'[x] <= skuEvents[x]
  <2>1. CASE DetailFailed
    BY <1>2, <2>1 DEF TypeOK
  <2>2. CASE DetailDone
    <3>1. skuEvents[worker.sku] - 1 \in Nat
      BY <1>1
    <3>2. \A x \in Sku : skuEvents[x] \in Nat
      BY DEF TypeOK
    <3> QED BY <1>1, <1>2, <2>2, <3>1, <3>2 DEF TypeOK
  <2> QED BY <2>1, <2>2
<1>4. TypeOK'
  BY <1>3 DEF TypeOK, DetailDone, DetailFailed, IdleWorker
<1>5. Present' = Present /\ worker' = IdleWorker
  BY DEF DetailDone, DetailFailed, Present
<1>6. SignalsKnown'
  BY <1>3, <1>5 DEF SignalsKnown, DetailDone, DetailFailed, TypeOK
<1>7. FreeIsDone' /\ EventsHeld'
  BY <1>5 DEF FreeIsDone, EventsHeld, DetailDone, DetailFailed, IdleWorker
<1>8. RowsBrought'
  <2> SUFFICES ASSUME NEW x \in Present \ missed
               PROVE  (detail[x] # Computed(x) => Brought(x))' /\ ~Writing(x)'
    BY <1>5 DEF RowsBrought, DetailDone, DetailFailed
  <2>1. Computed(x)' = Computed(x) /\ ~Writing(x)' /\ detail' = detail
    BY <1>5 DEF Computed, Writing, DetailDone, DetailFailed, IdleWorker
  <2>2. x \in Sku /\ worker'.sku = None /\ x # None
    BY <1>5 DEF IdleWorker, Present, SyncAssumption
  <2>3. CASE DetailFailed /\ x = worker.sku
    BY <1>1, <1>2, <2>1, <2>2, <2>3 DEF Brought
  <2>4. CASE x # worker.sku
    <3>1. skuEvents'[x] = skuEvents[x]
      BY <1>1, <1>2, <2>2, <2>4 DEF TypeOK
    <3>2. Brought(x) => Brought(x)'
      BY <2>2, <2>4, <3>1 DEF Brought, DetailDone, DetailFailed
    <3> QED BY <2>1, <2>4, <3>2 DEF RowsBrought, Writing
  <2>5. CASE DetailDone /\ x = worker.sku
    <3>1. ~Writing(x)
      BY <2>5 DEF Writing, DetailDone
    <3>2. skuEvents'[x] = skuEvents[x] - 1
      BY <1>1, <1>2, <2>5 DEF TypeOK
    <3>3. Brought(x) => Brought(x)'
      BY <1>1, <2>2, <2>5, <3>2 DEF Brought, DetailDone
    <3> QED BY <2>1, <3>1, <3>3 DEF RowsBrought
  <2> QED BY <2>3, <2>4, <2>5
<1> QED BY <1>4, <1>6, <1>7, <1>8

LEMMA StutterInv == ASSUME Inv, UNCHANGED vars PROVE Inv'
BY DEF Inv, vars, TypeOK, SignalsKnown, FreeIsDone, EventsHeld, RowsBrought,
       Present, Brought, Writing, Computed

LEMMA NextInv ==
  ASSUME SyncAssumption, Inv, [Next]_vars
  PROVE  Inv'
<1>1. CASE \E s \in Session : Requests(s)
  BY <1>1, CreateInv, UpdateInv, UpdateCommonInv DEF Requests
<1>2. CASE \E s \in Session : Ends(s) \/ Crash(s)
  BY <1>2, UpdateInv, EndInv, SignalInv DEF Ends
<1>3. CASE \E b \in Brand : UpdateBrand(b)
  BY <1>3, UpdateBrandInv
<1>4. CASE FanStep \/ BrandFailed
  BY <1>4, InsertInv, SelectInv, BrandEndInv DEF FanStep
<1>5. CASE WorkerStep \/ DetailFailed
  BY <1>5, UpsertInv, ComputeInv, DetailEndInv DEF WorkerStep
<1>6. CASE UNCHANGED vars
  BY <1>6, StutterInv
<1> QED BY <1>1, <1>2, <1>3, <1>4, <1>5, <1>6 DEF Next

LEMMA InvHolds == Spec => []Inv
<1>1. Init => Inv
  BY SyncAssumption, InitInv
<1>2. Inv /\ [Next]_vars => Inv'
  BY SyncAssumption, NextInv
<1> QED BY <1>1, <1>2, PTL DEF Spec

\* The rows keep their shapes, and no interleaving of requests, the fan-out
\* and recomputations, and no failure of a consumer, leaves a detail row that
\* is out of date without a recomputation ahead of it, unless its request died
\* between the commit and the signal.
THEOREM NoRowLeftBehind == Spec => []RowsOrPending
<1>1. Inv => RowsOrPending
  <2> SUFFICES ASSUME Inv, NEW k \in Sku, Stale(k), k \notin missed
               PROVE  UpdatePending(k)
    BY DEF RowsOrPending, StaleIsPending, Inv
  <2>1. k \in Present \ missed
    BY DEF Stale
  <2>2. CASE Brought(k)
    BY <2>2 DEF Brought, UpdatePending
  <2>3. CASE ~Brought(k)
    BY <2>1, <2>3 DEF Inv, RowsBrought, Writing, UpdatePending, Stale
  <2> QED BY <2>2, <2>3
<1> QED BY <1>1, InvHolds, PTL
===============================================================================
