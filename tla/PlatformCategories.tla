------------------------- MODULE PlatformCategories -------------------------
(***************************************************************************)
(* How the sellers of a platform are told the categories of its owner:     *)
(* app/services/seller.py, the category and platform handlers of           *)
(* app/extensions/ram_queue_consumer/__init__.py and the two requests of   *)
(* app/services/categories/category.py that change a category.             *)
(*                                                                         *)
(* A category is told to the sellers that have the platform as default     *)
(* when its event is HANDLED; a seller that gets the platform as default   *)
(* is told what is active when ITS event is handled.  Both events are sent *)
(* after the commit of their request, and one consumer works on both.      *)
(*                                                                         *)
(* External: the signal handlers and the RAM library.  An event is stored  *)
(* when its signal is sent, waits until the consumer takes it, and waits   *)
(* again when its handler raises.  The handlers read platform_sellers      *)
(* through the scoped session, which is taken to start afresh with each    *)
(* event.  A delayed event may be taken at any later time.                 *)
(***************************************************************************)
EXTENDS Naturals, FiniteSets

CONSTANTS
  Seller, Platform, Category,
  Owner,        \* the sellers that own categories and platforms
  Session,      \* requests in progress at a time
  All,          \* a category event that names no seller_id
  MaxFailures,  \* bound: how often a handler raises
  MaxLost       \* bound: how many requests die before their signal

ASSUME ConstantsAssumption ==
  /\ Owner \subseteq Seller
  /\ All \notin Seller
  /\ MaxFailures \in Nat
  /\ MaxLost \in Nat

VARIABLES
  owns,      \* platform_sellers with is_owner: <<seller, platform>>
  sells,     \* platform_sellers with is_default, and the owner that the
             \* message named with it: <<seller, platform, owner>>
  owner,     \* the seller of each category that exists
  active,    \* the categories with is_active
  due,       \* the event each request still has to send, if any
  queue,     \* events waiting; equal ones count once
  handling,  \* the event the consumer works on, if any
  asking,    \* can_create_category_on_srm has not answered yet
  left,      \* <<seller, category>>: what the handler still has to send
  told,      \* <<seller, category>>: published to the other services
  lost,      \* events that their request died with
  failures   \* how often a handler raised

vars == <<owns, sells, owner, active, due, queue, handling, asking, left,
          told, lost, failures>>

-----------------------------------------------------------------------------
(* Events.                                                                 *)

CategoryEvent(c, to) == [kind |-> "category", category |-> c, to |-> to]
PlatformEvent(s, o) == [kind |-> "platform", seller |-> s, owner |-> o]

Event ==
  [kind : {"category"}, category : Category, to : Seller \cup {All}]
    \cup [kind : {"platform"}, seller : Seller, owner : Owner]

Existing == DOMAIN owner

Init ==
  /\ owns = {} /\ sells = {}
  /\ owner \in [{} -> Owner] /\ active = {}
  /\ due = [r \in Session |-> {}]
  /\ queue = {} /\ handling = {}
  /\ asking = FALSE /\ left = {}
  /\ told = {} /\ lost = {}
  /\ failures = 0

-----------------------------------------------------------------------------
(* Requests.                                                               *)

\* create_category of seller o, up to its commit.
CreateCategory(r, c, o) ==
  /\ due[r] = {}
  /\ c \notin Existing
  /\ owner' = [d \in Existing \cup {c} |-> IF d = c THEN o ELSE owner[d]]
  /\ active' = active \cup {c}
  /\ due' = [due EXCEPT ![r] = {CategoryEvent(c, All)}]
  /\ UNCHANGED <<owns, sells, queue, handling, asking, left, told, lost, failures>>

\* update_category with is_active among its data, up to its commit.
UpdateCategory(r, c, on) ==
  /\ due[r] = {}
  /\ c \in Existing
  /\ active' = IF on THEN active \cup {c} ELSE active \ {c}
  /\ due' = [due EXCEPT ![r] = {CategoryEvent(c, All)}]
  /\ UNCHANGED <<owns, sells, owner, queue, handling, asking, left, told, lost, failures>>

\* Mutant of OwnersAssigned: the owner gets no row of its own.
OwnersSelling(s, p, o) == IF s = o THEN owns \cup {<<o, p>>} ELSE owns

\* The owner's row, the seller's own or the one of __assign_owner_seller.
OwnersAssigned(s, p, o) == owns \cup {<<o, p>>}

\* assign_new_selling_platform, up to its commit.
Assign(r, s, p, o, default) ==
  /\ due[r] = {}
  /\ owns' = OwnersAssigned(s, p, o)
  /\ sells' = {row \in sells : row[1] # s \/ row[2] # p}
                \cup (IF default THEN {<<s, p, o>>} ELSE {})
  /\ due' = [due EXCEPT ![r] = IF default THEN {PlatformEvent(s, o)} ELSE {}]
  /\ UNCHANGED <<owner, active, queue, handling, asking, left, told, lost, failures>>

\* The signal after the commit.
Signal(r) ==
  /\ due[r] # {}
  /\ queue' = queue \cup due[r]
  /\ due' = [due EXCEPT ![r] = {}]
  /\ UNCHANGED <<owns, sells, owner, active, handling, asking, left, told, lost, failures>>

\* The worker dies between the commit and the signal.
Die(r) ==
  /\ due[r] # {}
  /\ Cardinality(lost) < MaxLost
  /\ lost' = lost \cup due[r]
  /\ due' = [due EXCEPT ![r] = {}]
  /\ UNCHANGED <<owns, sells, owner, active, queue, handling, asking, left, told, failures>>

-----------------------------------------------------------------------------
(* The consumer.                                                           *)

\* get_seller_default_on_platform of get_platform_by_seller_id.
DefaultSellers(o) ==
  {s \in Seller : \E row \in sells : row[1] = s /\ <<o, row[2]>> \in owns}

\* _get_category_seller_ids.
Audience(e) == IF e.to = All THEN DefaultSellers(owner[e.category]) ELSE {e.to}

\* __get_platform_categories_query(...).all()
PlatformCategoriesOf(o) == {c \in active : owner[c] = o}

\* process_create_category or process_update_category, up to the loop.
TakeCategory(e) ==
  /\ handling = {}
  /\ e \in queue
  /\ e.kind = "category"
  /\ queue' = queue \ {e}
  /\ handling' = {e}
  /\ left' = {<<s, e.category>> : s \in Audience(e)}
  /\ UNCHANGED <<owns, sells, owner, active, due, asking, told, lost, failures>>

\* process_platform_seller_upsert, up to can_create_category_on_srm.  Both
\* queries read the snapshot of this moment.
TakePlatform(e) ==
  /\ handling = {}
  /\ e \in queue
  /\ e.kind = "platform"
  /\ queue' = queue \ {e}
  /\ handling' = {e}
  /\ asking' = TRUE
  /\ left' = {<<e.seller, c>> : c \in PlatformCategoriesOf(e.owner)}
  /\ UNCHANGED <<owns, sells, owner, active, due, told, lost, failures>>

Accept ==
  /\ asking
  /\ asking' = FALSE
  /\ UNCHANGED <<owns, sells, owner, active, due, queue, handling, left, told, lost, failures>>

\* Mutant of Refuse: the event is not sent again.
RefuseForGood ==
  /\ asking
  /\ asking' = FALSE
  /\ left' = {}
  /\ UNCHANGED <<owns, sells, owner, active, due, queue, handling, told, lost, failures>>

\* Mutant of Refuse: the data sent again has lost its owner.
RefuseWithoutOwner ==
  /\ asking
  /\ asking' = FALSE
  /\ left' = {}
  /\ queue' = queue \cup {[kind |-> e.kind, seller |-> e.seller] : e \in handling}
  /\ UNCHANGED <<owns, sells, owner, active, due, handling, told, lost, failures>>

\* The event is sent again, to be taken later.
Refuse ==
  /\ asking
  /\ asking' = FALSE
  /\ left' = {}
  /\ queue' = queue \cup handling
  /\ UNCHANGED <<owns, sells, owner, active, due, handling, told, lost, failures>>

\* One round of the loop of _process_category_upsert.
Publish(s, c) ==
  /\ \E e \in handling : e.kind = "category"
  /\ <<s, c>> \in left
  /\ told' = told \cup {<<s, c>>}
  /\ left' = left \ {<<s, c>>}
  /\ UNCHANGED <<owns, sells, owner, active, due, queue, handling, asking, lost, failures>>

\* One round of the loop of process_platform_seller_upsert.
Seed(s, c) ==
  /\ \E e \in handling : e.kind = "platform"
  /\ ~asking
  /\ <<s, c>> \in left
  /\ queue' = queue \cup {CategoryEvent(c, s)}
  /\ left' = left \ {<<s, c>>}
  /\ UNCHANGED <<owns, sells, owner, active, due, handling, asking, told, lost, failures>>

\* The handler returns.
Done ==
  /\ handling # {}
  /\ ~asking
  /\ left = {}
  /\ handling' = {}
  /\ UNCHANGED <<owns, sells, owner, active, due, queue, asking, left, told, lost, failures>>

\* The handler raises, or its process dies.
Fail ==
  /\ handling # {}
  /\ failures < MaxFailures
  /\ failures' = failures + 1
  /\ queue' = queue \cup handling
  /\ handling' = {}
  /\ asking' = FALSE
  /\ left' = {}
  /\ UNCHANGED <<owns, sells, owner, active, due, told, lost>>

-----------------------------------------------------------------------------

Request(r) ==
  \/ \E c \in Category, o \in Owner : CreateCategory(r, c, o)
  \/ \E c \in Category, on \in BOOLEAN : UpdateCategory(r, c, on)
  \/ \E s \in Seller, o \in Owner, p \in Platform, default \in BOOLEAN : Assign(r, s, p, o, default)

Take(e) == TakeCategory(e) \/ TakePlatform(e)

Next ==
  \/ \E r \in Session : Request(r) \/ Signal(r) \/ Die(r)
  \/ \E e \in queue : Take(e)
  \/ Accept
  \/ Refuse
  \/ \E s \in Seller, c \in Category : Publish(s, c) \/ Seed(s, c)
  \/ Done
  \/ Fail

Spec == Init /\ [][Next]_vars

\* Requests send their signals, the consumer goes on, no event is passed over
\* for ever, and the other service does not refuse a seller for ever.
Fairness ==
  /\ \A r \in Session : WF_vars(Signal(r))
  /\ \A e \in Event : SF_vars(Take(e))
  /\ \A s \in Seller, o \in Owner :
        SF_vars(Accept /\ handling = {PlatformEvent(s, o)})
  /\ WF_vars(Done \/ \E s \in Seller, c \in Category : Publish(s, c) \/ Seed(s, c))

FairSpec == Spec /\ Fairness

-----------------------------------------------------------------------------
(* Properties.                                                             *)

\* The variables have the shapes given above; only the handler of a category
\* that exists, or of a platform, has something left to send, and only to
\* the seller and of the owner that its event names.
TypeOK ==
  /\ owns \subseteq Owner \X Platform
  /\ sells \subseteq Seller \X Platform \X Owner
  /\ Existing \subseteq Category /\ owner \in [Existing -> Owner]
  /\ active \subseteq Existing
  /\ due \in [Session -> SUBSET Event]
  /\ queue \subseteq Event /\ handling \subseteq Event /\ lost \subseteq Event
  /\ asking \in BOOLEAN
  /\ left \subseteq Seller \X Existing
  /\ told \subseteq Seller \X Existing
  /\ failures \in 0..MaxFailures

\* Seller s sells the categories of o: it has a platform as default that was
\* given to it in o's name.
SellsFor(s, o) == \E row \in sells : row[1] = s /\ row[3] = o

\* Event e will bring category c to seller s when it is handled.
Brings(e, s, c) ==
  \/ e.kind = "category" /\ e.category = c /\ e.to \in {All, s}
  \/ e.kind = "platform" /\ e.seller = s /\ e.owner = owner[c]

Waiting == queue \cup lost \cup UNION {due[r] : r \in Session}

\* An active category of an owner is told to every seller that has the
\* owner's platform as default, or an event that brings it is still ahead,
\* or was lost with its request: a category that appears while a seller is
\* being assigned, and a seller that is assigned while a category is being
\* announced, do not miss each other, whatever the order of the events and
\* however often a handler is refused or fails.
NoneForgotten ==
  \A s \in Seller, c \in active :
    SellsFor(s, owner[c]) =>
      \/ <<s, c>> \in told \cup left
      \/ \E e \in Waiting : Brings(e, s, c)

\* A seller is in time told each active category of its platform's owner,
\* unless the category or the platform is taken away before.
EverybodyTold ==
  \A s \in Seller, c \in Category :
    LET due_to_know == c \in active /\ SellsFor(s, owner[c])
    IN  due_to_know ~> (<<s, c>> \in told \/ ~due_to_know)
=============================================================================
