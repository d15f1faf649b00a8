---------------------- MODULE PlatformCategoriesProofs ----------------------
(***************************************************************************)
(* Theorems about PlatformCategories, for any sellers, platforms,          *)
(* categories and requests and for any number of failures and losses.      *)
(***************************************************************************)
EXTENDS PlatformCategories, TLAPS

\* The owner a default row was given for has a row with is_owner:
\* __assign_owner_seller adds it with the same commit, nothing removes it.
OwnersKnown == \A row \in sells : <<row[3], row[2]>> \in owns

\* What the handler still has to send is what its event brings, so that
\* putting the event back makes up for a handler that stops half way.
WorkNamed ==
  /\ left # {} => handling # {}
  /\ \A e \in handling : \A s \in Seller, c \in Category :
        <<s, c>> \in left => Brings(e, s, c)

\* A category event is about a category that exists.
CategoriesKnown ==
  \A e \in Waiting \cup handling : e.kind = "category" => e.category \in Existing

\* Pairs that NoneForgotten asks for, one at a time.
Covered(s, c) ==
  \/ <<s, c>> \in told \cup left
  \/ \E e \in Waiting : Brings(e, s, c)

Inv ==
  /\ TypeOK
  /\ OwnersKnown
  /\ WorkNamed
  /\ CategoriesKnown
  /\ \A s \in Seller, c \in active : SellsFor(s, owner[c]) => Covered(s, c)

-----------------------------------------------------------------------------

\* The events the requests send are events.
LEMMA EventsTyped ==
  ASSUME ConstantsAssumption
  PROVE  /\ \A c \in Category, to \in Seller \cup {All} : CategoryEvent(c, to) \in Event
         /\ \A s \in Seller, o \in Owner : PlatformEvent(s, o) \in Event
BY DEF ConstantsAssumption, CategoryEvent, PlatformEvent, Event

\* An event that a request has to send brings what it is about.
LEMMA EventsBring ==
  ASSUME NEW s \in Seller, NEW c \in Category
  PROVE  /\ Brings(CategoryEvent(c, All), s, c)
         /\ Brings(CategoryEvent(c, s), s, c)
         /\ Brings(PlatformEvent(s, owner[c]), s, c)
BY DEF Brings, CategoryEvent, PlatformEvent

LEMMA InitInv == ASSUME ConstantsAssumption, Init PROVE Inv
<1>1. Existing = {}
  BY DEF Init, Existing
<1>2. due \in [Session -> SUBSET Event]
  BY DEF Init
<1>3. failures \in 0..MaxFailures
  BY DEF Init, ConstantsAssumption
<1>4. TypeOK
  BY <1>1, <1>2, <1>3 DEF Init, TypeOK
<1>5. Waiting = {}
  BY DEF Init, Waiting
<1> QED
  BY <1>4, <1>5 DEF Init, Inv, OwnersKnown, WorkNamed, CategoriesKnown

LEMMA CreateCategoryInv ==
  ASSUME ConstantsAssumption, Inv,
         NEW r \in Session, NEW c \in Category, NEW o \in Owner, CreateCategory(r, c, o)
  PROVE  Inv'
<1> USE DEF Inv
<1>1. TypeOK'
  BY EventsTyped DEF TypeOK, CreateCategory, ConstantsAssumption, Existing
<1>2. OwnersKnown'
  BY DEF OwnersKnown, CreateCategory
<1>3. \A d \in Existing : owner'[d] = owner[d]
  BY DEF CreateCategory, Existing
<1>4. WorkNamed'
  BY <1>3 DEF WorkNamed, CreateCategory, TypeOK, Brings
<1>5. ASSUME NEW s \in Seller, NEW d \in active', SellsFor(s, owner[d])'
      PROVE  Covered(s, d)'
  <2>1. CASE d = c
    <3>1. CategoryEvent(c, All) \in Waiting'
      BY DEF CreateCategory, Waiting, TypeOK
    <3> QED BY <2>1, <3>1 DEF Covered, Brings, CategoryEvent
  <2>2. CASE d # c
    <3>1. d \in active /\ d \in Existing /\ SellsFor(s, owner[d])
      BY <1>3, <1>5, <2>2 DEF CreateCategory, TypeOK, SellsFor, Existing
    <3>2. Waiting \subseteq Waiting'
      BY DEF CreateCategory, Waiting, TypeOK
    <3> QED BY <1>3, <3>1, <3>2 DEF Covered, Brings, CreateCategory
  <2> QED BY <2>1, <2>2
<1>6. CategoriesKnown'
  BY DEF CategoriesKnown, CreateCategory, Waiting, TypeOK, Existing, CategoryEvent
<1> QED BY <1>1, <1>2, <1>4, <1>5, <1>6

LEMMA UpdateCategoryInv ==
  ASSUME ConstantsAssumption, Inv,
         NEW r \in Session, NEW c \in Category, NEW on \in BOOLEAN, UpdateCategory(r, c, on)
  PROVE  Inv'
<1> USE DEF Inv
<1>1. TypeOK'
  BY EventsTyped DEF TypeOK, UpdateCategory, ConstantsAssumption, Existing
<1>2. OwnersKnown' /\ WorkNamed'
  BY DEF OwnersKnown, WorkNamed, UpdateCategory, Brings
<1>3. ASSUME NEW s \in Seller, NEW d \in active', SellsFor(s, owner[d])'
      PROVE  Covered(s, d)'
  <2>1. CASE d = c
    <3>1. CategoryEvent(c, All) \in Waiting'
      BY DEF UpdateCategory, Waiting, TypeOK
    <3> QED BY <2>1, <3>1 DEF Covered, Brings, CategoryEvent
  <2>2. CASE d # c
    <3>1. d \in active /\ SellsFor(s, owner[d])
      BY <1>3, <2>2 DEF UpdateCategory, TypeOK, SellsFor
    <3>2. Waiting \subseteq Waiting'
      BY DEF UpdateCategory, Waiting, TypeOK
    <3> QED BY <3>1, <3>2 DEF Covered, Brings, UpdateCategory
  <2> QED BY <2>1, <2>2
<1>4. CategoriesKnown'
  BY DEF CategoriesKnown, UpdateCategory, Waiting, TypeOK, Existing, CategoryEvent
<1> QED BY <1>1, <1>2, <1>3, <1>4

LEMMA AssignInv ==
  ASSUME ConstantsAssumption, Inv,
         NEW r \in Session, NEW s \in Seller, NEW p \in Platform, NEW o \in Owner,
         NEW default \in BOOLEAN, Assign(r, s, p, o, default)
  PROVE  Inv'
<1> USE DEF Inv
<1>1. TypeOK'
  BY EventsTyped DEF TypeOK, Assign, OwnersAssigned, ConstantsAssumption, Existing
<1>2. OwnersKnown'
  <2> SUFFICES ASSUME NEW row \in sells'
               PROVE  <<row[3], row[2]>> \in owns'
    BY DEF OwnersKnown
  <2>1. CASE row \in sells
    BY <2>1 DEF OwnersKnown, Assign, OwnersAssigned
  <2>2. CASE row = <<s, p, o>>
    BY <2>2 DEF Assign, OwnersAssigned
  <2> QED BY <2>1, <2>2 DEF Assign
<1>3. WorkNamed'
  BY DEF WorkNamed, Assign, Brings
<1>4. ASSUME NEW t \in Seller, NEW d \in active', SellsFor(t, owner[d])'
      PROVE  Covered(t, d)'
  <2>1. CASE default /\ t = s /\ o = owner[d]
    <3>1. PlatformEvent(s, o) \in Waiting'
      BY <2>1 DEF Assign, Waiting, TypeOK
    <3> QED BY <2>1, <3>1 DEF Covered, Brings, PlatformEvent, Assign
  <2>2. CASE ~(default /\ t = s /\ o = owner[d])
    <3>1. d \in active /\ SellsFor(t, owner[d])
      BY <1>4, <2>2 DEF Assign, SellsFor
    <3>2. Waiting \subseteq Waiting'
      BY DEF Assign, Waiting, TypeOK
    <3> QED BY <3>1, <3>2 DEF Covered, Brings, Assign
  <2> QED BY <2>1, <2>2
<1>5. CategoriesKnown'
  BY DEF CategoriesKnown, Assign, Waiting, TypeOK, Existing, PlatformEvent
<1> QED BY <1>1, <1>2, <1>3, <1>4, <1>5

LEMMA SignalInv ==
  ASSUME ConstantsAssumption, Inv, NEW r \in Session, Signal(r) \/ Die(r)
  PROVE  Inv'
<1> USE DEF Inv
<1>1. TypeOK'
  BY DEF TypeOK, Signal, Die, Existing
<1>2. OwnersKnown' /\ WorkNamed'
  BY DEF OwnersKnown, WorkNamed, Signal, Die, Brings
<1>3. Waiting \subseteq Waiting'
  BY DEF Signal, Die, Waiting, TypeOK
<1>4. ASSUME NEW s \in Seller, NEW c \in active', SellsFor(s, owner[c])'
      PROVE  Covered(s, c)'
  <2>1. c \in active /\ SellsFor(s, owner[c])
    BY <1>4 DEF Signal, Die, SellsFor
  <2> QED BY <1>3, <2>1 DEF Covered, Brings, Signal, Die
<1>5. CategoriesKnown'
  BY DEF CategoriesKnown, Signal, Die, Waiting, TypeOK, Existing
<1> QED BY <1>1, <1>2, <1>4, <1>5

LEMMA TakeCategoryInv ==
  ASSUME ConstantsAssumption, Inv, NEW e \in queue, TakeCategory(e)
  PROVE  Inv'
<1> USE DEF Inv
<1>1. e \in Event /\ e.kind = "category" /\ e.to \in Seller \cup {All}
  BY DEF TypeOK, TakeCategory, Event
<1>2. e.category \in Existing
  BY <1>1 DEF CategoriesKnown, Waiting
<1>3. Audience(e) \subseteq Seller
  BY <1>1 DEF Audience, DefaultSellers
<1>4. TypeOK'
  BY <1>1, <1>2, <1>3 DEF TypeOK, TakeCategory, Existing
<1>5. OwnersKnown'
  BY DEF OwnersKnown, TakeCategory
<1>6. CategoriesKnown'
  BY <1>1, <1>2 DEF CategoriesKnown, TakeCategory, Waiting, TypeOK, Existing
<1>7. WorkNamed'
  <2>1. ASSUME NEW s \in Seller, NEW c \in Category, <<s, c>> \in left'
        PROVE  c = e.category /\ s \in Audience(e)
    BY <2>1 DEF TakeCategory
  <2>2. \A s \in Audience(e) : e.to \in {All, s}
    BY DEF Audience
  <2> QED BY <1>1, <2>1, <2>2 DEF WorkNamed, Brings, TakeCategory
<1>8. ASSUME NEW s \in Seller, NEW c \in active', SellsFor(s, owner[c])'
      PROVE  Covered(s, c)'
  <2>1. c \in active /\ SellsFor(s, owner[c]) /\ owner' = owner
    BY <1>8 DEF TakeCategory, SellsFor
  <2>2. CASE Brings(e, s, c)
    <3>1. e.category = c /\ e.to \in {All, s}
      BY <1>1, <2>2 DEF Brings
    <3>2. s \in DefaultSellers(owner[c])
      BY <2>1 DEF SellsFor, DefaultSellers, OwnersKnown
    <3>3. s \in Audience(e)
      BY <3>1, <3>2 DEF Audience
    <3> QED BY <3>1, <3>3 DEF Covered, TakeCategory
  <2>3. CASE ~Brings(e, s, c)
    <3>1. left = {}
      BY DEF WorkNamed, TakeCategory
    <3>2. CASE <<s, c>> \in told
      BY <3>2 DEF Covered, TakeCategory
    <3>3. CASE \E d \in Waiting : Brings(d, s, c)
      <4>1. PICK d \in Waiting : Brings(d, s, c) /\ d # e
        BY <2>3, <3>3
      <4>2. d \in Waiting'
        BY <4>1 DEF Waiting, TakeCategory
      <4> QED BY <2>1, <4>1, <4>2 DEF Covered, Brings
    <3> QED BY <2>1, <3>1, <3>2, <3>3 DEF Covered
  <2> QED BY <2>2, <2>3
<1> QED BY <1>4, <1>5, <1>6, <1>7, <1>8

LEMMA TakePlatformInv ==
  ASSUME ConstantsAssumption, Inv, NEW e \in queue, TakePlatform(e)
  PROVE  Inv'
<1> USE DEF Inv
<1>1. e \in Event /\ e.kind = "platform" /\ e.seller \in Seller /\ e.owner \in Owner
  BY DEF TypeOK, TakePlatform, Event
<1>2. PlatformCategoriesOf(e.owner) \subseteq Existing
  BY DEF PlatformCategoriesOf, TypeOK
<1>3. TypeOK'
  BY <1>1, <1>2 DEF TypeOK, TakePlatform, Existing
<1>4. OwnersKnown'
  BY DEF OwnersKnown, TakePlatform
<1>5. CategoriesKnown'
  BY <1>1 DEF CategoriesKnown, TakePlatform, Waiting, TypeOK, Existing
<1>6. WorkNamed'
  <2>1. ASSUME NEW s \in Seller, NEW c \in Category, <<s, c>> \in left'
        PROVE  s = e.seller /\ owner[c] = e.owner
    BY <2>1 DEF TakePlatform, PlatformCategoriesOf
  <2> QED BY <1>1, <2>1 DEF WorkNamed, Brings, TakePlatform
<1>7. ASSUME NEW s \in Seller, NEW c \in active', SellsFor(s, owner[c])'
      PROVE  Covered(s, c)'
  <2>1. c \in active /\ SellsFor(s, owner[c]) /\ owner' = owner
    BY <1>7 DEF TakePlatform, SellsFor
  <2>2. CASE Brings(e, s, c)
    <3>1. e.seller = s /\ e.owner = owner[c]
      BY <1>1, <2>2 DEF Brings
    <3>2. c \in PlatformCategoriesOf(e.owner)
      BY <2>1, <3>1 DEF PlatformCategoriesOf
    <3> QED BY <3>1, <3>2 DEF Covered, TakePlatform
  <2>3. CASE ~Brings(e, s, c)
    <3>1. left = {}
      BY DEF WorkNamed, TakePlatform
    <3>2. CASE <<s, c>> \in told
      BY <3>2 DEF Covered, TakePlatform
    <3>3. CASE \E d \in Waiting : Brings(d, s, c)
      <4>1. PICK d \in Waiting : Brings(d, s, c) /\ d # e
        BY <2>3, <3>3
      <4>2. d \in Waiting'
        BY <4>1 DEF Waiting, TakePlatform
      <4> QED BY <2>1, <4>1, <4>2 DEF Covered, Brings
    <3> QED BY <2>1, <3>1, <3>2, <3>3 DEF Covered
  <2> QED BY <2>2, <2>3
<1> QED BY <1>3, <1>4, <1>5, <1>6, <1>7

LEMMA AnswerInv ==
  ASSUME ConstantsAssumption, Inv, Accept \/ Refuse
  PROVE  Inv'
<1> USE DEF Inv
<1>1. TypeOK'
  BY DEF TypeOK, Accept, Refuse, Existing
<1>2. OwnersKnown' /\ WorkNamed' /\ CategoriesKnown'
  BY DEF OwnersKnown, WorkNamed, CategoriesKnown, Accept, Refuse, Brings, Waiting, Existing
<1>3. ASSUME NEW s \in Seller, NEW c \in active', SellsFor(s, owner[c])'
      PROVE  Covered(s, c)'
  <2>1. c \in active /\ Covered(s, c)
    BY <1>3 DEF Accept, Refuse, SellsFor
  <2>2. CASE <<s, c>> \in left /\ Refuse
    <3>1. PICK e \in handling : Brings(e, s, c)
      BY <2>1, <2>2 DEF WorkNamed, TypeOK
    <3>2. e \in Waiting'
      BY <2>2, <3>1 DEF Waiting, Refuse
    <3> QED BY <2>2, <3>1, <3>2 DEF Covered, Brings, Refuse
  <2>3. CASE ~(<<s, c>> \in left /\ Refuse)
    <3>1. Waiting \subseteq Waiting'
      BY DEF Waiting, Accept, Refuse
    <3> QED BY <2>1, <2>3, <3>1 DEF Covered, Brings, Accept, Refuse
  <2> QED BY <2>2, <2>3
<1> QED BY <1>1, <1>2, <1>3

LEMMA SendInv ==
  ASSUME ConstantsAssumption, Inv,
         NEW s \in Seller, NEW c \in Category, Publish(s, c) \/ Seed(s, c)
  PROVE  Inv'
<1> USE DEF Inv
<1>1. c \in Existing
  BY DEF TypeOK, Publish, Seed
<1>2. TypeOK'
  BY <1>1, EventsTyped DEF TypeOK, Publish, Seed, Existing
<1>3. OwnersKnown' /\ WorkNamed'
  BY DEF OwnersKnown, WorkNamed, Publish, Seed, Brings
<1>4. CategoriesKnown'
  BY <1>1 DEF CategoriesKnown, Publish, Seed, Waiting, Existing, CategoryEvent
<1>5. ASSUME NEW t \in Seller, NEW d \in active', SellsFor(t, owner[d])'
      PROVE  Covered(t, d)'
  <2>1. d \in active /\ Covered(t, d)
    BY <1>5 DEF Publish, Seed, SellsFor
  <2>2. CASE <<t, d>> = <<s, c>> /\ Seed(s, c)
    <3>1. CategoryEvent(d, t) \in Waiting'
      BY <2>2 DEF Waiting, Seed
    <3> QED BY <3>1 DEF Covered, Brings, CategoryEvent
  <2>3. CASE ~(<<t, d>> = <<s, c>> /\ Seed(s, c))
    <3>1. Waiting \subseteq Waiting'
      BY DEF Waiting, Publish, Seed
    <3> QED BY <2>1, <2>3, <3>1 DEF Covered, Brings, Publish, Seed
  <2> QED BY <2>2, <2>3
<1> QED BY <1>2, <1>3, <1>4, <1>5

LEMMA EndInv ==
  ASSUME ConstantsAssumption, Inv, Done \/ Fail
  PROVE  Inv'
<1> USE DEF Inv
<1>1. TypeOK'
  <2>1. failures' \in 0..MaxFailures
    BY DEF TypeOK, Done, Fail, ConstantsAssumption
  <2> QED BY <2>1 DEF TypeOK, Done, Fail, Existing
<1>2. OwnersKnown' /\ WorkNamed' /\ CategoriesKnown'
  BY DEF OwnersKnown, WorkNamed, CategoriesKnown, Done, Fail, Brings, Waiting, Existing
<1>3. ASSUME NEW s \in Seller, NEW c \in active', SellsFor(s, owner[c])'
      PROVE  Covered(s, c)'
  <2>1. c \in active /\ Covered(s, c)
    BY <1>3 DEF Done, Fail, SellsFor
  <2>2. CASE <<s, c>> \in left
    <3>1. PICK e \in handling : Brings(e, s, c)
      BY <2>1, <2>2 DEF WorkNamed, TypeOK
    <3>2. e \in Waiting'
      BY <2>2, <3>1 DEF Waiting, Done, Fail
    <3> QED BY <3>1, <3>2 DEF Covered, Brings, Done, Fail
  <2>3. CASE <<s, c>> \notin left
    <3>1. Waiting \subseteq Waiting'
      BY DEF Waiting, Done, Fail
    <3> QED BY <2>1, <2>3, <3>1 DEF Covered, Brings, Done, Fail
  <2> QED BY <2>2, <2>3
<1> QED BY <1>1, <1>2, <1>3

LEMMA StutterInv == ASSUME Inv, UNCHANGED vars PROVE Inv'
BY DEF Inv, vars, TypeOK, OwnersKnown, WorkNamed, CategoriesKnown, Covered,
       Waiting, Brings, SellsFor, Existing

LEMMA NextInv ==
  ASSUME ConstantsAssumption, Inv, [Next]_vars
  PROVE  Inv'
<1>1. CASE \E r \in Session : Request(r)
  BY <1>1, CreateCategoryInv, UpdateCategoryInv, AssignInv DEF Request
<1>2. CASE \E r \in Session : Signal(r) \/ Die(r)
  BY <1>2, SignalInv
<1>3. CASE \E e \in queue : Take(e)
  BY <1>3, TakeCategoryInv, TakePlatformInv DEF Take
<1>4. CASE Accept \/ Refuse
  BY <1>4, AnswerInv
<1>5. CASE \E s \in Seller, c \in Category : Publish(s, c) \/ Seed(s, c)
  BY <1>5, SendInv
<1>6. CASE Done \/ Fail
  BY <1>6, EndInv
<1>7. CASE UNCHANGED vars
  BY <1>7, StutterInv
<1> QED BY <1>1, <1>2, <1>3, <1>4, <1>5, <1>6, <1>7 DEF Next

LEMMA InvHolds == Spec => []Inv
<1>1. Init => Inv
  BY ConstantsAssumption, InitInv
<1>2. Inv /\ [Next]_vars => Inv'
  BY ConstantsAssumption, NextInv
<1> QED BY <1>1, <1>2, PTL DEF Spec

\* The variables of PlatformCategories keep their shapes.
THEOREM TypeCorrect == Spec => []TypeOK
<1>1. Inv => TypeOK
  BY DEF Inv
<1> QED BY <1>1, InvHolds, PTL

\* No seller is ever forgotten: an active category of the owner of its
\* default platform has been told to it, or will be by an event that is
\* waiting, being handled or lost with its request, in every interleaving of
\* requests with the consumer and whatever handlers fail or are refused.
THEOREM NobodyForgotten == Spec => []NoneForgotten
<1>1. Inv => NoneForgotten
  BY DEF Inv, NoneForgotten, Covered
<1> QED BY <1>1, InvHolds, PTL
=============================================================================
