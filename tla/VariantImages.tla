----------------------------- MODULE VariantImages -----------------------------
(***************************************************************************)
(* update_variant of app/services/products/variant.py: the images of the   *)
(* variants a request names are deleted and that is committed; then each   *)
(* variant gets its new ones in a commit of its own, and is told.          *)
(***************************************************************************)
EXTENDS Ascending, SequencesExt

CONSTANTS
  KnownVariant, \* the ids of variants there are
  ImageData,    \* bound: what is sent, a list of images for each id
  Updater,      \* the sessions of requests
  MaxUpdates    \* bound: how many requests are taken

ASSUME ImagesAssumption ==
  /\ MaxUpdates \in Nat
  /\ \A data \in ImageData :
       /\ DOMAIN data \in SUBSET Nat /\ IsFiniteSet(DOMAIN data)
       /\ \A v \in DOMAIN data : Len(data[v]) \in Nat /\ DOMAIN data[v] = 1 .. Len(data[v])

VARIABLES
  images,      \* variant -> its rows
  work,        \* what each request has left: the data, its number, variants
  updates,     \* requests taken
  imagesAsked, \* variant -> the images it should have, if that is known
  untold,      \* variants that changed since their last signal
  diedUpdating \* whether a request died

imageVars == <<images, work, updates, imagesAsked, untold, diedUpdating>>

NoUpdate == [next |-> <<>>]

ImageInit ==
  /\ images = [v \in KnownVariant |-> {}]
  /\ work = [w \in Updater |-> NoUpdate]
  /\ updates = 0
  /\ imagesAsked = [v \in KnownVariant |-> [known |-> TRUE, list |-> <<>>]]
  /\ untold = {} /\ diedUpdating = FALSE

\* The variants found and the data sent, both by id, are taken pair by pair:
\* a variant gets what was sent for it unless an id below it is unknown.
GivenTo(v, data) ==
  data[Ascending(DOMAIN data)[Cardinality({x \in DOMAIN data \cap KnownVariant : x <= v})]]

\* delete_images.
DeleteImages(w, data) ==
  /\ work[w] = NoUpdate /\ updates < MaxUpdates
  /\ updates' = updates + 1
  /\ images' = [v \in KnownVariant |-> IF v \in DOMAIN data THEN {} ELSE images[v]]
  /\ work' = [work EXCEPT ![w] =
       IF DOMAIN data \cap KnownVariant = {} THEN NoUpdate
       ELSE [next |-> Ascending(DOMAIN data \cap KnownVariant), data |-> data, by |-> updates', told |-> TRUE]]
  /\ imagesAsked' = [v \in KnownVariant |->
       IF v \notin DOMAIN data THEN imagesAsked[v]
       ELSE [known |-> /\ \A u \in Updater : v \notin ToSet(work[u].next)
                       /\ \A x \in DOMAIN data \ KnownVariant : x > v,
             list |-> <<>>]]
  /\ untold' = untold \cup {v \in KnownVariant : images'[v] # images[v]}
  /\ UNCHANGED diedUpdating

\* update_image, until its commit: rows with their places in the list.
InsertImages(w) ==
  /\ work[w] # NoUpdate /\ work[w].told
  /\ LET v == Head(work[w].next)
         list == GivenTo(v, work[w].data)
     IN  /\ images' = [images EXCEPT ![v] =
              @ \cup {[by |-> work[w].by, priority |-> n, url |-> list[n]] : n \in DOMAIN list}]
         /\ imagesAsked' = [imagesAsked EXCEPT ![v].list = work[w].data[v]]
         /\ untold' = untold \cup {v}
  /\ work' = [work EXCEPT ![w].told = FALSE]
  /\ UNCHANGED <<updates, diedUpdating>>

\* The signals for the SKUs of the variant.
Tell(w) ==
  /\ work[w] # NoUpdate /\ ~work[w].told
  /\ untold' = untold \ {Head(work[w].next)}
  /\ work' = [work EXCEPT ![w] = IF Len(@.next) = 1 THEN NoUpdate
                                 ELSE [@ EXCEPT !.next = Tail(work[w].next), !.told = TRUE]]
  /\ UNCHANGED <<images, updates, imagesAsked, diedUpdating>>

DieUpdating(w) ==
  /\ work[w] # NoUpdate
  /\ work' = [work EXCEPT ![w] = NoUpdate]
  /\ diedUpdating' = TRUE
  /\ UNCHANGED <<images, updates, imagesAsked, untold>>

ImageNext ==
  \E w \in Updater :
    \/ \E data \in ImageData : DeleteImages(w, data)
    \/ InsertImages(w) \/ Tell(w) \/ DieUpdating(w)

-----------------------------------------------------------------------------

\* A variant has the images last sent for it, in their order, or none while
\* that request is under way or when it died, unless requests for the variant
\* overlapped or an id below its own was unknown; a lone request puts it right.
\* A request that overlaps others adds its images to theirs, each list whole.
ImagesAsAsked ==
  /\ \A v \in KnownVariant : imagesAsked[v].known =>
       /\ {<<r.priority, r.url>> : r \in images[v]} = {<<n, imagesAsked[v].list[n]>> : n \in DOMAIN imagesAsked[v].list}
       /\ Cardinality(images[v]) = Len(imagesAsked[v].list)
  /\ \A v \in KnownVariant : \A r \in images[v] :
       \A n \in 1 .. r.priority : \E x \in images[v] : x.by = r.by /\ x.priority = n

\* A variant whose images changed is told, unless the request died.
ImagesTold == \A v \in untold : diedUpdating \/ \E w \in Updater : v \in ToSet(work[w].next)
=============================================================================
