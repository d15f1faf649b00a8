-------------------------------- MODULE Brands --------------------------------
(***************************************************************************)
(* app/services/brand.py: the internal codes of brands, their updates, and  *)
(* the list of brands read page by page while both go on.                  *)
(*                                                                         *)
(* The logo is stored by another service between the reads of a request    *)
(* and its commit, so requests overlap there.  What the schemas and        *)
(* validators check is outside the repository: any code may be given, or   *)
(* none.  Names and their event are in ProductDetailSync; the number in an *)
(* internal code stands for it.                                            *)
(***************************************************************************)
EXTENDS Integers, FiniteSets

CONSTANTS
  Worker,         \* requests that may run at the same time
  BrandCode,      \* the codes brands are given
  Nothing,        \* no code, no list
  PageSize,
  MaxBrandWrites  \* bound: how many rows are written

ASSUME BrandAssumption ==
  Nothing \notin BrandCode /\ PageSize \in Nat \ {0} /\ MaxBrandWrites \in Nat

VARIABLES
  brands,  \* id -> the committed row
  lastId,  \* the last id given, which a rolled back insert uses up
  clock,   \* each write has a time of its own
  work,    \* what each worker is about
  faults,  \* what may have made two numbers equal
  list     \* what the reader of a list has seen, or Nothing

brandVars == <<brands, lastId, clock, work, faults, list>>

BrandRow == [number : Nat, code : BrandCode \cup {Nothing}, active : BOOLEAN, at : Nat]
IdleWorker == [step |-> "idle"]

BrandInit ==
  /\ brands = [i \in {} |-> Nothing] /\ lastId = 0 /\ clock = 0
  /\ work = [w \in Worker |-> IdleWorker]
  /\ faults = {}
  /\ list = Nothing

Coded == {i \in DOMAIN brands : brands[i].code # Nothing}

\* Mutant of LastBrand: the brand that was written last.
LastWritten(S) == CHOOSE i \in S : \A j \in S : brands[j].at <= brands[i].at

\* order_by(id.desc()).first()
LastBrand(S) == CHOOSE i \in S : \A j \in S : j <= i

\* gen_code: one more than the last brand that has a code; 1 without one.
NextNumber == IF Coded = {} THEN 1 ELSE brands[LastBrand(Coded)].number + 1

Creating(w) == work[w].step \in {"numbered", "inserted"}

-----------------------------------------------------------------------------
(* create_brand.                                                           *)

GenCode(w, code) ==
  /\ work[w].step = "idle"
  /\ work' = [work EXCEPT ![w] = [step |-> "numbered", number |-> NextNumber, code |-> code]]
  /\ faults' = faults \cup (IF \E v \in Worker : Creating(v) THEN {"overlap"} ELSE {})
  /\ UNCHANGED <<brands, lastId, clock, list>>

\* The logo is stored and the row flushed; brand_created_signal is sent here,
\* before the commit.
Insert(w) ==
  /\ work[w].step = "numbered" /\ clock < MaxBrandWrites
  /\ lastId' = lastId + 1 /\ clock' = clock + 1
  /\ work' = [work EXCEPT ![w] =
       [step |-> "inserted", id |-> lastId + 1,
        row |-> [number |-> @.number, code |-> @.code, active |-> TRUE, at |-> clock + 1]]]
  /\ UNCHANGED <<brands, faults, list>>

\* What the reader of a list has to know of a commit.
Noticed(i, after) ==
  IF list = Nothing THEN Nothing
  ELSE [list EXCEPT !.touched = @ \cup {i},
                    !.left = @ \/ (i \in DOMAIN brands /\ brands[i].active /\ ~after.active)]

CommitCreate(w) ==
  /\ work[w].step = "inserted"
  /\ brands' = [i \in DOMAIN brands \cup {work[w].id} |->
                  IF i = work[w].id THEN work[w].row ELSE brands[i]]
  /\ faults' = faults \cup (IF work[w].row.code = Nothing THEN {"codeless"} ELSE {})
  /\ list' = Noticed(work[w].id, work[w].row)
  /\ work' = [work EXCEPT ![w] = IdleWorker]
  /\ UNCHANGED <<lastId, clock>>

\* The logo is refused, or the worker dies: what was not committed is gone.
GiveUp(w) ==
  /\ work[w].step # "idle"
  /\ work' = [work EXCEPT ![w] = IdleWorker]
  /\ UNCHANGED <<brands, lastId, clock, faults, list>>

-----------------------------------------------------------------------------
(* update_brand and update_brand_by_code.                                  *)

\* change has the columns that are sent.  Those that are as they were read
\* are not written, and a row of which none is keeps its time.
Read(w, i, change) ==
  /\ work[w].step = "idle"
  /\ work' = [work EXCEPT ![w] =
       [step |-> "read", id |-> i,
        change |-> [c \in {d \in DOMAIN change : change[d] # brands[i][d]} |-> change[c]]]]
  /\ UNCHANGED <<brands, lastId, clock, faults, list>>

UpdateById(w, i, change) == i \in DOMAIN brands /\ Read(w, i, change)

\* The first brand with the code may be any of them.
UpdateByCode(w, code, change) == \E i \in Coded : brands[i].code = code /\ Read(w, i, change)

CommitUpdate(w) ==
  /\ work[w].step = "read"
  /\ LET i == work[w].id
         change == work[w].change
         sent(c) == IF c \in DOMAIN change THEN change[c] ELSE brands[i][c]
         after == [brands[i] EXCEPT !.code = sent("code"), !.active = sent("active"),
                                    !.at = clock + 1]
     IN  IF change = << >> THEN UNCHANGED <<brands, clock, faults, list>>
         ELSE /\ clock < MaxBrandWrites /\ clock' = clock + 1
              /\ brands' = [brands EXCEPT ![i] = after]
              /\ list' = Noticed(i, after)
              /\ faults' = faults \cup
                   (IF "code" \in DOMAIN change /\ Nothing \in {change.code, brands[i].code}
                    THEN {"recoded"} ELSE {})
  /\ work' = [work EXCEPT ![w] = IdleWorker]
  /\ UNCHANGED <<lastId>>

-----------------------------------------------------------------------------
(* get_brand_list, with or without is_active: the last written first.      *)

Matches(i) == list.active => brands[i].active

ListedBrands == {i \in DOMAIN brands : Matches(i)}
Before(i) == {j \in ListedBrands : brands[j].at > brands[i].at}

Page(n) == {i \in ListedBrands : Cardinality(Before(i)) \in (n - 1) * PageSize .. n * PageSize - 1}

OpenList(active) ==
  /\ list = Nothing
  /\ list' = [active |-> active, read |-> 0, seen |-> {}, touched |-> {}, left |-> FALSE]
  /\ UNCHANGED <<brands, lastId, clock, work, faults>>

AllRead == list # Nothing /\ list.read * PageSize >= Cardinality(ListedBrands)

ReadPage ==
  /\ list # Nothing /\ ~AllRead
  /\ list' = [list EXCEPT !.read = @ + 1, !.seen = @ \cup Page(list.read + 1)]
  /\ UNCHANGED <<brands, lastId, clock, work, faults>>

BrandNext ==
  \/ \E w \in Worker :
       \/ \E code \in BrandCode \cup {Nothing} :
            \/ GenCode(w, code)
            \/ \E i \in DOMAIN brands : UpdateById(w, i, [code |-> code])
       \/ \E active \in BOOLEAN :
            \/ \E code \in BrandCode : UpdateByCode(w, code, [active |-> active])
            \/ \E i \in DOMAIN brands : UpdateById(w, i, [active |-> active])
       \/ Insert(w) \/ CommitCreate(w) \/ GiveUp(w) \/ CommitUpdate(w)
  \/ \E active \in BOOLEAN : OpenList(active)
  \/ ReadPage

-----------------------------------------------------------------------------
(* Properties.                                                             *)

BrandTypeOK ==
  /\ DOMAIN brands \subseteq 1 .. lastId
  /\ \A i \in DOMAIN brands : brands[i] \in BrandRow

\* As long as creations did not overlap and every brand was created with a
\* code and neither lost nor was given one, numbers count the brands.
NumbersCount ==
  faults = {} =>
    \A i \in DOMAIN brands : brands[i].number = Cardinality({j \in DOMAIN brands : j <= i})

\* Brands without a code are passed over, so their numbers are given again,
\* but never to two brands that were created with one.
CodedRise ==
  faults \subseteq {"codeless"} => \A i, j \in Coded : i < j => brands[i].number < brands[j].number

\* Whatever overlaps, a number never skips one: all below it were given.
NoNumberSkipped ==
  \A i \in DOMAIN brands : brands[i].number > 1 =>
    \E j \in DOMAIN brands : brands[j].number = brands[i].number - 1

\* A brand nobody writes to while a list is read is on one of its pages,
\* whatever is written to others, unless one of them left the list.  This
\* assumes that no two brands have the same updated_at (see clock): the list
\* is sorted by nothing else, so brands of one time may change places.
PagesMissNone ==
  AllRead /\ ~list.left =>
    ListedBrands \ list.touched \subseteq list.seen

\* Numbers of brands, and pages of a list of them.
BrandsCounted == BrandTypeOK /\ NumbersCount /\ CodedRise /\ NoNumberSkipped /\ PagesMissNone
=============================================================================
