--------------------------------- MODULE Units ---------------------------------
(* Units of measure and the options of the attribute "uom" that stand for  *)
(* them.  unit.py keeps an option for every unit, found by the code and    *)
(* the seller; the options can be edited on their own, and importers find  *)
(* units by the names of the options.  A request reads in the snapshot of  *)
(* its transaction and writes when it commits: an attribute that already   *)
(* has, in the snapshot, the value that is set is not written.  Names that *)
(* differ in case only are one name.                                       *)
EXTENDS Integers, FiniteSets, Sequences

CONSTANTS
  UnitId,           \* ids, from 1 on
  Seller,           \* numbers; 0 is the platform
  OwnUnitsOnly,     \* SELLER_ONLY_UOM
  SellsByItself,    \* the sellers who fulfil their orders themselves
  UnitCode, UnitName,
  Session,          \* requests at the same time
  MaxOptions,       \* bound: options ever made
  MaxDeeds,         \* bound: requests and edits of a behaviour
  Missing           \* no row, no request

ASSUME UnitAssumption ==
  /\ UnitId \subseteq Nat /\ Seller \subseteq Nat /\ 0 \in Seller
  /\ OwnUnitsOnly \subseteq Seller \ {0}
  /\ MaxOptions \in Nat /\ MaxDeeds \in Nat
  /\ Missing \notin Nat
  /\ Missing \notin [code : UnitCode, seller : Seller, value : UnitName, byHand : BOOLEAN]

VARIABLES
  units,      \* id -> its code, name and seller, for the units that exist
  lastUnit,   \* the largest id given
  options,    \* the options of "uom" in the order of their ids, Missing when deleted
  used,       \* the units of products and SKUs
  open,       \* session -> what its transaction has read, or Missing
  deeds,      \* how many requests and edits there were
  raced,      \* sellers to whose units two requests were made at a time
  synced,     \* units whose option nobody touched since the unit was written
  missed      \* units a product took while they were being deleted

unitVars == <<units, lastUnit, options, used, open, deeds, raced, synced, missed>>

UnitInit ==
  /\ units = <<>> /\ lastUnit = 0 /\ options = <<>> /\ used = {}
  /\ open = [w \in Session |-> Missing]
  /\ deeds = 0 /\ raced = {} /\ synced = {} /\ missed = {}

KeyOf(x) == <<x.code, x.seller>>
OptionIds == {i \in DOMAIN options : options[i] # Missing}

\* Mutant of OptionOf: the option is looked up by its code alone.
OptionOfCode(key) == {i \in OptionIds : options[i].code = key[1]}

\* The options sync_to_attribute_option may take for a unit.
OptionOf(key) == {i \in OptionIds : KeyOf(options[i]) = key}

Smallest(S) == IF S = {} THEN Missing ELSE CHOOSE i \in S : \A j \in S : i <= j

Without(f, x) == [y \in DOMAIN f \ {x} |-> f[y]]
With(f, x, v) == [y \in DOMAIN f \cup {x} |-> IF y = x THEN v ELSE f[y]]

-----------------------------------------------------------------------------
(* The requests.                                                           *)

\* Two requests about units of one seller, at the same time.
Racing(w, seller) ==
  IF \E x \in Session \ {w} : open[x] # Missing /\ open[x].unit.seller = seller
    THEN raced \cup {seller} ELSE raced

Begin(w, what, id, unit, name, option) ==
  /\ open' = [open EXCEPT ![w] =
       [what |-> what, id |-> id, unit |-> unit, name |-> name, option |-> option,
        saw |-> IF option = Missing THEN Missing ELSE options[option].value, clean |-> TRUE]]
  /\ raced' = Racing(w, unit.seller)
  /\ deeds < MaxDeeds /\ deeds' = deeds + 1

\* CreateUnitsValidator, the unit and the search for its option.
BeginCreate(w, s, code, name) ==
  /\ open[w] = Missing /\ lastUnit + 1 \in UnitId
  /\ \A u \in DOMAIN units : units[u].seller = s => units[u].name # name /\ units[u].code # code
  /\ lastUnit' = lastUnit + 1
  /\ Begin(w, "create", lastUnit + 1, [code |-> code, name |-> name, seller |-> s], name,
           Smallest(OptionOf(<<code, s>>)))
  /\ UNCHANGED <<units, options, used, synced, missed>>

\* UpdateUnitsValidator: one's own unit or one of the platform, and a name
\* none of one's own others has.
BeginUpdate(w, s, u, name) ==
  /\ open[w] = Missing /\ u \in DOMAIN units
  /\ units[u].seller \in {0, s}
  /\ \A x \in DOMAIN units \ {u} : units[x].seller = s => units[x].name # name
  /\ Begin(w, "update", u, units[u], name, Smallest(OptionOf(KeyOf(units[u]))))
  /\ UNCHANGED <<units, lastUnit, options, used, synced, missed>>

\* DeleteUnitsValidator: no product and no SKU has the unit.
BeginDelete(w, u) ==
  /\ open[w] = Missing /\ u \in DOMAIN units \ used
  /\ Begin(w, "delete", u, units[u], units[u].name, Missing)
  /\ UNCHANGED <<units, lastUnit, options, used, synced, missed>>

\* sync_to_attribute_option: an option of its own, or the one it found.
Synced(t) ==
  IF t.option = Missing
    THEN Append(options, [code |-> t.unit.code, seller |-> t.unit.seller, value |-> t.name, byHand |-> FALSE])
  ELSE IF t.saw = t.name THEN options
  ELSE [options EXCEPT ![t.option].value = t.name]

\* A row that is gone when it is to be written: the request fails.
RowsAreThere(t) ==
  /\ t.what = "update" /\ t.name # t.unit.name => t.id \in DOMAIN units
  /\ t.option # Missing /\ t.saw # t.name => options[t.option] # Missing

CommitSync(w) ==
  LET t == open[w] IN
  /\ t # Missing /\ t.what \in {"create", "update"} /\ RowsAreThere(t)
  /\ t.option = Missing => Len(options) < MaxOptions
  /\ options' = Synced(t)
  /\ units' = IF t.what = "create" THEN With(units, t.id, t.unit)
              ELSE IF t.name = t.unit.name \/ t.id \notin DOMAIN units THEN units
              ELSE [units EXCEPT ![t.id].name = t.name]
  /\ synced' = IF t.clean /\ t.id \in DOMAIN units' THEN synced \cup {t.id} ELSE synced
  /\ open' = [open EXCEPT ![w] = Missing]
  /\ UNCHANGED <<lastUnit, used, deeds, raced, missed>>

\* delete_unit: its option is left alone.
CommitDelete(w) ==
  /\ open[w] # Missing /\ open[w].what = "delete"
  /\ units' = Without(units, open[w].id)
  /\ synced' = synced \ {open[w].id}
  /\ missed' = missed \cup ({open[w].id} \cap used)
  /\ open' = [open EXCEPT ![w] = Missing]
  /\ UNCHANGED <<lastUnit, options, used, deeds, raced>>

Fail(w) ==
  /\ open[w] # Missing /\ ~RowsAreThere(open[w])
  /\ open' = [open EXCEPT ![w] = Missing]
  /\ UNCHANGED <<units, lastUnit, options, used, deeds, raced, synced, missed>>

\* create_product with the code of a unit: the first unit that has it,
\* whoever's it is.
TakeUnit(code) ==
  /\ deeds < MaxDeeds
  /\ \E u \in DOMAIN units : units[u].code = code
  /\ used' = used \cup {Smallest({u \in DOMAIN units : units[u].code = code})}
  /\ deeds' = deeds + 1
  /\ UNCHANGED <<units, lastUnit, options, open, raced, synced, missed>>

-----------------------------------------------------------------------------
(* attribute.py: the options edited on their own.                          *)

Touch(key) ==
  /\ deeds < MaxDeeds /\ deeds' = deeds + 1
  /\ synced' = {u \in synced : KeyOf(units[u]) # key}
  /\ open' = [w \in Session |->
       IF open[w] # Missing /\ KeyOf(open[w].unit) = key
         THEN [open[w] EXCEPT !.clean = FALSE] ELSE open[w]]
  /\ UNCHANGED <<units, lastUnit, used, raced, missed>>

CreateOption(s, code, name) ==
  /\ Len(options) < MaxOptions
  /\ options' = Append(options, [code |-> code, seller |-> s, value |-> name, byHand |-> TRUE])
  /\ Touch(<<code, s>>)

UpdateOption(i, name) ==
  /\ i \in OptionIds /\ options[i].value # name
  /\ options' = [options EXCEPT ![i].value = name]
  /\ Touch(KeyOf(options[i]))

DeleteOption(i) ==
  /\ i \in OptionIds
  /\ options' = [options EXCEPT ![i] = Missing]
  /\ Touch(KeyOf(options[i]))

UnitNext ==
  \/ \E w \in Session, s \in Seller, code \in UnitCode, name \in UnitName : BeginCreate(w, s, code, name)
  \/ \E w \in Session, s \in Seller, u \in DOMAIN units, name \in UnitName : BeginUpdate(w, s, u, name)
  \/ \E w \in Session, u \in DOMAIN units : BeginDelete(w, u)
  \/ \E w \in Session : CommitSync(w) \/ CommitDelete(w) \/ Fail(w)
  \/ \E code \in UnitCode : TakeUnit(code)
  \/ \E s \in Seller, code \in UnitCode, name \in UnitName : CreateOption(s, code, name)
  \/ \E i \in DOMAIN options, name \in UnitName : UpdateOption(i, name)
  \/ \E i \in DOMAIN options : DeleteOption(i)

-----------------------------------------------------------------------------
(* The readers.                                                            *)

\* UnitListQuery.
UnitsShown(s) == {u \in DOMAIN units : units[u].seller \in {0, s}}

\* get_list_attribute_options.
OptionsShown(s) == {i \in OptionIds : options[i].seller = IF s \in SellsByItself THEN s ELSE 0}

\* get_uom_code_by_name: the codes it may answer, none when it finds none.
Named(s, name) == {i \in OptionIds : options[i].seller \in {0, s} /\ options[i].value = name}
CodesOf(s, name) ==
  {options[i].code : i \in {j \in Named(s, name) :
     \A k \in Named(s, name) : options[k].seller <= options[j].seller}}

\* get_or_new_option for "uom": the options it may answer.
OptionsToUse(s, name) ==
  {i \in OptionIds : /\ options[i].value = name
                     /\ IF s \in OwnUnitsOnly THEN options[i].seller = s
                        ELSE options[i].seller \notin OwnUnitsOnly}

-----------------------------------------------------------------------------

\* A unit that was written after its option was last edited by hand has an
\* option with its name; and an option made by a unit is the only such one.
Mirrored ==
  \A u \in DOMAIN units : units[u].seller \notin raced =>
    /\ u \in synced => \E i \in OptionOf(KeyOf(units[u])) : options[i].value = units[u].name
    /\ Cardinality({i \in OptionOf(KeyOf(units[u])) : ~options[i].byHand}) <= 1

\* No seller has two units of one code, and none but the platform, whose
\* units every seller may rename, two of one name, unless two requests met.
UnitsDistinct ==
  \A u, x \in DOMAIN units :
    u # x /\ units[u].seller = units[x].seller /\ units[u].seller \notin raced =>
      /\ units[u].code # units[x].code
      /\ units[u].seller # 0 => units[u].name # units[x].name

\* A unit in use is not deleted, unless it was taken while the request that
\* deletes it was under way.
UsedStay == used \ missed \subseteq DOMAIN units

\* A seller finds by its name every unit in the list of its units that is in
\* step with its option: the unit's code, or that of another of the name,
\* its own before the platform's.
FoundByName ==
  \A s \in Seller : \A u \in UnitsShown(s) \cap synced :
    units[u].seller \notin raced =>
      /\ CodesOf(s, units[u].name) # {}
      /\ units[u].seller = s =>
           \A c \in CodesOf(s, units[u].name) :
             \E i \in OptionIds : KeyOf(options[i]) = <<c, s>> /\ options[i].value = units[u].name

\* What a seller is shown is found by its name, and an importer that finds
\* an option by a name uses one its seller could be shown or another seller
\* shares; sellers with units of their own use no one else's.
ReadersMeet ==
  \A s \in Seller :
    /\ \A i \in OptionsShown(s) : CodesOf(s, options[i].value) # {}
    /\ \A name \in UnitName :
         /\ s \in OwnUnitsOnly /\ OptionsToUse(s, name) # {} =>
              CodesOf(s, name) = {options[i].code : i \in OptionsToUse(s, name)}
         /\ s \notin OwnUnitsOnly /\ CodesOf(s, name) # {} => OptionsToUse(s, name) # {}

UnitTypeOK ==
  /\ DOMAIN units \subseteq 1 .. lastUnit /\ used \subseteq 1 .. lastUnit
  /\ \A u \in DOMAIN units : units[u] \in [code : UnitCode, name : UnitName, seller : Seller]
  /\ raced \subseteq Seller /\ synced \subseteq DOMAIN units /\ missed \subseteq used

\* Units and the options that stand for them keep saying the same.
OptionsFollowUnits ==
  UnitTypeOK /\ Mirrored /\ UnitsDistinct /\ UsedStay /\ FoundByName /\ ReadersMeet
=============================================================================
