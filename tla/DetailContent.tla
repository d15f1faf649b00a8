----------------------------- MODULE DetailContent -----------------------------
(* What the detail of a SKU says of its attributes: the groups of its      *)
(* attribute set and the values of its variant, as advanced_info.py reads  *)
(* them and attribute_group.py lays them out.  A flat group is shown as a  *)
(* heading with a row for each attribute, any other as one row with the    *)
(* values joined.  An attribute may be in several groups of the set, and   *)
(* is shown in each that displays it; a group has one row of it (the       *)
(* tables change one row at a time).  The detail is computed from what     *)
(* they hold.  Names and texts are left out: a value is the set of its     *)
(* options, and a text an option of its own.                               *)
EXTENDS NoValue, Integers, FiniteSets

CONSTANTS
  GroupNumber,      \* numbers; a parent has a smaller one
  ContentAttribute, \* no fact is an attribute
  ValueOption,      \* [ContentAttribute -> sets of options]
  NotDisplayed,     \* the option KHT
  Pack,             \* the pack_ attributes, a function to the attribute
                    \* without pack_
  MaxPlaced         \* bound: rows of attribute_group_attribute

VARIABLES
  group,    \* attribute_groups: is_flat, parent_id
  common,   \* the group with the common code, or None
  place,    \* attribute_group_attribute: attribute -> group -> a Place
  value,    \* the options the variant has of an attribute
  facts     \* which of brand, warranty_months and warranty_note the SKU has

contentVars == <<group, common, place, value, facts>>

Facts == {"brand", "warranty_months", "warranty_note"}
Place == {"none", "hidden", "shown"}  \* no row, and is_displayed of one

ASSUME ContentAssumption ==
  /\ None \notin GroupNumber
  /\ Facts \cap ContentAttribute = {}

ContentInit ==
  /\ group = [g \in GroupNumber |-> [flat |-> FALSE, parent |-> None]]
  /\ common = None
  /\ place = [a \in ContentAttribute |-> [g \in GroupNumber |-> "none"]]
  /\ value = [a \in ContentAttribute |-> {}]
  /\ facts = {}

DrawGroup(g, flat, parent) ==
  /\ group' = [group EXCEPT ![g] = [flat |-> flat, parent |-> parent]]
  /\ UNCHANGED <<common, place, value, facts>>

ChooseCommon(g) ==
  /\ common' = g /\ UNCHANGED <<group, place, value, facts>>

PlaceAttribute(a, g, p) ==
  /\ place' = [place EXCEPT ![a] = [@ EXCEPT ![g] = p]]
  /\ UNCHANGED <<group, common, value, facts>>

SetValue(a, options) ==
  /\ value' = [value EXCEPT ![a] = options] /\ UNCHANGED <<group, common, place, facts>>

SetFacts(fs) == facts' = fs /\ UNCHANGED <<group, common, place, value>>

Placed == Cardinality({x \in ContentAttribute \X GroupNumber : place[x[1]][x[2]] # "none"})

ContentNext ==
  \/ \E g \in GroupNumber, flat \in BOOLEAN, parent \in {None} \cup GroupNumber :
       (parent # None => parent < g) /\ DrawGroup(g, flat, parent)
  \/ \E g \in GroupNumber \cup {None} : ChooseCommon(g)
  \/ \E a \in ContentAttribute, g \in GroupNumber, p \in Place :
       /\ p = "none" \/ place[a][g] # "none" \/ Placed < MaxPlaced
       /\ PlaceAttribute(a, g, p)
  \/ \E a \in ContentAttribute : \E options \in SUBSET ValueOption[a] : SetValue(a, options)
  \/ \E fs \in {{}, Facts} : SetFacts(fs)

ContentSpec == ContentInit /\ [][ContentNext]_contentVars

-----------------------------------------------------------------------------
(* advanced_info.py.                                                       *)

\* __map_options_attributes: an option KHT is none.
OptionsOf(a) == ValueOption[a] \ {NotDisplayed}

\* _get_attribute_options: those of a value.
ShownOptions(a) == value[a] \cap OptionsOf(a)

\* get_variant_attribute_value: None without an option.
HasValue(a) == ShownOptions(a) # {}

\* The attributes of group g, and those that are displayed.
In(g) == {a \in ContentAttribute : place[a][g] # "none"}
Displayed(g) == {a \in In(g) : place[a][g] = "shown"}

\* _get_attributes: every attribute of the set; a pack attribute without
\* a value takes that of the attribute it packs.
ListedAttributes ==
  [a \in {b \in ContentAttribute : \E g \in GroupNumber : b \in In(g)} |->
     IF a \in DOMAIN Pack /\ ~HasValue(a) THEN ShownOptions(Pack[a]) ELSE ShownOptions(a)]

-----------------------------------------------------------------------------
(* attribute_group.py.  A row has the id of a group or None, what it says, *)
(* and the group it stands under.                                          *)

HasFlatChild(g) == \E h \in GroupNumber : group[h].parent = g /\ group[h].flat

\* _get_non_flat_attributes: one row for the values of the group together.
JoinedRows ==
  {[id |-> g, says |-> {a \in Displayed(g) : HasValue(a)}, under |-> group[g].parent] :
     g \in {h \in GroupNumber : ~group[h].flat /\ \E a \in Displayed(h) : HasValue(a)}}

\* __add_common.
CommonRows ==
  IF common = None THEN {} ELSE {[id |-> None, says |-> {f}, under |-> common] : f \in facts}

\* Mutant of HeadedGroups: a group is only headed for itself.
HeadedFlat == {g \in GroupNumber : g = common \/ group[g].flat}

\* _add_flat_or_common_groups.
HeadedGroups == {g \in GroupNumber : g = common \/ group[g].flat \/ HasFlatChild(g)}
HeadingRows == {[id |-> g, says |-> {}, under |-> group[g].parent] : g \in HeadedGroups}

\* The rows of the attributes of flat groups.
FlatRows ==
  UNION {{[id |-> None, says |-> {a}, under |-> g] : a \in {b \in Displayed(g) : HasValue(b)}} :
           g \in {h \in GroupNumber : group[h].flat}}

Rows == JoinedRows \cup CommonRows \cup HeadingRows \cup FlatRows

-----------------------------------------------------------------------------

\* The rows group g shows itself: a flat group those under it without an
\* id, any other those with its id.
RowsOf(g) == {r \in Rows : IF group[g].flat THEN r.id = None /\ r.under = g ELSE r.id = g}

\* A group shows each of its attributes that is displayed and has a value in
\* one row, and no attribute besides; what no group shows is in no row.
EveryValueOnce ==
  /\ \A g \in GroupNumber, a \in ContentAttribute :
       LET about == {r \in RowsOf(g) : a \in r.says} IN
       IF a \in Displayed(g) /\ HasValue(a) THEN Cardinality(about) = 1 ELSE about = {}
  /\ \A r \in Rows : r.says \cap ContentAttribute # {} => \E g \in GroupNumber : r \in RowsOf(g)

\* A row of an attribute or a fact stands under a heading, and so does the
\* heading of a flat group: the storefront finds what they are under.
NothingHangsLoose ==
  \A r \in Rows :
    r.under # None /\ (r.id = None \/ group[r.id].flat) =>
      \E h \in HeadingRows : h.id = r.under

\* A group has one row, but for its heading: no other row carries its id
\* unless it is not flat itself and heads flat groups or the common facts.
OneRowPerGroup ==
  \A r, s \in Rows :
    r # s /\ r.id = s.id /\ r.id # None =>
      /\ ~group[r.id].flat /\ (r.id = common \/ HasFlatChild(r.id))
      /\ {} \in {r.says, s.says}

\* The rows say nothing the list of attributes does not have.
RowsAreListed ==
  \A r \in Rows : \A a \in r.says \ Facts : a \in DOMAIN ListedAttributes /\ ListedAttributes[a] = ShownOptions(a)

ContentTypeOK ==
  /\ group \in [GroupNumber -> [flat : BOOLEAN, parent : GroupNumber \cup {None}]]
  /\ common \in GroupNumber \cup {None} /\ facts \subseteq Facts
  /\ place \in [ContentAttribute -> [GroupNumber -> Place]]
  /\ \A a \in ContentAttribute : value[a] \subseteq ValueOption[a]

\* The detail shows what is to be displayed, once in each group that displays
\* it, where it belongs.
DetailShowsValues ==
  ContentTypeOK /\ EveryValueOnce /\ NothingHangsLoose /\ OneRowPerGroup /\ RowsAreListed
=============================================================================
