----------------------------- MODULE AttributeSets -----------------------------
(***************************************************************************)
(* One attribute set: app/services/attribute_sets/attribute_set.py,        *)
(* _base.py and config.py.                                                 *)
(*                                                                         *)
(* The set is a tree of groups with attributes.  An update deletes all     *)
(* groups but the system groups and inserts those of the request; which    *)
(* attributes tell variants apart is carried over, and attributes that an  *)
(* SEO configuration names may not get lost.  Requests are taken one after *)
(* the other; each ends in one commit, but for the default configuration,  *)
(* which has a commit of its own.  Names, display texts and the priorities *)
(* of groups and attributes are left out, and so are the SEO fields: a     *)
(* configuration has the attributes of all its details together.           *)
(***************************************************************************)
EXTENDS NoValue, Integers, FiniteSets, SequencesExt

CONSTANTS
  Attribute, Brand,
  Value,       \* values that configurations give attributes
  System,      \* the system groups of the set
  SystemOwn,   \* [System -> SUBSET Attribute]: the attributes they have
  Temp,        \* temp_ids of groups that are no system groups
  GroupId,     \* numbers new groups can get
  ConfigId,    \* numbers new configurations can get
  Drawings,    \* bound: the groups update requests draw
  Slots,       \* attribute_1 to attribute_5 of a configuration
  Options,     \* bound: the optional_list of configuration requests
  MaxRequests  \* bound: how many requests are made

ASSUME ConstantsAssumption ==
  /\ GroupId \subseteq Nat /\ ConfigId \subseteq Nat
  /\ Attribute \subseteq Nat \ {0} /\ Slots \in Nat \ {0}
  /\ IsFiniteSet(Attribute)
  /\ System \cap (GroupId \cup Temp) = {} /\ Temp \cap GroupId = {}
  /\ None \notin System \cup Temp \cup GroupId \cup ConfigId \cup Brand
  /\ SystemOwn \in [System -> SUBSET Attribute]
  /\ MaxRequests \in Nat

\* The groups of a request have a temp_id each, by which update_attribute_set
\* finds parents; requests that name two groups alike are left out.
ASSUME DrawingsAssumption ==
  \A d \in Drawings :
    /\ d \in Seq([temp : System \cup Temp, parent : System \cup Temp \cup {None},
                 attrs : SUBSET Attribute])
    /\ \A i, j \in DOMAIN d : d[i].temp = d[j].temp => i = j

\* An option fills attribute_1 to attribute_5, so it has at most Slots pairs.
ASSUME OptionsAssumption ==
  \A os \in Options :
    /\ os \in Seq([id : ConfigId \cup {None}, brand : Brand \cup {None},
                  attrs : Seq(Attribute \X Value), deleted : BOOLEAN])
    /\ \A n \in DOMAIN os : Len(os[n].attrs) <= Slots

VARIABLES
  groups,    \* attribute_groups of the set, with their attributes
  configs,   \* attribute_set_config rows: brand, attributes and values
  default,   \* whether the set has its default configuration
  details,   \* the attributes named in the details of each configuration
  strayed,   \* system groups the last update did not name
  hidden,    \* attributes requests moved to system groups that lack them
  requests

vars == <<groups, configs, default, details, strayed, hidden, requests>>

\* A row of attribute_group_attribute: is_variation and variation_priority,
\* 0 when it is NULL.
Plain == [variation |-> FALSE, rank |-> 0]

AttributesOf(gs) == UNION {DOMAIN gs[g].attrs : g \in DOMAIN gs}
VariationOf(gs) ==
  {a \in AttributesOf(gs) :
     \E g \in DOMAIN gs : a \in DOMAIN gs[g].attrs /\ gs[g].attrs[a].variation}

Init ==
  /\ groups = [g \in System |-> [parent |-> None, path |-> <<g>>,
                                 attrs |-> [a \in SystemOwn[g] |-> Plain]]]
  /\ configs = [i \in {} |-> None]
  /\ default = FALSE
  /\ details = [i \in {} |-> {}]
  /\ strayed = {} /\ hidden = {}
  /\ requests = 0

Request ==
  /\ requests < MaxRequests
  /\ requests' = requests + 1

\* The ids of rows that are saved one after the other: the one a row has, and
\* for a row without one the next number that is free.
Assigned(had, free) ==
  {ids \in [DOMAIN had -> free \cup {had[n] : n \in DOMAIN had}] :
     \A n \in DOMAIN had :
       IF had[n] # None THEN ids[n] = had[n]
       ELSE /\ ids[n] \in free
            /\ {i \in free : i < ids[n]} = {ids[k] : k \in {k \in 1..(n - 1) : had[k] = None}}}

-----------------------------------------------------------------------------
(* update_attribute_set.  A drawing is the data of a request, sorted by    *)
(* priority: a sequence of groups with a temp_id, the parent's temp_id and *)
(* attributes.                                                             *)

Named(d) == UNION {d[i].attrs : i \in DOMAIN d}

Live == {i \in DOMAIN configs : ~configs[i].deleted}
Configured ==
  UNION {details[i] \cup {configs[i].attrs[n][1] : n \in DOMAIN configs[i].attrs} : i \in Live}

\* _check_seo_config and _check_seo_config_detail: what is configured must be
\* named somewhere in the drawing.
KeepsConfigured(d) == Configured \subseteq Named(d)

\* A parent has to come before its children.
ParentsFirst(d) ==
  \A i \in DOMAIN d : d[i].parent # None => \E j \in 1..(i - 1) : d[j].temp = d[i].parent

\* The ids the groups get: a temp_id that is the id of a system group means
\* that group, any other a new one.
IdsOf(d) ==
  Assigned([i \in DOMAIN d |-> IF d[i].temp \in System THEN d[i].temp ELSE None],
           GroupId \ DOMAIN groups)

At(d, temp) == CHOOSE i \in DOMAIN d : d[i].temp = temp

\* Mutant of PathAt: the path of a child starts anew.
PathAtOwn(d, ids, i) == <<ids[i]>>

\* The path of the group at i, its parents' ids and its own.
PathAt(d, ids, i) ==
  LET path[n \in DOMAIN d] ==
        IF d[n].parent = None THEN <<ids[n]>>
        ELSE Append(path[At(d, d[n].parent)], ids[n])
  IN  path[i]

\* Mutant of NewRows: _save_group without its last argument.
NewRowsByDefault(as) == [a \in as |-> Plain]

\* _save_group_attribute_config: a variation attribute stays one and loses
\* its priority.
NewRows(as) == [a \in as |-> [variation |-> a \in VariationOf(groups), rank |-> 0]]

\* Mutant of Remaining: system groups are deleted, too.
RemainingNone == {}

\* The groups that _remove_attribute_set_configs leaves.
Remaining == System

\* _remove_attribute_set_configs, then _save_group or _update_system_group in
\* the order of the drawing.  A system group drawn without a parent gets the
\* path of one, but keeps the parent it had.
Drawn(d, ids) ==
  LET at(g) == CHOOSE i \in DOMAIN d : ids[i] = g
      old(g) == IF g \in System THEN groups[g]
                ELSE [parent |-> None, attrs |-> NewRows(d[at(g)].attrs)]
  IN  [g \in Remaining \cup {ids[i] : i \in DOMAIN d} |->
         IF g \notin {ids[i] : i \in DOMAIN d} THEN groups[g]
         ELSE [parent |-> IF d[at(g)].parent = None THEN old(g).parent
                          ELSE ids[At(d, d[at(g)].parent)],
               path   |-> PathAt(d, ids, at(g)),
               attrs  |-> old(g).attrs]]

\* An update with all its groups; a commit that fails is tried again and then
\* rolled back as a whole.
Update(d) ==
  /\ KeepsConfigured(d) /\ ParentsFirst(d)
  /\ Request
  /\ \E ids \in IdsOf(d) : groups' = Drawn(d, ids)
  /\ strayed' = {g \in System : \A i \in DOMAIN d : d[i].temp # g}
  /\ hidden' = {a \in hidden \cup Named(d) : a \notin AttributesOf(groups')}
  /\ UNCHANGED <<configs, default, details>>

-----------------------------------------------------------------------------
(* Variation attributes.                                                   *)

Ranks ==
  UNION {{groups[g].attrs[a].rank : a \in {a \in DOMAIN groups[g].attrs :
                                            groups[g].attrs[a].variation}} : g \in DOMAIN groups}

\* Mutant of NextRank: the rank is the number of variation attributes.
NextRankByCount == Cardinality(VariationOf(groups)) + 1

\* One more than the largest variation_priority.
NextRank == Max({0} \cup Ranks) + 1

\* Group g with other rows of attributes.
WithRows(g, rows) == [parent |-> groups[g].parent, path |-> groups[g].path, attrs |-> rows]

\* create_attribute_variation; of several rows of the attribute any one.
CreateVariation(a) ==
  /\ Request
  /\ \E g \in DOMAIN groups :
       /\ a \in DOMAIN groups[g].attrs
       /\ groups' = [groups EXCEPT ![g] = WithRows(g,
            [groups[g].attrs EXCEPT ![a] = [variation |-> TRUE, rank |-> NextRank]])]
  /\ UNCHANGED <<configs, default, details, strayed, hidden>>

\* update_order_variation_attribute; ids has to name all variation attributes,
\* and names none twice.
OrderVariations(ids) ==
  /\ VariationOf(groups) \subseteq ToSet(ids)
  /\ Request
  /\ groups' = [g \in DOMAIN groups |-> WithRows(g,
       [a \in DOMAIN groups[g].attrs |->
          IF groups[g].attrs[a].variation
          THEN [variation |-> TRUE, rank |-> CHOOSE n \in DOMAIN ids : ids[n] = a]
          ELSE groups[g].attrs[a]])]
  /\ UNCHANGED <<configs, default, details, strayed, hidden>>

-----------------------------------------------------------------------------
(* SEO configurations.  An option has an id or None, a brand or None,      *)
(* pairs of an attribute and a value, and is_deleted.                      *)

\* Mutant of Duplicates: a configuration without a brand stands beside those
\* of a brand.
DuplicatesOfBrand(cs, o, pending) ==
  \E i \in DOMAIN cs :
    /\ ~cs[i].deleted /\ cs[i].attrs = o.attrs
    /\ o.id # None => i \notin pending \cup {o.id}
    /\ cs[i].brand = o.brand

\* _check_config_is_duplicate: another configuration with the same attributes
\* and values, for the same brand or, on either side, for all.  Those that
\* later options will change are not asked when an option has an id.
Duplicates(cs, o, pending) ==
  \E i \in DOMAIN cs :
    /\ ~cs[i].deleted /\ cs[i].attrs = o.attrs
    /\ o.id # None => i \notin pending \cup {o.id}
    /\ o.brand # None => cs[i].brand \in {o.brand, None}

\* The options in the order they are handled, which is one: deletions first,
\* and those alike as they were sent.
Sorted(os) ==
  {[n \in DOMAIN os |-> os[p[n]]] : p \in {p \in [DOMAIN os -> DOMAIN os] :
     \A n \in DOMAIN os : \A k \in 1..(n - 1) :
       /\ os[p[n]].deleted => os[p[k]].deleted
       /\ p[k] # p[n]
       /\ os[p[k]].deleted = os[p[n]].deleted => p[k] < p[n]}}

\* The ids of the configurations they are about.
ConfigsOf(os) == Assigned([n \in DOMAIN os |-> os[n].id], ConfigId \ DOMAIN configs)

\* The configurations before option n of os is handled, if all before it are
\* accepted: rows of given ids are changed, others are new.
Handled(os, ids, n) ==
  LET o(i) == os[CHOOSE k \in 1..(n - 1) : ids[k] = i]
      done == {ids[k] : k \in 1..(n - 1)}
  IN  [i \in DOMAIN configs \cup done |->
         IF i \in done THEN [brand |-> o(i).brand, attrs |-> o(i).attrs, deleted |-> o(i).deleted]
         ELSE configs[i]]

\* The ids that options from n on will change.
Pending(os, n) == {os[k].id : k \in n..Len(os)} \ {None}

\* Option n of os is accepted.
Accepted(os, ids, n) ==
  /\ \A k \in DOMAIN os[n].attrs : os[n].attrs[k][1] \in AttributesOf(groups)
  /\ \A k \in 1..(n - 1) :  \* all options name the same attributes
       os[k].attrs # <<>> =>
         /\ Len(os[k].attrs) = Len(os[n].attrs)
         /\ \A j \in DOMAIN os[n].attrs : os[k].attrs[j][1] = os[n].attrs[j][1]
  /\ os[n].deleted \/ ~Duplicates(Handled(os, ids, n), os[n], Pending(os, n))

\* Options that the form can send: ids of configurations it listed, each once.
Sendable(os) ==
  /\ \A n \in DOMAIN os : os[n].id # None => os[n].id \in Live
  /\ \A n, k \in DOMAIN os : os[n].id = os[k].id /\ os[n].id # None => n = k

\* create_config: the default configuration is committed first; the options
\* are committed together or not at all.
CreateConfigs(os) ==
  /\ Sendable(os)
  /\ Request
  /\ default' = TRUE
  /\ \E sorted \in Sorted(os) : \E ids \in ConfigsOf(sorted) :
       configs' = IF \A n \in DOMAIN os : Accepted(sorted, ids, n)
                  THEN Handled(sorted, ids, Len(os) + 1) ELSE configs
  /\ details' = [i \in DOMAIN configs' |-> IF i \in DOMAIN details THEN details[i] ELSE {}]
  /\ UNCHANGED <<groups, strayed, hidden>>

\* Mutant of AllowedDetail: any attribute may be named.
AllowedAnyDetail(as) == TRUE

\* allow_config_detail, for every detail of the request.
AllowedDetail(as) == as \subseteq AttributesOf(groups)

\* update_attribute_set_config: the details are deleted and inserted again, or
\* rolled back when one is refused.
SetDetails(i, as) ==
  /\ i \in DOMAIN configs
  /\ Request
  /\ details' = IF AllowedDetail(as) THEN [details EXCEPT ![i] = as] ELSE details
  /\ UNCHANGED <<groups, configs, default, strayed, hidden>>

Next ==
  \/ \E d \in Drawings : Update(d)
  \/ \E a \in Attribute : CreateVariation(a)
  \/ \E as \in SUBSET Attribute : \E ids \in SetToSeqs(as) : OrderVariations(ids)
  \/ \E os \in Options : CreateConfigs(os)
  \/ \E i \in ConfigId, as \in SUBSET Attribute : SetDetails(i, as)

Spec == Init /\ [][Next]_vars

-----------------------------------------------------------------------------
(* SeoConfig of functions/seo_config.py: the configuration the detail of a *)
(* SKU takes its texts from.                                               *)

DefaultRow == [brand |-> None, attrs |-> <<>>, deleted |-> FALSE]
SeoRows == {configs[i] : i \in Live} \cup (IF default THEN {DefaultRow} ELSE {})

\* Rows come by attribute_5 first, the largest id first and none last, and by
\* brand last.
Slot(r, n) == IF n \in DOMAIN r.attrs THEN r.attrs[n][1] ELSE 0

\* Mutant of Ahead: attribute_1 first.
AheadByFirst(r, x) ==
  \E n \in 1..Slots : Slot(r, n) > Slot(x, n) /\ \A k \in 1..(n - 1) : Slot(r, k) = Slot(x, k)

Ahead(r, x) ==
  \E n \in 1..Slots : Slot(r, n) > Slot(x, n) /\ \A k \in (n + 1)..Slots : Slot(r, k) = Slot(x, k)
AheadByBrand(r, x) ==
  /\ \A n \in 1..Slots : Slot(r, n) = Slot(x, n)
  /\ r.brand # None /\ x.brand = None

\* A slot that is empty agrees with every product, and one that agrees is
\* enough.
Agrees(r, values) ==
  \E n \in 1..Slots : n \in DOMAIN r.attrs => values[r.attrs[n][1]] = r.attrs[n][2]

\* get_seo_by_config: any of the rows that agree and have none before them.
SeoByConfig(values, b) ==
  LET fit == {r \in SeoRows : r.brand \in {None, b} /\ Agrees(r, values)}
  IN  {r \in fit : \A x \in fit : ~Ahead(x, r) /\ ~AheadByBrand(x, r)}

\* get_seo_default: the default, unless the match names an attribute in a slot
\* where the default names none.
SeoDefault(values, b) ==
  IF ~default THEN SeoByConfig(values, b)
  ELSE {IF \E n \in 1..Slots : Slot(r, n) > Slot(DefaultRow, n) THEN r ELSE DefaultRow :
          r \in SeoByConfig(values, b)}

-----------------------------------------------------------------------------
(* Properties.                                                             *)

Row == [variation : BOOLEAN, rank : Nat]
Config == [brand : Brand \cup {None}, attrs : Seq(Attribute \X Value), deleted : BOOLEAN]

\* The variables have the shapes given above.
TypeOK ==
  /\ System \subseteq DOMAIN groups /\ DOMAIN groups \subseteq System \cup GroupId
  /\ \A g \in DOMAIN groups :
       /\ groups[g] = WithRows(g, groups[g].attrs)
       /\ groups[g].parent \in System \cup GroupId \cup {None}
       /\ groups[g].path \in Seq(System \cup GroupId)
       /\ DOMAIN groups[g].attrs \subseteq Attribute
       /\ groups[g].attrs \in [DOMAIN groups[g].attrs -> Row]
  /\ DOMAIN configs \subseteq ConfigId /\ configs \in [DOMAIN configs -> Config]
  /\ details \in [DOMAIN configs -> SUBSET Attribute]
  /\ default \in BOOLEAN /\ (DOMAIN configs # {} => default)
  /\ strayed \subseteq System /\ hidden \subseteq Attribute /\ requests \in 0..MaxRequests

\* The path of a group is its parent's path and its own id, through groups
\* that exist: the readers of paths and those of parents see one tree.  The
\* exceptions are a system group that the last update did not name, which may
\* hang below a group that update deleted, and the parent a system group keeps
\* when it is drawn without one.
PathsFollowGroups ==
  \A g \in DOMAIN groups \ strayed :
    LET p == groups[g].parent IN
    IF Len(groups[g].path) = 1
    THEN groups[g].path = <<g>> /\ (p = None \/ g \in System)
    ELSE p \in DOMAIN groups \ strayed /\ groups[g].path = Append(groups[p].path, g)

\* Attributes that tell variants apart have different priorities, apart from
\* those that lost theirs when an update inserted them again.
RanksDistinct ==
  \A g, h \in DOMAIN groups : \A a \in DOMAIN groups[g].attrs, b \in DOMAIN groups[h].attrs :
    /\ a # b /\ groups[g].attrs[a].variation /\ groups[h].attrs[b].variation
    /\ groups[g].attrs[a].rank # 0
    => groups[g].attrs[a].rank # groups[h].attrs[b].rank

\* An attribute that tells variants apart goes on doing so as long as a group
\* that updates insert again has it, wherever it is moved; an update may take
\* that from it only when no group but system groups is left with it.
VariationSurvives ==
  [][\A a \in VariationOf(groups), g \in DOMAIN groups' \ System :
       a \in DOMAIN groups'[g].attrs => a \in VariationOf(groups')]_vars

\* The attributes of live configurations and of their details are in the set.
\* The exception are attributes that an update moved to a system group without
\* them: the check finds them in the request, but a system group takes no
\* attributes.
ConfiguredStay == Configured \subseteq AttributesOf(groups) \cup hidden

\* No two live configurations name the same attributes and values for the same
\* brand, or one of them for all brands: whatever a request adds, changes,
\* deletes and exchanges at once.
NoDuplicateConfigs ==
  \A i, j \in Live :
    i # j /\ configs[i].attrs = configs[j].attrs
      => configs[i].brand # configs[j].brand /\ None \notin {configs[i].brand, configs[j].brand}

\* Whatever updates of the set and of its configurations follow each other,
\* configurations keep their attributes and each stands once.
ConfigsSound == ConfiguredStay /\ NoDuplicateConfigs

AttributeValues == UNION {{configs[i].attrs[n][2] : n \in DOMAIN configs[i].attrs} : i \in DOMAIN configs}

\* A product takes its texts from a configuration for its brand or for all, and
\* a live one made for the product, with values, all its, and its brand, is only
\* passed over for one with as many attributes; one of its brand is not passed
\* over for one of all brands.  With a default there is always one to take.
SeoMadeForProduct ==
  \A values \in [Attribute -> {None} \cup AttributeValues], b \in Brand :
    LET made == {i \in Live : configs[i].brand \in {None, b} /\ configs[i].attrs # <<>> /\
                   \A n \in DOMAIN configs[i].attrs : values[configs[i].attrs[n][1]] = configs[i].attrs[n][2]}
    IN  /\ default => SeoDefault(values, b) # {}
        /\ \A r \in SeoByConfig(values, b) \cup SeoDefault(values, b) :
             /\ r.brand \in {None, b}
             /\ \A i \in made :
                  /\ Len(r.attrs) >= Len(configs[i].attrs)
                  /\ r.brand = None /\ (\A n \in 1..Slots : Slot(r, n) = Slot(configs[i], n)) =>
                       configs[i].brand = None

\* The groups of a set are well drawn: one tree for those who read paths and
\* those who read parents, and distinct ranks of variation attributes.
GroupsWellDrawn == TypeOK /\ PathsFollowGroups /\ RanksDistinct
=============================================================================
