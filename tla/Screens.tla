-------------------------------- MODULE Screens -------------------------------
(***************************************************************************)
(* How a layout is made when no cache has it: the row of screen_configs,   *)
(* or else the screen of the tenant's catalogue with its $refs             *)
(* (CatalogueLoaderService), or else the one that the language model       *)
(* generated (A2uiToScreenConfigService), normalised (BduiService) and     *)
(* filtered for the roles of the caller (RbacComponentFilter).             *)
(*                                                                         *)
(* A behaviour makes one layout.  JSON is a tagged value: Leaf, Null, an   *)
(* array, an object, a reference to a file and a place in it; the only     *)
(* leaf that counts as false is the empty string.  Paths of files are      *)
(* taken as resolved, and a place is a path through objects.               *)
(***************************************************************************)
EXTENDS Naturals, Sequences, FiniteSets, SequencesExt, TLC

CONSTANTS
    Requests,   \* what a layout is made from: [stored, files, generated, roles]
    Depth       \* the nesting at which the stack ends

VARIABLES
    request,    \* what is asked
    layout      \* what comes of it

screenVars == <<request, layout>>

Null == [k |-> "null"]
Leaf(v) == [k |-> "leaf", v |-> v]
Arr(items) == [k |-> "arr", items |-> items]
Obj(fields) == [k |-> "obj", fields |-> fields]
Ref(file, place) == [k |-> "ref", file |-> file, place |-> place]

Truthy(value) == value \notin {Null, Leaf("")}

\* What a file holds that is not JSON.
Garbage == [k |-> "garbage"]

\* The value of a key; Null when there is none.
Get(value, key) == IF value.k = "obj" /\ key \in DOMAIN value.fields THEN value.fields[key] ELSE Null

-------------------------------------------------------------------------------
(* The catalogue *)

\* The JSON pointer of a reference.
Pointed(value, place) == FoldLeft(LAMBDA v, key : Get(v, key), value, place)

\* resolveRefs and resolveRef.  A file that is missing or does not parse gives
\* Null; so does, in the last call that fits on the stack, one that holds itself.
RECURSIVE ResolveRefs(_, _, _)
ResolveRefs(value, files, room) ==
    CASE value.k = "arr" -> Arr([i \in DOMAIN value.items |-> ResolveRefs(value.items[i], files, room)])
      [] value.k = "obj" -> Obj([key \in DOMAIN value.fields |-> ResolveRefs(value.fields[key], files, room)])
      [] value.k = "ref" -> IF room = 0 \/ value.file \notin DOMAIN files \/ files[value.file] = Garbage THEN Null
                            ELSE ResolveRefs(Pointed(files[value.file], value.place), files, room - 1)
      [] OTHER -> value

\* loadScreenConfig: a screen.json that does not parse is no screen.  A flat file
\* is taken as it is, with its references; when it does not parse the call throws.
LoadScreenConfig(files) ==
    IF "screen.json" \in DOMAIN files
    THEN IF files["screen.json"] = Garbage THEN Null ELSE ResolveRefs(files["screen.json"], files, Depth)
    ELSE IF "flat.json" \in DOMAIN files THEN files["flat.json"]
    ELSE Null

-------------------------------------------------------------------------------
(* What the language model generated: [id, type, children], children Absent  *)
(* or ids.                                                                   *)

Absent == <<"absent">>
IsKpi(c) == c.type \in {"KPICard", "StatCard", "ChartBar", "ChartPie", "ChartLine"}
IsAction(c) == c.type \in {"Button", "ButtonRow", "FloatingActionButton"}

ById(components, id) == SelectLastInSubSeq(components, 1, Len(components), LAMBDA c : c.id = id)
Known(components, id) == ById(components, id) # 0
Component(components, id) == components[ById(components, id)]
Nested(components, c) ==
    IF c.children = Absent THEN <<>>
    ELSE SelectSeq(c.children, LAMBDA id : id # "root" /\ Known(components, id))

\* The ids below a component, as far down as there are components.
Below(components, c) ==
    LET Ids == {components[i].id : i \in DOMAIN components}
        Grow[n \in 0 .. Cardinality(Ids)] ==
            IF n = 0 THEN ToSet(Nested(components, c))
            ELSE Grow[n - 1] \cup UNION {ToSet(Nested(components, Component(components, id))) : id \in Grow[n - 1]}
    IN  Grow[Cardinality(Ids)]
\* toComponentConfig would not come to an end.
Endless(components, c) ==
    \E id \in {c.id} \cup Below(components, c) : id \in Below(components, Component(components, id))

\* toComponentConfig
RECURSIVE ToComponentConfig(_, _)
ToComponentConfig(components, c) ==
    LET nested == Nested(components, c)
        children == Arr([i \in DOMAIN nested |-> ToComponentConfig(components, Component(components, nested[i]))])
    IN  Obj([id |-> Leaf(c.id),
             props |-> Obj(IF c.children = Absent THEN <<>> ELSE [children |-> children])])

\* The children of the root that are in no zone yet: containers.
FromRoot(components) ==
    IF ~Known(components, "root") THEN <<>>
    ELSE LET inZone == {c \in ToSet(components) : IsKpi(c) \/ IsAction(c) \/ (c.id # "root" /\ c.children = Absent)}
             root == components[SelectInSeq(components, LAMBDA c : c.id = "root")]
             Place(ids, id) == IF id \in ToSet(ids) \/ \E c \in inZone : c.id = id THEN ids ELSE Append(ids, id)
             ids == FoldLeft(Place, <<>>, Nested(components, root))
         IN  [i \in DOMAIN ids |-> Component(components, ids[i])]

Kpis(components) == SelectSeq(components, IsKpi)
Actions(components) == SelectSeq(components, IsAction)
Main(components) ==
    SelectSeq(components, LAMBDA c : ~IsKpi(c) /\ ~IsAction(c) /\ c.id # "root" /\ c.children = Absent)
    \o FromRoot(components)

\* parseA2uiToScreenConfig
ParseA2ui(components) ==
    LET Zone(cs) == Arr([i \in DOMAIN cs |-> ToComponentConfig(components, cs[i])])
        placed == Kpis(components) \o Main(components) \o Actions(components)
    IN  IF \E c \in ToSet(placed) : Endless(components, c) THEN Null
        ELSE Obj([zones |-> Obj([kpis |-> Zone(Kpis(components)), main |-> Zone(Main(components)),
                                 actions |-> Zone(Actions(components))])])

-------------------------------------------------------------------------------
(* The layout *)

\* normalizeScreenConfig: a zone is an array or an object that holds one.
NormalizeZone(zone) ==
    IF zone.k = "arr" THEN zone
    ELSE IF Get(zone, "components").k = "arr" THEN Get(zone, "components")
    ELSE Arr(<<>>)
Normalize(raw) ==
    LET zones == Get(raw, "zones")
    IN  IF zones.k = "obj" THEN [z \in DOMAIN zones.fields |-> NormalizeZone(zones.fields[z])] ELSE <<>>

\* isVisibleForRoles
Visible(c, roles) ==
    LET condition == Get(c, "visible_if")
    IN  \/ condition = Null
        \/ Get(condition, "operator") # Leaf("role")
        \/ Get(condition, "value").k = "arr" /\ \E r \in ToSet(Get(condition, "value").items) : r.v \in roles

ChildrenOf(c) == Get(Get(c, "props"), "children")

\* Mutant: what a visible component holds is not filtered.
FilterZoneTop(items, roles) == SelectSeq(items, LAMBDA c : Visible(c, roles))

\* filterZone with recurseChildren
RECURSIVE FilterZone(_, _)
FilterZone(items, roles) ==
    LET visible == SelectSeq(items, LAMBDA c : Visible(c, roles))
    IN  [i \in DOMAIN visible |->
            IF Truthy(ChildrenOf(visible[i]))
            THEN [visible[i] EXCEPT !.fields["props"].fields["children"] = Arr(FilterZone(@.items, roles))]
            ELSE visible[i]]

\* The filter reads a field of every component it comes to and calls a method of
\* arrays on the children of every visible one: a Null ends it, and so do
\* children that are a single component, a reference, or anything else that is
\* there and no array.
RECURSIVE FilterFails(_, _)
FilterFails(items, roles) ==
    \E c \in ToSet(items) :
        \/ c = Null
        \/ LET children == ChildrenOf(c)
           IN  /\ Visible(c, roles) /\ Truthy(children)
               /\ children.k # "arr" \/ FilterFails(children.items, roles)

\* apply
Apply(zones, roles) ==
    IF \E z \in DOMAIN zones : FilterFails(zones[z].items, roles) THEN [kind |-> "TypeError"]
    ELSE [kind |-> "layout", zones |-> [z \in DOMAIN zones |-> FilterZone(zones[z].items, roles)]]

\* countInComponents
RECURSIVE CountIn(_)
CountIn(items) ==
    FoldLeft(LAMBDA n, c : n + 1 + IF ChildrenOf(c).k = "arr" THEN CountIn(ChildrenOf(c).items) ELSE 0, 0, items)
CountComponents(zones) == FoldLeft(LAMBDA n, z : n + CountIn(zones[z]), 0, SetToSeq(DOMAIN zones))

\* getLayout after the caches: the row, as it is, then the catalogue, then the
\* language model.
Own(asked) == IF asked.stored # Null THEN asked.stored ELSE LoadScreenConfig(asked.files)
Raw(asked) ==
    IF Own(asked) # Null \/ asked.generated = Null THEN Own(asked) ELSE ParseA2ui(asked.generated.items)
Load(asked) ==
    LET raw == Raw(asked)
    IN  CASE raw = Null -> [kind |-> "NotFoundException"]
          [] raw = Garbage -> [kind |-> "SyntaxError"]
          [] OTHER -> Apply(Normalize(raw), asked.roles)

Pending == [kind |-> "pending"]
ScreenInit == request \in Requests /\ layout = Pending
Answer == layout = Pending /\ layout' = Load(request) /\ UNCHANGED request
ScreenNext == Answer

-------------------------------------------------------------------------------

TypeOK == layout.kind \in {"pending", "layout", "NotFoundException", "SyntaxError", "TypeError"}

(* A place in a zone is a sequence of positions, one per level. *)
Places == UNION {[1 .. n -> 1 .. 3] : n \in 1 .. 3}
There(items, place) ==
    /\ place[1] \in DOMAIN items
    /\ \A n \in 2 .. Len(place) :
        LET c == FoldLeft(LAMBDA here, p : ChildrenOf(here).items[p], items[place[1]], SubSeq(place, 2, n - 1))
        IN  ChildrenOf(c).k = "arr" /\ place[n] \in DOMAIN ChildrenOf(c).items
At(items, place) == FoldLeft(LAMBDA here, p : ChildrenOf(here).items[p], items[place[1]], Tail(place))
\* Everything above a place, itself included, is visible.
Allowed(items, place, roles) ==
    \A n \in 1 .. Len(place) : At(items, SubSeq(place, 1, n)) # Null /\ Visible(At(items, SubSeq(place, 1, n)), roles)
AboveAllowed(items, place, roles) == Len(place) = 1 \/ Allowed(items, SubSeq(place, 1, Len(place) - 1), roles)

(* What the filter cannot pass: a reference to nothing, or a visible        *)
(* component whose children are there and no list.                         *)
Unfit(c, roles) ==
    c = Null \/ (Visible(c, roles) /\ Truthy(ChildrenOf(c)) /\ ChildrenOf(c).k # "arr")

(* A layout holds the components the caller's roles may see, and only      *)
(* those: as many components as there are places where everything above is *)
(* visible too, whatever the nesting, the form of the zone and the         *)
(* references the screen is put together from.  One component that the     *)
(* filter cannot pass costs the whole layout, exactly when everything      *)
(* above it is visible.                                                    *)
RolesSeeTheirs ==
    layout.kind \in {"layout", "TypeError"} =>
        LET zones == Normalize(Raw(request))
            places == [z \in DOMAIN zones |-> {p \in Places : There(zones[z].items, p)}]
            allowed == [z \in DOMAIN zones |-> {p \in places[z] : Allowed(zones[z].items, p, request.roles)}]
        IN  IF \E z \in DOMAIN zones : \E p \in places[z] :
                    Unfit(At(zones[z].items, p), request.roles) /\ AboveAllowed(zones[z].items, p, request.roles)
            THEN layout.kind = "TypeError"
            ELSE /\ layout.kind = "layout"
                 /\ \A z \in DOMAIN zones : CountIn(layout.zones[z]) = Cardinality(allowed[z])
                 /\ CountComponents(layout.zones) = Cardinality({<<z, p>> \in (DOMAIN zones) \X Places : p \in allowed[z]})

\* The ids in a zone, at any level.
RECURSIVE IdsIn(_)
IdsIn(items) ==
    UNION {{Get(c, "id").v} \cup (IF ChildrenOf(c).k = "arr" THEN IdsIn(ChildrenOf(c).items) ELSE {}) : c \in ToSet(items)}

(* A generated screen shows everything its root leads to: a component that *)
(* can be reached from the root is in some zone, unless the components     *)
(* hold each other in a circle, in which case there is no screen.          *)
GeneratedIsWhole ==
    layout.kind = "layout" /\ Own(request) = Null =>
        LET components == request.generated.items
            root == IF Known(components, "root") THEN Below(components, Component(components, "root")) ELSE {}
        IN  root \subseteq UNION {IdsIn(layout.zones[z]) : z \in DOMAIN layout.zones}

\* Layouts, from the catalogue and generated, show what they should.
LayoutsAreRight == RolesSeeTheirs /\ GeneratedIsWhole

===============================================================================
