------------------------------- MODULE MCEngines -------------------------------
(***************************************************************************)
(* The engines, and the definitions they work from, checked in one run:    *)
(* either something of MCRuntime runs, or a layout is made or a formula    *)
(* evaluated.  Flows, formulas, screens and what else is executed or       *)
(* validated come from the sets defined here.                              *)
(***************************************************************************)
EXTENDS MCRuntime, TLC

CONSTANTS
    Requests, Depth,                \* Screens
    Formulas, Inputs, MaxDepth      \* Algo

VARIABLES
    request, layout,
    formula, inputs, value

Page == INSTANCE Screens
Math == INSTANCE Algo

\* To write flows, screens and formulas down.
Graph == INSTANCE Flow WITH Flows <- {}
Json == INSTANCE Screens WITH Requests <- {}
Term == INSTANCE Algo WITH Formulas <- {}, Inputs <- {}

screenVars == <<request, layout>>
algoVars == <<formula, inputs, value>>
pureVars == <<screenVars, algoVars>>
engineVars == <<runtimeVars, pureVars>>

Runs == {"executor", "flow", "migrations", "mind", "definitions"}

\* What the others hold whose turn it is not.
IdleScreens == request = Nothing /\ layout = Nothing
IdleAlgo == formula = Nothing /\ inputs = Nothing /\ value = Nothing

EnginesInit ==
    /\ part \in Runs \cup {"screens", "algo"}
    /\ RuntimeInit
    /\ IF part = "screens" THEN Page!ScreenInit ELSE IdleScreens
    /\ IF part = "algo" THEN Math!AlgoInit ELSE IdleAlgo

RunsOn == RuntimeNext /\ UNCHANGED pureVars
Lays == part = "screens" /\ Page!ScreenNext /\ UNCHANGED <<runtimeVars, algoVars>>
Computes == part = "algo" /\ Math!AlgoNext /\ UNCHANGED <<runtimeVars, screenVars>>

EnginesNext == RunsOn \/ Lays \/ Computes

EnginesSpec ==
    /\ EnginesInit /\ [][EnginesNext]_engineVars
    /\ WF_engineVars(ExecutorTurn /\ Run /\ UNCHANGED pureVars)
    /\ WF_engineVars(FlowTurn /\ FlowEngine!Execute /\ UNCHANGED pureVars)
    /\ \A r \in Talks : WF_engineVars(MindTurn /\ Chat!Hear(r) /\ UNCHANGED pureVars)

-------------------------------------------------------------------------------
(* What the run checks, besides the properties of MCRuntime *)

\* What is begun comes to its end: a run of a workflow is answered, a flow has
\* nothing left to do, and whoever asks the generator hears from it.
Ends ==
    /\ part = "executor" => Answers
    /\ part = "flow" => FlowEngine!Ends
    /\ Chat!AllAnswered

LayoutsAreRight == part = "screens" => Page!TypeOK /\ Page!LayoutsAreRight
FormulasMean == part = "algo" => Math!TypeOK /\ Math!FormulasMean

-------------------------------------------------------------------------------
(* Flows: three nodes, each of which may lead to the others and to itself, to *)
(* a node that is missing or nowhere                                          *)

FlowNode(id, type, first, second) ==
    [id |-> id, type |-> type, first |-> first, second |-> second,
     cond |-> [op |-> "==", value |-> 1], as |-> TRUE, value |-> 1]
Test(id, op, first, second) == [FlowNode(id, "condition", first, second) EXCEPT !.cond.op = op]

Firsts ==
    {Test(1, op, <<2>>, <<3, 2>>) : op \in {"none", "!=", "==", ">", "<", ">="}}
    \cup {FlowNode(1, "loop", <<2>>, <<>>), [FlowNode(1, "loop", <<2, 3>>, <<>>) EXCEPT !.as = FALSE],
          FlowNode(1, "webhook", <<2>>, <<3>>), FlowNode(1, "approval", <<3>>, <<2>>),
          FlowNode(1, "unknown", <<2>>, <<>>)}
Seconds ==
    {Test(2, "==", <<3>>, <<1>>), Test(2, ">", <<>>, <<4, 3>>), FlowNode(2, "assign", <<>>, <<>>),
     FlowNode(2, "loop", <<3>>, <<>>), FlowNode(2, "delay", <<3>>, <<>>), FlowNode(2, "webhook", <<1>>, <<3>>)}
Thirds ==
    {FlowNode(3, "notify", <<>>, <<>>), FlowNode(3, "webhook", <<1, 2>>, <<4>>), Test(3, "==", <<2>>, <<1>>),
     [FlowNode(3, "delay", <<>>, <<>>) EXCEPT !.value = 0]}

\* A loop whose body leads back to it never ends.
Onward(flow, ids) == ids \cup UNION {Graph!Leads(Graph!Node(flow, id)) : id \in ids \cap Graph!Ids(flow)}
NoLoopInItself(flow) ==
    \A node \in Graph!Nodes(flow) :
        node.type = "loop" => node.id \notin Onward(flow, Onward(flow, Onward(flow, Graph!Leads(node))))

MCFlows == {flow \in {<<a, b, c>> : a \in Firsts, b \in Seconds, c \in Thirds} : NoLoopInItself(flow)}
MCCollections == {{}, {<<0, 1>>}}

-------------------------------------------------------------------------------
(* Definitions: graphs of steps with cycles, twins and missing ones, state *)
(* machines of three states, trees of files, and suites of schemas         *)

DefinedStep(id, deps) == [id |-> id, dependsOn |-> deps]
Deps3 == {<<>>, <<1>>, <<2>>, <<3>>, <<9>>, <<1, 1>>, <<1, 2>>, <<2, 3>>, <<3, 1>>}
Deps4 == {<<>>, <<1>>, <<2>>, <<4>>, <<1, 2>>, <<3, 4>>}
StepGraphs ==
    {<<>>}
    \cup {<<DefinedStep(1, a), DefinedStep(2, b), DefinedStep(x, c)>> : a, b, c \in Deps3, x \in {1, 3}}
    \cup {<<DefinedStep(1, a), DefinedStep(2, b), DefinedStep(3, c), DefinedStep(4, d)>> : a, b, c, d \in Deps4}

To(x) == [target |-> x, cond |-> FALSE]
Ons == {{}, {To("a")}, {To("b")}, {To("c")}, {To("b"), To("c")}, {To("d")}, {[To("b") EXCEPT !.cond = TRUE]}}
StateMachines ==
    {[kind |-> "fsm", initial |-> i, states |-> [a |-> [on |-> x], b |-> [on |-> y], c |-> [on |-> z]]] :
        i \in {"a", "d", ""}, x, y, z \in Ons}

File(top, path, fits, graphs) ==
    [top |-> top, path |-> path, reads |-> TRUE, parses |-> TRUE, fits |-> fits, workflows |-> graphs]
Good == <<DefinedStep(1, <<>>), DefinedStep(2, <<1>>)>>
Bad == <<DefinedStep(1, <<2>>), DefinedStep(2, <<1>>)>>
Files ==
    {File(top, {top} \cup path, fits, graphs) :
        top \in {"modules", "fusions"}, path \in {{}, {"screens"}, {"workflows"}},
        fits \in {{}, {"module", "fusion"}, {"screen"}}, graphs \in {{}, {<<>>}, {Good}, {Good, Bad}}}
    \cup {File(top, {top}, {"domain"}, {Bad}) : top \in {"domains", "workflows", "tenants", "other"}}
    \cup {[File("modules", {"modules"}, {"module"}, {}) EXCEPT !.reads = FALSE],
          [File("fusions", {"fusions"}, {"fusion"}, {}) EXCEPT !.parses = FALSE]}
Trees ==
    {{}} \cup {{f, g} : f \in Files, g \in {File("modules", {"modules"}, {"module"}, {Good}),
                                          File("workflows", {"workflows"}, {"workflow"}, {})}}

Sound == [id |-> TRUE, draft |-> TRUE, compiles |-> TRUE, version |-> "1.0.0", const |-> "1.0.0", examples |-> {}]
Example(expected, accepted) == [expected |-> expected, accepted |-> accepted]
SchemaVariants ==
    {Sound, [Sound EXCEPT !.id = FALSE], [Sound EXCEPT !.draft = FALSE], [Sound EXCEPT !.compiles = FALSE],
     [Sound EXCEPT !.version = ""], [Sound EXCEPT !.const = "2.0.0"],
     [Sound EXCEPT !.examples = {Example(TRUE, TRUE), Example(FALSE, FALSE)}],
     [Sound EXCEPT !.examples = {Example(TRUE, FALSE)}],
     [Sound EXCEPT !.examples = {Example(FALSE, TRUE), Example(TRUE, TRUE)}]}
Suites == [{"component-config", "screen-config"} -> SchemaVariants]

MCSubjects ==
    {[kind |-> "workflow", steps |-> w] : w \in StepGraphs} \cup StateMachines
    \cup {[kind |-> "catalogue", files |-> t] : t \in Trees} \cup {[kind |-> "schemas", suite |-> s] : s \in Suites}

-------------------------------------------------------------------------------
(* Screens: one zone of components with conditions and children, in a list  *)
(* or not, written in the file, behind references or in the table, files    *)
(* that do not parse, and generated ones                                    *)

OnlyIf(op, v) == Json!Obj([operator |-> Json!Leaf(op), value |-> v])
OnlyForDg == OnlyIf("role", Json!Arr(<<Json!Leaf("dg")>>))
Conditions == {Json!Null, OnlyForDg, OnlyIf("role", Json!Null), OnlyIf("expr", Json!Null)}
Holder(condition, children) ==
    Json!Obj([id |-> Json!Leaf("c"), visible_if |-> condition, props |-> Json!Obj([children |-> children])])
Part(condition, kids) ==
    IF kids = <<>> THEN Json!Obj([id |-> Json!Leaf("c"), visible_if |-> condition, props |-> Json!Obj(<<>>)])
    ELSE Holder(condition, Json!Arr(kids))
Free == Part(Json!Null, <<>>)
ForDg == Part(OnlyForDg, <<>>)
Leaves == {Part(condition, <<>>) : condition \in Conditions} \cup {Json!Null, Json!Ref("a.json", <<>>)}
Containers ==
    {Part(condition, <<x, y>>) :
        condition \in {Json!Null, OnlyForDg}, x \in {Free, ForDg, Json!Null, Part(Json!Null, <<ForDg>>)},
        y \in {ForDg, Json!Ref("a.json", <<"part">>)}}
NoLists ==
    {Json!Null, Json!Leaf(""), Json!Leaf("x"), ForDg, Json!Ref("a.json", <<>>), Json!Ref("a.json", <<"part">>)}
Holders ==
    {Holder(condition, x) : condition \in {Json!Null, OnlyForDg}, x \in NoLists}
    \cup {Part(OnlyForDg, <<Holder(condition, ForDg)>>) : condition \in {Json!Null, OnlyForDg}}
Zones ==
    {Json!Arr(<<a, b>>) : a \in Leaves, b \in Leaves \cup Containers \cup Holders}
    \cup {Json!Obj([components |-> Json!Arr(<<a>>)]) : a \in Containers}
    \cup {Json!Null, Json!Obj(<<>>), Json!Leaf("x")}
Screen(zone) == Json!Obj([zones |-> Json!Obj([main |-> zone])])
Fragments ==
    {Free, Json!Obj([part |-> ForDg]), Json!Ref("a.json", <<>>), Part(Json!Null, <<Json!Ref("a.json", <<>>)>>),
     Json!Arr(<<Free, ForDg>>), Json!Garbage}
Catalogues ==
    {<<>>} \cup {"screen.json" :> Screen(zone) : zone \in Zones}
    \cup {"screen.json" :> Screen(zone) @@ "a.json" :> fragment : zone \in Zones, fragment \in Fragments}
    \cup {"flat.json" :> Screen(zone) :
            zone \in {Json!Arr(<<Free, ForDg>>), Json!Leaf("x"),
                      Json!Obj([components |-> Json!Arr(<<Free, Json!Ref("a.json", <<>>)>>)]),
                      Json!Arr(<<Holder(Json!Null, Json!Ref("a.json", <<>>)), ForDg>>)}}
    \cup {file :> Json!Garbage : file \in {"screen.json", "flat.json"}}
    \cup {"screen.json" :> Json!Garbage @@ "flat.json" :> Screen(Json!Arr(<<Free>>))}
Stored == {Screen(zone) : zone \in {Json!Arr(<<Free, ForDg>>), Json!Arr(<<Holder(OnlyForDg, Json!Ref("a.json", <<>>))>>)}}

Generated(id, type, kids) == [id |-> id, type |-> type, children |-> kids]
Kids == {Json!Absent, <<>>, <<"a", "b">>, <<"b", "c">>, <<"c">>, <<"root", "zz">>, <<"c", "c">>}
Generations ==
    {Json!Arr(<<Generated("root", "Column", r), Generated("a", ta, a), Generated("b", tb, b), Generated("c", "Text", c)>>) :
        r, a, b \in Kids, c \in {Json!Absent, <<>>, <<"a">>}, ta \in {"Row", "KPICard"}, tb \in {"Row", "Button"}}

MCRequests ==
    {[stored |-> Json!Null, files |-> f, generated |-> Json!Null, roles |-> r] : f \in Catalogues, r \in {{}, {"dg"}}}
    \cup {[stored |-> s, files |-> f, generated |-> Json!Null, roles |-> r] :
            s \in Stored, f \in {<<>>, "flat.json" :> Json!Garbage}, r \in {{}, {"dg"}}}
    \cup {[stored |-> Json!Null, files |-> <<>>, generated |-> g, roles |-> {"dg"}] : g \in Generations}
    \cup {[stored |-> Json!Null, files |-> "screen.json" :> Json!Garbage, roles |-> {"dg"},
           generated |-> Json!Arr(<<Generated("root", "Column", <<"a">>), Generated("a", "Text", Json!Absent)>>)]}

-------------------------------------------------------------------------------
(* Formulas: every primitive on small numbers, lists and days, and nestings *)

Numbers == {Term!Whole(0), Term!Whole(2), Term!Whole(-3), Term!Num(5, 2), Term!Num(-7, 4)}
Given == {Term!Constant(n) : n \in Numbers}
Whole(n) == Term!Constant(Term!Whole(n))
Word(s) == Term!Constant(Term!Text(s))
Booleans == {Term!Constant(Term!Bool(b)) : b \in BOOLEAN}
Days == {Term!Constant(Term!Date(d)) : d \in 0 .. 9}
NumberLists ==
    {Term!Constant(Term!List(l)) : l \in {<<>>} \cup {<<a>> : a \in Numbers} \cup {<<a, b, c>> : a, b, c \in Numbers}}
Rows == Term!Constant(Term!List(<<Term!Row([x |-> Term!Whole(1)]), Term!Row([y |-> Term!Whole(2)]), Term!Row([x |-> Term!Whole(2)])>>))
Holidays == {Term!Constant(Term!List(l)) : l \in {<<>>, <<Term!Date(3), Term!Date(6)>>}}

On2(fns, S, T) == {Term!Call(fn, <<x, y>>) : fn \in fns, x \in S, y \in T}
Calls1 ==
    On2({"add", "sub", "mul", "div", "min", "max", "gt", "lt", "gte", "lte", "eq", "ne"}, Given, Given \cup {Term!Variable("v")})
    \cup On2({"round"}, Given, {Whole(0), Whole(1)})
    \cup {Term!Call(fn, <<x>>) : fn \in {"floor", "ceil", "abs", "round"}, x \in Given}
    \cup On2({"and", "or"}, Booleans, Booleans) \cup {Term!Call("not", <<b>>) : b \in Booleans}
    \cup {Term!Call(fn, <<l>>) : fn \in {"sum", "avg", "count", "unique"}, l \in NumberLists}
    \cup {Term!Call("filter", <<Rows, Word("x"), Whole(1)>>), Term!Call("map_field", <<Rows, Word("x")>>)}
    \cup On2({"diff_jours"}, Days, Days) \cup On2({"add_days"}, Days, {Whole(-9), Whole(0), Whole(4)})
    \cup {Term!Call("days_ouvres", <<a, b, h>>) : a, b \in Days, h \in Holidays}
    \cup {Term!Call("delai_paiement", <<a, b, Term!Constant(Term!Num(1, 2))>>) : a, b \in Days}
    \cup {Term!Call("convertir_devise", <<n, Word("XOF"), Word("EUR"), Term!Constant(Term!Num(1, 3))>>) : n \in Given}
    \cup {Term!Call("nope", <<>>)}
Inner ==
    On2({"add", "div"}, {Whole(0), Whole(2)}, {Whole(0), Term!Variable("v")})
    \cup {Term!Call("gt", <<Term!Variable("w"), Whole(0)>>)}
Calls2 ==
    On2({"add", "div", "eq"}, Inner, Inner)
    \cup {Term!Call("if", <<condition, x, y>>) : condition \in Booleans \cup Inner, x, y \in Inner}

MCFormulas == Given \cup {Term!Variable("v")} \cup Calls1 \cup Calls2
MCInputs == {<<>>, [v |-> Term!Whole(2)], [v |-> Term!Num(1, 2), w |-> Term!Whole(3)]}

-------------------------------------------------------------------------------
(* What a model says: a screen, one that repeats an id, a flow without steps *)
(* and one whose step lacks its fields                                        *)

Root == [id |-> "root", component |-> "Column"]
Ui(components) ==
    [version |-> "v0.9", updateComponents |-> [surfaceId |-> "s1", components |-> components]]
FlowAnswer(steps) ==
    [version |-> "v0.9", engine |-> "flow",
     flow |-> [id |-> "f", name |-> "f", trigger |-> [type |-> "manual"], steps |-> steps]]
Meta == [id |-> "m", type |-> "flow_meta", flowId |-> "f", name |-> "f"]

MCSays ==
    {Ui(<<Root>>), Ui(<<Root, Root>>), FlowAnswer(<<Meta>>), FlowAnswer(<<Meta, [id |-> "d", type |-> "delay"]>>)}
===============================================================================
