----------------------------- MODULE Definitions ------------------------------
(***************************************************************************)
(* The validation of what tenants and developers write down: workflows as  *)
(* graphs of steps (engines/workflow/validator), state machines            *)
(* (engines/workflow/fsm/fsm-validator.ts), the catalogue, at the start of *)
(* the application (catalog-loader/services) and in a script of the        *)
(* continuous integration (scripts/validate-catalogue.ts), and the JSON    *)
(* schemas with their examples (scripts/validate-schemas.mjs).             *)
(*                                                                         *)
(* A behaviour validates one subject.  An error is its code and what it    *)
(* names; messages are left out.  What a schema accepts is a part of the   *)
(* subject: the schemas themselves are data.                               *)
(***************************************************************************)
EXTENDS Integers, Sequences, FiniteSets, Functions, Filters

CONSTANT Subjects       \* what may be validated: records with a field `kind`

VARIABLES
    subject,    \* what is validated
    outcome     \* what comes of it; Pending before

definitionVars == <<subject, outcome>>

Pending == [done |-> FALSE]

-------------------------------------------------------------------------------
(* The graph of a workflow *)

Ids(steps) == [i \in DOMAIN steps |-> steps[i].id]
IdSet(steps) == Range(Ids(steps))

\* An edge <<i, j>> leads from the j-th dependency of the i-th step to that step.
Edges(steps) == UNION {{i} \X DOMAIN steps[i].dependsOn : i \in DOMAIN steps}
Source(steps, edge) == steps[edge[1]].dependsOn[edge[2]]
Target(steps, edge) == steps[edge[1]].id

InDegree(steps) == [m \in IdSet(steps) |-> Cardinality({e \in Edges(steps) : Target(steps, e) = m})]

\* The edges from n to m: a dependency may be written more than once.
Between(steps, n, m) == {e \in Edges(steps) : Source(steps, e) = n /\ Target(steps, e) = m}

\* Node n leaves the queue; of the others, whose degrees fall, those that wait
\* for nothing more join it.  The edges come step by step, and so do they.
Leave(state, steps, n, degree) ==
    [queue  |-> Tail(state.queue) \o Among(Ids(steps), {m \in IdSet(steps) : state.degree[m] > 0 /\ degree[m] = 0}),
     degree |-> degree,
     sorted |-> Append(state.sorted, n)]

\* Mutant: an edge that is there twice counts once on the way down.
TakeNodeOnce(state, steps) ==
    LET n == Head(state.queue)
    IN  Leave(state, steps, n,
              [m \in IdSet(steps) |-> IF Between(steps, n, m) = {} THEN state.degree[m] ELSE state.degree[m] - 1])

TakeNode(state, steps) ==
    LET n == Head(state.queue)
    IN  Leave(state, steps, n, [m \in IdSet(steps) |-> state.degree[m] - Cardinality(Between(steps, n, m))])

Start(steps) ==
    [queue |-> Among(Ids(steps), {m \in IdSet(steps) : InDegree(steps)[m] = 0}), degree |-> InDegree(steps), sorted |-> <<>>]

\* The turns of the loop, of which there is at most one for each step.
Turn(state, steps) == IF state.queue = <<>> THEN state ELSE TakeNode(state, steps)
Sorting(steps) ==
    LET Run[k \in 0 .. Len(steps)] == IF k = 0 THEN Start(steps) ELSE Turn(Run[k - 1], steps)
    IN  Run

\* kahnTopologicalSort, for steps with names of their own that depend on each other.
Kahn(steps) ==
    LET end == Sorting(steps)[Len(steps)]
        ok == Len(end.sorted) = Len(steps)
    IN  [ok |-> ok, sorted |-> IF ok THEN end.sorted ELSE <<>>,
         remaining |-> {n \in IdSet(steps) : end.degree[n] > 0}]

Repeated(steps) == {steps[i].id : i \in {j \in DOMAIN steps : \E k \in 1 .. j - 1 : steps[k].id = steps[j].id}}

DependencyErrors(steps) ==
    UNION {{[code |-> IF dep = s.id THEN "WF_SELF_LOOP" ELSE "WF_UNKNOWN_DEPENDENCY", step |-> s.id] :
                dep \in {d \in Range(s.dependsOn) : d = s.id \/ d \notin IdSet(steps)}} : s \in Range(steps)}

Refused(errors) == [valid |-> FALSE, errors |-> errors]

\* validateDAG.  The checks after the sort, for an entry point and for steps
\* that none reaches, find nothing in a graph without cycles: every step can
\* be followed back to one that depends on nothing.
ValidateDAG(steps) ==
    IF steps = <<>> THEN Refused({[code |-> "WF_NO_ENTRY_POINT"]})
    ELSE IF Repeated(steps) # {} THEN Refused({[code |-> "WF_DUPLICATE_ID", step |-> id] : id \in Repeated(steps)})
    ELSE IF DependencyErrors(steps) # {} THEN Refused(DependencyErrors(steps))
    ELSE IF Kahn(steps).ok THEN [valid |-> TRUE, sorted |-> Kahn(steps).sorted]
    ELSE Refused({[code |-> "WF_CYCLE", steps |-> Kahn(steps).remaining]})

-------------------------------------------------------------------------------
(* State machines *)

\* Where the states that are found lead.
Onward(fsm, found) == found \cup {t.target : t \in UNION {fsm.states[s].on : s \in found \cap DOMAIN fsm.states}}

\* The search from the initial state; the targets it meets need not exist.
Searching(fsm) ==
    LET Found[k \in 0 .. Cardinality(DOMAIN fsm.states)] ==
            IF k = 0 THEN {fsm.initial} ELSE Onward(fsm, Found[k - 1])
    IN  Found

Reachable(fsm) == Searching(fsm)[Cardinality(DOMAIN fsm.states)]

Leads(fsm, s) == {t.target : t \in fsm.states[s].on}

FsmErrors(fsm) ==
    LET names == DOMAIN fsm.states
    IN  {[code |-> "no initial", state |-> s] : s \in {fsm.initial} \ names}
        \cup {[code |-> "unknown target", state |-> s] : s \in {x \in names : ~ (Leads(fsm, x) \subseteq names)}}
        \cup {[code |-> "cond", state |-> s] : s \in {x \in names : \E t \in fsm.states[x].on : t.cond}}
        \cup {[code |-> "unreachable", state |-> s] : s \in names \ Reachable(fsm)}

\* Without an initial state nothing else is looked at.
ValidateFsm(fsm) ==
    LET errors == IF fsm.initial = "" THEN {[code |-> "no initial", state |-> ""]} ELSE FsmErrors(fsm)
    IN  [valid |-> errors = {}, errors |-> errors]

-------------------------------------------------------------------------------
(* The catalogue *)

\* A file is [path: its directories below the root, reads, parses: BOOLEAN,
\* fits: the types whose schema accepts it, workflows: lists of steps].
\* inferTypeFromPath, in this order.
InferType(file) ==
    CASE "screens" \in file.path -> "screen"
      [] "screens" \notin file.path /\ "workflows" \in file.path -> "workflow"
      [] file.path \cap {"screens", "workflows"} = {} /\ "modules" \in file.path -> "module"
      [] file.path \cap {"screens", "workflows", "modules"} = {} /\ "fusions" \in file.path -> "fusion"
      [] OTHER -> "none"

Graphs(file) == {w \in file.workflows : w # <<>>}

\* validateFile and validateContent: of a type without workflows nothing more
\* than the schema is asked, and a workflow without steps is no graph.
ValidateFile(file, type) ==
    /\ file.reads /\ file.parses /\ type \in file.fits
    /\ type \in {"domain", "module", "fusion"} => \A steps \in Graphs(file) : ValidateDAG(steps).valid

Skipped == {"domains", "schemas", "tenants"}

\* onApplicationBootstrap: the application starts if no file it knows the type
\* of fails.
Starts(files) ==
    \A file \in files : file.path \cap Skipped = {} /\ InferType(file) # "none" => ValidateFile(file, InferType(file))

\* Mutant: the script looks at the schema only.
ScriptValidateFileShallow(file, type) == file.reads /\ file.parses /\ type \in file.fits

\* validateFile and validateWorkflowDags of the script.
ScriptValidateFile(file, type) ==
    /\ file.reads /\ file.parses /\ type \in file.fits
    /\ \A steps \in Graphs(file) : ValidateDAG(steps).valid

Directories == [domains |-> "domain", modules |-> "module", fusions |-> "fusion"]

\* The script walks three directories; the type is that of the directory.
ScriptPasses(files) ==
    \A dir \in DOMAIN Directories, file \in files :
        file.top = dir => ScriptValidateFile(file, Directories[dir])

-------------------------------------------------------------------------------
(* The JSON schemas.  A suite is a function from the names of the schemas to *)
(* [id, draft, compiles: BOOLEAN, version, const: what they say,             *)
(*  examples: sets of [expected, accepted: BOOLEAN]].                        *)

Tally(good, bad) ==
    [total |-> Cardinality(good) + Cardinality(bad), passed |-> Cardinality(good), failed |-> Cardinality(bad)]
Plus(a, b) == [total |-> a.total + b.total, passed |-> a.passed + b.passed, failed |-> a.failed + b.failed]

\* `compiles`: addSchema accepts it, which only registers it.  An error that shows
\* when it is compiled comes from getSchema, for each of its examples: they fare
\* otherwise than expected.  Without examples it never shows.
SchemaOk(schema) == schema.id /\ schema.draft /\ schema.version # "" /\ schema.compiles

\* The version that the identifier names, or the first one.
Expected(schema) == IF schema.version = "" THEN "1.0.0" ELSE schema.version

CountSchemas(suite) ==
    LET good == {name \in DOMAIN suite : SchemaOk(suite[name])}
    IN  Tally(good, DOMAIN suite \ good)

Versioned(suite) == DOMAIN suite \ {"component-config"}

\* component-config has no version: it is counted as passed and not as a test.
CountVersions(suite) ==
    LET good == {name \in Versioned(suite) : suite[name].const = Expected(suite[name])}
    IN  Plus(Tally(good, Versioned(suite) \ good),
             [total |-> 0, passed |-> Cardinality(DOMAIN suite \cap {"component-config"}), failed |-> 0])

\* An example of a schema that was not added fails, whatever is expected of it.
ExampleOk(schema, example) == SchemaOk(schema) /\ example.accepted = example.expected

\* The examples and the counter-examples, each with the name of its schema.
Examples(suite) == UNION {{name} \X suite[name].examples : name \in DOMAIN suite}

CountExamples(suite) ==
    LET good == {p \in Examples(suite) : ExampleOk(suite[p[1]], p[2])}
    IN  Tally(good, Examples(suite) \ good)

\* The second part takes the identifier of every schema for granted: without one
\* the script ends with an error.
RunSchemaScript(suite) ==
    LET counts == Plus(CountSchemas(suite), Plus(CountVersions(suite), CountExamples(suite)))
        throws == \E name \in Versioned(suite) : ~ suite[name].id
    IN  [exit |-> IF throws \/ counts.failed > 0 THEN 1 ELSE 0, counts |-> counts]

-------------------------------------------------------------------------------

Init == subject \in Subjects /\ outcome = Pending

Result(kind, result) ==
    /\ outcome = Pending /\ subject.kind = kind
    /\ outcome' = [done |-> TRUE, verdict |-> result]
    /\ UNCHANGED subject

Next ==
    \/ Result("workflow", ValidateDAG(subject.steps))
    \/ Result("fsm", ValidateFsm(subject))
    \/ Result("catalogue", [starts |-> Starts(subject.files), passes |-> ScriptPasses(subject.files)])
    \/ Result("schemas", RunSchemaScript(subject.suite))

Spec == Init /\ [][Next]_definitionVars

-------------------------------------------------------------------------------
(* Properties *)

Has(kind) == outcome.done /\ subject.kind = kind

\* Steps of which each waits for another one of them: none can ever begin.
Waiting(steps, ids) ==
    \A id \in ids : \E i \in DOMAIN steps : steps[i].id = id /\ Range(steps[i].dependsOn) \cap ids # {}

\* A workflow is accepted exactly if its steps have names of their own, depend
\* on steps there are, and can all be executed; the order that comes with it
\* has every step once, behind all it depends on.  A cycle is reported with all
\* the steps that can never begin (validateDAG, kahnTopologicalSort; the
\* executor starts a run on this verdict).
WorkflowVerdict ==
    Has("workflow") =>
        LET steps == subject.steps
            named == Cardinality(IdSet(steps)) = Len(steps) /\ \A s \in Range(steps) : Range(s.dependsOn) \subseteq IdSet(steps)
            stuck == UNION {ids \in SUBSET IdSet(steps) : Waiting(steps, ids)}
        IN  /\ outcome.verdict.valid <=> steps # <<>> /\ named /\ stuck = {}
            /\ outcome.verdict.valid =>
                   /\ Range(outcome.verdict.sorted) = IdSet(steps) /\ Len(outcome.verdict.sorted) = Len(steps)
                   /\ \A i, j \in DOMAIN outcome.verdict.sorted, s \in Range(steps) :
                          outcome.verdict.sorted[i] = s.id /\ outcome.verdict.sorted[j] \in Range(s.dependsOn) => j < i
            /\ ~ outcome.verdict.valid =>
                   \A e \in outcome.verdict.errors : e.code = "WF_CYCLE" => e.steps = stuck

\* A machine is accepted exactly if it cannot leave its states, needs no
\* conditions, and no set of states without the initial one is closed to the
\* others (fsm-validator: its search and its four kinds of errors).
FsmVerdict ==
    Has("fsm") =>
        LET names == DOMAIN subject.states
            Enters(set) == \E s \in names \ set : \E t \in subject.states[s].on : t.target \in set
        IN  outcome.verdict.valid <=>
                /\ subject.initial \in names \ {""}
                /\ \A s \in names : \A t \in subject.states[s].on : t.target \in names /\ ~ t.cond
                /\ \A set \in SUBSET (names \ {subject.initial}) : set # {} => Enters(set)

\* What the script lets pass lets the application start, and the other way
\* round, as far as both look: files in the directories of modules and fusions
\* themselves (the two copies of the validation).
ScriptAgreesWithStart ==
    Has("catalogue") =>
        ((\A file \in subject.files : file.top \in {"modules", "fusions"} /\ file.path = {file.top})
            => outcome.verdict.starts = outcome.verdict.passes)

\* The check of the schemas is green exactly if every schema is sound and
\* carries the version it is named for, and every example fares as its name
\* says; what it counts as failed is never hidden by an early exit.
GreenMeansChecked ==
    Has("schemas") =>
        ((outcome.verdict.exit = 0) <=>
            \A name \in DOMAIN subject.suite :
                LET schema == subject.suite[name]
                IN  /\ SchemaOk(schema)
                    /\ name # "component-config" => schema.const = schema.version
                    /\ \A e \in schema.examples : e.accepted = e.expected)

\* The two validators say of a workflow and of a machine what there is to say.
VerdictsAreRight == WorkflowVerdict /\ FsmVerdict

\* The two scripts of the continuous integration mean what they print.
ScriptsAreRight == ScriptAgreesWithStart /\ GreenMeansChecked

===============================================================================
