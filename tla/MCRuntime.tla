------------------------------- MODULE MCRuntime -------------------------------
(***************************************************************************)
(* What runs: workflows, flows, the generator with its conversations, the   *)
(* migrations, and the validation of the definitions.  The steps of one of  *)
(* them are taken, the others stay as they began.  MCEngines adds layouts   *)
(* and formulas, and the constants.                                         *)
(***************************************************************************)
EXTENDS MCWorkflowExecutor, Integers

CONSTANTS
    Flows, Collections, Values,     \* Flow
    Subjects,                       \* Definitions
    Talks, Surfaces, Sizes, Says, Nothing, Window, Nominal, Reserve, PromptSize, AnswerSize, MaxRetries

VARIABLES
    part,       \* whose steps are taken
    ast, agenda, scopes, results, field, items, delays, jobs, attempt,
    applied, schema, before,
    store, talks, said,
    subject, outcome

FlowEngine == INSTANCE Flow
Database == INSTANCE Migrations
Chat == INSTANCE Mind
Checked == INSTANCE Definitions

ASSUME FlowsAssumption ==
    /\ \A flow \in Flows : flow \in Seq(FlowEngine!FlowStepNode)
    /\ Values \subseteq Int
    /\ \A collection \in Collections : collection \subseteq Seq(Int)

ASSUME TalksAssumption ==
    /\ Nothing \notin Says
    /\ Sizes \subseteq Nat /\ PromptSize \in Nat /\ AnswerSize \in Nat
    /\ Window \in Nat /\ Nominal \in Nat /\ Reserve \in Nat /\ MaxRetries \in Nat

IsSequence(s) == s \in Seq(Range(s))

\* What is written down is finite.
ASSUME SubjectsAssumption ==
    \A s \in Subjects :
        /\ s.kind = "workflow" =>
               IsSequence(s.steps) /\ \A i \in DOMAIN s.steps : IsSequence(s.steps[i].dependsOn)
        /\ s.kind = "fsm" => IsFiniteSet(DOMAIN s.states)
        /\ s.kind = "schemas" =>
               IsFiniteSet(DOMAIN s.suite) /\ \A name \in DOMAIN s.suite : IsFiniteSet(s.suite[name].examples)

flowVars == <<ast, agenda, scopes, results, field, items, delays, jobs, attempt>>
migrationVars == <<applied, schema, before>>
mindVars == <<store, talks, said>>
definitionVars == <<subject, outcome>>
runtimeVars == <<part, vars, flowVars, migrationVars, mindVars, definitionVars>>

\* What the executor, the flow engine and the validators hold when it is not
\* their turn.
IdleExecutor == wf = Diamond /\ Init
IdleFlow ==
    /\ ast = <<>> /\ agenda = <<>> /\ scopes = <<>> /\ results = <<>> /\ field = 0 /\ items = {}
    /\ delays = {} /\ jobs = {} /\ attempt = 0
IdleDefinitions == subject = Nothing /\ outcome = Nothing

RuntimeInit ==
    /\ Database!Init /\ Chat!MindInit
    /\ IF part = "executor" THEN Init ELSE IdleExecutor
    /\ IF part = "flow" THEN FlowEngine!Init ELSE IdleFlow
    /\ IF part = "definitions" THEN Checked!Init ELSE IdleDefinitions

ExecutorTurn == part = "executor" /\ UNCHANGED <<part, flowVars, migrationVars, mindVars, definitionVars>>
FlowTurn == part = "flow" /\ UNCHANGED <<part, vars, migrationVars, mindVars, definitionVars>>
MigrationsTurn == part = "migrations" /\ UNCHANGED <<part, vars, flowVars, mindVars, definitionVars>>
MindTurn == part = "mind" /\ UNCHANGED <<part, vars, flowVars, migrationVars, definitionVars>>
DefinitionsTurn == part = "definitions" /\ UNCHANGED <<part, vars, flowVars, migrationVars, mindVars>>

RuntimeNext ==
    \/ ExecutorTurn /\ Next
    \/ FlowTurn /\ FlowEngine!Next
    \/ MigrationsTurn /\ Database!Next
    \/ MindTurn /\ Chat!MindNext
    \/ DefinitionsTurn /\ Checked!Next

RuntimeSpec == RuntimeInit /\ [][RuntimeNext]_runtimeVars

-------------------------------------------------------------------------------
(* What the run checks *)

\* Everything that runs keeps its variables in their types.
TypesOK ==
    CASE part = "executor" -> TypeOK
      [] part = "flow" -> FlowEngine!TypeOK
      [] part = "migrations" -> Database!TypeOK
      [] part = "mind" -> Chat!TypeOK
      [] OTHER -> TRUE

ResultsAreExplained == part = "flow" => FlowEngine!ResultsAreExplained
ConfinedRole == part = "migrations" => Database!ConfinedRole
RevertRestores == Database!RevertRestores
NoHoles == part = "mind" => Chat!NoHoles
VerdictsAreRight == part = "definitions" => Checked!VerdictsAreRight
ScriptsAreRight == part = "definitions" => Checked!ScriptsAreRight
OnlyValidIsShown == part = "mind" => Chat!OnlyValidIsShown

===============================================================================
