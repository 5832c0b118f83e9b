--------------------------------- MODULE Flow ---------------------------------
(***************************************************************************)
(* The flow engine (engines/flow): compilation of a list of steps to       *)
(* adjacency lists, execution, delays and their resumption by a job,       *)
(* webhooks with retries.                                                  *)
(*                                                                         *)
(* A node carries two lists of steps under names that depend on its type   *)
(* (then and else, on_approved and on_rejected, on_success and on_error,   *)
(* steps); here they are `first` and `second` of every type.  executeStep  *)
(* calls itself and goes on after the call; `agenda` is what its pending   *)
(* calls have still to do, the innermost first.  Every loop iteration has  *)
(* a set of visited steps of its own: scopes[1] is the flow's, the others  *)
(* belong to the iterations.  Left out: messages, templates, headers.      *)
(*                                                                         *)
(* Flows must not hold a loop that its own steps lead back to: every one   *)
(* of its iterations would begin with nothing visited and go through the   *)
(* loop again, for ever.  Nothing in the compiler excludes them.           *)
(***************************************************************************)
EXTENDS Integers, Sequences, FiniteSets, Functions, Filters

CONSTANTS
    Flows,          \* the flows that may be executed: sequences of nodes, their ids positive
    Collections,    \* what the data may hold under the name a loop goes over
    Values,         \* what it may hold in the field that conditions look at
    MaxAttempts     \* MAX_RETRIES of a webhook

Undefined == -1     \* the value of a field that is not set
Whole == 0          \* where a step's id would name a loop: the flow itself

\* A node, and the types that dispatchStep and executeStep tell apart.
StepTypes == {"condition", "delay", "approval", "notify", "loop", "assign", "webhook", "end", "unknown"}
FlowStepNode ==
    [id : Nat \ {Whole}, type : StepTypes, first : Seq(Nat), second : Seq(Nat),
     cond : [op : {"none", "!=", "==", ">", "<", ">=", "<="}, value : Values], as : BOOLEAN, value : Nat]

VARIABLES
    ast,        \* the nodes
    agenda,     \* the calls and loop iterations that are pending
    scopes,     \* of each scope: whose steps it runs, and which it has visited
    results,    \* what each executed step came to
    field,      \* the field of context.data that conditions and loops use
    items,      \* the array a loop goes over, in a set; {} when it is none
    delays,     \* the table flow_pending_delays: the steps of its rows
    jobs,       \* the rows the job has read and goes through
    attempt     \* failed attempts of the webhook under way

vars == <<ast, agenda, scopes, results, field, items, delays, jobs, attempt>>

-------------------------------------------------------------------------------
(* Compilation *)

\* Mutant: a condition leads to what it would lead to if it did not hold.
AdjacencySwapped(node) ==
    CASE node.type \in {"condition", "approval", "webhook"} -> [onSuccess |-> node.second, onFailure |-> node.first]
      [] node.type = "loop"                                 -> [onSuccess |-> node.first, onFailure |-> <<>>]
      [] OTHER                                              -> [onSuccess |-> <<>>, onFailure |-> <<>>]

\* buildAdjacency: a delay, a notification, an assignment have no successors.
Adjacency(node) ==
    CASE node.type \in {"condition", "approval", "webhook"} -> [onSuccess |-> node.first, onFailure |-> node.second]
      [] node.type = "loop"                                 -> [onSuccess |-> node.first, onFailure |-> <<>>]
      [] OTHER                                              -> [onSuccess |-> <<>>, onFailure |-> <<>>]

Nodes(flow) == Range(flow)
Ids(flow) == {node.id : node \in Nodes(flow)}
Node(flow, id) == CHOOSE node \in Nodes(flow) : node.id = id
Body(node) == Range(Adjacency(node).onSuccess)
Leads(node) == Range(Adjacency(node).onSuccess) \cup Range(Adjacency(node).onFailure)

Named(flow) == Ids(flow) \cup UNION {Leads(node) : node \in Nodes(flow)}

\* findEntrySteps: the steps that no list names, in the order of the flow.
Incoming(flow) == UNION {Leads(node) : node \in Nodes(flow)}
EntrySteps(flow) ==
    LET entries == Among(flow, {node \in Nodes(flow) : node.id \notin Incoming(flow)})
    IN  [i \in DOMAIN entries |-> entries[i].id]

-------------------------------------------------------------------------------
(* Conditions *)

\* The pattern tries '>' before '>=': of ">= 1" it leaves "= 1" as the value,
\* which is not a number.  What is not defined is not a number either.
Holds(cond) ==
    CASE cond.op = "none" -> TRUE
      [] cond.op = "!="   -> field # cond.value
      [] cond.op = "=="   -> field = cond.value
      [] cond.op = ">"    -> field # Undefined /\ field > cond.value
      [] cond.op = "<"    -> field # Undefined /\ field < cond.value
      [] OTHER            -> FALSE

-------------------------------------------------------------------------------
(* Execution *)

Call(id, scope) == [do |-> "step", id |-> id, scope |-> scope]
Calls(ids, scope) == [i \in DOMAIN ids |-> Call(ids[i], scope)]

\* What is left of a loop: its items from index on.
Items(id, scope, index) == [do |-> "items", id |-> id, scope |-> scope, index |-> index]

Pending == [do : {"step"}, id : Nat, scope : Nat] \cup [do : {"items"}, id : Nat, scope : Nat, index : Nat \ {0}]

TypeOK ==
    /\ ast \in Seq(FlowStepNode)
    /\ agenda \in Seq(Pending)
    /\ scopes \in Seq([of : Nat, visited : SUBSET Named(ast)])
    /\ results \in Seq([id : Nat, scope : Nat, status : {"success", "failure", "error"}, met : BOOLEAN])
    /\ \A s \in DOMAIN scopes : s = 1 <=> scopes[s].of = Whole
    /\ \A i \in DOMAIN agenda : agenda[i].scope \in DOMAIN scopes
    /\ field \in Int /\ items \in Collections
    /\ delays \cup jobs \subseteq Ids(ast) \X DOMAIN scopes
    /\ attempt \in 0 .. MaxAttempts - 1

Init ==
    /\ ast \in Flows
    /\ agenda = Calls(EntrySteps(ast), 1)
    /\ scopes = <<[of |-> Whole, visited |-> {}]>>
    /\ results = <<>>
    /\ field \in Values
    /\ items \in Collections
    /\ delays = {} /\ jobs = {}
    /\ attempt = 0

Now == Head(agenda)
Current == Node(ast, Now.id)
Doing(type) ==
    /\ agenda # <<>> /\ Now.do = "step"
    /\ Now.id \notin scopes[Now.scope].visited
    /\ Now.id \in Ids(ast) /\ Node(ast, Now.id).type = type
Visit(ids) == [scopes EXCEPT ![Now.scope].visited = @ \cup ids]
Enter == scopes' = Visit({Now.id})
\* The output of a condition says whether it held.
Record(status) ==
    results' = Append(results, [id |-> Now.id, scope |-> Now.scope, status |-> status,
                                met |-> Now.id \in Ids(ast) => Holds(Current.cond)])
Follow(ids) == agenda' = Calls(ids, Now.scope) \o Tail(agenda)

\* A step that the scope has visited is not executed again.
Skip ==
    /\ agenda # <<>> /\ Now.do = "step" /\ Now.id \in scopes[Now.scope].visited
    /\ agenda' = Tail(agenda)
    /\ UNCHANGED <<ast, scopes, results, field, items, delays, jobs, attempt>>

\* A name that no step has is recorded as an error; the flow goes on.
Unknown ==
    /\ agenda # <<>> /\ Now.do = "step"
    /\ Now.id \notin scopes[Now.scope].visited /\ Now.id \notin Ids(ast)
    /\ Enter /\ Record("error")
    /\ Follow(<<>>)
    /\ UNCHANGED <<ast, field, items, delays, jobs, attempt>>

Condition ==
    /\ Doing("condition")
    /\ Enter /\ Record("success")
    /\ Follow(IF Holds(Current.cond) THEN Adjacency(Current).onSuccess ELSE Adjacency(Current).onFailure)
    /\ UNCHANGED <<ast, field, items, delays, jobs, attempt>>

\* An approval is logged and counts as given.  Of the other types here none
\* has successors.
Simple ==
    /\ \E type \in {"approval", "notify", "end", "unknown"} : Doing(type)
    /\ Enter /\ Record("success")
    /\ Follow(Adjacency(Current).onSuccess)
    /\ UNCHANGED <<ast, field, items, delays, jobs, attempt>>

Assign ==
    /\ Doing("assign")
    /\ Enter /\ Record("success")
    /\ field' = Current.value
    /\ Follow(Adjacency(Current).onSuccess)
    /\ UNCHANGED <<ast, items, delays, jobs, attempt>>

\* The row is saved, or the database fails and the step is an error; without a
\* duration there is nothing to wait for.  The flow does not go on from here.
Delay ==
    /\ Doing("delay")
    /\ Enter
    /\ \/ Current.value > 0 /\ Record("success") /\ delays' = delays \cup {<<Now.id, Now.scope>>}
       \/ Current.value > 0 /\ Record("error") /\ UNCHANGED delays
       \/ Current.value = 0 /\ Record("success") /\ UNCHANGED delays
    /\ Follow(<<>>)
    /\ UNCHANGED <<ast, field, items, jobs, attempt>>

\* One attempt: an answer that is final, or one that is tried again as long as
\* attempts are left (429, 5xx, a lost connection, an abort after the timeout).
\* A request that was aborted may have been carried out.
Answered(status, branch) ==
    /\ Enter /\ Record(status) /\ Follow(branch)
    /\ attempt' = 0

\* Mutant: the attempts are counted from the start again.
WebhookNeverTires ==
    /\ Doing("webhook")
    /\ \/ Answered("success", Adjacency(Current).onSuccess)
       \/ attempt' = (attempt + 1) % MaxAttempts /\ UNCHANGED <<agenda, scopes, results>>
    /\ UNCHANGED <<ast, field, items, delays, jobs>>

Webhook ==
    /\ Doing("webhook")
    /\ \/ Answered("success", Adjacency(Current).onSuccess)
       \/ Answered("failure", Adjacency(Current).onFailure)
       \/ /\ attempt + 1 < MaxAttempts
          /\ attempt' = attempt + 1
          /\ UNCHANGED <<agenda, scopes, results>>
    /\ UNCHANGED <<ast, field, items, delays, jobs>>

-------------------------------------------------------------------------------
(* Loops *)

Array == CHOOSE array \in items : TRUE

\* A loop over an array goes through it; over anything else it fails.
Loop ==
    /\ Doing("loop")
    /\ \/ /\ items = {}
          /\ Record("failure")
          /\ scopes' = Visit({Now.id} \cup Body(Current))
          /\ Follow(<<>>)
       \/ /\ items # {}
          /\ agenda' = <<Items(Now.id, Now.scope, 1)>> \o Tail(agenda)
          /\ Enter
          /\ UNCHANGED results
    /\ UNCHANGED <<ast, field, items, delays, jobs, attempt>>

\* The item is put under the loop's variable, and the loop's steps are executed
\* in a scope of their own.
NextItem ==
    /\ agenda # <<>> /\ Now.do = "items" /\ Now.index <= Len(Array)
    /\ field' = IF Current.as THEN Array[Now.index] ELSE field
    /\ scopes' = Append(scopes, [of |-> Now.id, visited |-> {}])
    /\ agenda' = Calls(Adjacency(Current).onSuccess, Len(scopes) + 1)
                     \o <<Items(Now.id, Now.scope, Now.index + 1)>> \o Tail(agenda)
    /\ UNCHANGED <<ast, results, items, delays, jobs, attempt>>

\* After the last item the variable is deleted, and the loop's steps count as
\* visited where the loop was.
Leave ==
    /\ agenda # <<>> /\ Now.do = "items" /\ Now.index > Len(Array)
    /\ field' = IF Current.as THEN Undefined ELSE field
    /\ Record("success")
    /\ scopes' = Visit(Body(Current))
    /\ agenda' = Tail(agenda)
    /\ UNCHANGED <<ast, items, delays, jobs, attempt>>

-------------------------------------------------------------------------------
(* The job that resumes delays *)

\* A tick of the job reads the rows that are due, on any node, whether or not
\* an earlier tick is still at work.
ReadDue ==
    /\ \E due \in SUBSET delays : due # {} /\ jobs' = jobs \cup due
    /\ UNCHANGED <<ast, agenda, scopes, results, field, items, delays, attempt>>

\* resumeOne: a compiled delay has no successors, so that its row is deleted;
\* the DELETE may fail and leave the row to a later tick.
ResumeOne ==
    /\ \E row \in jobs :
          /\ jobs' = jobs \ {row}
          /\ delays' \in {delays, delays \ {row}}
    /\ UNCHANGED <<ast, agenda, scopes, results, field, items, attempt>>

Execute == Skip \/ Unknown \/ Condition \/ Simple \/ Assign \/ Delay \/ Webhook \/ Loop \/ NextItem \/ Leave

Next == Execute \/ ReadDue \/ ResumeOne

Spec == Init /\ [][Next]_vars /\ WF_vars(Execute)

-------------------------------------------------------------------------------
(* Properties *)

\* What a result leads to, in the words of the flow itself.
Branch(result) ==
    IF result.id \notin Ids(ast) \/ result.status = "error" THEN {}
    ELSE LET node == Node(ast, result.id)
         IN  CASE node.type = "condition" -> Range(IF result.met THEN node.first ELSE node.second)
               [] node.type \in {"approval", "webhook"} ->
                      Range(IF result.status = "success" THEN node.first ELSE node.second)
               [] OTHER -> {}

Roots(scope) ==
    IF scopes[scope].of = Whole THEN Range(EntrySteps(ast)) ELSE Range(Node(ast, scopes[scope].of).first)

ResultsIn(scope) == {result \in Range(results) : result.scope = scope}
Ran(scope) == {result.id : result \in ResultsIn(scope)}

\* Nothing runs without a reason, and nothing twice in a pass: a result belongs
\* to a step that the flow or the iteration begins with, or that an earlier
\* result of the pass leads to by the branch that its outcome calls for
\* (executeStep, visited).
Explained ==
    \A i \in DOMAIN results :
        LET earlier == {results[j] : j \in {k \in 1 .. i - 1 : results[k].scope = results[i].scope}}
        IN  /\ results[i].id \in Roots(results[i].scope) \cup UNION {Branch(r) : r \in earlier}
            /\ \A r \in earlier : r.id # results[i].id

\* Nothing that is due is left out: when the flow ends, in every pass the steps
\* it begins with and those its results lead to have a result; the steps of a
\* loop of the pass have theirs in its iterations.
Complete ==
    agenda = <<>> =>
        \A s \in DOMAIN scopes :
            LET loops == {id \in Ran(s) \cap Ids(ast) : Node(ast, id).type = "loop"}
            IN  Roots(s) \cup UNION {Branch(r) : r \in ResultsIn(s)}
                    \subseteq Ran(s) \cup UNION {Range(Node(ast, l).first) : l \in loops}

\* What a flow has done is what it had to do: its results have a reason, in
\* every pass, and nothing that is due lacks one.
ResultsAreExplained == Explained /\ Complete

\* Every flow comes to an end, cycles and webhooks that fail included: a pass
\* visits a step once and a webhook has a bounded number of attempts.
Ends == <>(agenda = <<>>)

===============================================================================
