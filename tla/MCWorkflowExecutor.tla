-------------------------- MODULE MCWorkflowExecutor --------------------------
(* Definitions of workflows for TLC. *)
EXTENDS WorkflowExecutor

Plain(order, deps, kind) ==
    [order |-> order, deps |-> deps, kind |-> kind, guarded |-> {},
     branch |-> [s \in Range(order) |-> NoBranch]]

\* All acyclic graphs of three steps (declared in an order that is not
\* topological) whose steps are actions or conditions, with any branch.
ThreeSteps ==
    LET ids == {1, 2, 3}
        Deps == {d \in [ids -> SUBSET ids] : \A s \in ids : \A k \in d[s] : k < s}
        Kinds == [ids -> {"action", "condition"}]
    IN  {w \in [order : {<<3, 1, 2>>}, deps : Deps, kind : Kinds, guarded : SUBSET {1, 2},
                branch : {[s \in ids |-> IF s = 1 THEN b ELSE NoBranch] :
                              b \in {NoBranch, <<2, 3>>, <<3, 2>>}}] :
            w.branch[1] # NoBranch => w.kind[1] = "condition"}

\* A condition with two branches that join, one of them of two steps, and a
\* step beside them: 1 -> (2 -> 3 | 4) -> 5, and 6 -> 5.
Diamond ==
    [order |-> <<1, 2, 3, 4, 5, 6>>,
     deps |-> <<{}, {1}, {2}, {1}, {3, 4, 6}, {}>>,
     kind |-> <<"condition", "action", "action", "action", "action", "action">>,
     guarded |-> {1, 6},
     branch |-> <<<<2, 4>>, NoBranch, NoBranch, NoBranch, NoBranch, NoBranch>>]

\* A branch inside a branch that is not taken: 1 -> 2 | 3, 2 -> 4 | 5, and 6
\* joins 3, 4 and 5.
Nested ==
    [order |-> <<1, 2, 3, 4, 5, 6>>,
     deps |-> <<{}, {1}, {1}, {2}, {2}, {3, 4, 5}>>,
     kind |-> <<"condition", "condition", "action", "action", "notification", "action">>,
     guarded |-> {1, 2},
     branch |-> <<<<2, 3>>, <<4, 5>>, NoBranch, NoBranch, NoBranch, NoBranch>>]

Branching == ThreeSteps \cup {Diamond, Nested}

\* Approvals: alone at the end of a chain, and next to another step.
WithApproval ==
    { Plain(<<1, 2, 3>>, <<{}, {1}, {2}>>, <<"action", "approval", "action">>),
      Plain(<<1, 2, 3>>, <<{}, {}, {1, 2}>>, <<"action", "approval", "action">>),
      Plain(<<1, 2, 3>>, <<{}, {}, {}>>, <<"approval", "action", "approval">>) }

\* The branch 2 does not depend on its condition 1, and 4 waits for 2 and 3.
Loose ==
    { [order |-> <<1, 2, 3, 4>>,
       deps |-> <<{}, {}, {1}, {2, 3}>>,
       kind |-> <<"condition", "action", "action", "action">>,
       guarded |-> {1},
       branch |-> <<<<2, 3>>, NoBranch, NoBranch, NoBranch>>] }

All == Branching \cup Loose \cup WithApproval
===============================================================================
