--------------------------------- MODULE Mind ---------------------------------
(***************************************************************************)
(* The generation of screens and flows by a language model: the loop of    *)
(* MindEngineService.generate with its validation and its retries, the     *)
(* conversation that ContextWindowService keeps for a surface, and the     *)
(* callers that turn an answer into messages (AiRelayService), into a      *)
(* screen (A2uiToScreenConfigService) or into steps (FlowController).      *)
(*                                                                         *)
(* What is said is a record with its role, who said it and its size in     *)
(* tokens; the wording is left out.  An answer of the model is a JSON      *)
(* object, a function on the keys that are there: an empty value counts as *)
(* missing, in the code too.  The clients of the models are stubs that     *)
(* return one text each: Says is what is behind them.                      *)
(***************************************************************************)
EXTENDS Integers, Sequences, FiniteSets, SequencesExt, TLC, Filters

CONSTANTS
    Talks,          \* calls of generate
    Surfaces,       \* ids of surfaces; one conversation each
    Sizes,          \* sizes of what a caller asks
    Says,           \* what a model may answer: JSON objects, or Nothing
    Nothing,        \* no text, no model, no caller
    Window,         \* MAX_TOKENS
    Nominal,        \* SYSTEM_PROMPT_TOKENS
    Reserve,        \* RESPONSE_TOKENS
    PromptSize,     \* the size the system prompt has
    AnswerSize,     \* the size of an answer
    MaxRetries      \* MAX_RETRIES

VARIABLES
    store,      \* messages kept for each surface
    talks,      \* where each call of generate stands
    said        \* every message of each surface, in order

mindVars == <<store, talks, said>>

-------------------------------------------------------------------------------
(* Validation *)

Missing(what, object, keys) == {<<what, key>> : key \in keys \ DOMAIN object}
Under(object, key) == IF key \in DOMAIN object THEN object[key] ELSE <<>>
IfThere(object, key, errors) == IF key \in DOMAIN object THEN errors ELSE {}
Unless(condition, error) == IF condition THEN {} ELSE {<<error>>}

RepeatedIds(items) ==
    {<<"duplicate", items[i].id>> : i \in {j \in DOMAIN items : "id" \in DOMAIN items[j] /\
        \E k \in 1 .. j - 1 : "id" \in DOMAIN items[k] /\ items[k].id = items[j].id}}

ComponentErrors(components) ==
    UNION {Missing("component", c, {"id", "component"}) : c \in Range(components)}
    \cup RepeatedIds(components)
    \cup Unless(\E c \in Range(components) : "id" \in DOMAIN c /\ c.id = "root", "root")

\* validateA2uiOutput
A2uiErrors(answer) ==
    LET update == Under(answer, "updateComponents")
    IN  Unless(Under(answer, "version") = "v0.9", "version")
        \cup IfThere(answer, "createSurface", Missing("createSurface", Under(answer, "createSurface"), {"surfaceId", "catalogId"}))
        \cup IfThere(answer, "updateComponents",
                 Missing("updateComponents", update, {"surfaceId", "components"})
                 \cup IfThere(update, "components", ComponentErrors(Under(update, "components"))))
        \cup IfThere(answer, "updateDataModel", Missing("updateDataModel", Under(answer, "updateDataModel"), {"surfaceId"}))

Requires ==
    [flow_meta |-> {"flowId", "name"}, condition |-> {"expression"}, delay |-> {"duration"}, approval |-> {"role"},
     notify |-> {"channel", "to", "template"}, loop |-> {}, assign |-> {}, webhook |-> {"url"}, end |-> {}]

StepErrors(step) ==
    Missing("step", step, {"id", "type"})
    \cup IfThere(step, "type", IF step.type \in DOMAIN Requires THEN Missing(step.type, step, Requires[step.type])
                              ELSE {<<"type", step.type>>})

\* validateFlowAst: without a flow, and without its steps, the rest is not looked at.
FlowErrors(answer) ==
    LET flow == Under(answer, "flow")
        steps == Under(flow, "steps")
        outer == Unless(Under(answer, "version") = "v0.9", "version") \cup Unless(Under(answer, "engine") = "flow", "engine")
        inner == Missing("flow", flow, {"id", "name", "trigger", "steps"})
                 \cup IfThere(flow, "trigger", Missing("trigger", Under(flow, "trigger"), {"type"}))
    IN  IF "flow" \notin DOMAIN answer THEN outer \cup {<<"flow">>}
        ELSE IF "steps" \notin DOMAIN flow THEN outer \cup inner
        ELSE outer \cup inner \cup UNION {StepErrors(step) : step \in Range(steps)} \cup RepeatedIds(steps)
             \cup Unless(\E step \in Range(steps) : Under(step, "type") = "flow_meta", "flow_meta")

\* validateOutput
Errors(answer, engine) == IF engine = "flow" THEN FlowErrors(answer) ELSE A2uiErrors(answer)

-------------------------------------------------------------------------------
(* The conversation *)

Total(messages) == FoldLeft(LAMBDA sum, m : sum + m.size, 0, messages)
Spoken(messages) == Among(messages, {m \in Range(messages) : m.role # "system"})
Summaries(messages) == Among(messages, {m \in Range(messages) : m.role = "system"})
Summary == [role |-> "system", by |-> Nothing, turn |-> 0, size |-> 1]
SystemPrompt == [role |-> "system", by |-> Nothing, turn |-> 0, size |-> PromptSize]

\* Mutant: the first messages are kept and the last ones are summarised.
PrunedBackwards(messages) ==
    LET spoken == Spoken(messages)
        old == (7 * Len(spoken)) \div 10
    IN  IF Total(messages) > Window - Nominal - Reserve /\ old > 1
        THEN Append(Summaries(messages), Summary) \o SubSeq(spoken, 1, Len(spoken) - old) ELSE messages

\* prune: seven of ten messages, the oldest ones, become one summary.
Pruned(messages) ==
    LET spoken == Spoken(messages)
        old == (7 * Len(spoken)) \div 10
    IN  IF Total(messages) > Window - Nominal - Reserve /\ old > 1
        THEN Append(Summaries(messages), Summary) \o SubSeq(spoken, old + 1, Len(spoken)) ELSE messages

\* buildWindow: the messages that fit, from the oldest on; the newest are dropped.
WindowOf(messages) ==
    LET all == <<SystemPrompt>> \o Spoken(Pruned(messages))
        fits == {n \in 2 .. Len(all) : Total(SubSeq(all, 1, n)) + Reserve <= Window} \cup {1}
    IN  SubSeq(all, 1, Max(fits))

-------------------------------------------------------------------------------
(* What callers make of the outcome *)

Degraded(attempt, text) == [degraded |-> TRUE, retries |-> attempt, text |-> text]
Generated(attempt, text) == [degraded |-> FALSE, retries |-> attempt, text |-> text]

Banner == <<[id |-> "root", component |-> "Column"], [id |-> "error-banner", component |-> "AlertBanner"]>>
CreateSurface(surface) == [version |-> "v0.9", createSurface |-> [surfaceId |-> surface, catalogId |-> "scalario-v1"]]
DegradedMessages(surface) ==
    <<CreateSurface(surface), [version |-> "v0.9", updateComponents |-> [surfaceId |-> surface, components |-> Banner]]>>

\* generateScreen with parseLlmOutput: what creates a surface is the relay's own.
RelayMessages(surface, outcome) ==
    LET kept == IF outcome.text = Nothing THEN {} ELSE DOMAIN outcome.text \cap {"updateComponents", "updateDataModel"}
    IN  IF outcome.degraded THEN DegradedMessages(surface)
        ELSE IF kept = {} THEN <<CreateSurface(surface)>>
        ELSE <<CreateSurface(surface), [version |-> "v0.9"] @@ Restrict(outcome.text, kept)>>

\* Mutant: the text counts, and not whether it was valid.
ScreenTextAnyway(outcome) == outcome.text

\* generateScreenConfig, up to the parsing that Screens models.
ScreenText(outcome) == IF outcome.degraded THEN Nothing ELSE outcome.text

\* FlowController.generate
FlowSteps(outcome) == IF outcome.degraded THEN Nothing ELSE outcome.text.flow.steps

Shown(talk, outcome) ==
    CASE talk.via = "relay" -> RelayMessages(talk.surface, outcome)
      [] talk.via = "screen" -> ScreenText(outcome)
      [] talk.via = "flow" -> FlowSteps(outcome)

-------------------------------------------------------------------------------
(* generate *)

\* addMessage, as often as there are messages, and buildWindow when it goes on.
Converse(surface, messages, goesOn) ==
    /\ store' = [store EXCEPT ![surface] = IF goesOn THEN Pruned(@ \o messages) ELSE @ \o messages]
    /\ said' = [said EXCEPT ![surface] = @ \o messages]

Idle == [pc |-> "idle", surface |-> Nothing, via |-> Nothing, attempt |-> 0, prompt |-> <<>>, heard |-> Nothing, shown |-> Nothing]
Engine(talk) == IF talk.via = "flow" THEN "flow" ELSE "ui"

\* One attempt: everything between the addition of a message and the call of the model.
Send(r, talk, messages) ==
    /\ Converse(talk.surface, messages, TRUE)
    /\ talks' = [talks EXCEPT ![r] =
                    [talk EXCEPT !.pc = "asking", !.prompt = WindowOf(store[talk.surface] \o messages)]]

Generate(r, surface, via, size) ==
    /\ talks[r].pc = "idle"
    /\ Send(r, [Idle EXCEPT !.surface = surface, !.via = via],
            <<[role |-> "user", by |-> r, turn |-> Len(said[surface]), size |-> size]>>)

\* complete: a model, or the next one; Nothing when none of them answers.
Complete(text) == text \in Says \cup {Nothing}

Finish(r, outcome) ==
    talks' = [talks EXCEPT ![r].pc = "done", ![r].heard = outcome.text, ![r].shown = Shown(talks[r], outcome)]

NoModel(r) ==
    /\ talks[r].pc = "asking" /\ Complete(Nothing)
    /\ Finish(r, Degraded(talks[r].attempt, Nothing))
    /\ UNCHANGED <<store, said>>

Reply(r) == [role |-> "assistant", by |-> r, turn |-> Len(said[talks[r].surface]), size |-> AnswerSize]
\* buildFeedbackPrompt repeats the answer.
Feedback(r) == [role |-> "user", by |-> r, turn |-> Len(said[talks[r].surface]) + 1, size |-> AnswerSize]

Accept(r, text) ==
    /\ talks[r].pc = "asking" /\ Complete(text) /\ text # Nothing
    /\ Errors(text, Engine(talks[r])) = {}
    /\ Converse(talks[r].surface, <<Reply(r)>>, FALSE)
    /\ Finish(r, Generated(talks[r].attempt, text))

Retry(r, text) ==
    /\ talks[r].pc = "asking" /\ Complete(text) /\ text # Nothing
    /\ Errors(text, Engine(talks[r])) # {} /\ talks[r].attempt < MaxRetries
    /\ Send(r, [talks[r] EXCEPT !.attempt = @ + 1], <<Reply(r), Feedback(r)>>)

GiveUp(r, text) ==
    /\ talks[r].pc = "asking" /\ Complete(text) /\ text # Nothing
    /\ Errors(text, Engine(talks[r])) # {} /\ talks[r].attempt = MaxRetries
    /\ Converse(talks[r].surface, <<Reply(r)>>, FALSE)
    /\ Finish(r, Degraded(talks[r].attempt, text))

MindInit ==
    /\ store = [s \in Surfaces |-> <<>>] /\ said = [s \in Surfaces |-> <<>>]
    /\ talks = [r \in Talks |-> Idle]

MindNext ==
    \E r \in Talks :
        \/ \E s \in Surfaces, via \in {"relay", "screen", "flow"}, size \in Sizes : Generate(r, s, via, size)
        \/ NoModel(r)
        \/ \E text \in Says : Accept(r, text) \/ Retry(r, text) \/ GiveUp(r, text)

\* The call of a model returns or fails.
Hear(r) == NoModel(r) \/ \E text \in Says : Accept(r, text) \/ Retry(r, text) \/ GiveUp(r, text)

MindSpec == MindInit /\ [][MindNext]_mindVars /\ \A r \in Talks : WF_mindVars(Hear(r))

-------------------------------------------------------------------------------

Message(roles) == [role : roles, by : Talks \cup {Nothing}, turn : Nat, size : Nat]

TypeOK ==
    /\ store \in [Surfaces -> Seq(Message({"system", "user", "assistant"}))]
    /\ said \in [Surfaces -> Seq(Message({"user", "assistant"}))]
    /\ \A r \in Talks :
          /\ talks[r].pc \in {"idle", "asking", "done"} /\ talks[r].attempt \in 0 .. MaxRetries
          /\ talks[r].pc # "idle" => talks[r].surface \in Surfaces /\ talks[r].via \in {"relay", "screen", "flow"}
          /\ talks[r].prompt \in Seq(Message({"system", "user", "assistant"}))
          /\ talks[r].heard \in Says \cup {Nothing}

(* The conversation has no holes: what is kept of a surface is the end of  *)
(* what was said, whoever said it, and what a model is sent is the system  *)
(* prompt with an unbroken stretch of the conversation that fits into its  *)
(* window; calls on one surface interleave, prune and shorten all the same. *)
NoHoles ==
    /\ \A s \in Surfaces : IsSuffix(Spoken(store[s]), said[s])
    /\ \A r \in Talks : talks[r].pc = "asking" =>
        LET prompt == talks[r].prompt
            first == prompt[2].turn + 1
        IN  /\ Head(prompt) = SystemPrompt
            /\ Len(prompt) > 1 => /\ Tail(prompt) = SubSeq(said[talks[r].surface], first, first + Len(prompt) - 2)
                                  /\ Total(prompt) + Reserve <= Window

(* What failed its validation is shown to nobody: generate returns the     *)
(* text of its last attempt even when that was refused, and each of its    *)
(* callers has to look at `degraded` first.                                *)
OnlyValidIsShown ==
    \A r \in Talks :
        LET t == talks[r]
        IN  t.pc = "done" /\ t.heard # Nothing /\ Errors(t.heard, Engine(t)) # {} =>
                t.shown = IF t.via = "relay" THEN DegradedMessages(t.surface) ELSE Nothing

(* Every call is answered, whatever the model says each time: the attempts *)
(* are numbered, and the last one is.                                      *)
AllAnswered == \A r \in Talks : talks[r].pc = "asking" ~> talks[r].pc = "done"

===============================================================================
