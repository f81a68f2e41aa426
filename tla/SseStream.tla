----------------------------- MODULE SseStream ------------------------------
(***************************************************************************)
(* SSEChatService.stream_chat: one event stream.  The graph's labels and   *)
(* its update are turned into the events that drive the chat page.  Each   *)
(* event has a place of its own on the page (chat_request.html): a status  *)
(* and an active step replace what their slots hold, a completed step is   *)
(* added to the list, and on "done" the page closes the stream.            *)
(*                                                                         *)
(* A label stands for its text, AgentOf for the agent it is shown under.   *)
(* Of a text the graph returns only this matters: is there any, and is     *)
(* anything left of it when generic marketing sentences are cut.           *)
(***************************************************************************)
EXTENDS Integers, SequencesExt

CONSTANTS
  Label,      \* progress texts the agents emit
  AgentOf,    \* the agent a label is shown under
  MaxLabels,  \* bound: labels emitted in one stream
  MaxUpdates  \* bound: how often the graph delivers its update

ASSUME BoundsAssumption == MaxLabels \in Nat /\ MaxUpdates \in Nat \ {0}

VARIABLES
  pc,          \* progress of stream_chat; "done" has sent the event of that name
  emitted,     \* emitted_labels
  activities,  \* agent_activities
  answers,     \* emitted_answers
  finalized,   \* is the message in finalized_workflows?
  status,      \* ChatStatus: the label or the state shown last
  completed,   \* ChatCompletedStep: the list of completed steps
  active,      \* ChatActiveStep: the activity in the active slot
  final,       \* ChatFinal: the answers sent
  said,        \* the text the graph has returned
  told,        \* labels and updates delivered so far
  failed       \* how the run failed

page == <<status, completed, active, final>>
memo == <<emitted, activities, answers, finalized>>
vars == <<pc, memo, page, said, told, failed>>

\* "puff" is a text of which nothing is left, "blank" one without a word.
Text == {"answer", "question", "puff", "blank"}

Activity(a, ls) == [agent |-> a, labels |-> ls]

\* The empty slot.
Idle == Activity("none", <<>>)

Init ==
  /\ pc = "idle" /\ emitted = {} /\ activities = <<>> /\ answers = {}
  /\ finalized = FALSE /\ said = "none" /\ failed = "none"
  /\ status = "starting" /\ completed = <<>> /\ active = Idle /\ final = <<>>
  /\ told = [labels |-> 0, updates |-> 0]

-----------------------------------------------------------------------------
(* The events.                                                             *)

BugMergeAnywhere(as, l) ==
  IF \E i \in DOMAIN as : as[i].agent = AgentOf[l]
  THEN LET i == CHOOSE i \in DOMAIN as : as[i].agent = AgentOf[l]
       IN  [as EXCEPT ![i].labels = Append(@, l)]
  ELSE Append(as, Activity(AgentOf[l], <<l>>))

BugReplaceDetail(as, l) ==
  IF as # <<>> /\ Last(as).agent = AgentOf[l]
  THEN [as EXCEPT ![Len(as)].labels = <<l>>]
  ELSE Append(as, Activity(AgentOf[l], <<l>>))

\* A label of the agent at work is a detail of its activity.
AppendActivity(as, l) ==
  IF as # <<>> /\ Last(as).agent = AgentOf[l]
  THEN [as EXCEPT ![Len(as)].labels = Append(@, l)]
  ELSE Append(as, Activity(AgentOf[l], <<l>>))

\* The list with the latest of the activities as completed.
Complete(as) ==
  IF as = <<>> THEN completed
  ELSE Append(completed, [step |-> Len(as), activity |-> Last(as)])

BugActiveWhenStarted(l, as) ==
  LET started == Len(as) > Len(activities) IN
  /\ status'    = l
  /\ completed' = IF started THEN Complete(activities) ELSE completed
  /\ active'    = IF started THEN Last(as) ELSE active
  /\ UNCHANGED final

\* The events of a new label, after which the activities are as.
ActivityEvents(l, as) ==
  /\ status'    = l
  /\ completed' = IF Len(as) > Len(activities) THEN Complete(activities) ELSE completed
  /\ active'    = Last(as)
  /\ UNCHANGED final

BugKeepActive ==
  IF finalized
  THEN UNCHANGED <<status, completed, active>>
  ELSE status' = "complete" /\ completed' = Complete(activities) /\ UNCHANGED active

\* _finalize_workflow_events
FinalizeEvents ==
  IF finalized
  THEN UNCHANGED <<status, completed, active>>
  ELSE status' = "complete" /\ completed' = Complete(activities) /\ active' = Idle

-----------------------------------------------------------------------------
(* stream_chat.                                                            *)

Open ==
  /\ pc = "idle"
  /\ pc' = "reading"
  /\ UNCHANGED <<memo, page, said, told, failed>>

\* build_graph_input has read the thread's checkpoint, or the read has raised:
\* it is awaited outside of the try, so the stream breaks without an event.
Start ==
  /\ pc = "reading"
  /\ pc' \in {"streaming", "broken"}
  /\ UNCHANGED <<memo, page, said, told, failed>>

\* A "custom" item: the single node reports its progress before its update.
Progress(l) ==
  /\ pc = "streaming"
  /\ told.updates = 0 /\ told.labels < MaxLabels
  /\ told' = [told EXCEPT !.labels = @ + 1]
  /\ IF l \in emitted
     THEN UNCHANGED <<emitted, activities, page>>
     ELSE /\ emitted'    = emitted \union {l}
          /\ activities' = AppendActivity(activities, l)
          /\ ActivityEvents(l, AppendActivity(activities, l))
  /\ UNCHANGED <<pc, answers, finalized, said, failed>>

Stripped(t) == IF t = "puff" THEN "empty" ELSE t

ShowNew(a) ==
  /\ answers'   = answers \union {a}
  /\ finalized' = TRUE
  /\ FinalizeEvents
  /\ final'     = Append(final, a)

BugAnswerAgain(t) ==
  IF t = "blank" THEN UNCHANGED <<answers, finalized, page>> ELSE ShowNew(Stripped(t))

\* A text is shown once; the steps are completed before it.
ShowText(t) ==
  IF t = "blank" \/ Stripped(t) \in answers
  THEN UNCHANGED <<answers, finalized, page>>
  ELSE ShowNew(Stripped(t))

\* An "updates" item: the answer of the node or the question it pauses with;
\* delivered again, it is the same.
Update(t) ==
  /\ pc = "streaming"
  /\ told.updates < MaxUpdates
  /\ said \in {"none", t}
  /\ told' = [told EXCEPT !.updates = @ + 1]
  /\ said' = t
  /\ ShowText(t)
  /\ UNCHANGED <<pc, emitted, activities, failed>>

BugCloseOnAnswer ==
  /\ pc = "streaming" /\ finalized
  /\ pc' = "done"
  /\ UNCHANGED <<memo, page, said, told, failed>>

\* The graph has ended, with an update or, when there was nothing to resume,
\* without one.
Close ==
  /\ pc = "streaming"
  /\ pc' = "done"
  /\ UNCHANGED <<memo, page, said, told, failed>>

\* LLMProviderUnavailableError: its message is shown as the answer.
Unavailable ==
  /\ pc = "streaming" /\ told.updates = 0
  /\ status' = "failed"
  /\ final'  = Append(final, "unavailable")
  /\ failed' = "unavailable"
  /\ pc'     = "done"
  /\ UNCHANGED <<memo, completed, active, said, told>>

\* Any other exception, that of saving the checkpoint after the update included.
Fail ==
  /\ pc = "streaming"
  /\ status' = "failed"
  /\ failed' = "error"
  /\ pc'     = "done"
  /\ UNCHANGED <<memo, completed, active, final, said, told>>

\* The browser goes away: the generator is cancelled where it stands.
Cancel ==
  /\ pc \in {"reading", "streaming"}
  /\ pc' = "gone"
  /\ UNCHANGED <<memo, page, said, told, failed>>

Serve ==
  \/ Start
  \/ \E l \in Label : Progress(l)
  \/ \E t \in Text : Update(t)
  \/ Close

Next == Open \/ Serve \/ Unavailable \/ Fail \/ Cancel

\* The event loop runs the generator on and the graph's run ends (Terminates of
\* module Supervisor); no failure is needed for it.
Spec == Init /\ [][Next]_vars /\ WF_vars(Serve)

-----------------------------------------------------------------------------
(* Properties.                                                             *)

Activities == [agent : {AgentOf[l] : l \in Label}, labels : Seq(Label)]

\* Types: no label is lost from the activities, an answer that was shown has
\* finalized the workflow.
TypeOK ==
  /\ pc \in {"idle", "reading", "streaming", "done", "broken", "gone"}
  /\ emitted \subseteq Label
  /\ activities \in Seq(Activities)
  /\ emitted = UNION {ToSet(activities[i].labels) : i \in DOMAIN activities}
  /\ finalized = (answers # {})
  /\ status \in Label \union {"starting", "complete", "failed"}
  /\ completed \in Seq([step : Nat, activity : Activities])
  /\ active \in Activities \union {Idle}
  /\ final \in Seq({"answer", "question", "empty", "unavailable"})
  /\ told \in [labels : 0 .. MaxLabels, updates : 0 .. MaxUpdates]
  /\ said \in Text \union {"none"}
  /\ failed \in {"none", "unavailable", "error"}

\* The completed steps are numbered without a gap or a repetition, and each
\* shows everything its agent did in that step: no detail arrives later.
StepsAreComplete ==
  \A k \in DOMAIN completed :
    /\ completed[k].step = k /\ k <= Len(activities)
    /\ completed[k].activity = activities[k]

\* While the agents work, the active step is the latest activity with all its
\* details, and every step before it is completed.
ActiveIsLatest ==
  activities # <<>> /\ ~ finalized =>
    /\ active = Last(activities)
    /\ Len(completed) = Len(activities) - 1

\* No step is left running beside the answer.
NoStepRuns == final # <<>> => Len(completed) = Len(activities) /\ active = Idle

\* With an answer or a question of the graph, no step is left running, and the
\* status line says so unless the run failed later.
AnswerEndsSteps ==
  failed # "unavailable" =>
    /\ NoStepRuns
    /\ final # <<>> /\ failed = "none" => status = "complete"

\* The stream shows what the graph returned once, however often it is delivered.
ShownOnce ==
  pc = "done" /\ failed = "none" =>
    final = IF said \in {"none", "blank"} THEN <<>> ELSE <<Stripped(said)>>

\* A stream whose run has been started is closed with "done" whatever fails in it,
\* unless the browser has gone.  A stream whose checkpoint cannot be read breaks
\* before that, without an event.
Closes == pc = "streaming" ~> pc \in {"done", "gone"}

-----------------------------------------------------------------------------
(* Inductive strengthenings, used by the proofs in SseStreamProofs.        *)

\* No label arrives after the update, so what the answer completed stays
\* complete; until then exactly the steps before the active one are.
StepsInv ==
  /\ finalized => told.updates > 0
  /\ Len(activities) = 0 => Len(completed) = 0 /\ active = Idle
  /\ Len(activities) > 0 /\ ~ finalized =>
       /\ active = activities[Len(activities)]
       /\ Len(completed) = Len(activities) - 1
  /\ finalized => Len(completed) = Len(activities) /\ active = Idle
  /\ StepsAreComplete

\* What was returned, what is remembered as shown and what was sent are one text.
AnswerInv ==
  /\ failed # "none" => pc = "done"
  /\ finalized /\ failed = "none" => status = "complete"
  /\ failed # "unavailable" =>
       /\ said \in {"none", "blank"} => Len(final) = 0 /\ answers = {}
       /\ said \notin {"none", "blank"} =>
            final = <<Stripped(said)>> /\ answers = {Stripped(said)}

=============================================================================
