----------------------------- MODULE Supervisor -----------------------------
(***************************************************************************)
(* GandalfAgent.run (gandalf.py): one supervised run.  Gandalf's model     *)
(* proposes a plan, the plan is validated, its agents are called one after *)
(* the other, and Bilbo and Faramir are called again until the reviewer    *)
(* approves the draft or the revision budget is spent.                     *)
(*                                                                         *)
(* An agent's result is a JSON object.  What steers the supervisor is      *)
(* which keys it has: _apply_agent_result looks at the keys only, whoever  *)
(* returned them.  Texts are numbered in the order they are written (0 is  *)
(* the empty string), the wording of everything else is left out.          *)
(***************************************************************************)
EXTENDS AgentResults, Integers, Sequences, FiniteSets

CONSTANT Plans   \* the agent plans the planner may return, unknown names dropped

Intent == {"capability", "hotel_analytics", "weather", "mixed", "general"}

ASSUME PlansAssumption == Plans \subseteq Seq(Agent)

VARIABLES
  pc,          \* where run() is
  intent,      \* intent of the parsed plan
  plan,        \* the validated plan
  at,          \* index of the next agent of the plan
  compliance,  \* truth of compliance_status["is_compliant"], "none" when absent
  known,       \* the non-empty contexts among user_context, insights, weather_context
  answer,      \* final_answer
  review,      \* review_status: absent, approved, with or without required_changes
  asked,       \* requires_approval
  revisions,   \* revision_count
  outcome,     \* how run() ended
  \* what happened so far, which no code reads
  verdict,     \* what Aragorn himself said last
  refused,     \* has Aragorn ever said no?
  vetted,      \* the text Faramir approved last
  drafted,     \* what was known when the current answer was written
  texts,       \* number of texts written
  calls        \* number of calls of each agent

control == <<pc, intent, plan, at, revisions, outcome>>
context == <<compliance, known, answer, review, asked>>
history == <<verdict, refused, vetted, drafted, texts, calls>>
vars    == <<control, context, history>>

RevisionLimit == 2

Occurrences(p, a) == {i \in DOMAIN p : p[i] = a}

-----------------------------------------------------------------------------
(* What the agents return (module AgentResults).                           *)

\* Faramir turns an empty answer down without asking his model.
Replies(a) ==
  {r \in Reply :
     /\ Own(a) \subseteq r.keys
     /\ r.keys \subseteq Own(a) \union Addable(a)
     /\ a = "faramir" /\ answer = 0 => r.verdict = "changes" /\ r.keys = Own(a)}

-----------------------------------------------------------------------------
(* _apply_agent_result.  The capability path keeps its own two results and *)
(* looks at nothing else in them.                                          *)

Seen(a, r) == IF intent = "capability" THEN r.keys \intersect Own(a) ELSE r.keys

BugStickyClearance(seen, r) ==
  IF "is_compliant" \in seen /\ compliance # "yes"
  THEN IF r.compliant THEN "yes" ELSE "no"
  ELSE compliance

Clearance(seen, r) ==
  IF "is_compliant" \in seen
  THEN IF r.compliant THEN "yes" ELSE "no"
  ELSE compliance

Learnt(seen) ==
  IF "needs_clarification" \in seen
  THEN (known \ (seen \intersect {"insights", "weather"}))
         \union (seen \intersect {"preferences"})
  ELSE known \union (seen \intersect Context)

Judged(seen, r) == IF "approved" \in seen THEN r.verdict ELSE review

BugBilboBlind(a) == IF a = "bilbo" /\ revisions > 0 THEN {} ELSE known

\* What the payload of a call carries of the contexts gathered so far: one of
\* the plan's in _payload_for_agent, the fallbacks' (gandalf.py:320-328, 335-342)
\* and the revisions' (359-382) in _execute_tool_plan.
Briefing(a) == known

Apply(a, r) ==
  LET seen  == Seen(a, r)
      wrote == "final_answer" \in seen
  IN  /\ compliance' = Clearance(seen, r)
      /\ known'   = Learnt(seen)
      /\ review'  = Judged(seen, r)
      /\ asked'   = (asked \/ "needs_clarification" \in seen)
      /\ texts'   = IF wrote THEN texts + 1 ELSE texts
      /\ answer'  = IF wrote THEN texts + 1 ELSE answer
      /\ drafted' = IF wrote THEN Briefing(a) ELSE drafted
      /\ verdict' = IF a = "aragorn" THEN (IF r.compliant THEN "yes" ELSE "no") ELSE verdict
      /\ refused' = (refused \/ (a = "aragorn" /\ ~ r.compliant))
      /\ vetted'  = IF a = "faramir" /\ r.verdict = "approved" THEN answer ELSE vetted
      /\ calls'   = [calls EXCEPT ![a] = @ + 1]

-----------------------------------------------------------------------------
(* Planning.                                                               *)

Required(i) == CASE i = "hotel_analytics" -> {"elrond"}
                 [] i = "weather"         -> {"radagast"}
                 [] i = "mixed"           -> DataAgent
                 [] OTHER                 -> {}

ValidPlan(i, p) ==
  /\ p # <<>>
  /\ p[1] = "aragorn"
  /\ \A a \in Required(i) : Occurrences(p, a) # {}

Init ==
  /\ pc = "planning" /\ intent = "general" /\ plan = <<>> /\ at = 1
  /\ compliance = "none" /\ known = {} /\ answer = 0 /\ review = "none" /\ asked = FALSE
  /\ revisions = 0 /\ outcome = "none"
  /\ verdict = "none" /\ refused = FALSE /\ vetted = 0 /\ drafted = {} /\ texts = 0
  /\ calls = [a \in Agent |-> 0]

Finish(o) == pc' = "done" /\ outcome' = o

PlanWorkflow ==
  /\ pc = "planning"
  /\ \E i \in Intent \ {"capability"}, p \in Plans :
       /\ ValidPlan(i, p)
       /\ intent' = i /\ plan' = p /\ at' = 1
  /\ pc' = "executing"
  /\ UNCHANGED <<revisions, outcome, context, history>>

\* A help request: nothing is planned, no data is read, compliance is granted.
PlanCapability ==
  /\ pc = "planning"
  /\ intent' = "capability"
  /\ compliance' = "yes"
  /\ known' = {"insights"}
  /\ pc' = "drafting"
  /\ UNCHANGED <<plan, at, revisions, outcome, answer, review, asked, history>>

\* Unparsable output, no agent list, a plan that fails validation.
PlanInvalid ==
  /\ pc = "planning"
  /\ Finish("failure")
  /\ UNCHANGED <<intent, plan, at, revisions, context, history>>

-----------------------------------------------------------------------------
(* The plan loop.                                                          *)

ShouldSkip(a) == a \in DataAgent /\ compliance # "yes"

SkipPlanned ==
  /\ pc = "executing" /\ at <= Len(plan)
  /\ ShouldSkip(plan[at])
  /\ at' = at + 1
  /\ UNCHANGED <<pc, intent, plan, revisions, outcome, context, history>>

BugAskAfterPlan == asked' /\ at' > Len(plan)

\* break on requires_approval
Interrupts == asked'

CallPlanned ==
  /\ pc = "executing" /\ at <= Len(plan)
  /\ ~ ShouldSkip(plan[at])
  /\ \E r \in Replies(plan[at]) : Apply(plan[at], r)
  /\ at' = at + 1
  /\ IF Interrupts THEN Finish("question") ELSE UNCHANGED <<pc, outcome>>
  /\ UNCHANGED <<intent, plan, revisions>>

\* The two fallbacks for plans that left out Bilbo or Faramir.
BugDraftAgain == IF at > 1 THEN "drafting" ELSE "judging"

AfterPlan == IF answer = 0 THEN "drafting" ELSE IF review = "none" THEN "reviewing" ELSE "judging"

EndPlan ==
  /\ pc = "executing" /\ at > Len(plan)
  /\ pc' = AfterPlan
  /\ UNCHANGED <<intent, plan, at, revisions, outcome, context, history>>

-----------------------------------------------------------------------------
(* Drafting, review, revision.                                             *)

Call(a, from, to) ==
  /\ pc = from
  /\ \E r \in Replies(a) : Apply(a, r)
  /\ pc' = to
  /\ UNCHANGED <<intent, plan, at, outcome>>

Draft  == Call("bilbo", "drafting", IF review = "none" THEN "reviewing" ELSE "judging")
            /\ UNCHANGED revisions
Review == Call("faramir", "reviewing", "judging") /\ UNCHANGED revisions

BugReviseOnceMore == review = "changes" /\ revisions <= RevisionLimit
BugReviseOnceLess == review = "changes" /\ revisions < RevisionLimit - 1

MayRevise == review = "changes" /\ revisions < RevisionLimit

Redraft ==
  /\ MayRevise
  /\ Call("bilbo", "judging", "rereviewing")
  /\ revisions' = revisions + 1

Rereview == Call("faramir", "rereviewing", "judging") /\ UNCHANGED revisions

BugFailOpen == IF answer # 0 THEN "answer" ELSE "refusal"

\* _safe_review_failure_answer replaces the text unless it was approved
Decision == IF review = "approved" THEN "answer" ELSE "refusal"

BugSpinOnChanges ==
  /\ pc = "judging"
  /\ ~ MayRevise
  /\ \/ review = "changes" /\ UNCHANGED vars
     \/ /\ review # "changes"
        /\ Finish(Decision)
        /\ UNCHANGED <<intent, plan, at, revisions, context, history>>

Deliver ==
  /\ pc = "judging"
  /\ ~ MayRevise
  /\ Finish(Decision)
  /\ UNCHANGED <<intent, plan, at, revisions, context, history>>

\* A call of a model or of a data source raises; run() does not catch it.
Awaiting ==
  \/ pc \in {"planning", "drafting", "reviewing", "rereviewing"}
  \/ pc = "executing" /\ at <= Len(plan) /\ ~ ShouldSkip(plan[at])
  \/ pc = "judging" /\ MayRevise

Raise ==
  /\ Awaiting
  /\ Finish("raised")
  /\ UNCHANGED <<intent, plan, at, revisions, context, history>>

Done == pc = "done" /\ UNCHANGED vars

Step ==
  \/ PlanWorkflow \/ PlanCapability \/ PlanInvalid
  \/ SkipPlanned \/ CallPlanned \/ EndPlan
  \/ Draft \/ Review \/ Redraft \/ Rereview \/ Deliver
  \/ Raise

Next == Step \/ Done

Proceed == Step /\ outcome' # "raised"

\* The event loop runs the coroutine on, and an awaited call of a model, a
\* database or the weather service comes back unless it raises.
Spec == Init /\ [][Next]_vars /\ WF_vars(Proceed)

-----------------------------------------------------------------------------
(* Properties.                                                             *)

PC == {"planning", "executing", "drafting", "reviewing", "judging", "rereviewing", "done"}

\* Types of the variables: the phases of GandalfAgent.run and the fields of
\* the execution context.
TypeOK ==
  /\ pc \in PC
  /\ intent \in Intent
  /\ plan \in Seq(Agent)
  /\ at \in 1 .. Len(plan) + 1
  /\ compliance \in {"none", "yes", "no"} /\ verdict \in {"none", "yes", "no"}
  /\ known \subseteq Context /\ drafted \subseteq Context
  /\ answer \in 0 .. texts /\ vetted \in 0 .. texts /\ texts \in Nat
  /\ review \in Verdict \union {"none"}
  /\ asked \in BOOLEAN /\ refused \in BOOLEAN
  /\ revisions \in 0 .. RevisionLimit
  /\ outcome \in {"none", "answer", "refusal", "question", "failure", "raised"}
  /\ calls \in [Agent -> Nat]

\* What the theorems assume of the agents' results: the keys that steer the
\* supervisor come from the agent they belong to, and from no other.
OnlyAragornClears == \A a \in Agent \ {"aragorn"} : "is_compliant" \notin Stray[a]
OnlyFaramirJudges == \A a \in Agent \ {"faramir"} : "approved" \notin Stray[a]
OnlyBilboWrites   == \A a \in Agent \ {"bilbo"}   : "final_answer" \notin Stray[a]
DraftersAddNoData == \A a \in {"bilbo", "faramir"}  : Stray[a] \intersect Context = {}

\* Elrond and Radagast are called only while Aragorn's own latest word is
\* that the request is compliant, whatever the order of the plan, however
\* often it names Aragorn, as long as no other agent's result has his key.
ClearedReads == [][\A a \in DataAgent : calls'[a] > calls[a] => verdict = "yes"]_vars

\* A plan where no draft can follow the last review.
ReviewerHasLastWord(p) ==
  \A i \in Occurrences(p, "bilbo"), j \in Occurrences(p, "faramir") :
    j < i => \E k \in Occurrences(p, "faramir") : i < k

\* Through fallbacks and revisions, the text returned as an answer is the
\* very text Faramir approved, if the plan lets him have the last word.
ReviewedAnswer ==
  outcome = "answer" /\ ReviewerHasLastWord(plan) => answer = vetted /\ answer # 0

\* The same without the condition on the plan.
AnswerIsReviewed == outcome = "answer" => answer = vetted

\* A plan that has gathered everything before it drafts the last time.
GathersFirst(p) ==
  \/ Occurrences(p, "bilbo") = {}
  \/ \E i \in Occurrences(p, "bilbo") :
       \A j \in DOMAIN p : j > i => p[j] \in {"bilbo", "faramir"}

\* The answer returned was written from everything the run had gathered: no
\* revision loses a context, no fallback drafts before the data is there.
GroundedAnswer == outcome = "answer" /\ GathersFirst(plan) => drafted = known

\* How often the plan names an agent.
Planned(a) == Cardinality(Occurrences(plan, a))

\* A run calls Bilbo and Faramir as often as the plan says, once if it does
\* not name them, plus at most two revisions, and the others as planned.
BoundedCalls ==
  \A a \in Agent :
    LET planned == Cardinality(Occurrences(plan, a)) IN
    calls[a] <= IF a \in {"bilbo", "faramir"}
                THEN RevisionLimit + (IF planned = 0 THEN 1 ELSE planned)
                ELSE planned

\* The user is told that no reliable answer exists only when the reviewer
\* gave nothing to improve or the revisions are used up.
RefusalIsEarned ==
  outcome = "refusal" => review = "rejected" \/ (review = "changes" /\ revisions = RevisionLimit)

\* A question ends the run when a planned call has asked it, whoever was called:
\* no agent is called after it and no answer overtakes it.  The only question
\* that goes unasked, because _execution_result does not look at it, is one of
\* a draft or a review the plan did not contain, a fallback's or a revision's.
QuestionEndsRun ==
  /\ outcome = "question" => asked /\ \A a \in Agent : calls[a] <= Planned(a)
  /\ asked => outcome = "question" \/ \E a \in {"bilbo", "faramir"} : calls[a] > Planned(a)

\* When Aragorn has refused the request, no data is read any more.
BlockedReadsNothing == [][\A a \in DataAgent : calls'[a] > calls[a] => ~ refused]_vars

\* A run keeps the fellowship's promise (module Fellowship): the abstract
\* clearance is the compliance status, a draft counts as approved while the
\* review in force approves that very text.  An answer under a plan that drafts
\* after the last review is none the promise knows of (AnswerIsReviewed is
\* about those); everything before it is held to the promise all the same.
DraftStatus ==
  IF answer = 0 THEN "none"
  ELSE IF review = "approved" /\ vetted = answer THEN "approved"
  ELSE "unapproved"

PromisedOutcome ==
  IF outcome = "answer" /\ ~ ReviewerHasLastWord(plan) THEN "none" ELSE outcome

Promise == INSTANCE Fellowship
  WITH clearance <- compliance,
       reads     <- calls["elrond"] + calls["radagast"],
       draft     <- DraftStatus,
       outcome   <- PromisedOutcome

KeepsPromise == Promise!Spec

\* Every run ends: the revision loop and the skips cannot go on for ever.
Terminates == <>(outcome # "none")

-----------------------------------------------------------------------------
(* Inductive strengthenings, used by the proofs in SupervisorProofs.       *)

\* The status that opens the data agents is Aragorn's word, except for help
\* requests, which have no plan.
ClearanceInv ==
  /\ intent # "capability" => compliance = verdict
  /\ pc \in {"planning", "executing"} => intent # "capability"

EndInv == outcome = "none" <=> pc # "done"

\* While the plan runs nothing has been asked and no call of Bilbo or Faramir
\* is missing, so that one more is one the plan does not have.
QuestionInv ==
  /\ pc = "planning" => plan = <<>> /\ at = 1
  /\ pc \in {"planning", "executing"} => ~ asked
  /\ pc \in {"drafting", "reviewing", "judging", "rereviewing"} => at = Len(plan) + 1
  /\ \A a \in {"bilbo", "faramir"} : Cardinality({i \in 1 .. at - 1 : plan[i] = a}) <= calls[a]
  /\ QuestionEndsRun

\* Nothing has happened before the plan is there.
FreshInv ==
  pc = "planning" =>
    /\ answer = 0 /\ review = "none" /\ compliance = "none"
    /\ calls["elrond"] + calls["radagast"] = 0

\* An approval always concerns a text; one that has gone stale is about to
\* be renewed by a later Faramir of the plan.
ReviewInv ==
  /\ review = "approved" => vetted # 0 /\ answer # 0
  /\ pc = "executing" /\ review # "none" => \E j \in 1 .. at - 1 : plan[j] = "faramir"
  /\ review = "approved" /\ answer # vetted /\ ReviewerHasLastWord(plan) =>
       \/ pc = "executing" /\ \E k \in at .. Len(plan) : plan[k] = "faramir"
       \/ pc = "done" /\ outcome # "answer"
  /\ pc = "drafting" => answer = 0
  /\ pc = "rereviewing" => review = "changes"
  /\ outcome = "answer" => review = "approved" /\ pc = "done"

RefusalInv ==
  /\ pc = "judging" => review # "none"
  /\ outcome = "refusal" => pc = "done"
  /\ RefusalIsEarned

DraftInv == pc \in {"reviewing", "judging", "rereviewing"} => answer # 0

\* From the draft after which only Bilbo and Faramir are called, the answer is
\* written from all that is known, and a text exists only after a draft.
GroundInv ==
  /\ pc = "executing" /\ answer # 0 => \E i \in 1 .. at - 1 : plan[i] = "bilbo"
  /\ pc = "executing" =>
       \A i \in 1 .. at - 1 :
         plan[i] = "bilbo" /\ (\A j \in DOMAIN plan : j > i => plan[j] \in {"bilbo", "faramir"})
           => drafted = known
  /\ \/ pc \in {"reviewing", "judging", "rereviewing"}
     \/ pc = "done" /\ outcome = "answer"
     => (GathersFirst(plan) => drafted = known)

\* How often an agent may be called without a revision: as planned, and the
\* two of the fallbacks at least once.
Budget(a) == IF a \in {"bilbo", "faramir"} /\ Planned(a) = 0 THEN 1 ELSE Planned(a)

\* While the plan runs an agent has been called at most once for each of its
\* places so far; a fallback calls an agent that has not been called yet, and
\* each revision calls Bilbo and then Faramir once more.
CallsInv ==
  /\ pc = "planning" => \A a \in Agent : calls[a] = 0
  /\ pc = "executing" =>
       \A a \in Agent : calls[a] <= Cardinality({i \in 1 .. at - 1 : plan[i] = a})
  /\ pc \in {"planning", "executing", "drafting", "reviewing"} => revisions = 0
  /\ pc \in {"executing", "drafting"} /\ answer = 0 => calls["bilbo"] = 0
  /\ pc \in {"executing", "drafting"} /\ review = "none" => calls["faramir"] = 0
  /\ pc \in {"planning", "drafting"} => answer = 0
  /\ pc = "reviewing" => calls["faramir"] = 0
  /\ pc = "rereviewing" => calls["faramir"] + 1 <= Budget("faramir") + revisions
  /\ calls["bilbo"] <= Budget("bilbo") + revisions
  /\ calls["faramir"] <= Budget("faramir") + revisions
  /\ \A a \in Agent \ {"bilbo", "faramir"} : calls[a] <= Planned(a)

=============================================================================
