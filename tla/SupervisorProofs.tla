-------------------------- MODULE SupervisorProofs --------------------------
(***************************************************************************)
(* Theorems about Supervisor, for every set of plans over the fellowship   *)
(* and every set of additional result keys.                                *)
(***************************************************************************)
EXTENDS Supervisor, FiniteSetTheorems, TLAPS

-----------------------------------------------------------------------------
(* Type correctness.                                                       *)

\* What _apply_agent_result does keeps the fields of the context typed.
LEMMA ApplyTypes ==
  ASSUME TypeOK, NEW a \in Agent, NEW r \in Replies(a), Apply(a, r)
  PROVE  /\ compliance' \in {"none", "yes", "no"} /\ verdict' \in {"none", "yes", "no"}
         /\ known' \subseteq Context /\ drafted' \subseteq Context
         /\ answer' \in 0 .. texts' /\ vetted' \in 0 .. texts' /\ texts' \in Nat
         /\ review' \in Verdict \union {"none"}
         /\ asked' \in BOOLEAN /\ refused' \in BOOLEAN
         /\ calls' \in [Agent -> Nat]
<1>1. r.keys \in SUBSET Key /\ r.compliant \in BOOLEAN /\ r.verdict \in Verdict
  BY DEF Replies, Reply
<1>2. compliance' \in {"none", "yes", "no"} /\ verdict' \in {"none", "yes", "no"}
  BY DEF Apply, Clearance, TypeOK
<1>3. known' \subseteq Context /\ drafted' \subseteq Context
  BY DEF Apply, Learnt, Briefing, Context, TypeOK
<1>4. answer' \in 0 .. texts' /\ vetted' \in 0 .. texts' /\ texts' \in Nat
  BY DEF Apply, TypeOK
<1>5. review' \in Verdict \union {"none"}
  BY <1>1 DEF Apply, Judged, TypeOK
<1>6. asked' \in BOOLEAN /\ refused' \in BOOLEAN
  BY DEF Apply, TypeOK
<1>7. calls' \in [Agent -> Nat]
  BY DEF Apply, TypeOK
<1> QED
  BY <1>2, <1>3, <1>4, <1>5, <1>6, <1>7

\* The variables stay within their types.
THEOREM TypeCorrect == Spec => []TypeOK
<1>1. Init => TypeOK
  <2> SUFFICES ASSUME Init PROVE TypeOK
    OBVIOUS
  <2>1. calls \in [Agent -> Nat]
    BY DEF Init
  <2>2. at \in 1 .. Len(plan) + 1 /\ plan \in Seq(Agent)
    BY DEF Init
  <2>3. pc \in PC /\ intent \in Intent /\ revisions \in 0 .. RevisionLimit
    BY DEF Init, PC, Intent, RevisionLimit
  <2>4. /\ compliance \in {"none", "yes", "no"} /\ verdict \in {"none", "yes", "no"}
        /\ known \subseteq Context /\ drafted \subseteq Context
        /\ answer \in 0 .. texts /\ vetted \in 0 .. texts /\ texts \in Nat
        /\ review \in Verdict \union {"none"}
        /\ outcome = "none"
    BY DEF Init
  <2>5. asked \in BOOLEAN /\ refused \in BOOLEAN
    BY DEF Init
  <2> QED
    BY <2>1, <2>2, <2>3, <2>4, <2>5 DEF TypeOK
<1>2. TypeOK /\ [Next]_vars => TypeOK'
  <2> SUFFICES ASSUME TypeOK, [Next]_vars PROVE TypeOK'
    OBVIOUS
  <2>1. CASE PlanWorkflow
    <3>1. PICK i \in Intent \ {"capability"}, p \in Plans : intent' = i /\ plan' = p /\ at' = 1
      BY <2>1 DEF PlanWorkflow
    <3>2. Len(p) \in Nat
      BY PlansAssumption
    <3>3. at' \in 1 .. Len(plan') + 1
      BY <3>1, <3>2
    <3> QED
      BY <2>1, <3>1, <3>3, PlansAssumption DEF PlanWorkflow, TypeOK, PC, context, history
  <2>2. CASE PlanCapability
    BY <2>2 DEF PlanCapability, TypeOK, PC, Intent, Context, history
  <2>3. CASE PlanInvalid
    BY <2>3 DEF PlanInvalid, Finish, TypeOK, PC, context, history
  <2>4. CASE SkipPlanned
    BY <2>4, PlansAssumption DEF SkipPlanned, TypeOK, context, history
  <2>5. CASE CallPlanned
    <3>1. plan \in Seq(Agent)
      BY DEF TypeOK
    <3>2. plan[at] \in Agent
      BY <2>5, <3>1 DEF CallPlanned, TypeOK
    <3>3. PICK r \in Replies(plan[at]) : Apply(plan[at], r)
      BY <2>5 DEF CallPlanned
    <3> QED
      BY <2>5, <3>1, <3>2, <3>3, ApplyTypes DEF CallPlanned, Finish, TypeOK, PC
  <2>6. CASE EndPlan
    <3>1. AfterPlan \in PC
      BY DEF AfterPlan, PC
    <3> QED
      BY <2>6, <3>1 DEF EndPlan, TypeOK, context, history
  <2>7. ASSUME NEW a \in Agent, NEW from \in PC, NEW to \in PC, Call(a, from, to),
               revisions' \in 0 .. RevisionLimit
        PROVE  TypeOK'
    <3>1. PICK r \in Replies(a) : Apply(a, r)
      BY <2>7 DEF Call
    <3> QED
      BY <2>7, <3>1, ApplyTypes DEF Call, TypeOK
  <2>8. CASE Draft
    BY <2>7, <2>8 DEF Draft, Agent, PC, TypeOK
  <2>9. CASE Review
    BY <2>7, <2>9 DEF Review, Agent, PC, TypeOK
  <2>10. CASE Redraft
    <3>1. revisions' \in 0 .. RevisionLimit
      BY <2>10 DEF Redraft, MayRevise, RevisionLimit, TypeOK
    <3> QED
      BY <2>7, <2>10, <3>1 DEF Redraft, Agent, PC
  <2>11. CASE Rereview
    BY <2>7, <2>11 DEF Rereview, Agent, PC, TypeOK
  <2>12. CASE Deliver
    BY <2>12 DEF Deliver, Decision, Finish, TypeOK, PC, context, history
  <2>13. CASE Raise
    BY <2>13 DEF Raise, Finish, TypeOK, PC, context, history
  <2>14. CASE UNCHANGED vars
    BY <2>14 DEF vars, control, context, history, TypeOK
  <2> QED
    BY <2>1, <2>2, <2>3, <2>4, <2>5, <2>6, <2>8, <2>9, <2>10, <2>11, <2>12, <2>13, <2>14
    DEF Next, Step, Done
<1> QED
  BY <1>1, <1>2, PTL DEF Spec

-----------------------------------------------------------------------------
(* What single calls do.                                                   *)

\* A reply has its agent's own keys and otherwise only added ones.
LEMMA ReplyKeys ==
  ASSUME NEW a \in Agent, NEW r \in Replies(a)
  PROVE  /\ Own(a) \subseteq r.keys
         /\ r.keys \subseteq Own(a) \union Addable(a)
         /\ r.verdict \in Verdict
         /\ a = "faramir" /\ answer = 0 => r.verdict = "changes"
BY DEF Replies, Reply

\* Bilbo writes a new text and, on his own, neither rules nor judges.
LEMMA BilboWrites ==
  ASSUME TypeOK, NEW r \in Replies("bilbo"), Apply("bilbo", r)
  PROVE  /\ answer' = texts + 1 /\ texts' = texts + 1
         /\ vetted' = vetted /\ verdict' = verdict
         /\ calls'["elrond"] = calls["elrond"] /\ calls'["radagast"] = calls["radagast"]
         /\ \A a \in Agent : calls'[a] > calls[a] => a = "bilbo"
         /\ OnlyAragornClears => compliance' = compliance
         /\ OnlyFaramirJudges => review' = review
         /\ review # "none" => review' # "none"
<1>1. "bilbo" \in Agent
  BY DEF Agent
<1>2. /\ "final_answer" \in r.keys
      /\ r.keys \subseteq {"final_answer"} \union Stray["bilbo"]
      /\ r.verdict \in Verdict
  BY <1>1, ReplyKeys DEF Own, Addable, DataAgent
<1>3. "final_answer" \in Seen("bilbo", r) /\ Seen("bilbo", r) \subseteq r.keys
  BY <1>2 DEF Seen, Own
<1>4. OnlyAragornClears => "is_compliant" \notin r.keys
  BY <1>1, <1>2 DEF OnlyAragornClears
<1>5. OnlyFaramirJudges => "approved" \notin r.keys
  BY <1>1, <1>2 DEF OnlyFaramirJudges
<1>7. calls' = [calls EXCEPT !["bilbo"] = @ + 1]
  BY DEF Apply
<1>8. \A a \in Agent \ {"bilbo"} : calls'[a] = calls[a]
  BY <1>7 DEF TypeOK
<1>9. \A a \in Agent : calls'[a] > calls[a] => a = "bilbo"
  BY <1>8 DEF TypeOK
<1>10. calls'["elrond"] = calls["elrond"] /\ calls'["radagast"] = calls["radagast"]
  BY <1>8 DEF Agent
<1>11. answer' = texts + 1 /\ texts' = texts + 1 /\ vetted' = vetted /\ verdict' = verdict
  BY <1>3 DEF Apply
<1>12. OnlyAragornClears => compliance' = compliance
  BY <1>3, <1>4 DEF Apply, Clearance
<1>13. OnlyFaramirJudges => review' = review
  BY <1>3, <1>5 DEF Apply, Judged
<1>14. review # "none" => review' # "none"
  BY <1>2 DEF Apply, Judged, Verdict
<1> QED
  BY <1>9, <1>10, <1>11, <1>12, <1>13, <1>14

\* Faramir judges the current text and leaves it as it is.
LEMMA FaramirJudges ==
  ASSUME TypeOK, NEW r \in Replies("faramir"), Apply("faramir", r)
  PROVE  /\ review' = r.verdict /\ r.verdict \in Verdict
         /\ review' = "approved" => answer # 0 /\ vetted' = answer
         /\ review' # "approved" => vetted' = vetted
         /\ verdict' = verdict
         /\ calls'["elrond"] = calls["elrond"] /\ calls'["radagast"] = calls["radagast"]
         /\ \A a \in Agent : calls'[a] > calls[a] => a = "faramir"
         /\ OnlyAragornClears => compliance' = compliance
         /\ OnlyBilboWrites => answer' = answer /\ texts' = texts
         /\ answer # 0 => answer' # 0
<1>1. "faramir" \in Agent
  BY DEF Agent
<1>2. /\ "approved" \in r.keys
      /\ r.keys \subseteq {"approved"} \union Stray["faramir"]
      /\ r.verdict \in Verdict
      /\ answer = 0 => r.verdict = "changes"
  BY <1>1, ReplyKeys DEF Own, Addable, DataAgent
<1>3. "approved" \in Seen("faramir", r) /\ Seen("faramir", r) \subseteq r.keys
  BY <1>2 DEF Seen, Own
<1>4. OnlyAragornClears => "is_compliant" \notin r.keys
  BY <1>1, <1>2 DEF OnlyAragornClears
<1>5. OnlyBilboWrites => "final_answer" \notin r.keys
  BY <1>1, <1>2 DEF OnlyBilboWrites
<1>7. calls' = [calls EXCEPT !["faramir"] = @ + 1]
  BY DEF Apply
<1>8. \A a \in Agent \ {"faramir"} : calls'[a] = calls[a]
  BY <1>7 DEF TypeOK
<1>9. \A a \in Agent : calls'[a] > calls[a] => a = "faramir"
  BY <1>8 DEF TypeOK
<1>10. calls'["elrond"] = calls["elrond"] /\ calls'["radagast"] = calls["radagast"]
  BY <1>8 DEF Agent
<1>11. review' = r.verdict /\ verdict' = verdict
  BY <1>3 DEF Apply, Judged
<1>12. review' = "approved" => answer # 0 /\ vetted' = answer
  BY <1>2, <1>11 DEF Apply
<1>13. review' # "approved" => vetted' = vetted
  BY <1>11 DEF Apply
<1>14. OnlyAragornClears => compliance' = compliance
  BY <1>3, <1>4 DEF Apply, Clearance
<1>15. OnlyBilboWrites => answer' = answer /\ texts' = texts
  BY <1>3, <1>5 DEF Apply
<1>16. answer # 0 => answer' # 0
  BY DEF Apply, TypeOK
<1> QED
  BY <1>2, <1>9, <1>10, <1>11, <1>12, <1>13, <1>14, <1>15, <1>16

\* A run has an outcome exactly when it is done.
LEMMA EndInvariant == Spec => []EndInv
<1>1. Init => EndInv
  BY DEF Init, EndInv
<1>2. TypeOK /\ EndInv /\ [Next]_vars => EndInv'
  BY DEF TypeOK, EndInv, Next, Step, Done, PlanWorkflow, PlanCapability, PlanInvalid, SkipPlanned,
    CallPlanned, EndPlan, AfterPlan, Draft, Review, Redraft, Rereview, Call, Deliver, Decision, Raise,
    Awaiting, Finish, vars, control
<1> QED
  BY <1>1, <1>2, TypeCorrect, PTL DEF Spec

-----------------------------------------------------------------------------
(* No refusal while the draft could still be revised.                      *)

\* What is true of a refusal, and of the moment before it.
LEMMA RefusalInvariant == Spec => []RefusalInv
<1>1. Init => RefusalInv
  BY DEF Init, RefusalInv, RefusalIsEarned
<1>2. TypeOK /\ TypeOK' /\ RefusalInv /\ [Next]_vars => RefusalInv'
  <2> SUFFICES ASSUME TypeOK, TypeOK', RefusalInv, [Next]_vars PROVE RefusalInv'
    OBVIOUS
  <2> USE DEF RefusalInv, RefusalIsEarned
  <2>1. CASE PlanWorkflow
    BY <2>1 DEF PlanWorkflow, context
  <2>2. CASE PlanCapability
    BY <2>2 DEF PlanCapability
  <2>3. CASE PlanInvalid
    BY <2>3 DEF PlanInvalid, Finish
  <2>4. CASE SkipPlanned
    BY <2>4 DEF SkipPlanned, context
  <2>5. CASE CallPlanned
    <3>1. outcome' = "question" \/ (outcome' = outcome /\ pc' = "executing")
      BY <2>5 DEF CallPlanned, Finish
    <3> QED
      BY <2>5, <3>1 DEF CallPlanned, Finish
  <2>6. CASE EndPlan
    BY <2>6 DEF EndPlan, AfterPlan, context
  <2>7. CASE Draft \/ Redraft
    <3>1. PICK r \in Replies("bilbo") : Apply("bilbo", r)
      BY <2>7 DEF Draft, Redraft, Call
    <3>2. review # "none" => review' # "none"
      BY <3>1, BilboWrites
    <3> QED
      BY <2>7, <3>2 DEF Draft, Redraft, Call
  <2>8. CASE Review \/ Rereview
    <3>1. PICK r \in Replies("faramir") : Apply("faramir", r)
      BY <2>8 DEF Review, Rereview, Call
    <3>2. review' # "none"
      BY <3>1, FaramirJudges DEF Verdict
    <3> QED
      BY <2>8, <3>2 DEF Review, Rereview, Call
  <2>9. CASE Deliver
    BY <2>9 DEF Deliver, Decision, MayRevise, Finish, context, TypeOK, Verdict, RevisionLimit
  <2>10. CASE Raise
    BY <2>10 DEF Raise, Finish, context
  <2>11. CASE UNCHANGED vars
    BY <2>11 DEF vars, control, context
  <2> QED
    BY <2>1, <2>2, <2>3, <2>4, <2>5, <2>6, <2>7, <2>8, <2>9, <2>10, <2>11 DEF Next, Step, Done
<1> QED
  BY <1>1, <1>2, TypeCorrect, PTL DEF Spec

\* Whatever keys the results carry, a refusal means that the reviewer left
\* nothing to improve or that both revisions were used.
THEOREM RefusalEarned == Spec => []RefusalIsEarned
<1>1. RefusalInv => RefusalIsEarned
  BY DEF RefusalInv
<1> QED
  BY <1>1, RefusalInvariant, PTL

-----------------------------------------------------------------------------
(* Data is read under clearance only.                                      *)

\* While only Aragorn's results carry is_compliant, the status that lets the
\* data agents run is what Aragorn said last.
LEMMA ClearanceInvariant ==
  ASSUME OnlyAragornClears
  PROVE  Spec => []ClearanceInv
<1>1. Init => ClearanceInv
  BY DEF Init, ClearanceInv
<1>2. TypeOK /\ ClearanceInv /\ [Next]_vars => ClearanceInv'
  <2> SUFFICES ASSUME TypeOK, ClearanceInv, [Next]_vars PROVE ClearanceInv'
    OBVIOUS
  <2> USE DEF ClearanceInv
  <2>1. CASE PlanWorkflow
    BY <2>1 DEF PlanWorkflow, context, history
  <2>2. CASE PlanCapability
    BY <2>2 DEF PlanCapability
  <2>3. CASE PlanInvalid
    BY <2>3 DEF PlanInvalid, Finish, context, history
  <2>4. CASE SkipPlanned
    BY <2>4 DEF SkipPlanned, context, history
  <2>5. CASE CallPlanned
    <3> DEFINE a == plan[at]
    <3>1. a \in Agent
      BY <2>5 DEF CallPlanned, TypeOK
    <3>2. PICK r \in Replies(a) : Apply(a, r)
      BY <2>5 DEF CallPlanned
    <3>3. Own(a) \subseteq r.keys /\ r.keys \subseteq Own(a) \union Addable(a)
      BY <3>1, <3>2, ReplyKeys
    <3>4. intent # "capability" /\ intent' = intent
      BY <2>5 DEF CallPlanned
    <3>5. Seen(a, r) = r.keys
      BY <3>4 DEF Seen
    <3>6. compliance = verdict
      BY <3>4
    <3>7. CASE a = "aragorn"
      <4>1. "is_compliant" \in r.keys
        BY <3>3, <3>7 DEF Own
      <4> QED
        BY <3>2, <3>4, <3>5, <3>7, <4>1 DEF Apply, Clearance
    <3>8. CASE a # "aragorn"
      <4>1. "is_compliant" \notin r.keys
        BY <3>1, <3>3, <3>8 DEF Own, Addable, OnlyAragornClears, Agent
      <4> QED
        BY <3>2, <3>4, <3>5, <3>6, <3>8, <4>1 DEF Apply, Clearance
    <3> QED
      BY <3>7, <3>8
  <2>6. CASE EndPlan
    BY <2>6 DEF EndPlan, AfterPlan, context, history
  <2>7. CASE Draft \/ Redraft
    <3>1. PICK r \in Replies("bilbo") : Apply("bilbo", r)
      BY <2>7 DEF Draft, Redraft, Call
    <3>2. compliance' = compliance /\ verdict' = verdict
      BY <3>1, BilboWrites
    <3> QED
      BY <2>7, <3>2 DEF Draft, Redraft, Call
  <2>8. CASE Review \/ Rereview
    <3>1. PICK r \in Replies("faramir") : Apply("faramir", r)
      BY <2>8 DEF Review, Rereview, Call
    <3>2. compliance' = compliance /\ verdict' = verdict
      BY <3>1, FaramirJudges
    <3> QED
      BY <2>8, <3>2 DEF Review, Rereview, Call
  <2>9. CASE Deliver
    BY <2>9 DEF Deliver, Finish, context, history
  <2>10. CASE Raise
    BY <2>10 DEF Raise, Finish, context, history
  <2>11. CASE UNCHANGED vars
    BY <2>11 DEF vars, control, context, history
  <2> QED
    BY <2>1, <2>2, <2>3, <2>4, <2>5, <2>6, <2>7, <2>8, <2>9, <2>10, <2>11 DEF Next, Step, Done
<1> QED
  BY <1>1, <1>2, TypeCorrect, PTL DEF Spec

\* Elrond and Radagast are called only while Aragorn's latest word is yes.
THEOREM ReadsAreCleared ==
  ASSUME OnlyAragornClears
  PROVE  Spec => ClearedReads
<1> DEFINE Cleared == \A a \in DataAgent : calls'[a] > calls[a] => verdict = "yes"
<1>1. TypeOK /\ ClearanceInv /\ [Next]_vars => [Cleared]_vars
  <2> SUFFICES ASSUME TypeOK, ClearanceInv, Next, NEW a \in DataAgent, calls'[a] > calls[a]
               PROVE  verdict = "yes"
    OBVIOUS
  <2>1. ~ UNCHANGED history
    BY DEF history, TypeOK, DataAgent, Agent
  <2>2. CASE CallPlanned
    <3>1. PICK r \in Replies(plan[at]) : Apply(plan[at], r)
      BY <2>2 DEF CallPlanned
    <3>2. plan[at] \in Agent
      BY <2>2 DEF CallPlanned, TypeOK
    <3>3. calls' = [calls EXCEPT ![plan[at]] = @ + 1]
      BY <3>1 DEF Apply
    <3>4. a = plan[at]
      BY <3>2, <3>3 DEF TypeOK, DataAgent, Agent
    <3>5. compliance = "yes"
      BY <2>2, <3>4 DEF CallPlanned, ShouldSkip
    <3> QED
      BY <2>2, <3>5 DEF CallPlanned, ClearanceInv
  <2>3. CASE Draft \/ Redraft
    <3>1. PICK r \in Replies("bilbo") : Apply("bilbo", r)
      BY <2>3 DEF Draft, Redraft, Call
    <3> QED
      BY <3>1, BilboWrites DEF DataAgent, Agent
  <2>4. CASE Review \/ Rereview
    <3>1. PICK r \in Replies("faramir") : Apply("faramir", r)
      BY <2>4 DEF Review, Rereview, Call
    <3> QED
      BY <3>1, FaramirJudges DEF DataAgent, Agent
  <2>5. CASE PlanWorkflow \/ PlanCapability \/ PlanInvalid
    BY <2>1, <2>5 DEF PlanWorkflow, PlanCapability, PlanInvalid
  <2>6. CASE SkipPlanned \/ EndPlan \/ Deliver \/ Raise
    BY <2>1, <2>6 DEF SkipPlanned, EndPlan, Deliver, Raise
  <2>7. CASE Done
    BY <2>1, <2>7 DEF Done, vars
  <2> QED
    BY <2>2, <2>3, <2>4, <2>5, <2>6, <2>7 DEF Next, Step
<1>2. Spec => [][Cleared]_vars
  BY <1>1, TypeCorrect, ClearanceInvariant, PTL DEF Spec
<1> QED
  BY <1>2 DEF ClearedReads

-----------------------------------------------------------------------------
(* The answer is the text that was approved.                               *)

\* What a planned call does to the text and its approval.
LEMMA PlannedCall ==
  ASSUME TypeOK, OnlyFaramirJudges, OnlyBilboWrites,
         NEW a \in Agent, NEW r \in Replies(a), Apply(a, r)
  PROVE  /\ a \notin {"bilbo", "faramir"} =>
              answer' = answer /\ texts' = texts /\ vetted' = vetted /\ review' = review
         /\ a = "bilbo" => answer' = texts + 1 /\ vetted' = vetted /\ review' = review
         /\ a = "faramir" => /\ answer' = answer /\ review' # "none"
                             /\ review' = "approved" => answer # 0 /\ vetted' = answer
<1>1. CASE a = "bilbo"
  BY <1>1, BilboWrites
<1>2. CASE a = "faramir"
  BY <1>2, FaramirJudges DEF Verdict
<1>3. CASE a \notin {"bilbo", "faramir"}
  <2>1. r.keys \subseteq Own(a) \union Addable(a)
    BY ReplyKeys
  <2>2. "approved" \notin r.keys
    BY <1>3, <2>1 DEF Own, Addable, OnlyFaramirJudges, Agent
  <2>3. "final_answer" \notin r.keys
    BY <1>3, <2>1 DEF Own, Addable, OnlyBilboWrites, Agent
  <2>4. "approved" \notin Seen(a, r) /\ "final_answer" \notin Seen(a, r)
    BY <2>2, <2>3 DEF Seen
  <2> QED
    BY <1>3, <2>4 DEF Apply, Judged
<1> QED
  BY <1>1, <1>2, <1>3

LEMMA ReviewInvariant ==
  ASSUME OnlyFaramirJudges, OnlyBilboWrites
  PROVE  Spec => []ReviewInv
<1> DEFINE Fresh == pc = "planning" => answer = 0 /\ review = "none"
<1>1. Init => Fresh /\ ReviewInv
  BY DEF Init, ReviewInv
<1>2. TypeOK /\ Fresh /\ ReviewInv /\ [Next]_vars => Fresh' /\ ReviewInv'
  <2> SUFFICES ASSUME TypeOK, Fresh, ReviewInv, [Next]_vars PROVE Fresh' /\ ReviewInv'
    OBVIOUS
  <2>1. CASE PlanWorkflow
    BY <2>1 DEF PlanWorkflow, context, history, ReviewInv
  <2>2. CASE PlanCapability
    BY <2>2 DEF PlanCapability, history, ReviewInv
  <2>3. CASE PlanInvalid
    BY <2>3 DEF PlanInvalid, Finish, context, history, ReviewInv
  <2>4. CASE SkipPlanned
    <3>1. plan[at] # "faramir" /\ pc = "executing" /\ at \in 1 .. Len(plan)
      BY <2>4 DEF SkipPlanned, ShouldSkip, DataAgent, TypeOK
    <3>2. \A k \in at .. Len(plan) : plan[k] = "faramir" => k \in at' .. Len(plan)
      BY <2>4, <3>1 DEF SkipPlanned
    <3>3. 1 .. at - 1 \subseteq 1 .. at' - 1
      BY <2>4, <3>1 DEF SkipPlanned
    <3> QED
      BY <2>4, <3>1, <3>2, <3>3 DEF SkipPlanned, context, history, ReviewInv
  <2>5. CASE CallPlanned
    <3>1. plan[at] \in Agent /\ at \in 1 .. Len(plan) /\ at' = at + 1
      BY <2>5 DEF CallPlanned, TypeOK
    <3>2. PICK r \in Replies(plan[at]) : Apply(plan[at], r)
      BY <2>5 DEF CallPlanned
    <3>3. /\ pc = "executing" /\ plan' = plan
          /\ \/ pc' = "done" /\ outcome' = "question"
             \/ pc' = pc /\ outcome' = outcome
      BY <2>5 DEF CallPlanned, Finish
    <3>4. 1 .. at - 1 \subseteq 1 .. at' - 1 /\ at \in 1 .. at' - 1
      BY <3>1
    <3>5. \A k \in at .. Len(plan) : k # at => k \in at' .. Len(plan)
      BY <3>1
    <3>6. CASE plan[at] = "faramir"
      <4>1. /\ answer' = answer /\ review' # "none"
            /\ review' = "approved" => answer # 0 /\ vetted' = answer
        BY <3>1, <3>2, <3>6, PlannedCall
      <4> QED
        BY <3>3, <3>4, <3>6, <4>1 DEF ReviewInv
    <3>7. CASE plan[at] = "bilbo"
      <4>1. answer' = texts + 1 /\ vetted' = vetted /\ review' = review
        BY <3>1, <3>2, <3>7, PlannedCall
      <4>2. answer' # 0
        BY <4>1 DEF TypeOK
      <4>3. ASSUME review = "approved", ReviewerHasLastWord(plan)
            PROVE  \E k \in at' .. Len(plan) : plan[k] = "faramir"
        <5>1. PICK j \in 1 .. at - 1 : plan[j] = "faramir"
          BY <3>3, <4>3 DEF ReviewInv
        <5>2. at \in Occurrences(plan, "bilbo") /\ j \in Occurrences(plan, "faramir") /\ j < at
          BY <3>1, <3>7, <5>1 DEF Occurrences, TypeOK
        <5>3. PICK k \in Occurrences(plan, "faramir") : at < k
          BY <4>3, <5>2 DEF ReviewerHasLastWord
        <5>4. k \in 1 .. Len(plan) /\ plan[k] = "faramir"
          BY <5>3 DEF Occurrences, TypeOK
        <5> QED
          BY <3>1, <5>3, <5>4
      <4> QED
        BY <3>3, <3>4, <4>1, <4>2, <4>3 DEF ReviewInv
    <3>8. CASE plan[at] \notin {"bilbo", "faramir"}
      <4>1. answer' = answer /\ vetted' = vetted /\ review' = review
        BY <3>1, <3>2, <3>8, PlannedCall
      <4> QED
        BY <3>3, <3>4, <3>5, <3>8, <4>1 DEF ReviewInv
    <3> QED
      BY <3>6, <3>7, <3>8
  <2>6. CASE EndPlan
    <3>1. at .. Len(plan) = {}
      BY <2>6 DEF EndPlan, TypeOK
    <3> QED
      BY <2>6, <3>1 DEF EndPlan, AfterPlan, context, history, ReviewInv
  <2>7. CASE Draft \/ Redraft
    <3>1. PICK r \in Replies("bilbo") : Apply("bilbo", r)
      BY <2>7 DEF Draft, Redraft, Call
    <3>2. review' = review /\ vetted' = vetted
      BY <3>1, BilboWrites
    <3>3. review # "approved"
      BY <2>7 DEF Draft, Redraft, Call, MayRevise, ReviewInv
    <3> QED
      BY <2>7, <3>2, <3>3 DEF Draft, Redraft, Call, MayRevise, ReviewInv
  <2>8. CASE Review \/ Rereview
    <3>1. PICK r \in Replies("faramir") : Apply("faramir", r)
      BY <2>8 DEF Review, Rereview, Call
    <3>2. answer' = answer /\ (review' = "approved" => answer # 0 /\ vetted' = answer)
      BY <3>1, FaramirJudges
    <3> QED
      BY <2>8, <3>2 DEF Review, Rereview, Call, ReviewInv
  <2>9. CASE Deliver
    BY <2>9 DEF Deliver, Decision, Finish, context, history, ReviewInv
  <2>10. CASE Raise
    BY <2>10 DEF Raise, Awaiting, Finish, context, history, ReviewInv
  <2>11. CASE UNCHANGED vars
    BY <2>11 DEF vars, control, context, history, ReviewInv
  <2> QED
    BY <2>1, <2>2, <2>3, <2>4, <2>5, <2>6, <2>7, <2>8, <2>9, <2>10, <2>11 DEF Next, Step, Done
<1> QED
  BY <1>1, <1>2, TypeCorrect, PTL DEF Spec

\* Under the result contract, and with a plan that leaves Faramir the last
\* word, an answer is the non-empty text Faramir approved last.
THEOREM AnswersAreReviewed ==
  ASSUME OnlyFaramirJudges, OnlyBilboWrites
  PROVE  Spec => []ReviewedAnswer
<1>1. TypeOK /\ ReviewInv => ReviewedAnswer
  BY DEF ReviewInv, ReviewedAnswer, TypeOK
<1> QED
  BY <1>1, TypeCorrect, ReviewInvariant, PTL

-----------------------------------------------------------------------------
(* The answer is written from everything the run has gathered.             *)

\* A call of Bilbo or Faramir leaves what is known as it is; Bilbo's text is
\* written from it.
LEMMA DraftersKeepKnown ==
  ASSUME TypeOK, DraftersAddNoData,
         NEW a \in {"bilbo", "faramir"}, NEW r \in Replies(a), Apply(a, r)
  PROVE  /\ known' = known
         /\ a = "bilbo" => drafted' = known
<1>1. a \in Agent /\ a \notin DataAgent
  BY DEF Agent, DataAgent
<1>2. Own(a) \subseteq r.keys /\ r.keys \subseteq Own(a) \union Stray[a]
  BY <1>1, ReplyKeys DEF Addable
<1>3. /\ Own(a) \intersect Context = {} /\ Stray[a] \intersect Context = {}
  BY <1>1 DEF Own, Context, DraftersAddNoData
<1>4. Seen(a, r) \intersect Context = {}
  BY <1>2, <1>3 DEF Seen
<1>5. known' = known
  BY <1>4 DEF Apply, Learnt, Context
<1>6. a = "bilbo" => "final_answer" \in Seen(a, r)
  BY <1>2 DEF Seen, Own
<1> QED
  BY <1>5, <1>6 DEF Apply, Briefing

LEMMA GroundInvariant ==
  ASSUME OnlyFaramirJudges, OnlyBilboWrites, DraftersAddNoData
  PROVE  Spec => []GroundInv
<1> DEFINE Fresh == pc = "planning" => answer = 0
           Rest(i) == \A j \in DOMAIN plan : j > i => plan[j] \in {"bilbo", "faramir"}
<1>1. Init => Fresh /\ GroundInv
  BY DEF Init, GroundInv
<1>2. TypeOK /\ Fresh /\ GroundInv /\ [Next]_vars => Fresh' /\ GroundInv'
  <2> SUFFICES ASSUME TypeOK, Fresh, GroundInv, [Next]_vars PROVE Fresh' /\ GroundInv'
    OBVIOUS
  <2>1. CASE PlanWorkflow
    BY <2>1 DEF PlanWorkflow, context, history, GroundInv
  <2>2. CASE PlanCapability
    BY <2>2 DEF PlanCapability, GroundInv
  <2>3. CASE PlanInvalid
    BY <2>3 DEF PlanInvalid, Finish, GroundInv
  <2>4. CASE SkipPlanned
    <3>1. /\ at \in 1 .. Len(plan) /\ at' = at + 1 /\ plan' = plan
          /\ pc = "executing" /\ pc' = "executing" /\ outcome' = outcome
          /\ UNCHANGED <<answer, drafted, known>>
      BY <2>4 DEF SkipPlanned, TypeOK, context, history
    <3>2. plan[at] # "bilbo"
      BY <2>4 DEF SkipPlanned, ShouldSkip, DataAgent
    <3>3. 1 .. at - 1 \subseteq 1 .. at' - 1 /\ \A i \in 1 .. at' - 1 : i # at => i \in 1 .. at - 1
      BY <3>1
    <3> QED
      BY <3>1, <3>2, <3>3 DEF GroundInv
  <2>5. CASE CallPlanned
    <3>1. plan[at] \in Agent /\ at \in 1 .. Len(plan) /\ at' = at + 1
      BY <2>5 DEF CallPlanned, TypeOK
    <3>2. PICK r \in Replies(plan[at]) : Apply(plan[at], r)
      BY <2>5 DEF CallPlanned
    <3>3. /\ pc = "executing" /\ plan' = plan
          /\ \/ pc' = "done" /\ outcome' = "question"
             \/ pc' = pc /\ outcome' = outcome
      BY <2>5 DEF CallPlanned, Finish
    <3>4. 1 .. at - 1 \subseteq 1 .. at' - 1 /\ \A i \in 1 .. at' - 1 : i # at => i \in 1 .. at - 1
      BY <3>1
    <3>5. at \in 1 .. at' - 1 /\ at \in DOMAIN plan
      BY <3>1 DEF TypeOK
    <3>6. CASE plan[at] = "bilbo"
      <4>1. known' = known /\ drafted' = known
        BY <3>2, <3>6, DraftersKeepKnown
      <4> QED
        BY <3>3, <3>5, <3>6, <4>1 DEF GroundInv
    <3>7. CASE plan[at] = "faramir"
      <4>1. known' = known
        BY <3>2, <3>7, DraftersKeepKnown
      <4>2. answer' = answer
        BY <3>1, <3>2, <3>7, PlannedCall
      <4>3. drafted' = drafted
        BY <3>2, <4>2 DEF Apply, TypeOK
      <4> QED
        BY <3>3, <3>4, <3>7, <4>1, <4>2, <4>3 DEF GroundInv
    <3>8. CASE plan[at] \notin {"bilbo", "faramir"}
      <4>1. answer' = answer
        BY <3>1, <3>2, <3>8, PlannedCall
      <4>2. \A i \in 1 .. at' - 1 : plan[i] = "bilbo" => i < at
        BY <3>1, <3>8
      <4>3. \A i \in 1 .. at' - 1 : plan[i] = "bilbo" => ~ Rest(i)
        BY <3>5, <3>8, <4>2
      <4> QED
        BY <3>3, <3>4, <4>1, <4>3 DEF GroundInv
    <3> QED
      BY <3>6, <3>7, <3>8
  <2>6. CASE EndPlan
    <3>1. /\ pc = "executing" /\ pc' = AfterPlan /\ at = Len(plan) + 1
          /\ UNCHANGED <<answer, drafted, known, plan, at, outcome>>
      BY <2>6 DEF EndPlan, TypeOK, context, history
    <3>2. DOMAIN plan = 1 .. at - 1
      BY <3>1 DEF TypeOK
    <3>3. answer # 0 /\ GathersFirst(plan) => drafted = known
      BY <3>1, <3>2 DEF GroundInv, GathersFirst, Occurrences
    <3>4. GathersFirst(plan)' = GathersFirst(plan)
      BY <3>1 DEF GathersFirst, Occurrences
    <3>5. pc' = "drafting" \/ (pc' \in {"reviewing", "judging"} /\ answer # 0)
      BY <3>1 DEF AfterPlan
    <3> QED
      BY <3>1, <3>3, <3>4, <3>5 DEF GroundInv
  <2>7. CASE Draft \/ Redraft
    <3>1. PICK r \in Replies("bilbo") : Apply("bilbo", r)
      BY <2>7 DEF Draft, Redraft, Call
    <3>2. known' = known /\ drafted' = known
      BY <3>1, DraftersKeepKnown
    <3> QED
      BY <2>7, <3>2 DEF Draft, Redraft, Call, GroundInv
  <2>8. CASE Review \/ Rereview
    <3>1. PICK r \in Replies("faramir") : Apply("faramir", r)
      BY <2>8 DEF Review, Rereview, Call
    <3>2. known' = known /\ answer' = answer
      BY <3>1, DraftersKeepKnown, FaramirJudges
    <3>3. drafted' = drafted
      BY <3>1, <3>2 DEF Apply, TypeOK
    <3>4. plan' = plan /\ pc \in {"reviewing", "rereviewing"} /\ pc' = "judging"
      BY <2>8 DEF Review, Rereview, Call
    <3> QED
      BY <3>2, <3>3, <3>4 DEF GroundInv, GathersFirst, Occurrences
  <2>9. CASE Deliver
    BY <2>9 DEF Deliver, Finish, context, history, GroundInv, GathersFirst, Occurrences
  <2>10. CASE Raise
    BY <2>10 DEF Raise, Finish, GroundInv
  <2>11. CASE UNCHANGED vars
    BY <2>11 DEF vars, control, context, history, GroundInv, GathersFirst, Occurrences
  <2> QED
    BY <2>1, <2>2, <2>3, <2>4, <2>5, <2>6, <2>7, <2>8, <2>9, <2>10, <2>11 DEF Next, Step, Done
<1> QED
  BY <1>1, <1>2, TypeCorrect, PTL DEF Spec

\* While results keep to their agents' keys, an answer under a plan that
\* gathers first is written from everything the run has gathered, through
\* fallbacks and revisions.
THEOREM AnswersAreGrounded ==
  ASSUME OnlyFaramirJudges, OnlyBilboWrites, DraftersAddNoData
  PROVE  Spec => []GroundedAnswer
<1>1. EndInv /\ GroundInv => GroundedAnswer
  BY DEF EndInv, GroundInv, GroundedAnswer
<1> QED
  BY <1>1, EndInvariant, GroundInvariant, PTL

-----------------------------------------------------------------------------
(* The number of calls.                                                    *)

\* The places of an agent among the first n of a plan are finitely many, one
\* more with each of them, and all its occurrences at the end.
LEMMA CalledSoFar ==
  ASSUME NEW p \in Seq(Agent), NEW a \in Agent, NEW n \in Nat, n < Len(p)
  PROVE  /\ Cardinality({i \in 1 .. n : p[i] = a}) \in Nat
         /\ Cardinality({i \in 1 .. n + 1 : p[i] = a}) =
              Cardinality({i \in 1 .. n : p[i] = a}) + (IF p[n + 1] = a THEN 1 ELSE 0)
<1> DEFINE S == {i \in 1 .. n : p[i] = a}
<1>1. IsFiniteSet(1 .. n)
  BY FS_Interval
<1>2. IsFiniteSet(S)
  BY <1>1, FS_Subset
<1>3. Cardinality(S) \in Nat
  BY <1>2, FS_CardinalityType
<1>4. CASE p[n + 1] = a
  <2>1. {i \in 1 .. n + 1 : p[i] = a} = S \union {n + 1} /\ n + 1 \notin S
    BY <1>4
  <2> QED
    BY <1>2, <1>3, <1>4, <2>1, FS_AddElement
<1>5. CASE p[n + 1] # a
  <2>1. {i \in 1 .. n + 1 : p[i] = a} = S
    BY <1>5
  <2>2. Cardinality({i \in 1 .. n + 1 : p[i] = a}) = Cardinality(S)
    BY <2>1
  <2> QED
    BY <1>3, <1>5, <2>2
<1> QED
  BY <1>4, <1>5

\* The places among the first of a plan are at most its occurrences.
LEMMA CalledWithinPlan ==
  ASSUME NEW p \in Seq(Agent), NEW a \in Agent, NEW n \in 0 .. Len(p)
  PROVE  /\ Cardinality(Occurrences(p, a)) \in Nat
         /\ Cardinality({i \in 1 .. n : p[i] = a}) \in Nat
         /\ Cardinality({i \in 1 .. n : p[i] = a}) <= Cardinality(Occurrences(p, a))
<1> DEFINE S == {i \in 1 .. n : p[i] = a}
<1>1. Len(p) \in Nat /\ DOMAIN p = 1 .. Len(p)
  OBVIOUS
<1>2. IsFiniteSet(1 .. Len(p))
  BY <1>1, FS_Interval
<1>3. IsFiniteSet(Occurrences(p, a))
  BY <1>1, <1>2, FS_Subset DEF Occurrences
<1>4. S \in SUBSET Occurrences(p, a)
  BY <1>1 DEF Occurrences
<1>5. IsFiniteSet(S) /\ Cardinality(S) <= Cardinality(Occurrences(p, a))
  BY <1>3, <1>4, FS_Subset
<1> QED
  BY <1>3, <1>5, FS_CardinalityType

\* A plan gives every agent a budget.
LEMMA BudgetType ==
  ASSUME TypeOK, NEW a \in Agent
  PROVE  /\ Planned(a) \in Nat /\ Budget(a) \in Nat /\ Planned(a) <= Budget(a)
         /\ a \in {"bilbo", "faramir"} => 1 <= Budget(a)
<1>1. Planned(a) \in Nat
  <2>1. plan \in Seq(Agent) /\ 0 \in 0 .. Len(plan)
    BY DEF TypeOK
  <2> QED
    BY <2>1, CalledWithinPlan DEF Planned
<1> QED
  BY <1>1 DEF Budget

\* One step along the plan adds a place for the agent it passes.
LEMMA NextPlace ==
  ASSUME TypeOK, at \in 1 .. Len(plan), at' = at + 1, plan' = plan, NEW a \in Agent
  PROVE  LET before == Cardinality({i \in 1 .. at - 1 : plan[i] = a})
             after  == Cardinality({i \in 1 .. at' - 1 : plan'[i] = a})
         IN  /\ before \in Nat /\ after \in Nat /\ before <= after
             /\ after = before + (IF plan[at] = a THEN 1 ELSE 0)
             /\ after <= Planned(a)
<1> DEFINE n == at - 1
<1>1. /\ plan \in Seq(Agent) /\ n \in Nat /\ n < Len(plan) /\ n + 1 \in 0 .. Len(plan)
      /\ n + 1 = at /\ at' - 1 = n + 1
  BY DEF TypeOK
<1>2. /\ Cardinality({i \in 1 .. n : plan[i] = a}) \in Nat
      /\ Cardinality({i \in 1 .. n + 1 : plan[i] = a}) =
           Cardinality({i \in 1 .. n : plan[i] = a}) + (IF plan[n + 1] = a THEN 1 ELSE 0)
  BY <1>1, CalledSoFar
<1>3. Cardinality({i \in 1 .. n + 1 : plan[i] = a}) <= Planned(a)
  BY <1>1, CalledWithinPlan DEF Planned
<1>4. {i \in 1 .. at' - 1 : plan'[i] = a} = {i \in 1 .. n + 1 : plan[i] = a}
  BY <1>1
<1> QED
  BY <1>1, <1>2, <1>3, <1>4

\* The agent called is counted, and no other.
LEMMA CallIsCounted ==
  ASSUME TypeOK, NEW a \in Agent, NEW r \in Replies(a), Apply(a, r)
  PROVE  /\ \A b \in Agent : calls[b] \in Nat
         /\ calls'[a] = calls[a] + 1
         /\ \A b \in Agent \ {a} : calls'[b] = calls[b]
         /\ answer = 0 /\ a # "bilbo" => calls'["bilbo"] = calls["bilbo"]
         /\ a = "bilbo" => answer' # 0
         /\ a = "faramir" => review' # "none"
         /\ answer # 0 => answer' # 0
         /\ review # "none" => review' # "none"
<1>1. calls' = [calls EXCEPT ![a] = @ + 1]
  BY DEF Apply
<1>2. "bilbo" \in Agent
  BY DEF Agent
<1>3. /\ \A b \in Agent : calls[b] \in Nat
      /\ calls'[a] = calls[a] + 1
      /\ \A b \in Agent \ {a} : calls'[b] = calls[b]
  BY <1>1 DEF TypeOK
<1>4. a = "bilbo" => answer' # 0
  BY BilboWrites DEF TypeOK
<1>5. a = "faramir" => review' # "none"
  BY FaramirJudges DEF Verdict
<1>6. answer # 0 => answer' # 0
  BY DEF Apply, TypeOK
<1>7. review # "none" => review' # "none"
  BY ReplyKeys DEF Apply, Judged, Verdict
<1> QED
  BY <1>2, <1>3, <1>4, <1>5, <1>6, <1>7

\* Every call is accounted for by a place of the plan, a fallback or a revision.
LEMMA CallsInvariant == Spec => []CallsInv
<1>1. Init => CallsInv
  <2> SUFFICES ASSUME Init PROVE CallsInv
    OBVIOUS
  <2>1. \A a \in Agent : calls[a] = 0
    BY DEF Init
  <2>2. \A a : Occurrences(plan, a) = {}
    BY DEF Init, Occurrences
  <2>3. \A a : Planned(a) = 0
    BY <2>2, FS_EmptySet DEF Planned
  <2> QED
    BY <2>1, <2>3 DEF Init, CallsInv, Budget, Agent
<1>2. TypeOK /\ CallsInv /\ [Next]_vars => CallsInv'
  <2> SUFFICES ASSUME TypeOK, CallsInv, [Next]_vars PROVE CallsInv'
    OBVIOUS
  <2>a. /\ "bilbo" \in Agent /\ "faramir" \in Agent
        /\ \A a \in Agent : calls[a] \in Nat
        /\ revisions \in Nat
    BY DEF Agent, TypeOK, RevisionLimit
  <2>b. \A a \in Agent : /\ Planned(a) \in Nat /\ Budget(a) \in Nat /\ Planned(a) <= Budget(a)
                         /\ a \in {"bilbo", "faramir"} => 1 <= Budget(a)
    BY BudgetType
  <2>c. ASSUME plan' = plan
        PROVE  \A a : Planned(a)' = Planned(a) /\ Budget(a)' = Budget(a)
    BY <2>c DEF Planned, Budget, Occurrences
  <2>1. CASE PlanWorkflow
    <3>1. /\ UNCHANGED <<calls, revisions, answer, review>> /\ pc = "planning" /\ pc' = "executing"
          /\ at' = 1 /\ plan' \in Seq(Agent)
      BY <2>1, PlansAssumption DEF PlanWorkflow, context, history
    <3>2. revisions' = 0 /\ \A a \in Agent : calls'[a] = 0
      BY <3>1 DEF CallsInv
    <3>3. \A a \in Agent : /\ Planned(a)' \in Nat
                           /\ Cardinality({i \in 1 .. at' - 1 : plan'[i] = a}) \in Nat
      <4>1. at' - 1 \in 0 .. Len(plan')
        BY <3>1
      <4> QED
        BY <3>1, <4>1, CalledWithinPlan DEF Planned
    <3>4. \A a \in Agent : Budget(a)' \in Nat
      BY <3>3 DEF Budget
    <3> QED
      BY <3>1, <3>2, <3>3, <3>4, <2>a DEF CallsInv
  <2>2. CASE PlanCapability
    BY <2>2, <2>c DEF PlanCapability, history, CallsInv, Agent
  <2>3. CASE PlanInvalid
    BY <2>3, <2>c DEF PlanInvalid, Finish, context, history, CallsInv
  <2>4. CASE SkipPlanned
    <3>1. /\ pc = "executing" /\ at \in 1 .. Len(plan) /\ at' = at + 1
          /\ UNCHANGED <<pc, plan, revisions, answer, review, calls>>
      BY <2>4 DEF SkipPlanned, TypeOK, context, history
    <3>2. \A a \in Agent : calls'[a] <= Cardinality({i \in 1 .. at' - 1 : plan'[i] = a})
      <4> TAKE a \in Agent
      <4>1. PICK m \in Nat, k \in Nat :
              /\ m = Cardinality({i \in 1 .. at - 1 : plan[i] = a})
              /\ k = Cardinality({i \in 1 .. at' - 1 : plan'[i] = a})
              /\ m <= k
        BY <3>1, NextPlace
      <4>2. calls[a] <= m
        BY <3>1, <4>1 DEF CallsInv
      <4> QED
        BY <2>a, <3>1, <4>1, <4>2
    <3> QED
      BY <2>a, <2>c, <3>1, <3>2 DEF CallsInv
  <2>5. CASE CallPlanned
    <3>1. plan[at] \in Agent /\ at \in 1 .. Len(plan) /\ at' = at + 1
      BY <2>5 DEF CallPlanned, TypeOK
    <3>2. PICK r \in Replies(plan[at]) : Apply(plan[at], r)
      BY <2>5 DEF CallPlanned
    <3>3. /\ pc = "executing" /\ pc' \in {"executing", "done"}
          /\ plan' = plan /\ revisions' = revisions /\ revisions = 0
      BY <2>5 DEF CallPlanned, Finish, CallsInv
    <3>4. /\ calls'[plan[at]] = calls[plan[at]] + 1
          /\ \A b \in Agent \ {plan[at]} : calls'[b] = calls[b]
          /\ plan[at] = "bilbo" => answer' # 0
          /\ plan[at] = "faramir" => review' # "none"
          /\ answer # 0 => answer' # 0
          /\ review # "none" => review' # "none"
      BY <3>1, <3>2, CallIsCounted
    <3>5. \A b \in Agent : calls'[b] <= Cardinality({i \in 1 .. at' - 1 : plan'[i] = b})
      <4> TAKE b \in Agent
      <4>1. PICK m \in Nat, k \in Nat :
              /\ m = Cardinality({i \in 1 .. at - 1 : plan[i] = b})
              /\ k = Cardinality({i \in 1 .. at' - 1 : plan'[i] = b})
              /\ k = m + (IF plan[at] = b THEN 1 ELSE 0)
        BY <3>1, <3>3, NextPlace
      <4>2. calls[b] <= m
        BY <3>3, <4>1 DEF CallsInv
      <4> QED
        BY <2>a, <3>4, <4>1, <4>2
    <3>6. \A b \in Agent : /\ Cardinality({i \in 1 .. at' - 1 : plan'[i] = b}) \in Nat
                           /\ Cardinality({i \in 1 .. at' - 1 : plan'[i] = b}) <= Planned(b)
      BY <3>1, <3>3, NextPlace
    <3>7. \A b \in Agent : calls'[b] \in Nat
      BY <2>a, <3>1, <3>4
    <3>8. \A b \in Agent : calls'[b] <= Planned(b) /\ calls'[b] <= Budget(b)
      <4> TAKE b \in Agent
      <4>1. PICK k \in Nat : calls'[b] <= k /\ k <= Planned(b)
        BY <3>5, <3>6
      <4> QED
        BY <2>b, <3>7, <4>1
    <3>9. answer' = 0 => calls'["bilbo"] = 0
      BY <2>a, <3>1, <3>3, <3>4 DEF CallsInv
    <3>10. review' = "none" => calls'["faramir"] = 0
      BY <2>a, <3>1, <3>3, <3>4 DEF CallsInv
    <3> QED
      BY <2>a, <2>b, <2>c, <3>3, <3>5, <3>7, <3>8, <3>9, <3>10 DEF CallsInv
  <2>6. CASE EndPlan
    <3>1. /\ UNCHANGED <<plan, revisions, answer, review, calls>>
          /\ pc = "executing"
          /\ \/ pc' = "drafting" /\ answer = 0
             \/ pc' = "reviewing" /\ review = "none"
             \/ pc' = "judging"
      BY <2>6 DEF EndPlan, AfterPlan, context, history
    <3> QED
      BY <2>c, <3>1 DEF CallsInv
  <2>7. CASE Draft \/ Redraft
    <3>1. PICK r \in Replies("bilbo") : Apply("bilbo", r)
      BY <2>7 DEF Draft, Redraft, Call
    <3>2. /\ calls'["bilbo"] = calls["bilbo"] + 1
          /\ \A b \in Agent \ {"bilbo"} : calls'[b] = calls[b]
      BY <2>a, <3>1, CallIsCounted
    <3>3. plan' = plan
      BY <2>7 DEF Draft, Redraft, Call
    <3>4. CASE Draft
      <4>1. /\ pc = "drafting" /\ revisions' = revisions
            /\ \/ pc' = "reviewing" /\ review = "none"
               \/ pc' = "judging"
        BY <3>4 DEF Draft, Call
      <4>2. calls["bilbo"] = 0 /\ revisions = 0 /\ (review = "none" => calls["faramir"] = 0)
        BY <4>1 DEF CallsInv
      <4> QED
        BY <2>a, <2>b, <2>c, <3>2, <3>3, <4>1, <4>2 DEF CallsInv
    <3>5. CASE Redraft
      <4>1. pc = "judging" /\ pc' = "rereviewing" /\ revisions' = revisions + 1
        BY <3>5 DEF Redraft, Call
      <4> QED
        BY <2>a, <2>b, <2>c, <3>2, <3>3, <4>1 DEF CallsInv
    <3> QED
      BY <2>7, <3>4, <3>5
  <2>8. CASE Review \/ Rereview
    <3>1. PICK r \in Replies("faramir") : Apply("faramir", r)
      BY <2>8 DEF Review, Rereview, Call
    <3>2. /\ calls'["faramir"] = calls["faramir"] + 1
          /\ \A b \in Agent \ {"faramir"} : calls'[b] = calls[b]
      BY <2>a, <3>1, CallIsCounted
    <3>3. /\ plan' = plan /\ revisions' = revisions /\ pc' = "judging"
          /\ pc \in {"reviewing", "rereviewing"}
      BY <2>8 DEF Review, Rereview, Call
    <3>4. calls["faramir"] + 1 <= Budget("faramir") + revisions
      BY <2>a, <2>b, <3>3 DEF CallsInv
    <3> QED
      BY <2>a, <2>b, <2>c, <3>2, <3>3, <3>4 DEF CallsInv
  <2>9. CASE Deliver
    BY <2>9, <2>c DEF Deliver, Finish, context, history, CallsInv
  <2>10. CASE Raise
    BY <2>10, <2>c DEF Raise, Finish, context, history, CallsInv
  <2>11. CASE UNCHANGED vars
    BY <2>11, <2>c DEF vars, control, context, history, CallsInv
  <2> QED
    BY <2>1, <2>2, <2>3, <2>4, <2>5, <2>6, <2>7, <2>8, <2>9, <2>10, <2>11 DEF Next, Step, Done
<1> QED
  BY <1>1, <1>2, TypeCorrect, PTL DEF Spec

\* Whatever the agents return, none is called more often than the plan, one
\* fallback and the two revisions account for.
THEOREM CallsAreBounded == Spec => []BoundedCalls
<1>1. TypeOK /\ CallsInv => BoundedCalls
  <2> SUFFICES ASSUME TypeOK, CallsInv, NEW a \in Agent
               PROVE  calls[a] <= IF a \in {"bilbo", "faramir"}
                                  THEN RevisionLimit + (IF Planned(a) = 0 THEN 1 ELSE Planned(a))
                                  ELSE Planned(a)
    BY DEF BoundedCalls, Planned
  <2>1. revisions <= RevisionLimit /\ revisions \in Nat /\ RevisionLimit \in Nat /\ calls[a] \in Nat
    BY DEF TypeOK, RevisionLimit
  <2>2. Planned(a) \in Nat
    BY BudgetType
  <2>3. CASE a \in {"bilbo", "faramir"}
    <3>1. calls[a] <= Budget(a) + revisions
      BY <2>3 DEF CallsInv
    <3> QED
      BY <2>1, <2>2, <2>3, <3>1 DEF Budget
  <2>4. CASE a \notin {"bilbo", "faramir"}
    BY <2>4 DEF CallsInv
  <2> QED
    BY <2>3, <2>4
<1> QED
  BY <1>1, TypeCorrect, CallsInvariant, PTL

-----------------------------------------------------------------------------
(* A question ends the run.                                                *)

\* Bilbo and Faramir are never passed over, so that when the plan has been run
\* every place of theirs has been a call, and a further call is one more.
LEMMA QuestionInvariant == Spec => []QuestionInv
<1>1. Init => QuestionInv
  <2> SUFFICES ASSUME Init PROVE QuestionInv
    OBVIOUS
  <2>1. \A a : {i \in 1 .. at - 1 : plan[i] = a} = {}
    BY DEF Init
  <2>2. \A a : Cardinality({i \in 1 .. at - 1 : plan[i] = a}) = 0
    BY <2>1, FS_EmptySet
  <2>3. pc = "planning" /\ plan = <<>> /\ at = 1 /\ ~ asked /\ outcome = "none"
    BY DEF Init
  <2>4. calls["bilbo"] = 0 /\ calls["faramir"] = 0
    BY DEF Init, Agent
  <2> QED
    BY <2>2, <2>3, <2>4 DEF QuestionInv, QuestionEndsRun
<1>2. TypeOK /\ EndInv /\ CallsInv /\ QuestionInv /\ [Next]_vars => QuestionInv'
  <2> SUFFICES ASSUME TypeOK, EndInv, CallsInv, QuestionInv, [Next]_vars PROVE QuestionInv'
    OBVIOUS
  <2>a. \A a \in Agent : calls[a] \in Nat /\ Planned(a) \in Nat
    BY BudgetType DEF TypeOK
  <2>b. "bilbo" \in Agent /\ "faramir" \in Agent
    BY DEF Agent
  <2>c. ASSUME UNCHANGED <<calls, asked, plan, at>>,
               pc' # "planning",
               pc' = "executing" => pc = "executing",
               pc' \in {"drafting", "reviewing", "judging", "rereviewing"} => at = Len(plan) + 1,
               outcome' = "question" <=> outcome = "question"
        PROVE  QuestionInv'
    BY <2>c DEF QuestionInv, QuestionEndsRun, Planned, Occurrences
  <2>d. ASSUME NEW a \in {"bilbo", "faramir"}, NEW r \in Replies(a), Apply(a, r),
               pc \in {"drafting", "reviewing", "judging", "rereviewing"},
               pc' \in {"drafting", "reviewing", "judging", "rereviewing"},
               UNCHANGED <<plan, at, outcome>>
        PROVE  QuestionInv'
    <3>1. /\ calls'[a] = calls[a] + 1
          /\ \A b \in Agent \ {a} : calls'[b] = calls[b]
      BY <2>b, <2>d, CallIsCounted
    <3>2. at = Len(plan) + 1 /\ outcome = "none"
      BY <2>d DEF QuestionInv, EndInv
    <3>3. {i \in 1 .. at - 1 : plan[i] = a} = Occurrences(plan, a)
      BY <3>2 DEF Occurrences, TypeOK
    <3>4. Planned(a) <= calls[a]
      BY <3>3 DEF QuestionInv, Planned
    <3>5. calls'[a] > Planned(a)'
      BY <2>a, <2>b, <2>d, <3>1, <3>4 DEF Planned, Occurrences
    <3>6. \A b \in {"bilbo", "faramir"} : Cardinality({i \in 1 .. at' - 1 : plan'[i] = b}) <= calls'[b]
      <4> TAKE b \in {"bilbo", "faramir"}
      <4>1. Cardinality({i \in 1 .. at' - 1 : plan'[i] = b}) = Cardinality({i \in 1 .. at - 1 : plan[i] = b})
        BY <2>d
      <4>2. at - 1 \in 0 .. Len(plan) /\ plan \in Seq(Agent) /\ b \in Agent
        BY <2>b DEF TypeOK
      <4>3. PICK m \in Nat : m = Cardinality({i \in 1 .. at - 1 : plan[i] = b})
        BY <4>2, CalledWithinPlan
      <4>4. m <= calls[b]
        BY <4>3 DEF QuestionInv
      <4> QED
        BY <2>a, <2>b, <3>1, <4>1, <4>2, <4>3, <4>4
    <3> QED
      BY <2>d, <3>2, <3>5, <3>6 DEF QuestionInv, QuestionEndsRun
  <2>1. CASE PlanWorkflow
    <3>1. /\ UNCHANGED <<calls, asked, outcome>> /\ pc = "planning" /\ pc' = "executing"
          /\ at' = 1 /\ outcome # "question" /\ ~ asked
      BY <2>1 DEF PlanWorkflow, context, history, QuestionInv, EndInv
    <3>2. \A a : {i \in 1 .. at' - 1 : plan'[i] = a} = {}
      BY <3>1
    <3>3. \A a : Cardinality({i \in 1 .. at' - 1 : plan'[i] = a}) = 0
      BY <3>2, FS_EmptySet
    <3> QED
      BY <2>a, <2>b, <3>1, <3>3 DEF QuestionInv, QuestionEndsRun
  <2>2. CASE PlanCapability
    <3>1. /\ UNCHANGED <<calls, asked, outcome, plan, at>> /\ pc = "planning" /\ pc' = "drafting"
      BY <2>2 DEF PlanCapability, history
    <3>2. at = Len(plan) + 1
      BY <3>1 DEF QuestionInv
    <3> QED
      BY <2>c, <3>1, <3>2
  <2>3. CASE PlanInvalid
    BY <2>c, <2>3 DEF PlanInvalid, Finish, context, history, EndInv
  <2>4. CASE SkipPlanned
    <3>1. /\ pc = "executing" /\ pc' = "executing" /\ at \in 1 .. Len(plan) /\ at' = at + 1
          /\ UNCHANGED <<plan, outcome, asked, calls>> /\ plan[at] \notin {"bilbo", "faramir"}
      BY <2>4 DEF SkipPlanned, ShouldSkip, DataAgent, TypeOK, context, history
    <3>2. \A b \in {"bilbo", "faramir"} : Cardinality({i \in 1 .. at' - 1 : plan'[i] = b}) <= calls'[b]
      <4> TAKE b \in {"bilbo", "faramir"}
      <4>0. b \in Agent /\ plan' = plan
        BY <2>b, <3>1
      <4>1. PICK m \in Nat, k \in Nat :
              /\ m = Cardinality({i \in 1 .. at - 1 : plan[i] = b})
              /\ k = Cardinality({i \in 1 .. at' - 1 : plan'[i] = b})
              /\ k = m + (IF plan[at] = b THEN 1 ELSE 0)
        BY <3>1, <4>0, NextPlace
      <4>2. m <= calls[b]
        BY <4>1 DEF QuestionInv
      <4>3. k <= calls'[b]
        BY <3>1, <4>1, <4>2
      <4> QED
        BY <4>1, <4>3
    <3> QED
      BY <3>1, <3>2 DEF QuestionInv, QuestionEndsRun, Planned, Occurrences
  <2>5. CASE CallPlanned
    <3>1. /\ plan[at] \in Agent /\ at \in 1 .. Len(plan) /\ at' = at + 1 /\ plan' = plan
          /\ pc = "executing" /\ outcome = "none"
      BY <2>5 DEF CallPlanned, TypeOK, EndInv
    <3>2. PICK r \in Replies(plan[at]) : Apply(plan[at], r)
      BY <2>5 DEF CallPlanned
    <3>3. /\ calls'[plan[at]] = calls[plan[at]] + 1
          /\ \A b \in Agent \ {plan[at]} : calls'[b] = calls[b]
      BY <3>1, <3>2, CallIsCounted
    <3>4. \/ asked' /\ pc' = "done" /\ outcome' = "question"
          \/ ~ asked' /\ pc' = "executing" /\ outcome' = "none"
      BY <2>5, <3>1 DEF CallPlanned, Interrupts, Finish
    <3>5. \A b \in Agent : Planned(b)' = Planned(b)
      BY <3>1 DEF Planned, Occurrences
    <3>6. \A b \in Agent :
            /\ calls'[b] <= Planned(b)'
            /\ b \in {"bilbo", "faramir"} => Cardinality({i \in 1 .. at' - 1 : plan'[i] = b}) <= calls'[b]
      <4> TAKE b \in Agent
      <4>1. PICK m \in Nat, k \in Nat :
              /\ m = Cardinality({i \in 1 .. at - 1 : plan[i] = b})
              /\ k = Cardinality({i \in 1 .. at' - 1 : plan'[i] = b})
              /\ k = m + (IF plan[at] = b THEN 1 ELSE 0)
              /\ k <= Planned(b)
        BY <3>1, NextPlace
      <4>2. calls[b] <= m
        BY <3>1, <4>1 DEF CallsInv
      <4>3. b \in {"bilbo", "faramir"} => m <= calls[b]
        BY <4>1 DEF QuestionInv
      <4>4. calls'[b] = calls[b] + (IF plan[at] = b THEN 1 ELSE 0)
        BY <2>a, <3>3
      <4>5. calls'[b] <= Planned(b)
        BY <2>a, <4>1, <4>2, <4>4
      <4>6. b \in {"bilbo", "faramir"} => k <= calls'[b]
        BY <2>a, <4>1, <4>3, <4>4
      <4> QED
        BY <3>5, <4>1, <4>5, <4>6
    <3> QED
      BY <2>b, <3>4, <3>6 DEF QuestionInv, QuestionEndsRun
  <2>6. CASE EndPlan
    <3>1. /\ UNCHANGED <<calls, asked, outcome, plan, at>> /\ at = Len(plan) + 1
          /\ pc' \in {"drafting", "reviewing", "judging"}
      BY <2>6 DEF EndPlan, AfterPlan, TypeOK, context, history
    <3> QED
      BY <2>c, <3>1
  <2>7. CASE Draft \/ Redraft
    BY <2>d, <2>7 DEF Draft, Redraft, Call
  <2>8. CASE Review \/ Rereview
    BY <2>d, <2>8 DEF Review, Rereview, Call
  <2>9. CASE Deliver
    BY <2>c, <2>9 DEF Deliver, Decision, Finish, context, history, EndInv
  <2>10. CASE Raise
    BY <2>c, <2>10 DEF Raise, Awaiting, Finish, context, history, EndInv
  <2>11. CASE UNCHANGED vars
    BY <2>11 DEF vars, control, context, history, QuestionInv, QuestionEndsRun, Planned, Occurrences
  <2> QED
    BY <2>1, <2>2, <2>3, <2>4, <2>5, <2>6, <2>7, <2>8, <2>9, <2>10, <2>11 DEF Next, Step, Done
<1> QED
  BY <1>1, <1>2, TypeCorrect, EndInvariant, CallsInvariant, PTL DEF Spec

\* Whatever keys the results have, a question of a planned call ends the run
\* with it; only one asked outside the plan goes unasked.
THEOREM QuestionEnds == Spec => []QuestionEndsRun
<1>1. QuestionInv => QuestionEndsRun
  BY DEF QuestionInv
<1> QED
  BY <1>1, QuestionInvariant, PTL

-----------------------------------------------------------------------------
(* The run keeps the fellowship's promise.                                 *)

\* The remaining facts about phases the refinement needs.
LEMMA PhaseInvariants ==
  ASSUME OnlyBilboWrites
  PROVE  Spec => [](FreshInv /\ DraftInv)
<1> DEFINE Inv == FreshInv /\ DraftInv
<1>1. Init => Inv
  BY DEF Init, FreshInv, DraftInv, Agent
<1>2. TypeOK /\ Inv /\ [Next]_vars => Inv'
  <2> SUFFICES ASSUME TypeOK, Inv, [Next]_vars PROVE Inv'
    OBVIOUS
  <2> USE DEF FreshInv, DraftInv
  <2>1. CASE PlanWorkflow
    BY <2>1 DEF PlanWorkflow
  <2>2. CASE PlanCapability
    BY <2>2 DEF PlanCapability
  <2>3. CASE PlanInvalid
    BY <2>3 DEF PlanInvalid, Finish
  <2>4. CASE SkipPlanned
    BY <2>4 DEF SkipPlanned
  <2>5. CASE CallPlanned
    BY <2>5 DEF CallPlanned, Finish
  <2>6. CASE EndPlan
    BY <2>6 DEF EndPlan, AfterPlan, context
  <2>7. CASE Draft \/ Redraft
    <3>1. PICK r \in Replies("bilbo") : Apply("bilbo", r)
      BY <2>7 DEF Draft, Redraft, Call
    <3>2. answer' = texts + 1
      BY <3>1, BilboWrites
    <3>3. answer' # 0
      BY <3>2 DEF TypeOK
    <3> QED
      BY <2>7, <3>3 DEF Draft, Redraft, Call
  <2>8. CASE Review \/ Rereview
    <3>1. PICK r \in Replies("faramir") : Apply("faramir", r)
      BY <2>8 DEF Review, Rereview, Call
    <3>2. answer # 0 => answer' # 0
      BY <3>1, FaramirJudges
    <3> QED
      BY <2>8, <3>2 DEF Review, Rereview, Call
  <2>9. CASE Deliver
    BY <2>9 DEF Deliver, Finish
  <2>10. CASE Raise
    BY <2>10 DEF Raise, Finish
  <2>11. CASE UNCHANGED vars
    BY <2>11 DEF vars, control, context, history
  <2> QED
    BY <2>1, <2>2, <2>3, <2>4, <2>5, <2>6, <2>7, <2>8, <2>9, <2>10, <2>11 DEF Next, Step, Done
<1> QED
  BY <1>1, <1>2, TypeCorrect, PTL DEF Spec

\* Every run implements the abstract fellowship: its steps are rulings,
\* consultations under clearance, drafts, reviews, one conclusion, or nothing.
THEOREM RunKeepsPromise ==
  ASSUME OnlyAragornClears, OnlyFaramirJudges, OnlyBilboWrites
  PROVE  Spec => KeepsPromise
<1> DEFINE reads == calls["elrond"] + calls["radagast"]
           Inv == /\ TypeOK /\ EndInv /\ ReviewInv /\ RefusalInv
                  /\ FreshInv /\ DraftInv
<1>1. Init => Promise!Init
  BY DEF Init, Promise!Init, DraftStatus, PromisedOutcome, Agent
<1>2. Inv /\ [Next]_vars => [Promise!Next]_(Promise!vars)
  <2> SUFFICES ASSUME Inv, [Next]_vars
               PROVE  Promise!Next \/ UNCHANGED Promise!vars
    OBVIOUS
  <2> USE DEF Promise!vars, Promise!Next
  <2>0. ASSUME outcome = "none", outcome' # "answer"
        PROVE  PromisedOutcome = outcome /\ PromisedOutcome' = outcome'
    BY <2>0 DEF PromisedOutcome
  <2>1. CASE PlanWorkflow
    BY <2>0, <2>1 DEF EndInv, PlanWorkflow, context, history, DraftStatus
  <2>2. CASE PlanCapability
    <3>1. Promise!Rule
      BY <2>0, <2>2 DEF EndInv, PlanCapability, Promise!Rule, Promise!Goes, history, DraftStatus
    <3> QED
      BY <2>0, <2>2, <3>1 DEF PlanCapability, EndInv
  <2>3. CASE PlanInvalid
    <3>1. Promise!FailClosed
      BY <2>0, <2>3 DEF EndInv, PlanInvalid, Finish, FreshInv, Promise!FailClosed,
        context, history, DraftStatus
    <3> QED
      BY <2>0, <2>3, <3>1 DEF PlanInvalid, Finish, EndInv
  <2>4. CASE SkipPlanned
    BY <2>0, <2>4 DEF EndInv, SkipPlanned, context, history, DraftStatus
  <2>5. CASE CallPlanned
    <3> DEFINE a == plan[at]
    <3>1. a \in Agent /\ pc = "executing" /\ outcome = "none"
      BY <2>5 DEF CallPlanned, TypeOK, EndInv
    <3>2. PICK r \in Replies(a) : Apply(a, r)
      BY <2>5 DEF CallPlanned
    <3>3. /\ a \notin {"bilbo", "faramir"} =>
               answer' = answer /\ texts' = texts /\ vetted' = vetted /\ review' = review
          /\ a = "bilbo" => answer' = texts + 1 /\ vetted' = vetted /\ review' = review
          /\ a = "faramir" => /\ answer' = answer /\ review' # "none"
                              /\ review' = "approved" => answer # 0 /\ vetted' = answer
      BY <3>1, <3>2, PlannedCall
    <3>4. calls' = [calls EXCEPT ![a] = @ + 1]
      BY <3>2 DEF Apply
    <3>5. a \notin DataAgent => reads' = reads
      BY <3>1, <3>4 DEF TypeOK, DataAgent, Agent
    <3>6. a \in DataAgent => reads' = reads + 1
      BY <3>1, <3>4 DEF TypeOK, DataAgent, Agent
    <3>7. a # "aragorn" => compliance' = compliance
      <4> SUFFICES ASSUME a # "aragorn" PROVE compliance' = compliance
        OBVIOUS
      <4>1. "is_compliant" \notin r.keys
        BY <3>1, <3>2, ReplyKeys DEF Own, Addable, OnlyAragornClears, Agent
      <4> QED
        BY <3>2, <4>1 DEF Apply, Seen, Clearance
    <3>8. outcome' \in {"none", "question"}
      BY <2>5, <3>1 DEF CallPlanned, Finish
    <3>14. PromisedOutcome = outcome /\ PromisedOutcome' = outcome'
      BY <2>0, <3>1, <3>8
    <3>9. CASE a = "aragorn"
      <4>1. "is_compliant" \in r.keys
        BY <3>1, <3>2, <3>9, ReplyKeys DEF Own
      <4>2. "is_compliant" \in Seen(a, r)
        BY <3>9, <4>1 DEF Seen, Own
      <4>3. compliance' \in {"yes", "no"}
        BY <3>2, <4>2 DEF Apply, Clearance
      <4> QED
        BY <3>1, <3>3, <3>5, <3>8, <3>9, <4>3, <3>14 DEF Promise!Rule, Promise!Goes, DataAgent, DraftStatus
    <3>10. CASE a = "samwise"
      BY <3>1, <3>3, <3>5, <3>7, <3>8, <3>10, <3>14 DEF Promise!Ask, DataAgent, DraftStatus
    <3>11. CASE a \in DataAgent
      <4>1. compliance = "yes"
        BY <2>5, <3>11 DEF CallPlanned, ShouldSkip
      <4> QED
        BY <3>1, <3>3, <3>6, <3>7, <3>8, <3>11, <4>1, <3>14 DEF Promise!Consult, Promise!Goes, DataAgent, DraftStatus
    <3>12. CASE a = "bilbo"
      <4>1. DraftStatus' = "unapproved"
        BY <3>3, <3>12 DEF DraftStatus, TypeOK
      <4> QED
        BY <3>1, <3>5, <3>7, <3>8, <3>12, <4>1, <3>14 DEF Promise!Write, Promise!Goes, DataAgent
    <3>13. CASE a = "faramir"
      <4>1. answer' = answer
        BY <3>3, <3>13
      <4> QED
        BY <3>1, <3>5, <3>7, <3>8, <3>13, <4>1, <3>14 DEF Promise!Judge, Promise!Ask, Promise!Goes, DataAgent, DraftStatus
    <3> QED
      BY <3>1, <3>9, <3>10, <3>11, <3>12, <3>13 DEF Agent, DataAgent
  <2>6. CASE EndPlan
    BY <2>0, <2>6 DEF EndInv, EndPlan, context, history, DraftStatus
  <2>7. CASE Draft \/ Redraft
    <3>1. PICK r \in Replies("bilbo") : Apply("bilbo", r)
      BY <2>7 DEF Draft, Redraft, Call
    <3>2. /\ answer' = texts + 1 /\ vetted' = vetted /\ compliance' = compliance
          /\ calls'["elrond"] = calls["elrond"] /\ calls'["radagast"] = calls["radagast"]
      BY <3>1, BilboWrites
    <3>3. DraftStatus' = "unapproved"
      BY <3>2 DEF DraftStatus, TypeOK
    <3>4. outcome = "none" /\ outcome' = outcome
      BY <2>7 DEF Draft, Redraft, Call, EndInv
    <3> QED
      BY <2>0, <3>2, <3>3, <3>4 DEF Promise!Write, Promise!Goes
  <2>8. CASE Review \/ Rereview
    <3>1. PICK r \in Replies("faramir") : Apply("faramir", r)
      BY <2>8 DEF Review, Rereview, Call
    <3>2. /\ answer' = answer /\ compliance' = compliance
          /\ calls'["elrond"] = calls["elrond"] /\ calls'["radagast"] = calls["radagast"]
      BY <3>1, FaramirJudges
    <3>3. outcome = "none" /\ outcome' = outcome
      BY <2>8 DEF Review, Rereview, Call, EndInv
    <3> QED
      BY <2>0, <3>2, <3>3 DEF Promise!Judge, Promise!Goes, DraftStatus
  <2>9. CASE Deliver
    <3>1. /\ outcome = "none" /\ answer # 0 /\ outcome' = Decision
          /\ UNCHANGED <<plan, context, history>>
      BY <2>9 DEF Deliver, Finish, EndInv, DraftInv
    <3>2. UNCHANGED <<compliance, reads, DraftStatus>> /\ PromisedOutcome = "none"
      BY <3>1 DEF context, history, DraftStatus, PromisedOutcome
    <3>3. CASE review = "approved" /\ ReviewerHasLastWord(plan)
      <4>1. answer = vetted
        BY <2>9, <3>3 DEF Deliver, ReviewInv
      <4>2. PromisedOutcome' = "answer"
        BY <3>1, <3>3 DEF Decision, PromisedOutcome, ReviewerHasLastWord, Occurrences
      <4> QED
        BY <3>1, <3>2, <3>3, <4>1, <4>2 DEF DraftStatus, Promise!Answer
    <3>4. CASE review = "approved" /\ ~ ReviewerHasLastWord(plan)
      <4>1. PromisedOutcome' = "none"
        BY <3>1, <3>4 DEF Decision, PromisedOutcome, ReviewerHasLastWord, Occurrences
      <4> QED
        BY <3>2, <4>1
    <3>5. CASE review # "approved"
      <4>1. PromisedOutcome' = "refusal"
        BY <3>1, <3>5 DEF Decision, PromisedOutcome
      <4> QED
        BY <3>1, <3>2, <3>5, <4>1 DEF DraftStatus, Promise!Refuse
    <3> QED
      BY <3>3, <3>4, <3>5
  <2>10. CASE Raise
    <3>1. pc # "done"
      BY <2>10 DEF Raise, Awaiting
    <3> QED
      BY <2>0, <2>10, <3>1
      DEF Raise, Finish, context, history, DraftStatus, EndInv, Promise!Break
  <2>11. CASE UNCHANGED vars
    BY <2>11 DEF vars, control, context, history, DraftStatus, PromisedOutcome,
      ReviewerHasLastWord, Occurrences
  <2> QED
    BY <2>1, <2>2, <2>3, <2>4, <2>5, <2>6, <2>7, <2>8, <2>9, <2>10, <2>11 DEF Next, Step, Done
<1>3. Spec => []Inv
  BY TypeCorrect, EndInvariant, ReviewInvariant, RefusalInvariant, PhaseInvariants, PTL
<1> QED
  BY <1>1, <1>2, <1>3, PTL DEF Spec, KeepsPromise, Promise!Spec

=============================================================================
