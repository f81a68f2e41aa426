----------------------------- MODULE Fellowship -----------------------------
(***************************************************************************)
(* What the fellowship promises the user of one run, whatever the plan and *)
(* however often an agent is asked (docs/multi-agent-fellowship.md,        *)
(* "Normal request path" and "Blocked request path"): data is read only    *)
(* under Aragorn's clearance, and a draft becomes the answer only with     *)
(* Faramir's approval of that draft.                                       *)
(***************************************************************************)
EXTENDS Naturals

VARIABLES
  clearance,  \* the ruling in force: none yet, yes, no (Aragorn's, or
              \* Gandalf's own for a help request)
  reads,      \* number of times a data specialist was consulted
  draft,      \* no draft, one not approved, one approved
  outcome

vars == <<clearance, reads, draft, outcome>>

Init == clearance = "none" /\ reads = 0 /\ draft = "none" /\ outcome = "none"

\* Whoever is asked may need to ask the user, and the run may end with that
\* question.
Goes == outcome' \in {"none", "question"}

Rule ==
  /\ clearance' \in {"yes", "no"}
  /\ Goes
  /\ UNCHANGED <<reads, draft>>

\* Hotel or weather data is read.
Consult ==
  /\ clearance = "yes"
  /\ reads' = reads + 1
  /\ Goes
  /\ UNCHANGED <<clearance, draft>>

\* A new draft needs a new review.
Write ==
  /\ draft' = "unapproved"
  /\ Goes
  /\ UNCHANGED <<clearance, reads>>

\* A review approves the draft, or withdraws an earlier approval of it.
Judge ==
  /\ draft # "none"
  /\ draft' \in {"approved", "unapproved"}
  /\ Goes
  /\ UNCHANGED <<clearance, reads>>

\* A specialist who does none of this, Samwise, has a question.
Ask == outcome' = "question" /\ UNCHANGED <<clearance, reads, draft>>

Answer == draft = "approved" /\ outcome' = "answer" /\ UNCHANGED <<clearance, reads, draft>>
Refuse == draft = "unapproved" /\ outcome' = "refusal" /\ UNCHANGED <<clearance, reads, draft>>

\* Without a valid plan nobody is asked and nothing is read.
FailClosed ==
  /\ clearance = "none" /\ reads = 0 /\ draft = "none"
  /\ outcome' = "failure"
  /\ UNCHANGED <<clearance, reads, draft>>

Break == outcome' = "raised" /\ UNCHANGED <<clearance, reads, draft>>

Next ==
  /\ outcome = "none"
  /\ Rule \/ Consult \/ Write \/ Judge \/ Ask \/ Answer \/ Refuse \/ FailClosed \/ Break

Spec == Init /\ [][Next]_vars

=============================================================================
