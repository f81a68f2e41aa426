----------------------------- MODULE ChatThread -----------------------------
(***************************************************************************)
(* The requests of one conversation thread: build_graph_input decides from *)
(* a snapshot of the thread's latest checkpoint whether a message is a new *)
(* request or the answer to a clarifying question, LangGraph runs the one  *)
(* node of the graph (gandalf_wrapped in graph.py), and the node pauses    *)
(* with interrupt() while the supervisor needs the user.                   *)
(*                                                                         *)
(* A message is named by its request.  The checkpoint store and the        *)
(* interrupt/resume protocol are LangGraph's: a run works on a copy of the *)
(* checkpoint it loaded, a pause keeps the resume values heard so far with *)
(* that checkpoint, a resumed node runs again from its first line.         *)
(***************************************************************************)
EXTENDS Integers, SequencesExt

CONSTANTS
  Request,  \* the messages sent to the thread
  Checkpointed,  \* has the graph a checkpointer (persistence_enabled)?
  Faults,   \* what may go wrong, see Fault
  MaxSends  \* bound: how often a message is sent, reconnections included

Fault == {"overlap",     \* a message is sent while another one is in progress
          "failure",     \* a provider call raises
          "crash",       \* the server stops and is started again
          "disconnect"}  \* the browser's event stream breaks and reconnects

ASSUME CheckpointedAssumption == Checkpointed \in BOOLEAN
ASSUME FaultsAssumption == Faults \subseteq Fault
ASSUME MaxSendsAssumption == MaxSends \in Nat \ {0}

VARIABLES
  ckpts,    \* the thread's checkpoints, the latest one last
  pc,       \* progress of each request
  mode,     \* graph input: initial state ("new") or Command(resume) ("resume")
  base,     \* checkpoint the request's run works on
  resumes,  \* resume values of the run's task
  spare,    \* has the run a resume value no interrupt() has taken yet?
  heard,    \* clarifications the supervisor has been given in this execution
  reply,    \* what the request was answered
  sent      \* history, read by no code: order and number of arrivals, whether
            \* two messages have been in progress at once, whether a run has
            \* failed, broken off or been lost in a crash

run  == <<mode, base, resumes, spare, heard>>
vars == <<ckpts, pc, run, reply, sent>>

Null   == [kind |-> "none"]
Open   == {"arrived", "ready", "running"}
Latest == ckpts[Len(ckpts)]

Reply(kind, owner, words) == [kind |-> kind, owner |-> owner, heard |-> words]

Init ==
  /\ ckpts = <<>>
  /\ pc      = [r \in Request |-> "idle"]
  /\ mode    = [r \in Request |-> "none"]
  /\ base    = [r \in Request |-> 0]
  /\ resumes = [r \in Request |-> <<>>]
  /\ spare   = [r \in Request |-> FALSE]
  /\ heard   = [r \in Request |-> <<>>]
  /\ reply   = [r \in Request |-> Null]
  /\ sent    = [order |-> [r \in Request |-> 0], count |-> 0,
                overlapped |-> FALSE, broken |-> FALSE]

-----------------------------------------------------------------------------
(* Arrival and the choice of the graph input.                              *)

\* chat_stream_events and query are called; a broken event stream is opened
\* again by the browser with the same message.
Send(r) ==
  /\ pc[r] \in {"idle", "gone"}
  /\ pc[r] = "idle" \/ Faults \intersect {"crash", "disconnect"} # {}
  /\ "overlap" \in Faults \/ \A q \in Request : pc[q] \notin Open
  /\ sent.count < MaxSends
  /\ pc'   = [pc EXCEPT ![r] = "arrived"]
  /\ sent' = [order |-> [sent.order EXCEPT ![r] = sent.count + 1], count |-> sent.count + 1,
              overlapped |-> sent.overlapped \/ \E q \in Request : pc[q] \in Open,
              broken |-> sent.broken]
  /\ UNCHANGED <<ckpts, run, reply>>

BugFirstMessageOnly == Checkpointed /\ Len(ckpts) = 1 /\ Latest.next
BugAnyCheckpoint    == Checkpointed /\ ckpts # <<>>
BugOnlyPaused       == Checkpointed /\ ckpts # <<>> /\ Latest.paused

\* bool(snapshot.next), and False for a graph that was built without a
\* checkpointer: what is in ckpts then is the runs' own, nobody looks it up.
HasPendingInterrupt == Checkpointed /\ ckpts # <<>> /\ Latest.next

Check(r) ==
  /\ pc[r] = "arrived"
  /\ pc'   = [pc EXCEPT ![r] = "ready"]
  /\ mode' = [mode EXCEPT ![r] = IF HasPendingInterrupt THEN "resume" ELSE "new"]
  /\ UNCHANGED <<ckpts, base, resumes, spare, heard, reply, sent>>

-----------------------------------------------------------------------------
(* The run.                                                                *)

BugKeepMessages(r) ==
  [owner |-> IF ckpts = <<>> THEN r ELSE Latest.owner, next |-> TRUE, paused |-> FALSE,
   resumes |-> <<>>]

\* create_initial_state: the channels get the request's own values.
NewTurn(r) ==
  [owner |-> r, next |-> TRUE, paused |-> FALSE, resumes |-> <<>>]

StartNew(r) ==
  /\ pc[r] = "ready" /\ mode[r] = "new"
  /\ ckpts'   = Append(ckpts, NewTurn(r))
  /\ base'    = [base EXCEPT ![r] = Len(ckpts) + 1]
  /\ resumes' = [resumes EXCEPT ![r] = <<>>]
  /\ spare'   = [spare EXCEPT ![r] = FALSE]
  /\ heard'   = [heard EXCEPT ![r] = <<>>]
  /\ pc'      = [pc EXCEPT ![r] = "running"]
  /\ UNCHANGED <<mode, reply, sent>>

BugResumeEnded(r) ==
  /\ pc[r] = "ready" /\ mode[r] = "resume"
  /\ base'    = [base EXCEPT ![r] = Len(ckpts)]
  /\ resumes' = [resumes EXCEPT ![r] = Latest.resumes]
  /\ spare'   = [spare EXCEPT ![r] = TRUE]
  /\ heard'   = [heard EXCEPT ![r] = <<>>]
  /\ pc'      = [pc EXCEPT ![r] = "running"]
  /\ UNCHANGED <<ckpts, mode, reply, sent>>

StartResume(r) ==
  /\ pc[r] = "ready" /\ mode[r] = "resume"
  /\ Latest.next
  /\ base'    = [base EXCEPT ![r] = Len(ckpts)]
  /\ resumes' = [resumes EXCEPT ![r] = Latest.resumes]
  /\ spare'   = [spare EXCEPT ![r] = TRUE]
  /\ heard'   = [heard EXCEPT ![r] = <<>>]
  /\ pc'      = [pc EXCEPT ![r] = "running"]
  /\ ckpts'   = [ckpts EXCEPT ![Len(ckpts)].paused = FALSE]
  /\ UNCHANGED <<mode, reply, sent>>

BugWaitForInterrupt(r) == FALSE /\ UNCHANGED vars

\* The run that was pending at Check has ended meanwhile: nothing is left to
\* run, the stream says "done", process_chat returns the state as it stands.
StartNothing(r) ==
  /\ pc[r] = "ready" /\ mode[r] = "resume"
  /\ ~ Latest.next
  /\ pc'    = [pc EXCEPT ![r] = "done"]
  /\ reply' = [reply EXCEPT ![r] = Reply("stale", Latest.owner, <<>>)]
  /\ UNCHANGED <<ckpts, run, sent>>

\* supervisor.run returns an answer: the node ends, the update is applied to
\* the run's copy of the state and becomes the latest checkpoint.
Answer(r) ==
  /\ pc[r] = "running"
  /\ ckpts' = Append(ckpts, [ckpts[base[r]] EXCEPT !.next = FALSE, !.paused = FALSE,
                                                  !.resumes = <<>>])
  /\ pc'    = [pc EXCEPT ![r] = "done"]
  /\ reply' = [reply EXCEPT ![r] = Reply("answer", ckpts[base[r]].owner, heard[r])]
  /\ UNCHANGED <<run, sent>>

Next1(r) == Len(heard[r]) + 1

\* supervisor.run asks, and this interrupt() has a value: the clarification is
\* added to the query and the supervisor is run again.
Rerun(r) ==
  /\ pc[r] = "running"
  /\ \/ /\ Next1(r) <= Len(resumes[r])
        /\ heard' = [heard EXCEPT ![r] = Append(@, resumes[r][Next1(r)])]
        /\ UNCHANGED <<resumes, spare>>
     \/ /\ Next1(r) > Len(resumes[r])
        /\ spare[r]
        /\ heard'   = [heard EXCEPT ![r] = Append(@, r)]
        /\ resumes' = [resumes EXCEPT ![r] = Append(@, r)]
        /\ spare'   = [spare EXCEPT ![r] = FALSE]
  /\ UNCHANGED <<ckpts, pc, mode, base, reply, sent>>

BugForgetResumes(r) == <<>>

\* What a task that ends without an update leaves with its checkpoint.
Kept(r) == resumes[r]

\* supervisor.run asks, and no value is left: the run pauses with the question.
Pause(r) ==
  /\ pc[r] = "running"
  /\ Next1(r) > Len(resumes[r]) /\ ~ spare[r]
  /\ ckpts' = [ckpts EXCEPT ![base[r]].paused = TRUE, ![base[r]].resumes = Kept(r)]
  /\ pc'    = [pc EXCEPT ![r] = "done"]
  /\ reply' = [reply EXCEPT ![r] = Reply("question", ckpts[base[r]].owner, heard[r])]
  /\ UNCHANGED <<run, sent>>

Broken ==
  [order |-> sent.order, count |-> sent.count, overlapped |-> sent.overlapped, broken |-> TRUE]

Fail(r) ==
  /\ "failure" \in Faults
  /\ pc[r] = "running"
  /\ ckpts' = [ckpts EXCEPT ![base[r]].resumes = Kept(r)]
  /\ pc'    = [pc EXCEPT ![r] = "done"]
  /\ reply' = [reply EXCEPT ![r] = Reply("error", ckpts[base[r]].owner, heard[r])]
  /\ sent'  = Broken
  /\ UNCHANGED run

\* The stream is cancelled; what the task had heard may or may not be saved.
Disconnect(r) ==
  /\ "disconnect" \in Faults
  /\ pc[r] \in Open
  /\ pc' = [pc EXCEPT ![r] = "gone"]
  /\ \/ UNCHANGED ckpts
     \/ /\ pc[r] = "running"
        /\ ckpts' = [ckpts EXCEPT ![base[r]].resumes = Kept(r)]
  /\ sent' = Broken
  /\ UNCHANGED <<run, reply>>

Crash ==
  /\ "crash" \in Faults
  /\ \E r \in Request : pc[r] \in Open
  /\ pc' = [r \in Request |-> IF pc[r] \in Open THEN "gone" ELSE pc[r]]
  /\ sent' = Broken
  /\ UNCHANGED <<ckpts, run, reply>>

Serve(r) ==
  \/ Check(r)
  \/ StartNew(r) \/ StartResume(r) \/ StartNothing(r)
  \/ Answer(r) \/ Rerun(r) \/ Pause(r)

Next ==
  \/ \E r \in Request : Send(r) \/ Serve(r) \/ Fail(r) \/ Disconnect(r)
  \/ Crash

\* The event loop runs every request on and the supervisor's runs end; a client
\* need not send, nothing has to break.
Fairness == \A r \in Request : WF_vars(Serve(r))

Spec == Init /\ [][Next]_vars /\ Fairness

-----------------------------------------------------------------------------
(* Properties.                                                             *)

Checkpoint ==
  [owner : Request, next : BOOLEAN, paused : BOOLEAN, resumes : Seq(Request)]

Replies ==
  [kind : {"answer", "question", "error", "stale"}, owner : Request, heard : Seq(Request)]

\* Types, and what the indices point at: a running request has a checkpoint
\* that still waits for its node, and has heard no more than it was resumed with.
TypeOK ==
  /\ ckpts \in Seq(Checkpoint)
  /\ pc \in [Request -> {"idle", "arrived", "ready", "running", "done", "gone"}]
  /\ mode \in [Request -> {"none", "new", "resume"}]
  /\ base \in [Request -> 0 .. Len(ckpts)]
  /\ resumes \in [Request -> Seq(Request)] /\ heard \in [Request -> Seq(Request)]
  /\ spare \in [Request -> BOOLEAN]
  /\ reply \in [Request -> Replies \union {Null}]
  /\ \A r \in Request : pc[r] = "running" =>
       base[r] # 0 /\ ckpts[base[r]].next /\ IsPrefix(heard[r], resumes[r])

\* A message that was taken for a new request is answered, asked about or
\* failed on its own account, without clarifications meant for another one,
\* whatever else happens on the thread meanwhile.
OwnAnswer ==
  \A r \in Request :
    mode[r] = "new" /\ pc[r] = "done" => reply[r].owner = r /\ reply[r].heard = <<>>

\* Every message that has arrived is served or its stream is lost: however
\* often the supervisor asks, a run ends.
Served == \A r \in Request : pc[r] = "arrived" ~> pc[r] \in {"done", "gone"}

\* has_pending_interrupt as its docstring has it: a message is a resume value
\* exactly when the thread is paused at a question.
ResumesOnlyPauses ==
  [][\A r \in Request :
       pc[r] = "arrived" /\ pc'[r] = "ready" =>
         (mode'[r] = "resume" <=> Checkpointed /\ ckpts # <<>> /\ Latest.paused)]_vars

\* What the code does make true: has_pending_interrupt tells a clarification
\* from a new request as long as no run has failed or been cut off and messages
\* wait for their replies.
PendingMeansPaused ==
  [][\A r \in Request :
       ~ sent.overlapped /\ ~ sent.broken /\ pc[r] = "arrived" /\ pc'[r] = "ready" =>
         (mode'[r] = "resume" <=> Checkpointed /\ ckpts # <<>> /\ Latest.paused)]_vars

\* While a thread that is used one message at a time and where nothing has broken
\* waits with a question, the resume values kept with it are exactly the
\* clarifications sent since the request it is about, once and in order.  That an
\* answer has heard them is another matter: ClarificationIsHeard.
DoneAfter(r) == {q \in Request : pc[q] = "done" /\ sent.order[q] > sent.order[r]}

InOrder(words) ==
  \A i, j \in DOMAIN words : i < j => sent.order[words[i]] < sent.order[words[j]]

ClarificationsComplete ==
  ~ sent.overlapped /\ ~ sent.broken /\ ckpts # <<>> /\ Latest.paused =>
    /\ ToSet(Latest.resumes) = DoneAfter(Latest.owner)
    /\ InOrder(Latest.resumes)

\* A request whose node has not ended stays the thread's request, with the
\* clarifications kept for it, through later messages, failed runs, broken
\* streams and restarts, until it is answered; and a run that ends with a
\* question or in a failure leaves with it everything its supervisor has heard.
\* Lost is what no interrupt() had taken when a run failed, and what a run heard
\* that was cut off or crashed: the property says nothing of these.
KeepsClarifications ==
  /\ ckpts # <<>> /\ Latest.next =>
       /\ Latest'.owner = Latest.owner
       /\ Latest'.next => IsPrefix(Latest.resumes, Latest'.resumes)
  /\ \A r \in Request :
       pc[r] = "running" /\ pc'[r] = "done" /\ reply'[r].kind # "answer" =>
         IsPrefix(heard[r], Latest'.resumes)

ClarificationsKept == [][Checkpointed /\ ~ sent.overlapped => KeepsClarifications]_vars

\* Until messages overlap none falls between a run that has ended and one that
\* never starts, whatever else breaks.
NoneFallsThrough ==
  ~ sent.overlapped => \A r \in Request : pc[r] = "done" => reply[r].kind # "stale"

\* A clarification that was asked for is part of the answer it leads to.
ClarificationIsHeard ==
  \A r \in Request :
    mode[r] = "resume" /\ pc[r] = "done" /\ reply[r].kind = "answer" =>
      \E i \in DOMAIN reply[r].heard : reply[r].heard[i] = r

-----------------------------------------------------------------------------
(* Inductive strengthenings, used by the proofs in ChatThreadProofs.       *)

ModeInv ==
  \A r \in Request :
    pc[r] = "ready" => mode[r] = "new" \/ (mode[r] = "resume" /\ ckpts # <<>>)

\* The run of a new request works on that request's checkpoint and has no
\* resume value to give away.
NewRunInv ==
  \A r \in Request :
    pc[r] = "running" /\ mode[r] = "new" =>
      ckpts[base[r]].owner = r /\ resumes[r] = <<>> /\ ~ spare[r]

\* One message at a time: its run works on the latest checkpoint and knows
\* everything the thread has kept there.
Alone ==
  /\ \A r, q \in Request : pc[r] \in Open /\ pc[q] \in Open => r = q
  /\ \A r \in Request : pc[r] = "ready" /\ mode[r] = "resume" => Latest.next
  /\ \A r \in Request : pc[r] = "ready" /\ mode[r] = "new" => ~ HasPendingInterrupt
  /\ \A r \in Request : pc[r] = "running" =>
       base[r] = Len(ckpts) /\ IsPrefix(ckpts[base[r]].resumes, resumes[r])

AloneInv == ~ sent.overlapped => Alone

\* One message at a time and nothing broken: between two runs the thread is
\* paused exactly when its node has not ended.
PausedInv ==
  ~ sent.overlapped /\ ~ sent.broken /\ ckpts # <<>> /\ (\A r \in Request : pc[r] # "running") => (Latest.next <=> Latest.paused)

ArrivalInv ==
  sent.count \in Nat /\ sent.order \in [Request -> 0 .. sent.count]

Calm == ~ sent.overlapped /\ ~ sent.broken

\* The message in progress is the youngest of those that have arrived.
YoungestOpen ==
  \A r, q \in Request : pc[r] \in Open /\ pc[q] = "done" => sent.order[q] < sent.order[r]

\* A run has what was said since the request it is about, and its own message
\* once an interrupt() has taken it.
RunKnows(r, owner) ==
  /\ ~ ckpts[base[r]].paused
  /\ InOrder(resumes[r])
  /\ spare[r] => pc[owner] = "done" /\ ToSet(resumes[r]) = DoneAfter(owner)
  /\ ~ spare[r] => /\ owner = r \/ pc[owner] = "done"
                  /\ ToSet(resumes[r]) = DoneAfter(owner) \union ({r} \ {owner})

\* A thread that waits for the user has everything that was said.
ThreadKnows ==
  /\ pc[Latest.owner] = "done"
  /\ InOrder(Latest.resumes)
  /\ ToSet(Latest.resumes) = DoneAfter(Latest.owner)

Knows ==
  /\ YoungestOpen
  /\ \A r \in Request : pc[r] = "running" => RunKnows(r, ckpts[base[r]].owner)
  /\ ckpts # <<>> /\ Latest.next /\ (\A r \in Request : pc[r] # "running") => ThreadKnows

KnowsInv == Calm => Knows

=============================================================================
