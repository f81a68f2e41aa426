-------------------------- MODULE ChatThreadProofs --------------------------
(***************************************************************************)
(* Theorems about ChatThread, for any set of messages and any number of    *)
(* arrivals.                                                               *)
(***************************************************************************)
EXTENDS ChatThread, SequenceTheorems, TLAPS

-----------------------------------------------------------------------------
(* Prefixes.                                                               *)

LEMMA PrefixReflexive ==
  ASSUME NEW S, NEW s \in Seq(S)
  PROVE  IsPrefix(s, s)
BY DEF IsPrefix

LEMMA PrefixByElements ==
  ASSUME NEW S, NEW s \in Seq(S), NEW t \in Seq(S)
  PROVE  IsPrefix(s, t) <=> Len(s) <= Len(t) /\ \A i \in 1 .. Len(s) : s[i] = t[i]
<1>1. CASE Len(s) <= Len(t)
  <2>1. /\ SubSeq(s, 1, Len(s)) = [i \in 1 .. Len(s) |-> s[i]]
        /\ SubSeq(t, 1, Len(s)) = [i \in 1 .. Len(s) |-> t[i]]
    BY <1>1
  <2> QED
    BY <1>1, <2>1 DEF IsPrefix
<1>2. CASE ~ (Len(s) <= Len(t))
  BY <1>2 DEF IsPrefix
<1> QED
  BY <1>1, <1>2

LEMMA PrefixEmpty ==
  ASSUME NEW S, NEW s \in Seq(S)
  PROVE  <<>> \in Seq(S) /\ IsPrefix(<<>>, s)
<1>1. <<>> \in Seq(S) /\ Len(<<>>) = 0 /\ Len(s) \in Nat
  OBVIOUS
<1>2. ASSUME NEW e \in Seq(S), Len(e) = 0 PROVE IsPrefix(e, s)
  <2>1. Len(e) <= Len(s) /\ \A i \in 1 .. Len(e) : e[i] = s[i]
    BY <1>1, <1>2
  <2> QED
    BY <2>1, PrefixByElements
<1> QED
  BY <1>1, <1>2

LEMMA PrefixAppend ==
  ASSUME NEW S, NEW s \in Seq(S), NEW t \in Seq(S), NEW e \in S, IsPrefix(s, t)
  PROVE  IsPrefix(s, Append(t, e))
<1>1. Append(t, e) \in Seq(S) /\ Len(Append(t, e)) = Len(t) + 1
  OBVIOUS
<1>2. \A i \in 1 .. Len(t) : Append(t, e)[i] = t[i]
  OBVIOUS
<1>3. Len(s) \in Nat /\ Len(t) \in Nat
  OBVIOUS
<1>4. Len(s) <= Len(t) /\ \A i \in 1 .. Len(s) : s[i] = t[i]
  BY PrefixByElements
<1>5. \A i \in 1 .. Len(s) : s[i] = Append(t, e)[i]
  BY <1>2, <1>3, <1>4
<1>6. Len(s) <= Len(Append(t, e))
  BY <1>1, <1>3, <1>4
<1> HIDE DEF IsPrefix
<1> QED
  BY <1>1, <1>5, <1>6, PrefixByElements

\* Hearing the next resume value.
LEMMA PrefixNext ==
  ASSUME NEW S, NEW s \in Seq(S), NEW t \in Seq(S), IsPrefix(s, t), Len(s) + 1 <= Len(t)
  PROVE  IsPrefix(Append(s, t[Len(s) + 1]), t)
<1> DEFINE a == Append(s, t[Len(s) + 1])
<1>1. t[Len(s) + 1] \in S
  OBVIOUS
<1>2. a \in Seq(S) /\ Len(a) = Len(s) + 1
  BY <1>1
<1>3. \A i \in 1 .. Len(s) : a[i] = s[i] /\ s[i] = t[i]
  BY <1>1, PrefixByElements
<1>4. a[Len(s) + 1] = t[Len(s) + 1]
  BY <1>1
<1>5. \A i \in 1 .. Len(a) : a[i] = t[i]
  BY <1>2, <1>3, <1>4
<1> QED
  BY <1>2, <1>5, PrefixByElements

\* Hearing a new value, which is kept.
LEMMA PrefixBoth ==
  ASSUME NEW S, NEW s \in Seq(S), NEW t \in Seq(S), NEW e \in S, IsPrefix(s, t), Len(s) + 1 > Len(t)
  PROVE  IsPrefix(Append(s, e), Append(t, e))
<1>1. Len(s) = Len(t) /\ \A i \in 1 .. Len(s) : s[i] = t[i]
  BY PrefixByElements
<1>2. s = t
  BY <1>1
<1>3. Append(s, e) \in Seq(S)
  OBVIOUS
<1> QED
  BY <1>2, <1>3, PrefixReflexive

-----------------------------------------------------------------------------
(* What the actions do to the checkpoints.                                 *)

\* A checkpoint is added at the end.
Added(c) ==
  /\ ckpts' \in Seq(Checkpoint) /\ Len(ckpts') = Len(ckpts) + 1
  /\ \A i \in 1 .. Len(ckpts) : ckpts'[i] = ckpts[i]
  /\ ckpts'[Len(ckpts) + 1] = c

\* What one checkpoint says about its pause is changed.
Updated(b, paused, words) ==
  /\ ckpts' \in Seq(Checkpoint) /\ Len(ckpts') = Len(ckpts)
  /\ \A i \in 1 .. Len(ckpts) :
       ckpts'[i].owner = ckpts[i].owner /\ ckpts'[i].next = ckpts[i].next
  /\ \A i \in 1 .. Len(ckpts) : i # b => ckpts'[i] = ckpts[i]
  /\ ckpts'[b].paused = paused /\ ckpts'[b].resumes = words

LEMMA AppendAdds ==
  ASSUME ckpts \in Seq(Checkpoint), NEW c \in Checkpoint, ckpts' = Append(ckpts, c)
  PROVE  Added(c)
BY DEF Added

LEMMA ExceptUpdates ==
  ASSUME ckpts \in Seq(Checkpoint), NEW b \in 1 .. Len(ckpts),
         NEW p \in BOOLEAN, NEW w \in Seq(Request),
         ckpts' = [ckpts EXCEPT ![b] = [ckpts[b] EXCEPT !.paused = p, !.resumes = w]]
  PROVE  Updated(b, p, w)
<1>1. ckpts[b] \in Checkpoint
  OBVIOUS
<1>2. PICK c \in Checkpoint :
        /\ c = [ckpts[b] EXCEPT !.paused = p, !.resumes = w]
        /\ c.owner = ckpts[b].owner /\ c.next = ckpts[b].next
        /\ c.paused = p /\ c.resumes = w
  <2> DEFINE e == [ckpts[b] EXCEPT !.paused = p, !.resumes = w]
  <2>1. e \in Checkpoint
    BY <1>1 DEF Checkpoint
  <2>2. e.owner = ckpts[b].owner /\ e.next = ckpts[b].next /\ e.paused = p /\ e.resumes = w
    BY <1>1 DEF Checkpoint
  <2> WITNESS e \in Checkpoint
  <2> QED
    BY <2>2
<1>3. /\ [ckpts EXCEPT ![b] = c] \in Seq(Checkpoint)
      /\ Len([ckpts EXCEPT ![b] = c]) = Len(ckpts)
      /\ \A i \in 1 .. Len(ckpts) : [ckpts EXCEPT ![b] = c][i] = IF i = b THEN c ELSE ckpts[i]
  BY ExceptSeq
<1>4. ckpts' = [ckpts EXCEPT ![b] = c]
  BY <1>2
<1> QED
  BY <1>2, <1>3, <1>4 DEF Updated

\* A running request has a checkpoint, which still waits for its node.
LEMMA RunningBase ==
  ASSUME TypeOK, NEW r \in Request, pc[r] = "running"
  PROVE  /\ base[r] \in 1 .. Len(ckpts) /\ ckpts[base[r]] \in Checkpoint
         /\ ckpts[base[r]].next /\ ckpts[base[r]].owner \in Request
         /\ ckpts[base[r]].resumes \in Seq(Request)
         /\ heard[r] \in Seq(Request) /\ resumes[r] \in Seq(Request)
         /\ IsPrefix(heard[r], resumes[r])
<1>1. base[r] \in 1 .. Len(ckpts)
  BY DEF TypeOK
<1>2. ckpts[base[r]] \in Checkpoint
  BY <1>1 DEF TypeOK
<1> QED
  BY <1>1, <1>2 DEF TypeOK, Checkpoint

LEMMA LatestTyped ==
  ASSUME TypeOK, ckpts # <<>>
  PROVE  /\ Len(ckpts) \in 1 .. Len(ckpts) /\ Latest \in Checkpoint
         /\ Latest.owner \in Request /\ Latest.resumes \in Seq(Request)
<1>1. Len(ckpts) \in 1 .. Len(ckpts)
  BY DEF TypeOK
<1>2. Latest \in Checkpoint
  BY <1>1 DEF TypeOK, Latest
<1> QED
  BY <1>1, <1>2 DEF Checkpoint

LEMMA StartNewAdds ==
  ASSUME TypeOK, NEW r \in Request, StartNew(r)
  PROVE  NewTurn(r) \in Checkpoint /\ Added(NewTurn(r))
<1>1. NewTurn(r) \in Checkpoint
  BY DEF NewTurn, Checkpoint
<1> QED
  BY <1>1, AppendAdds DEF StartNew, TypeOK

LEMMA StartResumeUpdates ==
  ASSUME TypeOK, ckpts # <<>>, NEW r \in Request, StartResume(r)
  PROVE  Updated(Len(ckpts), FALSE, Latest.resumes)
<1>1. [Latest EXCEPT !.paused = FALSE] = [Latest EXCEPT !.paused = FALSE, !.resumes = Latest.resumes]
  BY LatestTyped DEF Checkpoint
<1>2. ckpts' = [ckpts EXCEPT ![Len(ckpts)] = [ckpts[Len(ckpts)] EXCEPT !.paused = FALSE]]
  BY DEF StartResume
<1> QED
  BY <1>1, <1>2, LatestTyped, ExceptUpdates DEF TypeOK, Latest

LEMMA AnswerAdds ==
  ASSUME TypeOK, NEW r \in Request, Answer(r)
  PROVE  \E c \in Checkpoint :
           Added(c) /\ ~ c.next /\ ~ c.paused /\ c.owner = ckpts[base[r]].owner
<1> DEFINE c == [ckpts[base[r]] EXCEPT !.next = FALSE, !.paused = FALSE, !.resumes = <<>>]
<1>1. ckpts[base[r]] \in Checkpoint
  BY RunningBase DEF Answer
<1>2. c \in Checkpoint
  <2>1. <<>> \in Seq(Request)
    OBVIOUS
  <2> QED
    BY <1>1, <2>1 DEF Checkpoint
<1>3. ~ c.next /\ ~ c.paused /\ c.owner = ckpts[base[r]].owner
  BY <1>1 DEF Checkpoint
<1> HIDE DEF c
<1>4. ckpts' = Append(ckpts, c)
  BY DEF Answer, c
<1> QED
  BY <1>2, <1>3, <1>4, AppendAdds DEF TypeOK

LEMMA PauseUpdates ==
  ASSUME TypeOK, NEW r \in Request, Pause(r)
  PROVE  Updated(base[r], TRUE, resumes[r])
<1>1. ckpts' = [ckpts EXCEPT ![base[r]] =
                  [ckpts[base[r]] EXCEPT !.paused = TRUE, !.resumes = resumes[r]]]
  BY DEF Pause, Kept
<1> QED
  BY <1>1, RunningBase, ExceptUpdates DEF Pause, TypeOK

\* A task that fails or is cancelled saves what it has heard, no more.
LEMMA SaveUpdates ==
  ASSUME TypeOK, NEW r \in Request, pc[r] = "running",
         ckpts' = [ckpts EXCEPT ![base[r]].resumes = Kept(r)]
  PROVE  Updated(base[r], ckpts[base[r]].paused, resumes[r])
<1>1. [ckpts[base[r]] EXCEPT !.resumes = resumes[r]]
        = [ckpts[base[r]] EXCEPT !.paused = ckpts[base[r]].paused, !.resumes = resumes[r]]
  BY RunningBase DEF Checkpoint
<1>2. ckpts' = [ckpts EXCEPT ![base[r]] = [ckpts[base[r]] EXCEPT !.resumes = resumes[r]]]
  BY DEF Kept
<1>3. ckpts[base[r]].paused \in BOOLEAN
  BY RunningBase DEF Checkpoint
<1>4. ckpts' = [ckpts EXCEPT ![base[r]] =
                  [ckpts[base[r]] EXCEPT !.paused = ckpts[base[r]].paused, !.resumes = resumes[r]]]
  BY <1>1, <1>2
<1>5. base[r] \in 1 .. Len(ckpts) /\ resumes[r] \in Seq(Request) /\ ckpts \in Seq(Checkpoint)
  BY RunningBase DEF TypeOK
<1> QED
  BY <1>3, <1>4, <1>5, ExceptUpdates

-----------------------------------------------------------------------------
(* Type correctness.                                                       *)

PCs == {"idle", "arrived", "ready", "running", "done", "gone"}

\* The part of the types that a change of the checkpoints could disturb.
LEMMA BasesStay ==
  ASSUME TypeOK,
         \/ ckpts' = ckpts
         \/ \E c \in Checkpoint : Added(c)
         \/ \E b \in 1 .. Len(ckpts), p \in BOOLEAN, w \in Seq(Request) : Updated(b, p, w)
  PROVE  /\ ckpts' \in Seq(Checkpoint) /\ Len(ckpts) <= Len(ckpts')
         /\ Len(ckpts) \in Nat /\ Len(ckpts') \in Nat
         /\ \A i \in 1 .. Len(ckpts) :
              ckpts'[i].owner = ckpts[i].owner /\ ckpts'[i].next = ckpts[i].next
<1>1. Len(ckpts) \in Nat /\ ckpts \in Seq(Checkpoint)
  BY DEF TypeOK
<1>2. CASE ckpts' = ckpts
  BY <1>1, <1>2
<1>3. CASE \E c \in Checkpoint : Added(c)
  BY <1>1, <1>3 DEF Added
<1>4. CASE \E b \in 1 .. Len(ckpts), p \in BOOLEAN, w \in Seq(Request) : Updated(b, p, w)
  BY <1>1, <1>4 DEF Updated
<1> QED
  BY <1>2, <1>3, <1>4

\* What every step does to the checkpoints: nothing, add one, or change what one
\* of them says about its pause.
LEMMA CheckpointStep ==
  ASSUME TypeOK, ModeInv, [Next]_vars
  PROVE  \/ ckpts' = ckpts
         \/ \E c \in Checkpoint : Added(c)
         \/ \E b \in 1 .. Len(ckpts), p \in BOOLEAN, w \in Seq(Request) : Updated(b, p, w)
<1>1. ASSUME NEW r \in Request, StartNew(r) PROVE \E c \in Checkpoint : Added(c)
  BY <1>1, StartNewAdds
<1>2. ASSUME NEW r \in Request, StartResume(r)
      PROVE  \E b \in 1 .. Len(ckpts), p \in BOOLEAN, w \in Seq(Request) : Updated(b, p, w)
  <2>1. ckpts # <<>>
    BY <1>2 DEF StartResume, ModeInv
  <2> QED
    BY <1>2, <2>1, StartResumeUpdates, LatestTyped
<1>3. ASSUME NEW r \in Request, Answer(r) PROVE \E c \in Checkpoint : Added(c)
  BY <1>3, AnswerAdds
<1>4. ASSUME NEW r \in Request, Pause(r)
      PROVE  \E b \in 1 .. Len(ckpts), p \in BOOLEAN, w \in Seq(Request) : Updated(b, p, w)
  BY <1>4, PauseUpdates, RunningBase DEF Pause
<1>5. ASSUME NEW r \in Request, pc[r] = "running",
             ckpts' = [ckpts EXCEPT ![base[r]].resumes = Kept(r)]
      PROVE  \E b \in 1 .. Len(ckpts), p \in BOOLEAN, w \in Seq(Request) : Updated(b, p, w)
  <2>1. ckpts[base[r]].paused \in BOOLEAN
    BY <1>5, RunningBase DEF Checkpoint
  <2> QED
    BY <1>5, <2>1, SaveUpdates, RunningBase
<1>6. ASSUME NEW r \in Request, Send(r) \/ Check(r) \/ StartNothing(r) \/ Rerun(r)
      PROVE  ckpts' = ckpts
  BY <1>6 DEF Send, Check, StartNothing, Rerun
<1>7. CASE Crash \/ UNCHANGED vars
  BY <1>7 DEF Crash, vars
<1>8. ASSUME NEW r \in Request, Fail(r) \/ Disconnect(r)
      PROVE  \/ ckpts' = ckpts
             \/ pc[r] = "running" /\ ckpts' = [ckpts EXCEPT ![base[r]].resumes = Kept(r)]
  BY <1>8 DEF Fail, Disconnect
<1> QED
  BY <1>1, <1>2, <1>3, <1>4, <1>5, <1>6, <1>7, <1>8 DEF Next, Serve

LEMMA TypeStep == TypeOK /\ ModeInv /\ [Next]_vars => TypeOK' /\ ModeInv'
<1> SUFFICES ASSUME TypeOK, ModeInv, [Next]_vars PROVE TypeOK' /\ ModeInv'
  OBVIOUS
<1>1. /\ ckpts' \in Seq(Checkpoint) /\ Len(ckpts) <= Len(ckpts')
      /\ Len(ckpts) \in Nat /\ Len(ckpts') \in Nat
      /\ \A i \in 1 .. Len(ckpts) : ckpts'[i].next = ckpts[i].next
  BY CheckpointStep, BasesStay
<1>2. ckpts # <<>> => ckpts' # <<>>
  BY <1>1 DEF TypeOK
<1>3. ASSUME NEW f \in [Request -> 0 .. Len(ckpts)] PROVE f \in [Request -> 0 .. Len(ckpts')]
  BY <1>1, <1>3
<1>4. /\ base \in [Request -> 0 .. Len(ckpts')]
      /\ \A q \in Request : pc[q] = "running" =>
           base[q] # 0 /\ ckpts'[base[q]].next /\ IsPrefix(heard[q], resumes[q])
  BY <1>1, <1>3, RunningBase DEF TypeOK
<1>5. /\ pc \in [Request -> PCs] /\ mode \in [Request -> {"none", "new", "resume"}]
      /\ resumes \in [Request -> Seq(Request)] /\ heard \in [Request -> Seq(Request)]
      /\ spare \in [Request -> BOOLEAN] /\ reply \in [Request -> Replies \union {Null}]
  BY DEF TypeOK, PCs
<1>6. <<>> \in Seq(Request) /\ IsPrefix(<<>>, <<>>)
  <2>1. <<>> \in Seq(Request)
    OBVIOUS
  <2> QED
    BY <2>1, PrefixEmpty
<1>7. ASSUME NEW r \in Request, Send(r) PROVE TypeOK' /\ ModeInv'
  BY <1>4, <1>5, <1>7, <1>1 DEF Send, run, TypeOK, ModeInv, PCs
<1>8. ASSUME NEW r \in Request, Check(r) PROVE TypeOK' /\ ModeInv'
  BY <1>4, <1>5, <1>8, <1>1 DEF Check, HasPendingInterrupt, TypeOK, ModeInv, PCs
<1>9. ASSUME NEW r \in Request, StartNew(r) PROVE TypeOK' /\ ModeInv'
  <2>1. /\ Len(ckpts') = Len(ckpts) + 1 /\ ckpts'[Len(ckpts) + 1].next
    <3>1. Added(NewTurn(r))
      BY <1>9, StartNewAdds
    <3>2. NewTurn(r).next
      BY DEF NewTurn
    <3> QED
      BY <3>1, <3>2 DEF Added
  <2>2. base' \in [Request -> 0 .. Len(ckpts')]
    BY <1>1, <1>4, <1>9, <2>1 DEF StartNew
  <2>3. /\ base'[r] # 0 /\ ckpts'[base'[r]].next /\ heard'[r] = <<>> /\ resumes'[r] = <<>>
        /\ \A q \in Request \ {r} :
             /\ pc'[q] = pc[q] /\ base'[q] = base[q]
             /\ heard'[q] = heard[q] /\ resumes'[q] = resumes[q]
    BY <1>1, <1>4, <1>5, <1>9, <2>1 DEF StartNew
  <2>4. \A q \in Request : pc'[q] = "running" =>
          base'[q] # 0 /\ ckpts'[base'[q]].next /\ IsPrefix(heard'[q], resumes'[q])
    BY <1>4, <1>6, <2>3
  <2>5. /\ pc' \in [Request -> PCs] /\ mode' \in [Request -> {"none", "new", "resume"}]
        /\ resumes' \in [Request -> Seq(Request)] /\ heard' \in [Request -> Seq(Request)]
        /\ spare' \in [Request -> BOOLEAN] /\ reply' \in [Request -> Replies \union {Null}]
    BY <1>5, <1>6, <1>9 DEF StartNew, PCs
  <2>6. ModeInv'
    BY <1>2, <1>5, <1>9 DEF StartNew, ModeInv
  <2> QED
    BY <1>1, <2>2, <2>4, <2>5, <2>6 DEF TypeOK, PCs
<1>10. ASSUME NEW r \in Request, StartResume(r) PROVE TypeOK' /\ ModeInv'
  <2>1. ckpts # <<>>
    BY <1>10 DEF StartResume, ModeInv
  <2>2. Latest.resumes \in Seq(Request) /\ IsPrefix(<<>>, Latest.resumes)
    BY <2>1, LatestTyped, PrefixEmpty
  <2>3. Len(ckpts) \in 1 .. Len(ckpts) /\ ckpts'[Len(ckpts)].next
    BY <1>1, <1>10, <2>1, LatestTyped DEF StartResume, Latest
  <2>4. base' \in [Request -> 0 .. Len(ckpts')]
    BY <1>1, <1>4, <1>10, <2>3 DEF StartResume
  <2>5. /\ base'[r] # 0 /\ ckpts'[base'[r]].next
        /\ heard'[r] = <<>> /\ resumes'[r] = Latest.resumes
        /\ \A q \in Request \ {r} :
             /\ pc'[q] = pc[q] /\ base'[q] = base[q]
             /\ heard'[q] = heard[q] /\ resumes'[q] = resumes[q]
    BY <1>1, <1>4, <1>5, <1>10, <2>3 DEF StartResume
  <2>6. \A q \in Request : pc'[q] = "running" =>
          base'[q] # 0 /\ ckpts'[base'[q]].next /\ IsPrefix(heard'[q], resumes'[q])
    BY <1>4, <2>2, <2>5
  <2>7. /\ pc' \in [Request -> PCs] /\ mode' \in [Request -> {"none", "new", "resume"}]
        /\ resumes' \in [Request -> Seq(Request)] /\ heard' \in [Request -> Seq(Request)]
        /\ spare' \in [Request -> BOOLEAN] /\ reply' \in [Request -> Replies \union {Null}]
    BY <1>5, <1>6, <1>10, <2>2 DEF StartResume, PCs
  <2>8. ModeInv'
    BY <1>2, <1>5, <1>10 DEF StartResume, ModeInv
  <2> QED
    BY <1>1, <2>4, <2>6, <2>7, <2>8 DEF TypeOK, PCs
<1>11. ASSUME NEW r \in Request, StartNothing(r) PROVE TypeOK' /\ ModeInv'
  <2>1. Reply("stale", Latest.owner, <<>>) \in Replies
    BY <1>6, <1>11, LatestTyped DEF StartNothing, ModeInv, Reply, Replies
  <2> QED
    BY <1>1, <1>4, <1>5, <1>11, <2>1 DEF StartNothing, run, TypeOK, ModeInv, PCs
<1>12. ASSUME NEW r \in Request, NEW k \in {"answer", "question", "error"}, pc[r] = "running",
              pc' = [pc EXCEPT ![r] = "done"],
              reply' = [reply EXCEPT ![r] = Reply(k, ckpts[base[r]].owner, heard[r])],
              UNCHANGED run
       PROVE  TypeOK' /\ ModeInv'
  <2>1. Reply(k, ckpts[base[r]].owner, heard[r]) \in Replies
    BY <1>12, RunningBase DEF Reply, Replies
  <2> QED
    BY <1>1, <1>2, <1>4, <1>5, <1>12, <2>1 DEF run, TypeOK, ModeInv, PCs
<1>13. ASSUME NEW r \in Request, Answer(r) \/ Pause(r) \/ Fail(r) PROVE TypeOK' /\ ModeInv'
  BY <1>12, <1>13 DEF Answer, Pause, Fail
<1>14. ASSUME NEW r \in Request, Rerun(r) PROVE TypeOK' /\ ModeInv'
  <2>1. heard[r] \in Seq(Request) /\ resumes[r] \in Seq(Request) /\ IsPrefix(heard[r], resumes[r])
    BY <1>14, RunningBase DEF Rerun
  <2>2. /\ heard' \in [Request -> Seq(Request)] /\ resumes' \in [Request -> Seq(Request)]
        /\ spare' \in [Request -> BOOLEAN]
        /\ \A q \in Request \ {r} : heard'[q] = heard[q] /\ resumes'[q] = resumes[q]
        /\ IsPrefix(heard'[r], resumes'[r])
    <3>1. CASE Next1(r) <= Len(resumes[r])
      <4>1. /\ heard' = [heard EXCEPT ![r] = Append(heard[r], resumes[r][Len(heard[r]) + 1])]
            /\ UNCHANGED <<resumes, spare>>
        BY <1>14, <2>1, <3>1 DEF Rerun, Next1
      <4>2. resumes[r][Len(heard[r]) + 1] \in Request
        BY <2>1, <3>1 DEF Next1
      <4>3. IsPrefix(Append(heard[r], resumes[r][Len(heard[r]) + 1]), resumes[r])
        BY <2>1, <3>1, PrefixNext DEF Next1
      <4> QED
        BY <1>5, <2>1, <4>1, <4>2, <4>3
    <3>2. CASE ~ (Next1(r) <= Len(resumes[r]))
      <4>1. /\ heard' = [heard EXCEPT ![r] = Append(heard[r], r)]
            /\ resumes' = [resumes EXCEPT ![r] = Append(resumes[r], r)]
            /\ spare' = [spare EXCEPT ![r] = FALSE]
        BY <1>14, <3>2 DEF Rerun
      <4>2. IsPrefix(Append(heard[r], r), Append(resumes[r], r))
        BY <2>1, <3>2, PrefixBoth DEF Next1
      <4> QED
        BY <1>5, <2>1, <4>1, <4>2
    <3> QED
      BY <3>1, <3>2
  <2> QED
    BY <1>1, <1>2, <1>4, <1>5, <1>14, <2>2 DEF Rerun, TypeOK, ModeInv, PCs
<1>15. ASSUME NEW r \in Request, Disconnect(r) PROVE TypeOK' /\ ModeInv'
  BY <1>1, <1>2, <1>4, <1>5, <1>15 DEF Disconnect, run, TypeOK, ModeInv, PCs
<1>16. CASE Crash
  BY <1>1, <1>2, <1>4, <1>5, <1>16 DEF Crash, Open, run, TypeOK, ModeInv, PCs
<1>17. CASE UNCHANGED vars
  BY <1>1, <1>4, <1>17 DEF vars, run, TypeOK, ModeInv
<1> QED
  BY <1>7, <1>8, <1>9, <1>10, <1>11, <1>13, <1>14, <1>15, <1>16, <1>17 DEF Next, Serve

LEMMA TypeInit == Init => TypeOK /\ ModeInv
<1> SUFFICES ASSUME Init PROVE TypeOK /\ ModeInv
  OBVIOUS
<1>1. ckpts \in Seq(Checkpoint) /\ Len(ckpts) = 0
  BY DEF Init
<1> QED
  BY <1>1 DEF Init, TypeOK, ModeInv

\* The variables stay within their types; a run never loses its checkpoint, and
\* never hears more than it was resumed with, under any faults.
THEOREM ThreadTypeCorrect == Spec => []TypeOK
BY TypeInit, TypeStep, PTL DEF Spec

-----------------------------------------------------------------------------
(* A new request is answered on its own account.                           *)

LEMMA NewRunStep ==
  TypeOK /\ ModeInv /\ NewRunInv /\ OwnAnswer /\ [Next]_vars => NewRunInv' /\ OwnAnswer'
<1> SUFFICES ASSUME TypeOK, ModeInv, NewRunInv, OwnAnswer, [Next]_vars
             PROVE  NewRunInv' /\ OwnAnswer'
  OBVIOUS
<1>1. \A i \in 1 .. Len(ckpts) : ckpts'[i].owner = ckpts[i].owner
  BY CheckpointStep, BasesStay
<1>2. \A q \in Request : pc[q] = "running" => ckpts'[base[q]].owner = ckpts[base[q]].owner
  BY <1>1, RunningBase
<1>3. /\ pc \in [Request -> PCs] /\ mode \in [Request -> {"none", "new", "resume"}]
      /\ base \in [Request -> 0 .. Len(ckpts)]
      /\ resumes \in [Request -> Seq(Request)] /\ heard \in [Request -> Seq(Request)]
      /\ spare \in [Request -> BOOLEAN] /\ reply \in [Request -> Replies \union {Null}]
  BY DEF TypeOK, PCs
<1>4. ASSUME NEW r \in Request, Send(r) \/ Check(r) \/ Disconnect(r) PROVE NewRunInv' /\ OwnAnswer'
  <2>1. CASE Send(r)
    BY <1>2, <1>3, <2>1 DEF Send, run, NewRunInv, OwnAnswer
  <2>2. CASE Check(r)
    <3>1. /\ \A q \in Request \ {r} : pc'[q] = pc[q] /\ mode'[q] = mode[q]
          /\ pc'[r] = "ready" /\ UNCHANGED <<base, resumes, spare, heard, reply>>
      BY <1>3, <2>2 DEF Check
    <3> QED
      BY <1>2, <3>1 DEF NewRunInv, OwnAnswer
  <2>3. CASE Disconnect(r)
    BY <1>2, <1>3, <2>3 DEF Disconnect, run, NewRunInv, OwnAnswer
  <2> QED
    BY <1>4, <2>1, <2>2, <2>3
<1>5. ASSUME NEW r \in Request, StartNew(r) PROVE NewRunInv' /\ OwnAnswer'
  <2>1. ckpts'[Len(ckpts) + 1] = NewTurn(r)
    BY <1>5, StartNewAdds DEF Added
  <2>2. base'[r] = Len(ckpts) + 1 /\ ckpts'[base'[r]].owner = r
    BY <1>3, <1>5, <2>1 DEF StartNew, NewTurn
  <2> QED
    BY <1>2, <1>3, <1>5, <2>2 DEF StartNew, NewRunInv, OwnAnswer
<1>6. ASSUME NEW r \in Request, StartResume(r) PROVE NewRunInv' /\ OwnAnswer'
  BY <1>2, <1>3, <1>6 DEF StartResume, NewRunInv, OwnAnswer
<1>7. ASSUME NEW r \in Request, StartNothing(r) PROVE NewRunInv' /\ OwnAnswer'
  BY <1>2, <1>3, <1>7 DEF StartNothing, run, NewRunInv, OwnAnswer
<1>8. ASSUME NEW r \in Request, NEW k \in {"answer", "question", "error"}, pc[r] = "running",
             pc' = [pc EXCEPT ![r] = "done"],
             reply' = [reply EXCEPT ![r] = Reply(k, ckpts[base[r]].owner, heard[r])],
             UNCHANGED run
      PROVE  NewRunInv' /\ OwnAnswer'
  <2>1. mode[r] = "new" => reply'[r].owner = r /\ reply'[r].heard = <<>>
    <3>1. resumes[r] = <<>> => heard[r] = <<>>
      <4>1. heard[r] \in Seq(Request) /\ (resumes[r] = <<>> => Len(heard[r]) = 0)
        BY <1>8, RunningBase, PrefixByElements
      <4> QED
        BY <4>1
    <3> QED
      BY <1>3, <1>8, <3>1 DEF NewRunInv, Reply
  <2> QED
    BY <1>2, <1>3, <1>8, <2>1 DEF run, NewRunInv, OwnAnswer
<1>9. ASSUME NEW r \in Request, Answer(r) \/ Pause(r) \/ Fail(r) PROVE NewRunInv' /\ OwnAnswer'
  BY <1>8, <1>9 DEF Answer, Pause, Fail
<1>10. ASSUME NEW r \in Request, Rerun(r) PROVE NewRunInv' /\ OwnAnswer'
  <2>1. mode[r] # "new"
    <3>1. mode[r] = "new" => resumes[r] = <<>> /\ ~ spare[r]
      BY <1>10 DEF Rerun, NewRunInv
    <3>2. heard[r] \in Seq(Request)
      BY <1>3
    <3>3. resumes[r] = <<>> => ~ (Next1(r) <= Len(resumes[r]))
      BY <3>2 DEF Next1
    <3> QED
      BY <1>10, <3>1, <3>3 DEF Rerun
  <2> QED
    <3>1. /\ \A q \in Request \ {r} : resumes'[q] = resumes[q] /\ spare'[q] = spare[q]
          /\ UNCHANGED <<ckpts, pc, mode, base, reply>>
      BY <1>3, <1>10 DEF Rerun
    <3> QED
      BY <2>1, <3>1 DEF NewRunInv, OwnAnswer
<1>11. CASE Crash
  BY <1>2, <1>3, <1>11 DEF Crash, Open, run, NewRunInv, OwnAnswer
<1>12. CASE UNCHANGED vars
  BY <1>12 DEF vars, run, NewRunInv, OwnAnswer
<1> QED
  BY <1>4, <1>5, <1>6, <1>7, <1>9, <1>10, <1>11, <1>12 DEF Next, Serve

\* A message taken for a new request is answered, asked about or failed on its
\* own account and without foreign clarifications, however many messages
\* overlap, whatever fails, and however often the server restarts.
THEOREM AnswersAreOwn == Spec => []OwnAnswer
<1>1. Init => NewRunInv /\ OwnAnswer
  BY DEF Init, NewRunInv, OwnAnswer
<1> QED
  BY <1>1, TypeInit, TypeStep, NewRunStep, PTL DEF Spec

-----------------------------------------------------------------------------
(* A thread that is used one message at a time.                            *)

\* Once two messages have overlapped the history says so for ever.
LEMMA OverlapStays ==
  [Next]_vars => (sent.overlapped => sent'.overlapped)
<1> SUFFICES ASSUME [Next]_vars PROVE sent.overlapped => sent'.overlapped
  OBVIOUS
<1>1. ASSUME NEW r \in Request, Send(r) PROVE sent.overlapped => sent'.overlapped
  <2> DEFINE o == sent.overlapped \/ \E q \in Request : pc[q] \in Open
  <2>1. sent'.overlapped = o
    BY <1>1 DEF Send
  <2> QED
    BY <2>1
<1>2. ASSUME sent' = Broken PROVE sent'.overlapped = sent.overlapped
  BY <1>2 DEF Broken
<1>3. \A r \in Request : Fail(r) \/ Disconnect(r) => sent' = Broken
  BY DEF Fail, Disconnect
<1>4. Crash => sent' = Broken
  BY DEF Crash
<1>5. \A r \in Request : Serve(r) => sent' = sent
  BY DEF Serve, Check, StartNew, StartResume, StartNothing, Answer, Rerun, Pause
<1>6. UNCHANGED vars => sent' = sent
  BY DEF vars
<1> QED
  BY <1>1, <1>2, <1>3, <1>4, <1>5, <1>6 DEF Next

LEMMA AloneStep ==
  TypeOK /\ ModeInv /\ AloneInv /\ [Next]_vars => AloneInv'
<1> SUFFICES ASSUME TypeOK, ModeInv, Alone, ~ sent'.overlapped, [Next]_vars PROVE Alone'
  BY OverlapStays DEF AloneInv
<1>1. /\ pc \in [Request -> PCs] /\ mode \in [Request -> {"none", "new", "resume"}]
      /\ base \in [Request -> 0 .. Len(ckpts)]
      /\ resumes \in [Request -> Seq(Request)] /\ heard \in [Request -> Seq(Request)]
      /\ spare \in [Request -> BOOLEAN]
  BY DEF TypeOK, PCs
<1>2. ASSUME NEW r \in Request, pc[r] \in Open, NEW q \in Request \ {r} PROVE pc[q] \notin Open
  BY <1>2 DEF Alone
<1>3. ASSUME \A q \in Request : pc'[q] \notin Open PROVE Alone'
  BY <1>3 DEF Alone, Open
<1>4. ASSUME NEW r \in Request, pc[r] \in Open, NEW p \in {"done", "gone"},
             pc' = [pc EXCEPT ![r] = p]
      PROVE  Alone'
  BY <1>1, <1>2, <1>3, <1>4 DEF Open
<1>5. ASSUME NEW r \in Request, \A q \in Request \ {r} : pc'[q] \notin Open,
             pc'[r] = "ready" /\ mode'[r] = "resume" => Latest'.next,
             pc'[r] = "ready" /\ mode'[r] = "new" => ~ HasPendingInterrupt',
             pc'[r] = "running" =>
               base'[r] = Len(ckpts') /\ IsPrefix(ckpts'[base'[r]].resumes, resumes'[r])
      PROVE  Alone'
  BY <1>5 DEF Alone, Open
<1>6. ASSUME NEW r \in Request, Send(r) PROVE Alone'
  <2>1. pc'[r] = "arrived" /\ \A q \in Request \ {r} : pc'[q] \notin Open
    <3> DEFINE o == sent.overlapped \/ \E q \in Request : pc[q] \in Open
    <3>1. sent'.overlapped = o
      BY <1>6 DEF Send
    <3> QED
      BY <1>1, <1>6, <3>1 DEF Send
  <2> QED
    BY <1>5, <2>1
<1>7. ASSUME NEW r \in Request, Check(r) PROVE Alone'
  <2>1. pc'[r] = "ready" /\ \A q \in Request \ {r} : pc'[q] \notin Open
    BY <1>1, <1>2, <1>7 DEF Check, Open
  <2>2. /\ mode'[r] = IF HasPendingInterrupt THEN "resume" ELSE "new"
        /\ ckpts' = ckpts
    BY <1>1, <1>7 DEF Check
  <2>3. /\ mode'[r] = "resume" => Latest'.next
        /\ mode'[r] = "new" => ~ HasPendingInterrupt'
    BY <2>2 DEF HasPendingInterrupt, Latest
  <2> QED
    BY <1>5, <2>1, <2>3
<1>8. ASSUME NEW r \in Request, StartNew(r) PROVE Alone'
  <2>1. /\ pc'[r] = "running" /\ base'[r] = Len(ckpts) + 1 /\ resumes'[r] = <<>>
        /\ \A q \in Request \ {r} : pc'[q] \notin Open
    BY <1>1, <1>2, <1>8 DEF StartNew, Open
  <2>2. Len(ckpts') = Len(ckpts) + 1 /\ ckpts'[Len(ckpts) + 1].resumes = <<>>
    <3>1. NewTurn(r).resumes = <<>>
      BY DEF NewTurn
    <3> QED
      BY <1>8, <3>1, StartNewAdds DEF Added
  <2>3. IsPrefix(<<>>, <<>>)
    <3>1. <<>> \in Seq(Request)
      OBVIOUS
    <3> QED
      BY <3>1, PrefixEmpty
  <2> QED
    BY <1>5, <2>1, <2>2, <2>3
<1>9. ASSUME NEW r \in Request, StartResume(r) PROVE Alone'
  <2>1. /\ pc'[r] = "running" /\ base'[r] = Len(ckpts) /\ resumes'[r] = Latest.resumes
        /\ \A q \in Request \ {r} : pc'[q] \notin Open
    BY <1>1, <1>2, <1>9 DEF StartResume, Open
  <2>2. ckpts # <<>>
    BY <1>9 DEF StartResume, ModeInv
  <2>3. Len(ckpts') = Len(ckpts) /\ ckpts'[Len(ckpts)].resumes = Latest.resumes
    BY <1>9, <2>2, StartResumeUpdates DEF Updated
  <2>4. IsPrefix(Latest.resumes, Latest.resumes)
    BY <2>2, LatestTyped, PrefixReflexive
  <2> QED
    BY <1>5, <2>1, <2>3, <2>4
<1>10. ASSUME NEW r \in Request,
              StartNothing(r) \/ Answer(r) \/ Pause(r) \/ Fail(r) \/ Disconnect(r)
       PROVE  Alone'
  BY <1>4, <1>10 DEF StartNothing, Answer, Pause, Fail, Disconnect, Open
<1>11. ASSUME NEW r \in Request, Rerun(r) PROVE Alone'
  <2>1. /\ pc'[r] = "running" /\ base'[r] = Len(ckpts') /\ ckpts' = ckpts
        /\ \A q \in Request \ {r} : pc'[q] \notin Open
        /\ base'[r] = base[r] /\ resumes'[r] \in {resumes[r], Append(resumes[r], r)}
    BY <1>1, <1>2, <1>11 DEF Rerun, Open, Alone
  <2>2. /\ ckpts[base[r]].resumes \in Seq(Request) /\ resumes[r] \in Seq(Request)
        /\ IsPrefix(ckpts[base[r]].resumes, resumes[r])
    BY <1>11, RunningBase DEF Rerun, Alone
  <2>3. IsPrefix(ckpts[base[r]].resumes, resumes'[r])
    BY <2>1, <2>2, PrefixAppend
  <2> QED
    BY <1>5, <2>1, <2>3
<1>12. CASE Crash
  BY <1>1, <1>3, <1>12 DEF Crash, Open
<1>13. CASE UNCHANGED vars
  BY <1>13 DEF vars, run, Alone, Latest, HasPendingInterrupt
<1> QED
  BY <1>6, <1>7, <1>8, <1>9, <1>10, <1>11, <1>12, <1>13 DEF Next, Serve

LEMMA AloneInit == Init => AloneInv
BY DEF Init, AloneInv, Alone, Open

\* Until messages overlap none falls between a run that has ended
\* and one that never starts, whatever else breaks.
THEOREM NothingFallsThrough ==
  Spec => []NoneFallsThrough
<1>1. Init => NoneFallsThrough
  BY DEF Init, NoneFallsThrough
<1>2. TypeOK /\ AloneInv /\ NoneFallsThrough /\ [Next]_vars => NoneFallsThrough'
  <2> DEFINE None == \A r \in Request : pc[r] = "done" => reply[r].kind # "stale"
  <2> SUFFICES ASSUME TypeOK, Alone, None, [Next]_vars PROVE None'
    BY OverlapStays DEF AloneInv, NoneFallsThrough
  <2>1. pc \in [Request -> PCs] /\ reply \in [Request -> Replies \union {Null}]
    BY DEF TypeOK, PCs
  <2>2. ASSUME NEW r \in Request, StartNothing(r) PROVE FALSE
    BY <2>2 DEF StartNothing, Alone
  <2>3. ASSUME NEW r \in Request, NEW p \in PCs \ {"done"}, pc' = [pc EXCEPT ![r] = p], reply' = reply
        PROVE  None'
    BY <2>1, <2>3
  <2>4. ASSUME NEW r \in Request, NEW k \in {"answer", "question", "error"},
               NEW o, NEW w, pc' = [pc EXCEPT ![r] = "done"],
               reply' = [reply EXCEPT ![r] = Reply(k, o, w)]
        PROVE  None'
    <3>1. Reply(k, o, w).kind # "stale"
      BY <2>4 DEF Reply
    <3> QED
      BY <2>1, <2>4, <3>1
  <2>5. ASSUME NEW r \in Request, Send(r) \/ Check(r) \/ StartNew(r) \/ StartResume(r) \/ Disconnect(r)
        PROVE  None'
    BY <2>3, <2>5 DEF Send, Check, StartNew, StartResume, Disconnect, PCs
  <2>6. ASSUME NEW r \in Request, Answer(r) \/ Pause(r) \/ Fail(r) PROVE None'
    BY <2>4, <2>6 DEF Answer, Pause, Fail
  <2>7. ASSUME NEW r \in Request, Rerun(r) PROVE None'
    BY <2>7 DEF Rerun
  <2>8. CASE Crash
    BY <2>1, <2>8 DEF Crash
  <2>9. CASE UNCHANGED vars
    BY <2>9 DEF vars
  <2> QED
    BY <2>2, <2>5, <2>6, <2>7, <2>8, <2>9 DEF Next, Serve
<1>3. TypeOK /\ ModeInv /\ AloneInv /\ [Next]_vars => AloneInv'
  BY AloneStep
<1> QED
  BY <1>1, <1>2, <1>3, AloneInit, TypeInit, TypeStep, PTL DEF Spec

\* The latest checkpoint keeps its owner; if its node has not ended afterwards,
\* it keeps what the thread was told.
OwnerStays ==
  /\ ckpts # <<>> /\ Latest.next =>
       /\ Latest'.owner = Latest.owner
       /\ Latest'.next => IsPrefix(Latest.resumes, Latest'.resumes)

\* What a step of a calm thread leaves in the latest checkpoint.
LEMMA LatestUpdated ==
  ASSUME TypeOK, ckpts # <<>>, NEW p, NEW w, Updated(Len(ckpts), p, w)
  PROVE  Latest'.owner = Latest.owner /\ Latest'.resumes = w
<1>1. Len(ckpts) \in 1 .. Len(ckpts)
  BY LatestTyped
<1> QED
  BY <1>1 DEF Updated, Latest

LEMMA LatestAdded ==
  ASSUME TypeOK, NEW c, Added(c)
  PROVE  Latest' = c
BY DEF Added, Latest

\* A task that pauses, fails or is cancelled leaves what it knows with the
\* latest checkpoint.
LEMMA SaveKeeps ==
  ASSUME TypeOK, Alone, NEW r \in Request, pc[r] = "running",
         \E p : Updated(base[r], p, resumes[r])
  PROVE  OwnerStays /\ IsPrefix(heard[r], Latest'.resumes)
<1>1. base[r] = Len(ckpts) /\ IsPrefix(Latest.resumes, resumes[r])
  BY DEF Alone, Latest
<1>2. ckpts # <<>> /\ IsPrefix(heard[r], resumes[r])
  BY RunningBase DEF TypeOK
<1>3. Latest'.owner = Latest.owner /\ Latest'.resumes = resumes[r]
  BY <1>1, <1>2, LatestUpdated
<1> QED
  BY <1>1, <1>2, <1>3 DEF OwnerStays

LEMMA SameKeeps ==
  ASSUME TypeOK, ckpts' = ckpts
  PROVE  OwnerStays
<1>1. Latest' = Latest
  BY DEF Latest
<1>2. ckpts # <<>> => IsPrefix(Latest.resumes, Latest.resumes)
  BY LatestTyped, PrefixReflexive
<1> QED
  BY <1>1, <1>2 DEF OwnerStays

LEMMA StartKeeps ==
  ASSUME TypeOK, ModeInv, Alone, Checkpointed, NEW r \in Request,
         StartNew(r) \/ StartResume(r) \/ Answer(r)
  PROVE  OwnerStays
<1>1. CASE StartNew(r)
  \* A message was taken for a new request because no node was waiting, and
  \* nothing has happened since.
  <2>1. ~ (ckpts # <<>> /\ Latest.next)
    BY <1>1 DEF StartNew, Alone, HasPendingInterrupt
  <2> QED
    BY <2>1 DEF OwnerStays
<1>2. CASE StartResume(r)
  <2>1. ckpts # <<>>
    BY <1>2 DEF StartResume, ModeInv
  <2>2. Latest'.owner = Latest.owner /\ Latest'.resumes = Latest.resumes
    BY <1>2, <2>1, StartResumeUpdates, LatestUpdated
  <2>3. IsPrefix(Latest.resumes, Latest.resumes)
    BY <2>1, LatestTyped, PrefixReflexive
  <2> QED
    BY <2>2, <2>3 DEF OwnerStays
<1>3. CASE Answer(r)
  <2>1. PICK c \in Checkpoint : Added(c) /\ ~ c.next /\ c.owner = ckpts[base[r]].owner
    BY <1>3, AnswerAdds
  <2>2. Latest' = c /\ base[r] = Len(ckpts)
    BY <1>3, <2>1, LatestAdded DEF Answer, Alone
  <2> QED
    BY <2>1, <2>2 DEF OwnerStays, Latest
<1> QED
  BY <1>1, <1>2, <1>3

\* A run that ends otherwise than with an answer has asked, failed, or never
\* started: only the first two were running.
LEMMA EndsKeep ==
  ASSUME TypeOK, Alone, [Next]_vars, NEW r \in Request,
         pc[r] = "running", pc'[r] = "done", reply'[r].kind # "answer"
  PROVE  IsPrefix(heard[r], Latest'.resumes)
<1>1. pc \in [Request -> PCs] /\ reply \in [Request -> Replies \union {Null}]
  BY DEF TypeOK, PCs
<1>2. Pause(r) \/ Fail(r)
  <2>1. ASSUME NEW q \in Request, NEW p \in PCs, pc' = [pc EXCEPT ![q] = p]
        PROVE  q = r /\ p = "done"
    BY <1>1, <2>1
  <2>2. ASSUME NEW q \in Request
        PROVE  ~ Send(q) /\ ~ Check(q) /\ ~ StartNew(q) /\ ~ StartResume(q) /\ ~ Disconnect(q)
    BY <2>1 DEF Send, Check, StartNew, StartResume, Disconnect, PCs
  <2>3. ASSUME NEW q \in Request PROVE ~ StartNothing(q)
    BY <2>1 DEF StartNothing, PCs
  <2>4. ASSUME NEW q \in Request PROVE ~ Rerun(q)
    BY DEF Rerun
  <2>5. ASSUME NEW q \in Request PROVE ~ Answer(q)
    <3>1. SUFFICES ASSUME Answer(q) PROVE FALSE
      OBVIOUS
    <3>2. q = r
      BY <2>1, <3>1 DEF Answer, PCs
    <3>3. reply'[r] = Reply("answer", ckpts[base[r]].owner, heard[r])
      BY <1>1, <3>1, <3>2 DEF Answer
    <3> QED
      BY <3>3 DEF Reply
  <2>6. ASSUME NEW q \in Request, Pause(q) \/ Fail(q) PROVE q = r
    BY <2>1, <2>6 DEF Pause, Fail, PCs
  <2>7. ~ Crash /\ ~ UNCHANGED vars
    BY <1>1 DEF Crash, Open, vars
  <2> QED
    BY <2>2, <2>3, <2>4, <2>5, <2>6, <2>7 DEF Next, Serve
<1>3. \E p : Updated(base[r], p, resumes[r])
  BY <1>2, PauseUpdates, SaveUpdates DEF Fail
<1> QED
  BY <1>3, SaveKeeps

LEMMA StepKeepsClarifications ==
  ASSUME TypeOK, ModeInv, Alone, Checkpointed, [Next]_vars
  PROVE  KeepsClarifications
<1>1. ASSUME NEW r \in Request, pc[r] = "running",
             ckpts' = [ckpts EXCEPT ![base[r]].resumes = Kept(r)]
      PROVE  OwnerStays
  BY <1>1, SaveUpdates, SaveKeeps
<1>2. ASSUME NEW r \in Request, Pause(r) PROVE OwnerStays
  BY <1>2, PauseUpdates, SaveKeeps DEF Pause
<1>3. ASSUME NEW r \in Request, Fail(r) \/ Disconnect(r)
      PROVE  \/ ckpts' = ckpts
             \/ pc[r] = "running" /\ ckpts' = [ckpts EXCEPT ![base[r]].resumes = Kept(r)]
  BY <1>3 DEF Fail, Disconnect
<1>4. ASSUME NEW r \in Request, Fail(r) \/ Disconnect(r) PROVE OwnerStays
  BY <1>1, <1>3, <1>4, SameKeeps
<1>5. ASSUME NEW r \in Request, Send(r) \/ Check(r) \/ StartNothing(r) \/ Rerun(r)
      PROVE  ckpts' = ckpts
  BY <1>5 DEF Send, Check, StartNothing, Rerun
<1>6. Crash \/ UNCHANGED vars => ckpts' = ckpts
  BY DEF Crash, vars
<1>7. ASSUME NEW r \in Request, Serve(r) \/ Send(r) PROVE OwnerStays
  BY <1>2, <1>5, <1>7, SameKeeps, StartKeeps DEF Serve
<1>8. OwnerStays
  BY <1>4, <1>6, <1>7, SameKeeps DEF Next
<1> QED
  BY <1>8, EndsKeep DEF OwnerStays, KeepsClarifications

\* With a checkpointer and until messages overlap, a request that waits for its
\* node keeps its thread and the clarifications kept for it until it is answered,
\* and a run that pauses or fails leaves what its supervisor has heard, through
\* failed runs, broken streams and restarts.
THEOREM ClarificationsSurvive ==
  Spec => ClarificationsKept
<1>1. TypeOK /\ ModeInv /\ AloneInv /\ [Next]_vars =>
        [Checkpointed /\ ~ sent.overlapped => KeepsClarifications]_vars
  BY StepKeepsClarifications DEF AloneInv
<1>2. TypeOK /\ ModeInv /\ AloneInv /\ [Next]_vars => AloneInv'
  BY AloneStep
<1> QED
  BY <1>1, <1>2, AloneInit, TypeInit, TypeStep, PTL DEF Spec, ClarificationsKept

-----------------------------------------------------------------------------
(* A client that waits, as long as nothing has broken.                     *)

LEMMA PausedStep ==
  TypeOK /\ ModeInv /\ AloneInv /\ PausedInv /\ [Next]_vars => PausedInv'
<1> SUFFICES ASSUME TypeOK, ModeInv, Alone, PausedInv, ~ sent.overlapped, [Next]_vars
             PROVE  PausedInv'
  BY OverlapStays DEF AloneInv, PausedInv
<1>1. pc \in [Request -> PCs] /\ ckpts \in Seq(Checkpoint)
  BY DEF TypeOK, PCs
<1>2. ASSUME NEW r \in Request, pc[r] # "running", pc' = [pc EXCEPT ![r] = "arrived"]
                \/ pc' = [pc EXCEPT ![r] = "ready"] \/ pc' = [pc EXCEPT ![r] = "done"],
             ckpts' = ckpts, sent'.broken = sent.broken
      PROVE  PausedInv'
  BY <1>1, <1>2 DEF PausedInv, Latest
<1>3. ASSUME NEW r \in Request, Send(r) \/ Check(r) \/ StartNothing(r) PROVE PausedInv'
  BY <1>2, <1>3 DEF Send, Check, StartNothing
<1>4. ASSUME NEW r \in Request, StartNew(r) \/ StartResume(r) \/ Rerun(r) PROVE PausedInv'
  <2>1. pc'[r] = "running"
    BY <1>1, <1>4 DEF StartNew, StartResume, Rerun
  <2> QED
    BY <2>1 DEF PausedInv
<1>5. ASSUME NEW r \in Request, Answer(r) PROVE PausedInv'
  <2>1. PICK c \in Checkpoint : Added(c) /\ ~ c.next /\ ~ c.paused
    BY <1>5, AnswerAdds
  <2>2. Latest' = c
    BY <2>1 DEF Added, Latest
  <2> QED
    BY <2>1, <2>2 DEF PausedInv
<1>6. ASSUME NEW r \in Request, Pause(r) PROVE PausedInv'
  <2>1. Updated(base[r], TRUE, resumes[r]) /\ base[r] = Len(ckpts)
    BY <1>6, PauseUpdates DEF Pause, Alone
  <2>2. ckpts[base[r]].next = TRUE /\ base[r] \in 1 .. Len(ckpts)
    BY <1>6, RunningBase DEF Pause, Checkpoint
  <2>3. Latest'.next = TRUE /\ Latest'.paused = TRUE
    BY <2>1, <2>2 DEF Updated, Latest
  <2> QED
    BY <2>3 DEF PausedInv
<1>7. CASE UNCHANGED vars
  BY <1>7 DEF vars, PausedInv, Latest
<1>8. ASSUME Crash \/ \E r \in Request : Fail(r) \/ Disconnect(r) PROVE PausedInv'
  <2>1. Broken.broken = TRUE
    BY DEF Broken
  <2>2. sent' = Broken
    BY <1>8 DEF Crash, Fail, Disconnect
  <2>3. sent'.broken = TRUE
    BY <2>1, <2>2
  <2> QED
    BY <2>3 DEF PausedInv
<1> QED
  BY <1>3, <1>4, <1>5, <1>6, <1>7, <1>8 DEF Next, Serve

\* With a client that waits for each reply, until something breaks, a message
\* is taken for a clarification exactly when the thread is paused at a question.
THEOREM PendingIsPaused ==
  Spec => PendingMeansPaused
<1>1. Init => PausedInv
  BY DEF Init, PausedInv
<1>2. TypeOK /\ ModeInv /\ AloneInv /\ [Next]_vars => AloneInv'
  BY AloneStep
<1>3. TypeOK /\ ModeInv /\ AloneInv /\ PausedInv /\ [Next]_vars => PausedInv'
  BY PausedStep
<1>4. TypeOK /\ ModeInv /\ AloneInv /\ PausedInv /\ [Next]_vars =>
        [\A r \in Request :
           ~ sent.overlapped /\ ~ sent.broken /\ pc[r] = "arrived" /\ pc'[r] = "ready" =>
             (mode'[r] = "resume" <=> Checkpointed /\ ckpts # <<>> /\ Latest.paused)]_vars
  <2> SUFFICES ASSUME TypeOK, AloneInv, PausedInv, Next, NEW r \in Request,
                      ~ sent.overlapped, ~ sent.broken, pc[r] = "arrived", pc'[r] = "ready"
               PROVE  mode'[r] = "resume" <=> Checkpointed /\ ckpts # <<>> /\ Latest.paused
    BY DEF vars
  <2>1. pc \in [Request -> PCs] /\ mode \in [Request -> {"none", "new", "resume"}]
    BY DEF TypeOK, PCs
  <2>2. Check(r)
    <3>1. ASSUME NEW q \in Request, NEW p \in PCs \ {"ready"}, pc' = [pc EXCEPT ![q] = p]
          PROVE  FALSE
      BY <2>1, <3>1
    <3>2. ASSUME NEW q \in Request, Check(q) PROVE q = r
      BY <2>1, <3>2 DEF Check
    <3>3. ASSUME NEW q \in Request PROVE ~ Send(q) /\ ~ Fail(q) /\ ~ Disconnect(q) /\ ~ Rerun(q)
      BY <2>1, <3>1 DEF Send, Fail, Disconnect, Rerun, PCs
    <3>4. ASSUME NEW q \in Request
          PROVE  ~ StartNew(q) /\ ~ StartResume(q) /\ ~ StartNothing(q) /\ ~ Answer(q) /\ ~ Pause(q)
      BY <2>1, <3>1 DEF StartNew, StartResume, StartNothing, Answer, Pause, PCs
    <3>5. ~ Crash
      BY <2>1 DEF Crash, Open
    <3> QED
      BY <3>2, <3>3, <3>4, <3>5 DEF Next, Serve
  <2>3. \A q \in Request : pc[q] # "running"
    BY DEF AloneInv, Alone, Open
  <2>4. ckpts # <<>> => (Latest.next <=> Latest.paused)
    BY <2>3 DEF PausedInv
  <2>5. mode'[r] = IF HasPendingInterrupt THEN "resume" ELSE "new"
    BY <2>1, <2>2 DEF Check
  <2> QED
    BY <2>4, <2>5 DEF HasPendingInterrupt
<1> QED
  BY <1>1, <1>2, <1>3, <1>4, AloneInit, TypeInit, TypeStep, PTL DEF Spec, PendingMeansPaused

-----------------------------------------------------------------------------
(* What a calm thread knows: one message at a time, nothing broken.        *)

LEMMA SetOfAppend ==
  ASSUME NEW S, NEW s \in Seq(S), NEW e \in S
  PROVE  ToSet(Append(s, e)) = ToSet(s) \union {e}
<1> DEFINE t == Append(s, e)
<1>1. /\ DOMAIN s = 1 .. Len(s) /\ DOMAIN t = 1 .. Len(s) + 1 /\ Len(s) \in Nat
      /\ \A i \in 1 .. Len(s) : t[i] = s[i]
      /\ t[Len(s) + 1] = e
  BY AppendProperties, LenProperties
<1> HIDE DEF t
<1>2. ASSUME NEW x \in ToSet(t) PROVE x \in ToSet(s) \union {e}
  <2>1. PICK i \in 1 .. Len(s) + 1 : x = t[i]
    BY <1>1, <1>2 DEF ToSet
  <2>2. i \in 1 .. Len(s) \/ i = Len(s) + 1
    BY <1>1
  <2> QED
    BY <1>1, <2>1, <2>2 DEF ToSet
<1>3. ASSUME NEW x \in ToSet(s) \union {e} PROVE x \in ToSet(t)
  <2>1. CASE x = e
    <3>1. Len(s) + 1 \in 1 .. Len(s) + 1
      BY <1>1
    <3> QED
      BY <1>1, <2>1, <3>1 DEF ToSet
  <2>2. CASE x \in ToSet(s)
    <3>1. PICK i \in 1 .. Len(s) : x = s[i]
      BY <1>1, <2>2 DEF ToSet
    <3>2. i \in 1 .. Len(s) + 1
      BY <1>1
    <3> QED
      BY <1>1, <3>1, <3>2 DEF ToSet
  <2> QED
    BY <1>3, <2>1, <2>2
<1> QED
  BY <1>2, <1>3 DEF t

LEMMA SetOfEmpty == ToSet(<<>>) = {}
BY DEF ToSet

LEMMA SetOfElements ==
  ASSUME NEW S, NEW s \in Seq(S)
  PROVE  ToSet(s) \in SUBSET S /\ \A i \in DOMAIN s : s[i] \in ToSet(s)
BY ElementOfSeq, LenProperties DEF ToSet

\* A younger message is added at the end.
LEMMA YoungerInOrder ==
  ASSUME NEW s \in Seq(Request), NEW e \in Request, InOrder(s), ArrivalInv,
         \A q \in ToSet(s) : sent.order[q] < sent.order[e]
  PROVE  InOrder(Append(s, e))
<1> DEFINE t == Append(s, e)
<1>1. /\ DOMAIN s = 1 .. Len(s) /\ DOMAIN t = 1 .. Len(s) + 1 /\ Len(s) \in Nat
      /\ \A i \in 1 .. Len(s) : t[i] = s[i]
      /\ t[Len(s) + 1] = e
  BY AppendProperties, LenProperties
<1> HIDE DEF t
<1>2. ASSUME NEW i \in 1 .. Len(s) + 1, NEW j \in 1 .. Len(s) + 1, i < j
      PROVE  sent.order[t[i]] < sent.order[t[j]]
  <2>1. i \in 1 .. Len(s) /\ (j \in 1 .. Len(s) \/ j = Len(s) + 1)
    BY <1>1, <1>2
  <2>2. CASE j \in 1 .. Len(s)
    BY <1>1, <1>2, <2>1, <2>2 DEF InOrder
  <2>3. CASE j = Len(s) + 1
    BY <1>1, <2>1, <2>3 DEF ToSet
  <2> QED
    BY <2>1, <2>2, <2>3
<1> QED
  BY <1>1, <1>2 DEF InOrder, t

LEMMA ArrivalInit == Init => ArrivalInv
<1> SUFFICES ASSUME Init PROVE ArrivalInv
  OBVIOUS
<1>1. sent.count = 0 /\ sent.order = [r \in Request |-> 0]
  BY DEF Init
<1> QED
  BY <1>1 DEF ArrivalInv

LEMMA ArrivalStep == ArrivalInv /\ [Next]_vars => ArrivalInv'
<1> SUFFICES ASSUME ArrivalInv, [Next]_vars PROVE ArrivalInv'
  OBVIOUS
<1>1. ASSUME NEW r \in Request, Send(r) PROVE ArrivalInv'
  <2>1. sent'.count = sent.count + 1 /\ sent'.order = [sent.order EXCEPT ![r] = sent.count + 1]
    BY <1>1 DEF Send
  <2> QED
    BY <2>1 DEF ArrivalInv
<1>2. ASSUME sent' = Broken PROVE ArrivalInv'
  <2>1. sent'.count = sent.count /\ sent'.order = sent.order
    BY <1>2 DEF Broken
  <2> QED
    BY <2>1 DEF ArrivalInv
<1>3. ASSUME sent' = sent PROVE ArrivalInv'
  BY <1>3 DEF ArrivalInv
<1>4. \A r \in Request : Fail(r) \/ Disconnect(r) => sent' = Broken
  BY DEF Fail, Disconnect
<1>5. Crash => sent' = Broken
  BY DEF Crash
<1>6. \A r \in Request : Serve(r) => sent' = sent
  BY DEF Serve, Check, StartNew, StartResume, StartNothing, Answer, Rerun, Pause
<1>7. UNCHANGED vars => sent' = sent
  BY DEF vars
<1> QED
  BY <1>1, <1>2, <1>3, <1>4, <1>5, <1>6, <1>7 DEF Next

\* Nothing that is done or has been said changes while no message is finished.
LEMMA NothingFinished ==
  ASSUME NEW o \in Request, sent' = sent,
         \A q \in Request : pc'[q] = "done" <=> pc[q] = "done"
  PROVE  DoneAfter(o)' = DoneAfter(o) /\ \A words : InOrder(words)' = InOrder(words)
BY DEF DoneAfter, InOrder

\* The answered message joins what is done.
LEMMA OneFinished ==
  ASSUME NEW r \in Request, NEW o \in Request, ArrivalInv, YoungestOpen, sent' = sent,
         pc[r] \in Open, pc'[r] = "done", \A q \in Request \ {r} : pc'[q] = pc[q],
         o = r \/ pc[o] = "done"
  PROVE  DoneAfter(o)' = DoneAfter(o) \union ({r} \ {o})
<1>1. pc[r] # "done"
  BY DEF Open
<1>2. CASE o = r
  <2>1. \A q \in Request : pc[q] = "done" => ~ (sent.order[q] > sent.order[r])
    BY DEF YoungestOpen, ArrivalInv
  <2>2. ~ (sent.order[r] > sent.order[r])
    BY DEF ArrivalInv
  <2> QED
    BY <1>1, <1>2, <2>1, <2>2 DEF DoneAfter
<1>3. CASE o # r /\ pc[o] = "done"
  <2>1. sent.order[r] > sent.order[o]
    BY <1>3 DEF YoungestOpen, ArrivalInv
  <2> QED
    BY <1>1, <1>3, <2>1 DEF DoneAfter
<1> QED
  BY <1>2, <1>3

LEMMA KnowsInit == Init => KnowsInv
<1> SUFFICES ASSUME Init PROVE KnowsInv
  OBVIOUS
<1>1. pc = [r \in Request |-> "idle"] /\ ckpts = <<>>
  BY DEF Init
<1> QED
  BY <1>1 DEF Knows, KnowsInv, YoungestOpen, Open

\* What is known of a calm thread before a step, and of the step's types.
CalmStep == TypeOK /\ TypeOK' /\ ModeInv /\ Alone /\ Alone' /\ ArrivalInv /\ Knows

LEMMA CalmPCs ==
  ASSUME NEW r \in Request, CalmStep, pc[r] \in Open
  PROVE  /\ pc \in [Request -> PCs] /\ mode \in [Request -> {"none", "new", "resume"}]
         /\ \A q \in Request \ {r} : pc[q] \notin Open /\ pc[q] # "running"
         /\ \A q \in Request : pc[q] = "done" => sent.order[q] < sent.order[r]
BY DEF Knows, CalmStep, TypeOK, PCs, Alone, YoungestOpen, Open

LEMMA SendKnows ==
  ASSUME NEW r \in Request, CalmStep, Send(r), Calm'
  PROVE  Knows'
<1>1. /\ sent'.order = [sent.order EXCEPT ![r] = sent.count + 1]
      /\ sent'.overlapped = (sent.overlapped \/ \E q \in Request : pc[q] \in Open)
  BY DEF Send
<1>2. \A q \in Request : pc[q] \notin Open
  BY <1>1 DEF Calm
<1>3. /\ pc \in [Request -> PCs] /\ pc' = [pc EXCEPT ![r] = "arrived"]
      /\ pc[r] # "done" /\ ckpts' = ckpts
  BY DEF CalmStep, TypeOK, PCs, Send
<1>4. /\ pc'[r] = "arrived"
      /\ \A q \in Request \ {r} : pc'[q] = pc[q] /\ pc'[q] \notin Open
  BY <1>2, <1>3
<1>5. /\ sent'.order[r] = sent.count + 1
      /\ \A q \in Request \ {r} : sent'.order[q] = sent.order[q]
      /\ \A q \in Request \ {r} : sent'.order[q] < sent'.order[r]
  BY <1>1 DEF CalmStep, ArrivalInv
<1>6. YoungestOpen'
  BY <1>4, <1>5 DEF YoungestOpen, Open
<1>7. \A q \in Request : pc'[q] # "running"
  BY <1>4 DEF Open
<1>8. ASSUME ckpts # <<>>, Latest.next PROVE ThreadKnows'
  <2>1. \A q \in Request : pc[q] # "running"
    BY <1>2 DEF Open
  <2>2. ThreadKnows
    BY <1>8, <2>1 DEF Knows, CalmStep
  <2>3. PICK o \in Request, w \in Seq(Request) :
          /\ o = Latest.owner /\ w = Latest.resumes
          /\ Latest'.owner = o /\ Latest'.resumes = w
    BY <1>3, <1>8, LatestTyped DEF CalmStep, Latest
  <2>4. pc[o] = "done" /\ InOrder(w) /\ ToSet(w) = DoneAfter(o)
    BY <2>2, <2>3 DEF ThreadKnows
  <2>5. o # r /\ pc'[o] = "done"
    BY <1>3, <1>4, <2>3, <2>4
  <2>6. DoneAfter(o)' = DoneAfter(o)
    <3>1. pc'[r] # "done" /\ pc[r] # "done" /\ sent'.order[o] = sent.order[o]
      BY <1>3, <1>4, <1>5, <2>3, <2>5
    <3>2. \A q \in Request : pc'[q] = "done" /\ sent'.order[q] > sent'.order[o]
                              <=> pc[q] = "done" /\ sent.order[q] > sent.order[o]
      BY <1>4, <1>5, <3>1
    <3> QED
      BY <3>2 DEF DoneAfter
  <2>7. InOrder(w)'
    <3>1. \A i \in DOMAIN w : w[i] \in ToSet(w)
      BY <2>3, SetOfElements
    <3>2. \A i \in DOMAIN w : w[i] \in Request \ {r}
      BY <1>3, <2>4, <3>1 DEF DoneAfter
    <3>3. \A i \in DOMAIN w : sent'.order[w[i]] = sent.order[w[i]]
      BY <1>5, <3>2
    <3> QED
      BY <2>4, <3>3 DEF InOrder
  <2> QED
    BY <2>3, <2>4, <2>5, <2>6, <2>7 DEF ThreadKnows
<1>9. ckpts' # <<>> /\ Latest'.next => ThreadKnows'
  BY <1>3, <1>8 DEF Latest
<1> QED
  BY <1>6, <1>7, <1>9 DEF Knows

LEMMA CheckKnows ==
  ASSUME NEW r \in Request, CalmStep, Check(r)
  PROVE  Knows'
<1>1. /\ pc \in [Request -> PCs] /\ pc' = [pc EXCEPT ![r] = "ready"]
      /\ pc[r] = "arrived" /\ ckpts' = ckpts /\ sent' = sent
  BY DEF CalmStep, TypeOK, PCs, Check
<1>2. \A q \in Request \ {r} : pc'[q] = pc[q] /\ pc[q] \notin Open /\ pc[q] # "running"
  BY <1>1, CalmPCs DEF Open
<1>3. pc'[r] = "ready"
  BY <1>1
<1>4. YoungestOpen'
  BY <1>1, <1>2, <1>3 DEF Knows, CalmStep, YoungestOpen, Open
<1>5. \A q \in Request : pc'[q] # "running" /\ pc[q] # "running"
  BY <1>1, <1>2, <1>3
<1>6. ASSUME ckpts # <<>>, Latest.next PROVE ThreadKnows'
  <2>1. ThreadKnows
    BY <1>5, <1>6 DEF Knows, CalmStep
  <2>2. Latest.owner \in Request /\ Latest' = Latest
    BY <1>1, <1>6, LatestTyped DEF CalmStep, Latest
  <2>3. /\ DoneAfter(Latest.owner)' = DoneAfter(Latest.owner)
        /\ InOrder(Latest.resumes)' = InOrder(Latest.resumes)
        /\ pc'[Latest.owner] = pc[Latest.owner] \/ pc[Latest.owner] # "done"
    BY <1>1, <1>2, <1>3, <2>2 DEF DoneAfter, InOrder
  <2> QED
    BY <2>1, <2>2, <2>3 DEF ThreadKnows
<1>7. ckpts' # <<>> /\ Latest'.next => ThreadKnows'
  BY <1>1, <1>6 DEF Latest
<1> QED
  BY <1>4, <1>5, <1>7 DEF Knows

LEMMA StartNewKnows ==
  ASSUME NEW r \in Request, CalmStep, StartNew(r)
  PROVE  Knows'
<1>1. /\ pc \in [Request -> PCs] /\ pc' = [pc EXCEPT ![r] = "running"]
      /\ pc[r] = "ready" /\ sent' = sent
      /\ base'[r] = Len(ckpts) + 1 /\ resumes'[r] = <<>> /\ spare'[r] = FALSE
  BY DEF CalmStep, TypeOK, PCs, StartNew
<1>2. \A q \in Request \ {r} : pc'[q] = pc[q] /\ pc[q] \notin Open /\ pc[q] # "running"
  BY <1>1, CalmPCs DEF Open
<1>3. pc'[r] = "running"
  BY <1>1
<1>4. YoungestOpen'
  BY <1>1, <1>2, <1>3 DEF Knows, CalmStep, YoungestOpen, Open
<1>5. ckpts'[base'[r]] = NewTurn(r)
  BY <1>1, StartNewAdds DEF CalmStep, Added
<1>6. ckpts'[base'[r]].owner = r /\ ~ ckpts'[base'[r]].paused
  BY <1>5 DEF NewTurn
<1>7. DoneAfter(r)' = {}
  <2>1. \A q \in Request : pc'[q] = "done" => ~ (sent'.order[q] > sent'.order[r])
    BY <1>1, <1>2, <1>3, CalmPCs DEF Open, CalmStep, ArrivalInv
  <2> QED
    BY <2>1 DEF DoneAfter
<1>8. InOrder(<<>>)'
  BY DEF InOrder
<1>9. RunKnows(r, r)'
  BY <1>1, <1>6, <1>7, <1>8, SetOfEmpty DEF RunKnows
<1> QED
  BY <1>2, <1>3, <1>4, <1>6, <1>9 DEF Knows

LEMMA StartResumeKnows ==
  ASSUME NEW r \in Request, CalmStep, StartResume(r)
  PROVE  Knows'
<1>1. /\ pc \in [Request -> PCs] /\ pc' = [pc EXCEPT ![r] = "running"]
      /\ pc[r] = "ready" /\ sent' = sent
      /\ base'[r] = Len(ckpts) /\ resumes'[r] = Latest.resumes /\ spare'[r] = TRUE
      /\ Latest.next
  BY DEF CalmStep, TypeOK, PCs, StartResume
<1>2. \A q \in Request \ {r} : pc'[q] = pc[q] /\ pc[q] \notin Open /\ pc[q] # "running"
  BY <1>1, CalmPCs DEF Open
<1>3. pc'[r] = "running"
  BY <1>1
<1>4. YoungestOpen'
  BY <1>1, <1>2, <1>3 DEF Knows, CalmStep, YoungestOpen, Open
<1>5. ckpts # <<>>
  BY DEF CalmStep, StartResume, ModeInv
<1>6. \A q \in Request : pc[q] # "running"
  BY <1>1, <1>2
<1>7. ThreadKnows
  BY <1>1, <1>5, <1>6 DEF Knows, CalmStep
<1>8. PICK o \in Request : o = Latest.owner
  BY <1>5, LatestTyped DEF CalmStep
<1>9. ckpts'[base'[r]].owner = o /\ ckpts'[base'[r]].paused = FALSE
  <2>1. Updated(Len(ckpts), FALSE, Latest.resumes)
    BY <1>5, StartResumeUpdates DEF CalmStep
  <2>2. Len(ckpts) \in 1 .. Len(ckpts)
    BY <1>5, LatestTyped DEF CalmStep
  <2> QED
    BY <1>1, <1>8, <2>1, <2>2 DEF Updated, Latest
<1>10. \A q \in Request : pc'[q] = "done" <=> pc[q] = "done"
  BY <1>1, <1>2, <1>3
<1>11. \A q \in Request : DoneAfter(q)' = DoneAfter(q)
  BY <1>1, <1>10, NothingFinished
<1>12. RunKnows(r, o)'
  <2>1. pc'[o] = "done"
    BY <1>7, <1>8, <1>10 DEF ThreadKnows
  <2>2. InOrder(resumes[r])'
    BY <1>1, <1>7 DEF InOrder, ThreadKnows
  <2>3. ToSet(resumes'[r]) = DoneAfter(o)'
    BY <1>1, <1>7, <1>8, <1>11 DEF ThreadKnows
  <2> QED
    BY <1>1, <1>9, <2>1, <2>2, <2>3 DEF RunKnows
<1> QED
  BY <1>2, <1>3, <1>4, <1>9, <1>12 DEF Knows

LEMMA RerunKnows ==
  ASSUME NEW r \in Request, CalmStep, Rerun(r)
  PROVE  Knows'
<1>1. /\ ckpts' = ckpts /\ pc' = pc /\ base' = base /\ sent' = sent /\ pc[r] = "running"
      /\ resumes \in [Request -> Seq(Request)] /\ spare \in [Request -> BOOLEAN]
  BY DEF Rerun, CalmStep, TypeOK
<1>2. YoungestOpen'
  BY <1>1 DEF Knows, CalmStep, YoungestOpen
<1>3. \A q \in Request \ {r} : pc[q] # "running"
  BY <1>1, CalmPCs DEF Open
<1>4. PICK o \in Request : o = ckpts[base[r]].owner
  BY <1>1, RunningBase DEF CalmStep
<1>5. PICK w \in Seq(Request) : w = resumes[r]
  BY <1>1
<1>6. /\ ~ ckpts[base[r]].paused /\ InOrder(w)
      /\ spare[r] => pc[o] = "done" /\ ToSet(w) = DoneAfter(o)
      /\ ~ spare[r] => /\ o = r \/ pc[o] = "done"
                      /\ ToSet(w) = DoneAfter(o) \union ({r} \ {o})
  BY <1>1, <1>4, <1>5 DEF Knows, CalmStep, RunKnows
<1>7. DoneAfter(o)' = DoneAfter(o) /\ \A words : InOrder(words)' = InOrder(words)
  BY <1>1, NothingFinished
<1>8. CASE resumes' = resumes /\ spare' = spare
  <2>1. RunKnows(r, o)'
    BY <1>1, <1>4, <1>5, <1>6, <1>7, <1>8 DEF RunKnows, InOrder
  <2> QED
    BY <1>1, <1>2, <1>3, <1>4, <2>1 DEF Knows
<1>9. CASE spare[r] /\ resumes' = [resumes EXCEPT ![r] = Append(@, r)]
           /\ spare' = [spare EXCEPT ![r] = FALSE]
  <2>1. resumes'[r] = Append(w, r) /\ spare'[r] = FALSE
    BY <1>1, <1>5, <1>9
  <2>2. o # r /\ pc[o] = "done" /\ ToSet(w) = DoneAfter(o)
    BY <1>1, <1>6, <1>9
  <2>3. ToSet(Append(w, r)) = DoneAfter(o) \union ({r} \ {o})
    BY <2>2, SetOfAppend
  <2>4. \A q \in ToSet(w) : sent.order[q] < sent.order[r]
    BY <1>1, <2>2, CalmPCs DEF DoneAfter, Open
  <2>5. InOrder(Append(w, r))
    BY <1>6, <2>4, YoungerInOrder DEF CalmStep
  <2>6. InOrder(resumes[r])'
    BY <1>1, <2>1, <2>5 DEF InOrder
  <2>7. ToSet(resumes'[r]) = DoneAfter(o)' \union ({r} \ {o})
    BY <1>7, <2>1, <2>3
  <2>8. RunKnows(r, o)'
    BY <1>1, <1>6, <2>1, <2>2, <2>6, <2>7 DEF RunKnows
  <2> QED
    BY <1>1, <1>2, <1>3, <1>4, <2>8 DEF Knows
<1> QED
  BY <1>8, <1>9 DEF Rerun

LEMMA PauseKnows ==
  ASSUME NEW r \in Request, CalmStep, Pause(r)
  PROVE  Knows'
<1>1. /\ pc \in [Request -> PCs] /\ pc' = [pc EXCEPT ![r] = "done"] /\ sent' = sent
      /\ pc[r] = "running" /\ ~ spare[r]
  BY DEF Pause, CalmStep, TypeOK, PCs
<1>2. /\ pc'[r] = "done"
      /\ \A q \in Request \ {r} : pc'[q] = pc[q] /\ pc[q] \notin Open
  BY <1>1, CalmPCs DEF Open
<1>3. YoungestOpen' /\ \A q \in Request : pc'[q] # "running"
  BY <1>2 DEF YoungestOpen, Open
<1>4. PICK o \in Request : o = ckpts[base[r]].owner
  BY <1>1, RunningBase DEF CalmStep
<1>5. Latest'.owner = o /\ Latest'.resumes = resumes[r]
  <2>1. Updated(base[r], TRUE, resumes[r]) /\ base[r] = Len(ckpts) /\ base[r] \in 1 .. Len(ckpts)
    BY <1>1, PauseUpdates, RunningBase DEF CalmStep, Alone
  <2> QED
    BY <1>4, <2>1 DEF Updated, Latest
<1>6. /\ InOrder(resumes[r]) /\ (o = r \/ pc[o] = "done")
      /\ ToSet(resumes[r]) = DoneAfter(o) \union ({r} \ {o})
  BY <1>1, <1>4 DEF Knows, CalmStep, RunKnows
<1>7. DoneAfter(o)' = DoneAfter(o) \union ({r} \ {o})
  BY <1>1, <1>2, <1>6, OneFinished DEF Knows, CalmStep, Open
<1>8. pc'[o] = "done" /\ InOrder(Latest.resumes)'
  BY <1>1, <1>2, <1>5, <1>6 DEF InOrder
<1>9. ThreadKnows'
  BY <1>5, <1>6, <1>7, <1>8 DEF ThreadKnows
<1> QED
  BY <1>3, <1>9 DEF Knows

LEMMA KnowsStep ==
  TypeOK /\ ModeInv /\ AloneInv /\ ArrivalInv /\ KnowsInv /\ [Next]_vars => KnowsInv'
<1> SUFFICES ASSUME TypeOK, ModeInv, AloneInv, ArrivalInv, KnowsInv, [Next]_vars, Calm'
             PROVE  Knows'
  BY DEF KnowsInv
<1>1. ~ sent.overlapped /\ ~ sent'.overlapped /\ ~ sent'.broken
  BY OverlapStays DEF Calm
<1>2. ASSUME sent' = Broken PROVE FALSE
  BY <1>1, <1>2 DEF Broken
<1>3. ASSUME NEW r \in Request, Fail(r) \/ Disconnect(r) \/ Crash PROVE FALSE
  BY <1>2, <1>3 DEF Fail, Disconnect, Crash
<1>4. ~ sent.broken
  <2>1. ASSUME NEW r \in Request, Send(r) PROVE sent'.broken = sent.broken
    BY <2>1 DEF Send
  <2>2. ASSUME NEW r \in Request, Serve(r) PROVE sent' = sent
    BY <2>2 DEF Serve, Check, StartNew, StartResume, StartNothing, Answer, Rerun, Pause
  <2>3. Crash => FALSE
    BY <1>2 DEF Crash
  <2> QED
    BY <1>1, <1>3, <2>1, <2>2, <2>3 DEF Next, vars
<1>5. Alone /\ Alone' /\ TypeOK'
  BY <1>1, AloneStep, TypeStep DEF AloneInv
<1>6. Knows
  BY <1>1, <1>4 DEF KnowsInv, Calm
<1>7. CalmStep
  BY <1>5, <1>6 DEF CalmStep
<1>8. ASSUME NEW r \in Request, StartNothing(r) PROVE FALSE
  BY <1>5, <1>8 DEF StartNothing, Alone
<1>9. ASSUME NEW r \in Request, Answer(r) PROVE Knows'
  <2>1. PICK c \in Checkpoint : Added(c) /\ ~ c.next
    BY <1>9, AnswerAdds
  <2>2. ~ Latest'.next
    BY <2>1 DEF Added, Latest
  <2>3. \A q \in Request : pc'[q] \notin Open /\ pc'[q] # "running"
    BY <1>7, <1>9, CalmPCs DEF Answer, Open
  <2> QED
    BY <2>2, <2>3 DEF Knows, YoungestOpen
<1>10. ASSUME UNCHANGED vars PROVE Knows'
  <2>1. /\ ckpts' = ckpts /\ pc' = pc /\ base' = base /\ sent' = sent
        /\ resumes' = resumes /\ spare' = spare
    BY <1>10 DEF vars, run
  <2> QED
    BY <1>6, <2>1 DEF Knows, YoungestOpen, RunKnows, ThreadKnows, DoneAfter, InOrder, Latest
<1>11. ASSUME NEW r \in Request, Serve(r) PROVE Knows'
  BY <1>7, <1>8, <1>9, <1>11, CheckKnows, StartNewKnows, StartResumeKnows, RerunKnows, PauseKnows
     DEF Serve
<1>12. ASSUME NEW r \in Request, Send(r) PROVE Knows'
  BY <1>7, <1>12, SendKnows
<1>13. Crash => FALSE
  BY <1>2 DEF Crash
<1> QED
  BY <1>3, <1>10, <1>11, <1>12, <1>13 DEF Next

\* While a thread that is used one message at a time and where nothing has broken
\* waits with a question, the resume values kept with it are exactly the
\* clarifications sent since the request it is about, once and in order.  Nothing
\* is said of the answer that a later run gives.
THEOREM ClarificationsAreComplete ==
  Spec => []ClarificationsComplete
<1>1. TypeOK /\ AloneInv /\ PausedInv /\ KnowsInv => ClarificationsComplete
  <2> SUFFICES ASSUME TypeOK, AloneInv, PausedInv, KnowsInv,
                      ~ sent.overlapped, ~ sent.broken, ckpts # <<>>, Latest.paused
               PROVE  ThreadKnows
    BY DEF ClarificationsComplete, ThreadKnows
  <2>1. Calm /\ Alone
    BY DEF Calm, AloneInv
  <2>2. ASSUME NEW r \in Request, pc[r] = "running" PROVE FALSE
    <3>1. base[r] = Len(ckpts) /\ ~ ckpts[base[r]].paused
      BY <2>1, <2>2 DEF Knows, Alone, KnowsInv, RunKnows
    <3> QED
      BY <3>1 DEF Latest
  <2>3. Latest.next
    BY <2>2 DEF PausedInv
  <2> QED
    BY <2>1, <2>2, <2>3 DEF Knows, KnowsInv
<1>2. Init => PausedInv
  BY DEF Init, PausedInv
<1>3. TypeOK /\ ModeInv /\ AloneInv /\ [Next]_vars => AloneInv'
  BY AloneStep
<1>4. TypeOK /\ ModeInv /\ AloneInv /\ PausedInv /\ [Next]_vars => PausedInv'
  BY PausedStep
<1> QED
  BY <1>1, <1>2, <1>3, <1>4, ArrivalInit, ArrivalStep, KnowsInit, KnowsStep,
     AloneInit, TypeInit, TypeStep, PTL DEF Spec

=============================================================================
