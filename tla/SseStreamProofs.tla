-------------------------- MODULE SseStreamProofs ---------------------------
(***************************************************************************)
(* What is proved of module SseStream, for any labels, however they are    *)
(* attributed to agents, and for streams of any length.                    *)
(***************************************************************************)
EXTENDS SseStream, SequenceTheorems, TLAPS

-----------------------------------------------------------------------------
(* The operators.                                                          *)

Labels(old) == UNION {ToSet(old[i].labels) : i \in DOMAIN old}

\* A label added to a sequence of labels is added to their set.
LEMMA AppendToSet ==
  ASSUME NEW S, NEW s \in Seq(S), NEW x \in S
  PROVE  ToSet(Append(s, x)) = ToSet(s) \union {x}
<1> DEFINE t == Append(s, x)
<1>1. /\ Len(s) \in Nat /\ DOMAIN s = 1 .. Len(s) /\ DOMAIN t = 1 .. Len(s) + 1
      /\ \A i \in 1 .. Len(s) : t[i] = s[i]
      /\ t[Len(s) + 1] = x
  BY AppendProperties
<1>2. DOMAIN t = (1 .. Len(s)) \union {Len(s) + 1}
  BY <1>1
<1> HIDE DEF t
<1> QED
  BY <1>1, <1>2 DEF ToSet, t

\* A label of the agent at work changes only the last activity, one of another
\* agent only adds an activity; either way the label, and no other, is added.
LEMMA ActivityAppended ==
  ASSUME NEW old \in Seq(Activities), NEW l \in Label
  PROVE  LET new == AppendActivity(old, l) IN
         /\ new \in Seq(Activities)
         /\ \/ Len(new) = Len(old) /\ Len(old) > 0
            \/ Len(new) = Len(old) + 1
         /\ \A i \in 1 .. Len(old) : i < Len(new) => new[i] = old[i]
         /\ Labels(new) = Labels(old) \union {l}
<1> DEFINE new == AppendActivity(old, l)
<1>a. PICK n \in Nat : n = Len(old)
  BY LenProperties
<1>1. n = Len(old) /\ DOMAIN old = 1 .. n
  BY <1>a, LenProperties
<1>i. /\ n # 0 => n > 0 /\ n \in 1 .. n
      /\ n + 1 \in 1 .. n + 1
      /\ \A i \in 1 .. n : i \in 1 .. n + 1
      /\ \A i \in 1 .. n + 1 : i = n + 1 \/ i \in 1 .. n
  OBVIOUS
<1>0. \A i \in 1 .. n : old[i] \in Activities
  BY <1>1, ElementOfSeq
<1>2. CASE old # <<>> /\ Last(old).agent = AgentOf[l]
  <2>1. n > 0 /\ n \in 1 .. n
    <3>1. n # 0
      BY <1>1, <1>2, EmptySeq
    <3> QED
      BY <1>i, <3>1
  <2>2. PICK a \in Activities : a = old[n]
    BY <1>0, <2>1
  <2> DEFINE b == [a EXCEPT !.labels = Append(a.labels, l)]
  <2>3. new = [old EXCEPT ![n] = b]
    BY <1>1, <1>2, <2>2 DEF AppendActivity
  <2>4. a.labels \in Seq(Label) /\ b.labels = Append(a.labels, l)
    BY DEF Activities
  <2>9. b \in Activities
    <3>1. Append(a.labels, l) \in Seq(Label)
      BY <2>4, AppendProperties
    <3> QED
      BY <3>1 DEF Activities
  <2> HIDE DEF b
  <2>5. /\ new \in Seq(Activities) /\ Len(new) = n /\ DOMAIN new = 1 .. n
        /\ new[n] = b /\ \A i \in 1 .. n : i # n => new[i] = old[i]
    <3>1. n \in 1 .. Len(old) /\ n = Len(old)
      BY <1>1, <2>1
    <3> DEFINE cs == [old EXCEPT ![n] = b]
    <3>2. cs \in Seq(Activities) /\ Len(cs) = Len(old)
      BY <2>9, <3>1, ExceptSeq
    <3>3. cs[n] = b /\ \A i \in 1 .. n : i # n => cs[i] = old[i]
      BY <1>1, <2>1
    <3> HIDE DEF cs
    <3>4. new = cs
      BY <2>3 DEF cs
    <3> HIDE DEF new
    <3> QED
      BY <3>1, <3>2, <3>3, <3>4, LenProperties
  <2>6. ToSet(new[n].labels) = ToSet(old[n].labels) \union {l}
    <3>1. new[n].labels = Append(a.labels, l)
      BY <2>4, <2>5
    <3>2. ToSet(Append(a.labels, l)) = ToSet(a.labels) \union {l}
      BY <2>4, AppendToSet
    <3> QED
      BY <2>2, <3>1, <3>2
  <2> HIDE DEF new
  <2>8. Labels(new) = Labels(old) \union {l}
    <3>1. ASSUME NEW x \in Labels(new) PROVE x \in Labels(old) \union {l}
      <4>1. PICK i \in 1 .. n : x \in ToSet(new[i].labels)
        BY <2>5, <3>1 DEF Labels
      <4> QED
        BY <1>1, <2>1, <2>5, <2>6, <4>1 DEF Labels
    <3>2. ASSUME NEW x \in Labels(old) \union {l} PROVE x \in Labels(new)
      <4>1. CASE x = l
        BY <2>1, <2>5, <2>6, <4>1 DEF Labels
      <4>2. CASE x \in Labels(old)
        <5>1. PICK i \in 1 .. n : x \in ToSet(old[i].labels)
          BY <1>1, <4>2 DEF Labels
        <5> QED
          BY <2>5, <2>6, <5>1 DEF Labels
      <4> QED
        BY <3>2, <4>1, <4>2
    <3> QED
      BY <3>1, <3>2
  <2> QED
    <3>1. \A i \in 1 .. Len(old) : i < Len(new) => new[i] = old[i]
      BY <1>1, <2>5
    <3> QED
      BY <1>1, <2>1, <2>5, <2>8, <3>1 DEF new
<1>3. CASE ~ (old # <<>> /\ Last(old).agent = AgentOf[l])
  <2> DEFINE b == Activity(AgentOf[l], <<l>>)
  <2>1. new = Append(old, b)
    BY <1>3 DEF AppendActivity
  <2>2. b \in Activities /\ b.labels = <<l>>
    BY DEF Activity, Activities
  <2> HIDE DEF b
  <2>3. /\ new \in Seq(Activities) /\ Len(new) = n + 1 /\ DOMAIN new = 1 .. n + 1
        /\ new[n + 1] = b /\ \A i \in 1 .. n : new[i] = old[i]
    <3> DEFINE cs == Append(old, b)
    <3>1. /\ cs \in Seq(Activities) /\ Len(cs) = n + 1 /\ cs[n + 1] = b
          /\ \A i \in 1 .. n : cs[i] = old[i]
      BY <2>2, <1>1, AppendProperties
    <3>2. new = cs
      BY <2>1
    <3> HIDE DEF cs, new
    <3> QED
      BY <3>1, <3>2, LenProperties
  <2>4. ToSet(new[n + 1].labels) = {l}
    BY <2>2, <2>3 DEF ToSet
  <2> HIDE DEF new
  <2>5. Labels(new) = Labels(old) \union {l}
    <3>1. ASSUME NEW x \in Labels(new) PROVE x \in Labels(old) \union {l}
      <4>1. PICK i \in 1 .. n + 1 : x \in ToSet(new[i].labels)
        BY <2>3, <3>1 DEF Labels
      <4>2. CASE i = n + 1
        BY <2>4, <4>1, <4>2
      <4>3. CASE i \in 1 .. n
        BY <1>1, <2>3, <4>1, <4>3 DEF Labels
      <4> QED
        BY <1>i, <4>1, <4>2, <4>3
    <3>2. ASSUME NEW x \in Labels(old) \union {l} PROVE x \in Labels(new)
      <4>1. CASE x = l
        BY <1>i, <2>3, <2>4, <4>1 DEF Labels
      <4>2. CASE x \in Labels(old)
        <5>1. PICK i \in 1 .. n : x \in ToSet(old[i].labels)
          BY <1>1, <4>2 DEF Labels
        <5> QED
          BY <1>i, <2>3, <5>1 DEF Labels
      <4> QED
        BY <3>2, <4>1, <4>2
    <3> QED
      BY <3>1, <3>2
  <2> QED
    BY <1>1, <2>3, <2>5 DEF new
<1> QED
  BY <1>2, <1>3

\* The list of completed steps grows by the latest activity, numbered last.
LEMMA StepCompleted ==
  ASSUME TypeOK, Len(activities) > 0
  PROVE  /\ Complete(activities) \in Seq([step : Nat, activity : Activities])
         /\ Len(Complete(activities)) = Len(completed) + 1
         /\ \A k \in 1 .. Len(completed) : Complete(activities)[k] = completed[k]
         /\ Complete(activities)[Len(completed) + 1].step = Len(activities)
         /\ Complete(activities)[Len(completed) + 1].activity = activities[Len(activities)]
<1>1. /\ activities \in Seq(Activities) /\ Len(activities) \in Nat
      /\ completed \in Seq([step : Nat, activity : Activities])
  BY LenProperties DEF TypeOK
<1>2. Len(activities) \in 1 .. Len(activities) /\ activities # <<>>
  BY <1>1
<1>3. PICK a \in Activities : a = activities[Len(activities)]
  BY <1>1, <1>2, ElementOfSeq
<1> DEFINE e == [step |-> Len(activities), activity |-> a]
<1>4. Complete(activities) = Append(completed, e)
  BY <1>2, <1>3 DEF Complete, Last
<1>5. e \in [step : Nat, activity : Activities] /\ e.step = Len(activities) /\ e.activity = a
  BY <1>1
<1> HIDE DEF e
<1> QED
  BY <1>1, <1>3, <1>4, <1>5, AppendProperties

-----------------------------------------------------------------------------
(* Types.                                                                  *)

LEMMA TypeInit == Init => TypeOK
<1> SUFFICES ASSUME Init PROVE TypeOK
  OBVIOUS
<1>1. UNION {ToSet(activities[i].labels) : i \in DOMAIN activities} = {}
  BY DEF Init
<1>2. told \in [labels : 0 .. MaxLabels, updates : 0 .. MaxUpdates]
  BY BoundsAssumption DEF Init
<1>3. /\ activities \in Seq(Activities)
      /\ completed \in Seq([step : Nat, activity : Activities])
      /\ final \in Seq({"answer", "question", "empty", "unavailable"})
  BY DEF Init
<1>4. finalized = (answers # {})
  BY DEF Init
<1>5. emitted = UNION {ToSet(activities[i].labels) : i \in DOMAIN activities}
  BY <1>1 DEF Init
<1>6. /\ pc \in {"idle", "reading", "streaming", "done", "broken", "gone"}
      /\ emitted \subseteq Label
      /\ status \in Label \union {"starting", "complete", "failed"}
      /\ active \in Activities \union {Idle}
      /\ said \in Text \union {"none"}
      /\ failed \in {"none", "unavailable", "error"}
  BY DEF Init
<1> QED
  BY <1>2, <1>3, <1>4, <1>5, <1>6 DEF TypeOK

LEMMA ShowTextTypes ==
  ASSUME TypeOK, NEW t \in Text, ShowText(t)
  PROVE  /\ finalized' = (answers' # {})
         /\ status' \in Label \union {"starting", "complete", "failed"}
         /\ completed' \in Seq([step : Nat, activity : Activities])
         /\ active' \in Activities \union {Idle}
         /\ final' \in Seq({"answer", "question", "empty", "unavailable"})
<1>1. CASE t = "blank" \/ Stripped(t) \in answers
  BY <1>1 DEF ShowText, TypeOK, page
<1>2. CASE ~ (t = "blank" \/ Stripped(t) \in answers)
  <2>1. ShowNew(Stripped(t)) /\ Stripped(t) \in {"answer", "question", "empty", "unavailable"}
    BY <1>2 DEF ShowText, Stripped, Text
  <2>2. final' \in Seq({"answer", "question", "empty", "unavailable"})
    BY <2>1, AppendProperties DEF ShowNew, TypeOK
  <2>3. Complete(activities) \in Seq([step : Nat, activity : Activities])
    <3>1. CASE activities = <<>>
      BY <3>1 DEF Complete, TypeOK
    <3>2. CASE activities # <<>>
      <4>1. activities \in Seq(Activities)
        BY DEF TypeOK
      <4>2. Len(activities) \in Nat /\ Len(activities) # 0
        BY <3>2, <4>1, LenProperties, EmptySeq
      <4> QED
        BY <4>2, StepCompleted
    <3> QED
      BY <3>1, <3>2
  <2> QED
    BY <2>1, <2>2, <2>3 DEF ShowNew, FinalizeEvents, TypeOK
<1> QED
  BY <1>1, <1>2

LEMMA TypeInductive == TypeOK /\ [Next]_vars => TypeOK'
<1> SUFFICES ASSUME TypeOK, [Next]_vars PROVE TypeOK'
  OBVIOUS
<1>1. CASE UNCHANGED vars
  BY <1>1 DEF vars, memo, page, TypeOK
<1>2. CASE Open \/ Start \/ Close \/ Cancel
  BY <1>2 DEF Open, Start, Close, Cancel, memo, page, TypeOK
<1>3. ASSUME NEW l \in Label, Progress(l) PROVE TypeOK'
  <2>1. told' \in [labels : 0 .. MaxLabels, updates : 0 .. MaxUpdates]
    <3>1. told.labels \in 0 .. MaxLabels /\ told.labels < MaxLabels /\ MaxLabels \in Nat
      BY <1>3, BoundsAssumption DEF Progress, TypeOK
    <3>2. told.labels + 1 \in 0 .. MaxLabels
      BY <3>1
    <3> QED
      BY <1>3, <3>2 DEF Progress, TypeOK
  <2>2. CASE l \in emitted
    BY <1>3, <2>1, <2>2 DEF Progress, page, TypeOK
  <2>3. CASE l \notin emitted
    <3>1. /\ activities' = AppendActivity(activities, l)
          /\ emitted' = emitted \union {l}
          /\ ActivityEvents(l, activities')
          /\ UNCHANGED <<pc, answers, finalized, said, failed>>
      BY <1>3, <2>3 DEF Progress
    <3>2. activities \in Seq(Activities)
      BY DEF TypeOK
    <3>3. /\ activities' \in Seq(Activities)
          /\ Labels(activities') = Labels(activities) \union {l}
          /\ \/ Len(activities') = Len(activities) /\ Len(activities) > 0
             \/ Len(activities') = Len(activities) + 1
      BY <3>1, <3>2, ActivityAppended
    <3>4. emitted' = UNION {ToSet(activities'[i].labels) : i \in DOMAIN activities'}
      BY <3>1, <3>3 DEF TypeOK, Labels
    <3>5. Len(activities) \in Nat /\ Len(activities') \in 1 .. Len(activities')
      BY <3>2, <3>3, LenProperties
    <3>6. active' \in Activities
      BY <3>1, <3>3, <3>5, ElementOfSeq DEF ActivityEvents, Last
    <3>7. completed' \in Seq([step : Nat, activity : Activities])
      <4>1. CASE activities = <<>>
        BY <3>1, <4>1 DEF ActivityEvents, Complete, TypeOK
      <4>2. CASE activities # <<>>
        <5>1. Len(activities) > 0
          BY <3>2, <3>5, <4>2, EmptySeq
        <5> QED
          BY <3>1, <5>1, StepCompleted DEF ActivityEvents, TypeOK
      <4> QED
        BY <4>1, <4>2
    <3> QED
      BY <2>1, <3>1, <3>3, <3>4, <3>6, <3>7 DEF ActivityEvents, TypeOK
  <2> QED
    BY <2>2, <2>3
<1>4. ASSUME NEW t \in Text, Update(t) PROVE TypeOK'
  <2>1. told' \in [labels : 0 .. MaxLabels, updates : 0 .. MaxUpdates]
    BY <1>4, BoundsAssumption DEF Update, TypeOK
  <2>2. ShowText(t)
    BY <1>4 DEF Update
  <2> QED
    BY <1>4, <2>1, <2>2, ShowTextTypes DEF Update, TypeOK
<1>5. CASE Unavailable
  <2>1. final' \in Seq({"answer", "question", "empty", "unavailable"})
    BY <1>5, AppendProperties DEF Unavailable, TypeOK
  <2> QED
    BY <1>5, <2>1 DEF Unavailable, memo, TypeOK
<1>6. CASE Fail
  BY <1>6 DEF Fail, memo, TypeOK
<1> QED
  BY <1>1, <1>2, <1>3, <1>4, <1>5, <1>6 DEF Next, Serve

\* The variables keep their types, every label that was emitted is in an
\* activity, and the workflow is finalized exactly when an answer was shown.
THEOREM Typed == Spec => []TypeOK
BY TypeInit, TypeInductive, PTL DEF Spec

-----------------------------------------------------------------------------
(* Steps.                                                                  *)

LEMMA StepsInit == Init => StepsInv
<1> SUFFICES ASSUME Init PROVE StepsInv
  OBVIOUS
<1>1. Len(activities) = 0 /\ Len(completed) = 0 /\ DOMAIN completed = {}
  BY DEF Init
<1> QED
  BY <1>1 DEF Init, StepsInv, StepsAreComplete

\* Completing the active step leaves every step complete.
LEMMA CompleteKeepsSteps ==
  ASSUME TypeOK, StepsInv, ~ finalized
  PROVE  /\ Complete(activities) \in Seq([step : Nat, activity : Activities])
         /\ Len(Complete(activities)) = Len(activities)
         /\ \A k \in 1 .. Len(activities) :
              /\ Complete(activities)[k].step = k
              /\ Complete(activities)[k].activity = activities[k]
<1>1. /\ activities \in Seq(Activities) /\ Len(activities) \in Nat
      /\ completed \in Seq([step : Nat, activity : Activities])
      /\ Len(completed) \in Nat /\ DOMAIN completed = 1 .. Len(completed)
  BY LenProperties DEF TypeOK
<1>2. CASE Len(activities) = 0
  <2>1. activities = <<>>
    BY <1>1, <1>2, EmptySeq
  <2> QED
    BY <1>1, <1>2, <2>1 DEF Complete, StepsInv
<1>3. CASE Len(activities) > 0
  <2> DEFINE c == Complete(activities)
  <2>1. /\ c \in Seq([step : Nat, activity : Activities])
        /\ Len(c) = Len(completed) + 1
        /\ \A k \in 1 .. Len(completed) : c[k] = completed[k]
        /\ c[Len(completed) + 1].step = Len(activities)
        /\ c[Len(completed) + 1].activity = activities[Len(activities)]
    BY <1>3, StepCompleted
  <2>2. Len(completed) + 1 = Len(activities)
    <3>1. Len(completed) = Len(activities) - 1
      BY <1>3 DEF StepsInv
    <3> QED
      BY <1>1, <3>1
  <2>3. \A k \in 1 .. Len(completed) :
          completed[k].step = k /\ completed[k].activity = activities[k]
    BY <1>1 DEF StepsInv, StepsAreComplete
  <2> HIDE DEF c
  <2>4. \A k \in 1 .. Len(activities) : k \in 1 .. Len(completed) \/ k = Len(activities)
    BY <1>1, <2>2
  <2>5. ASSUME NEW k \in 1 .. Len(activities)
        PROVE  c[k].step = k /\ c[k].activity = activities[k]
    <3>1. CASE k = Len(activities)
      BY <2>1, <2>2, <3>1
    <3>2. CASE k \in 1 .. Len(completed)
      BY <2>1, <2>3, <3>2
    <3> QED
      BY <2>4, <3>1, <3>2
  <2> QED
    BY <2>1, <2>2, <2>5 DEF c
<1> QED
  BY <1>1, <1>2, <1>3

LEMMA StepsInductive == TypeOK /\ TypeOK' /\ StepsInv /\ [Next]_vars => StepsInv'
<1> SUFFICES ASSUME TypeOK, TypeOK', StepsInv, [Next]_vars PROVE StepsInv'
  OBVIOUS
<1>0. /\ activities \in Seq(Activities) /\ Len(activities) \in Nat
      /\ Len(completed) \in Nat /\ DOMAIN completed = 1 .. Len(completed)
      /\ DOMAIN completed' = 1 .. Len(completed')
  BY LenProperties DEF TypeOK
<1>1. ASSUME UNCHANGED <<activities, completed, active, finalized>>, told'.updates >= told.updates
      PROVE  StepsInv'
  BY <1>1 DEF StepsInv, StepsAreComplete, TypeOK
<1>2. CASE UNCHANGED vars \/ Open \/ Start \/ Close \/ Cancel \/ Unavailable \/ Fail
  BY <1>1, <1>2 DEF vars, Open, Start, Close, Cancel, Unavailable, Fail, memo, page, TypeOK
<1>3. ASSUME NEW l \in Label, Progress(l) PROVE StepsInv'
  <2>1. ~ finalized /\ finalized' = finalized /\ told.updates = 0 /\ told'.updates = 0
    BY <1>3 DEF Progress, StepsInv, TypeOK
  <2>2. CASE l \in emitted
    BY <1>1, <1>3, <2>1, <2>2 DEF Progress, page
  <2>3. CASE l \notin emitted
    <3>1. activities' = AppendActivity(activities, l) /\ ActivityEvents(l, activities')
      BY <1>3, <2>3 DEF Progress
    <3>2. /\ \/ Len(activities') = Len(activities) /\ Len(activities) > 0
             \/ Len(activities') = Len(activities) + 1
          /\ \A i \in 1 .. Len(activities) : i < Len(activities') => activities'[i] = activities[i]
      BY <1>0, <3>1, ActivityAppended
    <3>3. active' = activities'[Len(activities')]
      BY <3>1 DEF ActivityEvents, Last
    <3>4. CASE Len(activities') = Len(activities)
      <4>1. completed' = completed
        BY <1>0, <3>1, <3>4 DEF ActivityEvents
      <4>2. Len(completed) = Len(activities) - 1 /\ Len(activities) > 0
        BY <2>1, <3>2, <3>4 DEF StepsInv
      <4>3. ASSUME NEW k \in 1 .. Len(completed)
            PROVE  /\ completed[k].step = k /\ k <= Len(activities')
                   /\ completed[k].activity = activities'[k]
        <5>1. k \in 1 .. Len(activities) /\ k < Len(activities')
          BY <1>0, <3>4, <4>2
        <5> QED
          BY <1>0, <3>2, <3>4, <5>1 DEF StepsInv, StepsAreComplete
      <4> QED
        BY <1>0, <2>1, <3>3, <3>4, <4>1, <4>2, <4>3 DEF StepsInv, StepsAreComplete
    <3>5. CASE Len(activities') = Len(activities) + 1
      <4>1. completed' = Complete(activities)
        BY <1>0, <3>1, <3>5 DEF ActivityEvents
      <4>2. /\ Len(completed') = Len(activities)
            /\ \A k \in 1 .. Len(activities) :
                 completed'[k].step = k /\ completed'[k].activity = activities[k]
        BY <2>1, <4>1, CompleteKeepsSteps
      <4>3. ASSUME NEW k \in 1 .. Len(completed')
            PROVE  /\ completed'[k].step = k /\ k <= Len(activities')
                   /\ completed'[k].activity = activities'[k]
        <5>1. k \in 1 .. Len(activities) /\ k < Len(activities')
          BY <1>0, <3>5, <4>2
        <5> QED
          BY <1>0, <3>2, <3>5, <4>2, <5>1
      <4>4. Len(activities') > 0 /\ Len(completed') = Len(activities') - 1
        BY <1>0, <3>5, <4>2
      <4> QED
        BY <1>0, <2>1, <3>3, <4>3, <4>4 DEF StepsInv, StepsAreComplete
    <3> QED
      BY <3>2, <3>4, <3>5
  <2> QED
    BY <2>2, <2>3
<1>4. ASSUME NEW t \in Text, Update(t) PROVE StepsInv'
  <2>1. activities' = activities /\ told'.updates = told.updates + 1 /\ told.updates \in Nat
    BY <1>4 DEF Update, TypeOK
  <2>2. CASE UNCHANGED <<finalized, page>>
    BY <1>1, <2>1, <2>2 DEF page
  <2>3. CASE ShowNew(Stripped(t))
    <3>1. CASE finalized
      <4>1. finalized' = finalized /\ UNCHANGED <<completed, active>>
        BY <2>3, <3>1 DEF ShowNew, FinalizeEvents, TypeOK
      <4> QED
        BY <1>1, <2>1, <4>1
    <3>2. CASE ~ finalized
      <4>1. finalized' = TRUE /\ completed' = Complete(activities) /\ active' = Idle
        BY <2>3, <3>2 DEF ShowNew, FinalizeEvents
      <4>2. /\ Len(completed') = Len(activities)
            /\ \A k \in 1 .. Len(activities) :
                 completed'[k].step = k /\ completed'[k].activity = activities[k]
        BY <3>2, <4>1, CompleteKeepsSteps
      <4>3. StepsAreComplete'
        BY <1>0, <2>1, <4>2 DEF StepsAreComplete
      <4>4. told'.updates > 0 /\ (Len(activities') = 0 => Len(completed') = 0)
        BY <2>1, <4>2
      <4> QED
        BY <2>1, <4>1, <4>2, <4>3, <4>4 DEF StepsInv
    <3> QED
      BY <3>1, <3>2
  <2> QED
    BY <1>4, <2>2, <2>3 DEF Update, ShowText
<1> QED
  BY <1>2, <1>3, <1>4 DEF Next, Serve

LEMMA StepsInvariant == Spec => []StepsInv
BY StepsInit, StepsInductive, Typed, PTL DEF Spec

\* However many labels arrive, and however often an agent comes back, the
\* completed steps are numbered without a gap and none is completed too early.
THEOREM StepsComplete == Spec => []StepsAreComplete
<1>1. StepsInv => StepsAreComplete
  BY DEF StepsInv
<1> QED
  BY <1>1, StepsInvariant, PTL

\* Until the answer the active slot shows the latest activity, complete.
THEOREM ActiveLatest == Spec => []ActiveIsLatest
<1>1. TypeOK /\ StepsInv => ActiveIsLatest
  <2> SUFFICES ASSUME TypeOK, StepsInv, activities # <<>>, ~ finalized
               PROVE  active = Last(activities) /\ Len(completed) = Len(activities) - 1
    BY DEF ActiveIsLatest
  <2>1. activities \in Seq(Activities)
    BY DEF TypeOK
  <2>2. Len(activities) \in Nat /\ Len(activities) # 0
    BY <2>1, LenProperties, EmptySeq
  <2> QED
    BY <2>2 DEF StepsInv, Last
<1> QED
  BY <1>1, Typed, StepsInvariant, PTL

-----------------------------------------------------------------------------
(* The answer.                                                             *)

LEMMA AnswerInductive == TypeOK /\ StepsInv /\ AnswerInv /\ [Next]_vars => AnswerInv'
<1> SUFFICES ASSUME TypeOK, StepsInv, AnswerInv, [Next]_vars PROVE AnswerInv'
  OBVIOUS
<1>1. CASE UNCHANGED vars \/ Open \/ Start \/ Close \/ Cancel
  BY <1>1 DEF vars, Open, Start, Close, Cancel, memo, page, AnswerInv
<1>2. ASSUME NEW l \in Label, Progress(l) PROVE AnswerInv'
  <2>1. ~ finalized
    BY <1>2 DEF Progress, StepsInv
  <2>2. UNCHANGED <<pc, answers, finalized, final, said, failed>>
    BY <1>2 DEF Progress, ActivityEvents, page
  <2> QED
    BY <2>1, <2>2 DEF AnswerInv
<1>3. ASSUME NEW t \in Text, Update(t) PROVE AnswerInv'
  <2>1. /\ pc = "streaming" /\ failed = "none" /\ failed' = failed
        /\ said \in {"none", t} /\ said' = t /\ t # "none" /\ ShowText(t)
    BY <1>3 DEF Update, AnswerInv, Text
  <2>2. CASE t = "blank"
    BY <2>1, <2>2 DEF ShowText, page, AnswerInv
  <2>3. CASE t # "blank" /\ Stripped(t) \in answers
    <3>1. said = t
      BY <2>1, <2>3 DEF AnswerInv
    <3> QED
      BY <2>1, <2>3, <3>1 DEF ShowText, page, AnswerInv
  <2>4. CASE t # "blank" /\ Stripped(t) \notin answers
    <3>1. said = "none"
      BY <2>1, <2>4 DEF AnswerInv
    <3>2. answers = {} /\ Len(final) = 0 /\ ~ finalized
      BY <2>1, <3>1 DEF AnswerInv, TypeOK
    <3>3. final = <<>>
      BY <3>2, EmptySeq DEF TypeOK
    <3>4. ShowNew(Stripped(t))
      BY <2>1, <2>4 DEF ShowText
    <3>5. final' = <<Stripped(t)>> /\ answers' = {Stripped(t)} /\ status' = "complete"
      BY <3>2, <3>3, <3>4 DEF ShowNew, FinalizeEvents
    <3> QED
      BY <2>1, <2>4, <3>5 DEF AnswerInv
  <2> QED
    BY <2>2, <2>3, <2>4
<1>4. CASE Unavailable
  BY <1>4 DEF Unavailable, AnswerInv
<1>5. CASE Fail
  BY <1>5 DEF Fail, memo, AnswerInv
<1> QED
  BY <1>1, <1>2, <1>3, <1>4, <1>5 DEF Next, Serve

LEMMA AnswerInvariant == Spec => []AnswerInv
<1>1. Init => AnswerInv
  BY DEF Init, AnswerInv
<1> QED
  BY <1>1, AnswerInductive, Typed, StepsInvariant, PTL DEF Spec

\* Beside an answer or a question of the graph no step is left running, and the
\* status line says that the workflow is complete.
THEOREM AnswersEndSteps == Spec => []AnswerEndsSteps
<1>1. TypeOK /\ StepsInv /\ AnswerInv => AnswerEndsSteps
  <2> SUFFICES ASSUME TypeOK, StepsInv, AnswerInv, failed # "unavailable", final # <<>>
               PROVE  /\ Len(completed) = Len(activities) /\ active = Idle
                      /\ failed = "none" => status = "complete"
    BY DEF AnswerEndsSteps, NoStepRuns
  <2>1. Len(final) # 0
    BY EmptySeq DEF TypeOK
  <2>2. answers # {}
    BY <2>1 DEF AnswerInv
  <2>3. finalized
    BY <2>2 DEF TypeOK
  <2> QED
    BY <2>3 DEF StepsInv, AnswerInv
<1> QED
  BY <1>1, Typed, StepsInvariant, AnswerInvariant, PTL

\* However often the graph delivers its text, the stream that ends without a
\* failure has shown it exactly once.
THEOREM ShownExactlyOnce == Spec => []ShownOnce
<1>1. TypeOK /\ AnswerInv => ShownOnce
  <2> SUFFICES ASSUME TypeOK, AnswerInv, failed = "none"
               PROVE  final = IF said \in {"none", "blank"} THEN <<>> ELSE <<Stripped(said)>>
    BY DEF ShownOnce
  <2>1. Len(final) = 0 => final = <<>>
    BY EmptySeq DEF TypeOK
  <2> QED
    BY <2>1 DEF AnswerInv
<1> QED
  BY <1>1, Typed, AnswerInvariant, PTL

=============================================================================
