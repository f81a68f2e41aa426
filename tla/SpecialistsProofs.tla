-------------------------- MODULE SpecialistsProofs --------------------------
(***************************************************************************)
(* Theorems about Specialists, for any number of runs, of users and of     *)
(* tools, and for whatever the models write.                               *)
(***************************************************************************)
EXTENDS Specialists, TLAPS

-----------------------------------------------------------------------------
(* Objects.                                                                *)

LEMMA OnlyIsObject ==
  ASSUME NEW key \in Field, NEW words \in SUBSET Word
  PROVE  /\ Only(key, words) \in Object
         /\ Only(key, words).keys = {key}
         /\ Only(key, words).said[key] = words
BY DEF Only, Object

LEMMA ProseIsObject == Prose \in Object
BY DEF Prose, Object

\* Over is Python's setdefault, key by key.
LEMMA OverIsObject ==
  ASSUME NEW object \in Object, NEW defaults \in Object
  PROVE  /\ Over(object, defaults) \in Object
         /\ Over(object, defaults).keys = object.keys \union defaults.keys
         /\ \A k \in Field : Over(object, defaults).said[k] =
              IF k \in object.keys THEN object.said[k] ELSE defaults.said[k]
BY DEF Over, Object

\* What a model writes is an object, with or without keys.
LEMMA AnswerIsObject ==
  ASSUME NEW a \in Agent, NEW object \in Answers[a] \union {Prose}
  PROVE  object \in Object
BY SpecialistsAssumption, ProseIsObject

\* What Elrond and Radagast make of the model's choice is something to read.
LEMMA ChosenIsWords ==
  ASSUME NEW a \in Agent, NEW object \in Object
  PROVE  Chosen(a, object) \in SUBSET Word
BY DEF Chosen, Word

LEMMA RefusedKeys ==
  /\ Refused \in Object
  /\ Refused.keys = {"approved", "required_changes"}
  /\ ~ True(Refused, "approved")
<1>1. "approved" \in Field /\ "required_changes" \in Field
  BY DEF Field, Key
<1>2. {"yes"} \in SUBSET Word /\ {} \in SUBSET Word
  BY DEF Word
<1> QED
  BY <1>1, <1>2, OnlyIsObject, OverIsObject DEF Refused, True

\* A question of a data agent is one, and the data it stands for is empty.
LEMMA QuestionKeys ==
  ASSUME NEW a \in DataAgent
  PROVE  /\ Question(a) \in Object
         /\ True(Question(a), "needs_clarification")
         /\ Question(a).keys = {"needs_clarification"} \union Own(a)
<1>1. {"yes"} \in SUBSET Word /\ {} \in SUBSET Word
  BY DEF Word
<1>2. "needs_clarification" \in Field /\ "insights" \in Field /\ "weather" \in Field
  BY DEF Field, Key, Context
<1> QED
  BY <1>1, <1>2, OnlyIsObject, OverIsObject DEF Question, True, DataAgent, Own

Writer == Agent \ {"samwise"}

\* The result of each agent, and the keys it has.
LEMMA WordedIsObject ==
  ASSUME NEW a \in Writer, NEW object \in Object, NEW read \in SUBSET Word
  PROVE  /\ Worded(a, object, read) \in Object
         /\ Own(a) \subseteq Worded(a, object, read).keys
         /\ Worded(a, object, read).keys \subseteq
              Own(a) \union (IF a \in DataAgent THEN {"needs_clarification"} ELSE {})
                     \union (IF a \in {"aragorn", "elrond", "faramir"} THEN object.keys ELSE {})
                     \union {"required_changes"}
<1> DEFINE W == Worded(a, object, read)
<1>1. {"yes"} \in SUBSET Word /\ {} \in SUBSET Word
  BY DEF Word
<1>2. /\ "needs_clarification" \in Field /\ "insights" \in Field /\ "weather" \in Field
      /\ "final_answer" \in Field /\ "approved" \in Field /\ "is_compliant" \in Field
  BY DEF Field, Key, Context
<1>3. CASE a = "elrond"
  <2>1. Insights(object, read) \in SUBSET Word
    BY <1>2 DEF Insights, Object
  <2>2. W = Over(Over(Only("insights", Insights(object, read)),
                      Only("needs_clarification", {})), object)
    BY <1>3 DEF Worded
  <2> QED
    BY <1>1, <1>2, <1>3, <2>1, <2>2, OnlyIsObject, OverIsObject DEF Own, DataAgent
<1>4. CASE a = "bilbo"
  BY <1>1, <1>2, <1>4, OnlyIsObject DEF Worded, Own
<1>5. CASE a = "radagast"
  <2>1. W = Over(Only("weather", read), Only("needs_clarification", {}))
    BY <1>5 DEF Worded
  <2> QED
    BY <1>1, <1>2, <1>5, <2>1, OnlyIsObject, OverIsObject DEF Own, DataAgent
<1>6. CASE a = "aragorn"
  <2>1. W = Over(object, Only("is_compliant", {}))
    BY <1>6 DEF Worded
  <2> QED
    BY <1>1, <1>2, <1>6, <2>1, OnlyIsObject, OverIsObject DEF Own
<1>7. CASE a = "faramir"
  <2>1. W = Over(object, IF object = Prose THEN Refused ELSE Only("approved", {}))
    BY <1>7 DEF Worded
  <2> QED
    BY <1>1, <1>2, <1>7, <2>1, OnlyIsObject, OverIsObject, RefusedKeys DEF Own
<1> QED
  BY <1>3, <1>4, <1>5, <1>6, <1>7 DEF Writer, Agent

\* Neither a default nor the refusal of prose clears or approves anything.
LEMMA WordedRules ==
  ASSUME NEW a \in Writer, NEW object \in Object, NEW read \in SUBSET Word,
         NEW key \in {"is_compliant", "approved"}, Own(a) = {key},
         True(Worded(a, object, read), key)
  PROVE  True(object, key)
<1>1. {} \in SUBSET Word /\ "is_compliant" \in Field /\ "approved" \in Field
  BY DEF Word, Field, Key
<1>2. a \in {"aragorn", "faramir"}
  BY DEF Own, Writer, Agent
<1>3. CASE a = "aragorn"
  <2>1. Worded(a, object, read) = Over(object, Only("is_compliant", {}))
    BY <1>3 DEF Worded
  <2> QED
    BY <1>1, <1>3, <2>1, OnlyIsObject, OverIsObject DEF Own, True
<1>4. CASE a = "faramir"
  <2>1. Worded(a, object, read) = Over(object, IF object = Prose THEN Refused ELSE Only("approved", {}))
    BY <1>4 DEF Worded
  <2> QED
    BY <1>1, <1>4, <2>1, OnlyIsObject, OverIsObject, RefusedKeys DEF Own, True
<1> QED
  BY <1>2, <1>3, <1>4

\* An answer of a data agent is no question, and Elrond's has all he read.
LEMMA WordedEvidence ==
  ASSUME NEW a \in DataAgent, NEW object \in Object, NEW read \in SUBSET Word
  PROVE  /\ ~ True(Worded(a, object, read), "needs_clarification")
         /\ a = "elrond" => read \subseteq Worded(a, object, read).said["insights"]
<1>1. /\ {} \in SUBSET Word
      /\ "needs_clarification" \in Field /\ "insights" \in Field /\ "weather" \in Field
  BY DEF Word, Field, Key, Context
<1>2. CASE a = "elrond"
  <2> DEFINE I == Only("insights", Insights(object, read))
             N == Only("needs_clarification", {})
  <2>1. Insights(object, read) \in SUBSET Word
    BY <1>1 DEF Insights, Object
  <2>2. Worded(a, object, read) = Over(Over(I, N), object)
    BY <1>2 DEF Worded
  <2>3. /\ I \in Object /\ I.keys = {"insights"} /\ I.said["insights"] = Insights(object, read)
        /\ N \in Object /\ N.keys = {"needs_clarification"} /\ N.said["needs_clarification"] = {}
    BY <1>1, <2>1, OnlyIsObject
  <2> HIDE DEF I, N
  <2>4. /\ Over(I, N) \in Object /\ Over(I, N).keys = {"insights", "needs_clarification"}
        /\ Over(I, N).said["insights"] = Insights(object, read)
        /\ Over(I, N).said["needs_clarification"] = {}
    BY <1>1, <2>3, OverIsObject
  <2> QED
    BY <1>1, <2>2, <2>4, OverIsObject DEF True, Insights
<1>3. CASE a = "radagast"
  <2>1. Worded(a, object, read) = Over(Only("weather", read), Only("needs_clarification", {}))
    BY <1>3 DEF Worded
  <2> QED
    BY <1>1, <1>3, <2>1, OnlyIsObject, OverIsObject DEF True
<1> QED
  BY <1>2, <1>3 DEF DataAgent

-----------------------------------------------------------------------------
(* The calls, one by one.                                                  *)

CallRecord == [pc : PC, agent : Agent, left : SUBSET Word, read : SUBSET Word,
               words : Seq(Object), name : SUBSET Callers, result : Object]

\* Aragorn's, Elrond's and Faramir's models add no key but those the supervisor
\* expects of them.
ModelsKeepKeys ==
  \A a \in {"aragorn", "elrond", "faramir"} : \A object \in Answers[a] :
    object.keys \intersect Key \subseteq Own(a) \union Addable(a)

\* The properties of a finished call.
Closed(k) ==
  \A key \in {"is_compliant", "approved"} :
    Own(k.agent) = {key} /\ True(k.result, key) =>
      k.words # <<>> /\ True(k.words[Len(k.words)], key)

Evidenced(k) ==
  k.agent \in DataAgent =>
    IF True(k.result, "needs_clarification") THEN k.read = {}
    ELSE /\ k.read # {}
         /\ k.agent = "elrond" =>
              /\ k.read = k.words[1].said["tool_names"] \intersect Tools
              /\ k.read \subseteq k.result.said["insights"]
         /\ k.agent = "radagast" => ~ True(k.words[1], "needs_clarification")

Keyed(k) ==
  /\ Own(k.agent) \subseteq k.result.keys
  /\ ModelsKeepKeys => k.result.keys \intersect Key \subseteq Own(k.agent) \union Addable(k.agent)

\* What a call has done and heard when it gets to each of its awaits.
CallInv(k) ==
  /\ k \in CallRecord
  /\ k.left \intersect k.read = {} /\ Len(k.words) <= 2
  /\ k.pc = "choosing" =>
       k.agent \in DataAgent /\ Len(k.words) = 0 /\ k.left = {} /\ k.read = {}
  /\ k.pc = "reading" =>
       /\ k.agent \in DataAgent /\ Len(k.words) = 1 /\ k.left # {}
       /\ k.left \union k.read = Chosen(k.agent, k.words[1])
  /\ k.pc = "writing" =>
       /\ k.agent # "samwise" /\ k.left = {}
       /\ k.agent \notin DataAgent => Len(k.words) = 0
       /\ k.agent \in DataAgent =>
            Len(k.words) = 1 /\ k.read = Chosen(k.agent, k.words[1]) /\ k.read # {}
  /\ k.pc = "retrying" => k.agent = "faramir" /\ Len(k.words) = 1
  /\ k.pc \in {"storing", "remembering", "loading"} => k.agent = "samwise"
  /\ k.pc = "done" => Closed(k) /\ Evidenced(k) /\ Keyed(k)

\* The memory holds names of the right users.
OwnNames == \A u \in DOMAIN store : \A i \in DOMAIN store[u] : User[store[u][i]] = u

\* Who is past storing its name finds it among the names of its user; who has
\* loaded one has its own or a later one.
Remembers(c, k, names) ==
  /\ k.pc \in {"remembering", "loading"} /\ c \in Named => \E i \in DOMAIN names : names[i] = c
  /\ k.pc = "done" /\ k.agent = "samwise" =>
       /\ \A d \in k.name : User[d] = User[c]
       /\ c \in Named => \E d \in k.name : \E i, j \in DOMAIN names :
                           i <= j /\ names[i] = c /\ names[j] = d

IInv ==
  /\ call \in [Callers -> CallRecord]
  /\ store \in [{User[c] : c \in Callers} -> Seq(Callers)]
  /\ \A c \in Callers : CallInv(call[c])
  /\ \A c \in Callers : Remembers(c, call[c], store[User[c]])
  /\ OwnNames

LEMMA NoCallInv == CallInv(NoCall)
<1>1. NoCall \in CallRecord
  BY ProseIsObject DEF NoCall, CallRecord, PC, Agent
<1>2. /\ NoCall.pc = "idle" /\ NoCall.words = <<>>
      /\ NoCall.left = {} /\ NoCall.read = {}
  BY DEF NoCall
<1>3. Len(NoCall.words) <= 2
  BY <1>2
<1> QED
  BY <1>1, <1>2, <1>3 DEF CallInv

\* Appending what the model has written, element by element.
LEMMA SayWords ==
  ASSUME NEW words \in Seq(Object), NEW object \in Object
  PROVE  /\ Append(words, object) \in Seq(Object)
         /\ Len(Append(words, object)) = Len(words) + 1
         /\ Len(words) = 0 \/ Len(words) = 1 => Len(Append(words, object)) <= 2
         /\ Append(words, object) # <<>>
         /\ Append(words, object)[Len(words) + 1] = object
         /\ Len(words) = 1 => Append(words, object)[1] = words[1]
<1>1. /\ Len(Append(words, object)) = Len(words) + 1
      /\ Append(words, object) \in Seq(Object) /\ Append(words, object) # <<>>
      /\ Append(words, object)[Len(words) + 1] = object
      /\ Len(words) = 1 => Append(words, object)[1] = words[1]
  OBVIOUS
<1>2. ASSUME Len(words) = 0 PROVE Len(Append(words, object)) <= 2
  <2>1. Len(Append(words, object)) = 1
    BY <1>1, <1>2
  <2> QED
    BY <2>1
<1>3. ASSUME Len(words) = 1 PROVE Len(Append(words, object)) <= 2
  <2>1. Len(Append(words, object)) = 2
    BY <1>1, <1>3
  <2> QED
    BY <2>1
<1> QED
  BY <1>1, <1>2, <1>3

\* The record a step of a call makes of the last one.
Said(k, object, pc, result) ==
  [k EXCEPT !.pc = pc, !.words = Append(@, object), !.result = result]

Moved(k, pc) == [k EXCEPT !.pc = pc]

LEMMA SaidRecord ==
  ASSUME NEW k \in CallRecord, NEW object \in Object, NEW pc \in PC, NEW result \in Object
  PROVE  LET n == Said(k, object, pc, result) IN
         /\ n \in CallRecord
         /\ n.pc = pc /\ n.agent = k.agent /\ n.left = k.left /\ n.read = k.read
         /\ n.words = Append(k.words, object) /\ n.result = result
<1> DEFINE words == Append(k.words, object)
<1>1. words \in Seq(Object)
  BY SayWords DEF CallRecord
<1> HIDE DEF words
<1>2. LET n == [k EXCEPT !.pc = pc, !.words = words, !.result = result] IN
      /\ n \in CallRecord
      /\ n.pc = pc /\ n.agent = k.agent /\ n.left = k.left /\ n.read = k.read
      /\ n.words = words /\ n.result = result
  BY <1>1 DEF CallRecord
<1> QED
  BY <1>2 DEF words, Said

LEMMA MovedRecord ==
  ASSUME NEW k \in CallRecord, NEW pc \in PC
  PROVE  LET n == Moved(k, pc) IN
         /\ n \in CallRecord
         /\ n.pc = pc /\ n.agent = k.agent /\ n.left = k.left /\ n.read = k.read
         /\ n.words = k.words /\ n.result = k.result
BY DEF CallRecord, Moved

\* A finished call of an agent that wrote its answer.
LEMMA WrittenCall ==
  ASSUME NEW k, CallInv(k), k.pc = "writing",
         NEW object \in Answers[k.agent] \union {Prose}
  PROVE  CallInv(Said(k, object, "done", Worded(k.agent, object, k.read)))
<1> DEFINE W == Worded(k.agent, object, k.read)
           n == Said(k, object, "done", W)
<1>1. /\ k \in CallRecord /\ k.agent \in Writer /\ k.read \in SUBSET Word
      /\ k.words \in Seq(Object) /\ k.left = {}
  BY DEF CallInv, CallRecord, Writer
<1>2. object \in Object
  BY <1>1, AnswerIsObject DEF Writer
<1>3. W \in Object
  BY <1>1, <1>2, WordedIsObject
<1>4. "done" \in PC
  BY DEF PC
<1>5. /\ n \in CallRecord
      /\ n.pc = "done" /\ n.agent = k.agent /\ n.left = k.left /\ n.read = k.read
      /\ n.words = Append(k.words, object) /\ n.result = W
  <2> HIDE DEF W
  <2>1. n \in CallRecord
    BY <1>1, <1>2, <1>3, <1>4, SaidRecord
  <2>2. n.pc = "done"
    BY <1>1, <1>2, <1>3, <1>4, SaidRecord
  <2>3. n.agent = k.agent
    BY <1>1, <1>2, <1>3, <1>4, SaidRecord
  <2>4. n.words = Append(k.words, object)
    BY <1>1, <1>2, <1>3, <1>4, SaidRecord
  <2>5. n.left = k.left /\ n.read = k.read
    BY <1>1, <1>2, <1>3, <1>4, SaidRecord
  <2>6. n.result = W
    BY <1>1, <1>2, <1>3, <1>4, SaidRecord
  <2> QED
    BY <2>1, <2>2, <2>3, <2>4, <2>5, <2>6
<1>6. Len(k.words) = 0 \/ Len(k.words) = 1
  BY DEF CallInv
<1> HIDE DEF n
<1>7. Closed(n)
  <2> SUFFICES ASSUME NEW key \in {"is_compliant", "approved"}, Own(k.agent) = {key}, True(W, key)
               PROVE  n.words # <<>> /\ True(n.words[Len(n.words)], key)
    BY <1>5 DEF Closed
  <2>1. True(object, key)
    BY <1>1, <1>2, WordedRules
  <2> QED
    BY <1>1, <1>2, <1>5, <2>1, SayWords
<1>8. Evidenced(n)
  <2> SUFFICES ASSUME k.agent \in DataAgent PROVE Evidenced(n)
    BY <1>5 DEF Evidenced
  <2>1. Len(k.words) = 1 /\ k.read = Chosen(k.agent, k.words[1]) /\ k.read # {}
    BY DEF CallInv
  <2>2. n.words[1] = k.words[1]
    BY <1>1, <1>2, <1>5, <2>1, SayWords
  <2>3. /\ ~ True(W, "needs_clarification")
        /\ k.agent = "elrond" => k.read \subseteq W.said["insights"]
    BY <1>1, <1>2, WordedEvidence
  <2> HIDE DEF W
  <2> QED
    BY <1>5, <2>1, <2>2, <2>3 DEF Evidenced, Chosen, DataAgent
<1>9. Keyed(n)
  <2>1. Own(k.agent) \subseteq W.keys
    BY <1>1, <1>2, WordedIsObject
  <2>2. ASSUME ModelsKeepKeys
        PROVE  W.keys \intersect Key \subseteq Own(k.agent) \union Addable(k.agent)
    <3>1. W.keys \subseteq
            Own(k.agent) \union (IF k.agent \in DataAgent THEN {"needs_clarification"} ELSE {})
              \union (IF k.agent \in {"aragorn", "elrond", "faramir"} THEN object.keys ELSE {})
              \union {"required_changes"}
      BY <1>1, <1>2, WordedIsObject
    <3>2. k.agent \in {"aragorn", "elrond", "faramir"} =>
            object.keys \intersect Key \subseteq Own(k.agent) \union Addable(k.agent)
      BY <2>2, ProseIsObject DEF ModelsKeepKeys, Prose
    <3>3. k.agent \in DataAgent => "needs_clarification" \in Addable(k.agent)
      BY DEF Addable
    <3>4. "required_changes" \notin Key
      BY DEF Key, Context
    <3> HIDE DEF W
    <3> QED
      BY <3>1, <3>2, <3>3, <3>4
  <2> QED
    BY <1>5, <2>1, <2>2 DEF Keyed
<1>10. n.left \intersect n.read = {} /\ Len(n.words) <= 2
  BY <1>1, <1>2, <1>5, <1>6, SayWords
<1> QED
  BY <1>5, <1>7, <1>8, <1>9, <1>10 DEF CallInv, n

\* A call that starts has heard and read nothing.
LEMMA StartedCall ==
  ASSUME NEW a \in Agent, NEW c \in Callers
  PROVE  CallInv([NoCall EXCEPT !.pc = First(a, c), !.agent = a])
<1> DEFINE n == [NoCall EXCEPT !.pc = First(a, c), !.agent = a]
<1>1. First(a, c) \in {"choosing", "storing", "remembering", "writing"}
  BY DEF First
<1>2. /\ a \in DataAgent => First(a, c) = "choosing"
      /\ a = "samwise" => First(a, c) \in {"storing", "remembering"}
      /\ a \notin DataAgent /\ a # "samwise" => First(a, c) = "writing"
  BY DEF First, DataAgent
<1>3. NoCall \in CallRecord
  BY NoCallInv DEF CallInv
<1>4. n \in CallRecord
  BY <1>1, <1>3 DEF CallRecord, PC
<1>5. /\ n.pc = First(a, c) /\ n.agent = a /\ n.left = {} /\ n.read = {} /\ n.words = <<>>
  BY <1>3 DEF NoCall
<1> HIDE DEF n
<1>6. Len(n.words) = 0
  BY <1>5
<1>7. Len(n.words) <= 2
  BY <1>6
<1>8. a \in DataAgent => a # "samwise"
  BY DEF DataAgent
<1> QED
  BY <1>1, <1>2, <1>4, <1>5, <1>6, <1>7, <1>8 DEF CallInv, n

\* Faramir's refusal of a short draft.
LEMMA ShortCall ==
  CallInv([NoCall EXCEPT !.pc = "done", !.agent = "faramir", !.result = Refused])
<1> DEFINE n == [NoCall EXCEPT !.pc = "done", !.agent = "faramir", !.result = Refused]
<1>1. NoCall \in CallRecord
  BY NoCallInv DEF CallInv
<1>2. "done" \in PC /\ "faramir" \in Agent
  BY DEF PC, Agent
<1>3. n \in CallRecord
  BY <1>1, <1>2, RefusedKeys DEF CallRecord
<1>4. /\ n.pc = "done" /\ n.agent = "faramir" /\ n.left = {} /\ n.read = {}
      /\ n.words = <<>> /\ n.result = Refused
  BY <1>1 DEF NoCall
<1> HIDE DEF n
<1>5. Len(n.words) = 0
  BY <1>4
<1>6. Len(n.words) <= 2
  BY <1>5
<1>7. Own("faramir") = {"approved"}
  BY DEF Own
<1>8. Closed(n)
  BY <1>4, <1>7, RefusedKeys DEF Closed
<1>9. Keyed(n)
  BY <1>4, <1>7, RefusedKeys DEF Keyed, Key, Context
<1>10. Evidenced(n)
  BY <1>4 DEF Evidenced, DataAgent
<1> QED
  BY <1>3, <1>4, <1>6, <1>8, <1>9, <1>10 DEF CallInv, n

\* A data agent that asks the user.
LEMMA AskedCall ==
  ASSUME NEW k, CallInv(k), k.pc = "choosing",
         NEW object \in Answers[k.agent] \union {Prose}
  PROVE  CallInv(Said(k, object, "done", Question(k.agent)))
<1> DEFINE Q == Question(k.agent)
           n == Said(k, object, "done", Q)
<1>1. /\ k \in CallRecord /\ k.agent \in DataAgent /\ k.read = {} /\ k.left = {}
      /\ Len(k.words) = 0
  BY DEF CallInv
<1>2. k.agent \in Agent /\ k.words \in Seq(Object) /\ "done" \in PC
  BY <1>1 DEF CallRecord, PC
<1>3. object \in Object
  BY <1>2, AnswerIsObject
<1>4. /\ Q \in Object /\ True(Q, "needs_clarification")
      /\ Q.keys = {"needs_clarification"} \union Own(k.agent)
  BY <1>1, QuestionKeys
<1> HIDE DEF Q
<1>5. /\ n \in CallRecord
      /\ n.pc = "done" /\ n.agent = k.agent /\ n.left = k.left /\ n.read = k.read
      /\ n.words = Append(k.words, object)
  <2>1. n \in CallRecord
    BY <1>1, <1>2, <1>3, <1>4, SaidRecord
  <2>2. n.pc = "done"
    BY <1>1, <1>2, <1>3, <1>4, SaidRecord
  <2>3. n.agent = k.agent /\ n.left = k.left /\ n.read = k.read
    BY <1>1, <1>2, <1>3, <1>4, SaidRecord
  <2>4. n.words = Append(k.words, object)
    BY <1>1, <1>2, <1>3, <1>4, SaidRecord
  <2> QED
    BY <2>1, <2>2, <2>3, <2>4
<1>6. n.result = Q
  BY <1>1, <1>2, <1>3, <1>4, SaidRecord
<1> HIDE DEF n
<1>7. Closed(n)
  BY <1>1, <1>5 DEF Closed, DataAgent, Own
<1>8. Evidenced(n)
  BY <1>1, <1>4, <1>5, <1>6 DEF Evidenced
<1>9. Keyed(n)
  <2>1. "needs_clarification" \in Addable(k.agent)
    BY <1>1 DEF Addable
  <2> QED
    BY <1>4, <1>5, <1>6, <2>1 DEF Keyed
<1>10. n.left \intersect n.read = {} /\ Len(n.words) <= 2
  BY <1>1, <1>2, <1>3, <1>5, SayWords
<1> QED
  BY <1>5, <1>7, <1>8, <1>9, <1>10 DEF CallInv, n, Q

\* A data agent that goes to its data.
LEMMA ReadingCall ==
  ASSUME NEW k, CallInv(k), k.pc = "choosing",
         NEW object \in Answers[k.agent] \union {Prose},
         Chosen(k.agent, object) # {}
  PROVE  CallInv([k EXCEPT !.pc = "reading", !.left = Chosen(k.agent, object),
                           !.words = Append(@, object)])
<1> DEFINE L == Chosen(k.agent, object)
           w == Append(k.words, object)
           n == [k EXCEPT !.pc = "reading", !.left = L, !.words = w]
<1>1. /\ k \in CallRecord /\ k.agent \in DataAgent /\ k.read = {} /\ Len(k.words) = 0
  BY DEF CallInv
<1>2. k.agent \in Agent /\ k.words \in Seq(Object) /\ "reading" \in PC
  BY <1>1 DEF CallRecord, PC
<1>3. object \in Object
  BY <1>2, AnswerIsObject
<1>4. L \in SUBSET Word /\ L # {}
  BY <1>2, <1>3, ChosenIsWords
<1>5. w \in Seq(Object) /\ Len(w) = 1 /\ w[1] = object /\ Len(w) <= 2
  BY <1>1, <1>2, <1>3, SayWords
<1>6. L = Chosen(k.agent, w[1])
  BY <1>5
<1> HIDE DEF L, w
<1>7. n \in CallRecord
  BY <1>1, <1>2, <1>4, <1>5 DEF CallRecord
<1>8. n.pc = "reading" /\ n.agent = k.agent /\ n.left = L /\ n.read = {} /\ n.words = w
  BY <1>1 DEF CallRecord
<1> HIDE DEF n
<1> QED
  BY <1>1, <1>4, <1>5, <1>6, <1>7, <1>8 DEF CallInv, n, L, w

\* One query more.
LEMMA ReadCall ==
  ASSUME NEW k, CallInv(k), k.pc = "reading", NEW tool \in k.left
  PROVE  CallInv([k EXCEPT !.left = @ \ {tool}, !.read = @ \union {tool},
                           !.pc = IF k.left = {tool} THEN "writing" ELSE @])
<1> DEFINE p == IF k.left = {tool} THEN "writing" ELSE "reading"
           n == [k EXCEPT !.left = k.left \ {tool}, !.read = k.read \union {tool}, !.pc = p]
<1>1. /\ k \in CallRecord /\ k.agent \in DataAgent /\ Len(k.words) = 1
      /\ k.left \union k.read = Chosen(k.agent, k.words[1])
      /\ k.left \intersect k.read = {} /\ Len(k.words) <= 2
  BY DEF CallInv
<1>2. k.left \in SUBSET Word /\ k.read \in SUBSET Word /\ p \in PC
  BY <1>1 DEF CallRecord, PC
<1>3. n \in CallRecord
  <2> HIDE DEF p
  <2> QED
    BY <1>1, <1>2 DEF CallRecord
<1>4. /\ n.pc = p /\ n.agent = k.agent /\ n.left = k.left \ {tool}
      /\ n.read = k.read \union {tool} /\ n.words = k.words
  BY <1>1 DEF CallRecord
<1>5. [k EXCEPT !.left = @ \ {tool}, !.read = @ \union {tool},
                !.pc = IF k.left = {tool} THEN "writing" ELSE @] = n
  BY <1>1, k.pc = "reading" DEF CallRecord
<1> HIDE DEF n
<1>6. n.left \union n.read = Chosen(n.agent, n.words[1])
  BY <1>1, <1>4
<1>7. n.left \intersect n.read = {} /\ n.read # {}
  BY <1>1, <1>4
<1>8. CASE k.left = {tool}
  <2>1. n.left = {} /\ n.pc = "writing"
    BY <1>4, <1>8
  <2>2. n.read = Chosen(n.agent, n.words[1])
    BY <1>6, <2>1
  <2>3. n.agent \in DataAgent /\ n.agent # "samwise"
    BY <1>1, <1>4 DEF DataAgent
  <2> QED
    BY <1>1, <1>3, <1>4, <1>5, <1>7, <2>1, <2>2, <2>3 DEF CallInv
<1>9. CASE k.left # {tool}
  <2>1. n.left # {} /\ n.pc = "reading"
    BY <1>4, <1>9
  <2> QED
    BY <1>1, <1>3, <1>4, <1>5, <1>6, <1>7, <2>1 DEF CallInv
<1> QED
  BY <1>8, <1>9

\* Faramir's second attempt.
LEMMA RetriedCall ==
  ASSUME NEW k, CallInv(k), k.pc = "retrying", NEW object \in Answers["faramir"] \union {Prose}
  PROVE  CallInv(Said(k, object, "done", Over(object, Only("approved", {}))))
<1> DEFINE R == Over(object, Only("approved", {}))
           n == Said(k, object, "done", R)
<1>1. k \in CallRecord /\ k.agent = "faramir" /\ Len(k.words) = 1
      /\ k.left \intersect k.read = {}
  BY DEF CallInv
<1>2. k.words \in Seq(Object) /\ "done" \in PC /\ "faramir" \in Agent
  BY <1>1 DEF CallRecord, PC, Agent
<1>3. object \in Object
  BY <1>2, AnswerIsObject
<1>4. "approved" \in Field /\ {} \in SUBSET Word
  BY DEF Field, Key
<1>5. /\ R \in Object /\ R.keys = object.keys \union {"approved"}
      /\ True(R, "approved") => True(object, "approved")
  BY <1>3, <1>4, OnlyIsObject, OverIsObject DEF True
<1> HIDE DEF R
<1>6. n \in CallRecord
  BY <1>1, <1>2, <1>3, <1>5, SaidRecord
<1>7. n.pc = "done"
  BY <1>1, <1>2, <1>3, <1>5, SaidRecord
<1>8. n.agent = k.agent /\ n.left = k.left /\ n.read = k.read
  BY <1>1, <1>2, <1>3, <1>5, SaidRecord
<1>9. n.words = Append(k.words, object)
  BY <1>1, <1>2, <1>3, <1>5, SaidRecord
<1>10. n.result = R
  BY <1>1, <1>2, <1>3, <1>5, SaidRecord
<1> HIDE DEF n
<1>11. Own("faramir") = {"approved"}
  BY DEF Own
<1>12. Closed(n)
  <2>1. n.words # <<>> /\ n.words[Len(n.words)] = object
    BY <1>2, <1>3, <1>9, SayWords
  <2> QED
    BY <1>1, <1>5, <1>8, <1>10, <1>11, <2>1 DEF Closed
<1>13. Keyed(n)
  <2>1. ModelsKeepKeys => object.keys \intersect Key \subseteq Own("faramir") \union Addable("faramir")
    BY ProseIsObject DEF ModelsKeepKeys, Prose
  <2> QED
    BY <1>1, <1>5, <1>8, <1>10, <1>11, <2>1 DEF Keyed
<1>14. Evidenced(n)
  BY <1>1, <1>8 DEF Evidenced, DataAgent
<1>15. n.left \intersect n.read = {} /\ Len(n.words) <= 2
  BY <1>1, <1>2, <1>3, <1>8, <1>9, SayWords
<1> QED
  BY <1>6, <1>7, <1>12, <1>13, <1>14, <1>15 DEF CallInv, n, R

\* Words that are no object: Radagast's call breaks on them, Faramir asks again.
LEMMA UnreadCall ==
  ASSUME NEW k, CallInv(k), k.pc = "writing", NEW pc \in {"raised", "retrying"},
         pc = "retrying" => k.agent = "faramir"
  PROVE  /\ CallInv(Said(k, Prose, pc, Prose))
         /\ Said(k, Prose, pc, Prose).pc = pc
<1> DEFINE n == Said(k, Prose, pc, Prose)
<1>1. k \in CallRecord /\ k.left \intersect k.read = {}
      /\ (Len(k.words) = 0 \/ Len(k.words) = 1)
      /\ (k.agent = "faramir" => Len(k.words) = 0)
  BY DEF CallInv, DataAgent
<1>2. k.words \in Seq(Object) /\ pc \in PC
  BY <1>1 DEF CallRecord, PC
<1>3. n \in CallRecord
  BY <1>1, <1>2, ProseIsObject, SaidRecord
<1>4. n.pc = pc /\ n.agent = k.agent
  BY <1>1, <1>2, ProseIsObject, SaidRecord
<1>5. n.left = k.left /\ n.read = k.read
  BY <1>1, <1>2, ProseIsObject, SaidRecord
<1>6. n.words = Append(k.words, Prose)
  BY <1>1, <1>2, ProseIsObject, SaidRecord
<1> HIDE DEF n
<1>7. Len(n.words) <= 2 /\ (k.agent = "faramir" => Len(n.words) = 1)
  BY <1>1, <1>2, <1>6, ProseIsObject, SayWords
<1>8. CallInv(n)
  BY <1>1, <1>3, <1>4, <1>5, <1>7 DEF CallInv
<1> QED
  BY <1>4, <1>8 DEF n

\* A call that only goes on: Samwise's first steps, an exception.
LEMMA MovedCall ==
  ASSUME NEW k, CallInv(k), NEW pc \in {"remembering", "loading", "raised"},
         pc \in {"remembering", "loading"} => k.agent = "samwise"
  PROVE  /\ CallInv(Moved(k, pc))
         /\ Moved(k, pc).pc = pc /\ Moved(k, pc).agent = k.agent
<1> DEFINE n == Moved(k, pc)
<1>1. k \in CallRecord /\ k.left \intersect k.read = {} /\ Len(k.words) <= 2
  BY DEF CallInv
<1>2. pc \in PC
  BY DEF PC
<1>3. n \in CallRecord
  BY <1>1, <1>2, MovedRecord
<1>4. n.pc = pc /\ n.agent = k.agent
  BY <1>1, <1>2, MovedRecord
<1>5. n.left = k.left /\ n.read = k.read /\ n.words = k.words
  BY <1>1, <1>2, MovedRecord
<1> HIDE DEF n
<1>6. CallInv(n)
  BY <1>1, <1>3, <1>4, <1>5 DEF CallInv
<1> QED
  BY <1>4, <1>6 DEF n

\* Samwise's result.
LEMMA LoadedCall ==
  ASSUME NEW k, CallInv(k), k.pc = "loading", NEW name \in SUBSET Callers
  PROVE  LET n == [k EXCEPT !.pc = "done", !.result = Only("preferences", {}), !.name = name] IN
         CallInv(n) /\ n.pc = "done" /\ n.agent = "samwise" /\ n.name = name
<1> DEFINE P == Only("preferences", {})
           n == [k EXCEPT !.pc = "done", !.result = P, !.name = name]
<1>1. k \in CallRecord /\ k.left \intersect k.read = {} /\ Len(k.words) <= 2
      /\ k.agent = "samwise"
  BY DEF CallInv
<1>2. "preferences" \in Field /\ {} \in SUBSET Word /\ "done" \in PC
  BY DEF Field, Key, Context, PC
<1>3. P \in Object /\ P.keys = {"preferences"} /\ Own("samwise") = {"preferences"}
  BY <1>2, OnlyIsObject DEF Own
<1> HIDE DEF P
<1>4. n \in CallRecord
  BY <1>1, <1>2, <1>3 DEF CallRecord
<1>5. /\ n.pc = "done" /\ n.agent = "samwise" /\ n.name = name /\ n.result = P
      /\ n.left = k.left /\ n.read = k.read /\ n.words = k.words
  BY <1>1 DEF CallRecord
<1> HIDE DEF n
<1>6. Closed(n) /\ Evidenced(n) /\ Keyed(n)
  BY <1>3, <1>5 DEF Closed, Evidenced, Keyed, DataAgent
<1>7. CallInv(n)
  BY <1>1, <1>4, <1>5, <1>6 DEF CallInv
<1> QED
  BY <1>5, <1>7 DEF n, P

-----------------------------------------------------------------------------
(* The steps.                                                              *)

\* A step of one call leaves the others alone.
LEMMA UpdateKeeps ==
  ASSUME IInv, NEW c \in Callers, NEW n, CallInv(n), call' = [call EXCEPT ![c] = n]
  PROVE  /\ call' \in [Callers -> CallRecord]
         /\ \A d \in Callers : CallInv(call'[d])
         /\ call'[c] = n
         /\ \A d \in Callers : d # c => call'[d] = call[d]
<1>1. n \in CallRecord
  BY DEF CallInv
<1>2. call' \in [Callers -> CallRecord] /\ call'[c] = n
      /\ \A d \in Callers : d # c => call'[d] = call[d]
  BY <1>1 DEF IInv
<1> QED
  BY <1>2 DEF IInv

\* A step that does not write the memory.
LEMMA QuietStep ==
  ASSUME IInv, NEW c \in Callers, NEW n, CallInv(n), call' = [call EXCEPT ![c] = n],
         UNCHANGED store, Remembers(c, n, store[User[c]])
  PROVE  IInv'
<1>1. /\ call' \in [Callers -> CallRecord]
      /\ \A d \in Callers : CallInv(call'[d])
      /\ call'[c] = n
      /\ \A d \in Callers : d # c => call'[d] = call[d]
  BY UpdateKeeps
<1>2. \A d \in Callers : Remembers(d, call'[d], store[User[d]])
  BY <1>1 DEF IInv
<1> QED
  BY <1>1, <1>2 DEF IInv, OwnNames

\* Nothing is asked of the memory by a call that is not Samwise's.
LEMMA Forgetful ==
  ASSUME NEW c, NEW k, NEW names, k.pc \notin {"remembering", "loading"},
         k.pc = "done" => k.agent # "samwise"
  PROVE  Remembers(c, k, names)
BY DEF Remembers

\* A name that is stored later takes nothing away.
LEMMA LaterName ==
  ASSUME NEW c, NEW k, NEW names \in Seq(Callers), NEW e \in Callers, Remembers(c, k, names)
  PROVE  Remembers(c, k, Append(names, e))
<1> DEFINE more == Append(names, e)
<1>1. \A i \in DOMAIN names : i \in DOMAIN more /\ more[i] = names[i]
  OBVIOUS
<1> HIDE DEF more
<1> QED
  BY <1>1 DEF Remembers, more

LEMMA BeginStep ==
  ASSUME IInv, NEW c \in Callers, Begin(c)
  PROVE  IInv'
<1>1. PICK a \in Team[c] : Update(c, [NoCall EXCEPT !.pc = First(a, c), !.agent = a])
  BY DEF Begin
<1> DEFINE n == [NoCall EXCEPT !.pc = First(a, c), !.agent = a]
<1>2. a \in Agent
  BY SpecialistsAssumption
<1>3. CallInv(n)
  BY <1>2, StartedCall
<1>4. n.pc = First(a, c)
  BY DEF NoCall
<1>5. First(a, c) \notin {"done", "loading"} /\ (First(a, c) = "remembering" => c \notin Named)
  BY DEF First
<1>6. call' = [call EXCEPT ![c] = n] /\ UNCHANGED store
  BY <1>1 DEF Update, Begin
<1> HIDE DEF n
<1>7. Remembers(c, n, store[User[c]])
  BY <1>4, <1>5 DEF Remembers
<1> QED
  BY <1>3, <1>6, <1>7, QuietStep

LEMMA ShortStep ==
  ASSUME IInv, NEW c \in Callers, TooShort(c)
  PROVE  IInv'
<1> DEFINE n == [NoCall EXCEPT !.pc = "done", !.agent = "faramir", !.result = Refused]
<1>1. CallInv(n)
  BY ShortCall
<1>2. n.pc = "done" /\ n.agent = "faramir"
  BY DEF NoCall
<1>3. call' = [call EXCEPT ![c] = n] /\ UNCHANGED store
  BY DEF TooShort, Update
<1> HIDE DEF n
<1>4. Remembers(c, n, store[User[c]])
  BY <1>2, Forgetful
<1> QED
  BY <1>1, <1>3, <1>4, QuietStep

LEMMA ChooseStep ==
  ASSUME IInv, NEW c \in Callers, Choose(c)
  PROVE  IInv'
<1> DEFINE k == call[c]
<1>1. CallInv(k) /\ k.pc = "choosing" /\ UNCHANGED store
  BY DEF IInv, Choose
<1>2. k \in CallRecord /\ k.agent \in DataAgent
  BY <1>1 DEF CallInv
<1>3. k.agent # "samwise"
  BY <1>2 DEF DataAgent
<1>4. PICK object \in Answers[k.agent] \union {Prose} :
        IF Chosen(k.agent, object) = {} THEN Say(c, object, "done", Question(k.agent))
        ELSE Update(c, [k EXCEPT !.pc = "reading", !.left = Chosen(k.agent, object),
                                 !.words = Append(@, object)])
  BY DEF Choose
<1>5. CASE Chosen(k.agent, object) = {}
  <2> DEFINE n == Said(k, object, "done", Question(k.agent))
  <2>1. CallInv(n)
    BY <1>1, AskedCall
  <2>2. n.pc = "done" /\ n.agent = k.agent
    BY <1>2 DEF Said, CallRecord
  <2>3. call' = [call EXCEPT ![c] = n]
    BY <1>4, <1>5 DEF Say, Update, Said
  <2> HIDE DEF n, k
  <2>4. Remembers(c, n, store[User[c]])
    BY <1>3, <2>2, Forgetful
  <2> QED
    BY <1>1, <2>1, <2>3, <2>4, QuietStep
<1>6. CASE Chosen(k.agent, object) # {}
  <2> DEFINE n == [k EXCEPT !.pc = "reading", !.left = Chosen(k.agent, object),
                            !.words = Append(@, object)]
  <2>1. CallInv(n)
    BY <1>1, <1>6, ReadingCall
  <2>2. n.pc = "reading"
    BY <1>2 DEF CallRecord
  <2>3. call' = [call EXCEPT ![c] = n]
    BY <1>4, <1>6 DEF Update
  <2> HIDE DEF n, k
  <2>4. Remembers(c, n, store[User[c]])
    BY <2>2, Forgetful
  <2> QED
    BY <1>1, <2>1, <2>3, <2>4, QuietStep
<1> QED
  BY <1>5, <1>6

LEMMA ReadStep ==
  ASSUME IInv, NEW c \in Callers, Read(c)
  PROVE  IInv'
<1> DEFINE k == call[c]
<1>1. CallInv(k) /\ k.pc = "reading" /\ UNCHANGED store
  BY DEF IInv, Read
<1>2. k \in CallRecord
  BY <1>1 DEF CallInv
<1>3. PICK tool \in k.left :
        Update(c, [k EXCEPT !.left = @ \ {tool}, !.read = @ \union {tool},
                            !.pc = IF k.left = {tool} THEN "writing" ELSE @])
  BY DEF Read
<1> DEFINE n == [k EXCEPT !.left = @ \ {tool}, !.read = @ \union {tool},
                          !.pc = IF k.left = {tool} THEN "writing" ELSE @]
<1>4. CallInv(n)
  BY <1>1, ReadCall
<1>5. n.pc \in {"reading", "writing"}
  BY <1>1, <1>2 DEF CallRecord
<1>6. call' = [call EXCEPT ![c] = n]
  BY <1>3 DEF Update
<1> HIDE DEF n
<1>7. Remembers(c, n, store[User[c]])
  BY <1>5, Forgetful
<1> QED
  BY <1>1, <1>4, <1>6, <1>7, QuietStep

LEMMA WriteStep ==
  ASSUME IInv, NEW c \in Callers, Write(c)
  PROVE  IInv'
<1> DEFINE k == call[c]
<1>1. CallInv(k) /\ k.pc = "writing" /\ UNCHANGED store
  BY DEF IInv, Write
<1>2. k \in CallRecord /\ k.agent # "samwise"
  BY <1>1 DEF CallInv
<1>3. PICK object \in Answers[k.agent] \union {Prose} :
        Say(c, object, "done", Worded(k.agent, object, k.read))
  BY DEF Write
<1> DEFINE n == Said(k, object, "done", Worded(k.agent, object, k.read))
<1>4. CallInv(n)
  BY <1>1, WrittenCall
<1>5. n.agent = k.agent
  BY <1>2 DEF Said, CallRecord
<1>6. n.pc = "done"
  BY <1>2 DEF Said, CallRecord
<1>7. call' = [call EXCEPT ![c] = n]
  BY <1>3 DEF Say, Update, Said
<1> HIDE DEF n
<1>8. Remembers(c, n, store[User[c]])
  BY <1>2, <1>5, <1>6, Forgetful
<1> QED
  BY <1>1, <1>4, <1>7, <1>8, QuietStep

LEMMA RetryStep ==
  ASSUME IInv, NEW c \in Callers, Retry(c)
  PROVE  IInv'
<1> DEFINE k == call[c]
<1>1. CallInv(k) /\ k.pc = "retrying" /\ UNCHANGED store
  BY DEF IInv, Retry
<1>2. k \in CallRecord /\ k.agent = "faramir"
  BY <1>1 DEF CallInv
<1>3. PICK object \in Answers["faramir"] \union {Prose} :
        Say(c, object, "done", Over(object, Only("approved", {})))
  BY DEF Retry
<1> DEFINE n == Said(k, object, "done", Over(object, Only("approved", {})))
<1>4. CallInv(n)
  BY <1>1, RetriedCall
<1>5. n.agent = k.agent
  BY <1>2 DEF Said, CallRecord
<1>6. call' = [call EXCEPT ![c] = n]
  BY <1>3 DEF Say, Update, Said
<1>7. n.pc = "done"
  BY <1>2 DEF Said, CallRecord
<1> HIDE DEF n
<1>8. Remembers(c, n, store[User[c]])
  BY <1>2, <1>5, <1>7, Forgetful
<1> QED
  BY <1>1, <1>4, <1>6, <1>8, QuietStep

\* Words that are no object leave the call broken or Faramir to ask again.
LEMMA UnreadStep ==
  ASSUME IInv, NEW c \in Callers, NoSetdefault(c) \/ AskAgain(c)
  PROVE  IInv'
<1> DEFINE k == call[c]
<1>1. CallInv(k) /\ k.pc = "writing" /\ UNCHANGED store
  BY DEF IInv, NoSetdefault, AskAgain
<1>2. PICK pc \in {"raised", "retrying"} :
        /\ Say(c, Prose, pc, Prose)
        /\ pc = "retrying" => k.agent = "faramir"
  BY DEF NoSetdefault, AskAgain
<1> DEFINE n == Said(k, Prose, pc, Prose)
<1>3. CallInv(n) /\ n.pc = pc
  BY <1>1, <1>2, UnreadCall
<1>4. call' = [call EXCEPT ![c] = n]
  BY <1>2 DEF Say, Update, Said
<1> HIDE DEF n
<1>5. Remembers(c, n, store[User[c]])
  BY <1>3, Forgetful
<1> QED
  BY <1>1, <1>3, <1>4, <1>5, QuietStep

\* A call goes on, writing nothing to the memory.
LEMMA MoveStep ==
  ASSUME IInv, NEW c \in Callers, Raise(c) \/ Remember(c)
  PROVE  IInv'
<1> DEFINE k == call[c]
<1>1. CallInv(k) /\ UNCHANGED store
  BY DEF IInv, Raise, Remember
<1>2. PICK pc \in {"raised", "loading"} :
        /\ Goto(c, pc)
        /\ pc = "loading" => k.pc = "remembering"
  BY DEF Raise, Remember
<1> DEFINE n == Moved(k, pc)
<1>3. pc = "loading" => k.agent = "samwise"
  BY <1>1, <1>2 DEF CallInv
<1>4. CallInv(n) /\ n.pc = pc /\ n.agent = k.agent
  BY <1>1, <1>2, <1>3, MovedCall
<1>5. call' = [call EXCEPT ![c] = n]
  BY <1>2 DEF Goto, Update, Moved
<1> HIDE DEF n
<1>6. Remembers(c, n, store[User[c]])
  <2>1. Remembers(c, k, store[User[c]])
    BY DEF IInv
  <2> QED
    BY <1>2, <1>4, <2>1 DEF Remembers
<1> QED
  BY <1>1, <1>4, <1>5, <1>6, QuietStep

LEMMA LoadStep ==
  ASSUME IInv, NEW c \in Callers, Load(c)
  PROVE  IInv'
<1> DEFINE k == call[c]
           names == store[User[c]]
           name == IF names = <<>> THEN {} ELSE {names[Len(names)]}
           n == [k EXCEPT !.pc = "done", !.result = Only("preferences", {}), !.name = name]
<1>1. CallInv(k) /\ k.pc = "loading" /\ UNCHANGED store
  BY DEF IInv, Load
<1>2. names \in Seq(Callers) /\ User[c] \in DOMAIN store
  BY DEF IInv
<1>3. name \in SUBSET Callers
  BY <1>2
<1>4. CallInv(n) /\ n.pc = "done" /\ n.agent = "samwise" /\ n.name = name
  <2> HIDE DEF name
  <2> QED
    BY <1>1, <1>3, LoadedCall
<1>5. call' = [call EXCEPT ![c] = n]
  BY DEF Load, Update, Namespace
<1>6. Remembers(c, k, names)
  BY DEF IInv
<1> HIDE DEF n
<1>7. \A d \in name : User[d] = User[c]
  BY <1>2 DEF IInv, OwnNames
<1>8. ASSUME c \in Named
      PROVE  \E d \in name : \E i, j \in DOMAIN names : i <= j /\ names[i] = c /\ names[j] = d
  <2>1. PICK i \in DOMAIN names : names[i] = c
    BY <1>1, <1>6, <1>8 DEF Remembers
  <2> HIDE DEF names
  <2>2. /\ name = {names[Len(names)]}
        /\ Len(names) \in DOMAIN names /\ i <= Len(names)
    BY <1>2, <2>1
  <2> QED
    BY <2>1, <2>2
<1>9. Remembers(c, n, names)
  <2> HIDE DEF name, names
  <2> QED
    BY <1>4, <1>7, <1>8 DEF Remembers
<1> QED
  BY <1>1, <1>4, <1>5, <1>9, QuietStep

LEMMA StoreStep ==
  ASSUME IInv, NEW c \in Callers, Store(c)
  PROVE  IInv'
<1> DEFINE k == call[c]
           n == Moved(k, "remembering")
           names == store[User[c]]
           more == Append(names, c)
<1>1. CallInv(k) /\ k.pc = "storing" /\ k.agent = "samwise"
  BY DEF IInv, Store, CallInv
<1>2. CallInv(n) /\ n.pc = "remembering"
  BY <1>1, MovedCall
<1>3. call' = [call EXCEPT ![c] = n] /\ store' = [store EXCEPT ![User[c]] = more]
  BY DEF Store, Goto, Update, Moved, Namespace
<1>4. /\ call' \in [Callers -> CallRecord]
      /\ \A d \in Callers : CallInv(call'[d])
      /\ call'[c] = n
      /\ \A d \in Callers : d # c => call'[d] = call[d]
  BY <1>2, <1>3, UpdateKeeps
<1> HIDE DEF n
<1>5. User[c] \in DOMAIN store /\ names \in Seq(Callers)
  BY DEF IInv
<1>6. /\ more \in Seq(Callers) /\ Len(names) + 1 \in DOMAIN more /\ more[Len(names) + 1] = c
      /\ \A i \in DOMAIN more : (i \in DOMAIN names /\ more[i] = names[i]) \/ more[i] = c
  <2> HIDE DEF names
  <2> QED
    BY <1>5
<1>7. \A d \in Callers : User[d] \in DOMAIN store
  BY DEF IInv
<1>8. \A d \in Callers : store'[User[d]] = IF User[d] = User[c] THEN more ELSE store[User[d]]
  BY <1>3, <1>7
<1>9. store' \in [{User[d] : d \in Callers} -> Seq(Callers)]
  <2> HIDE DEF more
  <2> QED
    BY <1>3, <1>6 DEF IInv
<1>10. ASSUME NEW d \in Callers PROVE Remembers(d, call'[d], store'[User[d]])
  <2>1. CASE d = c
    <3>1. \E i \in DOMAIN more : more[i] = c
      BY <1>6
    <3> HIDE DEF more
    <3> QED
      BY <1>2, <1>4, <1>8, <2>1, <3>1 DEF Remembers
  <2>2. CASE d # c
    <3>1. call'[d] = call[d] /\ Remembers(d, call[d], store[User[d]])
      BY <1>4, <2>2 DEF IInv
    <3>2. CASE User[d] = User[c]
      <4>1. Remembers(d, call[d], more)
        BY <1>5, <3>1, <3>2, LaterName
      <4> HIDE DEF more
      <4> QED
        BY <1>8, <3>1, <3>2, <4>1
    <3>3. CASE User[d] # User[c]
      BY <1>8, <3>1, <3>3
    <3> QED
      BY <3>2, <3>3
  <2> QED
    BY <2>1, <2>2
<1>11. OwnNames'
  <2> SUFFICES ASSUME NEW u \in DOMAIN store', NEW i \in DOMAIN store'[u]
               PROVE  User[store'[u][i]] = u
    BY DEF OwnNames
  <2>1. DOMAIN store' = DOMAIN store
    BY <1>3
  <2>2. CASE u = User[c]
    <3>1. store'[u] = more
      BY <1>3, <1>5, <2>2
    <3> QED
      BY <1>5, <1>6, <2>2, <3>1 DEF IInv, OwnNames
  <2>3. CASE u # User[c]
    <3>1. store'[u] = store[u]
      BY <1>3, <2>1, <2>3
    <3> QED
      BY <2>1, <3>1 DEF IInv, OwnNames
  <2> QED
    BY <2>2, <2>3
<1> QED
  BY <1>4, <1>9, <1>10, <1>11 DEF IInv

-----------------------------------------------------------------------------
(* The invariant.                                                          *)

LEMMA Initially == Init => IInv
<1> SUFFICES ASSUME Init PROVE IInv
  OBVIOUS
<1>1. \A c \in Callers : call[c] = NoCall
  BY DEF Init
<1>2. NoCall \in CallRecord /\ NoCall.pc = "idle"
  BY NoCallInv DEF CallInv, NoCall
<1>3. call \in [Callers -> CallRecord]
  BY <1>2 DEF Init
<1>4. store \in [{User[c] : c \in Callers} -> Seq(Callers)]
  BY DEF Init
<1>5. \A c \in Callers : CallInv(call[c])
  BY <1>1, NoCallInv
<1>6. \A c \in Callers : Remembers(c, call[c], store[User[c]])
  BY <1>1, <1>2, Forgetful
<1>7. OwnNames
  BY DEF Init, OwnNames
<1> QED
  BY <1>3, <1>4, <1>5, <1>6, <1>7 DEF IInv

LEMMA Inductive == IInv /\ [Next]_vars => IInv'
<1> SUFFICES ASSUME IInv, [Next]_vars PROVE IInv'
  OBVIOUS
<1>1. CASE UNCHANGED vars
  BY <1>1 DEF vars, IInv, OwnNames
<1>2. ASSUME NEW c \in Callers, Step(c) \/ Raise(c) PROVE IInv'
  BY <1>2, BeginStep, ShortStep, ChooseStep, ReadStep, WriteStep, RetryStep, UnreadStep,
     MoveStep, StoreStep, LoadStep DEF Step
<1> QED
  BY <1>1, <1>2 DEF Next

LEMMA Invariant == Spec => []IInv
BY Initially, Inductive, PTL DEF Spec

\* Calls, objects and memory stay within their types, nothing is read twice and
\* no call hears its model more than twice.
THEOREM CallsTypeCorrect == Spec => []TypeOK
<1>1. IInv => TypeOK
  <2> SUFFICES ASSUME IInv PROVE TypeOK
    OBVIOUS
  <2>1. call \in [Callers -> CallRecord]
    BY DEF IInv
  <2>2. \A c \in Callers : call[c].left \intersect call[c].read = {} /\ Len(call[c].words) <= 2
    BY DEF IInv, CallInv
  <2>3. store \in [{User[c] : c \in Callers} -> Seq(Callers)]
    BY DEF IInv
  <2> QED
    BY <2>1, <2>2, <2>3 DEF TypeOK, CallRecord
<1> QED
  BY <1>1, Invariant, PTL

\* Only the last words of their models make Aragorn clear and Faramir approve.
THEOREM RulingsFailClosed == Spec => []FailsClosed
<1>1. IInv => FailsClosed
  <2> SUFFICES ASSUME IInv, NEW c \in Callers, call[c].pc = "done"
               PROVE  Closed(call[c])
    BY DEF FailsClosed, Closed
  <2> QED
    BY DEF IInv, CallInv
<1> QED
  BY <1>1, Invariant, PTL

\* Elrond and Radagast answer with evidence or ask, never both and never neither.
THEOREM DataOrQuestion == Spec => []QuestionOrEvidence
<1>1. IInv => QuestionOrEvidence
  <2> SUFFICES ASSUME IInv, NEW c \in Callers, call[c].pc = "done"
               PROVE  Evidenced(call[c])
    BY DEF QuestionOrEvidence, Evidenced
  <2> QED
    BY DEF IInv, CallInv
<1> QED
  BY <1>1, Invariant, PTL

\* Samwise finds the name of his run, or a later one of the same user, however
\* many runs use the memory at once.
THEOREM NameIsRemembered == Spec => []NameIsFound
<1>1. IInv => NameIsFound
  <2> SUFFICES ASSUME IInv, NEW c \in Callers, call[c].pc = "done", call[c].agent = "samwise"
               PROVE  /\ \A d \in call[c].name : User[d] = User[c]
                      /\ c \in Named => \E d \in call[c].name :
                           \E i, j \in DOMAIN store[User[c]] :
                             i <= j /\ store[User[c]][i] = c /\ store[User[c]][j] = d
    BY DEF NameIsFound
  <2>1. Remembers(c, call[c], store[User[c]])
    BY DEF IInv
  <2> QED
    BY <2>1 DEF Remembers
<1> QED
  BY <1>1, Invariant, PTL

\* What Specialists produces is what Supervisor consumes, as long as the models
\* add no key the supervisor does not expect of them.
THEOREM ResultsFit ==
  ASSUME ModelsKeepKeys
  PROVE  Spec => []ReplyAsSupervised
<1>1. IInv => ReplyAsSupervised
  <2> SUFFICES ASSUME IInv, NEW c \in Callers, call[c].pc = "done"
               PROVE  LET a == call[c].agent
                          r == [keys |-> Steering(call[c].result),
                                compliant |-> True(call[c].result, "is_compliant"),
                                verdict |-> Ruling(call[c].result)]
                      IN r \in Reply /\ Own(a) \subseteq r.keys
                         /\ r.keys \subseteq Own(a) \union Addable(a)
    BY DEF ReplyAsSupervised
  <2> DEFINE k == call[c]
             s == Steering(k.result)
  <2>1. CallInv(k)
    BY DEF IInv
  <2>2. Keyed(k) /\ k.agent \in Agent
    BY <2>1 DEF CallInv, CallRecord
  <2>3. Own(k.agent) \subseteq Key \ {"needs_clarification"}
    BY <2>2 DEF Own, Agent, Key, Context
  <2>4. Own(k.agent) \subseteq s /\ s \subseteq k.result.keys \intersect Key
    BY <2>2, <2>3 DEF Steering, Keyed
  <2>5. s \subseteq Own(k.agent) \union Addable(k.agent)
    BY <2>2, <2>4 DEF Keyed
  <2>6. s \in SUBSET Key
    BY <2>4
  <2>7. True(k.result, "is_compliant") \in BOOLEAN /\ Ruling(k.result) \in Verdict
    BY DEF True, Ruling, Verdict
  <2> HIDE DEF s, k
  <2>8. [keys |-> s, compliant |-> True(k.result, "is_compliant"), verdict |-> Ruling(k.result)]
          \in Reply
    BY <2>6, <2>7 DEF Reply
  <2> QED
    BY <2>4, <2>5, <2>8 DEF s, k
<1> QED
  BY <1>1, Invariant, PTL

=============================================================================
