---------------------------- MODULE Specialists ----------------------------
(***************************************************************************)
(* The six specialists behind call_agent (tools.py): what a call asks its  *)
(* model, which data it reads, what it makes of the model's words, and the *)
(* memory Samwise shares between all calls.  Every caller is one           *)
(* supervised run that is just calling one agent.                          *)
(*                                                                         *)
(* The model's words are the JSON object parse_json_object finds in them,  *)
(* or Prose when it finds none.  An object has keys, and says a set of     *)
(* words under each: the empty set under a key it lacks, and for every     *)
(* value Python takes for false or the code discards as malformed.         *)
(***************************************************************************)
EXTENDS AgentResults, Integers, Sequences

CONSTANTS
  Callers,   \* the runs
  User,      \* User[c]: the user id of the run of c, "anonymous" if it has none
  Named,     \* the callers whose request has a display name
  Team,      \* bound: Team[c], the agents the run of c may call
  Tools,     \* Elrond's private tools
  Answers    \* Answers[a]: the objects a's model may write, when choosing data too

Word   == {"yes"} \union Tools \union {"own words"}
Field  == Key \union {"required_changes", "tool_names", "location"}
Object == [keys : SUBSET Field, said : [Field -> SUBSET Word]]

Only(key, words) ==
  [keys |-> {key}, said |-> [k \in Field |-> IF k = key THEN words ELSE {}]]

\* No object; to every agent but Faramir the empty object is no more than that.
Prose == [keys |-> {}, said |-> [k \in Field |-> {}]]

ASSUME SpecialistsAssumption ==
  /\ Answers \in [Agent -> SUBSET Object]
  /\ Named \subseteq Callers
  /\ Team \in [Callers -> SUBSET Agent]

VARIABLES
  call,      \* call[c]: where the call is, its agent, the data left to read and
             \* read, the name loaded, the result; words: what its model wrote, in
             \* order, which only the properties look at
  store      \* store[u]: the callers that wrote the display name of u, the last one last

vars == <<call, store>>

True(object, key) == object.said[key] # {}

\* setdefault for every key of the defaults
Over(object, defaults) ==
  [keys |-> object.keys \union defaults.keys,
   said |-> [k \in Field |-> IF k \in object.keys THEN object.said[k] ELSE defaults.said[k]]]

NoCall == [pc |-> "idle", agent |-> "aragorn", left |-> {}, read |-> {},
           words |-> <<>>, name |-> {}, result |-> Prose]

Init ==
  /\ call = [c \in Callers |-> NoCall]
  /\ store = [u \in {User[c] : c \in Callers} |-> <<>>]

Update(c, new) == call' = [call EXCEPT ![c] = new]
Goto(c, pc) == Update(c, [call[c] EXCEPT !.pc = pc])

\* The model of c has written object.
Say(c, object, pc, result) ==
  Update(c, [call[c] EXCEPT !.pc = pc, !.words = Append(@, object), !.result = result])

-----------------------------------------------------------------------------
(* The start of a call.                                                    *)

First(a, c) == CASE a \in DataAgent -> "choosing"
                 [] a = "samwise" -> IF c \in Named THEN "storing" ELSE "remembering"
                 [] OTHER -> "writing"

Begin(c) ==
  /\ call[c].pc = "idle"
  /\ \E a \in Team[c] : Update(c, [NoCall EXCEPT !.pc = First(a, c), !.agent = a])
  /\ UNCHANGED store

Refused == Over(Only("approved", {}), Only("required_changes", {"yes"}))

\* Faramir does not show a draft of less than ten characters to his model.
TooShort(c) ==
  /\ call[c].pc = "idle" /\ "faramir" \in Team[c]
  /\ Update(c, [NoCall EXCEPT !.pc = "done", !.agent = "faramir", !.result = Refused])
  /\ UNCHANGED store

-----------------------------------------------------------------------------
(* Elrond chooses tools, Radagast a location.                              *)

Question(a) ==
  Over(Only("needs_clarification", {"yes"}),
       Only(IF a = "elrond" THEN "insights" ELSE "weather", {}))

\* Elrond drops what is not one of his tools and lets no question of the model
\* stop him when something is left; Radagast asks whenever the model wants to.
BugTrustTheModel(a, object) ==
  IF a = "elrond" THEN object.said["tool_names"] \intersect Tools
  ELSE IF True(object, "location") THEN {"yes"} ELSE {}

Chosen(a, object) ==
  IF a = "elrond" THEN object.said["tool_names"] \intersect Tools
  ELSE IF True(object, "location") /\ ~ True(object, "needs_clarification") THEN {"yes"} ELSE {}

Choose(c) ==
  /\ call[c].pc = "choosing"
  /\ \E object \in Answers[call[c].agent] \union {Prose} :
       LET chosen == Chosen(call[c].agent, object) IN
       IF chosen = {} THEN Say(c, object, "done", Question(call[c].agent))
       ELSE Update(c, [call[c] EXCEPT !.pc = "reading", !.left = chosen,
                                      !.words = Append(@, object)])
  /\ UNCHANGED store

\* One query after the other, in the order of the list; every tool once.
Read(c) ==
  /\ call[c].pc = "reading"
  /\ \E tool \in call[c].left :
       Update(c, [call[c] EXCEPT !.left = @ \ {tool}, !.read = @ \union {tool},
                                 !.pc = IF call[c].left = {tool} THEN "writing" ELSE @])
  /\ UNCHANGED store

-----------------------------------------------------------------------------
(* The answer.                                                             *)

\* The evidence the model left out is appended to its insights.
BugTrustInsights(object, read) ==
  IF True(object, "insights") THEN object.said["insights"] ELSE read

Insights(object, read) == object.said["insights"] \union read

\* Mutant: Bilbo passes the model's object on.
BugPassOn(a, object, read) ==
  CASE a = "elrond"   -> Over(Over(Only("insights", Insights(object, read)),
                                   Only("needs_clarification", {})), object)
    [] a = "bilbo"    -> Over(object, Only("final_answer", {"yes"}))
    [] a = "radagast" -> Over(Only("weather", read), Only("needs_clarification", {}))
    [] a = "aragorn"  -> Over(object, Only("is_compliant", {}))
    [] a = "faramir"  -> Over(object, IF object = Prose THEN Refused ELSE Only("approved", {}))

\* Aragorn and Faramir deny what they cannot read; Bilbo uses any text.
Worded(a, object, read) ==
  CASE a = "elrond"   -> Over(Over(Only("insights", Insights(object, read)),
                                   Only("needs_clarification", {})), object)
    [] a = "bilbo"    -> Only("final_answer", {"yes"})
    [] a = "radagast" -> Over(Only("weather", read), Only("needs_clarification", {}))
    [] a = "aragorn"  -> Over(object, Only("is_compliant", {}))
    [] a = "faramir"  -> Over(object, IF object = Prose THEN Refused ELSE Only("approved", {}))

Write(c) ==
  /\ call[c].pc = "writing"
  /\ \E object \in Answers[call[c].agent] \union {Prose} :
       Say(c, object, "done", Worded(call[c].agent, object, call[c].read))
  /\ UNCHANGED store

\* Mutant: an empty second attempt is not taken, the model is asked once more.
BugRetryAgain(c) ==
  /\ call[c].pc = "retrying"
  /\ \E object \in Answers["faramir"] \union {Prose} :
       IF object = Prose THEN Say(c, Prose, "retrying", Prose)
       ELSE Say(c, object, "done", Over(object, Only("approved", {})))
  /\ UNCHANGED store

\* Mutant: the second attempt is a whole new review, with a retry of its own.
BugReviewAgain(c) ==
  /\ call[c].pc = "retrying"
  /\ Update(c, [NoCall EXCEPT !.pc = "writing", !.agent = "faramir"])
  /\ UNCHANGED store

\* Mutant: a review that stays empty is taken for a consent.
BugSilenceApproves(c) ==
  /\ call[c].pc = "retrying"
  /\ \E object \in Answers["faramir"] \union {Prose} :
       Say(c, object, "done", Over(object, Only("approved", {"yes"})))
  /\ UNCHANGED store

\* Faramir's model wrote {}: he asks once more, and takes what comes.
AskAgain(c) ==
  /\ call[c].pc = "writing" /\ call[c].agent = "faramir"
  /\ Say(c, Prose, "retrying", Prose)
  /\ UNCHANGED store

Retry(c) ==
  /\ call[c].pc = "retrying"
  /\ \E object \in Answers["faramir"] \union {Prose} :
       Say(c, object, "done", Over(object, Only("approved", {})))
  /\ UNCHANGED store

\* Radagast's model wrote JSON that is no object: .setdefault is called on it.
NoSetdefault(c) ==
  /\ call[c].pc = "writing" /\ call[c].agent = "radagast"
  /\ Say(c, Prose, "raised", Prose)
  /\ UNCHANGED store

\* A model, a query, the weather service or the store raises.
Awaiting == {"choosing", "reading", "writing", "retrying", "storing", "loading"}

Raise(c) ==
  /\ call[c].pc \in Awaiting
  /\ Goto(c, "raised")
  /\ UNCHANGED store

-----------------------------------------------------------------------------
(* Samwise.                                                                *)

\* Mutant: the names of all users are kept together.
BugOneNamespace(c) == CHOOSE u \in DOMAIN store : TRUE

Namespace(c) == User[c]

Store(c) ==
  /\ call[c].pc = "storing"
  /\ store' = [store EXCEPT ![Namespace(c)] = Append(@, c)]
  /\ Goto(c, "remembering")

\* His model is asked with the memory tools at hand, but PortBackedChatModel
\* gives it none and reads no tool call from it: nothing is written.  What it
\* says is not used and what it raises is swallowed.
Remember(c) ==
  /\ call[c].pc = "remembering"
  /\ Goto(c, "loading")
  /\ UNCHANGED store

Load(c) ==
  /\ call[c].pc = "loading"
  /\ LET names == store[Namespace(c)] IN
       Update(c, [call[c] EXCEPT !.pc = "done",
         !.result = Only("preferences", {}),
         !.name = IF names = <<>> THEN {} ELSE {names[Len(names)]}])
  /\ UNCHANGED store

-----------------------------------------------------------------------------

Step(c) ==
  \/ Begin(c) \/ TooShort(c)
  \/ Choose(c) \/ Read(c) \/ Write(c) \/ AskAgain(c) \/ Retry(c) \/ NoSetdefault(c)
  \/ Store(c) \/ Remember(c) \/ Load(c)

Next == \E c \in Callers : Step(c) \/ Raise(c)

\* What a call awaits comes back unless it raises.
Spec == Init /\ [][Next]_vars /\ \A c \in Callers : WF_vars(Step(c))

-----------------------------------------------------------------------------
(* Properties.                                                             *)

PC == {"idle", "choosing", "reading", "writing", "retrying", "storing", "remembering",
       "loading", "done", "raised"}

\* Types of the variables: the calls and the memory; nothing is read twice and
\* no call asks its model more than twice, every answer counted, the empty one
\* that makes Faramir ask again too.
TypeOK ==
  /\ call \in [Callers -> [pc : PC, agent : Agent, left : SUBSET Word, read : SUBSET Word,
                           words : Seq(Object), name : SUBSET Callers, result : Object]]
  /\ \A c \in Callers : call[c].left \intersect call[c].read = {} /\ Len(call[c].words) <= 2
  /\ store \in [{User[c] : c \in Callers} -> Seq(Callers)]

\* The keys of a result that steer the supervisor: a question only if it is asked.
Steering(object) ==
  {k \in Key \intersect object.keys : k = "needs_clarification" => True(object, k)}

Ruling(object) ==
  IF True(object, "approved") THEN "approved"
  ELSE IF True(object, "required_changes") THEN "changes" ELSE "rejected"

\* Whatever the models write, a result is one of those Supervisor counts with:
\* it has the keys of its agent, and beyond them only what Aragorn's, Elrond's
\* and Faramir's models wrote themselves (Stray) or a question for the user.
ReplyAsSupervised ==
  \A c \in Callers : call[c].pc = "done" =>
    LET a == call[c].agent
        r == [keys |-> Steering(call[c].result), compliant |-> True(call[c].result, "is_compliant"),
              verdict |-> Ruling(call[c].result)]
    IN r \in Reply /\ Own(a) \subseteq r.keys /\ r.keys \subseteq Own(a) \union Addable(a)

\* Aragorn clears and Faramir approves only in the last words of their models:
\* no fallback, default or second attempt does it for them.
FailsClosed ==
  \A c \in Callers, key \in {"is_compliant", "approved"} :
    LET said == call[c].words IN
    call[c].pc = "done" /\ Own(call[c].agent) = {key} /\ True(call[c].result, key) =>
      said # <<>> /\ True(said[Len(said)], key)

\* A data agent either asks the user, having read nothing, or answers with the
\* evidence of everything its model rightly asked for.
QuestionOrEvidence ==
  \A c \in Callers :
    LET said == call[c].words IN
    call[c].pc = "done" /\ call[c].agent \in DataAgent =>
      IF True(call[c].result, "needs_clarification") THEN call[c].read = {}
      ELSE /\ call[c].read # {}
           /\ call[c].agent = "elrond" =>
                /\ call[c].read = said[1].said["tool_names"] \intersect Tools
                /\ call[c].read \subseteq call[c].result.said["insights"]
           /\ call[c].agent = "radagast" => ~ True(said[1], "needs_clarification")

\* A run with a display name finds its own in the memory, or one that was stored
\* after it by a run of the same user ("load_user_preferences finds it
\* immediately", tools.py:289); nobody finds the name of another user.
NameIsFound ==
  \A c \in Callers : call[c].pc = "done" /\ call[c].agent = "samwise" =>
    /\ \A d \in call[c].name : User[d] = User[c]
    /\ c \in Named => \E d \in call[c].name : \E i, j \in DOMAIN store[User[c]] :
                        i <= j /\ store[User[c]][i] = c /\ store[User[c]][j] = d

\* Every call comes to an end: Faramir's second attempt is his last.
CallsEnd == \A c \in Callers : call[c].pc # "idle" ~> call[c].pc \in {"done", "raised"}

=============================================================================
