------------------------------ MODULE LlmCalls ------------------------------
(***************************************************************************)
(* The calls of the language models: LLMProviderRouter hands a call to the *)
(* adapter of its provider, the adapters and the router keep the usage of  *)
(* the last call in a field all requests share, and PortBackedChatModel    *)
(* reads it when its call is back.  Errors of a provider become exceptions *)
(* of the application, which ChatService maps once more.                   *)
(*                                                                         *)
(* Calls of several requests are in progress at once.  They take turns     *)
(* where they await: from the provider's response to the chat model's      *)
(* result there is no await, so a return is one step.                      *)
(***************************************************************************)
EXTENDS Naturals

CONSTANT Call

Provider == {"llamacpp", "openrouter"}

VARIABLES
  pc,        \* progress of each call
  provider,  \* provider of each call
  adapter,   \* last_usage of each adapter
  router,    \* last_usage of the router
  reported,  \* usage put on the message of each call
  error,     \* what went wrong at the provider
  raised     \* the exception the adapter raised

vars == <<pc, provider, adapter, router, reported, error, raised>>

\* A usage is named after the call it was measured for; "empty" is a
\* dictionary without an entry.
None == "none"

\* No call goes by the name of the absent usage.
ASSUME CallAssumption == None \notin Call

NoError == [kind |-> None, worded |-> FALSE]
NoExc   == [class |-> None, worded |-> FALSE]

Init ==
  /\ pc       = [c \in Call |-> "idle"]
  /\ provider = [c \in Call |-> None]
  /\ adapter  = [p \in Provider |-> None]
  /\ router   = None
  /\ reported = [c \in Call |-> None]
  /\ error    = [c \in Call |-> NoError]
  /\ raised   = [c \in Call |-> NoExc]

\* The router picks the adapter; every configured provider has one.
Dispatch(c) ==
  /\ pc[c] = "idle"
  /\ \E p \in Provider : provider' = [provider EXCEPT ![c] = p]
  /\ pc' = [pc EXCEPT ![c] = "waiting"]
  /\ UNCHANGED <<adapter, router, reported, error, raised>>

-----------------------------------------------------------------------------
(* A response.                                                             *)

BugKeepUsage(p, c, measured) == IF measured THEN c ELSE adapter[p]

\* The llama.cpp adapter estimates the usage; OpenRouter's response may come
\* without one.
Usage(p, c, measured) == IF p = "llamacpp" \/ measured THEN c ELSE "empty"

BugCopiedBefore(p, usage) == adapter[p]

\* The router copies the field after the adapter has returned.
Copied(p, usage) == usage

Return(c) ==
  /\ pc[c] = "waiting"
  /\ \E measured \in BOOLEAN :
       LET p == provider[c] IN
       /\ adapter'  = [adapter EXCEPT ![p] = Usage(p, c, measured)]
       /\ router'   = Copied(p, Usage(p, c, measured))
       /\ reported' = [reported EXCEPT ![c] = router']
  /\ pc' = [pc EXCEPT ![c] = "returned"]
  /\ UNCHANGED <<provider, error, raised>>

-----------------------------------------------------------------------------
(* An error.  Its text may or may not contain the word "timeout".          *)

Kinds == {"unreachable", "unauthorized", "timeout", "gateway_timeout", "server"}

Exc(class, e) == [class |-> class, worded |-> e.worded]

\* Only a failed connection has an exception of the application; a late or an
\* unusable response is raised as httpx raises it.
LlamaCpp(e) == IF e.kind = "unreachable" THEN [class |-> "unavailable", worded |-> FALSE]
               ELSE Exc("other", e)

BugTextFirst(e) ==
  IF e.worded \/ e.kind = "gateway_timeout" THEN [class |-> "timeout", worded |-> TRUE]
  ELSE IF e.kind = "unauthorized" THEN Exc("authentication", e) ELSE Exc("other", e)

\* A rejected key first; then whatever is a gateway timeout or says "timeout";
\* the rest goes on as it is.
OpenRouter(e) ==
  IF e.kind = "unauthorized" THEN Exc("authentication", e)
  ELSE IF e.worded \/ e.kind = "gateway_timeout" THEN [class |-> "timeout", worded |-> TRUE]
  ELSE Exc("other", e)

Break(c) ==
  /\ pc[c] = "waiting"
  /\ \E e \in [kind : Kinds, worded : BOOLEAN] :
       /\ error'  = [error EXCEPT ![c] = e]
       /\ raised' = [raised EXCEPT ![c] =
                       IF provider[c] = "llamacpp" THEN LlamaCpp(e) ELSE OpenRouter(e)]
  /\ pc' = [pc EXCEPT ![c] = "raised"]
  /\ UNCHANGED <<provider, adapter, router, reported>>

Next == \E c \in Call : Dispatch(c) \/ Return(c) \/ Break(c)

Spec == Init /\ [][Next]_vars

-----------------------------------------------------------------------------
(* What the caller of ChatService.process_chat gets.                       *)

Service(x) ==
  IF x.class \in {"authentication", "unavailable"} THEN x.class
  ELSE IF x.class = "timeout" \/ x.worded THEN "timeout"
  ELSE "other"

-----------------------------------------------------------------------------
(* Properties.                                                             *)

Usages == Call \union {None, "empty"}

\* Types of the variables, and what each way to end leaves behind.
TypeOK ==
  /\ pc \in [Call -> {"idle", "waiting", "returned", "raised"}]
  /\ provider \in [Call -> Provider \union {None}]
  /\ adapter \in [Provider -> Usages] /\ router \in Usages
  /\ reported \in [Call -> Usages]
  /\ \A c \in Call : pc[c] = "returned" => reported[c] # None

\* Requests that run at the same time never report each other's tokens and
\* cost, nor those of an earlier call, although the field is shared.
UsageIsOwn == \A c \in Call : reported[c] \in {c, "empty", None}

\* A rejected key of OpenRouter is reported as such, whatever its text says,
\* and an unreachable llama.cpp server as unavailable.
CausesAreKept ==
  \A c \in Call : pc[c] = "raised" =>
    /\ provider[c] = "openrouter" /\ error[c].kind = "unauthorized" =>
         Service(raised[c]) = "authentication"
    /\ provider[c] = "llamacpp" /\ error[c].kind = "unreachable" =>
         Service(raised[c]) = "unavailable"
    /\ Service(raised[c]) = "timeout" =>
         error[c].kind \in {"timeout", "gateway_timeout"} \/ error[c].worded

=============================================================================
