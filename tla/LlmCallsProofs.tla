--------------------------- MODULE LlmCallsProofs ---------------------------
(***************************************************************************)
(* What is proved of module LlmCalls, for any set of calls.                *)
(***************************************************************************)
EXTENDS LlmCalls, TLAPS

\* A call that has left "idle" has a provider.  A call that failed has its
\* error, and the exception that the adapter of its provider makes of it.
CallInv(c) ==
  /\ pc[c] \in {"waiting", "raised"} => provider[c] \in Provider
  /\ pc[c] = "raised" =>
       /\ error[c] \in [kind : Kinds, worded : BOOLEAN]
       /\ provider[c] = "llamacpp" => raised[c] = LlamaCpp(error[c])
       /\ provider[c] = "openrouter" => raised[c] = OpenRouter(error[c])

CallsInv ==
  /\ TypeOK
  /\ UsageIsOwn
  /\ DOMAIN error = Call /\ DOMAIN raised = Call
  /\ \A c \in Call : CallInv(c)

-----------------------------------------------------------------------------
(* The operators.                                                          *)

\* What the router has copied when a call returns is the usage of that call, or
\* the empty one of a response without a measurement.
LEMMA CopyIsOwn ==
  ASSUME NEW p \in Provider, NEW c \in Call, NEW measured \in BOOLEAN
  PROVE  /\ Usage(p, c, measured) \in {c, "empty"}
         /\ Copied(p, Usage(p, c, measured)) \in {c, "empty"}
BY DEF Copied, Usage

\* llama.cpp: only a failed connection becomes "unavailable", and what the
\* service then takes for a timeout says so.
LEMMA LlamaCppKeepsCause ==
  ASSUME NEW e \in [kind : Kinds, worded : BOOLEAN]
  PROVE  /\ e.kind = "unreachable" => Service(LlamaCpp(e)) = "unavailable"
         /\ Service(LlamaCpp(e)) = "timeout" => e.worded
BY DEF Service, LlamaCpp, Exc

\* OpenRouter: a rejected key stays one, whatever its text.
LEMMA OpenRouterKeepsCause ==
  ASSUME NEW e \in [kind : Kinds, worded : BOOLEAN]
  PROVE  /\ e.kind = "unauthorized" => Service(OpenRouter(e)) = "authentication"
         /\ Service(OpenRouter(e)) = "timeout" => e.kind = "gateway_timeout" \/ e.worded
BY DEF Service, OpenRouter, Exc

-----------------------------------------------------------------------------
(* The inductive invariant.                                                *)

LEMMA CallsInit == Init => CallsInv
BY CallAssumption
   DEF Init, CallsInv, CallInv, TypeOK, UsageIsOwn, Usages, Provider, None

LEMMA CallsInductive == CallsInv /\ [Next]_vars => CallsInv'
<1> SUFFICES ASSUME CallsInv, [Next]_vars PROVE CallsInv'
  OBVIOUS
<1> USE DEF CallsInv
<1>1. CASE UNCHANGED vars
  BY <1>1 DEF vars, TypeOK, UsageIsOwn, CallInv
<1>2. ASSUME NEW c \in Call, Dispatch(c) PROVE CallsInv'
  <2>1. TypeOK' /\ UsageIsOwn'
    BY <1>2 DEF Dispatch, TypeOK, UsageIsOwn
  <2>2. ASSUME NEW d \in Call PROVE CallInv(d)'
    BY <1>2 DEF Dispatch, TypeOK, CallInv
  <2> QED
    BY <1>2, <2>1, <2>2 DEF Dispatch
<1>3. ASSUME NEW c \in Call, Return(c) PROVE CallsInv'
  <2>1. PICK measured \in BOOLEAN :
          /\ adapter'  = [adapter EXCEPT ![provider[c]] = Usage(provider[c], c, measured)]
          /\ router'   = Copied(provider[c], Usage(provider[c], c, measured))
          /\ reported' = [reported EXCEPT ![c] = router']
    BY <1>3 DEF Return
  <2>2. provider[c] \in Provider
    BY <1>3 DEF Return, CallInv
  <2>3. router' \in {c, "empty"} /\ Usage(provider[c], c, measured) \in {c, "empty"}
    BY <2>1, <2>2, CopyIsOwn
  <2>4. c # None /\ "empty" # None
    BY CallAssumption DEF None
  <2>5. UsageIsOwn'
    BY <2>1, <2>3 DEF UsageIsOwn, TypeOK
  <2>6. TypeOK'
    BY <1>3, <2>1, <2>2, <2>3, <2>4 DEF Return, TypeOK, Usages
  <2>7. ASSUME NEW d \in Call PROVE CallInv(d)'
    BY <1>3 DEF Return, TypeOK, CallInv
  <2> QED
    BY <1>3, <2>5, <2>6, <2>7 DEF Return
<1>4. ASSUME NEW c \in Call, Break(c) PROVE CallsInv'
  <2>1. PICK e \in [kind : Kinds, worded : BOOLEAN] :
          /\ error'  = [error EXCEPT ![c] = e]
          /\ raised' = [raised EXCEPT ![c] =
                          IF provider[c] = "llamacpp" THEN LlamaCpp(e) ELSE OpenRouter(e)]
    BY <1>4 DEF Break
  <2>2. TypeOK' /\ UsageIsOwn'
    BY <1>4 DEF Break, TypeOK, UsageIsOwn
  <2>3. ASSUME NEW d \in Call PROVE CallInv(d)'
    <3>1. CASE d = c
      BY <1>4, <2>1, <3>1 DEF Break, TypeOK, CallInv
    <3>2. CASE d # c
      BY <1>4, <2>1, <3>2 DEF Break, TypeOK, CallInv
    <3> QED
      BY <3>1, <3>2
  <2> QED
    BY <2>1, <2>2, <2>3
<1> QED
  BY <1>1, <1>2, <1>3, <1>4 DEF Next

LEMMA CallsInvariant == Spec => []CallsInv
BY CallsInit, CallsInductive, PTL DEF Spec

-----------------------------------------------------------------------------
(* What follows from it.                                                   *)

\* The fields hold usages of calls, and a call that has returned has one.
THEOREM Typed == Spec => []TypeOK
<1>1. CallsInv => TypeOK
  BY DEF CallsInv
<1> QED
  BY <1>1, CallsInvariant, PTL

\* Requests never report each other's usage, however many run at once.
THEOREM UsageNotMixed == Spec => []UsageIsOwn
<1>1. CallsInv => UsageIsOwn
  BY DEF CallsInv
<1> QED
  BY <1>1, CallsInvariant, PTL

\* Through both mappings, the adapter's and the chat service's, a rejected key
\* stays a rejected key, an unreachable server unavailable, and nothing is
\* called a timeout that neither was one nor said so.
THEOREM CausesKept == Spec => []CausesAreKept
<1>1. ASSUME CallsInv PROVE CausesAreKept
  <2> SUFFICES ASSUME NEW c \in Call, pc[c] = "raised"
               PROVE  /\ provider[c] = "openrouter" /\ error[c].kind = "unauthorized" =>
                           Service(raised[c]) = "authentication"
                      /\ provider[c] = "llamacpp" /\ error[c].kind = "unreachable" =>
                           Service(raised[c]) = "unavailable"
                      /\ Service(raised[c]) = "timeout" =>
                           error[c].kind \in {"timeout", "gateway_timeout"} \/ error[c].worded
    BY DEF CausesAreKept
  <2>1. CallInv(c)
    BY <1>1 DEF CallsInv
  <2>2. CASE provider[c] = "llamacpp"
    BY <2>1, <2>2, LlamaCppKeepsCause DEF CallInv
  <2>3. CASE provider[c] = "openrouter"
    BY <2>1, <2>3, OpenRouterKeepsCause DEF CallInv
  <2> QED
    BY <2>1, <2>2, <2>3 DEF CallInv, Provider
<1> QED
  BY <1>1, CallsInvariant, PTL

=============================================================================
