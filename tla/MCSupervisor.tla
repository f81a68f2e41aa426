---------------------------- MODULE MCSupervisor ----------------------------
EXTENDS Supervisor

CONSTANT MaxPlan  \* length of the longest plan

\* Every plan up to the bound; plans that do not start with Aragorn are all
\* rejected alike, so a single one stands for them.
AllPlans ==
  {p \in UNION {[1 .. n -> Agent] : n \in 1 .. MaxPlan} : p[1] = "aragorn"}
    \union {<<>>, <<"elrond">>}

\* Keys the open dictionaries may carry that are not another agent's verdict or
\* text: data beyond their own, and Faramir's question to the user.
HarmlessStray ==
  [a \in Agent |-> CASE a = "aragorn" -> {"insights"}
                     [] a = "elrond"  -> {"weather"}
                     [] a = "faramir" -> {"needs_clarification"}
                     [] OTHER         -> {}]

NoStray == [a \in Agent |-> {}]

=============================================================================
