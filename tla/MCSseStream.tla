---------------------------- MODULE MCSseStream -----------------------------
EXTENDS SseStream

CONSTANTS plan, check, recheck, draft

\* Two labels of one agent, so that activities grow and agents come back.
Agents == [l \in Label |-> CASE l = plan    -> "gandalf"
                             [] l = check   -> "aragorn"
                             [] l = recheck -> "aragorn"
                             [] l = draft   -> "bilbo"]

=============================================================================
