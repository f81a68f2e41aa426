---------------------------- MODULE AgentResults ----------------------------
(***************************************************************************)
(* What passes between the specialists and the supervisor: a result is a   *)
(* JSON object, and what steers GandalfAgent.run is which keys it has.     *)
(* Supervisor takes any of these results, Specialists produces them.       *)
(***************************************************************************)

CONSTANT Stray   \* Stray[a]: keys beyond its own that agent a's model may add

Agent     == {"aragorn", "samwise", "elrond", "radagast", "bilbo", "faramir"}
DataAgent == {"elrond", "radagast"}
Context   == {"preferences", "insights", "weather"}
Key       == Context \union {"is_compliant", "final_answer", "approved", "needs_clarification"}
Verdict   == {"approved", "changes", "rejected"}

ASSUME StrayAssumption == Stray \in [Agent -> SUBSET Key]

Own(a) == CASE a = "aragorn"  -> {"is_compliant"}
            [] a = "samwise"  -> {"preferences"}
            [] a = "elrond"   -> {"insights"}
            [] a = "radagast" -> {"weather"}
            [] a = "bilbo"    -> {"final_answer"}
            [] a = "faramir"  -> {"approved"}

\* Elrond and Radagast may ask the user; Bilbo and Samwise build their
\* dictionaries field by field, the others return what the model wrote.
Addable(a) == Stray[a] \union (IF a \in DataAgent THEN {"needs_clarification"} ELSE {})

Reply == [keys : SUBSET Key, compliant : BOOLEAN, verdict : Verdict]

=============================================================================
