--------------------------- MODULE MCSpecialists ---------------------------
EXTENDS Specialists

CONSTANTS c1, c2, c3

\* Two runs of a user without an id and one of a user who has one.
MCUser == [c \in Callers |-> IF c = c3 THEN "u1" ELSE "anonymous"]

\* The first calls anybody, the others use the memory beside it.
MCTeam == [c \in Callers |-> IF c = c1 THEN Agent ELSE {"samwise", "faramir"}]

\* Models that keep to their keys, that answer with somebody else's, that
\* leave things out, and that ask although nothing is missing.
Yes(key) == Only(key, {"yes"})
MCAnswers == [a \in Agent |->
  CASE a = "aragorn"  -> {Yes("is_compliant"), Only("is_compliant", {}),
                          Over(Yes("is_compliant"), Only("insights", {}))}
    [] a = "elrond"   -> {Only("tool_names", {"metrics", "own words"}),
                          Over(Only("tool_names", {"metrics", "trend"}), Yes("needs_clarification")),
                          Over(Only("insights", {"own words"}), Yes("approved")),
                          Yes("needs_clarification")}
    [] a = "radagast" -> {Yes("location"), Over(Yes("location"), Yes("needs_clarification")),
                          Only("final_answer", {"own words"})}
    [] a = "bilbo"    -> {Yes("final_answer"), Yes("approved")}
    [] a = "faramir"  -> {Yes("approved"), Only("approved", {}), Yes("required_changes"),
                          Over(Yes("approved"), Yes("needs_clarification"))}
    [] a = "samwise"  -> {}]

\* Aragorn, Elrond and Faramir pass on what their models wrote.
MCStray == [a \in Agent |->
  CASE a = "aragorn" -> {"insights"}
    [] a = "elrond"  -> {"approved"}
    [] a = "faramir" -> {"needs_clarification"}
    [] OTHER         -> {}]
===========================================================================
