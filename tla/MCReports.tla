----------------------------- MODULE MCReports -----------------------------
EXTENDS Reports

\* A quarter of three days in two months.
MCDays  == 1..3
MCMonth == <<1, 1, 2>>
MCGroup == [h \in Hotels |-> "Nordic Hotels, Zurich"]
============================================================================
