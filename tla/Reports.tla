------------------------------ MODULE Reports ------------------------------
(***************************************************************************)
(* The figures of the management reports: the facts seed_facts draws for   *)
(* every hotel and day, and the marts seed_management_reporting_layer      *)
(* derives from them (seed_hotels.py).  A table is a function of its key,  *)
(* a join the set of the keys it puts together, and SUM goes over that set.*)
(* Warehouse has the order of the statements, this module their results.   *)
(***************************************************************************)
EXTENDS Integers, FiniteSetsExt

CONSTANTS
  Hotels,
  Group,        \* Group[h]: the brand and market of a hotel
  Days,         \* the calendar from START_DATE to END_DATE
  Month,        \* Month[d]: the month of a day
  Departments,  \* those with a schedule for every hotel and day
  Rooms,        \* bound: rooms of a hotel
  Rates         \* bound: what a sold room may bring in

VARIABLES
  fact,   \* fact[h, d]: the rows of fact_occupancy, fact_revenue and the schedules
  flash,  \* rpt_daily_flash, by hotel and day
  pl,     \* rpt_usali_monthly_pl, by hotel and month
  qbr     \* rpt_quarterly_business_review of the one quarter, by group

vars == <<fact, flash, pl, qbr>>

Months == {Month[d] : d \in Days}
In(g, periods) == {h \in Hotels : Group[h] = g} \X periods
Empty  == [key \in {} |-> 0]

Init == fact = Empty /\ flash = Empty /\ pl = Empty /\ qbr = Empty

\* One hotel on one day; the days are drawn independently of each other.  Some room
\* stays in order, every department is scheduled whatever is sold.
SeedDay(h, d) ==
  /\ <<h, d>> \notin DOMAIN fact
  /\ \E available \in 1..Rooms, rate \in Rates :
     \E sold \in 0..available :
       fact' = [key \in DOMAIN fact \union {<<h, d>>} |->
                  IF key \in DOMAIN fact THEN fact[key]
                  ELSE [sold    |-> sold,
                        revenue |-> sold * rate,
                        labor   |-> [p \in Departments |-> 1 + sold]]]
  /\ UNCHANGED <<flash, pl, qbr>>

Seeded == DOMAIN fact = Hotels \X Days

\* fact_revenue joined with fact_occupancy and, from the left, with
\* fact_labor_costs, which has a row per department.
Joined(h, m) == {d \in Days : Month[d] = m} \X Departments

SumOf(value(_, _), rows) == MapThenSumSet(LAMBDA row : value(row[1], row[2]), rows)

CreatePl ==
  /\ Seeded /\ DOMAIN pl = {}
  /\ pl' = [key \in Hotels \X Months |->
       LET rows == Joined(key[1], key[2]) IN
       [sold    |-> SumOf(LAMBDA d, p : fact[key[1], d].sold, rows),
        revenue |-> SumOf(LAMBDA d, p : fact[key[1], d].revenue, rows),
        labor   |-> SumOf(LAMBDA d, p : fact[key[1], d].labor[p], rows)]]
  /\ UNCHANGED <<fact, flash, qbr>>

\* rpt_daily_flash by way of agg_daily_hotel_kpis, whose GROUP BY keeps a
\* hotel's day together whatever is joined to it.
CreateFlash ==
  /\ DOMAIN pl # {} /\ DOMAIN flash = {}
  /\ flash' = [key \in Hotels \X Days |->
                 [sold |-> fact[key].sold, revenue |-> fact[key].revenue]]
  /\ UNCHANGED <<fact, pl, qbr>>

\* The quarter adds up the months of rpt_monthly_owner_pack, one row per row of pl.
CreateQbr ==
  /\ DOMAIN flash # {} /\ DOMAIN qbr = {}
  /\ qbr' = [g \in {Group[h] : h \in Hotels} |->
               MapThenSumSet(LAMBDA key : pl[key].revenue, In(g, Months))]
  /\ UNCHANGED <<fact, flash, pl>>

Next ==
  \/ \E h \in Hotels, d \in Days : SeedDay(h, d)
  \/ CreatePl \/ CreateFlash \/ CreateQbr

Spec == Init /\ [][Next]_vars

\* The quarter's revenue ("Portfolio quarterly revenue is ...",
\* hotel_management_report_service.py:222) is the revenue of its days in the daily
\* flash.  A property the code does not have: pl counts a day once per department.
QuarterIsSumOfDays ==
  DOMAIN qbr # {} =>
    \A g \in DOMAIN qbr :
      qbr[g] = MapThenSumSet(LAMBDA key : flash[key].revenue, In(g, Days))

=============================================================================
