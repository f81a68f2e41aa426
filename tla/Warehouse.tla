---------------------------- MODULE Warehouse ----------------------------
(* The statements of the seed job, src/src/jobs/seed_hotels.py, in the order *)
(* seed() issues them.  A statement names the tables it drops, makes or      *)
(* fills, the tables its foreign keys refer to and the tables it reads;      *)
(* columns and values are left out.  A table holds the number of the seed    *)
(* run that made it, and whether its rows are all there: rows selected from  *)
(* an unfinished table, or from one of an earlier run, are not.              *)
EXTENDS Naturals, FiniteSets, SequencesExt

Step(op, on, refs, from) == [op |-> op, on |-> on, refs |-> refs, from |-> from]

Drop(tables) == Step("drop", tables, {}, {})
New(t, refs) == Step("create", {t}, refs, {})
Fill(t, from) == Step("fill", {t}, {}, from)
Select(t, from) == Step("select", {t}, {}, from)
Draft(t, from) == Step("draft", {t}, {}, from)
Read(tables) == Step("read", {}, {}, tables)

---------------------------------------------------------------------------
(* create_schema *)

DropCore == <<Drop({
  "agg_seasonal_patterns", "agg_channel_performance", "agg_sentiment_trends",
  "agg_regional_market_share", "agg_monthly_brand_performance", "agg_daily_hotel_kpis",
  "operational_maintenance_logs", "operational_staff_schedules", "fact_competitor_rates",
  "fact_guest_reviews", "fact_revenue", "fact_occupancy", "fact_bookings",
  "hotel_rate_history", "hotel_history", "guest_reviews", "hotels", "bridge_hotel_amenities",
  "dim_corporate_accounts", "dim_loyalty_members", "dim_promotion", "dim_amenity",
  "dim_channel", "dim_guest_segment", "dim_room_type", "dim_hotel", "dim_brand",
  "dim_region", "dim_date"})>>

DimensionTables == <<
  New("dim_date", {}), New("dim_region", {}), New("dim_brand", {}),
  New("dim_hotel", {"dim_brand", "dim_region"}),
  New("dim_room_type", {}), New("dim_guest_segment", {}), New("dim_channel", {}),
  New("dim_amenity", {}), New("dim_promotion", {}), New("dim_loyalty_members", {}),
  New("dim_corporate_accounts", {}),
  New("bridge_hotel_amenities", {"dim_hotel", "dim_amenity"})>>

HotelTables == <<
  New("hotels", {"dim_hotel"}), New("guest_reviews", {"hotels"}),
  New("hotel_history", {"dim_hotel", "dim_brand"}),
  New("hotel_rate_history", {"dim_hotel", "dim_room_type"})>>

HotelDay == {"dim_hotel", "dim_date"}

FactTables == <<
  New("fact_bookings", HotelDay \cup {"dim_room_type", "dim_guest_segment", "dim_channel",
      "dim_promotion", "dim_loyalty_members", "dim_corporate_accounts"}),
  New("fact_occupancy", HotelDay), New("fact_revenue", HotelDay),
  New("fact_guest_reviews", HotelDay \cup {"fact_bookings", "dim_channel"}),
  New("fact_competitor_rates", HotelDay),
  New("operational_staff_schedules", HotelDay), New("operational_maintenance_logs", HotelDay)>>

AggregateTables == <<
  New("agg_daily_hotel_kpis", HotelDay),
  New("agg_monthly_brand_performance", {"dim_brand"}),
  New("agg_regional_market_share", {"dim_region", "dim_brand"}),
  New("agg_sentiment_trends", {"dim_hotel"}),
  New("agg_channel_performance", {"dim_hotel", "dim_channel"}),
  New("agg_seasonal_patterns", {"dim_region"})>>

---------------------------------------------------------------------------
(* seed_dimensions: the lookups it returns are read back last *)

DimensionRows == <<
  Fill("dim_date", {}), Fill("dim_region", {}), Fill("dim_brand", {}),
  Fill("dim_room_type", {}), Fill("dim_guest_segment", {}), Fill("dim_channel", {}),
  Fill("dim_amenity", {}), Fill("dim_promotion", {})>>

HotelDimensionRows == <<
  Fill("dim_hotel", {"dim_brand", "dim_region"}),
  Fill("dim_loyalty_members", {}), Fill("dim_corporate_accounts", {}),
  Read({"dim_brand", "dim_region", "dim_hotel", "dim_room_type", "dim_guest_segment",
        "dim_channel", "dim_promotion", "dim_amenity", "dim_loyalty_members",
        "dim_corporate_accounts"})>>

(* seed_hotels_and_scd: occupancy and revenue of hotels are placeholders *)
HotelRows == <<
  Draft("hotels", {"dim_hotel"}), Fill("hotel_history", {"dim_hotel", "dim_brand"}),
  Fill("hotel_rate_history", {"dim_hotel", "dim_room_type"}),
  Fill("bridge_hotel_amenities", {"dim_hotel", "dim_amenity"})>>

(* seed_facts: rows computed from the hotels of the database, in batches *)
FactRows ==
  <<Read({"dim_hotel", "dim_region"})>>
  \o [i \in 1..7 |-> Fill(<<"fact_occupancy", "fact_revenue", "fact_competitor_rates",
        "operational_staff_schedules", "operational_maintenance_logs", "fact_bookings",
        "guest_reviews">>[i], {"dim_hotel", "dim_region"})]
  \o <<Fill("fact_guest_reviews", {"fact_bookings"})>>

(* Mutant: the monthly performance is computed before the daily one. *)
BugMonthlyFirst ==
  LET kpis == {"agg_daily_hotel_kpis", "dim_date", "dim_hotel"} IN <<
  Fill("agg_monthly_brand_performance", kpis \cup {"fact_revenue"}),
  Fill("agg_daily_hotel_kpis", {"fact_occupancy", "fact_revenue", "fact_guest_reviews"}),
  Fill("agg_regional_market_share", kpis \cup {"fact_revenue"}),
  Fill("agg_sentiment_trends", {"fact_guest_reviews", "dim_date"}),
  Fill("agg_channel_performance", {"fact_bookings", "dim_date"}),
  Fill("agg_seasonal_patterns", kpis),
  Fill("hotels", {"agg_daily_hotel_kpis"})>>

(* seed_aggregates: the last statement is the UPDATE of hotels *)
AggregateRows ==
  LET kpis == {"agg_daily_hotel_kpis", "dim_date", "dim_hotel"} IN <<
  Fill("agg_daily_hotel_kpis", {"fact_occupancy", "fact_revenue", "fact_guest_reviews"}),
  Fill("agg_monthly_brand_performance", kpis \cup {"fact_revenue"}),
  Fill("agg_regional_market_share", kpis \cup {"fact_revenue"}),
  Fill("agg_sentiment_trends", {"fact_guest_reviews", "dim_date"}),
  Fill("agg_channel_performance", {"fact_bookings", "dim_date"}),
  Fill("agg_seasonal_patterns", kpis),
  Fill("hotels", {"agg_daily_hotel_kpis"})>>

---------------------------------------------------------------------------
(* seed_management_reporting_layer *)

(* Mutant: the list of tables to drop misses a report. *)
BugKeepPack == <<
  Drop({"rpt_quarterly_business_review", "rpt_weekly_pace", "rpt_daily_flash",
        "rpt_capex_tracker", "rpt_guest_satisfaction_index", "rpt_usali_monthly_pl",
        "fact_capex_projects", "fact_food_beverage_outlets", "fact_labor_costs",
        "fact_budget_targets", "dim_brand_standard", "bridge_hotel_comp_set",
        "dim_usali_account"}),
  New("dim_usali_account", {}), New("bridge_hotel_comp_set", {"dim_hotel"}),
  New("dim_brand_standard", {"dim_brand"}), New("fact_budget_targets", HotelDay),
  New("fact_labor_costs", HotelDay \cup {"dim_usali_account"}),
  New("fact_food_beverage_outlets", HotelDay), New("fact_capex_projects", HotelDay)>>

ReportTables == <<
  Drop({"rpt_quarterly_business_review", "rpt_monthly_owner_pack", "rpt_weekly_pace",
        "rpt_daily_flash", "rpt_capex_tracker", "rpt_guest_satisfaction_index",
        "rpt_usali_monthly_pl", "fact_capex_projects", "fact_food_beverage_outlets",
        "fact_labor_costs", "fact_budget_targets", "dim_brand_standard",
        "bridge_hotel_comp_set", "dim_usali_account"}),
  New("dim_usali_account", {}), New("bridge_hotel_comp_set", {"dim_hotel"}),
  New("dim_brand_standard", {"dim_brand"}), New("fact_budget_targets", HotelDay),
  New("fact_labor_costs", HotelDay \cup {"dim_usali_account"}),
  New("fact_food_beverage_outlets", HotelDay), New("fact_capex_projects", HotelDay)>>

ReportRows == <<
  Fill("dim_usali_account", {}), Fill("bridge_hotel_comp_set", {"dim_hotel"}),
  Fill("dim_brand_standard", {"dim_brand"}),
  Fill("fact_budget_targets", {"agg_daily_hotel_kpis"}),
  Fill("fact_labor_costs", {"operational_staff_schedules", "dim_usali_account"}),
  Fill("fact_food_beverage_outlets", {"fact_revenue", "fact_occupancy"}),
  Fill("fact_capex_projects", {"dim_hotel"})>>

Named == {"dim_hotel", "dim_brand", "dim_region"}

MonthlyMarts == <<
  Select("rpt_usali_monthly_pl",
         Named \cup {"fact_revenue", "fact_occupancy", "dim_date", "fact_labor_costs"}),
  Select("rpt_guest_satisfaction_index", Named \cup {"fact_guest_reviews", "dim_date"}),
  Select("rpt_capex_tracker", Named \cup {"fact_capex_projects"}),
  Select("rpt_daily_flash", Named \cup {"agg_daily_hotel_kpis", "dim_date",
         "fact_budget_targets", "rpt_usali_monthly_pl", "rpt_guest_satisfaction_index"})>>

PackMarts == <<
  Select("rpt_weekly_pace", Named \cup {"fact_bookings", "dim_date"}),
  Select("rpt_monthly_owner_pack", {"rpt_usali_monthly_pl", "fact_budget_targets",
         "dim_date", "rpt_guest_satisfaction_index", "fact_capex_projects"}),
  Select("rpt_quarterly_business_review", {"rpt_monthly_owner_pack"})>>

(* create_indexes and log_seed_summary *)
IndexesAndCounts == <<
  Read({"fact_bookings", "fact_occupancy", "fact_revenue", "fact_guest_reviews",
        "fact_competitor_rates", "agg_monthly_brand_performance", "agg_channel_performance"}),
  Read({"dim_date", "dim_region", "dim_brand", "dim_hotel", "hotels", "guest_reviews",
        "fact_bookings", "fact_occupancy", "fact_revenue", "fact_guest_reviews",
        "fact_competitor_rates", "operational_staff_schedules", "operational_maintenance_logs",
        "agg_daily_hotel_kpis", "agg_monthly_brand_performance", "agg_regional_market_share",
        "agg_sentiment_trends", "agg_channel_performance", "agg_seasonal_patterns",
        "dim_usali_account", "bridge_hotel_comp_set", "dim_brand_standard",
        "fact_budget_targets", "fact_labor_costs", "fact_food_beverage_outlets",
        "fact_capex_projects", "rpt_daily_flash", "rpt_weekly_pace", "rpt_usali_monthly_pl",
        "rpt_monthly_owner_pack", "rpt_quarterly_business_review"})>>

---------------------------------------------------------------------------

(* The script in parts.  Only the first statement of a part can wait for     *)
(* another session or make one wait: the drops, and the two tables the       *)
(* application makes as well.  The rest of a part concerns tables nobody else *)
(* can see, and a part that is cut short is rolled back, so that a part is    *)
(* one step.                                                                  *)
Script == <<
  DropCore \o DimensionTables,
  <<Head(HotelTables)>>,
  Tail(HotelTables) \o FactTables \o AggregateTables \o DimensionRows \o HotelDimensionRows
    \o HotelRows \o FactRows \o AggregateRows,
  ReportTables \o ReportRows \o MonthlyMarts \o PackMarts \o IndexesAndCounts>>

Statements == UNION {Range(part) : part \in Range(Script)}

Makes(s) == s.op \in {"create", "select"}

(* Every table the job leaves behind. *)
Tables == UNION {s.on : s \in {r \in Statements : Makes(r)}}

(* PostgreSQL refuses a statement that makes a table twice, names one that is *)
(* missing, or inserts a row whose foreign key finds no row.                  *)
Refused(s, tables) ==
  \/ Makes(s) /\ s.on \cap DOMAIN tables # {}
  \/ ~ (s.refs \cup s.from) \subseteq DOMAIN tables
  \/ /\ s.op \in {"fill", "draft"}
     /\ \/ ~ s.on \subseteq DOMAIN tables
        \/ \E t \in s.on : \E r \in tables[t].refs : tables[r].rows = "none"

(* The tables of f beside, and in place of, those of g. *)
Over(f, g) == [t \in DOMAIN f \cup DOMAIN g |-> IF t \in DOMAIN f THEN f[t] ELSE g[t]]

(* The tables after statement s of the given run. *)
After(s, tables, run) ==
  LET made(x) == [t \in DOMAIN tables \cup s.on |->
                   IF t \in s.on THEN [run |-> run, rows |-> x, refs |-> s.refs] ELSE tables[t]]
      rows == IF \A t \in s.from : tables[t].run = run /\ tables[t].rows = "all"
              THEN "all" ELSE "part"
      filled(x) == [t \in DOMAIN tables |->
                     IF t \in s.on THEN [tables[t] EXCEPT !.rows = x] ELSE tables[t]]
  IN CASE s.op = "drop" -> [t \in DOMAIN tables \ s.on |->
                              [tables[t] EXCEPT !.refs = @ \ s.on]]
       [] s.op = "create" -> made("none")
       [] s.op = "select" -> made(rows)
       [] s.op = "fill" -> filled(rows)
       [] s.op = "draft" -> filled("part")
       [] s.op = "read" -> tables

(* What the first i statements of a part leave: nothing when one of them is *)
(* refused.                                                                 *)
Outcomes(part, tables, run) ==
  LET left[i \in 0..Len(part)] ==
        IF i = 0 THEN {tables}
        ELSE {After(part[i], t, run) : t \in {u \in left[i - 1] : ~ Refused(part[i], u)}}
  IN left[Len(part)]

(* The names a part locks: what it makes, and what it drops and finds. *)
Locks(part, tables) ==
  UNION {IF s.op = "drop" THEN s.on \cap DOMAIN tables ELSE IF Makes(s) THEN s.on ELSE {}
         : s \in Range(part)}

---------------------------------------------------------------------------
(* What the order of the statements has to be; a set of statements stands   *)
(* for those that have been executed.                                       *)

Parts(n) == UNION {Range(Script[q]) : q \in 1..n}
Begun(p, n) == {Script[p][j] : j \in 1..n}

(* The statements before statement i of part p. *)
Before(p, i) == Parts(p - 1) \cup Begun(p, i - 1)

OnBy(S, ops) == UNION {s.on : s \in {r \in S : r.op \in ops}}
DroppedBy(S) == OnBy(S, {"drop"})
MadeBy(S) == OnBy(S, {"create", "select"})
FilledBy(S) == OnBy(S, {"fill", "draft", "select"})
CompleteBy(S) == OnBy(S, {"fill", "select"})

Statement == [op : {"drop", "create", "fill", "select", "draft", "read"},
              on : SUBSET Tables, refs : SUBSET Tables, from : SUBSET Tables]

(* A table is dropped before it is made, made once, filled after the tables *)
(* its rows are computed from and refer to, and never made a draft again.   *)
InOrder(s, done) ==
  /\ s.refs \cup s.from \subseteq MadeBy(done)
  /\ s.op = "drop" => \A r \in done : Makes(r) => s.on \cap (r.on \cup r.refs) = {}
  /\ Makes(s) => s.on \cap MadeBy(done) = {} /\ s.on \subseteq DroppedBy(done)
  /\ s.op \in {"fill", "draft"} =>
       /\ s.on \subseteq MadeBy(done)
       /\ \A r \in done : Makes(r) /\ r.on \cap s.on # {} => r.refs \subseteq FilledBy(done)
  /\ s.op \in {"fill", "select"} => s.from \subseteq CompleteBy(done)
  /\ s.op = "draft" => s.on \cap CompleteBy(done) = {}

(* The seed script can be run from its first statement to its last on any   *)
(* warehouse nobody else changes, and leaves every table finished.          *)
ScriptInOrder ==
  /\ Script \in Seq(Seq(Statement))
  /\ \A p \in DOMAIN Script : \A i \in DOMAIN Script[p] : InOrder(Script[p][i], Before(p, i))
  /\ Tables \subseteq CompleteBy(Statements)

(* What holds of the tables u of a run when the statements of done, and no  *)
(* others, have been executed in it.                                        *)
Rows == {"none", "part", "all"}
Row == [run : Nat, rows : Rows, refs : SUBSET Tables]

Built(u, run, done) ==
  /\ FilledBy(done) \subseteq MadeBy(done)
  /\ MadeBy(done) \subseteq DOMAIN u
  /\ \A t \in MadeBy(done) : u[t] \in Row /\ u[t].run = run
  /\ \A m \in done : Makes(m) => \A t \in m.on : u[t].refs = m.refs
  /\ \A t \in FilledBy(done) : u[t].rows # "none"
  /\ \A t \in CompleteBy(done) : u[t].rows = "all"
===========================================================================
