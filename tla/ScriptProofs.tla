----------------------------- MODULE ScriptProofs -----------------------------
(* The seed script is in order (ScriptInOrder), statement after statement.  *)
(* What statements before a phase of it have dropped, made, filled and      *)
(* finished is carried from phase to phase as four sets of names; a phase   *)
(* fits when each of its statements is in order after these sets and what   *)
(* the statements of the phase before it add to them.                       *)
EXTENDS WarehouseProofs

---------------------------------------------------------------------------
(* The names of the script, in groups that are made or filled together.     *)

Codes == {"dim_date", "dim_region", "dim_brand", "dim_room_type", "dim_guest_segment",
          "dim_channel", "dim_amenity", "dim_promotion"}
Dimensions == Codes \cup {"dim_hotel", "dim_loyalty_members", "dim_corporate_accounts"}
Histories == {"hotel_history", "hotel_rate_history"}
Facts == {"fact_bookings", "fact_occupancy", "fact_revenue", "fact_guest_reviews",
          "fact_competitor_rates", "operational_staff_schedules", "operational_maintenance_logs"}
Aggregates == {"agg_daily_hotel_kpis", "agg_monthly_brand_performance",
               "agg_regional_market_share", "agg_sentiment_trends", "agg_channel_performance",
               "agg_seasonal_patterns"}
CoreNames == Dimensions \cup {"bridge_hotel_amenities", "hotels", "guest_reviews"}
             \cup Histories \cup Facts \cup Aggregates

ReportFacts == {"dim_usali_account", "bridge_hotel_comp_set", "dim_brand_standard",
                "fact_budget_targets", "fact_labor_costs", "fact_food_beverage_outlets",
                "fact_capex_projects"}
Marts == {"rpt_usali_monthly_pl", "rpt_guest_satisfaction_index", "rpt_capex_tracker",
          "rpt_daily_flash"}
Packs == {"rpt_weekly_pace", "rpt_monthly_owner_pack", "rpt_quarterly_business_review"}
ReportNames == ReportFacts \cup Marts \cup Packs

Names == CoreNames \cup ReportNames

\* The tables the rows of a table may refer to.
RefersTo(t) ==
  IF t \in Dimensions \ {"dim_hotel"} THEN {} ELSE
  IF t = "dim_hotel" THEN {"dim_brand", "dim_region"} ELSE
  IF t = "guest_reviews" THEN {"hotels"} ELSE
  IF t = "fact_guest_reviews" THEN Dimensions \cup {"fact_bookings"} ELSE
  IF t = "fact_labor_costs" THEN Dimensions \cup {"dim_usali_account"} ELSE Dimensions

Stated == [op : {"drop", "create", "fill", "select", "draft", "read"},
           on : SUBSET Names, refs : SUBSET Names, from : SUBSET Names]

---------------------------------------------------------------------------
(* Stages: the names dropped, made, filled and finished so far.             *)

Stage(D, M, F, C) == [dropped |-> D, made |-> M, filled |-> F, finished |-> C]

AtStart == Stage({}, {}, {}, {})
CoreDropped == Stage(CoreNames, {}, {}, {})
DimensionsMade == Stage(CoreNames, Dimensions \cup {"bridge_hotel_amenities"}, {}, {})
HotelsMade == Stage(CoreNames, Dimensions \cup {"bridge_hotel_amenities", "hotels"}, {}, {})
HistoriesMade == Stage(CoreNames, CoreNames \ (Facts \cup Aggregates), {}, {})
FactsMade == Stage(CoreNames, CoreNames \ Aggregates, {}, {})
CoreMade == Stage(CoreNames, CoreNames, {}, {})
CodesFilled == Stage(CoreNames, CoreNames, Codes, Codes)
DimensionsFilled == Stage(CoreNames, CoreNames, Dimensions, Dimensions)

\* hotels is filled with placeholders before the facts, and finished last.
HotelsDrafted ==
  LET filled == Dimensions \cup Histories \cup {"bridge_hotel_amenities"}
  IN Stage(CoreNames, CoreNames, filled \cup {"hotels"}, filled)
FactsFilled ==
  LET filled == CoreNames \ Aggregates
  IN Stage(CoreNames, CoreNames, filled, filled \ {"hotels"})

CoreFilled == Stage(CoreNames, CoreNames, CoreNames, CoreNames)
ReportFactsMade == Stage(Names, CoreNames \cup ReportFacts, CoreNames, CoreNames)
ReportFactsFilled ==
  LET names == CoreNames \cup ReportFacts IN Stage(Names, names, names, names)
MartsSelected == LET names == Names \ Packs IN Stage(Names, names, names, names)
AllSelected == Stage(Names, Names, Names, Names)

---------------------------------------------------------------------------
(* Statements in a row.                                                     *)

First(a, n) == {a[j] : j \in 1 .. n}

\* The stage that the statements of S lead to from stage K.
Further(K, S) ==
  Stage(K.dropped \cup DroppedBy(S), K.made \cup MadeBy(S),
        K.filled \cup FilledBy(S), K.finished \cup CompleteBy(S))

\* Statement s is in order at stage K.
Fits(s, K) ==
  /\ s.refs \cup s.from \subseteq K.made
  /\ s.op = "drop" => \A t \in K.made : s.on \cap (RefersTo(t) \cup {t}) = {}
  /\ Makes(s) => /\ s.on # {} /\ s.on \cap K.made = {} /\ s.on \subseteq K.dropped
                 /\ \A t \in s.on : s.refs \subseteq RefersTo(t)
  /\ s.op \in {"fill", "draft"} =>
       s.on \subseteq K.made /\ \A t \in s.on : RefersTo(t) \subseteq K.filled
  /\ s.op \in {"fill", "select"} => s.from \subseteq K.finished
  /\ s.op = "draft" => s.on \cap K.finished = {}

\* Each statement of phase a is in order when it starts at stage K.
AllFit(a, K) ==
  \A i \in DOMAIN a : \E S \in {First(a, i - 1)} : Fits(a[i], Further(K, S))

\* Phase a can start at stage K and ends at stage L.
Leads(a, K, L) ==
  /\ a \in Seq(Stated) /\ AllFit(a, K)
  /\ L.dropped = K.dropped \cup DroppedBy(Range(a)) /\ L.made = K.made \cup MadeBy(Range(a))
  /\ L.filled = K.filled \cup FilledBy(Range(a))
  /\ L.finished = K.finished \cup CompleteBy(Range(a))

\* The statements of done have been executed in the order of the stages up to K.
Reached(done, K) ==
  /\ DroppedBy(done) = K.dropped /\ MadeBy(done) = K.made
  /\ FilledBy(done) = K.filled /\ CompleteBy(done) = K.finished
  /\ \A r \in done : Makes(r) => r.on # {} /\ \A t \in r.on : r.refs \subseteq RefersTo(t)

\* Each statement of a is in order after those of done and those before it in a.
Follows(a, done) == \A i \in DOMAIN a : InOrder(a[i], done \cup First(a, i - 1))

\* Part a can be executed after done, up to stage K.
Goes(a, done, K) == a \in Seq(Stated) /\ Follows(a, done) /\ Reached(done \cup Range(a), K)

LEMMA FurtherReached ==
  ASSUME NEW S, NEW T, NEW K, Reached(S, K),
         \A r \in T : Makes(r) => r.on # {} /\ \A t \in r.on : r.refs \subseteq RefersTo(t)
  PROVE  Reached(S \cup T, Further(K, T))
<1>1. /\ DroppedBy(S \cup T) = DroppedBy(S) \cup DroppedBy(T)
      /\ MadeBy(S \cup T) = MadeBy(S) \cup MadeBy(T)
      /\ FilledBy(S \cup T) = FilledBy(S) \cup FilledBy(T)
      /\ CompleteBy(S \cup T) = CompleteBy(S) \cup CompleteBy(T)
  BY OnByUnion DEF DroppedBy, MadeBy, FilledBy, CompleteBy
<1> QED
  BY <1>1 DEF Reached, Further, Stage

LEMMA FitIsInOrder ==
  ASSUME NEW s, NEW done, NEW K, Reached(done, K), Fits(s, K)
  PROVE  InOrder(s, done)
<1>1. \A r \in done : Makes(r) => r.on # {} /\ r.on \subseteq K.made
  BY OnOfMaker DEF Reached
<1>2. s.op = "drop" => \A r \in done : Makes(r) => s.on \cap (r.on \cup r.refs) = {}
  BY <1>1 DEF Reached, Fits
<1>3. s.op \in {"fill", "draft"} =>
        \A r \in done : Makes(r) /\ r.on \cap s.on # {} => r.refs \subseteq K.filled
  BY DEF Reached, Fits
<1> QED
  BY <1>2, <1>3 DEF Reached, Fits, InOrder

LEMMA RangeOfFirst ==
  ASSUME NEW n \in Nat, NEW a, DOMAIN a = 1 .. n
  PROVE  Range(a) = First(a, n)
BY DEF Range, First

\* A phase that can start at the stage reached can be executed next.
LEMMA PhaseFollows ==
  ASSUME NEW done, NEW K, NEW L, NEW a, Reached(done, K), Leads(a, K, L)
  PROVE  Goes(a, done, L)
<1>1. PICK n \in Nat : DOMAIN a = 1 .. n
  BY DEF Leads
<1>2. \A i \in DOMAIN a : Makes(a[i]) => a[i].on # {} /\ \A t \in a[i].on : a[i].refs \subseteq RefersTo(t)
  BY DEF Leads, AllFit, Fits
<1>3. ASSUME NEW S, \A r \in S : \E j \in DOMAIN a : r = a[j]
      PROVE  Reached(done \cup S, Further(K, S))
  <2>1. \A r \in S : Makes(r) => r.on # {} /\ \A t \in r.on : r.refs \subseteq RefersTo(t)
    BY <1>2, <1>3
  <2> QED
    BY <2>1, FurtherReached
<1>4. ASSUME NEW i \in DOMAIN a PROVE InOrder(a[i], done \cup First(a, i - 1))
  <2>1. PICK S : S = First(a, i - 1)
    OBVIOUS
  <2>2. Fits(a[i], Further(K, S))
    BY <2>1 DEF Leads, AllFit
  <2>3. \A r \in S : \E j \in DOMAIN a : r = a[j]
    BY <1>1, <2>1 DEF First
  <2> QED
    BY <1>3, <2>1, <2>2, <2>3, FitIsInOrder
<1>5. \A r \in Range(a) : \E j \in DOMAIN a : r = a[j]
  BY DEF Range
<1>6. Reached(done \cup Range(a), L)
  <2>1. Reached(done \cup Range(a), Further(K, Range(a)))
    BY <1>3, <1>5
  <2> QED
    BY <2>1 DEF Reached, Further, Stage, Leads
<1> QED
  BY <1>4, <1>6 DEF Goes, Follows, Leads

\* Two phases make a longer one.
LEMMA FollowOn ==
  ASSUME NEW done, NEW a \in Seq(Stated), NEW b \in Seq(Stated),
         Follows(a, done), Follows(b, done \cup Range(a))
  PROVE  /\ a \o b \in Seq(Stated) /\ Follows(a \o b, done)
         /\ Range(a \o b) = Range(a) \cup Range(b)
<1>1. PICK n \in Nat : n = Len(a) /\ DOMAIN a = 1 .. n
  OBVIOUS
<1>2. PICK m \in Nat : m = Len(b) /\ DOMAIN b = 1 .. m
  OBVIOUS
<1> DEFINE c == a \o b
<1>3. /\ DOMAIN c = 1 .. n + m /\ c \in Seq(Stated)
      /\ \A i \in 1 .. n : c[i] = a[i]
      /\ \A i \in 1 .. m : c[n + i] = b[i]
  BY <1>1, <1>2
<1> HIDE DEF c
<1>4. ASSUME NEW i \in 0 .. n PROVE First(c, i) = First(a, i)
  BY <1>3 DEF First
<1>5. ASSUME NEW i \in 0 .. m PROVE First(c, n + i) = First(a, n) \cup First(b, i)
  <2>1. ASSUME NEW j \in 1 .. n + i PROVE c[j] \in First(a, n) \cup First(b, i)
    <3>1. CASE j <= n
      BY <1>3, <3>1 DEF First
    <3>2. CASE ~ j <= n
      <4>1. j - n \in 1 .. i /\ j - n \in 1 .. m /\ n + (j - n) = j
        BY <3>2
      <4> QED
        BY <1>3, <4>1 DEF First
    <3> QED
      BY <3>1, <3>2
  <2>2. ASSUME NEW j \in 1 .. n PROVE a[j] \in First(c, n + i)
    <3>1. j \in 1 .. n + i
      OBVIOUS
    <3> QED
      BY <1>3, <3>1 DEF First
  <2>3. ASSUME NEW j \in 1 .. i PROVE b[j] \in First(c, n + i)
    <3>1. n + j \in 1 .. n + i /\ j \in 1 .. m
      OBVIOUS
    <3> QED
      BY <1>3, <3>1 DEF First
  <2> QED
    BY <2>1, <2>2, <2>3 DEF First
<1>6. Range(c) = Range(a) \cup Range(b) /\ Range(a) = First(a, n)
  <2>1. m \in 0 .. m /\ n + m \in Nat
    OBVIOUS
  <2>2. /\ Range(c) = First(c, n + m) /\ Range(a) = First(a, n) /\ Range(b) = First(b, m)
    BY <1>1, <1>2, <1>3, <2>1, RangeOfFirst
  <2> QED
    BY <1>5, <2>1, <2>2
<1>7. ASSUME NEW i \in DOMAIN c PROVE InOrder(c[i], done \cup First(c, i - 1))
  <2>1. CASE i <= n
    <3>1. i \in 1 .. n /\ i - 1 \in 0 .. n
      BY <1>3, <2>1
    <3>2. c[i] = a[i] /\ First(c, i - 1) = First(a, i - 1)
      BY <1>3, <1>4, <3>1
    <3> QED
      BY <1>1, <3>1, <3>2 DEF Follows
  <2>2. CASE ~ i <= n
    <3>1. PICK j \in 1 .. m : i = n + j /\ j - 1 \in 0 .. m /\ i - 1 = n + (j - 1)
      <4>1. i - n \in 1 .. m /\ i = n + (i - n) /\ (i - n) - 1 \in 0 .. m /\ i - 1 = n + ((i - n) - 1)
        BY <1>3, <2>2
      <4> QED
        BY <4>1
    <3>2. c[i] = b[j] /\ First(c, i - 1) = Range(a) \cup First(b, j - 1)
      BY <1>3, <1>5, <1>6, <3>1
    <3>3. InOrder(b[j], (done \cup Range(a)) \cup First(b, j - 1))
      BY <1>2 DEF Follows
    <3>4. done \cup First(c, i - 1) = (done \cup Range(a)) \cup First(b, j - 1)
      BY <3>2
    <3> QED
      BY <3>2, <3>3, <3>4
  <2> QED
    BY <2>1, <2>2
<1> QED
  BY <1>3, <1>6, <1>7 DEF Follows, c

\* A part goes on with a phase that can start where it ends.
LEMMA GoesOn ==
  ASSUME NEW a, NEW b, NEW done, NEW K, NEW L, Goes(a, done, K), Leads(b, K, L)
  PROVE  Goes(a \o b, done, L)
<1>1. Goes(b, done \cup Range(a), L)
  BY PhaseFollows DEF Goes
<1>2. /\ a \o b \in Seq(Stated) /\ Follows(a \o b, done)
      /\ Range(a \o b) = Range(a) \cup Range(b)
  BY <1>1, FollowOn DEF Goes
<1>3. done \cup Range(a \o b) = (done \cup Range(a)) \cup Range(b)
  BY <1>2
<1> QED
  BY <1>1, <1>2, <1>3 DEF Goes

---------------------------------------------------------------------------
(* The phases.                                                             *)

USE DEF Step, Codes, Dimensions, Histories, Facts, Aggregates, CoreNames,
        ReportFacts, Marts, Packs, ReportNames, Names,
        DroppedBy, MadeBy, FilledBy, CompleteBy, OnBy

FactFill(t) == Fill(t, {"dim_hotel", "dim_region"})

LEMMA FactStatements == FactRows =
  <<Read({"dim_hotel", "dim_region"}), FactFill("fact_occupancy"), FactFill("fact_revenue"),
    FactFill("fact_competitor_rates"), FactFill("operational_staff_schedules"),
    FactFill("operational_maintenance_logs"), FactFill("fact_bookings"),
    FactFill("guest_reviews"), Fill("fact_guest_reviews", {"fact_bookings"})>>
<1>1. DOMAIN FactRows = 1 .. 9
  BY DEF FactRows
<1>2. /\ FactRows[1] = Read({"dim_hotel", "dim_region"})
      /\ FactRows[2] = FactFill("fact_occupancy") /\ FactRows[3] = FactFill("fact_revenue")
      /\ FactRows[4] = FactFill("fact_competitor_rates")
      /\ FactRows[5] = FactFill("operational_staff_schedules")
      /\ FactRows[6] = FactFill("operational_maintenance_logs")
      /\ FactRows[7] = FactFill("fact_bookings") /\ FactRows[8] = FactFill("guest_reviews")
      /\ FactRows[9] = Fill("fact_guest_reviews", {"fact_bookings"})
  BY DEF FactRows, FactFill
<1>3. \A i \in 1 .. 9 : FactRows[i] \in Stated
  BY <1>2 DEF FactFill, Fill, Read, Stated
<1>4. FactRows \in Seq(Stated)
  BY <1>1, <1>3 DEF FactRows
<1> QED
  BY <1>1, <1>2, <1>4

HotelTable == <<New("hotels", {"dim_hotel"})>>
HistoryTables == <<New("guest_reviews", {"hotels"}),
                   New("hotel_history", {"dim_hotel", "dim_brand"}),
                   New("hotel_rate_history", {"dim_hotel", "dim_room_type"})>>

LEMMA HotelStatements == <<Head(HotelTables)>> = HotelTable /\ Tail(HotelTables) = HistoryTables
BY DEF HotelTables, HotelTable, HistoryTables

LEMMA DropCoreLead == Leads(DropCore, AtStart, CoreDropped)
<1>1. \A i \in 1 .. 1 : DropCore[i] \in Stated
  BY DEF DropCore, Drop, Stated
<1>2. DropCore \in Seq(Stated)
  BY <1>1 DEF DropCore, Drop
<1>3. AllFit(DropCore, AtStart)
  BY DEF AllFit, Fits, Further, First, Makes, RefersTo, AtStart, Stage, DropCore, Drop
<1>4. /\ CoreDropped.dropped = AtStart.dropped \cup DroppedBy(Range(DropCore))
      /\ CoreDropped.made = AtStart.made \cup MadeBy(Range(DropCore))
      /\ CoreDropped.filled = AtStart.filled \cup FilledBy(Range(DropCore))
      /\ CoreDropped.finished = AtStart.finished \cup CompleteBy(Range(DropCore))
  BY DEF Range, AtStart, CoreDropped, Stage, DropCore, Drop
<1> QED
  BY <1>2, <1>3, <1>4 DEF Leads

LEMMA DimensionTablesLead == Leads(DimensionTables, CoreDropped, DimensionsMade)
<1>1. \A i \in 1 .. 12 : DimensionTables[i] \in Stated
  BY DEF DimensionTables, New, Stated
<1>2. DimensionTables \in Seq(Stated)
  BY <1>1 DEF DimensionTables, New
<1>3. AllFit(DimensionTables, CoreDropped)
  BY DEF AllFit, Fits, Further, First, Makes, RefersTo, CoreDropped, Stage, DimensionTables, New
<1>4. /\ DimensionsMade.dropped = CoreDropped.dropped \cup DroppedBy(Range(DimensionTables))
      /\ DimensionsMade.made = CoreDropped.made \cup MadeBy(Range(DimensionTables))
      /\ DimensionsMade.filled = CoreDropped.filled \cup FilledBy(Range(DimensionTables))
      /\ DimensionsMade.finished = CoreDropped.finished \cup CompleteBy(Range(DimensionTables))
  BY DEF Range, CoreDropped, DimensionsMade, Stage, DimensionTables, New
<1> QED
  BY <1>2, <1>3, <1>4 DEF Leads

LEMMA HotelTableLead == Leads(HotelTable, DimensionsMade, HotelsMade)
<1>1. \A i \in 1 .. 1 : HotelTable[i] \in Stated
  BY DEF HotelTable, New, Stated
<1>2. HotelTable \in Seq(Stated)
  BY <1>1 DEF HotelTable, New
<1>3. AllFit(HotelTable, DimensionsMade)
  BY DEF AllFit, Fits, Further, First, Makes, RefersTo, DimensionsMade, Stage, HotelTable, New
<1>4. /\ HotelsMade.dropped = DimensionsMade.dropped \cup DroppedBy(Range(HotelTable))
      /\ HotelsMade.made = DimensionsMade.made \cup MadeBy(Range(HotelTable))
      /\ HotelsMade.filled = DimensionsMade.filled \cup FilledBy(Range(HotelTable))
      /\ HotelsMade.finished = DimensionsMade.finished \cup CompleteBy(Range(HotelTable))
  BY DEF Range, DimensionsMade, HotelsMade, Stage, HotelTable, New
<1> QED
  BY <1>2, <1>3, <1>4 DEF Leads

LEMMA HistoryTablesLead == Leads(HistoryTables, HotelsMade, HistoriesMade)
<1>1. \A i \in 1 .. 3 : HistoryTables[i] \in Stated
  BY DEF HistoryTables, New, Stated
<1>2. HistoryTables \in Seq(Stated)
  BY <1>1 DEF HistoryTables, New
<1>3. AllFit(HistoryTables, HotelsMade)
  BY DEF AllFit, Fits, Further, First, Makes, RefersTo, HotelsMade, Stage, HistoryTables, New
<1>4. /\ HistoriesMade.dropped = HotelsMade.dropped \cup DroppedBy(Range(HistoryTables))
      /\ HistoriesMade.made = HotelsMade.made \cup MadeBy(Range(HistoryTables))
      /\ HistoriesMade.filled = HotelsMade.filled \cup FilledBy(Range(HistoryTables))
      /\ HistoriesMade.finished = HotelsMade.finished \cup CompleteBy(Range(HistoryTables))
  BY DEF Range, HotelsMade, HistoriesMade, Stage, HistoryTables, New
<1> QED
  BY <1>2, <1>3, <1>4 DEF Leads

LEMMA FactTablesLead == Leads(FactTables, HistoriesMade, FactsMade)
<1>1. \A i \in 1 .. 7 : FactTables[i] \in Stated
  BY DEF FactTables, New, HotelDay, Stated
<1>2. FactTables \in Seq(Stated)
  BY <1>1 DEF FactTables, New, HotelDay
<1>3. AllFit(FactTables, HistoriesMade)
  BY DEF AllFit, Fits, Further, First, Makes, RefersTo, HistoriesMade, Stage, FactTables, New, HotelDay
<1>4. /\ FactsMade.dropped = HistoriesMade.dropped \cup DroppedBy(Range(FactTables))
      /\ FactsMade.made = HistoriesMade.made \cup MadeBy(Range(FactTables))
      /\ FactsMade.filled = HistoriesMade.filled \cup FilledBy(Range(FactTables))
      /\ FactsMade.finished = HistoriesMade.finished \cup CompleteBy(Range(FactTables))
  BY DEF Range, HistoriesMade, FactsMade, Stage, FactTables, New, HotelDay
<1> QED
  BY <1>2, <1>3, <1>4 DEF Leads

LEMMA AggregateTablesLead == Leads(AggregateTables, FactsMade, CoreMade)
<1>1. \A i \in 1 .. 6 : AggregateTables[i] \in Stated
  BY DEF AggregateTables, New, HotelDay, Stated
<1>2. AggregateTables \in Seq(Stated)
  BY <1>1 DEF AggregateTables, New, HotelDay
<1>3. AllFit(AggregateTables, FactsMade)
  BY DEF AllFit, Fits, Further, First, Makes, RefersTo, FactsMade, Stage, AggregateTables, New, HotelDay
<1>4. /\ CoreMade.dropped = FactsMade.dropped \cup DroppedBy(Range(AggregateTables))
      /\ CoreMade.made = FactsMade.made \cup MadeBy(Range(AggregateTables))
      /\ CoreMade.filled = FactsMade.filled \cup FilledBy(Range(AggregateTables))
      /\ CoreMade.finished = FactsMade.finished \cup CompleteBy(Range(AggregateTables))
  BY DEF Range, FactsMade, CoreMade, Stage, AggregateTables, New, HotelDay
<1> QED
  BY <1>2, <1>3, <1>4 DEF Leads

LEMMA DimensionRowsLead == Leads(DimensionRows, CoreMade, CodesFilled)
<1>1. \A i \in 1 .. 8 : DimensionRows[i] \in Stated
  BY DEF DimensionRows, Fill, Stated
<1>2. DimensionRows \in Seq(Stated)
  BY <1>1 DEF DimensionRows, Fill
<1>3. AllFit(DimensionRows, CoreMade)
  BY DEF AllFit, Fits, Further, First, Makes, RefersTo, CoreMade, Stage, DimensionRows, Fill
<1>4. /\ CodesFilled.dropped = CoreMade.dropped \cup DroppedBy(Range(DimensionRows))
      /\ CodesFilled.made = CoreMade.made \cup MadeBy(Range(DimensionRows))
      /\ CodesFilled.filled = CoreMade.filled \cup FilledBy(Range(DimensionRows))
      /\ CodesFilled.finished = CoreMade.finished \cup CompleteBy(Range(DimensionRows))
  BY DEF Range, CoreMade, CodesFilled, Stage, DimensionRows, Fill
<1> QED
  BY <1>2, <1>3, <1>4 DEF Leads

LEMMA HotelDimensionRowsLead == Leads(HotelDimensionRows, CodesFilled, DimensionsFilled)
<1>1. \A i \in 1 .. 4 : HotelDimensionRows[i] \in Stated
  BY DEF HotelDimensionRows, Fill, Read, Stated
<1>2. HotelDimensionRows \in Seq(Stated)
  BY <1>1 DEF HotelDimensionRows, Fill, Read
<1>3. AllFit(HotelDimensionRows, CodesFilled)
  BY DEF AllFit, Fits, Further, First, Makes, RefersTo, CodesFilled, Stage, HotelDimensionRows, Fill, Read
<1>4. /\ DimensionsFilled.dropped = CodesFilled.dropped \cup DroppedBy(Range(HotelDimensionRows))
      /\ DimensionsFilled.made = CodesFilled.made \cup MadeBy(Range(HotelDimensionRows))
      /\ DimensionsFilled.filled = CodesFilled.filled \cup FilledBy(Range(HotelDimensionRows))
      /\ DimensionsFilled.finished = CodesFilled.finished \cup CompleteBy(Range(HotelDimensionRows))
  BY DEF Range, CodesFilled, DimensionsFilled, Stage, HotelDimensionRows, Fill, Read
<1> QED
  BY <1>2, <1>3, <1>4 DEF Leads

LEMMA HotelRowsLead == Leads(HotelRows, DimensionsFilled, HotelsDrafted)
<1>1. \A i \in 1 .. 4 : HotelRows[i] \in Stated
  BY DEF HotelRows, Fill, Draft, Stated
<1>2. HotelRows \in Seq(Stated)
  BY <1>1 DEF HotelRows, Fill, Draft
<1>3. AllFit(HotelRows, DimensionsFilled)
  BY DEF AllFit, Fits, Further, First, Makes, RefersTo, DimensionsFilled, Stage, HotelRows, Fill, Draft
<1>4. /\ HotelsDrafted.dropped = DimensionsFilled.dropped \cup DroppedBy(Range(HotelRows))
      /\ HotelsDrafted.made = DimensionsFilled.made \cup MadeBy(Range(HotelRows))
      /\ HotelsDrafted.filled = DimensionsFilled.filled \cup FilledBy(Range(HotelRows))
      /\ HotelsDrafted.finished = DimensionsFilled.finished \cup CompleteBy(Range(HotelRows))
  BY DEF Range, DimensionsFilled, HotelsDrafted, Stage, HotelRows, Fill, Draft
<1> QED
  BY <1>2, <1>3, <1>4 DEF Leads

LEMMA FactRowsLead == Leads(FactRows, HotelsDrafted, FactsFilled)
<1>1. \A i \in 1 .. 9 : FactRows[i] \in Stated
  BY FactStatements DEF FactFill, Fill, Read, Stated
<1>2. FactRows \in Seq(Stated)
  BY <1>1, FactStatements DEF FactFill, Fill, Read
<1>3. AllFit(FactRows, HotelsDrafted)
  BY FactStatements DEF AllFit, Fits, Further, First, Makes, RefersTo, HotelsDrafted, Stage, FactFill, Fill, Read
<1>4. /\ FactsFilled.dropped = HotelsDrafted.dropped \cup DroppedBy(Range(FactRows))
      /\ FactsFilled.made = HotelsDrafted.made \cup MadeBy(Range(FactRows))
      /\ FactsFilled.filled = HotelsDrafted.filled \cup FilledBy(Range(FactRows))
      /\ FactsFilled.finished = HotelsDrafted.finished \cup CompleteBy(Range(FactRows))
  BY FactStatements DEF Range, HotelsDrafted, FactsFilled, Stage, FactFill, Fill, Read
<1> QED
  BY <1>2, <1>3, <1>4 DEF Leads

LEMMA AggregateRowsLead == Leads(AggregateRows, FactsFilled, CoreFilled)
<1>1. \A i \in 1 .. 7 : AggregateRows[i] \in Stated
  BY DEF AggregateRows, Fill, Stated
<1>2. AggregateRows \in Seq(Stated)
  BY <1>1 DEF AggregateRows, Fill
<1>3. AllFit(AggregateRows, FactsFilled)
  BY DEF AllFit, Fits, Further, First, Makes, RefersTo, FactsFilled, Stage, AggregateRows, Fill
<1>4. /\ CoreFilled.dropped = FactsFilled.dropped \cup DroppedBy(Range(AggregateRows))
      /\ CoreFilled.made = FactsFilled.made \cup MadeBy(Range(AggregateRows))
      /\ CoreFilled.filled = FactsFilled.filled \cup FilledBy(Range(AggregateRows))
      /\ CoreFilled.finished = FactsFilled.finished \cup CompleteBy(Range(AggregateRows))
  BY DEF Range, FactsFilled, CoreFilled, Stage, AggregateRows, Fill
<1> QED
  BY <1>2, <1>3, <1>4 DEF Leads

LEMMA ReportTablesLead == Leads(ReportTables, CoreFilled, ReportFactsMade)
<1>1. \A i \in 1 .. 8 : ReportTables[i] \in Stated
  BY DEF ReportTables, Drop, New, HotelDay, Stated
<1>2. ReportTables \in Seq(Stated)
  BY <1>1 DEF ReportTables, Drop, New, HotelDay
<1>3. AllFit(ReportTables, CoreFilled)
  BY DEF AllFit, Fits, Further, First, Makes, RefersTo, CoreFilled, Stage, ReportTables, Drop, New, HotelDay
<1>4. /\ ReportFactsMade.dropped = CoreFilled.dropped \cup DroppedBy(Range(ReportTables))
      /\ ReportFactsMade.made = CoreFilled.made \cup MadeBy(Range(ReportTables))
      /\ ReportFactsMade.filled = CoreFilled.filled \cup FilledBy(Range(ReportTables))
      /\ ReportFactsMade.finished = CoreFilled.finished \cup CompleteBy(Range(ReportTables))
  BY DEF Range, CoreFilled, ReportFactsMade, Stage, ReportTables, Drop, New, HotelDay
<1> QED
  BY <1>2, <1>3, <1>4 DEF Leads

LEMMA ReportRowsLead == Leads(ReportRows, ReportFactsMade, ReportFactsFilled)
<1>1. \A i \in 1 .. 7 : ReportRows[i] \in Stated
  BY DEF ReportRows, Fill, Stated
<1>2. ReportRows \in Seq(Stated)
  BY <1>1 DEF ReportRows, Fill
<1>3. AllFit(ReportRows, ReportFactsMade)
  BY DEF AllFit, Fits, Further, First, Makes, RefersTo, ReportFactsMade, Stage, ReportRows, Fill
<1>4. /\ ReportFactsFilled.dropped = ReportFactsMade.dropped \cup DroppedBy(Range(ReportRows))
      /\ ReportFactsFilled.made = ReportFactsMade.made \cup MadeBy(Range(ReportRows))
      /\ ReportFactsFilled.filled = ReportFactsMade.filled \cup FilledBy(Range(ReportRows))
      /\ ReportFactsFilled.finished = ReportFactsMade.finished \cup CompleteBy(Range(ReportRows))
  BY DEF Range, ReportFactsMade, ReportFactsFilled, Stage, ReportRows, Fill
<1> QED
  BY <1>2, <1>3, <1>4 DEF Leads

LEMMA MonthlyMartsLead == Leads(MonthlyMarts, ReportFactsFilled, MartsSelected)
<1>1. \A i \in 1 .. 4 : MonthlyMarts[i] \in Stated
  BY DEF MonthlyMarts, Select, Named, Stated
<1>2. MonthlyMarts \in Seq(Stated)
  BY <1>1 DEF MonthlyMarts, Select, Named
<1>3. AllFit(MonthlyMarts, ReportFactsFilled)
  BY DEF AllFit, Fits, Further, First, Makes, RefersTo, ReportFactsFilled, Stage, MonthlyMarts, Select, Named
<1>4. /\ MartsSelected.dropped = ReportFactsFilled.dropped \cup DroppedBy(Range(MonthlyMarts))
      /\ MartsSelected.made = ReportFactsFilled.made \cup MadeBy(Range(MonthlyMarts))
      /\ MartsSelected.filled = ReportFactsFilled.filled \cup FilledBy(Range(MonthlyMarts))
      /\ MartsSelected.finished = ReportFactsFilled.finished \cup CompleteBy(Range(MonthlyMarts))
  BY DEF Range, ReportFactsFilled, MartsSelected, Stage, MonthlyMarts, Select, Named
<1> QED
  BY <1>2, <1>3, <1>4 DEF Leads

LEMMA PackMartsLead == Leads(PackMarts, MartsSelected, AllSelected)
<1>1. \A i \in 1 .. 3 : PackMarts[i] \in Stated
  BY DEF PackMarts, Select, Named, Stated
<1>2. PackMarts \in Seq(Stated)
  BY <1>1 DEF PackMarts, Select, Named
<1>3. AllFit(PackMarts, MartsSelected)
  BY DEF AllFit, Fits, Further, First, Makes, RefersTo, MartsSelected, Stage, PackMarts, Select, Named
<1>4. /\ AllSelected.dropped = MartsSelected.dropped \cup DroppedBy(Range(PackMarts))
      /\ AllSelected.made = MartsSelected.made \cup MadeBy(Range(PackMarts))
      /\ AllSelected.filled = MartsSelected.filled \cup FilledBy(Range(PackMarts))
      /\ AllSelected.finished = MartsSelected.finished \cup CompleteBy(Range(PackMarts))
  BY DEF Range, MartsSelected, AllSelected, Stage, PackMarts, Select, Named
<1> QED
  BY <1>2, <1>3, <1>4 DEF Leads

LEMMA IndexesAndCountsLead == Leads(IndexesAndCounts, AllSelected, AllSelected)
<1>1. \A i \in 1 .. 2 : IndexesAndCounts[i] \in Stated
  BY DEF IndexesAndCounts, Read, Stated
<1>2. IndexesAndCounts \in Seq(Stated)
  BY <1>1 DEF IndexesAndCounts, Read
<1>3. AllFit(IndexesAndCounts, AllSelected)
  BY DEF AllFit, Fits, Further, First, Makes, RefersTo, AllSelected, Stage, IndexesAndCounts, Read
<1>4. /\ AllSelected.dropped = AllSelected.dropped \cup DroppedBy(Range(IndexesAndCounts))
      /\ AllSelected.made = AllSelected.made \cup MadeBy(Range(IndexesAndCounts))
      /\ AllSelected.filled = AllSelected.filled \cup FilledBy(Range(IndexesAndCounts))
      /\ AllSelected.finished = AllSelected.finished \cup CompleteBy(Range(IndexesAndCounts))
  BY DEF Range, AllSelected, Stage, IndexesAndCounts, Read
<1> QED
  BY <1>2, <1>3, <1>4 DEF Leads

HIDE DEF Step, Codes, Dimensions, Histories, Facts, Aggregates, CoreNames,
         ReportFacts, Marts, Packs, ReportNames, Names,
         DroppedBy, MadeBy, FilledBy, CompleteBy, OnBy

---------------------------------------------------------------------------
(* The parts and the whole.                                                *)

LEMMA PartOneGoes == Goes(Script[1], Parts(0), DimensionsMade)
<1>1. Reached({}, AtStart)
  BY DEF Reached, AtStart, Stage, DroppedBy, MadeBy, FilledBy, CompleteBy, OnBy
<1>2. Goes(DropCore, {}, CoreDropped)
  BY <1>1, DropCoreLead, PhaseFollows
<1>3. Goes(DropCore \o DimensionTables, {}, DimensionsMade)
  BY <1>2, DimensionTablesLead, GoesOn
<1>4. Parts(0) = {} /\ Script[1] = DropCore \o DimensionTables
  BY DEF Parts, Script
<1> QED
  BY <1>3, <1>4

LEMMA PartTwoGoes ==
  ASSUME NEW done, Reached(done, DimensionsMade)
  PROVE  Goes(Script[2], done, HotelsMade)
<1>1. Script[2] = HotelTable
  BY HotelStatements DEF Script
<1> QED
  BY <1>1, HotelTableLead, PhaseFollows

LEMMA PartThreeGoes ==
  ASSUME NEW done, Reached(done, HotelsMade)
  PROVE  Goes(Script[3], done, CoreFilled)
<1> DEFINE made == HistoryTables \o FactTables \o AggregateTables
           filled == made \o DimensionRows \o HotelDimensionRows \o HotelRows
<1>1. Goes(HistoryTables, done, HistoriesMade)
  BY HistoryTablesLead, PhaseFollows
<1>2. Goes(HistoryTables \o FactTables, done, FactsMade)
  BY <1>1, FactTablesLead, GoesOn
<1>3. Goes(made, done, CoreMade)
  BY <1>2, AggregateTablesLead, GoesOn
<1> HIDE DEF made
<1>4. Goes(made \o DimensionRows, done, CodesFilled)
  BY <1>3, DimensionRowsLead, GoesOn
<1>5. Goes(made \o DimensionRows \o HotelDimensionRows, done, DimensionsFilled)
  BY <1>4, HotelDimensionRowsLead, GoesOn
<1>6. Goes(filled, done, HotelsDrafted)
  BY <1>5, HotelRowsLead, GoesOn
<1> HIDE DEF filled
<1>7. Goes(filled \o FactRows, done, FactsFilled)
  BY <1>6, FactRowsLead, GoesOn
<1>8. Goes(filled \o FactRows \o AggregateRows, done, CoreFilled)
  BY <1>7, AggregateRowsLead, GoesOn
<1>9. Script[3] = filled \o FactRows \o AggregateRows
  BY HotelStatements DEF Script, made, filled
<1> QED
  BY <1>8, <1>9

LEMMA PartFourGoes ==
  ASSUME NEW done, Reached(done, CoreFilled)
  PROVE  Goes(Script[4], done, AllSelected)
<1>1. Goes(ReportTables, done, ReportFactsMade)
  BY ReportTablesLead, PhaseFollows
<1>2. Goes(ReportTables \o ReportRows, done, ReportFactsFilled)
  BY <1>1, ReportRowsLead, GoesOn
<1>3. Goes(ReportTables \o ReportRows \o MonthlyMarts, done, MartsSelected)
  BY <1>2, MonthlyMartsLead, GoesOn
<1>4. Goes(ReportTables \o ReportRows \o MonthlyMarts \o PackMarts, done, AllSelected)
  BY <1>3, PackMartsLead, GoesOn
<1>5. Goes(ReportTables \o ReportRows \o MonthlyMarts \o PackMarts \o IndexesAndCounts,
           done, AllSelected)
  BY <1>4, IndexesAndCountsLead, GoesOn
<1>6. Script[4] = ReportTables \o ReportRows \o MonthlyMarts \o PackMarts \o IndexesAndCounts
  BY DEF Script
<1> QED
  BY <1>5, <1>6

\* Every part can be executed after the parts before it.
LEMMA PartsGo ==
  /\ DOMAIN Script = 1 .. 4
  /\ \A p \in 1 .. 4 : Script[p] \in Seq(Stated) /\ Follows(Script[p], Parts(p - 1))
  /\ Reached(Parts(4), AllSelected)
<1>1. DOMAIN Script = 1 .. 4
  BY DEF Script
<1>2. /\ Parts(1) = Parts(0) \cup Range(Script[1]) /\ Parts(2) = Parts(1) \cup Range(Script[2])
      /\ Parts(3) = Parts(2) \cup Range(Script[3]) /\ Parts(4) = Parts(3) \cup Range(Script[4])
  <2>1. Parts(0 + 1) = Parts(0) \cup Range(Script[0 + 1])
    BY PartsBefore
  <2>2. Parts(1 + 1) = Parts(1) \cup Range(Script[1 + 1])
    BY PartsBefore
  <2>3. Parts(2 + 1) = Parts(2) \cup Range(Script[2 + 1])
    BY PartsBefore
  <2>4. Parts(3 + 1) = Parts(3) \cup Range(Script[3 + 1])
    BY PartsBefore
  <2>5. 0 + 1 = 1 /\ 1 + 1 = 2 /\ 2 + 1 = 3 /\ 3 + 1 = 4
    OBVIOUS
  <2> QED
    BY <2>1, <2>2, <2>3, <2>4, <2>5
<1>3. Goes(Script[1], Parts(0), DimensionsMade)
  BY PartOneGoes
<1>4. Goes(Script[2], Parts(1), HotelsMade)
  BY <1>2, <1>3, PartTwoGoes DEF Goes
<1>5. Goes(Script[3], Parts(2), CoreFilled)
  BY <1>2, <1>4, PartThreeGoes DEF Goes
<1>6. Goes(Script[4], Parts(3), AllSelected)
  BY <1>2, <1>5, PartFourGoes DEF Goes
<1>7. \A p \in 1 .. 4 : Script[p] \in Seq(Stated) /\ Follows(Script[p], Parts(p - 1))
  <2>1. \A p \in 1 .. 4 : p = 1 \/ p = 2 \/ p = 3 \/ p = 4
    OBVIOUS
  <2>2. 1 - 1 = 0 /\ 2 - 1 = 1 /\ 3 - 1 = 2 /\ 4 - 1 = 3
    OBVIOUS
  <2> QED
    BY <1>3, <1>4, <1>5, <1>6, <2>1, <2>2 DEF Goes
<1> QED
  BY <1>1, <1>2, <1>6, <1>7 DEF Goes

\* The names are those of the tables the script makes, and all are finished.
LEMMA NamesAreTables == Tables = Names /\ CompleteBy(Statements) = Names /\ Stated = Statement
<1>1. Statements = Parts(4)
  <2>1. Range(Script) = {Script[q] : q \in 1 .. 4}
    BY PartsGo DEF Range
  <2> QED
    BY <2>1 DEF Statements, Parts
<1>2. MadeBy(Statements) = Names /\ CompleteBy(Statements) = Names
  BY <1>1, PartsGo DEF Reached, AllSelected, Stage
<1>3. Tables = MadeBy(Statements)
  BY DEF Tables, MadeBy, OnBy, Makes
<1> QED
  BY <1>2, <1>3 DEF Stated, Statement

\* Every statement of seed_hotels.py names only what those before it have made and
\* finished, and the script leaves every table with all of its rows.
THEOREM ScriptIsInOrder == ScriptInOrder
<1>1. Script \in Seq(Seq(Statement))
  <2>1. \A p \in 1 .. 4 : Script[p] \in Seq(Statement)
    BY PartsGo, NamesAreTables
  <2> QED
    BY <2>1, PartsGo DEF Script
<1>2. ASSUME NEW p \in DOMAIN Script, NEW i \in DOMAIN Script[p]
      PROVE  InOrder(Script[p][i], Before(p, i))
  <2>1. InOrder(Script[p][i], Parts(p - 1) \cup First(Script[p], i - 1))
    BY PartsGo DEF Follows
  <2> QED
    BY <2>1 DEF Before, Begun, First
<1>3. Tables \subseteq CompleteBy(Statements)
  BY NamesAreTables
<1> QED
  BY <1>1, <1>2, <1>3 DEF ScriptInOrder
==============================================================================
