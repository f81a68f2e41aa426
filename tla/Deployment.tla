---------------------------- MODULE Deployment ----------------------------
(* A deployment around one PostgreSQL database: the seed job runs the script *)
(* of module Warehouse in one transaction and is run again when it fails;    *)
(* application replicas start, make the tables their ORM knows when those    *)
(* are missing, open their persistence, serve pages and shut down; a page    *)
(* reads its tables one query at a time.  From the database the model takes  *)
(* read-committed transactions and the locks of CREATE and DROP TABLE.       *)
EXTENDS Warehouse

CONSTANTS
  Replicas,     \* processes of the FastAPI application
  Leavers,      \* bound: the replicas that are shut down
  Visits,       \* page requests
  Rounds,       \* bound: how often an operator starts the seed job
  Attempts,     \* tries of one job: infra/k8s/jobs/seed-job.yml, backoffLimit + 1
  AutoCreate,   \* the auto_create_tables flag the replicas run with
  MaxFaults     \* bound: statements, connections or processes that break

ASSUME DeploymentAssumption ==
  /\ Rounds \in Nat \ {0} /\ Attempts \in Nat \ {0} /\ MaxFaults \in Nat
  /\ AutoCreate \in BOOLEAN /\ Leavers \subseteq Replicas

VARIABLES
  db,           \* the committed tables
  job,          \* the seed job: its state, round, part of the script and tries left
  held,         \* the names its transaction holds
  own,          \* the tables it has made of them
  replica,      \* each replica: where it is, how many resources it has open,
                \* tables missing and made
  visit,        \* each visit: the page, what it has shown, how it ended
  faults        \* faults so far

seed == <<job, held, own>>
vars == <<db, seed, replica, visit, faults>>

(* Mutant: create_all makes its tables in the order of their names. *)
BugOrmByName == <<"guest_reviews", "hotels">>

(* The tables of orm_models.py in the order create_all makes them. *)
OrmTables == <<"hotels", "guest_reviews">>

OrmTable(t) == [run |-> 0, rows |-> "none",
                refs |-> IF t = "guest_reviews" THEN {"hotels"} ELSE {}]

(* The application's resources in the order build_container opens them. *)
Resources == <<"engine", "checkpointer", "store">>

(* The pages and the tables their queries read, one after the other. *)
ReportPages == <<"rpt_daily_flash", "rpt_weekly_pace", "rpt_monthly_owner_pack",
                 "rpt_quarterly_business_review">>
Pages == [
  summary |-> <<"hotels", "hotels", "hotels", "hotels">>,
  hotels  |-> <<"hotels">>,
  reviews |-> <<"guest_reviews">>,
  flash   |-> <<"rpt_daily_flash">>,
  index   |-> ReportPages]

Nothing == [t \in {} |-> {}]

Off == [pc |-> "off", open |-> 0, missing |-> {}, made |-> {}]

Init ==
  /\ db = Nothing
  /\ job = [pc |-> "idle", round |-> 0, at |-> 1, left |-> 0]
  /\ held = {} /\ own = Nothing
  /\ replica = [r \in Replicas |-> Off]
  /\ visit = [v \in Visits |-> [pc |-> "none", page |-> "", shown |-> <<>>]]
  /\ faults = 0

---------------------------------------------------------------------------
(* The seed job *)

(* The database as the job's transaction sees it. *)
View == Over(own, Restrict(db, DOMAIN db \ held))

(* Its tables, for sessions that would read or make them: they wait. *)
Held(t) == t \in held

StartSeed ==
  /\ job.pc # "running" /\ job.round < Rounds
  /\ job' = [pc |-> "running", round |-> job.round + 1, at |-> 1, left |-> Attempts]
  /\ UNCHANGED <<db, held, own, replica, visit, faults>>

(* The next part of the script.  It waits for a replica that has made, and *)
(* not committed, one of the tables it drops or makes.                     *)
Part == Script[job.at]
Ready == /\ job.pc = "running" /\ job.at <= Len(Script)
         /\ \A r \in Replicas : Locks(Part, View) \cap replica[r].made = {}

Commit ==
  /\ job.pc = "running" /\ job.at > Len(Script)
  /\ db' = View
  /\ job' = [job EXCEPT !.pc = "done"]
  /\ held' = {} /\ own' = Nothing
  /\ UNCHANGED <<replica, visit, faults>>

Retry == job' = [job EXCEPT !.pc = IF job.left > 1 THEN "running" ELSE "failed",
                            !.left = @ - 1, !.at = 1]

(* Mutant: the transaction of a job that is given up stays open. *)
BugKeepLocks ==
  Retry /\ held' = (IF job.left > 1 THEN {} ELSE held) /\ own' = Nothing

(* The transaction is rolled back; the job tries again while it may. *)
Abort == Retry /\ held' = {} /\ own' = Nothing

(* Mutant: every part of the script is a transaction of its own. *)
BugCommitParts ==
  /\ Ready
  /\ \E left \in {Outcomes(Part, View, job.round)} :
       \/ left = {} /\ Abort /\ UNCHANGED db
       \/ \E tables \in left :
            db' = tables /\ job' = [job EXCEPT !.at = @ + 1] /\ UNCHANGED <<held, own>>
  /\ UNCHANGED <<replica, visit, faults>>

Execute ==
  /\ Ready /\ UNCHANGED <<db, replica, visit, faults>>
  /\ \E view \in {View} : \E left \in {Outcomes(Part, view, job.round)} :
       \/ left = {} /\ Abort
       \/ \E tables \in left :
            /\ held' = held \cup Locks(Part, view)
            /\ own' = Restrict(tables, held' \cap DOMAIN tables)
            /\ job' = [job EXCEPT !.at = @ + 1]

BreakSeed ==
  /\ job.pc = "running" /\ faults < MaxFaults
  /\ Abort /\ faults' = faults + 1
  /\ UNCHANGED <<db, replica, visit>>

Seeding == Execute \/ Commit

---------------------------------------------------------------------------
(* A replica: build_container, then the shutdown of its container *)

GoTo(r, pc) == replica' = [replica EXCEPT ![r].pc = pc]

OpenEngine(r) ==
  /\ replica[r].pc = "off"
  /\ replica' = [replica EXCEPT ![r].pc = IF AutoCreate THEN "checking" ELSE "opening",
                                ![r].open = 1]
  /\ UNCHANGED <<db, seed, visit, faults>>

(* Mutant: the tables are made without looking for them. *)
BugNoCheck(r) ==
  /\ replica[r].pc = "checking"
  /\ replica' = [replica EXCEPT ![r].pc = "creating", ![r].missing = Range(OrmTables)]
  /\ UNCHANGED <<db, seed, visit, faults>>

(* create_all looks for all of its tables before it makes the missing ones. *)
CheckTables(r) ==
  /\ replica[r].pc = "checking"
  /\ replica' = [replica EXCEPT ![r].pc = "creating",
                               ![r].missing = Range(OrmTables) \ DOMAIN db]
  /\ UNCHANGED <<db, seed, visit, faults>>

(* It makes the next one, unless the name is taken by now: then the start fails. *)
CreateTable(r) ==
  /\ replica[r].pc = "creating"
  /\ \E i \in DOMAIN OrmTables : \E t \in {OrmTables[i]} :
       /\ t \in replica[r].missing /\ \A j \in 1..i - 1 : OrmTables[j] \notin replica[r].missing
       /\ ~ Held(t) /\ \A o \in Replicas \ {r} : t \notin replica[o].made
       /\ \/ /\ t \in DOMAIN db
             /\ replica' = [replica EXCEPT ![r].pc = "failed", ![r].made = {}]
          \/ /\ t \notin DOMAIN db
             /\ replica' = [replica EXCEPT ![r].missing = @ \ {t}, ![r].made = @ \cup {t}]
  /\ UNCHANGED <<db, seed, visit, faults>>

CommitTables(r) ==
  /\ replica[r].pc = "creating" /\ replica[r].missing = {}
  /\ db' = Over([t \in replica[r].made |-> OrmTable(t)], db)
  /\ replica' = [replica EXCEPT ![r].pc = "opening", ![r].made = {}]
  /\ UNCHANGED <<seed, visit, faults>>

(* Mutant: requests are taken before the store is open. *)
BugServeEarly(r) ==
  /\ replica[r].pc = "opening"
  /\ replica' = [replica EXCEPT ![r].open = @ + 1,
       ![r].pc = IF Resources[replica[r].open + 1] = "checkpointer" THEN "up" ELSE "opening"]
  /\ UNCHANGED <<db, seed, visit, faults>>

(* The checkpointer and the store are opened one after the other.  The setup() *)
(* of each is LangGraph's own migration of its own tables, no part of the      *)
(* model: a replica that loses a race in it is one that breaks, BreakStart.    *)
OpenNext(r) ==
  /\ replica[r].pc = "opening"
  /\ replica' = [replica EXCEPT ![r].open = @ + 1,
       ![r].pc = IF replica[r].open + 1 = Len(Resources) THEN "up" ELSE "opening"]
  /\ UNCHANGED <<db, seed, visit, faults>>

(* A start that breaks releases nothing of what it has opened. *)
BreakStart(r) ==
  /\ replica[r].pc \in {"checking", "creating", "opening"} /\ faults < MaxFaults
  /\ replica' = [replica EXCEPT ![r].pc = "failed", ![r].missing = {}, ![r].made = {}]
  /\ faults' = faults + 1
  /\ UNCHANGED <<db, seed, visit>>

(* The process ends after a failed start; its container is started again. *)
Restart(r) ==
  /\ replica[r].pc = "failed"
  /\ replica' = [replica EXCEPT ![r] = Off]
  /\ UNCHANGED <<db, seed, visit, faults>>

Shutdown(r) ==
  /\ replica[r].pc = "up" /\ r \in Leavers
  /\ GoTo(r, "closing")
  /\ UNCHANGED <<db, seed, visit, faults>>

(* container.shutdown closes the store, the checkpointer and the engine. *)
CloseNext(r) ==
  /\ replica[r].pc = "closing"
  /\ replica' = [replica EXCEPT ![r].open = @ - 1,
                                ![r].pc = IF replica[r].open = 1 THEN "down" ELSE "closing"]
  /\ UNCHANGED <<db, seed, visit, faults>>

(* A close that raises leaves what should have been closed after it. *)
BreakClose(r) ==
  /\ replica[r].pc = "closing" /\ faults < MaxFaults
  /\ GoTo(r, "leaked") /\ faults' = faults + 1
  /\ UNCHANGED <<db, seed, visit>>

Starting(r) == OpenEngine(r) \/ CheckTables(r) \/ CreateTable(r) \/ CommitTables(r)
               \/ OpenNext(r) \/ Restart(r)

---------------------------------------------------------------------------
(* A page *)

Ask(v) ==
  /\ visit[v].pc = "none" /\ \E r \in Replicas : replica[r].pc = "up"
  /\ \E page \in DOMAIN Pages :
       visit' = [visit EXCEPT ![v].pc = "reading", ![v].page = page]
  /\ UNCHANGED <<db, seed, replica, faults>>

(* HotelQueryService.list_reviews asks every row of the repository for a *)
(* model_dump, which the dicts of list_reviews do not have.              *)
Unmapped(page, table) == page = "reviews" /\ table.rows # "none"

(* One query, in a session of its own; what it shows is of the run of its table. *)
Query(v) ==
  /\ visit[v].pc = "reading"
  /\ \E asked \in {Len(visit[v].shown) + 1} : \E t \in {Pages[visit[v].page][asked]} :
       \/ /\ t \notin DOMAIN db
          /\ visit' = [visit EXCEPT ![v].pc = "missing"]
       \/ /\ t \in DOMAIN db /\ ~ Held(t) /\ Unmapped(visit[v].page, db[t])
          /\ visit' = [visit EXCEPT ![v].pc = "error"]
       \/ /\ t \in DOMAIN db /\ ~ Held(t) /\ ~ Unmapped(visit[v].page, db[t])
          /\ visit' = [visit EXCEPT ![v].shown = Append(@, db[t].run),
               ![v].pc = IF asked = Len(Pages[visit[v].page]) THEN "shown" ELSE "reading"]
  /\ UNCHANGED <<db, seed, replica, faults>>

---------------------------------------------------------------------------

Next ==
  \/ StartSeed \/ Seeding
  \/ BreakSeed
  \/ \E r \in Replicas : Starting(r) \/ BreakStart(r) \/ Shutdown(r) \/ CloseNext(r) \/ BreakClose(r)
  \/ \E v \in Visits : Ask(v) \/ Query(v)

(* Statements, starts and queries go on while the database lets them, and a *)
(* failed start is retried; nobody has to run the job, stop a replica or    *)
(* ask for a page.                                                          *)
Fairness ==
  /\ WF_vars(Seeding)
  /\ \A r \in Replicas : WF_vars(Starting(r) \/ CloseNext(r))
  /\ \A v \in Visits : WF_vars(Query(v))

Spec == Init /\ [][Next]_vars /\ Fairness
---------------------------------------------------------------------------
(* Properties *)

IsTables(f) ==
  /\ DOMAIN f \subseteq Tables
  /\ \A t \in DOMAIN f : f[t].run \in 0..Rounds /\ f[t].rows \in {"none", "part", "all"} /\ f[t].refs \subseteq DOMAIN f

Orm == Range(OrmTables)

JobTypes ==
  /\ job \in [pc : {"idle", "running", "done", "failed"}, round : 0..Rounds,
              at : 1..Len(Script) + 1, left : 0..Attempts]
  /\ held \subseteq Tables /\ DOMAIN own \subseteq held
  /\ job.pc # "running" => held = {}

ReplicaTypes ==
  /\ replica \in [Replicas ->
       [pc : {"off", "checking", "creating", "opening", "up", "closing", "down", "leaked", "failed"},
        open : 0..Len(Resources), missing : SUBSET Orm, made : SUBSET Orm]]
  /\ \A r \in Replicas :
       replica[r].pc = "up" => replica[r].open = Len(Resources) /\ replica[r].made = {}

MadeApart ==
  \A r \in Replicas :
    /\ replica[r].made \cap (held \cup DOMAIN db) = {}
    /\ \A o \in Replicas \ {r} : replica[r].made \cap replica[o].made = {}

VisitTypes ==
  /\ visit \in [Visits -> [pc : {"none", "reading", "shown", "missing", "error"},
                           page : DOMAIN Pages \cup {""}, shown : Seq(0..Rounds)]]
  /\ \A v \in Visits : visit[v].pc = "reading" =>
       visit[v].page \in DOMAIN Pages /\ Len(visit[v].shown) < Len(Pages[visit[v].page])

(* Shapes; a replica that serves has everything open and nothing uncommitted, *)
(* and no two transactions have made the same table.                          *)
TypeOK ==
  IsTables(db) /\ faults \in 0..MaxFaults /\ JobTypes /\ ReplicaTypes /\ MadeApart /\ VisitTypes

(* What is committed is the whole warehouse of one run of the job, every    *)
(* table of it computed from finished tables of that run; before the first, *)
(* nothing but the empty tables the replicas made.  (seed is one            *)
(* transaction and its phases are in order.)                                *)
CommittedWhole ==
  \/ DOMAIN db \in {{}, Range(OrmTables)} /\ \A t \in DOMAIN db : db[t] = OrmTable(t)
  \/ DOMAIN db = Tables /\ \E n \in 1..Rounds : \A t \in Tables : db[t].run = n /\ db[t].rows = "all"

(* A job is given up only after a fault: its own statements succeed on an    *)
(* empty database, on one it has seeded before and beside starting replicas, *)
(* whose create_all can cost it one try and no more.                         *)
JobFailsByFault == job.pc = "failed" => faults > 0

(* A replica that has made tables and not committed them never waits for one *)
(* that the job or another replica holds: as the job may wait for the tables *)
(* it has made, they would wait for each other and PostgreSQL would end one. *)
(* (seed_hotels.py and create_all both make hotels before guest_reviews.)    *)
NoWaitInCircle ==
  \A r \in Replicas : replica[r].made # {} =>
    \A t \in replica[r].missing :
      ~ Held(t) /\ \A o \in Replicas \ {r} : t \notin replica[o].made

(* A page that reads several tables, each in a transaction of its own, may   *)
(* show figures of several runs of the job, but after those of one run never *)
(* older ones: tables do not vanish and a run is committed as a whole.       *)
PagesNeverGoBack ==
  \A v \in Visits : \A i, j \in DOMAIN visit[v].shown :
    i < j => visit[v].shown[i] <= visit[v].shown[j]

(* What the readers see are editions of the warehouse, whose hotels are of   *)
(* the run that made them: every query shows the one that is committed, newer *)
(* ones replace it as a whole, and once a page has shown something none of    *)
(* its tables is missing.                                                     *)
Edition == IF "hotels" \in DOMAIN db THEN db["hotels"].run ELSE 0

Published == INSTANCE Publication
  WITH Readers <- Visits, Editions <- Rounds,
       edition <- Edition,
       shown   <- [v \in Visits |-> visit[v].shown],
       refused <- {v \in Visits : visit[v].pc = "missing"}

KeepsPublishing == Published!Spec

(* Every replica gets up, also when another replica or the job has made the *)
(* tables it was about to make.                                             *)
ReplicasStart == \A r \in Replicas : replica[r].pc = "checking" ~> replica[r].pc = "up"

(* Every page is answered: a query waits for the locks of the job at most *)
(* until its transaction has ended.                                       *)
PagesEnd == \A v \in Visits : visit[v].pc = "reading" ~> visit[v].pc # "reading"

(* GET /reviews, "List guest reviews." (routers/hotels.py): it never breaks *)
(* when the table is there.  A property the code does not have.             *)
ReviewsAreListed == \A v \in Visits : visit[v].page = "reviews" => visit[v].pc # "error"
---------------------------------------------------------------------------
(* Inductive strengthenings, used by the proofs in DeploymentProofs. *)

(* The statements of seed_hotels.py can be executed in their order, each on  *)
(* what those before it have made and finished; they leave every table with  *)
(* all of its rows, those of the application among them.                     *)
ScriptMakesAll == ScriptInOrder /\ Orm \subseteq Tables

(* The statements the transaction of the job has executed. *)
Executed == Before(job.at, 1)

(* Its tables are those its statements make, with rows of this run; every    *)
(* name it holds it has dropped first.                                       *)
SeedInv ==
  job.pc = "running" =>
    /\ job.round >= 1 /\ job.left >= 1
    /\ DOMAIN own = MadeBy(Executed) /\ Built(own, job.round, Executed)
    /\ held \subseteq DroppedBy(Executed)

(* A name it has dropped without holding it can come back only as a table of  *)
(* a replica, and only in the first try of a job without faults: after that   *)
(* those tables are there, to be dropped and held.                            *)
NamesInv ==
  job.pc = "running" =>
    /\ \A t \in DroppedBy(Executed) \ held :
         t \in DOMAIN db => t \in Orm /\ (faults > 0 \/ job.left = Attempts)
    /\ job.left < Attempts /\ faults = 0 => Orm \subseteq DOMAIN db

(* A replica that makes tables ends with all of them there. *)
ReplicaInv ==
  \A r \in Replicas :
    /\ replica[r].pc # "creating" => replica[r].made = {}
    /\ replica[r].pc = "creating" => Orm \subseteq DOMAIN db \cup replica[r].made \cup replica[r].missing
    /\ replica[r].pc \in {"checking", "creating", "opening"} => replica[r].open \in 1..Len(Resources) - 1
    /\ replica[r].pc = "closing" => replica[r].open \in 1..Len(Resources)

(* What create_all has made and still misses: hotels before guest_reviews. *)
InTurn(made, missing) ==
  /\ made \cap missing = {}
  /\ "guest_reviews" \in made \cup missing => "hotels" \in made \cup missing
  /\ "guest_reviews" \in made => "hotels" \in made

(* No session holds guest_reviews without hotels; the job makes hotels in the *)
(* second part of its script.                                                 *)
HeldInTurn ==
  /\ "guest_reviews" \in held => "hotels" \in held
  /\ job.pc = "running" /\ job.at > 2 => "hotels" \in held

WaitInv ==
  /\ \A r \in Replicas :
       replica[r].pc = "creating" => InTurn(replica[r].made, replica[r].missing)
  /\ HeldInTurn

(* What was shown is not newer than what is there. *)
ShownInv ==
  /\ \A v \in Visits : visit[v].pc = "none" => Len(visit[v].shown) = 0
  /\ \A t \in DOMAIN db : db[t].run <= job.round
  /\ \A v \in Visits : \A i \in DOMAIN visit[v].shown :
       DOMAIN db # {} /\ \A t \in DOMAIN db : visit[v].shown[i] <= db[t].run

(* What a running job will commit is newer than what is there, and a page of *)
(* tables that only the job makes has shown nothing of before its first run. *)
PublishInv ==
  /\ job.pc = "running" => \A t \in DOMAIN db : db[t].run < job.round
  /\ \A v \in Visits : visit[v].pc = "reading" /\ ~ Range(Pages[visit[v].page]) \subseteq Orm =>
       \A i \in DOMAIN visit[v].shown : visit[v].shown[i] # 0
===========================================================================
