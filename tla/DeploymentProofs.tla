-------------------------- MODULE DeploymentProofs --------------------------
(* Theorems about module Deployment, for any number of replicas, visits,    *)
(* rounds, attempts and faults.  That the script is in order is proved in   *)
(* ScriptProofs; the lemmas here hold for any script that is.               *)
EXTENDS Deployment, ScriptProofs, SequenceTheorems

---------------------------------------------------------------------------
(* The constants.                                                          *)

LEMMA OrmNames == Orm = {"hotels", "guest_reviews"} /\ DOMAIN OrmTables = {1, 2}
BY DEF Orm, OrmTables, Range

LEMMA ThreeResources == Len(Resources) = 3
BY DEF Resources

LEMMA PagesAsk == \A page \in DOMAIN Pages : Len(Pages[page]) \in Nat /\ Len(Pages[page]) >= 1
BY DEF Pages, ReportPages

LEMMA RestrictIs ==
  ASSUME NEW f, NEW S
  PROVE  DOMAIN Restrict(f, S) = S /\ \A t \in S : Restrict(f, S)[t] = f[t]
BY DEF Restrict

---------------------------------------------------------------------------
(* A part of the script, executed in the transaction of the job.           *)

LEMMA ScriptShape ==
  ASSUME ScriptInOrder
  PROVE  /\ Len(Script) \in Nat /\ DOMAIN Script = 1 .. Len(Script)
         /\ \A p \in DOMAIN Script :
              /\ p \in Nat \ {0} /\ Len(Script[p]) \in Nat
              /\ DOMAIN Script[p] = 1 .. Len(Script[p])
              /\ \A i \in DOMAIN Script[p] : Script[p][i] \in Statement
BY DEF ScriptInOrder

\* What the first i parts have executed.
LEMMA ExecutedNext ==
  ASSUME ScriptInOrder, NEW p \in DOMAIN Script
  PROVE  /\ Before(p + 1, 1) = Before(p, Len(Script[p]) + 1)
         /\ Before(p + 1, 1) = Before(p, 1) \cup Begun(p, Len(Script[p]))
         /\ Range(Script[p]) = Begun(p, Len(Script[p]))
<1>1. PICK n \in Nat : n = Len(Script[p]) /\ DOMAIN Script[p] = 1 .. n
  BY ScriptShape
<1>2. p \in Nat \ {0}
  BY ScriptShape
<1>3. Before(p + 1, 1) = Before(p, n + 1)
  BY <1>1, <1>2, BeforeNextPart
<1>4. (n + 1) - 1 = n /\ 1 - 1 = 0
  OBVIOUS
<1>5. Before(p, n + 1) = Before(p, 1) \cup Begun(p, n)
  BY <1>4, NoneBegun DEF Before
<1>6. Range(Script[p]) = Begun(p, n)
  BY <1>1 DEF Range, Begun
<1> QED
  BY <1>1, <1>3, <1>5, <1>6

LEMMA ExecutedBy ==
  ASSUME ScriptInOrder, NEW p \in DOMAIN Script
  PROVE  /\ MadeBy(Before(p + 1, 1)) = MadeBy(Before(p, 1)) \cup MadeBy(Begun(p, Len(Script[p])))
         /\ DroppedBy(Before(p + 1, 1)) = DroppedBy(Before(p, 1)) \cup DroppedBy(Begun(p, Len(Script[p])))
BY ExecutedNext, OnByUnion DEF MadeBy, DroppedBy

LEMMA NothingExecuted ==
  Before(1, 1) = {} /\ MadeBy(Before(1, 1)) = {} /\ DroppedBy(Before(1, 1)) = {}
BY BeforeFirst DEF MadeBy, DroppedBy, OnBy

LEMMA BuiltFromNothing == ASSUME NEW u, NEW run PROVE Built(u, run, Before(1, 1))
BY NothingExecuted DEF Built, FilledBy, CompleteBy, MadeBy, OnBy

LEMMA AllExecuted ==
  ASSUME ScriptInOrder, NEW n, n = Len(Script)
  PROVE  /\ Before(n + 1, 1) = Statements
         /\ MadeBy(Statements) = Tables
         /\ CompleteBy(Statements) = Tables
<1>1. Before(n + 1, 1) = Statements
  BY ScriptShape, BeforeEnd
<1>2. MadeBy(Statements) = Tables
  BY DEF MadeBy, OnBy, Tables, Makes
<1>3. ASSUME NEW s \in Statements PROVE s.on \subseteq Tables
  <2>1. PICK p \in DOMAIN Script : s \in Range(Script[p])
    BY DEF Statements, Range
  <2>2. s \in Statement
    BY <2>1, ScriptShape DEF Range
  <2> QED
    BY <2>2 DEF Statement
<1>4. CompleteBy(Statements) \subseteq Tables
  BY <1>3 DEF CompleteBy, OnBy
<1> QED
  BY <1>1, <1>2, <1>4 DEF ScriptInOrder

\* Built is about the tables that have been made.
LEMMA BuiltAgrees ==
  ASSUME NEW u, NEW v, NEW run, NEW done, Built(u, run, done),
         MadeBy(done) \subseteq DOMAIN v, \A t \in MadeBy(done) : v[t] = u[t]
  PROVE  Built(v, run, done)
<1>1. /\ FilledBy(done) \subseteq MadeBy(done)
      /\ CompleteBy(done) \subseteq MadeBy(done)
      /\ \A m \in done : Makes(m) => m.on \subseteq MadeBy(done)
  BY OnOfMaker DEF Built
<1> QED
  BY <1>1 DEF Built

\* Statement s locks the name t in a transaction that sees view.
Locked(s, t, view) ==
  /\ t \in s.on
  /\ \/ s.op = "drop" /\ t \in DOMAIN view
     \/ Makes(s)

LEMMA LocksOf ==
  ASSUME ScriptInOrder, NEW p \in DOMAIN Script, NEW view,
         NEW S, S = Locks(Script[p], view), NEW B, B = Begun(p, Len(Script[p]))
  PROVE  /\ MadeBy(B) \subseteq S
         /\ S \subseteq MadeBy(B) \cup (DroppedBy(B) \cap DOMAIN view)
         /\ DroppedBy(B) \cap DOMAIN view \subseteq S
         /\ S \subseteq Tables /\ S \subseteq DroppedBy(Before(p + 1, 1))
<1>1. B = Range(Script[p])
  BY ExecutedNext
<1>2. \A t : t \in S <=> \E s \in B : Locked(s, t, view)
  <2> DEFINE L(s) == IF s.op = "drop" THEN s.on \cap DOMAIN view ELSE IF Makes(s) THEN s.on ELSE {}
  <2>1. S = UNION {L(s) : s \in B}
    BY <1>1 DEF Locks
  <2>2. \A s : \A t : t \in L(s) <=> Locked(s, t, view)
    BY DEF Locked, Makes
  <2> HIDE DEF L
  <2> QED
    BY <2>1, <2>2
<1>3. \A t : t \in MadeBy(B) <=> \E s \in B : Makes(s) /\ t \in s.on
  BY DEF MadeBy, OnBy, Makes
<1>4. \A t : t \in DroppedBy(B) <=> \E s \in B : s.op = "drop" /\ t \in s.on
  BY DEF DroppedBy, OnBy
<1>6. /\ MadeBy(B) \subseteq S
      /\ S \subseteq MadeBy(B) \cup (DroppedBy(B) \cap DOMAIN view)
      /\ DroppedBy(B) \cap DOMAIN view \subseteq S
  <2>1. \A t : t \in MadeBy(B) => t \in S
    BY <1>2, <1>3 DEF Locked
  <2>2. \A t : t \in S => t \in MadeBy(B) \/ (t \in DroppedBy(B) /\ t \in DOMAIN view)
    BY <1>2, <1>3, <1>4 DEF Locked
  <2>3. \A t : t \in DroppedBy(B) /\ t \in DOMAIN view => t \in S
    BY <1>2, <1>4 DEF Locked
  <2> QED
    BY <2>1, <2>2, <2>3
<1>7. ASSUME NEW s \in B
      PROVE  /\ s.on \subseteq Tables
             /\ Makes(s) => s.on \subseteq DroppedBy(Before(p + 1, 1))
  <2>1. PICK i \in DOMAIN Script[p] : s = Script[p][i]
    BY <1>1 DEF Range
  <2>2. s \in Statement /\ InOrder(s, Before(p, i))
    BY <2>1, ScriptShape DEF ScriptInOrder
  <2>3. Makes(s) => s.on \subseteq DroppedBy(Before(p, i))
    BY <2>2 DEF InOrder
  <2>4. PICK n \in Nat : n = Len(Script[p]) /\ DOMAIN Script[p] = 1 .. n
    BY ScriptShape
  <2>5. Before(p, i) \subseteq Before(p, n + 1)
    <3>1. i - 1 <= n /\ i - 1 \in Nat /\ (n + 1) - 1 = n
      BY <2>4
    <3>2. 1 .. i - 1 \subseteq 1 .. n
      BY <3>1
    <3> QED
      BY <3>1, <3>2 DEF Before, Begun
  <2>6. DroppedBy(Before(p, i)) \subseteq DroppedBy(Before(p + 1, 1))
    <3>1. Before(p, i) \subseteq Before(p + 1, 1)
      BY <2>4, <2>5, ExecutedNext
    <3> QED
      BY <3>1 DEF DroppedBy, OnBy
  <2> QED
    BY <2>2, <2>3, <2>6 DEF Statement
<1>8. ASSUME NEW t \in S PROVE t \in Tables /\ t \in DroppedBy(Before(p + 1, 1))
  <2>1. PICK s \in B : t \in s.on /\ (s.op = "drop" \/ Makes(s))
    BY <1>2 DEF Locked
  <2>2. s.op = "drop" => t \in DroppedBy(Before(p + 1, 1))
    BY <1>4, <2>1, ExecutedBy
  <2> QED
    BY <1>7, <2>1, <2>2
<1> QED
  BY <1>6, <1>8

---------------------------------------------------------------------------
(* The transaction of the job, about constants: it holds the names hd and   *)
(* its tables are ow; base is what is committed.                            *)

ViewOf(ow, hd, base) == Over(ow, Restrict(base, DOMAIN base \ hd))

Sees(view, ow, hd, base) ==
  /\ DOMAIN view = DOMAIN ow \cup (DOMAIN base \ hd)
  /\ \A t \in DOMAIN ow : view[t] = ow[t]

LEMMA ViewTables ==
  ASSUME NEW ow, NEW hd, NEW base
  PROVE  Sees(ViewOf(ow, hd, base), ow, hd, base)
<1> DEFINE rest == Restrict(base, DOMAIN base \ hd)
<1>1. DOMAIN rest = DOMAIN base \ hd 
  BY RestrictIs
<1>2. /\ DOMAIN Over(ow, rest) = DOMAIN ow \cup DOMAIN rest
      /\ \A t \in DOMAIN ow : Over(ow, rest)[t] = ow[t]
  BY OverDomain
<1>3. ViewOf(ow, hd, base) = Over(ow, rest)
  BY DEF ViewOf
<1> HIDE DEF rest
<1> QED
  BY <1>1, <1>2, <1>3 DEF Sees

\* What SeedInv says of a transaction that has executed the parts before p.
Transaction(ow, hd, run, p) ==
  /\ DOMAIN ow = MadeBy(Before(p, 1)) /\ Built(ow, run, Before(p, 1))
  /\ hd \subseteq DroppedBy(Before(p, 1))

LEMMA ViewBuilt ==
  ASSUME NEW ow, NEW hd, NEW base, NEW run, NEW p, Transaction(ow, hd, run, p)
  PROVE  Built(ViewOf(ow, hd, base), run, Before(p, 1))
<1> DEFINE view == ViewOf(ow, hd, base)
<1>1. Sees(view, ow, hd, base)
  BY ViewTables
<1>2. DOMAIN ow = MadeBy(Before(p, 1)) /\ Built(ow, run, Before(p, 1))
  BY DEF Transaction
<1> HIDE DEF view
<1>3. Built(view, run, Before(p, 1))
  BY <1>1, <1>2, BuiltAgrees DEF Sees
<1> QED
  BY <1>3 DEF view

\* A part leaves the transaction as it should be, and adds no dropped name that
\* is not held and yet there.
PartKept(ow2, hd2, hd, base, run, p) ==
  /\ Transaction(ow2, hd2, run, p + 1)
  /\ DOMAIN ow2 \subseteq hd2 /\ hd2 \in SUBSET Tables
  /\ \A t \in DroppedBy(Before(p + 1, 1)) \ hd2 :
       t \in DOMAIN base => t \in DroppedBy(Before(p, 1)) \ hd

LEMMA PartKeeps ==
  ASSUME ScriptInOrder, NEW p \in DOMAIN Script, NEW run \in Nat,
         NEW ow, NEW hd \in SUBSET Tables, NEW base,
         Transaction(ow, hd, run, p), DOMAIN ow \subseteq hd,
         NEW view, view = ViewOf(ow, hd, base),
         NEW u \in Outcomes(Script[p], view, run),
         NEW hd2, hd2 = hd \cup Locks(Script[p], view),
         NEW ow2, ow2 = Restrict(u, hd2 \cap DOMAIN u)
  PROVE  PartKept(ow2, hd2, hd, base, run, p)
<1> DEFINE n == Len(Script[p])
           B == Begun(p, n)
           S == Locks(Script[p], view)
           done == Before(p + 1, 1)
<1>1. PartLeaves(u, view, run, p, n)
  BY ViewBuilt, PartExecutes
<1>2. done = Before(p, n + 1)
  BY ExecutedNext
<1>3. /\ MadeBy(done) = MadeBy(Before(p, 1)) \cup MadeBy(B)
      /\ DroppedBy(done) = DroppedBy(Before(p, 1)) \cup DroppedBy(B)
  BY ExecutedBy
<1>4. /\ MadeBy(B) \subseteq S /\ S \subseteq MadeBy(B) \cup DroppedBy(B)
      /\ DroppedBy(B) \cap DOMAIN view \subseteq S
      /\ S \subseteq Tables /\ S \subseteq DroppedBy(done)
  BY LocksOf
<1>5. Built(u, run, done) /\ DOMAIN u \ MadeBy(done) \subseteq DOMAIN view \ DroppedBy(B)
  BY <1>1, <1>2 DEF PartLeaves
<1>6. /\ DOMAIN ow = MadeBy(Before(p, 1)) /\ hd \subseteq DroppedBy(Before(p, 1))
      /\ DOMAIN view = DOMAIN ow \cup (DOMAIN base \ hd)
  BY ViewTables DEF Transaction, Sees
<1>7. hd2 = hd \cup S
  OBVIOUS
<1>8. DOMAIN ow2 = hd2 \cap DOMAIN u /\ \A t \in hd2 \cap DOMAIN u : ow2[t] = u[t]
  BY RestrictIs
<1>9. MadeBy(done) \subseteq DOMAIN u
  BY <1>5 DEF Built
<1> HIDE DEF n, B, S, done
<1>10. DOMAIN ow2 = MadeBy(done)
  <2>1. MadeBy(done) \subseteq hd2
    BY <1>3, <1>4, <1>6, <1>7
  <2>2. ASSUME NEW t \in hd2 \cap DOMAIN u, t \notin MadeBy(done) PROVE FALSE
    <3>1. t \in DOMAIN view /\ t \notin DroppedBy(B)
      BY <1>5, <2>2
    <3>2. t \notin DOMAIN ow /\ t \notin MadeBy(B)
      BY <1>3, <1>6, <2>2
    <3>3. t \notin hd
      BY <1>6, <3>1, <3>2
    <3>4. t \notin S
      BY <1>4, <3>1, <3>2
    <3> QED
      BY <1>7, <2>2, <3>3, <3>4
  <2> QED
    BY <1>8, <1>9, <2>1, <2>2
<1>11. Built(ow2, run, done)
  BY <1>5, <1>8, <1>10, BuiltAgrees
<1>12. hd2 \subseteq DroppedBy(done)
  BY <1>3, <1>4, <1>6, <1>7
<1>13. ASSUME NEW t \in DroppedBy(done) \ hd2, t \in DOMAIN base
       PROVE  t \in DroppedBy(Before(p, 1)) \ hd
  <2>1. t \in DOMAIN view /\ t \notin hd /\ t \notin S
    BY <1>6, <1>7, <1>13
  <2>2. t \notin DroppedBy(B)
    BY <1>4, <2>1
  <2> QED
    BY <1>3, <2>1, <2>2
<1>14. Transaction(ow2, hd2, run, p + 1)
  BY <1>10, <1>11, <1>12 DEF Transaction, done
<1> QED
  BY <1>4, <1>7, <1>8, <1>13, <1>14 DEF done, PartKept

\* A part is refused only because of a committed table it has dropped without
\* holding its name.
LEMMA PartRefused ==
  ASSUME ScriptInOrder, NEW p \in DOMAIN Script, NEW run \in Nat,
         NEW ow, NEW hd, NEW base, Transaction(ow, hd, run, p),
         NEW view, view = ViewOf(ow, hd, base), Outcomes(Script[p], view, run) = {}
  PROVE  \E t \in DOMAIN base : t \in DroppedBy(Before(p, 1)) \ hd
<1>1. Taken(view, p)
  BY ViewBuilt, PartExecutes
<1>2. PICK t \in DOMAIN view : t \in DroppedBy(Before(p, 1)) \ MadeBy(Before(p, 1))
  BY <1>1 DEF Taken
<1>3. DOMAIN ow = MadeBy(Before(p, 1)) /\ DOMAIN view = DOMAIN ow \cup (DOMAIN base \ hd)
  BY ViewTables DEF Transaction, Sees
<1> QED
  BY <1>2, <1>3

\* After the last part the transaction sees the whole warehouse of its run.
Whole(view, run) ==
  /\ DOMAIN view = Tables
  /\ \A t \in Tables : view[t] \in Row /\ view[t].run = run /\ view[t].rows = "all"

LEMMA WholeAtEnd ==
  ASSUME ScriptInOrder, NEW n, n = Len(Script), NEW run, NEW ow, NEW hd, NEW base,
         Transaction(ow, hd, run, n + 1), DOMAIN base \subseteq Tables,
         NEW view, view = ViewOf(ow, hd, base)
  PROVE  Whole(view, run)
<1>1. Sees(view, ow, hd, base)
  BY ViewTables
<1>2. DOMAIN ow = Tables /\ Built(ow, run, Statements)
  BY AllExecuted DEF Transaction
<1>3. \A t \in Tables : ow[t] \in Row /\ ow[t].run = run /\ ow[t].rows = "all"
  BY <1>2, AllExecuted DEF Built
<1> QED
  BY <1>1, <1>2, <1>3 DEF Sees, Whole

---------------------------------------------------------------------------
(* The inductive invariant, and what leaves its parts alone.               *)

Inv == TypeOK /\ CommittedWhole /\ SeedInv /\ NamesInv /\ ReplicaInv /\ ShownInv

LEMMA TypeParts ==
  TypeOK <=> /\ IsTables(db) /\ faults \in 0..MaxFaults /\ JobTypes
             /\ ReplicaTypes /\ MadeApart /\ VisitTypes
BY DEF TypeOK

LEMMA ViewIs == View = ViewOf(own, held, db)
BY DEF View, ViewOf

LEMMA DbSame ==
  ASSUME db' = db, IsTables(db), CommittedWhole
  PROVE  IsTables(db)' /\ CommittedWhole'
BY DEF IsTables, CommittedWhole

LEMMA SeedSame ==
  ASSUME UNCHANGED seed, JobTypes, SeedInv
  PROVE  JobTypes' /\ SeedInv'
BY DEF seed, JobTypes, SeedInv, Executed

LEMMA NamesSame ==
  ASSUME UNCHANGED <<db, seed>>, faults' \in Nat, faults \in Nat, faults' >= faults, NamesInv
  PROVE  NamesInv'
BY DEF seed, NamesInv, Executed

LEMMA VisitsSame ==
  ASSUME UNCHANGED <<db, visit>>, JobTypes, job'.round \in Nat, job'.round >= job.round,
         IsTables(db), VisitTypes, ShownInv
  PROVE  VisitTypes' /\ ShownInv'
<1>1. VisitTypes'
  BY DEF VisitTypes
<1>2. job.round \in Nat /\ \A t \in DOMAIN db : db[t].run \in Nat
  BY DEF JobTypes, IsTables
<1>3. \A t \in DOMAIN db : db[t].run <= job'.round
  <2>1. \A x \in Nat : x <= job.round => x <= job'.round
    BY <1>2
  <2> QED
    BY <1>2, <2>1 DEF ShownInv
<1> QED
  BY <1>1, <1>3 DEF ShownInv

LEMMA ReplicasSame ==
  ASSUME UNCHANGED <<db, replica>>, ReplicaTypes, ReplicaInv
  PROVE  ReplicaTypes' /\ ReplicaInv'
BY DEF ReplicaTypes, ReplicaInv

---------------------------------------------------------------------------
(* The seed job.                                                           *)

\* A step of the job that commits nothing.
LEMMA SeedStep ==
  ASSUME Inv, UNCHANGED <<db, replica, visit>>, JobTypes', SeedInv', NamesInv',
         job'.round >= job.round, faults' \in 0..MaxFaults,
         \A r \in Replicas : replica[r].made \cap held' = {}
  PROVE  Inv'
<1>1. IsTables(db)' /\ CommittedWhole'
  BY DbSame DEF Inv, TypeOK
<1>2. job'.round \in Nat
  BY DEF JobTypes
<1>3. VisitTypes' /\ ShownInv'
  BY <1>2, VisitsSame DEF Inv, TypeOK
<1>4. ReplicaTypes' /\ ReplicaInv'
  BY ReplicasSame DEF Inv, TypeOK
<1>5. MadeApart'
  BY DEF Inv, TypeOK, MadeApart
<1> QED
  BY <1>1, <1>3, <1>4, <1>5 DEF Inv, TypeOK

LEMMA StartKeeps ==
  ASSUME ScriptInOrder, Inv, StartSeed
  PROVE  Inv'
<1>1. /\ job.round < Rounds /\ job.pc # "running"
      /\ job' = [pc |-> "running", round |-> job.round + 1, at |-> 1, left |-> Attempts]
      /\ UNCHANGED <<db, held, own, replica, visit, faults>>
  BY DEF StartSeed
<1>2. /\ job.round \in 0..Rounds /\ held = {} /\ DOMAIN own = {} /\ Len(Script) \in Nat
      /\ Rounds \in Nat /\ Attempts \in Nat \ {0}
  BY <1>1, ScriptShape, DeploymentAssumption DEF Inv, TypeOK, JobTypes
<1>3. /\ job.round + 1 \in 0..Rounds /\ job.round + 1 >= 1 /\ job.round + 1 >= job.round
      /\ 1 \in 1..Len(Script) + 1 /\ Attempts \in 0..Attempts /\ Attempts >= 1
      /\ ~ (Attempts < Attempts)
  BY <1>1, <1>2
<1>4. JobTypes'
  BY <1>1, <1>2, <1>3 DEF JobTypes
<1>5. SeedInv'
  BY <1>1, <1>2, <1>3, NothingExecuted, BuiltFromNothing DEF SeedInv, Executed
<1>6. NamesInv'
  BY <1>1, <1>2, <1>3, NothingExecuted DEF NamesInv, Executed
<1>7. job'.round >= job.round /\ faults' \in 0..MaxFaults
      /\ \A r \in Replicas : replica[r].made \cap held' = {}
  BY <1>1, <1>2, <1>3 DEF Inv, TypeOK
<1> QED
  BY <1>1, <1>4, <1>5, <1>6, <1>7, SeedStep

\* Rolling back and trying again, after a fault or when the tables of the
\* application, which have cost the try, are committed.
LEMMA AbortKeeps ==
  ASSUME ScriptInOrder, Inv, Abort, job.pc = "running",
         UNCHANGED <<db, replica, visit>>, faults' \in 0..MaxFaults,
         faults' > 0 \/ Orm \subseteq DOMAIN db
  PROVE  Inv'
<1>1. /\ job' = [job EXCEPT !.pc = IF job.left > 1 THEN "running" ELSE "failed",
                           !.left = job.left - 1, !.at = 1]
      /\ held' = {} /\ own' = Nothing
  BY DEF Abort, Retry
<1>2. /\ job.left \in 0..Attempts /\ job.left >= 1 /\ job.round \in 0..Rounds /\ job.round >= 1
      /\ Len(Script) \in Nat /\ Attempts \in Nat \ {0} /\ faults' \in Nat /\ MaxFaults \in Nat
      /\ Rounds \in Nat
  BY ScriptShape, DeploymentAssumption DEF Inv, TypeOK, JobTypes, SeedInv
<1>3. /\ job.left - 1 \in 0..Attempts /\ 1 \in 1..Len(Script) + 1
      /\ job.left > 1 => job.left - 1 >= 1
  BY <1>2
<1>4. DOMAIN Nothing = {}
  BY DEF Nothing
<1>5. /\ job' \in [pc : {"idle", "running", "done", "failed"}, round : 0..Rounds,
                  at : 1..Len(Script) + 1, left : 0..Attempts]
      /\ job'.round = job.round /\ job'.left = job.left - 1 /\ job'.at = 1
      /\ job'.pc = "running" => job.left > 1
  BY <1>1, <1>3 DEF Inv, TypeOK, JobTypes
<1>6. JobTypes'
  BY <1>1, <1>4, <1>5 DEF JobTypes
<1>7. SeedInv'
  BY <1>1, <1>2, <1>3, <1>4, <1>5, NothingExecuted, BuiltFromNothing DEF SeedInv, Executed
<1>8. NamesInv'
  <2>1. ~ (faults' = 0) \/ Orm \subseteq DOMAIN db
    BY <1>2
  <2> QED
    BY <1>5, <2>1, NothingExecuted DEF NamesInv, Executed
<1>9. job'.round >= job.round /\ \A r \in Replicas : replica[r].made \cap held' = {}
  BY <1>1, <1>2, <1>5
<1> QED
  BY <1>6, <1>7, <1>8, <1>9, SeedStep

LEMMA BreakKeeps ==
  ASSUME ScriptInOrder, Inv, BreakSeed
  PROVE  Inv'
<1>1. faults < MaxFaults /\ faults' = faults + 1 /\ faults \in 0..MaxFaults /\ MaxFaults \in Nat
  BY DeploymentAssumption DEF BreakSeed, Inv, TypeOK
<1>2. faults' \in 0..MaxFaults /\ faults' > 0
  BY <1>1
<1> QED
  BY <1>2, AbortKeeps DEF BreakSeed

LEMMA RunningTransaction ==
  ASSUME Inv, job.pc = "running"
  PROVE  /\ Transaction(own, held, job.round, job.at) /\ DOMAIN own \subseteq held
         /\ held \in SUBSET Tables /\ job.round \in Nat /\ job.at \in Nat
BY DEF Inv, SeedInv, TypeOK, JobTypes, Transaction, Executed

\* A part that is refused has found a table of the application.
LEMMA RefusalIsOrm ==
  ASSUME ScriptInOrder, Inv, Ready, Outcomes(Part, View, job.round) = {}
  PROVE  /\ faults > 0 \/ job.left = Attempts
         /\ Orm \cap DOMAIN db # {}
<1>1. job.pc = "running" /\ job.at <= Len(Script) /\ job.at \in 1..Len(Script) + 1 /\ Len(Script) \in Nat
  BY ScriptShape DEF Ready, Inv, TypeOK, JobTypes
<1>2. job.at \in DOMAIN Script
  <2>1. job.at \in 1..Len(Script)
    BY <1>1
  <2> QED
    BY <2>1, ScriptShape
<1>3. /\ Transaction(own, held, job.round, job.at) /\ job.round \in Nat
  BY <1>1, RunningTransaction
<1>4. Outcomes(Script[job.at], ViewOf(own, held, db), job.round) = {}
  BY ViewIs DEF Part
<1>5. PICK t \in DOMAIN db : t \in DroppedBy(Before(job.at, 1)) \ held
  <2> DEFINE view == ViewOf(own, held, db)
  <2>1. view = ViewOf(own, held, db) /\ Outcomes(Script[job.at], view, job.round) = {}
    BY <1>4
  <2> HIDE DEF view
  <2> QED
    BY <1>2, <1>3, <2>1, PartRefused
<1> QED
  BY <1>1, <1>5 DEF Inv, NamesInv, Executed

LEMMA OrmCommitted ==
  ASSUME Orm \subseteq Tables, CommittedWhole, DOMAIN db # {}
  PROVE  Orm \subseteq DOMAIN db
BY DEF CommittedWhole, Orm

LEMMA ExecuteKeeps ==
  ASSUME ScriptInOrder, Orm \subseteq Tables, Inv, Execute
  PROVE  Inv'
<1>1. Ready /\ UNCHANGED <<db, replica, visit, faults>>
  BY DEF Execute
<1>2. job.pc = "running" /\ job.at <= Len(Script) /\ job.at \in 1..Len(Script) + 1 /\ Len(Script) \in Nat
  BY <1>1, ScriptShape DEF Ready, Inv, TypeOK, JobTypes
<1>3. PICK p \in DOMAIN Script : p = job.at /\ p \in Nat /\ p + 1 \in 1..Len(Script) + 1
  <2>1. job.at \in 1..Len(Script) /\ job.at \in Nat /\ job.at + 1 \in 1..Len(Script) + 1
    BY <1>2
  <2> QED
    BY <2>1, ScriptShape
<1>4. PICK view : view = ViewOf(own, held, db)
  OBVIOUS
<1>5. View = view /\ Part = Script[p]
  BY <1>3, <1>4, ViewIs DEF Part
<1>6. faults' \in 0..MaxFaults
  BY <1>1 DEF Inv, TypeOK
<1>7. CASE Outcomes(Script[p], view, job.round) = {} /\ Abort
  <2>1. (faults > 0 \/ job.left = Attempts) /\ Orm \cap DOMAIN db # {}
    BY <1>1, <1>5, <1>7, RefusalIsOrm
  <2>2. Orm \subseteq DOMAIN db
    BY <2>1, OrmCommitted DEF Inv
  <2> QED
    BY <1>1, <1>2, <1>6, <1>7, <2>2, AbortKeeps
<1>8. ASSUME NEW u \in Outcomes(Script[p], view, job.round),
             held' = held \cup Locks(Script[p], view),
             own' = Restrict(u, held' \cap DOMAIN u),
             job' = [job EXCEPT !.at = job.at + 1]
      PROVE  Inv'
  <2>1. /\ Transaction(own, held, job.round, p) /\ DOMAIN own \subseteq held
        /\ held \in SUBSET Tables /\ job.round \in Nat
    BY <1>2, <1>3, RunningTransaction
  <2>2. PICK hd2, ow2 : hd2 = held' /\ ow2 = own'
    OBVIOUS
  <2>3. hd2 = held \cup Locks(Script[p], view) /\ ow2 = Restrict(u, hd2 \cap DOMAIN u)
    BY <1>8, <2>2
  <2>4. PartKept(ow2, hd2, held, db, job.round, p)
    BY <1>4, <2>1, <2>3, PartKeeps
  <2>5. /\ Transaction(ow2, hd2, job.round, p + 1)
        /\ DOMAIN ow2 \subseteq hd2 /\ hd2 \in SUBSET Tables
        /\ \A t \in DroppedBy(Before(p + 1, 1)) \ hd2 :
             t \in DOMAIN db => t \in DroppedBy(Before(p, 1)) \ held
    BY <2>4 DEF PartKept
  <2>6. /\ job' \in [pc : {"idle", "running", "done", "failed"}, round : 0..Rounds,
                    at : 1..Len(Script) + 1, left : 0..Attempts]
        /\ job'.at = p + 1 /\ job'.pc = "running" /\ job'.round = job.round /\ job'.left = job.left
    BY <1>2, <1>3, <1>8 DEF Inv, TypeOK, JobTypes
  <2>7. JobTypes'
    BY <2>2, <2>5, <2>6 DEF JobTypes
  <2>8. SeedInv'
    <3>1. job.round >= 1 /\ job.left >= 1
      BY <1>2 DEF Inv, SeedInv
    <3> QED
      BY <2>2, <2>5, <2>6, <3>1 DEF SeedInv, Executed, Transaction
  <2>9. NamesInv'
    <3>1. /\ \A t \in DroppedBy(Before(p, 1)) \ held :
               t \in DOMAIN db => t \in Orm /\ (faults > 0 \/ job.left = Attempts)
          /\ job.left < Attempts /\ faults = 0 => Orm \subseteq DOMAIN db
      BY <1>2, <1>3 DEF Inv, NamesInv, Executed
    <3> QED
      BY <1>1, <2>2, <2>5, <2>6, <3>1 DEF NamesInv, Executed
  <2>10. \A r \in Replicas : replica[r].made \cap held' = {}
    <3>1. \A r \in Replicas : Locks(Script[p], view) \cap replica[r].made = {}
      BY <1>1, <1>5 DEF Ready
    <3>2. \A r \in Replicas : replica[r].made \cap held = {}
      BY DEF Inv, TypeOK, MadeApart
    <3> QED
      BY <1>8, <3>1, <3>2
  <2>11. job'.round >= job.round
    BY <2>1, <2>6
  <2> QED
    BY <1>1, <1>6, <2>7, <2>8, <2>9, <2>10, <2>11, SeedStep
<1> QED
  BY <1>5, <1>7, <1>8 DEF Execute

\* What is known of the tables the job commits.
LEMMA CommitWhole ==
  ASSUME ScriptInOrder, Inv, Commit
  PROVE  /\ DOMAIN db' = Tables /\ job.round \in 1..Rounds
         /\ \A t \in Tables : db'[t] \in Row /\ db'[t].run = job.round /\ db'[t].rows = "all"
<1>1. job.pc = "running" /\ job.at > Len(Script) /\ db' = View
  BY DEF Commit
<1>2. job.at \in 1..Len(Script) + 1 /\ Len(Script) \in Nat /\ job.round \in 0..Rounds
      /\ job.round >= 1 /\ Rounds \in Nat
  BY <1>1, ScriptShape, DeploymentAssumption DEF Inv, TypeOK, JobTypes, SeedInv
<1>3. job.at = Len(Script) + 1 /\ job.round \in 1..Rounds
  BY <1>1, <1>2
<1>4. Transaction(own, held, job.round, Len(Script) + 1)
  BY <1>1, <1>3, RunningTransaction
<1>5. DOMAIN db \subseteq Tables
  BY DEF Inv, TypeOK, IsTables
<1>6. PICK view : view = ViewOf(own, held, db)
  OBVIOUS
<1>7. Whole(view, job.round)
  BY <1>4, <1>5, <1>6, WholeAtEnd
<1> QED
  BY <1>1, <1>3, <1>6, <1>7, ViewIs DEF Whole

LEMMA CommitKeeps ==
  ASSUME ScriptInOrder, Orm \subseteq Tables, Inv, Commit
  PROVE  Inv'
<1>1. /\ job.pc = "running" /\ job' = [job EXCEPT !.pc = "done"]
      /\ held' = {} /\ own' = Nothing /\ UNCHANGED <<replica, visit, faults>>
  BY DEF Commit
<1>2. /\ DOMAIN db' = Tables /\ job.round \in 1..Rounds
      /\ \A t \in Tables : db'[t] \in Row /\ db'[t].run = job.round /\ db'[t].rows = "all"
  BY CommitWhole
<1>3. DOMAIN db \subseteq DOMAIN db'
  BY <1>2 DEF Inv, TypeOK, IsTables
<1>4. IsTables(db)'
  <2>1. job.round \in 0..Rounds
    BY <1>2 DEF Inv, TypeOK, JobTypes
  <2> QED
    BY <1>2, <2>1 DEF IsTables, Row, Rows
<1>5. CommittedWhole'
  BY <1>2 DEF CommittedWhole
<1>6. job' \in [pc : {"idle", "running", "done", "failed"}, round : 0..Rounds,
                at : 1..Len(Script) + 1, left : 0..Attempts]
      /\ job'.pc = "done" /\ job'.round = job.round
  BY <1>1 DEF Inv, TypeOK, JobTypes
<1>7. JobTypes' /\ SeedInv' /\ NamesInv'
  <2>1. DOMAIN Nothing = {}
    BY DEF Nothing
  <2> QED
    BY <1>1, <1>6, <2>1 DEF JobTypes, SeedInv, NamesInv
<1>8. ReplicaTypes' /\ ReplicaInv'
  <2>1. ReplicaTypes'
    BY <1>1 DEF Inv, TypeOK, ReplicaTypes
  <2>2. ReplicaInv'
    BY <1>1, <1>3 DEF Inv, ReplicaInv
  <2> QED
    BY <2>1, <2>2
<1>9. MadeApart'
  <2>1. DOMAIN db' = DOMAIN own \cup (DOMAIN db \ held)
    <3>1. DOMAIN ViewOf(own, held, db) = DOMAIN own \cup (DOMAIN db \ held)
      BY ViewTables DEF Sees
    <3> QED
      BY <3>1, ViewIs DEF Commit
  <2>2. DOMAIN own \subseteq held
    BY DEF Inv, TypeOK, JobTypes
  <2>3. \A r \in Replicas : replica[r].made \cap (held' \cup DOMAIN db') = {}
    BY <1>1, <2>1, <2>2 DEF Inv, TypeOK, MadeApart
  <2> QED
    BY <1>1, <2>3 DEF Inv, TypeOK, MadeApart
<1>10. VisitTypes'
  BY <1>1 DEF Inv, TypeOK, VisitTypes
<1>11. ShownInv'
  <2>1. \A t \in DOMAIN db : db[t].run \in Nat /\ db[t].run <= job.round
    BY DEF Inv, TypeOK, IsTables, ShownInv
  <2>2. job.round \in Nat
    BY <1>2
  <2>3. \A t \in DOMAIN db' : db'[t].run <= job'.round
    BY <1>2, <1>6, <2>2
  <2>4. ASSUME NEW v \in Visits, NEW i \in DOMAIN visit[v].shown
        PROVE  DOMAIN db' # {} /\ \A t \in DOMAIN db' : visit[v].shown[i] <= db'[t].run
    <3>1. PICK t \in DOMAIN db : visit[v].shown[i] <= db[t].run
      BY DEF Inv, ShownInv
    <3>2. visit[v].shown[i] \in Nat
      <4>1. visit[v].shown \in Seq(0..Rounds) /\ Rounds \in Nat
        BY DeploymentAssumption DEF Inv, TypeOK, VisitTypes
      <4>2. visit[v].shown[i] \in 0..Rounds
        BY <4>1
      <4> QED
        BY <4>2
    <3>3. visit[v].shown[i] <= job.round
      <4>1. \A x, y, z \in Nat : x <= y /\ y <= z => x <= z
        OBVIOUS
      <4> QED
        BY <2>1, <2>2, <3>1, <3>2, <4>1
    <3> QED
      BY <1>2, <1>3, <3>1, <3>3
  <2> QED
    BY <1>1, <2>3, <2>4 DEF Inv, ShownInv
<1> QED
  BY <1>1, <1>4, <1>5, <1>7, <1>8, <1>9, <1>10, <1>11 DEF Inv, TypeOK

---------------------------------------------------------------------------
(* A replica.                                                              *)

ReplicaStates ==
  {"off", "checking", "creating", "opening", "up", "closing", "down", "leaked", "failed"}

ReplicaRecord ==
  [pc : ReplicaStates, open : 0..3, missing : SUBSET Orm, made : SUBSET Orm]

\* What the invariant says of one replica q when the tables T are committed.
Sound(q, T) ==
  /\ q \in ReplicaRecord
  /\ q.pc = "up" => q.open = 3
  /\ q.pc # "creating" => q.made = {}
  /\ q.pc = "creating" => Orm \subseteq T \cup q.made \cup q.missing
  /\ q.pc \in {"checking", "creating", "opening"} => q.open \in 1..2
  /\ q.pc = "closing" => q.open \in 1..3

LEMMA ReplicasSound ==
  ReplicaTypes /\ ReplicaInv <=>
    /\ replica \in [Replicas -> ReplicaRecord]
    /\ \A r \in Replicas : Sound(replica[r], DOMAIN db)
<1>1. Len(Resources) = 3 /\ Len(Resources) - 1 = 2
  BY ThreeResources
<1> QED
  BY <1>1 DEF ReplicaTypes, ReplicaInv, Sound, ReplicaRecord, ReplicaStates

\* A step of one replica that commits nothing.
LEMMA ReplicaStep ==
  ASSUME Inv, NEW r \in Replicas, NEW q, replica' = [replica EXCEPT ![r] = q],
         Sound(q, DOMAIN db), UNCHANGED <<db, seed, visit>>,
         faults' \in 0..MaxFaults, faults' >= faults,
         q.made \cap (held \cup DOMAIN db) = {},
         \A o \in Replicas \ {r} : q.made \cap replica[o].made = {}
  PROVE  Inv'
<1>1. /\ replica \in [Replicas -> ReplicaRecord]
      /\ \A o \in Replicas : Sound(replica[o], DOMAIN db)
  BY ReplicasSound DEF Inv, TypeOK
<1>2. /\ replica' \in [Replicas -> ReplicaRecord] /\ replica'[r] = q
      /\ \A o \in Replicas \ {r} : replica'[o] = replica[o]
  BY <1>1 DEF Sound
<1>3. \A o \in Replicas : Sound(replica'[o], DOMAIN db')
  BY <1>1, <1>2
<1>4. ReplicaTypes' /\ ReplicaInv'
  <2>1. Len(Resources) = 3 /\ Len(Resources) - 1 = 2
    BY ThreeResources
  <2> QED
    BY <1>2, <1>3, <2>1 DEF ReplicaTypes, ReplicaInv, Sound, ReplicaRecord, ReplicaStates
<1>5. MadeApart'
  <2>1. MadeApart
    BY DEF Inv, TypeOK
  <2>2. \A o \in Replicas : replica'[o].made \cap (held' \cup DOMAIN db') = {}
    BY <1>2, <2>1 DEF MadeApart, seed
  <2>3. ASSUME NEW o \in Replicas, NEW x \in Replicas \ {o}
        PROVE  replica'[o].made \cap replica'[x].made = {}
    BY <1>2, <2>1 DEF MadeApart
  <2> QED
    BY <2>2, <2>3 DEF MadeApart
<1>6. faults \in Nat /\ faults' \in Nat
  BY DeploymentAssumption DEF Inv, TypeOK
<1>7. JobTypes' /\ SeedInv' /\ NamesInv' /\ IsTables(db)' /\ CommittedWhole'
  BY <1>6, SeedSame, NamesSame, DbSame DEF Inv, TypeOK
<1>8. VisitTypes' /\ ShownInv'
  <2>1. job' = job /\ job.round \in Nat
    BY DEF seed, Inv, TypeOK, JobTypes
  <2> QED
    BY <2>1, VisitsSame DEF Inv, TypeOK
<1> QED
  BY <1>4, <1>5, <1>7, <1>8 DEF Inv, TypeOK

\* The steps that make no table.
LEMMA QuietStep ==
  ASSUME Inv, NEW r \in Replicas, NEW q, replica' = [replica EXCEPT ![r] = q],
         Sound(q, DOMAIN db), q.made = {} \/ q.made = replica[r].made,
         UNCHANGED <<db, seed, visit>>, faults' \in 0..MaxFaults, faults' >= faults
  PROVE  Inv'
<1>1. /\ q.made \cap (held \cup DOMAIN db) = {}
      /\ \A o \in Replicas \ {r} : q.made \cap replica[o].made = {}
  BY DEF Inv, TypeOK, MadeApart
<1> QED
  BY <1>1, ReplicaStep

LEMMA ReplicaIs ==
  ASSUME Inv, NEW r \in Replicas
  PROVE  /\ replica[r] \in ReplicaRecord /\ Sound(replica[r], DOMAIN db)
         /\ replica \in [Replicas -> ReplicaRecord]
BY ReplicasSound DEF Inv, TypeOK

LEMMA FaultsGrow ==
  ASSUME Inv
  PROVE  /\ faults' = faults => faults' \in 0..MaxFaults /\ faults' >= faults
         /\ faults < MaxFaults /\ faults' = faults + 1 => faults' \in 0..MaxFaults /\ faults' >= faults
<1>1. faults \in 0..MaxFaults /\ MaxFaults \in Nat
  BY DeploymentAssumption DEF Inv, TypeOK
<1> QED
  BY <1>1

LEMMA OpenEngineKeeps ==
  ASSUME Inv, NEW r \in Replicas, OpenEngine(r)
  PROVE  Inv'
<1>1. PICK pc \in {"checking", "opening"} : pc = IF AutoCreate THEN "checking" ELSE "opening"
  OBVIOUS
<1> DEFINE q == [replica[r] EXCEPT !.pc = pc, !.open = 1]
<1>2. replica' = [replica EXCEPT ![r] = q] /\ UNCHANGED <<db, seed, visit, faults>>
  BY <1>1, ReplicaIs DEF OpenEngine, ReplicaRecord
<1>3. /\ replica[r] \in ReplicaRecord /\ replica[r].made = {}
      /\ pc \in ReplicaStates /\ 1 \in 0..3 /\ 1 \in 1..2
  BY ReplicaIs DEF OpenEngine, Sound, ReplicaStates
<1>4. q \in ReplicaRecord /\ q.made = {} /\ q.pc = pc /\ q.open = 1
  BY <1>3 DEF ReplicaRecord
<1> HIDE DEF q
<1>5. Sound(q, DOMAIN db)
  BY <1>1, <1>3, <1>4 DEF Sound
<1> QED
  BY <1>2, <1>4, <1>5, QuietStep, FaultsGrow

LEMMA CheckTablesKeeps ==
  ASSUME Inv, NEW r \in Replicas, CheckTables(r)
  PROVE  Inv'
<1> DEFINE q == [replica[r] EXCEPT !.pc = "creating", !.missing = Orm \ DOMAIN db]
<1>1. replica' = [replica EXCEPT ![r] = q] /\ UNCHANGED <<db, seed, visit, faults>>
  BY ReplicaIs DEF CheckTables, ReplicaRecord, Orm
<1>2. /\ replica[r] \in ReplicaRecord /\ replica[r].made = {} /\ replica[r].open \in 1..2
  BY ReplicaIs DEF CheckTables, Sound
<1>3. Sound(q, DOMAIN db) /\ q.made = {}
  BY <1>2 DEF Sound, ReplicaRecord, ReplicaStates
<1> QED
  BY <1>1, <1>3, QuietStep, FaultsGrow

LEMMA CreateTableKeeps ==
  ASSUME Inv, NEW r \in Replicas, CreateTable(r)
  PROVE  Inv'
<1>1. PICK t : /\ t \in replica[r].missing /\ ~ Held(t)
               /\ \A o \in Replicas \ {r} : t \notin replica[o].made
               /\ \/ /\ t \in DOMAIN db
                     /\ replica' = [replica EXCEPT ![r].pc = "failed", ![r].made = {}]
                  \/ /\ t \notin DOMAIN db
                     /\ replica' = [replica EXCEPT ![r].missing = @ \ {t}, ![r].made = @ \cup {t}]
  BY DEF CreateTable
<1>2. replica[r].pc = "creating" /\ UNCHANGED <<db, seed, visit, faults>>
  BY DEF CreateTable
<1>3. /\ replica[r] \in ReplicaRecord /\ replica \in [Replicas -> ReplicaRecord]
      /\ replica[r].open \in 1..2
      /\ Orm \subseteq DOMAIN db \cup replica[r].made \cup replica[r].missing
  BY <1>2, ReplicaIs DEF Sound
<1>4. CASE replica' = [replica EXCEPT ![r].pc = "failed", ![r].made = {}]
  <2> DEFINE q == [replica[r] EXCEPT !.pc = "failed", !.made = {}]
  <2>1. replica' = [replica EXCEPT ![r] = q]
    BY <1>3, <1>4 DEF ReplicaRecord
  <2>2. Sound(q, DOMAIN db) /\ q.made = {}
    BY <1>3 DEF Sound, ReplicaRecord, ReplicaStates
  <2> QED
    BY <1>2, <2>1, <2>2, QuietStep, FaultsGrow
<1>5. CASE /\ t \notin DOMAIN db
           /\ replica' = [replica EXCEPT ![r].missing = replica[r].missing \ {t},
                                         ![r].made = replica[r].made \cup {t}]
  <2> DEFINE q == [replica[r] EXCEPT !.missing = replica[r].missing \ {t},
                                     !.made = replica[r].made \cup {t}]
  <2>1. replica' = [replica EXCEPT ![r] = q]
    BY <1>3, <1>5 DEF ReplicaRecord
  <2>2. Sound(q, DOMAIN db)
    BY <1>1, <1>2, <1>3 DEF Sound, ReplicaRecord
  <2>3. q.made = replica[r].made \cup {t}
    BY <1>3 DEF ReplicaRecord
  <2>4. q.made \cap (held \cup DOMAIN db) = {}
    BY <1>1, <1>5, <2>3 DEF Held, Inv, TypeOK, MadeApart
  <2>5. \A o \in Replicas \ {r} : q.made \cap replica[o].made = {}
    BY <1>1, <2>3 DEF Inv, TypeOK, MadeApart
  <2> QED
    BY <1>2, <2>1, <2>2, <2>4, <2>5, ReplicaStep, FaultsGrow
<1> QED
  BY <1>1, <1>4, <1>5

LEMMA OpenNextKeeps ==
  ASSUME Inv, NEW r \in Replicas, OpenNext(r)
  PROVE  Inv'
<1> DEFINE n == replica[r].open + 1
           q == [replica[r] EXCEPT !.open = n, !.pc = IF n = 3 THEN "up" ELSE "opening"]
<1>1. replica' = [replica EXCEPT ![r] = q] /\ UNCHANGED <<db, seed, visit, faults>>
  BY ReplicaIs, ThreeResources DEF OpenNext, ReplicaRecord
<1>2. /\ replica[r] \in ReplicaRecord /\ replica[r].made = {} /\ replica[r].open \in 1..2
  BY ReplicaIs DEF OpenNext, Sound
<1>3. n \in 0..3 /\ (n # 3 => n \in 1..2)
  BY <1>2
<1> HIDE DEF n
<1>4. Sound(q, DOMAIN db) /\ q.made = {}
  BY <1>2, <1>3 DEF Sound, ReplicaRecord, ReplicaStates
<1> QED
  BY <1>1, <1>4, QuietStep, FaultsGrow

LEMMA BreakStartKeeps ==
  ASSUME Inv, NEW r \in Replicas, BreakStart(r)
  PROVE  Inv'
<1> DEFINE q == [replica[r] EXCEPT !.pc = "failed", !.missing = {}, !.made = {}]
<1>1. /\ replica' = [replica EXCEPT ![r] = q] /\ UNCHANGED <<db, seed, visit>>
      /\ faults < MaxFaults /\ faults' = faults + 1
  BY ReplicaIs DEF BreakStart, ReplicaRecord
<1>2. replica[r] \in ReplicaRecord
  BY ReplicaIs
<1>3. Sound(q, DOMAIN db) /\ q.made = {}
  BY <1>2 DEF Sound, ReplicaRecord, ReplicaStates
<1> QED
  BY <1>1, <1>3, QuietStep, FaultsGrow

LEMMA RestartKeeps ==
  ASSUME Inv, NEW r \in Replicas, Restart(r)
  PROVE  Inv'
<1>1. replica' = [replica EXCEPT ![r] = Off] /\ UNCHANGED <<db, seed, visit, faults>>
  BY DEF Restart
<1>2. Sound(Off, DOMAIN db) /\ Off.made = {}
  BY DEF Off, Sound, ReplicaRecord, ReplicaStates
<1> QED
  BY <1>1, <1>2, QuietStep, FaultsGrow

LEMMA ShutdownKeeps ==
  ASSUME Inv, NEW r \in Replicas, Shutdown(r)
  PROVE  Inv'
<1> DEFINE q == [replica[r] EXCEPT !.pc = "closing"]
<1>1. replica' = [replica EXCEPT ![r] = q] /\ UNCHANGED <<db, seed, visit, faults>>
  BY ReplicaIs DEF Shutdown, GoTo, ReplicaRecord
<1>2. /\ replica[r] \in ReplicaRecord /\ replica[r].made = {} /\ replica[r].open = 3
  BY ReplicaIs DEF Shutdown, Sound
<1>3. Sound(q, DOMAIN db) /\ q.made = {}
  BY <1>2 DEF Sound, ReplicaRecord, ReplicaStates
<1> QED
  BY <1>1, <1>3, QuietStep, FaultsGrow

LEMMA CloseNextKeeps ==
  ASSUME Inv, NEW r \in Replicas, CloseNext(r)
  PROVE  Inv'
<1> DEFINE n == replica[r].open
           q == [replica[r] EXCEPT !.open = n - 1, !.pc = IF n = 1 THEN "down" ELSE "closing"]
<1>1. replica' = [replica EXCEPT ![r] = q] /\ UNCHANGED <<db, seed, visit, faults>>
  BY ReplicaIs DEF CloseNext, ReplicaRecord
<1>2. /\ replica[r] \in ReplicaRecord /\ replica[r].made = {} /\ n \in 1..3
  BY ReplicaIs DEF CloseNext, Sound
<1>3. n - 1 \in 0..3 /\ (n # 1 => n - 1 \in 1..3)
  BY <1>2
<1> HIDE DEF n
<1>4. Sound(q, DOMAIN db) /\ q.made = {}
  BY <1>2, <1>3 DEF Sound, ReplicaRecord, ReplicaStates
<1> QED
  BY <1>1, <1>4, QuietStep, FaultsGrow

LEMMA BreakCloseKeeps ==
  ASSUME Inv, NEW r \in Replicas, BreakClose(r)
  PROVE  Inv'
<1> DEFINE q == [replica[r] EXCEPT !.pc = "leaked"]
<1>1. /\ replica' = [replica EXCEPT ![r] = q] /\ UNCHANGED <<db, seed, visit>>
      /\ faults < MaxFaults /\ faults' = faults + 1
  BY ReplicaIs DEF BreakClose, GoTo, ReplicaRecord
<1>2. replica[r] \in ReplicaRecord /\ replica[r].made = {}
  BY ReplicaIs DEF BreakClose, Sound
<1>3. Sound(q, DOMAIN db) /\ q.made = {}
  BY <1>2 DEF Sound, ReplicaRecord, ReplicaStates
<1> QED
  BY <1>1, <1>3, QuietStep, FaultsGrow

\* create_all makes all of its tables or, when something is there, none.
LEMMA OrmOrNothing ==
  ASSUME Orm \subseteq Tables, Inv, NEW r \in Replicas, CommitTables(r)
  PROVE  \/ /\ DOMAIN db = {} /\ replica[r].made = Orm
            /\ DOMAIN db' = Orm /\ \A t \in Orm : db'[t] = OrmTable(t)
         \/ /\ DOMAIN db # {} /\ replica[r].made = {} /\ Orm \subseteq DOMAIN db
            /\ DOMAIN db' = DOMAIN db /\ \A t \in DOMAIN db : db'[t] = db[t]
<1> DEFINE made == replica[r].made
           new == [t \in made |-> OrmTable(t)]
<1>1. /\ made \subseteq Orm /\ Orm \subseteq DOMAIN db \cup made
      /\ made \cap DOMAIN db = {}
  <2>1. replica[r] \in ReplicaRecord /\ Sound(replica[r], DOMAIN db)
    BY ReplicaIs
  <2> QED
    BY <2>1 DEF CommitTables, Sound, ReplicaRecord, Inv, TypeOK, MadeApart
<1>2. db' = Over(new, db)
  BY DEF CommitTables
<1>3. /\ DOMAIN Over(new, db) = DOMAIN new \cup DOMAIN db
      /\ \A t \in DOMAIN new : Over(new, db)[t] = new[t]
      /\ \A t \in DOMAIN db \ DOMAIN new : Over(new, db)[t] = db[t]
  BY OverDomain
<1>4. DOMAIN new = made /\ \A t \in made : new[t] = OrmTable(t)
  OBVIOUS
<1>5. DOMAIN db # {} => Orm \subseteq DOMAIN db
  BY OrmCommitted DEF Inv
<1> HIDE DEF made, new
<1>6. /\ DOMAIN db' = made \cup DOMAIN db
      /\ \A t \in made : db'[t] = OrmTable(t)
      /\ \A t \in DOMAIN db : db'[t] = db[t]
  BY <1>1, <1>2, <1>3, <1>4
<1>7. CASE DOMAIN db = {}
  <2>1. made = Orm
    BY <1>1, <1>7
  <2> QED
    BY <1>6, <1>7, <2>1 DEF made
<1>8. CASE DOMAIN db # {}
  <2>1. made = {} /\ Orm \subseteq DOMAIN db
    BY <1>1, <1>5, <1>8
  <2> QED
    BY <1>6, <1>8, <2>1 DEF made
<1> QED
  BY <1>7, <1>8

LEMMA CommitTablesKeeps ==
  ASSUME Orm \subseteq Tables, Inv, NEW r \in Replicas, CommitTables(r)
  PROVE  Inv'
<1>1. /\ replica' = [replica EXCEPT ![r].pc = "opening", ![r].made = {}]
      /\ replica[r].pc = "creating" /\ UNCHANGED <<job, held, own, visit, faults>>
  BY DEF CommitTables, seed
<1>2. /\ replica \in [Replicas -> ReplicaRecord]
      /\ \A o \in Replicas : replica[o] \in ReplicaRecord /\ Sound(replica[o], DOMAIN db)
  BY ReplicaIs
<1>3. DOMAIN db' = DOMAIN db \cup replica[r].made
  BY OrmOrNothing
<1>4. /\ replica' \in [Replicas -> ReplicaRecord]
      /\ \A o \in Replicas \ {r} : replica'[o] = replica[o]
      /\ Sound(replica'[r], DOMAIN db') /\ replica'[r].made = {}
  <2> DEFINE q == [replica[r] EXCEPT !.pc = "opening", !.made = {}]
  <2>1. replica' = [replica EXCEPT ![r] = q]
    BY <1>1, <1>2 DEF ReplicaRecord
  <2>2. replica[r].open \in 1..2
    BY <1>1, <1>2 DEF Sound
  <2>3. q \in ReplicaRecord /\ q.pc = "opening" /\ q.made = {} /\ q.open \in 1..2
    BY <1>2, <2>2 DEF ReplicaRecord, ReplicaStates
  <2>4. Sound(q, DOMAIN db')
    BY <2>3 DEF Sound
  <2> HIDE DEF q
  <2> QED
    BY <1>2, <2>1, <2>3, <2>4
<1>5. \A o \in Replicas : Sound(replica'[o], DOMAIN db')
  BY <1>2, <1>3, <1>4 DEF Sound
<1>6. ReplicaTypes' /\ ReplicaInv'
  <2>1. Len(Resources) = 3 /\ Len(Resources) - 1 = 2
    BY ThreeResources
  <2> QED
    BY <1>4, <1>5, <2>1 DEF ReplicaTypes, ReplicaInv, Sound, ReplicaRecord, ReplicaStates
<1>7. MadeApart'
  <2>1. MadeApart
    BY DEF Inv, TypeOK
  <2>2. \A o \in Replicas : replica'[o].made \cap (held' \cup DOMAIN db') = {}
    BY <1>1, <1>3, <1>4, <2>1 DEF MadeApart
  <2>3. ASSUME NEW o \in Replicas, NEW x \in Replicas \ {o}
        PROVE  replica'[o].made \cap replica'[x].made = {}
    BY <1>4, <2>1 DEF MadeApart
  <2> QED
    BY <2>2, <2>3 DEF MadeApart
<1>8. JobTypes' /\ SeedInv'
  BY <1>1, SeedSame DEF Inv, TypeOK, seed
<1>9. VisitTypes' /\ faults' \in 0..MaxFaults
  BY <1>1 DEF Inv, TypeOK, VisitTypes
<1>10. /\ job.left \in 0..Attempts /\ Attempts \in Nat /\ job.round \in Nat /\ Rounds \in Nat
  BY DeploymentAssumption DEF Inv, TypeOK, JobTypes
<1>11. CASE DOMAIN db = {} /\ DOMAIN db' = Orm /\ \A t \in Orm : db'[t] = OrmTable(t)
  <2>1. \A t \in Orm : /\ OrmTable(t).run = 0 /\ OrmTable(t).rows = "none"
                      /\ OrmTable(t).refs \subseteq Orm
    BY OrmNames DEF OrmTable
  <2>2. 0 \in 0..Rounds /\ 0 <= job.round
    BY <1>10
  <2>3. IsTables(db)'
    BY <1>11, <2>1, <2>2 DEF IsTables
  <2>4. CommittedWhole'
    BY <1>11 DEF CommittedWhole, Orm
  <2>5. NamesInv'
    <3>1. job.pc = "running" => job.left = Attempts \/ ~ (faults = 0)
      <4>1. job.left < Attempts \/ job.left = Attempts
        BY <1>10
      <4> QED
        BY <1>11, <4>1, OrmNames DEF Inv, NamesInv
    <3>2. ~ (faults = 0) => faults > 0
      BY DeploymentAssumption DEF Inv, TypeOK
    <3> QED
      BY <1>1, <1>11, <3>1, <3>2 DEF NamesInv, Executed
  <2>6. ShownInv'
    BY <1>1, <1>11, <2>1, <2>2 DEF Inv, ShownInv
  <2> QED
    BY <1>6, <1>7, <1>8, <1>9, <2>3, <2>4, <2>5, <2>6 DEF Inv, TypeOK
<1>12. CASE /\ DOMAIN db # {} /\ Orm \subseteq DOMAIN db
            /\ DOMAIN db' = DOMAIN db /\ \A t \in DOMAIN db : db'[t] = db[t]
  <2>1. IsTables(db)'
    BY <1>12 DEF Inv, TypeOK, IsTables
  <2>2. CommittedWhole'
    BY <1>12 DEF Inv, CommittedWhole
  <2>3. NamesInv'
    BY <1>1, <1>12 DEF Inv, NamesInv, Executed
  <2>4. ShownInv'
    BY <1>1, <1>12 DEF Inv, ShownInv
  <2> QED
    BY <1>6, <1>7, <1>8, <1>9, <2>1, <2>2, <2>3, <2>4 DEF Inv, TypeOK
<1> QED
  BY <1>11, <1>12, OrmOrNothing

---------------------------------------------------------------------------
(* A page.                                                                 *)

\* A step of one visit.
LEMMA VisitStep ==
  ASSUME Inv, VisitTypes', ShownInv', UNCHANGED <<db, seed, replica, faults>>
  PROVE  Inv'
<1>1. IsTables(db)' /\ CommittedWhole'
  BY DbSame DEF Inv, TypeOK
<1>2. faults \in Nat /\ faults' = faults /\ faults' >= faults
  BY DeploymentAssumption DEF Inv, TypeOK
<1>3. JobTypes' /\ SeedInv' /\ NamesInv'
  BY <1>2, SeedSame, NamesSame DEF Inv, TypeOK
<1>4. ReplicaTypes' /\ ReplicaInv' /\ MadeApart'
  <2>1. MadeApart'
    BY DEF Inv, TypeOK, MadeApart, seed
  <2> QED
    BY <2>1, ReplicasSame DEF Inv, TypeOK
<1> QED
  BY <1>1, <1>2, <1>3, <1>4 DEF Inv, TypeOK

LEMMA AskKeeps ==
  ASSUME Inv, NEW v \in Visits, Ask(v)
  PROVE  Inv'
<1>1. PICK page \in DOMAIN Pages :
        visit' = [visit EXCEPT ![v].pc = "reading", ![v].page = page]
  BY DEF Ask
<1>2. visit[v].pc = "none" /\ UNCHANGED <<db, seed, replica, faults>>
  BY DEF Ask
<1>3. Len(visit[v].shown) = 0 /\ Len(Pages[page]) \in Nat /\ Len(Pages[page]) >= 1
  BY <1>2, PagesAsk DEF Inv, ShownInv
<1>4. Len(visit[v].shown) < Len(Pages[page])
  BY <1>3
<1>5. VisitTypes'
  BY <1>1, <1>4 DEF Inv, TypeOK, VisitTypes
<1>6. ShownInv'
  <2>1. \A o \in Visits : visit'[o].shown = visit[o].shown
    BY <1>1 DEF Inv, TypeOK, VisitTypes
  <2>2. \A o \in Visits : visit'[o].pc = "none" => visit[o].pc = "none"
    BY <1>1 DEF Inv, TypeOK, VisitTypes
  <2>3. db' = db /\ job' = job
    BY <1>2 DEF seed
  <2> QED
    BY <2>1, <2>2, <2>3 DEF Inv, ShownInv
<1> QED
  BY <1>2, <1>5, <1>6, VisitStep

\* Two committed tables are of the same run.
LEMMA OneRun ==
  ASSUME Inv
  PROVE  /\ \A t \in DOMAIN db : db[t].run \in 0..Rounds /\ db[t].run \in Nat
         /\ \A t, o \in DOMAIN db : db[t].run = db[o].run
<1>1. \A t \in DOMAIN db : db[t].run \in 0..Rounds /\ db[t].run \in Nat
  BY DeploymentAssumption DEF Inv, TypeOK, IsTables
<1>2. \A t, o \in DOMAIN db : db[t].run = db[o].run
  BY DEF Inv, CommittedWhole, OrmTable
<1> QED
  BY <1>1, <1>2

\* A query shows nothing, or the run of a committed table.
LEMMA QueryShows ==
  ASSUME Inv, NEW v \in Visits, Query(v)
  PROVE  \E pc \in {"reading", "shown", "missing", "error"} :
           \/ /\ visit' = [visit EXCEPT ![v].pc = pc] /\ pc # "reading"
           \/ \E t \in DOMAIN db :
                /\ visit' = [visit EXCEPT ![v].shown = Append(visit[v].shown, db[t].run), ![v].pc = pc]
                /\ pc = "reading" => Len(visit[v].shown) + 1 # Len(Pages[visit[v].page])
<1>1. PICK asked \in {Len(visit[v].shown) + 1} : \E t \in {Pages[visit[v].page][asked]} :
        \/ /\ t \notin DOMAIN db
           /\ visit' = [visit EXCEPT ![v].pc = "missing"]
        \/ /\ t \in DOMAIN db /\ ~ Held(t) /\ Unmapped(visit[v].page, db[t])
           /\ visit' = [visit EXCEPT ![v].pc = "error"]
        \/ /\ t \in DOMAIN db /\ ~ Held(t) /\ ~ Unmapped(visit[v].page, db[t])
           /\ visit' = [visit EXCEPT ![v].shown = Append(@, db[t].run),
                ![v].pc = IF asked = Len(Pages[visit[v].page]) THEN "shown" ELSE "reading"]
  BY DEF Query
<1>2. PICK t : t = Pages[visit[v].page][asked]
  OBVIOUS
<1>3. CASE t \in DOMAIN db
           /\ visit' = [visit EXCEPT ![v].shown = Append(visit[v].shown, db[t].run),
                ![v].pc = IF asked = Len(Pages[visit[v].page]) THEN "shown" ELSE "reading"]
  <2>1. PICK pc \in {"reading", "shown"} :
          pc = IF asked = Len(Pages[visit[v].page]) THEN "shown" ELSE "reading"
    OBVIOUS
  <2>2. pc = "reading" => Len(visit[v].shown) + 1 # Len(Pages[visit[v].page])
    BY <1>1, <2>1
  <2>3. visit' = [visit EXCEPT ![v].shown = Append(visit[v].shown, db[t].run), ![v].pc = pc]
    BY <1>3, <2>1
  <2> QED
    BY <1>3, <2>1, <2>2, <2>3
<1>4. CASE visit' = [visit EXCEPT ![v].pc = "missing"] \/ visit' = [visit EXCEPT ![v].pc = "error"]
  BY <1>4
<1> QED
  BY <1>1, <1>2, <1>3, <1>4

LEMMA QueryKeeps ==
  ASSUME Inv, NEW v \in Visits, Query(v)
  PROVE  Inv' /\ (PagesNeverGoBack => PagesNeverGoBack')
<1>1. visit[v].pc = "reading" /\ UNCHANGED <<db, seed, replica, faults>>
  BY DEF Query
<1>2. job' = job /\ held' = held /\ db' = db
  BY <1>1 DEF seed
<1>3. /\ visit \in [Visits -> [pc : {"none", "reading", "shown", "missing", "error"},
                              page : DOMAIN Pages \cup {""}, shown : Seq(0..Rounds)]]
      /\ visit[v].page \in DOMAIN Pages /\ Len(visit[v].shown) < Len(Pages[visit[v].page])
  BY <1>1 DEF Inv, TypeOK, VisitTypes
<1>4. PICK pc \in {"reading", "shown", "missing", "error"} :
        \/ /\ visit' = [visit EXCEPT ![v].pc = pc] /\ pc # "reading"
        \/ \E t \in DOMAIN db :
             /\ visit' = [visit EXCEPT ![v].shown = Append(visit[v].shown, db[t].run), ![v].pc = pc]
             /\ pc = "reading" => Len(visit[v].shown) + 1 # Len(Pages[visit[v].page])
  BY QueryShows
<1>5. CASE visit' = [visit EXCEPT ![v].pc = pc] /\ pc # "reading"
  <2>1. VisitTypes'
    BY <1>3, <1>5 DEF Inv, TypeOK, VisitTypes
  <2>2. /\ \A o \in Visits : visit'[o].shown = visit[o].shown
        /\ \A o \in Visits : visit'[o].pc = "none" => visit[o].pc = "none"
    BY <1>3, <1>5
  <2>3. ShownInv' /\ (PagesNeverGoBack => PagesNeverGoBack')
    BY <1>2, <2>2 DEF Inv, ShownInv, PagesNeverGoBack
  <2> QED
    BY <1>1, <2>1, <2>3, VisitStep
<1>6. ASSUME NEW t \in DOMAIN db,
             visit' = [visit EXCEPT ![v].shown = Append(visit[v].shown, db[t].run), ![v].pc = pc],
             pc = "reading" => Len(visit[v].shown) + 1 # Len(Pages[visit[v].page])
      PROVE  Inv' /\ (PagesNeverGoBack => PagesNeverGoBack')
  <2>1. db[t].run \in 0..Rounds /\ db[t].run \in Nat /\ \A o \in DOMAIN db : db[o].run = db[t].run
    BY OneRun
  <2>2. PICK old \in Seq(0..Rounds), k \in Nat :
          /\ old = visit[v].shown /\ k = Len(old)
    <3>1. visit[v].shown \in Seq(0..Rounds)
      BY <1>3
    <3>2. Len(visit[v].shown) \in Nat
      BY <3>1, LenProperties
    <3> QED
      BY <3>1, <3>2
  <2> DEFINE new == Append(old, db[t].run)
  <2>3. /\ new \in Seq(0..Rounds) /\ Len(new) = k + 1 /\ DOMAIN new = 1..k + 1 /\ DOMAIN old = 1..k
        /\ new[k + 1] = db[t].run /\ \A i \in 1..k : new[i] = old[i]
    BY <2>1, <2>2, AppendProperties
  <2> HIDE DEF new
  <2>4. /\ visit'[v].shown = new /\ visit'[v].pc = pc /\ visit'[v].page = visit[v].page
        /\ \A o \in Visits \ {v} : visit'[o] = visit[o]
        /\ visit' \in [Visits -> [pc : {"none", "reading", "shown", "missing", "error"},
                                 page : DOMAIN Pages \cup {""}, shown : Seq(0..Rounds)]]
    <3> DEFINE q == [visit[v] EXCEPT !.shown = new, !.pc = pc]
    <3>1. visit' = [visit EXCEPT ![v] = q]
      BY <1>3, <1>6, <2>2 DEF new
    <3>2. /\ q \in [pc : {"none", "reading", "shown", "missing", "error"},
                    page : DOMAIN Pages \cup {""}, shown : Seq(0..Rounds)]
          /\ q.shown = new /\ q.pc = pc /\ q.page = visit[v].page
      BY <1>3, <2>3
    <3> HIDE DEF q
    <3> QED
      BY <1>3, <3>1, <3>2
  <2>5. VisitTypes'
    <3>1. pc = "reading" => Len(new) < Len(Pages[visit[v].page])
      <4>1. \A x, y \in Nat : x < y /\ x + 1 # y => x + 1 < y
        OBVIOUS
      <4>2. PICK n \in Nat : n = Len(Pages[visit[v].page])
        BY <1>3, PagesAsk
      <4>3. k < n /\ (pc = "reading" => k + 1 # n)
        BY <1>3, <1>6, <2>2, <4>2
      <4>4. k < n /\ k + 1 # n => k + 1 < n
        BY <4>1
      <4> QED
        BY <2>3, <4>2, <4>3, <4>4
    <3> QED
      BY <1>3, <2>4, <3>1 DEF Inv, TypeOK, VisitTypes
  <2>6. \A i \in DOMAIN old : old[i] <= db[t].run
    BY <2>2 DEF Inv, ShownInv
  <2>7. \A i \in DOMAIN new : new[i] <= db[t].run
    <3>1. db[t].run <= db[t].run /\ \A i \in 1..k + 1 : i \in 1..k \/ i = k + 1
      BY <2>1, <2>2
    <3> QED
      BY <2>3, <2>6, <3>1
  <2>8. ShownInv'
    <3>1. \A i \in DOMAIN new : DOMAIN db # {} /\ \A o \in DOMAIN db : new[i] <= db[o].run
      BY <2>1, <2>7
    <3>2. \A o \in Visits : visit'[o].pc = "none" => o # v
      BY <2>4
    <3> QED
      BY <1>2, <2>4, <3>1, <3>2 DEF Inv, ShownInv
  <2>9. PagesNeverGoBack => PagesNeverGoBack'
    <3> SUFFICES ASSUME PagesNeverGoBack, NEW i \in DOMAIN new, NEW j \in DOMAIN new, i < j
                 PROVE  new[i] <= new[j]
      BY <2>4 DEF PagesNeverGoBack
    <3>1. i \in 1..k /\ (j \in 1..k \/ j = k + 1)
      BY <2>2, <2>3
    <3>2. CASE j = k + 1
      BY <2>3, <2>7, <3>2
    <3>3. CASE j \in 1..k
      BY <2>2, <2>3, <3>1, <3>3 DEF PagesNeverGoBack
    <3> QED
      BY <3>1, <3>2, <3>3
  <2> QED
    BY <1>1, <2>5, <2>8, <2>9, VisitStep
<1> QED
  BY <1>4, <1>5, <1>6

---------------------------------------------------------------------------
(* The invariant holds.                                                    *)

LEMMA InitInv ==
  ASSUME ScriptInOrder, Init
  PROVE  Inv
<1>1. /\ 1 \in 1..Len(Script) + 1 /\ 0 \in 0..Rounds /\ 0 \in 0..Attempts /\ 0 \in 0..MaxFaults
  BY ScriptShape, DeploymentAssumption
<1>2. DOMAIN db = {} /\ DOMAIN own = {} /\ DOMAIN Nothing = {}
  BY DEF Init, Nothing
<1>3. IsTables(db) /\ CommittedWhole
  BY <1>2 DEF IsTables, CommittedWhole
<1>4. JobTypes /\ SeedInv /\ NamesInv
  BY <1>1, <1>2 DEF Init, JobTypes, SeedInv, NamesInv
<1>5. ReplicaTypes /\ ReplicaInv /\ MadeApart
  <2>1. Off \in ReplicaRecord /\ Off.pc = "off" /\ Off.made = {}
    BY DEF Off, ReplicaRecord, ReplicaStates
  <2>2. replica = [r \in Replicas |-> Off]
    BY DEF Init
  <2>3. \A r \in Replicas : Sound(replica[r], DOMAIN db) /\ replica[r].made = {}
    BY <2>1, <2>2 DEF Sound
  <2>4. replica \in [Replicas -> ReplicaRecord]
    BY <2>1, <2>2
  <2>5. ReplicaTypes /\ ReplicaInv
    BY <2>3, <2>4, ReplicasSound
  <2> QED
    BY <2>3, <2>5 DEF MadeApart
<1>6. VisitTypes
  <2>1. <<>> \in Seq(0..Rounds)
    OBVIOUS
  <2> QED
    BY <2>1 DEF Init, VisitTypes
<1>7. ShownInv
  <2>1. \A v \in Visits : visit[v].shown = <<>>
    BY DEF Init
  <2>2. Len(<<>>) = 0 /\ DOMAIN <<>> = {}
    OBVIOUS
  <2> QED
    BY <1>2, <2>1, <2>2 DEF ShownInv
<1>8. faults \in 0..MaxFaults
  BY <1>1 DEF Init
<1> QED
  BY <1>3, <1>4, <1>5, <1>6, <1>7, <1>8 DEF Inv, TypeOK

LEMMA StutterKeeps ==
  ASSUME Inv, UNCHANGED vars
  PROVE  Inv'
<1>1. UNCHANGED <<db, seed, replica, visit, faults>> /\ job' = job
  BY DEF vars, seed
<1>2. VisitTypes' /\ ShownInv'
  BY <1>1 DEF Inv, TypeOK, VisitTypes, ShownInv
<1> QED
  BY <1>1, <1>2, VisitStep

LEMMA NextKeeps ==
  ASSUME ScriptInOrder, Orm \subseteq Tables, Inv, [Next]_vars
  PROVE  Inv'
<1>1. CASE StartSeed \/ Seeding \/ BreakSeed
  BY <1>1, StartKeeps, ExecuteKeeps, CommitKeeps, BreakKeeps DEF Seeding
<1>2. ASSUME NEW r \in Replicas, Starting(r) PROVE Inv'
  BY <1>2, OpenEngineKeeps, CheckTablesKeeps, CreateTableKeeps, CommitTablesKeeps,
     OpenNextKeeps, RestartKeeps DEF Starting
<1>3. ASSUME NEW r \in Replicas, BreakStart(r) \/ Shutdown(r) \/ CloseNext(r) \/ BreakClose(r)
      PROVE  Inv'
  BY <1>3, BreakStartKeeps, ShutdownKeeps, CloseNextKeeps, BreakCloseKeeps
<1>4. ASSUME NEW v \in Visits, Ask(v) \/ Query(v) PROVE Inv'
  BY <1>4, AskKeeps, QueryKeeps
<1>5. CASE UNCHANGED vars
  BY <1>5, StutterKeeps
<1> QED
  BY <1>1, <1>2, <1>3, <1>4, <1>5 DEF Next

LEMMA ScriptMakes == ScriptMakesAll
<1>1. Orm \subseteq Tables
  BY OrmNames, NamesAreTables DEF Names, CoreNames
<1> QED
  BY <1>1, ScriptIsInOrder DEF ScriptMakesAll

LEMMA Invariance == Spec => []Inv
<1>1. ScriptInOrder /\ Orm \subseteq Tables
  BY ScriptMakes DEF ScriptMakesAll
<1>2. Init => Inv
  BY <1>1, InitInv
<1>3. Inv /\ [Next]_vars => Inv'
  BY <1>1, NextKeeps
<1> QED
  BY <1>2, <1>3, PTL DEF Spec

---------------------------------------------------------------------------

(* The shapes hold: a replica serves only with every resource open, and a   *)
(* table is never made by two transactions at once (lifespan in main.py and  *)
(* create_all against the transaction of seed_hotels.py).                    *)
THEOREM Typed == Spec => []TypeOK
<1>1. Inv => TypeOK
  BY DEF Inv
<1> QED
  BY <1>1, Invariance, PTL

(* What readers find is the whole warehouse of one run, computed in order,   *)
(* or before the first run the empty tables of the application, whatever     *)
(* fails, is retried or starts meanwhile (seed in seed_hotels.py).           *)
THEOREM WarehouseIsWhole == Spec => []CommittedWhole
<1>1. Inv => CommittedWhole
  BY DEF Inv
<1> QED
  BY <1>1, Invariance, PTL

(* A page of several queries, each in a session of its own, never shows      *)
(* figures of an older run after those of a newer one                        *)
(* (HotelManagementReportService.get_index_context).                         *)
THEOREM NoPageGoesBack == Spec => []PagesNeverGoBack
<1>1. Init => PagesNeverGoBack
  <2> SUFFICES ASSUME Init PROVE PagesNeverGoBack
    OBVIOUS
  <2>1. \A v \in Visits : visit[v].shown = <<>>
    BY DEF Init
  <2>2. DOMAIN <<>> = {}
    OBVIOUS
  <2> QED
    BY <2>1, <2>2 DEF PagesNeverGoBack
<1>2. Inv /\ PagesNeverGoBack /\ [Next]_vars => PagesNeverGoBack'
  <2> SUFFICES ASSUME Inv, PagesNeverGoBack, [Next]_vars
               PROVE  PagesNeverGoBack'
    OBVIOUS
  <2>1. ASSUME NEW v \in Visits, Query(v) PROVE PagesNeverGoBack'
    BY <2>1, QueryKeeps
  <2>2. ASSUME NEW v \in Visits, Ask(v) PROVE PagesNeverGoBack'
    <3>1. \A o \in Visits : visit'[o].shown = visit[o].shown
      <4>1. PICK page : visit' = [visit EXCEPT ![v].pc = "reading", ![v].page = page]
        BY <2>2 DEF Ask
      <4> QED
        BY <4>1 DEF Inv, TypeOK, VisitTypes
    <3> QED
      BY <3>1 DEF PagesNeverGoBack
  <2>3. CASE UNCHANGED visit
    BY <2>3 DEF PagesNeverGoBack
  <2>4. CASE StartSeed \/ Seeding \/ BreakSeed
    BY <2>3, <2>4 DEF StartSeed, Seeding, Execute, Commit, BreakSeed
  <2>5. ASSUME NEW r \in Replicas,
               Starting(r) \/ BreakStart(r) \/ Shutdown(r) \/ CloseNext(r) \/ BreakClose(r)
        PROVE  PagesNeverGoBack'
    BY <2>3, <2>5 DEF Starting, OpenEngine, CheckTables, CreateTable, CommitTables, OpenNext,
       Restart, BreakStart, Shutdown, CloseNext, BreakClose
  <2> QED
    BY <2>1, <2>2, <2>3, <2>4, <2>5 DEF Next, vars
<1> QED
  BY <1>1, <1>2, Invariance, PTL DEF Spec

(* A job that may be retried is not given up without a fault: the start of   *)
(* the application beside it costs it one try at most (backoffLimit in       *)
(* infra/k8s/jobs/seed-job.yml, create_all in container.py).                 *)
THEOREM JobsFailByFault ==
  ASSUME Attempts > 1
  PROVE  Spec => []JobFailsByFault
<1>1. Init => JobFailsByFault
  <2> SUFFICES ASSUME Init PROVE JobFailsByFault
    OBVIOUS
  <2>1. job.pc = "idle"
    BY DEF Init
  <2> QED
    BY <2>1 DEF JobFailsByFault
<1>2. Inv /\ JobFailsByFault /\ [Next]_vars => JobFailsByFault'
  <2> SUFFICES ASSUME Inv, JobFailsByFault, [Next]_vars
               PROVE  JobFailsByFault'
    OBVIOUS
  <2>1. faults \in Nat
    BY DeploymentAssumption DEF Inv, TypeOK
  <2>2. CASE UNCHANGED <<job, faults>>
    BY <2>2 DEF JobFailsByFault
  <2>3. CASE StartSeed
    BY <2>3 DEF StartSeed, JobFailsByFault
  <2>4. CASE Commit
    BY <2>4 DEF Commit, JobFailsByFault, Inv, TypeOK, JobTypes
  <2>5. CASE BreakSeed
    BY <2>1, <2>5 DEF BreakSeed, JobFailsByFault
  <2>6. CASE Execute
    <3>1. Ready /\ faults' = faults /\ job.pc = "running"
      BY <2>6 DEF Execute, Ready
    <3>2. CASE Outcomes(Part, View, job.round) = {} /\ Abort
      <4>1. faults > 0 \/ job.left = Attempts
        BY <3>1, <3>2, RefusalIsOrm, ScriptIsInOrder
      <4>2. CASE faults > 0
        BY <3>1, <4>2 DEF JobFailsByFault
      <4>3. CASE job.left = Attempts
        <5>1. job.left > 1
          BY <4>3
        <5>2. job' = [job EXCEPT !.pc = "running", !.left = job.left - 1, !.at = 1]
          BY <3>2, <5>1 DEF Abort, Retry
        <5> QED
          BY <5>2 DEF JobFailsByFault, Inv, TypeOK, JobTypes
      <4> QED
        BY <4>1, <4>2, <4>3
    <3>3. CASE job' = [job EXCEPT !.at = job.at + 1]
      BY <3>1, <3>3 DEF JobFailsByFault, Inv, TypeOK, JobTypes
    <3> QED
      BY <2>6, <3>2, <3>3 DEF Execute
  <2>7. ASSUME NEW v \in Visits, Ask(v) \/ Query(v) PROVE JobFailsByFault'
    BY <2>2, <2>7 DEF Ask, Query, seed
  <2>8. ASSUME NEW r \in Replicas, Starting(r) \/ Shutdown(r) \/ CloseNext(r)
        PROVE  JobFailsByFault'
    BY <2>2, <2>8 DEF Starting, OpenEngine, CheckTables, CreateTable, CommitTables, OpenNext,
       Restart, Shutdown, CloseNext, seed
  <2>9. ASSUME NEW r \in Replicas, BreakStart(r) \/ BreakClose(r) PROVE JobFailsByFault'
    <3>1. job' = job /\ faults' = faults + 1
      BY <2>9 DEF BreakStart, BreakClose, seed
    <3> QED
      BY <2>1, <3>1 DEF JobFailsByFault
  <2> QED
    BY <2>2, <2>3, <2>4, <2>5, <2>6, <2>7, <2>8, <2>9 DEF Next, vars, seed, Seeding
<1> QED
  BY <1>1, <1>2, Invariance, PTL DEF Spec

---------------------------------------------------------------------------
(* Who waits for whom.                                                     *)

\* The first part makes no table of the application and drops them all; the
\* second makes hotels.
LEMMA OrmInScript ==
  /\ MadeBy(Begun(1, Len(Script[1]))) \cap Orm = {}
  /\ Orm \subseteq DroppedBy(Begun(1, Len(Script[1])))
  /\ "hotels" \in MadeBy(Begun(2, Len(Script[2])))
<1>1. /\ Begun(1, Len(Script[1])) = Range(Script[1])
      /\ Begun(2, Len(Script[2])) = Range(Script[2])
  <2>1. 1 \in DOMAIN Script /\ 2 \in DOMAIN Script
    BY PartsGo
  <2> QED
    BY <2>1, ScriptIsInOrder, ExecutedNext
<1>2. /\ MadeBy(Range(Script[1])) = Dimensions \cup {"bridge_hotel_amenities"}
      /\ DroppedBy(Range(Script[1])) = CoreNames
  <2>1. Reached(Parts(0) \cup Range(Script[1]), DimensionsMade)
    BY PartOneGoes DEF Goes
  <2>2. Parts(0) \cup Range(Script[1]) = Range(Script[1])
    BY DEF Parts
  <2> QED
    BY <2>1, <2>2 DEF Reached, DimensionsMade, Stage
<1>3. "hotels" \in MadeBy(Range(Script[2]))
  <2>1. Script[2] = HotelTable
    BY HotelStatements DEF Script
  <2> QED
    BY <2>1 DEF HotelTable, New, Step, MadeBy, OnBy, Range
<1> QED
  BY <1>1, <1>2, <1>3, OrmNames DEF Dimensions, Codes, CoreNames

LEMMA ExecuteInTurn ==
  ASSUME Inv, HeldInTurn, Execute
  PROVE  HeldInTurn'
<1>1. ScriptInOrder /\ Orm \subseteq Tables
  BY ScriptMakes DEF ScriptMakesAll
<1>2. CASE Abort
  <2>1. held' = {} /\ job' = [job EXCEPT !.pc = IF job.left > 1 THEN "running" ELSE "failed",
                                         !.left = job.left - 1, !.at = 1]
    BY <1>2 DEF Abort, Retry
  <2>2. job'.at = 1
    BY <2>1 DEF Inv, TypeOK, JobTypes
  <2> QED
    BY <2>1, <2>2 DEF HeldInTurn
<1>3. CASE /\ held' = held \cup Locks(Script[job.at], View)
           /\ job' = [job EXCEPT !.at = job.at + 1]
  <2>1. /\ job.pc = "running" /\ job.at \in 1..4 /\ job.at \in DOMAIN Script
        /\ job'.at = job.at + 1
    <3>1. job.pc = "running" /\ job.at <= Len(Script) /\ job.at \in 1..Len(Script) + 1
      BY DEF Execute, Ready, Inv, TypeOK, JobTypes
    <3>2. DOMAIN Script = 1..Len(Script) /\ DOMAIN Script = 1..4 /\ Len(Script) \in Nat
      BY <1>1, PartsGo, ScriptShape
    <3>3. job.at \in 1..Len(Script)
      BY <3>1, <3>2
    <3>4. job'.at = job.at + 1
      BY <1>3 DEF Inv, TypeOK, JobTypes
    <3> QED
      BY <3>1, <3>2, <3>3, <3>4
  <2>2. PICK view, S, B : /\ view = View /\ S = Locks(Script[job.at], view)
                          /\ B = Begun(job.at, Len(Script[job.at]))
    OBVIOUS
  <2>3. /\ MadeBy(B) \subseteq S /\ S \subseteq MadeBy(B) \cup (DroppedBy(B) \cap DOMAIN view)
        /\ DroppedBy(B) \cap DOMAIN view \subseteq S
    BY <1>1, <2>1, <2>2, LocksOf
  <2>4. held' = held \cup S
    BY <1>3, <2>2
  <2>5. CASE job.at = 1
    <3>1. MadeBy(B) \cap Orm = {} /\ Orm \subseteq DroppedBy(B)
      BY <2>2, <2>5, OrmInScript
    <3>2. DOMAIN own = {} /\ held = {}
      BY <2>1, <2>5, NothingExecuted DEF Inv, SeedInv, Executed
    <3>3. DOMAIN view = DOMAIN db
      <4>1. DOMAIN ViewOf(own, held, db) = DOMAIN own \cup (DOMAIN db \ held)
        BY ViewTables DEF Sees
      <4> QED
        BY <2>2, <3>2, <4>1, ViewIs
    <3>4. "guest_reviews" \in DOMAIN db => "hotels" \in DOMAIN db
      BY <1>1, OrmNames, OrmCommitted DEF Inv
    <3>5. "guest_reviews" \in held' => "hotels" \in held'
      BY <2>3, <2>4, <3>1, <3>2, <3>3, <3>4, OrmNames
    <3>6. ~ job'.at > 2
      BY <2>1, <2>5
    <3> QED
      BY <3>5, <3>6 DEF HeldInTurn
  <2>6. CASE job.at = 2
    <3>1. "hotels" \in MadeBy(B)
      BY <2>2, <2>6, OrmInScript
    <3> QED
      BY <2>3, <2>4, <3>1 DEF HeldInTurn
  <2>7. CASE job.at > 2
    BY <2>1, <2>4, <2>7 DEF HeldInTurn
  <2> QED
    BY <2>1, <2>5, <2>6, <2>7
<1> QED
  BY <1>2, <1>3 DEF Execute, Part

LEMMA JobInTurn ==
  ASSUME Inv, HeldInTurn, [Next]_vars
  PROVE  HeldInTurn'
<1>1. CASE UNCHANGED seed
  BY <1>1 DEF HeldInTurn, seed
<1>2. CASE StartSeed
  BY <1>2 DEF StartSeed, HeldInTurn, Inv, TypeOK, JobTypes
<1>3. CASE Execute
  BY <1>3, ExecuteInTurn
<1>4. CASE Commit
  BY <1>4 DEF Commit, HeldInTurn, Inv, TypeOK, JobTypes
<1>5. CASE BreakSeed
  BY <1>5 DEF BreakSeed, Abort, Retry, HeldInTurn, Inv, TypeOK, JobTypes
<1>6. ASSUME NEW r \in Replicas, Starting(r) \/ BreakStart(r) \/ Shutdown(r) \/ CloseNext(r) \/ BreakClose(r)
      PROVE  UNCHANGED seed
  BY <1>6 DEF Starting, OpenEngine, CheckTables, CreateTable, CommitTables, OpenNext,
     Restart, BreakStart, Shutdown, CloseNext, BreakClose
<1>7. ASSUME NEW v \in Visits, Ask(v) \/ Query(v) PROVE UNCHANGED seed
  BY <1>7 DEF Ask, Query
<1> QED
  BY <1>1, <1>2, <1>3, <1>4, <1>5, <1>6, <1>7 DEF Next, vars, Seeding

\* The tables of the application are made in order by the replicas too.
LEMMA CreateInTurn ==
  ASSUME Inv, NEW r \in Replicas, CreateTable(r), InTurn(replica[r].made, replica[r].missing),
         replica'[r].pc = "creating"
  PROVE  InTurn(replica'[r].made, replica'[r].missing)
<1>1. PICK i \in DOMAIN OrmTables : \E t \in {OrmTables[i]} :
        /\ t \in replica[r].missing /\ \A j \in 1..i - 1 : OrmTables[j] \notin replica[r].missing
        /\ \/ replica' = [replica EXCEPT ![r].pc = "failed", ![r].made = {}]
           \/ replica' = [replica EXCEPT ![r].missing = @ \ {t}, ![r].made = @ \cup {t}]
  BY DEF CreateTable
<1>2. PICK t : /\ t = OrmTables[i] /\ t \in replica[r].missing
               /\ replica' = [replica EXCEPT ![r].missing = @ \ {t}, ![r].made = @ \cup {t}]
  BY <1>1, ReplicaIs DEF ReplicaRecord
<1>3. /\ replica'[r].missing = replica[r].missing \ {t}
      /\ replica'[r].made = replica[r].made \cup {t}
  BY <1>2, ReplicaIs DEF ReplicaRecord
<1>4. t = "guest_reviews" => "hotels" \notin replica[r].missing
  <2>1. OrmTables[1] = "hotels" /\ OrmTables[2] = "guest_reviews" /\ (i = 1 \/ i = 2)
    BY OrmNames DEF OrmTables
  <2>2. t = "guest_reviews" => i = 2
    BY <1>2, <2>1
  <2>3. i = 2 => 1 \in 1..i - 1
    OBVIOUS
  <2> QED
    BY <1>1, <2>1, <2>2, <2>3
<1> QED
  BY <1>2, <1>3, <1>4 DEF InTurn

LEMMA ReplicasInTurn ==
  ASSUME Inv, WaitInv, [Next]_vars, NEW o \in Replicas, replica'[o].pc = "creating"
  PROVE  InTurn(replica'[o].made, replica'[o].missing)
<1>1. replica[o] \in ReplicaRecord /\ Sound(replica[o], DOMAIN db) /\ replica \in [Replicas -> ReplicaRecord]
  BY ReplicaIs
<1>2. CASE replica'[o] = replica[o]
  BY <1>2 DEF WaitInv
<1>3. ASSUME NEW r \in Replicas, Starting(r) \/ BreakStart(r) \/ Shutdown(r) \/ CloseNext(r) \/ BreakClose(r)
      PROVE  \/ replica'[o] = replica[o]
             \/ o = r /\ CheckTables(o)
             \/ o = r /\ CreateTable(o) /\ replica[o].pc = "creating"
  <2>1. CASE o # r
    BY <1>1, <1>3, <2>1 DEF Starting, OpenEngine, CheckTables, CreateTable, CommitTables, OpenNext,
       Restart, BreakStart, Shutdown, CloseNext, BreakClose, GoTo
  <2>2. CASE o = r
    <3>1. CASE OpenEngine(o) \/ CommitTables(o) \/ OpenNext(o) \/ Restart(o)
      BY <1>1, <3>1 DEF OpenEngine, CommitTables, OpenNext, Restart, Off, ReplicaRecord
    <3>2. CASE BreakStart(o) \/ Shutdown(o) \/ CloseNext(o) \/ BreakClose(o)
      BY <1>1, <3>2 DEF BreakStart, Shutdown, CloseNext, BreakClose, GoTo, ReplicaRecord
    <3>3. CASE CheckTables(o) \/ CreateTable(o)
      BY <2>2, <3>3 DEF CreateTable
    <3> QED
      BY <1>3, <2>2, <3>1, <3>2, <3>3 DEF Starting
  <2> QED
    BY <2>1, <2>2
<1>4. CASE CheckTables(o)
  <2>1. replica'[o].made = {} /\ replica'[o].missing = Orm \ DOMAIN db
    BY <1>1, <1>4 DEF CheckTables, Sound, ReplicaRecord, Orm
  <2>2. "hotels" \in DOMAIN db => "guest_reviews" \in DOMAIN db
    BY ScriptMakes, OrmNames, OrmCommitted DEF ScriptMakesAll, Inv
  <2> QED
    BY <2>1, <2>2, OrmNames DEF InTurn
<1>5. CASE CreateTable(o) /\ replica[o].pc = "creating"
  BY <1>5, CreateInTurn DEF WaitInv
<1>6. CASE UNCHANGED replica
  BY <1>2, <1>6
<1>7. ASSUME NEW v \in Visits, Ask(v) \/ Query(v) PROVE UNCHANGED replica
  BY <1>7 DEF Ask, Query
<1>8. CASE StartSeed \/ Seeding \/ BreakSeed
  BY <1>6, <1>8 DEF StartSeed, Seeding, Execute, Commit, BreakSeed
<1> QED
  BY <1>2, <1>3, <1>4, <1>5, <1>6, <1>7, <1>8 DEF Next, vars

(* A replica that has made tables waits for nobody, so that the job, which    *)
(* may wait for it, and other replicas never wait in a circle with it: all of *)
(* them make hotels before guest_reviews (create_schema in seed_hotels.py,    *)
(* create_all in database.py).                                                *)
THEOREM NobodyWaitsInCircle == Spec => []NoWaitInCircle
<1>1. Init => WaitInv
  <2> SUFFICES ASSUME Init PROVE WaitInv
    OBVIOUS
  <2>1. held = {} /\ job.pc = "idle" /\ \A r \in Replicas : replica[r].pc = "off"
    BY DEF Init, Off
  <2> QED
    BY <2>1 DEF WaitInv, HeldInTurn
<1>2. Inv /\ WaitInv /\ [Next]_vars => WaitInv'
  <2> SUFFICES ASSUME Inv, WaitInv, [Next]_vars PROVE WaitInv'
    OBVIOUS
  <2>1. HeldInTurn'
    BY JobInTurn DEF WaitInv
  <2>2. \A r \in Replicas :
          replica'[r].pc = "creating" => InTurn(replica'[r].made, replica'[r].missing)
    BY ReplicasInTurn
  <2> QED
    BY <2>1, <2>2 DEF WaitInv
<1>3. Inv /\ WaitInv => NoWaitInCircle
  <2> SUFFICES ASSUME Inv, WaitInv, NEW r \in Replicas, replica[r].made # {},
                      NEW t \in replica[r].missing
               PROVE  ~ Held(t) /\ \A o \in Replicas \ {r} : t \notin replica[o].made
    BY DEF NoWaitInCircle
  <2>1. replica[r].pc = "creating" /\ InTurn(replica[r].made, replica[r].missing)
    BY ReplicaIs DEF Sound, WaitInv
  <2>2. replica[r].made \subseteq {"hotels", "guest_reviews"} /\ t \in {"hotels", "guest_reviews"}
    BY ReplicaIs, OrmNames DEF ReplicaRecord
  <2>3. "hotels" \in replica[r].made /\ t = "guest_reviews"
    BY <2>1, <2>2 DEF InTurn
  <2>4. "hotels" \notin held /\ \A o \in Replicas \ {r} : "hotels" \notin replica[o].made
    BY <2>3 DEF Inv, TypeOK, MadeApart
  <2>5. ~ Held(t)
    BY <2>3, <2>4 DEF Held, WaitInv, HeldInTurn
  <2>6. ASSUME NEW o \in Replicas \ {r}, t \in replica[o].made PROVE FALSE
    <3>1. replica[o].pc = "creating"
      BY <2>6, ReplicaIs DEF Sound
    <3> QED
      BY <2>3, <2>4, <2>6, <3>1 DEF WaitInv, InTurn
  <2> QED
    BY <2>5, <2>6
<1> QED
  BY <1>1, <1>2, <1>3, Invariance, PTL DEF Spec

---------------------------------------------------------------------------
(* Editions.                                                               *)

\* Every committed table is of the edition that is out.
LEMMA EditionIs ==
  ASSUME Inv
  PROVE  /\ Edition \in 0..Rounds /\ Edition \in Nat
         /\ \A t \in DOMAIN db : db[t].run = Edition
         /\ DOMAIN db # Tables => Edition = 0 /\ DOMAIN db \in {{}, Orm}
<1>1. /\ \A t \in DOMAIN db : db[t].run \in 0..Rounds /\ db[t].run \in Nat
      /\ \A t, o \in DOMAIN db : db[t].run = db[o].run
  BY OneRun
<1>2. DOMAIN db = {} \/ "hotels" \in DOMAIN db
  BY ScriptMakes, OrmNames, OrmCommitted DEF ScriptMakesAll, Inv
<1>3. 0 \in 0..Rounds
  BY DeploymentAssumption
<1>4. DOMAIN db # Tables => Edition = 0 /\ DOMAIN db \in {{}, Orm}
  BY DEF Inv, CommittedWhole, Edition, Orm, OrmTable
<1> QED
  BY <1>1, <1>2, <1>3, <1>4 DEF Edition

\* The tables of a page are all of the application's, or none of them is.
LEMMA PageTables ==
  ASSUME NEW page \in DOMAIN Pages
  PROVE  /\ Range(Pages[page]) \subseteq Tables
         /\ Range(Pages[page]) \subseteq Orm \/ Range(Pages[page]) \cap Orm = {}
<1>1. Orm \cup Range(ReportPages) \subseteq Tables /\ Range(ReportPages) \cap Orm = {}
  <2>1. Range(ReportPages) = {"rpt_daily_flash", "rpt_weekly_pace", "rpt_monthly_owner_pack",
                              "rpt_quarterly_business_review"}
    BY DEF ReportPages, Range
  <2> QED
    BY <2>1, OrmNames, NamesAreTables DEF Names, CoreNames, ReportNames, Marts, Packs
<1>2. /\ page \in {"summary", "hotels", "reviews"} => Range(Pages[page]) \subseteq Orm
      /\ page = "flash" => Range(Pages[page]) \subseteq Range(ReportPages)
      /\ page = "index" => Range(Pages[page]) = Range(ReportPages)
      /\ page \in {"summary", "hotels", "reviews", "flash", "index"}
  BY OrmNames DEF Pages, ReportPages, Range
<1> QED
  BY <1>1, <1>2

\* A query breaks, or finds its table missing while nothing is published and
\* its page has shown nothing, or shows the edition that is out.
LEMMA QueryOfEdition ==
  ASSUME Inv, PublishInv, NEW v \in Visits, Query(v)
  PROVE  \/ visit' = [visit EXCEPT ![v].pc = "error"]
         \/ /\ Edition = 0 /\ visit[v].shown = <<>>
            /\ visit' = [visit EXCEPT ![v].pc = "missing"]
         \/ /\ ~ Range(Pages[visit[v].page]) \subseteq Orm => Edition # 0
            /\ \E pc \in {"reading", "shown"} :
                 visit' = [visit EXCEPT ![v].shown = Append(visit[v].shown, Edition), ![v].pc = pc]
<1>1. /\ visit[v].pc = "reading" /\ visit[v].page \in DOMAIN Pages
      /\ visit[v].shown \in Seq(0..Rounds) /\ Len(visit[v].shown) < Len(Pages[visit[v].page])
  BY DEF Query, Inv, TypeOK, VisitTypes
<1>2. PICK asked, t, seen, asks :
        /\ asked = Len(visit[v].shown) + 1 /\ asks = Pages[visit[v].page] /\ seen = visit[v].shown
        /\ t = asks[asked]
  OBVIOUS
<1>3. t \in Range(asks)
  <2>1. Len(seen) \in Nat /\ asked = Len(seen) + 1 /\ Len(asks) \in Nat /\ Len(seen) < Len(asks)
    BY <1>1, <1>2, PagesAsk, LenProperties
  <2>2. asked \in 1..Len(asks)
    BY <2>1
  <2>3. DOMAIN asks = 1..Len(asks)
    BY <1>1, <1>2 DEF Pages, ReportPages
  <2> QED
    BY <1>2, <2>2, <2>3 DEF Range
<1>4. /\ Range(asks) \subseteq Tables
      /\ Range(asks) \subseteq Orm \/ Range(asks) \cap Orm = {}
  BY <1>1, <1>2, PageTables
<1>5. CASE t \notin DOMAIN db /\ visit' = [visit EXCEPT ![v].pc = "missing"]
  <2>1. Edition = 0 /\ DOMAIN db \in {{}, Orm}
    BY <1>3, <1>4, <1>5, EditionIs
  <2>2. ASSUME 1 \in DOMAIN seen PROVE FALSE
    <3>1. DOMAIN db # {} /\ \A o \in DOMAIN db : seen[1] <= db[o].run
      BY <1>2, <2>2 DEF Inv, ShownInv
    <3>2. seen[1] \in Nat
      <4>1. seen[1] \in 0..Rounds /\ Rounds \in Nat
        BY <1>1, <1>2, <2>2, DeploymentAssumption
      <4> QED
        BY <4>1
    <3>3. PICK o \in DOMAIN db : db[o].run = 0
      BY <2>1, <3>1, EditionIs
    <3>4. seen[1] = 0
      BY <3>1, <3>2, <3>3
    <3>5. ~ Range(asks) \subseteq Orm
      BY <1>3, <1>5, <2>1, <3>1
    <3> QED
      BY <1>1, <1>2, <2>2, <3>4, <3>5 DEF PublishInv
  <2>3. seen = <<>>
    <3>1. seen \in Seq(0..Rounds)
      BY <1>1, <1>2
    <3>2. Len(seen) \in Nat /\ DOMAIN seen = 1..Len(seen)
      BY <3>1, LenProperties
    <3>3. Len(seen) = 0
      BY <2>2, <3>2
    <3> QED
      BY <3>1, <3>3, EmptySeq
  <2> QED
    BY <1>2, <1>5, <2>1, <2>3
<1>6. CASE /\ t \in DOMAIN db
           /\ visit' = [visit EXCEPT ![v].shown = Append(visit[v].shown, db[t].run),
                ![v].pc = IF asked = Len(Pages[visit[v].page]) THEN "shown" ELSE "reading"]
  <2>1. PICK pc \in {"reading", "shown"} :
          pc = IF asked = Len(Pages[visit[v].page]) THEN "shown" ELSE "reading"
    OBVIOUS
  <2>2. visit' = [visit EXCEPT ![v].shown = Append(visit[v].shown, db[t].run), ![v].pc = pc]
    BY <1>6, <2>1
  <2>3. db[t].run = Edition
    BY <1>6, EditionIs
  <2>4. ~ Range(asks) \subseteq Orm => Edition # 0
    <3>1. ~ Range(asks) \subseteq Orm => t \notin Orm
      BY <1>3, <1>4
    <3>2. DOMAIN db # {} /\ (t \notin Orm => DOMAIN db = Tables)
      BY <1>6, EditionIs
    <3>3. DOMAIN db = Tables => \E o \in DOMAIN db : db[o].run # 0
      BY <1>3, <1>4, <3>2, OrmNames, NamesAreTables DEF Inv, CommittedWhole, Orm, Names, ReportNames, Packs
    <3> QED
      BY <3>1, <3>2, <3>3, EditionIs
  <2> QED
    BY <1>2, <2>2, <2>3, <2>4
<1>7. CASE visit' = [visit EXCEPT ![v].pc = "error"]
  BY <1>7
<1>8. \/ t \notin DOMAIN db /\ visit' = [visit EXCEPT ![v].pc = "missing"]
      \/ visit' = [visit EXCEPT ![v].pc = "error"]
      \/ /\ t \in DOMAIN db
         /\ visit' = [visit EXCEPT ![v].shown = Append(visit[v].shown, db[t].run),
              ![v].pc = IF asked = Len(Pages[visit[v].page]) THEN "shown" ELSE "reading"]
  BY <1>2 DEF Query
<1> QED
  BY <1>5, <1>6, <1>7, <1>8

\* What a running job commits stays newer than what is there, and pages of the
\* reports show no zero.
LEMMA PublishKeeps ==
  ASSUME Inv, PublishInv, [Next]_vars
  PROVE  PublishInv'
<1> DEFINE Seen(v) == visit[v].pc = "reading" /\ ~ Range(Pages[visit[v].page]) \subseteq Orm =>
                        \A i \in DOMAIN visit[v].shown : visit[v].shown[i] # 0
<1>1. CASE UNCHANGED <<db, seed, visit>>
  BY <1>1 DEF PublishInv, seed
<1>2. CASE StartSeed
  <2>1. /\ job'.round = job.round + 1 /\ db' = db /\ visit' = visit
    BY <1>2 DEF StartSeed
  <2>2. \A t \in DOMAIN db : db[t].run \in Nat /\ db[t].run <= job.round /\ job.round \in Nat
    BY DeploymentAssumption DEF Inv, TypeOK, IsTables, JobTypes, ShownInv
  <2>3. \A x, y \in Nat : x <= y => x < y + 1
    OBVIOUS
  <2>4. \A t \in DOMAIN db : db[t].run < job.round + 1
    BY <2>2, <2>3
  <2> QED
    BY <2>1, <2>4 DEF PublishInv
<1>3. CASE Execute \/ BreakSeed
  <2>1. job.pc = "running" /\ job'.round = job.round /\ db' = db /\ visit' = visit
    BY <1>3 DEF Execute, Ready, BreakSeed, Abort, Retry, Inv, TypeOK, JobTypes
  <2> QED
    BY <2>1 DEF PublishInv
<1>4. CASE Commit
  <2>1. job'.pc = "done" /\ visit' = visit
    BY <1>4 DEF Commit, Inv, TypeOK, JobTypes
  <2> QED
    BY <2>1 DEF PublishInv
<1>5. ASSUME NEW r \in Replicas, CommitTables(r) PROVE PublishInv'
  <2>1. job' = job /\ visit' = visit
    BY <1>5 DEF CommitTables, seed
  <2>2. ASSUME job.pc = "running", NEW t \in DOMAIN db'
        PROVE  db'[t].run < job.round
    <3>1. job.round \in Nat /\ job.round >= 1
      BY <2>2, DeploymentAssumption DEF Inv, TypeOK, JobTypes, SeedInv
    <3>2. CASE t \in Orm /\ db'[t] = OrmTable(t)
      <4>1. db'[t].run = 0
        BY <3>2 DEF OrmTable
      <4> QED
        BY <3>1, <4>1
    <3>3. CASE t \in DOMAIN db /\ db'[t] = db[t]
      BY <2>2, <3>3 DEF PublishInv
    <3> QED
      BY <1>5, <2>2, <3>2, <3>3, OrmOrNothing, ScriptMakes DEF ScriptMakesAll
  <2> QED
    BY <2>1, <2>2 DEF PublishInv
<1>6. ASSUME NEW r \in Replicas,
             Starting(r) \/ BreakStart(r) \/ Shutdown(r) \/ CloseNext(r) \/ BreakClose(r)
      PROVE  CommitTables(r) \/ UNCHANGED <<db, seed, visit>>
  BY <1>6 DEF Starting, OpenEngine, CheckTables, CreateTable, OpenNext,
     Restart, BreakStart, Shutdown, CloseNext, BreakClose
<1>7. ASSUME NEW v \in Visits, Ask(v) \/ Query(v) PROVE PublishInv'
  <2>1. /\ job' = job /\ db' = db
        /\ visit \in [Visits -> [pc : {"none", "reading", "shown", "missing", "error"},
                                 page : DOMAIN Pages \cup {""}, shown : Seq(0..Rounds)]]
    BY <1>7 DEF Ask, Query, seed, Inv, TypeOK, VisitTypes
  <2>2. \A o \in Visits : Seen(o)
    BY DEF PublishInv
  <2>3. \A o \in Visits \ {v} : visit'[o] = visit[o]
    BY <1>7, <2>1, QueryOfEdition DEF Ask
  <2>4. CASE Ask(v)
    <3>1. visit[v].pc = "none" /\ visit'[v].shown = visit[v].shown
      BY <2>1, <2>4 DEF Ask
    <3>2. visit[v].shown \in Seq(0..Rounds) /\ Len(visit[v].shown) = 0
      BY <2>1, <3>1 DEF Inv, ShownInv
    <3>3. DOMAIN visit[v].shown = {}
      <4>1. visit[v].shown = <<>>
        BY <3>2, EmptySeq
      <4> QED
        BY <4>1
    <3>4. \A i \in DOMAIN visit'[v].shown : FALSE
      BY <3>1, <3>3
    <3>5. \A o \in Visits \ {v} : Seen(o)'
      BY <2>2, <2>3
    <3> QED
      BY <2>1, <3>4, <3>5 DEF PublishInv
  <2>5. CASE Query(v)
    <3>1. visit[v].pc = "reading"
      BY <2>5 DEF Query
    <3>2. CASE visit' = [visit EXCEPT ![v].pc = "error"] \/ visit' = [visit EXCEPT ![v].pc = "missing"]
      <4>1. visit'[v].pc # "reading"
        BY <2>1, <3>2
      <4> QED
        BY <2>1, <2>2, <2>3, <4>1 DEF PublishInv
    <3>3. ASSUME ~ Range(Pages[visit[v].page]) \subseteq Orm => Edition # 0,
                 NEW pc \in {"reading", "shown"},
                 visit' = [visit EXCEPT ![v].shown = Append(visit[v].shown, Edition), ![v].pc = pc]
          PROVE  PublishInv'
      <4>1. PICK old, e : old = visit[v].shown /\ e = Edition
        OBVIOUS
      <4>2. old \in Seq(0..Rounds) /\ e \in 0..Rounds
        BY <2>1, <4>1, EditionIs
      <4>3. visit'[v].shown = Append(old, e) /\ visit'[v].page = visit[v].page
        BY <2>1, <3>3, <4>1
      <4>4. /\ DOMAIN old = 1..Len(old) /\ Len(old) \in Nat
            /\ DOMAIN Append(old, e) = 1..Len(old) + 1 /\ Append(old, e)[Len(old) + 1] = e
            /\ \A i \in 1..Len(old) : Append(old, e)[i] = old[i]
        BY <4>2, AppendProperties, LenProperties
      <4>5. \A i \in 1..Len(old) + 1 : i \in 1..Len(old) \/ i = Len(old) + 1
        BY <4>4
      <4>6. ASSUME ~ Range(Pages[visit[v].page]) \subseteq Orm, NEW i \in DOMAIN Append(old, e)
            PROVE  Append(old, e)[i] # 0
        <5>1. \A j \in DOMAIN old : old[j] # 0
          BY <2>2, <3>1, <4>1, <4>6
        <5> QED
          BY <3>3, <4>1, <4>4, <4>5, <4>6, <5>1
      <4> QED
        BY <2>1, <2>2, <2>3, <4>3, <4>6 DEF PublishInv
    <3> QED
      BY <2>5, <3>2, <3>3, QueryOfEdition
  <2> QED
    BY <1>7, <2>4, <2>5
<1> QED
  BY <1>1, <1>2, <1>3, <1>4, <1>5, <1>6, <1>7 DEF Next, vars, Seeding

LEMMA PublishInvariant == Spec => []PublishInv
<1>1. Init => PublishInv
  <2> SUFFICES ASSUME Init PROVE PublishInv
    OBVIOUS
  <2>1. job.pc = "idle" /\ \A v \in Visits : visit[v].pc = "none"
    BY DEF Init
  <2> QED
    BY <2>1 DEF PublishInv
<1>2. Inv /\ PublishInv /\ [Next]_vars => PublishInv'
  BY PublishKeeps
<1> QED
  BY <1>1, <1>2, Invariance, PTL DEF Spec

(* The deployment implements the publication of editions: a commit of the     *)
(* job publishes the next one, a query shows the one that is out or, before   *)
(* the first, turns its page away, and nothing else that happens is seen      *)
(* (seed in seed_hotels.py against the queries of the repositories).          *)
THEOREM WarehouseIsPublished == Spec => KeepsPublishing
<1>1. Init => Published!Init
  <2> SUFFICES ASSUME Init PROVE Published!Init
    OBVIOUS
  <2>1. DOMAIN db = {} /\ \A v \in Visits : visit[v].shown = <<>> /\ visit[v].pc = "none"
    BY DEF Init, Nothing
  <2> QED
    BY <2>1 DEF Published!Init, Edition
<1>2. Inv /\ PublishInv /\ [Next]_vars => [Published!Next]_(Published!vars)
  <2> SUFFICES ASSUME Inv, PublishInv, [Next]_vars
               PROVE  Published!Next \/ UNCHANGED Published!vars
    OBVIOUS
  <2>1. CASE UNCHANGED <<db, visit>>
    BY <2>1 DEF Published!vars, Edition
  <2>2. CASE Commit
    <3>1. job.pc = "running" /\ visit' = visit
      BY <2>2 DEF Commit
    <3>2. /\ DOMAIN db' = Tables /\ job.round \in 1..Rounds
          /\ \A t \in Tables : db'[t].run = job.round
      BY <2>2, ScriptIsInOrder, CommitWhole
    <3>3. "hotels" \in Tables
      BY NamesAreTables DEF Names, CoreNames
    <3>4. Edition' = job.round
      BY <3>2, <3>3 DEF Edition
    <3>5. Edition < job.round /\ Edition \in Nat /\ Rounds \in Nat
      <4>1. Edition = 0 \/ \E t \in DOMAIN db : Edition = db[t].run
        BY DEF Edition
      <4>2. 0 < job.round
        BY <3>2
      <4> QED
        BY <3>1, <4>1, <4>2, EditionIs, DeploymentAssumption DEF PublishInv
    <3>6. job.round \in Edition + 1 .. Rounds
      BY <3>2, <3>5
    <3> QED
      BY <3>1, <3>4, <3>6 DEF Published!Next, Published!Publish
  <2>3. ASSUME NEW r \in Replicas, CommitTables(r) PROVE UNCHANGED Published!vars
    <3>1. visit' = visit
      BY <2>3 DEF CommitTables
    <3>2. Edition' = Edition
      BY <2>3, OrmOrNothing, OrmNames, ScriptMakes DEF ScriptMakesAll, Edition, OrmTable
    <3> QED
      BY <3>1, <3>2 DEF Published!vars
  <2>4. ASSUME NEW v \in Visits, Ask(v) \/ Query(v)
        PROVE  Published!Next \/ UNCHANGED Published!vars
    <3>1. /\ db' = db /\ Edition' = Edition
          /\ visit \in [Visits -> [pc : {"none", "reading", "shown", "missing", "error"},
                                   page : DOMAIN Pages \cup {""}, shown : Seq(0..Rounds)]]
      BY <2>4 DEF Ask, Query, Edition, Inv, TypeOK, VisitTypes
    <3>2. CASE Ask(v)
      <4>1. PICK page : visit' = [visit EXCEPT ![v].pc = "reading", ![v].page = page]
        BY <3>2 DEF Ask
      <4>2. \A o \in Visits : /\ visit'[o].shown = visit[o].shown
                              /\ visit'[o].pc = "missing" <=> visit[o].pc = "missing"
        BY <3>1, <3>2, <4>1 DEF Ask
      <4> QED
        BY <3>1, <4>2 DEF Published!vars
    <3>3. CASE Query(v)
      <4>1. visit[v].pc = "reading"
        BY <3>3 DEF Query
      <4>2. CASE visit' = [visit EXCEPT ![v].pc = "error"]
        <5>1. \A o \in Visits : /\ visit'[o].shown = visit[o].shown
                                /\ visit'[o].pc = "missing" <=> visit[o].pc = "missing"
          BY <3>1, <4>1, <4>2
        <5> QED
          BY <3>1, <5>1 DEF Published!vars
      <4>3. CASE /\ Edition = 0 /\ visit[v].shown = <<>>
                 /\ visit' = [visit EXCEPT ![v].pc = "missing"]
        <5>1. /\ \A o \in Visits : visit'[o].shown = visit[o].shown
              /\ \A o \in Visits : visit'[o].pc = "missing" <=> visit[o].pc = "missing" \/ o = v
          BY <3>1, <4>3
        <5>2. Published!Refuse(v)
          BY <3>1, <4>3, <5>1 DEF Published!Refuse
        <5> QED
          BY <5>2 DEF Published!Next
      <4>4. ASSUME NEW pc \in {"reading", "shown"},
                   visit' = [visit EXCEPT ![v].shown = Append(visit[v].shown, Edition), ![v].pc = pc]
            PROVE  Published!Next
        <5>1. /\ visit'[v].shown = Append(visit[v].shown, Edition)
              /\ \A o \in Visits \ {v} : visit'[o].shown = visit[o].shown
              /\ \A o \in Visits : visit'[o].pc = "missing" <=> visit[o].pc = "missing"
          BY <3>1, <4>1, <4>4
        <5>2. Published!Show(v)
          BY <3>1, <4>1, <5>1 DEF Published!Show
        <5> QED
          BY <5>2 DEF Published!Next
      <4> QED
        BY <3>3, <4>2, <4>3, <4>4, QueryOfEdition
    <3> QED
      BY <2>4, <3>2, <3>3
  <2>5. CASE StartSeed \/ Execute \/ BreakSeed
    BY <2>1, <2>5 DEF StartSeed, Execute, BreakSeed
  <2>6. ASSUME NEW r \in Replicas,
               Starting(r) \/ BreakStart(r) \/ Shutdown(r) \/ CloseNext(r) \/ BreakClose(r)
        PROVE  CommitTables(r) \/ UNCHANGED <<db, visit>>
    BY <2>6 DEF Starting, OpenEngine, CheckTables, CreateTable, OpenNext,
       Restart, BreakStart, Shutdown, CloseNext, BreakClose
  <2> QED
    BY <2>1, <2>2, <2>3, <2>4, <2>5, <2>6 DEF Next, vars, Seeding
<1> QED
  BY <1>1, <1>2, Invariance, PublishInvariant, PTL DEF Spec, KeepsPublishing, Published!Spec

===========================================================================
