--------------------------- MODULE WarehouseProofs ---------------------------
(* What the statements of the seed script do to the tables, for any script  *)
(* that is in order (ScriptInOrder, which ScriptProofs proves of it).       *)
EXTENDS Warehouse, WellFoundedInduction, TLAPS

---------------------------------------------------------------------------
(* Executing a part, by induction on its statements.                       *)

LEMMA LessWellFounded == IsWellFoundedOn({p \in Nat \X Nat : p[1] < p[2]}, Nat)
BY NatLessThanWellFounded DEF OpToRel

\* A set of numbers that holds zero and every successor holds them all.
LEMMA SetInduction ==
  ASSUME NEW T \in SUBSET Nat, 0 \in T, \A n \in T : n + 1 \in T
  PROVE  T = Nat
<1> DEFINE R == {p \in Nat \X Nat : p[1] < p[2]}
<1> SUFFICES ASSUME Nat \ T # {} PROVE FALSE
  OBVIOUS
<1>1. PICK x \in Nat \ T : \A y \in Nat \ T : ~ (<<y, x>> \in R)
  <2>1. IsWellFoundedOn(R, Nat)
    BY LessWellFounded
  <2>2. Nat \ T \subseteq Nat
    OBVIOUS
  <2> HIDE DEF R
  <2> QED
    BY <2>1, <2>2, WFMin
<1>2. x # 0 /\ x - 1 \in Nat /\ x - 1 < x
  OBVIOUS
<1>3. x - 1 \in T
  <2>1. <<x - 1, x>> \in R
    BY <1>2
  <2> QED
    BY <1>1, <1>2, <2>1
<1> QED
  BY <1>3

\* What a statement leaves of the tables left so far: nothing when it is refused.
Sieve(s, left, run) == {After(s, t, run) : t \in {u \in left : ~ Refused(s, u)}}

\* f[i] is what the first i statements leave, up to the n-th.
Leaves(f, n, part, tables, run) ==
  f = [i \in 0 .. n |-> IF i = 0 THEN {tables} ELSE Sieve(part[i], f[i - 1], run)]

LEMMA LeavesExist ==
  ASSUME NEW part, NEW tables, NEW run, NEW n \in Nat
  PROVE  \E f : Leaves(f, n, part, tables, run)
<1> DEFINE T == {m \in Nat : \E f : Leaves(f, m, part, tables, run)}
<1>1. 0 \in T
  <2> DEFINE f == [i \in 0 .. 0 |-> {tables}]
  <2>1. f = [i \in 0 .. 0 |-> IF i = 0 THEN {tables} ELSE Sieve(part[i], f[i - 1], run)]
    OBVIOUS
  <2> QED
    BY <2>1 DEF Leaves
<1>2. ASSUME NEW m \in T PROVE m + 1 \in T
  <2>1. PICK f : Leaves(f, m, part, tables, run)
    OBVIOUS
  <2> DEFINE g == [i \in 0 .. m + 1 |-> IF i = m + 1 THEN Sieve(part[m + 1], f[m], run) ELSE f[i]]
  <2>2. g = [i \in 0 .. m + 1 |-> IF i = 0 THEN {tables} ELSE Sieve(part[i], g[i - 1], run)]
    <3> SUFFICES ASSUME NEW i \in 0 .. m + 1
                 PROVE  g[i] = IF i = 0 THEN {tables} ELSE Sieve(part[i], g[i - 1], run)
      OBVIOUS
    <3>1. CASE i = m + 1
      <4>1. m \in Nat /\ m + 1 # 0 /\ g[m] = f[m] /\ g[m + 1] = Sieve(part[m + 1], f[m], run)
        OBVIOUS
      <4>2. i # 0 /\ i - 1 = m
        BY <3>1
      <4> QED
        BY <3>1, <4>1, <4>2
    <3>2. CASE i \in 0 .. m
      <4>1. g[i] = f[i] /\ (i # 0 => g[i - 1] = f[i - 1])
        BY <3>2
      <4>2. f[i] = IF i = 0 THEN {tables} ELSE Sieve(part[i], f[i - 1], run)
        BY <2>1, <3>2 DEF Leaves
      <4> QED
        BY <4>1, <4>2
    <3> QED
      BY <3>1, <3>2
  <2>3. Leaves(g, m + 1, part, tables, run)
    BY <2>2 DEF Leaves
  <2> QED
    BY <2>3
<1>3. T = Nat
  <2>1. T \in SUBSET Nat
    OBVIOUS
  <2> HIDE DEF T
  <2> QED
    BY <1>1, <1>2, <2>1, SetInduction
<1> QED
  BY <1>3

\* The recursive function of Outcomes exists, and is what it is defined to be.
LEMMA OutcomesAreLeaves ==
  ASSUME NEW part, NEW tables, NEW run, Len(part) \in Nat
  PROVE  \E f : Leaves(f, Len(part), part, tables, run) /\ Outcomes(part, tables, run) = f[Len(part)]
<1> DEFINE left == CHOOSE f : Leaves(f, Len(part), part, tables, run)
<1>1. Leaves(left, Len(part), part, tables, run)
  BY LeavesExist
<1>2. Outcomes(part, tables, run) = left[Len(part)]
  BY DEF Outcomes, Leaves, Sieve
<1> QED
  BY <1>1, <1>2

---------------------------------------------------------------------------
(* The statements before a statement.                                      *)

LEMMA PartsBefore ==
  ASSUME NEW n \in Nat
  PROVE  Parts(n + 1) = Parts(n) \cup Range(Script[n + 1])
<1>1. 1 .. n + 1 = (1 .. n) \cup {n + 1}
  OBVIOUS
<1>2. \A s : s \in Parts(n + 1) <=> \E q \in 1 .. n + 1 : s \in Range(Script[q])
  BY DEF Parts
<1>3. \A s : s \in Parts(n) <=> \E q \in 1 .. n : s \in Range(Script[q])
  BY DEF Parts
<1> QED
  BY <1>1, <1>2, <1>3

LEMMA BegunNext ==
  ASSUME NEW p \in Nat, NEW n \in Nat
  PROVE  Begun(p, n + 1) = Begun(p, n) \cup {Script[p][n + 1]}
<1>1. 1 .. n + 1 = (1 .. n) \cup {n + 1}
  OBVIOUS
<1> QED
  BY <1>1 DEF Begun

LEMMA NoneBegun == Parts(0) = {} /\ \A p : Begun(p, 0) = {}
<1>1. 1 .. 0 = {}
  OBVIOUS
<1> QED
  BY <1>1 DEF Parts, Begun

LEMMA BeforeFirst == Before(1, 1) = {}
<1>1. 1 - 1 = 0
  OBVIOUS
<1> QED
  BY <1>1, NoneBegun DEF Before

LEMMA BeforeNext ==
  ASSUME NEW p \in Nat, NEW i \in Nat \ {0}
  PROVE  Before(p, i + 1) = Before(p, i) \cup {Script[p][i]}
<1>1. PICK k \in Nat : i = k + 1
  <2>1. i - 1 \in Nat /\ i = (i - 1) + 1
    OBVIOUS
  <2> QED
    BY <2>1
<1>2. i - 1 = k /\ (i + 1) - 1 = k + 1
  BY <1>1
<1> QED
  BY <1>1, <1>2, BegunNext DEF Before

LEMMA BeforeNextPart ==
  ASSUME NEW p \in Nat \ {0}, NEW n \in Nat, DOMAIN Script[p] = 1 .. n
  PROVE  Before(p + 1, 1) = Before(p, n + 1)
<1>1. PICK k \in Nat : p = k + 1
  <2>1. p - 1 \in Nat /\ p = (p - 1) + 1
    OBVIOUS
  <2> QED
    BY <2>1
<1>2. p - 1 = k /\ (p + 1) - 1 = k + 1 /\ 1 - 1 = 0 /\ (n + 1) - 1 = n
  BY <1>1
<1>3. Range(Script[p]) = Begun(p, n)
  BY DEF Range, Begun
<1> QED
  BY <1>1, <1>2, <1>3, NoneBegun, PartsBefore DEF Before

LEMMA BeforeEnd ==
  ASSUME NEW n \in Nat, DOMAIN Script = 1 .. n
  PROVE  Before(n + 1, 1) = Statements
<1>1. (n + 1) - 1 = n /\ 1 - 1 = 0
  OBVIOUS
<1>2. \A x : x \in {Range(Script[q]) : q \in 1 .. n} <=> x \in {Range(part) : part \in Range(Script)}
  <2>1. Range(Script) = {Script[q] : q \in 1 .. n}
    BY DEF Range
  <2>2. \A part : part \in Range(Script) <=> \E q \in 1 .. n : part = Script[q]
    BY <2>1
  <2> QED
    BY <2>2
<1>3. {Range(Script[q]) : q \in 1 .. n} = {Range(part) : part \in Range(Script)}
  BY <1>2
<1> QED
  BY <1>1, <1>3, NoneBegun DEF Before, Parts, Statements

LEMMA OnByAdd ==
  ASSUME NEW S, NEW s, NEW ops
  PROVE  /\ OnBy(S, ops) \subseteq OnBy(S \cup {s}, ops)
         /\ s.op \in ops => OnBy(S \cup {s}, ops) = OnBy(S, ops) \cup s.on
         /\ s.op \notin ops => OnBy(S \cup {s}, ops) = OnBy(S, ops)
BY DEF OnBy

---------------------------------------------------------------------------
(* One statement.                                                          *)

LEMMA OverDomain ==
  ASSUME NEW f, NEW g
  PROVE  /\ DOMAIN Over(f, g) = DOMAIN f \cup DOMAIN g
         /\ \A t \in DOMAIN f : Over(f, g)[t] = f[t]
         /\ \A t \in DOMAIN g \ DOMAIN f : Over(f, g)[t] = g[t]
BY DEF Over

FromFinished(s, u, run) == \A t \in s.from : u[t].run = run /\ u[t].rows = "all"

\* The tables a are those of u, but for those in S, which g gives.
Changed(a, u, S, g) ==
  /\ DOMAIN a = DOMAIN u \cup S
  /\ \A t \in S : a[t] = g[t]
  /\ \A t \in DOMAIN u \ S : a[t] = u[t]

DroppedFrom(a, u, S) ==
  /\ DOMAIN a = DOMAIN u \ S
  /\ \A t \in DOMAIN u \ S : a[t] = [u[t] EXCEPT !.refs = @ \ S]

LEMMA AfterDrop ==
  ASSUME NEW s, NEW u, NEW run, s.op = "drop"
  PROVE  DroppedFrom(After(s, u, run), u, s.on)
BY DEF After, DroppedFrom

NewTables(s, run, rows) == [t \in s.on |-> [run |-> run, rows |-> rows, refs |-> s.refs]]

LEMMA AfterMake ==
  ASSUME NEW s, NEW u, NEW run, Makes(s)
  PROVE  \E r \in Rows :
           /\ s.op = "select" => r # "none"
           /\ s.op = "select" /\ FromFinished(s, u, run) => r = "all"
           /\ Changed(After(s, u, run), u, s.on, NewTables(s, run, r))
<1> DEFINE made(r) == [t \in DOMAIN u \cup s.on |->
                        IF t \in s.on THEN [run |-> run, rows |-> r, refs |-> s.refs] ELSE u[t]]
<1>1. ASSUME NEW r \in Rows PROVE Changed(made(r), u, s.on, NewTables(s, run, r))
  BY DEF Changed, NewTables
<1>2. CASE s.op = "create"
  <2>1. After(s, u, run) = made("none")
    BY <1>2 DEF After
  <2> QED
    BY <1>1, <1>2, <2>1 DEF Rows
<1>3. CASE s.op = "select"
  <2>1. PICK r \in {"part", "all"} : r = IF FromFinished(s, u, run) THEN "all" ELSE "part"
    OBVIOUS
  <2>2. After(s, u, run) = made(r)
    BY <1>3, <2>1 DEF After, FromFinished
  <2> QED
    BY <1>1, <1>3, <2>1, <2>2 DEF Rows
<1> QED
  BY <1>2, <1>3 DEF Makes

Refilled(s, u, rows) == [t \in s.on |-> [u[t] EXCEPT !.rows = rows]]

LEMMA AfterFill ==
  ASSUME NEW s, NEW u, NEW run, s.op \in {"fill", "draft"}, s.on \subseteq DOMAIN u
  PROVE  \E r \in Rows :
           /\ r # "none"
           /\ s.op = "fill" /\ FromFinished(s, u, run) => r = "all"
           /\ Changed(After(s, u, run), u, s.on, Refilled(s, u, r))
<1> DEFINE filled(r) == [t \in DOMAIN u |-> IF t \in s.on THEN [u[t] EXCEPT !.rows = r] ELSE u[t]]
<1>1. ASSUME NEW r \in Rows PROVE Changed(filled(r), u, s.on, Refilled(s, u, r))
  BY DEF Changed, Refilled
<1>2. CASE s.op = "draft"
  <2>1. After(s, u, run) = filled("part")
    BY <1>2 DEF After
  <2> QED
    BY <1>1, <1>2, <2>1 DEF Rows
<1>3. CASE s.op = "fill"
  <2>1. PICK r \in {"part", "all"} : r = IF FromFinished(s, u, run) THEN "all" ELSE "part"
    OBVIOUS
  <2>2. After(s, u, run) = filled(r)
    BY <1>3, <2>1 DEF After, FromFinished
  <2> QED
    BY <1>1, <1>3, <2>1, <2>2 DEF Rows
<1> QED
  BY <1>2, <1>3

LEMMA AfterRead ==
  ASSUME NEW s, NEW u, NEW run, s.op = "read"
  PROVE  After(s, u, run) = u
BY DEF After

LEMMA OnOfMaker ==
  ASSUME NEW done
  PROVE  /\ \A m \in done : Makes(m) => m.on \subseteq MadeBy(done)
         /\ \A t \in MadeBy(done) : \E m \in done : Makes(m) /\ t \in m.on
         /\ CompleteBy(done) \subseteq FilledBy(done)
BY DEF MadeBy, CompleteBy, FilledBy, OnBy, Makes

LEMMA ByAdd ==
  ASSUME NEW done, NEW s
  PROVE  /\ Makes(s) => MadeBy(done \cup {s}) = MadeBy(done) \cup s.on
         /\ ~ Makes(s) => MadeBy(done \cup {s}) = MadeBy(done)
         /\ s.op = "drop" => DroppedBy(done \cup {s}) = DroppedBy(done) \cup s.on
         /\ s.op # "drop" => DroppedBy(done \cup {s}) = DroppedBy(done)
         /\ s.op \in {"fill", "draft", "select"} => FilledBy(done \cup {s}) = FilledBy(done) \cup s.on
         /\ s.op \notin {"fill", "draft", "select"} => FilledBy(done \cup {s}) = FilledBy(done)
         /\ s.op \in {"fill", "select"} => CompleteBy(done \cup {s}) = CompleteBy(done) \cup s.on
         /\ s.op \notin {"fill", "select"} => CompleteBy(done \cup {s}) = CompleteBy(done)
<1>1. ASSUME NEW ops
      PROVE  /\ s.op \in ops => OnBy(done \cup {s}, ops) = OnBy(done, ops) \cup s.on
             /\ s.op \notin ops => OnBy(done \cup {s}, ops) = OnBy(done, ops)
  BY OnByAdd
<1>2. /\ Makes(s) => MadeBy(done \cup {s}) = MadeBy(done) \cup s.on
      /\ ~ Makes(s) => MadeBy(done \cup {s}) = MadeBy(done)
  <2>1. Makes(s) <=> s.op \in {"create", "select"}
    BY DEF Makes
  <2> QED
    BY <1>1, <2>1, Zenon DEF MadeBy
<1>3. /\ s.op = "drop" => DroppedBy(done \cup {s}) = DroppedBy(done) \cup s.on
      /\ s.op # "drop" => DroppedBy(done \cup {s}) = DroppedBy(done)
  <2>1. s.op = "drop" <=> s.op \in {"drop"}
    OBVIOUS
  <2> QED
    BY <1>1, <2>1, Zenon DEF DroppedBy
<1>4. /\ s.op \in {"fill", "draft", "select"} => FilledBy(done \cup {s}) = FilledBy(done) \cup s.on
      /\ s.op \notin {"fill", "draft", "select"} => FilledBy(done \cup {s}) = FilledBy(done)
  BY <1>1, Zenon DEF FilledBy
<1>5. /\ s.op \in {"fill", "select"} => CompleteBy(done \cup {s}) = CompleteBy(done) \cup s.on
      /\ s.op \notin {"fill", "select"} => CompleteBy(done \cup {s}) = CompleteBy(done)
  BY <1>1, Zenon DEF CompleteBy
<1> QED
  BY <1>2, <1>3, <1>4, <1>5, Zenon

LEMMA DropBuilds ==
  ASSUME NEW s \in Statement, NEW u, NEW run \in Nat, NEW done,
         InOrder(s, done), Built(u, run, done), s.op = "drop"
  PROVE  Built(After(s, u, run), run, done \cup {s})
<1>0. PICK a : a = After(s, u, run) /\ DroppedFrom(a, u, s.on)
  BY AfterDrop
<1>1. /\ MadeBy(done \cup {s}) = MadeBy(done) /\ FilledBy(done \cup {s}) = FilledBy(done)
      /\ CompleteBy(done \cup {s}) = CompleteBy(done) /\ ~ Makes(s)
  BY ByAdd DEF Makes
<1>2. ASSUME NEW t \in MadeBy(done)
      PROVE  /\ t \in DOMAIN a /\ a[t] = u[t]
  <2>1. PICK m \in done : Makes(m) /\ t \in m.on
    BY OnOfMaker
  <2>2. s.on \cap (m.on \cup m.refs) = {} /\ u[t].refs = m.refs /\ u[t] \in Row /\ t \in DOMAIN u
    BY <2>1 DEF InOrder, Built
  <2>3. t \in DOMAIN u \ s.on /\ u[t].refs \ s.on = u[t].refs
    BY <2>1, <2>2
  <2>4. [u[t] EXCEPT !.refs = u[t].refs] = u[t]
    BY <2>2 DEF Row
  <2>5. t \in DOMAIN a /\ a[t] = [u[t] EXCEPT !.refs = u[t].refs \ s.on]
    BY <1>0, <2>3 DEF DroppedFrom
  <2> QED
    BY <2>3, <2>4, <2>5
<1>3. \A m \in done \cup {s} : Makes(m) => m \in done /\ m.on \subseteq MadeBy(done)
  BY <1>1, OnOfMaker
<1>4. CompleteBy(done) \subseteq FilledBy(done)
  BY OnOfMaker
<1>5. Built(a, run, done \cup {s})
  BY <1>1, <1>2, <1>3, <1>4, Zenon DEF Built
<1> QED
  BY <1>0, <1>5

LEMMA MakeBuilds ==
  ASSUME NEW s \in Statement, NEW u, NEW run \in Nat, NEW done,
         InOrder(s, done), Built(u, run, done), Makes(s)
  PROVE  Built(After(s, u, run), run, done \cup {s})
<1>1. PICK a : a = After(s, u, run)
  OBVIOUS
<1>2. PICK r \in Rows :
        /\ s.op = "select" => r # "none"
        /\ s.op = "select" /\ FromFinished(s, u, run) => r = "all"
        /\ Changed(a, u, s.on, NewTables(s, run, r))
  BY <1>1, AfterMake
<1>3. /\ MadeBy(done \cup {s}) = MadeBy(done) \cup s.on
      /\ FilledBy(done \cup {s}) = FilledBy(done) \cup (IF s.op = "select" THEN s.on ELSE {})
      /\ CompleteBy(done \cup {s}) = CompleteBy(done) \cup (IF s.op = "select" THEN s.on ELSE {})
  BY ByAdd DEF Makes
<1>4. s.on \cap MadeBy(done) = {} /\ s.refs \in SUBSET Tables
  BY DEF InOrder, Statement
<1>5. \A t \in MadeBy(done) : t \in DOMAIN u \ s.on
  BY <1>4 DEF Built
<1>6. \A t \in MadeBy(done) : t \in DOMAIN a /\ a[t] = u[t]
  BY <1>2, <1>5 DEF Changed
<1>7. CompleteBy(done) \subseteq FilledBy(done) /\ FilledBy(done) \subseteq MadeBy(done)
  BY OnOfMaker DEF Built
<1>8. \A t \in s.on : /\ t \in DOMAIN a /\ a[t] \in Row /\ a[t].run = run
                     /\ a[t].rows = r /\ a[t].refs = s.refs
  BY <1>2, <1>4 DEF Changed, NewTables, Row
<1>9. s.op = "select" => r = "all"
  <2>1. ASSUME s.op = "select", NEW t \in s.from PROVE u[t].run = run /\ u[t].rows = "all"
    <3>1. t \in CompleteBy(done)
      BY <2>1 DEF InOrder
    <3> QED
      BY <1>7, <3>1 DEF Built
  <2> QED
    BY <1>2, <2>1 DEF FromFinished
<1>10. \A m \in done \cup {s} : Makes(m) => \A t \in m.on : a[t].refs = m.refs
  <2>1. \A m \in done : Makes(m) => \A t \in m.on : t \in MadeBy(done) /\ u[t].refs = m.refs
    BY OnOfMaker DEF Built
  <2> QED
    BY <1>6, <1>8, <2>1, Zenon
<1>11. Built(a, run, done \cup {s})
  <2>1. FilledBy(done \cup {s}) \subseteq MadeBy(done \cup {s})
    BY <1>3, <1>7
  <2>2. MadeBy(done \cup {s}) \subseteq DOMAIN a
    BY <1>3, <1>6, <1>8
  <2>3. \A t \in MadeBy(done \cup {s}) : a[t] \in Row /\ a[t].run = run
    <3>1. \A t \in MadeBy(done) : u[t] \in Row /\ u[t].run = run
      BY DEF Built
    <3> QED
      BY <1>3, <1>6, <1>8, <3>1
  <2>4. \A t \in FilledBy(done \cup {s}) : a[t].rows # "none"
    <3>1. \A t \in FilledBy(done) : t \in MadeBy(done) /\ u[t].rows # "none"
      BY DEF Built
    <3> QED
      BY <1>2, <1>3, <1>6, <1>8, <3>1
  <2>5. \A t \in CompleteBy(done \cup {s}) : a[t].rows = "all"
    <3>1. \A t \in CompleteBy(done) : t \in MadeBy(done) /\ u[t].rows = "all"
      BY <1>7 DEF Built
    <3> QED
      BY <1>3, <1>6, <1>8, <1>9, <3>1
  <2> QED
    BY <1>10, <2>1, <2>2, <2>3, <2>4, <2>5 DEF Built
<1> QED
  BY <1>1, <1>11

LEMMA FillBuilds ==
  ASSUME NEW s \in Statement, NEW u, NEW run \in Nat, NEW done,
         InOrder(s, done), Built(u, run, done), s.op \in {"fill", "draft"}
  PROVE  Built(After(s, u, run), run, done \cup {s})
<1>1. PICK a : a = After(s, u, run)
  OBVIOUS
<1>2. s.on \subseteq MadeBy(done) /\ MadeBy(done) \subseteq DOMAIN u /\ ~ Makes(s)
  BY DEF InOrder, Built, Makes
<1>3. PICK r \in Rows :
        /\ r # "none"
        /\ s.op = "fill" /\ FromFinished(s, u, run) => r = "all"
        /\ Changed(a, u, s.on, Refilled(s, u, r))
  BY <1>1, <1>2, AfterFill
<1>4. /\ MadeBy(done \cup {s}) = MadeBy(done)
      /\ FilledBy(done \cup {s}) = FilledBy(done) \cup s.on
      /\ s.op = "fill" => CompleteBy(done \cup {s}) = CompleteBy(done) \cup s.on
      /\ s.op # "fill" => CompleteBy(done \cup {s}) = CompleteBy(done)
  BY <1>2, ByAdd
<1>5. CompleteBy(done) \subseteq FilledBy(done) /\ FilledBy(done) \subseteq MadeBy(done)
  BY OnOfMaker DEF Built
<1>6. \A t \in MadeBy(done) : u[t] \in Row /\ u[t].run = run
  BY DEF Built
<1>7. \A t \in s.on : /\ a[t] \in Row /\ a[t].run = run /\ a[t].rows = r /\ a[t].refs = u[t].refs
  BY <1>2, <1>3, <1>6 DEF Changed, Refilled, Row
<1>8. /\ \A t \in MadeBy(done) \ s.on : a[t] = u[t]
      /\ DOMAIN a = DOMAIN u
  BY <1>2, <1>3 DEF Changed
<1>9. s.op = "fill" => r = "all"
  <2>1. ASSUME s.op = "fill", NEW t \in s.from PROVE u[t].run = run /\ u[t].rows = "all"
    <3>1. t \in CompleteBy(done)
      BY <2>1 DEF InOrder
    <3> QED
      BY <1>5, <1>6, <3>1 DEF Built
  <2> QED
    BY <1>3, <2>1 DEF FromFinished
<1>10. \A m \in done \cup {s} : Makes(m) => \A t \in m.on : a[t].refs = m.refs
  <2>1. \A m \in done : Makes(m) => \A t \in m.on : t \in MadeBy(done) /\ u[t].refs = m.refs
    BY OnOfMaker DEF Built
  <2>2. \A t \in MadeBy(done) : a[t].refs = u[t].refs
    BY <1>7, <1>8
  <2> QED
    BY <1>2, <2>1, <2>2, Zenon
<1>11. \A t \in FilledBy(done) \cup s.on : a[t].rows # "none"
  <2>1. \A t \in FilledBy(done) : t \in MadeBy(done) /\ u[t].rows # "none"
    BY DEF Built
  <2> QED
    BY <1>3, <1>7, <1>8, <2>1
<1>12. \A t \in CompleteBy(done \cup {s}) : a[t].rows = "all"
  <2>1. \A t \in CompleteBy(done) : t \in MadeBy(done) /\ u[t].rows = "all"
    BY <1>5 DEF Built
  <2>2. CASE s.op = "fill"
    BY <1>4, <1>7, <1>8, <1>9, <2>1, <2>2
  <2>3. CASE s.op = "draft"
    <3>1. s.on \cap CompleteBy(done) = {}
      BY <2>3 DEF InOrder
    <3> QED
      BY <1>4, <1>8, <2>1, <2>3, <3>1
  <2> QED
    BY <2>2, <2>3
<1>13. Built(a, run, done \cup {s})
  <2>1. \A t \in MadeBy(done) : a[t] \in Row /\ a[t].run = run
    BY <1>6, <1>7, <1>8
  <2> QED
    BY <1>2, <1>4, <1>5, <1>8, <1>10, <1>11, <1>12, <2>1 DEF Built
<1> QED
  BY <1>1, <1>13

\* A statement that is in order keeps what is known of the tables.
LEMMA StatementBuilds ==
  ASSUME NEW s \in Statement, NEW u, NEW run \in Nat, NEW done,
         InOrder(s, done), Built(u, run, done)
  PROVE  Built(After(s, u, run), run, done \cup {s})
<1>1. CASE s.op = "read"
  <2>1. After(s, u, run) = u /\ ~ Makes(s)
    BY <1>1, AfterRead DEF Makes
  <2>2. /\ MadeBy(done \cup {s}) = MadeBy(done) /\ FilledBy(done \cup {s}) = FilledBy(done)
        /\ CompleteBy(done \cup {s}) = CompleteBy(done)
    BY <1>1, <2>1, ByAdd
  <2> QED
    BY <2>1, <2>2 DEF Built
<1>2. \/ s.op = "read" \/ s.op = "drop" \/ Makes(s) \/ s.op \in {"fill", "draft"}
  BY DEF Statement, Makes
<1> QED
  BY <1>1, <1>2, DropBuilds, MakeBuilds, FillBuilds

---------------------------------------------------------------------------
(* A part of the script.                                                   *)

\* A statement that is in order is refused only when it makes a table that the
\* run has dropped, or found missing, and that is there again.
LEMMA RefusedOnlyByName ==
  ASSUME NEW s \in Statement, NEW u, NEW run, NEW done,
         InOrder(s, done), Built(u, run, done), Refused(s, u)
  PROVE  \E t \in DOMAIN u : t \in DroppedBy(done) \ MadeBy(done)
<1>1. MadeBy(done) \subseteq DOMAIN u /\ s.refs \cup s.from \subseteq DOMAIN u
  BY DEF Built, InOrder
<1>2. CASE Makes(s) /\ s.on \cap DOMAIN u # {}
  BY <1>2 DEF InOrder
<1>3. ASSUME s.op \in {"fill", "draft"}, NEW t \in s.on, NEW r \in u[t].refs, u[r].rows = "none"
      PROVE  FALSE
  <2>1. t \in MadeBy(done)
    BY <1>3 DEF InOrder
  <2>2. PICK m \in done : Makes(m) /\ t \in m.on
    BY <2>1, OnOfMaker
  <2>3. m.on \cap s.on # {} /\ u[t].refs = m.refs
    BY <1>3, <2>2 DEF Built
  <2>4. r \in FilledBy(done)
    BY <1>3, <2>2, <2>3 DEF InOrder
  <2> QED
    BY <1>3, <2>4 DEF Built
<1>4. s.op \in {"fill", "draft"} => s.on \subseteq DOMAIN u
  BY <1>1 DEF InOrder
<1> QED
  BY <1>1, <1>2, <1>3, <1>4 DEF Refused

LEMMA OnByUnion ==
  ASSUME NEW A, NEW B, NEW ops
  PROVE  OnBy(A \cup B, ops) = OnBy(A, ops) \cup OnBy(B, ops)
BY DEF OnBy

\* The tables u that i statements of part p leave of what the run has seen.
PartLeaves(u, view, run, p, i) ==
  /\ Built(u, run, Before(p, i + 1))
  /\ DOMAIN u \ MadeBy(Before(p, i + 1)) \subseteq DOMAIN view \ DroppedBy(Begun(p, i))

\* A name the run has dropped, or found missing, in an earlier part is taken.
Taken(view, p) == \E t \in DOMAIN view : t \in DroppedBy(Before(p, 1)) \ MadeBy(Before(p, 1))

LEMMA NextStatement ==
  ASSUME NEW view, NEW run \in Nat, NEW p \in Nat, NEW i \in Nat, NEW u,
         NEW s \in Statement, s = Script[p][i + 1], InOrder(s, Before(p, i + 1)),
         PartLeaves(u, view, run, p, i)
  PROVE  PartLeaves(After(s, u, run), view, run, p, i + 1)
<1> DEFINE done == Before(p, i + 1)
<1>1. /\ Before(p, (i + 1) + 1) = done \cup {s}
      /\ Begun(p, i + 1) = Begun(p, i) \cup {s}
  <2>1. i + 1 \in Nat \ {0}
    OBVIOUS
  <2> QED
    BY <2>1, BeforeNext, BegunNext
<1>2. Built(After(s, u, run), run, done \cup {s})
  BY StatementBuilds DEF PartLeaves
<1>3. DOMAIN u \ MadeBy(done) \subseteq DOMAIN view \ DroppedBy(Begun(p, i))
  BY DEF PartLeaves
<1> HIDE DEF done
<1>4. /\ Makes(s) => MadeBy(done \cup {s}) = MadeBy(done) \cup s.on
      /\ ~ Makes(s) => MadeBy(done \cup {s}) = MadeBy(done)
      /\ s.op = "drop" => DroppedBy(Begun(p, i) \cup {s}) = DroppedBy(Begun(p, i)) \cup s.on
      /\ s.op # "drop" => DroppedBy(Begun(p, i) \cup {s}) = DroppedBy(Begun(p, i))
  BY ByAdd
<1>5. DOMAIN After(s, u, run) \ MadeBy(done \cup {s}) \subseteq DOMAIN view \ DroppedBy(Begun(p, i) \cup {s})
  <2>1. CASE s.op = "drop"
    <3>1. DOMAIN After(s, u, run) = DOMAIN u \ s.on
      BY <2>1, AfterDrop DEF DroppedFrom
    <3> QED
      BY <1>3, <1>4, <2>1, <3>1 DEF Makes
  <2>2. CASE Makes(s)
    <3>1. DOMAIN After(s, u, run) = DOMAIN u \cup s.on
      BY <2>2, AfterMake DEF Changed
    <3> QED
      BY <1>3, <1>4, <2>2, <3>1 DEF Makes
  <2>3. CASE s.op \in {"fill", "draft"}
    <3>1. s.on \subseteq MadeBy(done) /\ MadeBy(done) \subseteq DOMAIN u
      BY <2>3 DEF InOrder, PartLeaves, Built, done
    <3>2. DOMAIN After(s, u, run) = DOMAIN u \cup s.on
      <4>1. \E r \in Rows : Changed(After(s, u, run), u, s.on, Refilled(s, u, r))
        BY <2>3, <3>1, AfterFill
      <4> QED
        BY <4>1 DEF Changed
    <3> QED
      BY <1>3, <1>4, <2>3, <3>1, <3>2 DEF Makes
  <2>4. CASE s.op = "read"
    BY <1>3, <1>4, <2>4, AfterRead DEF Makes
  <2>5. s.op = "drop" \/ Makes(s) \/ s.op \in {"fill", "draft"} \/ s.op = "read"
    BY DEF Statement, Makes
  <2> QED
    BY <2>1, <2>2, <2>3, <2>4, <2>5
<1> QED
  BY <1>1, <1>2, <1>5 DEF PartLeaves

LEMMA NextRefused ==
  ASSUME NEW view, NEW run \in Nat, NEW p \in Nat, NEW i \in Nat, NEW u,
         NEW s \in Statement, InOrder(s, Before(p, i + 1)),
         PartLeaves(u, view, run, p, i), Refused(s, u)
  PROVE  Taken(view, p)
<1>1. (i + 1) - 1 = i /\ 1 - 1 = 0
  OBVIOUS
<1>2. Before(p, i + 1) = Before(p, 1) \cup Begun(p, i)
  BY <1>1, NoneBegun DEF Before
<1>3. /\ DroppedBy(Before(p, i + 1)) = DroppedBy(Before(p, 1)) \cup DroppedBy(Begun(p, i))
      /\ MadeBy(Before(p, 1)) \subseteq MadeBy(Before(p, i + 1))
  BY <1>2, OnByUnion DEF DroppedBy, MadeBy
<1>4. PICK t \in DOMAIN u : t \in DroppedBy(Before(p, i + 1)) \ MadeBy(Before(p, i + 1))
  BY RefusedOnlyByName DEF PartLeaves
<1>5. t \in DOMAIN view \ DroppedBy(Begun(p, i))
  BY <1>4 DEF PartLeaves
<1> QED
  BY <1>3, <1>4, <1>5 DEF Taken

\* A part that is in order leaves what it should of the tables the run sees, and
\* is refused only because of a name taken meanwhile.
LEMMA PartExecutes ==
  ASSUME ScriptInOrder, NEW p \in DOMAIN Script, NEW view, NEW run \in Nat,
         Built(view, run, Before(p, 1))
  PROVE  /\ \A u \in Outcomes(Script[p], view, run) :
              PartLeaves(u, view, run, p, Len(Script[p]))
         /\ Outcomes(Script[p], view, run) = {} => Taken(view, p)
<1>1. /\ p \in Nat /\ Script[p] \in Seq(Statement)
      /\ \A i \in DOMAIN Script[p] : InOrder(Script[p][i], Before(p, i))
  BY DEF ScriptInOrder
<1>2. PICK part \in Seq(Statement) : part = Script[p]
  BY <1>1
<1>3. PICK n \in Nat : n = Len(part) /\ DOMAIN part = 1 .. n
  OBVIOUS
<1>4. PICK f : Leaves(f, n, part, view, run) /\ Outcomes(part, view, run) = f[n]
  BY <1>3, OutcomesAreLeaves
<1> DEFINE Good(i) == /\ \A u \in f[i] : PartLeaves(u, view, run, p, i)
                      /\ f[i] = {} => Taken(view, p)
           T == {i \in Nat : i <= n => Good(i)}
<1>5. 0 \in T
  <2>1. 0 \in 0 .. n /\ 0 + 1 = 1
    OBVIOUS
  <2>2. f[0] = {view}
    BY <1>4, <2>1 DEF Leaves
  <2>3. PartLeaves(view, view, run, p, 0)
    <3>1. DroppedBy(Begun(p, 0)) = {}
      BY NoneBegun DEF DroppedBy, OnBy
    <3> QED
      BY <2>1, <3>1 DEF PartLeaves
  <2> QED
    BY <2>2, <2>3
<1>6. ASSUME NEW i \in T PROVE i + 1 \in T
  <2> SUFFICES ASSUME i + 1 <= n PROVE Good(i + 1)
    OBVIOUS
  <2>1. /\ i \in Nat /\ i + 1 \in 1 .. n /\ i + 1 \in 0 .. n /\ i + 1 # 0 /\ (i + 1) - 1 = i
        /\ i <= n
    OBVIOUS
  <2>2. Good(i)
    BY <2>1
  <2>3. PICK s \in Statement : s = part[i + 1]
    BY <1>3, <2>1
  <2>4. InOrder(s, Before(p, i + 1))
    BY <1>1, <1>2, <1>3, <2>1, <2>3
  <2>5. f[i + 1] = Sieve(s, f[i], run)
    BY <1>4, <2>1, <2>3 DEF Leaves
  <2>6. ASSUME NEW v \in f[i + 1] PROVE PartLeaves(v, view, run, p, i + 1)
    <3>1. PICK u \in f[i] : v = After(s, u, run)
      BY <2>5, <2>6 DEF Sieve
    <3> QED
      BY <1>1, <1>2, <2>1, <2>2, <2>3, <2>4, <3>1, NextStatement
  <2>7. ASSUME f[i + 1] = {}, f[i] # {} PROVE Taken(view, p)
    <3>1. PICK u \in f[i] : Refused(s, u)
      BY <2>5, <2>7 DEF Sieve
    <3> QED
      BY <1>1, <2>1, <2>2, <2>3, <2>4, <3>1, NextRefused
  <2> QED
    BY <2>2, <2>6, <2>7
<1>7. n \in T
  <2>1. T \in SUBSET Nat
    OBVIOUS
  <2> HIDE DEF T
  <2> QED
    BY <1>5, <1>6, <2>1, SetInduction
<1>8. Good(n)
  <2>1. n <= n
    OBVIOUS
  <2> QED
    BY <1>7, <2>1
<1> QED
  BY <1>2, <1>3, <1>4, <1>8

===========================================================================
