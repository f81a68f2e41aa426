---------------------------- MODULE Publication ----------------------------
(***************************************************************************)
(* What the database promises its readers, whatever the seed job and the   *)
(* starting replicas do to it: the warehouse is published in editions, one *)
(* at a time and each newer than the one before; a query shows the edition *)
(* that is out at that moment; a reader is turned away only before the     *)
(* first edition, and never in the middle of a page.                       *)
(***************************************************************************)
EXTENDS Naturals, Sequences

CONSTANTS
  Readers,   \* page requests
  Editions   \* how many there can be

VARIABLES
  edition,   \* the one that is out; 0 before the first
  shown,     \* the editions each reader has seen, query after query
  refused    \* the readers that were turned away

vars == <<edition, shown, refused>>

Init == edition = 0 /\ shown = [v \in Readers |-> <<>>] /\ refused = {}

Publish ==
  /\ edition' \in edition + 1 .. Editions
  /\ UNCHANGED <<shown, refused>>

Show(v) ==
  /\ v \notin refused
  /\ shown' = [shown EXCEPT ![v] = Append(@, edition)]
  /\ UNCHANGED <<edition, refused>>

Refuse(v) ==
  /\ edition = 0 /\ shown[v] = <<>>
  /\ refused' = refused \cup {v}
  /\ UNCHANGED <<edition, shown>>

Next == Publish \/ \E v \in Readers : Show(v) \/ Refuse(v)

Spec == Init /\ [][Next]_vars

=============================================================================
