-------------------------- MODULE AuditedLifecycle --------------------------
(***************************************************************************)
(* What the status service promises of every tracked row, whatever the     *)
(* business operation: a status moves along an edge of the row's machine,  *)
(* and each move is written to the transition log in the transaction that  *)
(* makes it.  An entity is a row identifier; the log is abstracted to the  *)
(* newest transition row of each entity.  One step is one transaction and  *)
(* may move several entities.                                              *)
(***************************************************************************)
CONSTANTS Entity,    \* identifiers of runs, results, procedure results, defects
          Allowed,   \* the triples <<entity, from, to>> its machine admits
          Births,    \* the pairs <<entity, first status>> of a creation
          Statuses,  \* the status values, and
          NoRow,     \* the one that says that the row does not exist
          NoTransition

VARIABLES status, newest

Transition == [from : Statuses, to : Statuses]

\* A row that is there from the start (imported or seeded) may be without any
\* transition row; one that has transition rows agrees with the newest.
Init ==
  /\ status \in [Entity -> Statuses]
  /\ newest \in [Entity -> Transition \cup {NoTransition}]
  /\ \A e \in Entity : newest[e] # NoTransition => newest[e].to = status[e]

Rests(e) == status'[e] = status[e] /\ newest'[e] = newest[e]

Moves(e) ==
  /\ \/ <<e, status[e], status'[e]>> \in Allowed
     \/ status[e] = NoRow /\ <<e, status'[e]>> \in Births
  /\ newest'[e] = [from |-> status[e], to |-> status'[e]]

Next ==
  /\ status' \in [Entity -> Statuses]
  /\ newest' \in [Entity -> Transition \cup {NoTransition}]
  /\ \A e \in Entity : Rests(e) \/ Moves(e)

Spec == Init /\ [][Next]_<<status, newest>>
=============================================================================
