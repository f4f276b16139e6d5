-------------------------- MODULE JournaledMutation --------------------------
(***************************************************************************)
(* What every journaled mutation of the System edition promises: packages, *)
(* drivers, firmware and vendor repositories.  A record is written before  *)
(* the mutation is handed off, it ends once, and what it ended with stays. *)
(* Only a record that asked for recovery may still be reconciled.  A       *)
(* transaction is contested once somebody else works on its record, or on  *)
(* what it mutates, while it is under way: then nothing is promised of it. *)
(* Each transaction moves by itself; several may move in one step.         *)
(***************************************************************************)
CONSTANT Tx

VARIABLES
  phase,     \* "none", "active", how it ended, or "contested"
  touched    \* has the mutation been handed off?

vars == <<phase, touched>>

Ended == {"committed", "undone", "aborted", "stuck"}
Phase == {"none", "active", "contested"} \cup Ended

Init ==
  /\ phase = [t \in Tx |-> "none"]
  /\ touched = [t \in Tx |-> FALSE]

Stays(t) == phase'[t] = phase[t] /\ touched'[t] = touched[t]

\* The record is written before anything is mutated.
Begin(t) ==
  /\ phase[t] = "none" /\ ~touched[t]
  /\ phase'[t] = "active" /\ ~touched'[t]

\* A mutation is handed off under an active record, once.
Touch(t) ==
  /\ phase[t] = "active" /\ ~touched[t]
  /\ phase'[t] = "active" /\ touched'[t]

\* How it ended, or what recovery made of it; what was handed off is never aborted.
End(t) ==
  /\ phase[t] = "active" /\ phase'[t] \in Ended
  /\ phase'[t] = "aborted" => ~touched[t]
  /\ touched'[t] = touched[t]

\* What asked for recovery may be found to have reached its goal, or be undone.
Reconcile(t) ==
  /\ phase[t] = "stuck" /\ phase'[t] \in {"committed", "undone"}
  /\ touched'[t] = touched[t]

Contest(t) == phase'[t] = "contested"

Moves(t) ==
  Stays(t) \/ Begin(t) \/ Touch(t) \/ End(t) \/ Reconcile(t) \/ Contest(t)

Next == \A t \in Tx : Moves(t)

Spec == Init /\ [][Next]_vars
================================================================================
