---------------------------- MODULE MCDesktopUpdate ----------------------------
(* Model-checking instances of DesktopUpdate. *)
EXTENDS DesktopUpdate, FiniteSets, TLC

\* Processes and transactions are interchangeable.
Symmetry == Permutations(Proc) \cup Permutations(Tx)

\* A bound for the run with Overlap: at most two Hosts that the user started
\* run, and both beside a third process only while one of them hands over.
FewPlainHosts ==
  LET plain == {p \in Proc : kind[p] = "host" /\ cred[p] = NoTx}
  IN  /\ Cardinality(plain) <= 2
      /\ Cardinality(plain) = 2 /\ (\A p \in Proc : Running(p))
           => \E p \in plain : pc[p] \in {"handoff", "exiting"}
================================================================================
