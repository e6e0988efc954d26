----------------------------- MODULE MCJobPhase -----------------------------
(***************************************************************************)
(* JobPhase for TLC.  Tasks and event ids are model values: the machine    *)
(* tells neither the tasks of main-api nor the ids of two events apart, so *)
(* the safety runs take states up to a permutation of them.                *)
(***************************************************************************)
EXTENDS JobPhase, TLC

Symmetry == Permutations(Handlers) \cup Permutations(Copies)

\* A restart is followed alone, a failed statement and the HTTP calls together:
\* all three at once are past what a run can visit.
OneMishap == crashes > 0 => faults = 0 /\ \A r \in Requests : call[r] = "new"
=============================================================================
