-------------------------- MODULE MCMatchEvidence ---------------------------
(***************************************************************************)
(* MatchEvidence for TLC.                                                  *)
(***************************************************************************)
EXTENDS MatchEvidence, TLC

\* A run follows a restart or a failed statement, not both.
OneMishap == crashes + faults <= 1
=============================================================================
