-------------------------- MODULE MCVisionProgress --------------------------
(***************************************************************************)
(* VisionProgress for TLC: tasks and assets are model values.              *)
(***************************************************************************)
EXTENDS VisionProgress, TLC

\* A restart is followed alone; a redelivery and a failed statement together.
OneMishap == crashes = 0 \/ requeues + faults = 0
=============================================================================
