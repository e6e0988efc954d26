------------------------------ MODULE JobLedger -----------------------------
(***************************************************************************)
(* What main-api promises of a job, without its tasks, caches and phases:  *)
(* a ledger of the events it has been told of, the match requests it has   *)
(* made and the completions it has announced.  A request is booked against *)
(* an event once both collections are in, a completion against an event    *)
(* about the evidence, and no event pays twice.                            *)
(*                                                                         *)
(* A deletion erases the events, and the promises end with it.             *)
(***************************************************************************)
EXTENDS Naturals, FiniteSets

CONSTANTS
    Events,         \* records with a name
    Collections,    \* the names of the events that close a collection
    Evidence        \* the name of the event that ends the evidence

VARIABLES
    reported,   \* events main-api was told of
    requests,   \* match requests made
    completed,  \* completions announced
    erased      \* the job is being deleted

ledger == <<reported, requests, completed, erased>>

Reported(name) == {e \in reported : e.name = name}

LedgerInit == reported = {} /\ requests = 0 /\ completed = 0 /\ erased = FALSE

Report(e) ==
    /\ reported' = reported \cup {e}
    /\ UNCHANGED <<requests, completed, erased>>

\* One event stays unpaid: the one that closed the collection asks for nothing.
AskForMatching ==
    /\ ~erased => /\ \A c \in Collections : Reported(c) # {}
                  /\ requests + 1 < Cardinality(reported)
    /\ requests' = requests + 1
    /\ UNCHANGED <<reported, completed, erased>>

Complete ==
    /\ ~erased => /\ requests > 0 /\ \A c \in Collections : Reported(c) # {}
                  /\ completed < Cardinality(Reported(Evidence))
    /\ completed' = completed + 1
    /\ UNCHANGED <<reported, requests, erased>>

Erase ==
    /\ erased' = TRUE /\ reported' \in {reported, {}}
    /\ UNCHANGED <<requests, completed>>

LedgerNext == (\E e \in Events : Report(e)) \/ AskForMatching \/ Complete \/ Erase

LedgerSpec == LedgerInit /\ [][LedgerNext]_ledger
=============================================================================
