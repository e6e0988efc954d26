--------------------------- MODULE MatchEvidence ----------------------------
(***************************************************************************)
(* The matcher and the evidence builder, for one job.                      *)
(*                                                                         *)
(* The matcher takes one match.request at a time, inserts a row of matches *)
(* and publishes a match.result for each accepted pair, and then publishes *)
(* match.request.completed.  The evidence builder handles up to ten        *)
(* match.result messages at once, each in a task of its own, and one       *)
(* match.request.completed (the closer).  A task renders the evidence,     *)
(* updates the row, records the pair in processed_events and, seeing every *)
(* row with evidence, announces evidences.generation.completed.            *)
(*                                                                         *)
(* A step is one statement or publish with the code up to the next await.  *)
(* The phase the matcher writes before it records the request is in        *)
(* JobPhase.  Which pairs are accepted is left open; a pair always has the *)
(* same best image and frame, so it stands for its deduplication key.      *)
(***************************************************************************)
EXTENDS Naturals, FiniteSets

CONSTANTS
    Pairs,         \* product-video pairs of the job
    Workers,       \* match.result tasks that run at once (the prefetch)
    Closer,        \* the one match.request.completed task
    MaxRequests,   \* bound on the match requests main-api publishes
    MaxCrashes,    \* bound on the restarts of the two services
    MaxFaults      \* bound on the failures of a statement, publish or render

ASSUME MatchBounds ==
    MaxRequests \in Nat /\ MaxCrashes \in Nat /\ MaxFaults \in Nat

ASSUME CloserAssumption == Closer \notin Workers

ASSUME WorkersAssumption == IsFiniteSet(Workers)

Tasks == Workers \cup {Closer}
NoPair == "none"

WorkerPcs == {"idle", "dedup", "update", "mark", "hasPublished",
              "total", "withEvidence", "publish", "markPublished", "ack"}
CloserPcs == {"idle", "count", "hasPublished", "publish", "markPublished", "ack"}

-----------------------------------------------------------------------------
VARIABLES
    \* the matcher
    accepted,    \* the pairs match_product_video accepts
    requests,    \* match.request messages not acknowledged
    asked,       \* match requests published by main-api so far
    mpc,         \* where the matcher stands in a request
    todo,        \* pairs it has still to insert
    current,     \* the pair whose row it has inserted
    \* the database
    rows,        \* the rows of matches, several for a pair inserted again
    evidenced,   \* those with an evidence_path
    processed,   \* pairs recorded as evidence_generated
    published,   \* evidences_generation_completed is recorded for the job
    \* the evidence builder
    pc,          \* where each task stands
    pair,        \* the pair of the message a worker handles
    total,       \* the number of rows a worker has counted
    \* the broker
    results,     \* match.result messages queued for each pair
    dones,       \* match.request.completed messages queued
    completions, \* evidences.generation.completed published
    \* bounds
    crashes, faults

matcherVars == <<accepted, requests, asked, mpc, todo, current>>
taskVars    == <<pc, pair, total>>
vars == <<matcherVars, rows, evidenced, processed, published, taskVars,
          results, dones, completions, crashes, faults>>

Init ==
    /\ accepted \in SUBSET Pairs
    /\ requests = 0 /\ asked = 0
    /\ mpc = "idle" /\ todo = {} /\ current = NoPair
    /\ rows = {} /\ evidenced = {}
    /\ processed = {} /\ published = FALSE
    /\ pc = [t \in Tasks |-> "idle"]
    /\ pair = [w \in Workers |-> NoPair]
    /\ total = [w \in Workers |-> 0]
    /\ results = [p \in Pairs |-> 0] /\ dones = 0 /\ completions = 0
    /\ crashes = 0 /\ faults = 0

Fault == faults < MaxFaults /\ faults' = faults + 1 /\ UNCHANGED crashes

Row == [pair : Pairs, id : Nat]
RowsOf(p) == {r \in rows : r.pair = p}
HasEvidence(p) == \E r \in evidenced : r.pair = p

-----------------------------------------------------------------------------
\* The matcher: MatcherService.handle_match_request

\* main-api publishes a match.request, each with an event_id of its own.
Ask ==
    /\ asked < MaxRequests
    /\ asked' = asked + 1 /\ requests' = requests + 1
    /\ UNCHANGED <<accepted, mpc, todo, current, rows, evidenced, processed,
                   published, taskVars, results, dones, completions, crashes, faults>>

\* Mutant: the request is acknowledged as soon as it is taken.
TakeAcked ==
    /\ mpc = "idle" /\ requests > 0
    /\ mpc' = "scan" /\ todo' = accepted /\ requests' = requests - 1
    /\ UNCHANGED <<accepted, asked, current, rows, evidenced, processed,
                   published, taskVars, results, dones, completions, crashes, faults>>

\* A request is taken and all pairs are scanned.  is_event_processed finds
\* nothing: requests are recorded last, just before the acknowledgement.
Take ==
    /\ mpc = "idle" /\ requests > 0
    /\ mpc' = "scan" /\ todo' = accepted
    /\ UNCHANGED <<accepted, requests, asked, current, rows, evidenced, processed,
                   published, taskVars, results, dones, completions, crashes, faults>>

\* create_match for the next accepted pair: a plain INSERT with a fresh id.
Insert(p) ==
    /\ mpc = "scan" /\ p \in todo
    /\ mpc' = "result" /\ current' = p /\ todo' = todo \ {p}
    /\ rows' = rows \cup {[pair |-> p, id |-> Cardinality(RowsOf(p))]}
    /\ UNCHANGED <<accepted, requests, asked, evidenced, processed, published,
                   taskVars, results, dones, completions, crashes, faults>>

\* match.result for the row just inserted.
PublishResult ==
    /\ mpc = "result"
    /\ mpc' = "scan" /\ current' = NoPair
    /\ results' = [results EXCEPT ![current] = @ + 1]
    /\ UNCHANGED <<accepted, requests, asked, todo, rows, evidenced, processed,
                   published, taskVars, dones, completions, crashes, faults>>

\* Mutant: match.request.completed does not wait for the scan.
PublishDoneEarly ==
    /\ mpc = "scan"
    /\ mpc' = "record" /\ dones' = dones + 1
    /\ UNCHANGED <<accepted, requests, asked, todo, current, rows, evidenced,
                   processed, published, taskVars, results, completions,
                   crashes, faults>>

\* match.request.completed, once all pairs are scanned.
PublishDone ==
    /\ mpc = "scan" /\ todo = {}
    /\ mpc' = "record" /\ dones' = dones + 1
    /\ UNCHANGED <<accepted, requests, asked, todo, current, rows, evidenced,
                   processed, published, taskVars, results, completions,
                   crashes, faults>>

\* The request is recorded and acknowledged.  (record_event names a conflict
\* target that migration 009 removed and fails: the request then goes to the
\* dead letters and is acknowledged all the same.)
Record ==
    /\ mpc = "record"
    /\ mpc' = "idle" /\ todo' = {} /\ requests' = requests - 1
    /\ UNCHANGED <<accepted, asked, current, rows, evidenced, processed, published,
                   taskVars, results, dones, completions, crashes, faults>>

\* A statement or publish fails: the request is dead-lettered, or published
\* again when the error is retryable.  Rows and results stay.
MatcherFails ==
    /\ mpc # "idle" /\ Fault
    /\ mpc' = "idle" /\ todo' = {} /\ current' = NoPair
    /\ requests' \in {requests - 1, requests}
    /\ UNCHANGED <<accepted, asked, rows, evidenced, processed, published,
                   taskVars, results, dones, completions>>

\* The matcher restarts: the request is redelivered and scanned from scratch.
MatcherCrash ==
    /\ mpc # "idle" /\ crashes < MaxCrashes
    /\ crashes' = crashes + 1
    /\ mpc' = "idle" /\ todo' = {} /\ current' = NoPair
    /\ UNCHANGED <<accepted, requests, asked, rows, evidenced, processed, published,
                   taskVars, results, dones, completions, faults>>

-----------------------------------------------------------------------------
\* A worker of the evidence builder: EvidenceBuilderService.handle_match_result

Goto(t, p) == pc' = [pc EXCEPT ![t] = p]

Deliver(w, p) ==
    /\ pc[w] = "idle" /\ results[p] > 0
    /\ results' = [results EXCEPT ![p] = @ - 1]
    /\ Goto(w, "dedup") /\ pair' = [pair EXCEPT ![w] = p]
    /\ UNCHANGED <<matcherVars, rows, evidenced, processed, published, total,
                   dones, completions, crashes, faults>>

\* Mutant: the pair is claimed before its row has the evidence.
DedupClaims(w) ==
    /\ pc[w] = "dedup"
    /\ IF pair[w] \in processed
       THEN Goto(w, "ack") /\ UNCHANGED processed
       ELSE Goto(w, "update") /\ processed' = processed \cup {pair[w]}
    /\ UNCHANGED <<matcherVars, rows, evidenced, published, pair, total,
                   results, dones, completions, crashes, faults>>

\* is_evidence_processed: a pair already recorded is skipped.  Otherwise the
\* image and frame are looked up and the evidence is rendered, which touches
\* nothing that another task writes.
Dedup(w) ==
    /\ pc[w] = "dedup"
    /\ Goto(w, IF pair[w] \in processed THEN "ack" ELSE "update")
    /\ UNCHANGED <<matcherVars, rows, evidenced, processed, published, pair, total,
                   results, dones, completions, crashes, faults>>

\* A row or file is missing or rendering fails: logged, and the message is
\* done with.
RenderFails(w) ==
    /\ pc[w] = "dedup" /\ pair[w] \notin processed /\ Fault
    /\ Goto(w, "ack")
    /\ UNCHANGED <<matcherVars, rows, evidenced, processed, published, pair, total,
                   results, dones, completions>>

\* UPDATE matches: all rows of the pair that are there by now.
Update(w) ==
    /\ pc[w] = "update"
    /\ Goto(w, "mark")
    /\ evidenced' = evidenced \cup RowsOf(pair[w])
    /\ UNCHANGED <<matcherVars, rows, processed, published, pair, total,
                   results, dones, completions, crashes, faults>>

\* mark_evidence_processed.
Mark(w) ==
    /\ pc[w] = "mark"
    /\ Goto(w, "hasPublished")
    /\ processed' = processed \cup {pair[w]}
    /\ UNCHANGED <<matcherVars, rows, evidenced, published, pair, total,
                   results, dones, completions, crashes, faults>>

\* Mutant: the record of the completion is not read.
HasPublishedIgnored(t) ==
    /\ pc[t] = "hasPublished"
    /\ Goto(t, IF t = Closer THEN "publish" ELSE "total")
    /\ UNCHANGED <<matcherVars, rows, evidenced, processed, published, pair, total,
                   results, dones, completions, crashes, faults>>

\* has_published_completion, read by a worker before it counts and by the
\* closer after it has counted.
HasPublished(t) ==
    /\ pc[t] = "hasPublished"
    /\ Goto(t, IF published THEN "ack" ELSE IF t = Closer THEN "publish" ELSE "total")
    /\ UNCHANGED <<matcherVars, rows, evidenced, processed, published, pair, total,
                   results, dones, completions, crashes, faults>>

\* check_and_publish_completion counts the rows, and then those with evidence.
CountTotal(w) ==
    /\ pc[w] = "total"
    /\ Goto(w, "withEvidence") /\ total' = [total EXCEPT ![w] = Cardinality(rows)]
    /\ UNCHANGED <<matcherVars, rows, evidenced, processed, published, pair,
                   results, dones, completions, crashes, faults>>

\* Mutant: more rows with evidence are asked for than there are rows.
CountEvidenceStrict(w) ==
    /\ pc[w] = "withEvidence"
    /\ Goto(w, IF total[w] > 0 /\ Cardinality(evidenced) > total[w] THEN "publish" ELSE "ack")
    /\ total' = [total EXCEPT ![w] = 0]
    /\ UNCHANGED <<matcherVars, rows, evidenced, processed, published, pair,
                   results, dones, completions, crashes, faults>>

CountEvidence(w) ==
    /\ pc[w] = "withEvidence"
    /\ Goto(w, IF total[w] > 0 /\ Cardinality(evidenced) >= total[w] THEN "publish" ELSE "ack")
    /\ total' = [total EXCEPT ![w] = 0]
    /\ UNCHANGED <<matcherVars, rows, evidenced, processed, published, pair,
                   results, dones, completions, crashes, faults>>

\* _publish_completion: the event first, the record of it after.
PublishCompletion(t) ==
    /\ pc[t] = "publish"
    /\ Goto(t, "markPublished") /\ completions' = completions + 1
    /\ UNCHANGED <<matcherVars, rows, evidenced, processed, published, pair, total,
                   results, dones, crashes, faults>>

MarkPublished(t) ==
    /\ pc[t] = "markPublished"
    /\ Goto(t, "ack") /\ published' = TRUE
    /\ UNCHANGED <<matcherVars, rows, evidenced, processed, pair, total,
                   results, dones, completions, crashes, faults>>

Ack(t) ==
    /\ pc[t] = "ack"
    /\ Goto(t, "idle") /\ pair' = [w \in Workers |-> IF w = t THEN NoPair ELSE pair[w]]
    /\ UNCHANGED <<matcherVars, rows, evidenced, processed, published, total,
                   results, dones, completions, crashes, faults>>

WorkerStep(w) ==
    \/ Dedup(w) \/ Update(w) \/ Mark(w) \/ CountTotal(w) \/ CountEvidence(w)

\* A statement or publish fails: the message is dead-lettered, or published
\* again when the error is retryable.
WorkerFails(w) ==
    /\ pc[w] \notin {"idle", "ack"} /\ Fault
    /\ Goto(w, "idle")
    /\ pair' = [pair EXCEPT ![w] = NoPair] /\ total' = [total EXCEPT ![w] = 0]
    /\ results' \in {results, [results EXCEPT ![pair[w]] = @ + 1]}
    /\ UNCHANGED <<matcherVars, rows, evidenced, processed, published, dones, completions>>

-----------------------------------------------------------------------------
\* The closer: EvidencePublisher.handle_match_request_completed

Close ==
    /\ pc[Closer] = "idle" /\ dones > 0
    /\ dones' = dones - 1 /\ Goto(Closer, "count")
    /\ UNCHANGED <<matcherVars, rows, evidenced, processed, published, pair, total,
                   results, completions, crashes, faults>>

\* Only a job without a row of matches is completed here.
CountMatches ==
    /\ pc[Closer] = "count"
    /\ Goto(Closer, IF rows = {} THEN "hasPublished" ELSE "ack")
    /\ UNCHANGED <<matcherVars, rows, evidenced, processed, published, pair, total,
                   results, dones, completions, crashes, faults>>

CloserFails ==
    /\ pc[Closer] \notin {"idle", "ack"} /\ Fault
    /\ Goto(Closer, "idle") /\ dones' \in {dones, dones + 1}
    /\ UNCHANGED <<matcherVars, rows, evidenced, processed, published, pair, total,
                   results, completions>>

TaskStep(t) ==
    \/ HasPublished(t) \/ PublishCompletion(t) \/ MarkPublished(t) \/ Ack(t)

\* The workers with a message of a pair.
Holding(p) == {w \in Workers : pc[w] # "idle" /\ pair[w] = p}

\* The evidence builder restarts: unacknowledged messages are redelivered.
BuilderCrash ==
    /\ crashes < MaxCrashes /\ crashes' = crashes + 1
    /\ \E t \in Tasks : pc[t] # "idle"
    /\ results' = [p \in Pairs |-> results[p] + Cardinality(Holding(p))]
    /\ dones' = IF pc[Closer] = "idle" THEN dones ELSE dones + 1
    /\ pc' = [t \in Tasks |-> "idle"]
    /\ pair' = [w \in Workers |-> NoPair] /\ total' = [w \in Workers |-> 0]
    /\ UNCHANGED <<matcherVars, rows, evidenced, processed, published, completions, faults>>

-----------------------------------------------------------------------------
Next ==
    \/ Ask \/ Take \/ PublishResult \/ PublishDone \/ Record
    \/ MatcherFails \/ MatcherCrash
    \/ \E p \in Pairs : Insert(p) \/ \E w \in Workers : Deliver(w, p)
    \/ \E w \in Workers : WorkerStep(w) \/ RenderFails(w) \/ WorkerFails(w)
    \/ \E t \in Tasks : TaskStep(t)
    \/ Close \/ CountMatches \/ CloserFails \/ BuilderCrash

Spec == Init /\ [][Next]_vars

MatcherStep ==
    Take \/ (\E p \in Pairs : Insert(p)) \/ PublishResult \/ PublishDone \/ Record

\* The matcher, the deliveries and the tasks go on while they can; main-api
\* need not ask, and nothing need fail.
FairSpec ==
    /\ Spec
    /\ WF_vars(MatcherStep)
    /\ WF_vars(\E p \in Pairs, w \in Workers : Deliver(w, p))
    /\ \A w \in Workers : WF_vars(WorkerStep(w) \/ TaskStep(w))
    /\ WF_vars(Close \/ CountMatches \/ TaskStep(Closer))

-----------------------------------------------------------------------------
\* Type invariant

TypeOK ==
    /\ accepted \subseteq Pairs
    /\ requests \in Nat /\ asked \in Nat
    /\ mpc \in {"idle", "scan", "result", "record"}
    /\ mpc # "idle" => requests > 0
    /\ todo \subseteq Pairs
    /\ mpc = "result" => current \in Pairs
    /\ rows \subseteq Row /\ IsFiniteSet(rows) /\ evidenced \subseteq rows
    /\ processed \subseteq Pairs /\ published \in BOOLEAN
    /\ pc \in [Tasks -> WorkerPcs \cup CloserPcs]
    /\ \A w \in Workers : pc[w] \in WorkerPcs
    /\ pc[Closer] \in CloserPcs
    /\ pair \in [Workers -> Pairs \cup {NoPair}]
    /\ \A w \in Workers : pc[w] # "idle" => pair[w] \in Pairs
    /\ total \in [Workers -> Nat]
    /\ results \in [Pairs -> Nat] /\ dones \in Nat /\ completions \in Nat
    /\ crashes \in Nat /\ faults \in Nat

-----------------------------------------------------------------------------
\* Safety

\* A pair is recorded only when a row of it has its evidence: the record makes
\* every later delivery skip the pair, so a record without evidence would lose
\* it (update_match_record_and_log comes before mark_evidence_processed).
EvidenceBehindRecord == \A p \in processed : HasEvidence(p)

\* The completion is never announced on nothing: some match has its evidence,
\* or the matcher accepts no pair at all.  The closer reads a count of zero
\* rows as "no matches", while requests and restarts of the matcher go on.
CompletionBacked ==
    completions > 0 => accepted = {} \/ evidenced # {}

\* Tasks past has_published_completion, which may still announce.
Announcing == {"total", "withEvidence", "publish"}

\* Once the completion is recorded and the tasks in flight have drained, it is
\* not announced again, whatever is redelivered, restarted or asked again.
CompletionSealed ==
    [][published /\ (\A t \in Tasks : pc[t] \notin Announcing)
          => completions' = completions /\ \A t \in Tasks : pc'[t] \notin Announcing]_vars

-----------------------------------------------------------------------------
\* Liveness

\* Every row of matches gets its pair's evidence in the end, through any
\* restart, as long as no statement and no rendering fails.
EveryMatchEvidenced ==
    []<>(faults > 0 \/ \A r \in rows : HasEvidence(r.pair))

\* The end of the only match request leads to the completion when nothing
\* fails or restarts: of the workers that run at once, the last to write its
\* evidence sees all rows with theirs.
CompletionAnnounced ==
    mpc = "record" ~> completions > 0 \/ asked > 1 \/ crashes + faults > 0

-----------------------------------------------------------------------------
\* What makes the safety properties hold: an inductive invariant

\* A message or a task has the row of its pair behind it, and a task past the
\* update has its evidence behind it.
RowInv ==
    /\ \A p \in Pairs : results[p] > 0 => RowsOf(p) # {}
    /\ mpc = "result" => RowsOf(current) # {}
    /\ \A w \in Workers : pc[w] # "idle" => RowsOf(pair[w]) # {}

AfterUpdate == {"mark", "hasPublished", "total", "withEvidence", "publish",
                "markPublished"}

EvidenceInv ==
    /\ EvidenceBehindRecord
    /\ \A w \in Workers : pc[w] \in AfterUpdate => HasEvidence(pair[w])

\* The closer goes on only for a job without matches.
CloserInv ==
    /\ mpc \in {"scan", "result"} =>
          \A p \in accepted : p \in todo \/ RowsOf(p) # {}
    /\ todo \subseteq accepted
    /\ dones > 0 \/ mpc = "record" \/ pc[Closer] # "idle" =>
          \A p \in accepted : RowsOf(p) # {}
    /\ pc[Closer] \in {"hasPublished", "publish", "markPublished"} => accepted = {}

-----------------------------------------------------------------------------
\* What the documents say and the code does not do

\* docs/sprint/evidence-builder/sprint_1_evidence_builder_backend_frontend_plan.md:62:
\* the completion is emitted only when all matches have evidence.  The first
\* worker may count before the matcher inserts its next row.
CompletionMeansAll ==
    completions > 0 => \A p \in accepted : HasEvidence(p)
=============================================================================
