------------------------------ MODULE JobPhase ------------------------------
(***************************************************************************)
(* The job phase machine of main-api, for one job.                         *)
(*                                                                         *)
(* main-api consumes the completion events of every other service and      *)
(* moves jobs.phase along collection, feature_extraction, matching,        *)
(* evidence, completed.  Each message is handled by an asyncio task of its *)
(* own (aio_pika starts one per delivery, up to the prefetch), so the      *)
(* tasks interleave at every await.  A step of this module is one database *)
(* statement or publish together with the code that runs up to the next    *)
(* await.  Consecutive reads of phase_events are one step: they commute    *)
(* with everything but the writes, and rows are only added (or wiped).     *)
(*                                                                         *)
(* Also here, because they write the same rows: the cancel and delete      *)
(* endpoints of main-api, and the matcher, which sets the phase itself.    *)
(* The collectors, the vision services and the evidence builder appear as  *)
(* the events they publish, in any order (each topic has its own queue).   *)
(*                                                                         *)
(* Left out: messages without ids or that fail the JSON schema (dropped on *)
(* the first lines of the handler, no publisher of the system sends them), *)
(* and the audit rows job.cancelled and job.deleted, which no step reads.  *)
(***************************************************************************)
EXTENDS Naturals, FiniteSets

CONSTANTS
    Handlers,      \* tasks main-api can run at once (bounded by the prefetch)
    Requests,      \* HTTP calls of the cancel and delete endpoints, one each
    Copies,        \* ids a producer gives to the events of one name: more
                   \* than one when it redoes its work and publishes again
    MaxRequests,   \* bound on the match requests followed
    AssetKinds,    \* the kinds of asset the job may have
    MaxCrashes,    \* bound on the restarts of main-api and of the matcher
    MaxRequeues,   \* bound on the redeliveries of a message still handled
    MaxFaults      \* bound on the failures of a statement or of a publish

ASSUME BoundsAssumption ==
    /\ MaxRequests \in Nat /\ MaxCrashes \in Nat
    /\ MaxRequeues \in Nat /\ MaxFaults \in Nat

ASSUME KindsAssumption == AssetKinds \subseteq {"images", "videos"}

-----------------------------------------------------------------------------
\* Events

ProductsCollected == "products.collections.completed"
VideosCollected   == "videos.collections.completed"
MatchDone         == "match.request.completed"
EvidenceDone      == "evidences.generation.completed"

CollectionEvents == {ProductsCollected, VideosCollected}

\* The feature events an asset kind requires.
FeaturesOf(kind) ==
    IF kind = "images"
    THEN {"image.embeddings.completed", "image.keypoints.completed"}
    ELSE {"video.embeddings.completed", "video.keypoints.completed"}

RequiredFeatures(kinds) == UNION {FeaturesOf(k) : k \in kinds}

\* The collector that finds the assets of a kind announces the end with this.
CollectionOf(kind) ==
    IF kind = "images" THEN ProductsCollected ELSE VideosCollected

ProducedNames ==
    CollectionEvents \cup RequiredFeatures(AssetKinds) \cup {EvidenceDone}

MatchIds == 1..MaxRequests

\* An event is its topic and its event_id.  match.request.completed carries
\* the id of the match.request it answers.
Event == [name : ProducedNames, id : Copies]
            \cup [name : {MatchDone}, id : MatchIds]

NoEvent == [name |-> "none", id |-> 0]

Phases == {"unknown", "collection", "feature_extraction", "matching",
           "evidence", "completed", "cancelled"}

\* Phases a job reaches only through the feature barrier.
LatePhases == {"matching", "evidence", "completed"}

TaskPcs == {"idle", "ingest", "store", "check", "collect", "toFeatures",
            "assets", "features", "toMatching", "request", "toEvidence",
            "viaEvidence", "toCompleted", "announce", "ack"}

CallPcs == {"new", "cancel", "mark", "active", "cancelFirst", "markFirst",
            "wipeRows", "wipeEvents", "markDeleted", "done"}

-----------------------------------------------------------------------------
VARIABLES
    \* the database
    phase,       \* jobs.phase, "unknown" when there is no row
    deleted,     \* jobs.deleted_at is set
    stored,      \* the rows of phase_events, one for each event_id
    assets,      \* the asset kinds the job has rows for
    wiped,       \* delete_job_data has removed those rows
    found,       \* the asset kinds the collectors find for the query
    \* main-api
    cache,       \* PhaseEventService.processed_events, lost on a restart
    pc,          \* where each handler task stands
    ev,          \* the unacknowledged message it handles
    seen,        \* the current_phase it read in check_phase_transitions
    need,        \* the events its asset counts make it require
    call,        \* where each HTTP call stands
    force,       \* the force flag of a delete call
    completions, \* job.completed published
    \* the broker and the other services
    queue,       \* events waiting in the queues of main-api
    emitted,     \* events published so far
    asked,       \* collection events whose request was published
    mreq,        \* each match request: none, queued, running, sent, done;
                 \* "again" when it was taken before and is queued once more
    \* bounds
    crashes, requeues, faults

dbVars    == <<phase, deleted, stored, assets, wiped, found>>
taskVars  == <<pc, ev, seen, need>>
apiVars   == <<call, force>>
envVars   == <<emitted, asked, mreq>>
boundVars == <<crashes, requeues, faults>>
vars == <<dbVars, cache, taskVars, apiVars, completions, queue, envVars,
          boundVars>>

StoredNames == {e.name : e \in stored}
EmittedNames == {e.name : e \in emitted}

-----------------------------------------------------------------------------
Init ==
    /\ phase = "unknown" /\ deleted = FALSE
    /\ stored = {} /\ assets = {} /\ wiped = FALSE
    /\ found \in SUBSET AssetKinds
    /\ cache = {}
    /\ pc = [h \in Handlers |-> "idle"]
    /\ ev = [h \in Handlers |-> NoEvent]
    /\ seen = [h \in Handlers |-> "unknown"]
    /\ need = [h \in Handlers |-> {}]
    /\ call = [r \in Requests |-> "new"]
    /\ force = [r \in Requests |-> FALSE]
    /\ completions = 0
    /\ queue = {} /\ emitted = {} /\ asked = {}
    /\ mreq = [i \in MatchIds |-> "none"]
    /\ crashes = 0 /\ requeues = 0 /\ faults = 0

\* One failure of a database statement or of a publish.
Fault == faults < MaxFaults /\ faults' = faults + 1 /\ UNCHANGED <<crashes, requeues>>

\* UPDATE jobs SET phase: no condition on the phase it replaces, and no
\* effect when there is no row.
SetPhase(p) == phase' = IF phase = "unknown" THEN phase ELSE p

-----------------------------------------------------------------------------
\* start_job

\* JobInitializer.initialize_job: store the job, then ask the two collectors.
StartJob ==
    /\ asked = {} /\ phase = "unknown"
    /\ phase' = "collection" /\ asked' = CollectionEvents
    /\ UNCHANGED <<deleted, stored, assets, wiped, found, cache, taskVars, apiVars,
                   completions, queue, emitted, mreq, boundVars>>

\* The INSERT or a publish fails.  Both are logged and swallowed: without a
\* row the pipeline runs for a job of phase "unknown", and a failed publish
\* skips the ones after it.
StartJobFails ==
    /\ asked = {} /\ phase = "unknown" /\ Fault
    /\ \/ phase' = "unknown" /\ asked' = CollectionEvents
       \/ phase' = "collection" /\ asked' \in {{}, {ProductsCollected}}
    /\ UNCHANGED <<deleted, stored, assets, wiped, found, cache, taskVars, apiVars,
                   completions, queue, emitted, mreq>>

-----------------------------------------------------------------------------
\* The handler of a phase event: PhaseEventService and PhaseTransitionManager

Goto(h, p) == pc' = [pc EXCEPT ![h] = p] /\ UNCHANGED <<ev, seen, need>>

\* The handler is done with the message; it forgets what it read.
Finish(h) ==
    /\ pc' = [pc EXCEPT ![h] = "ack"]
    /\ seen' = [seen EXCEPT ![h] = "unknown"]
    /\ need' = [need EXCEPT ![h] = {}]
    /\ UNCHANGED ev

\* Mutant: evidence that is early is not followed up.
CrossNever(h) == Finish(h)

\* _handle_cross_phase_evidence_completion, with the phase read at the start.
Cross(h) ==
    IF ev[h].name = EvidenceDone /\ seen[h] # "evidence"
    THEN Goto(h, "viaEvidence")
    ELSE Finish(h)

\* The broker hands a queued event to a free task.
Deliver(h, e) ==
    /\ pc[h] = "idle" /\ e \in queue
    /\ queue' = queue \ {e}
    /\ pc' = [pc EXCEPT ![h] = "ingest"]
    /\ ev' = [ev EXCEPT ![h] = e]
    /\ UNCHANGED <<dbVars, cache, seen, need, apiVars, completions, envVars,
                   boundVars>>

\* Mutant: the in-memory deduplication is missing.
IngestNoDedup(h) ==
    /\ pc[h] = "ingest"
    /\ IF phase = "cancelled"
       THEN Finish(h) /\ UNCHANGED cache
       ELSE Goto(h, "store") /\ cache' = cache \cup {ev[h]}
    /\ UNCHANGED <<dbVars, apiVars, completions, queue, envVars, boundVars>>

\* Mutant: the phase is not looked at before the event is taken.
IngestAnyPhase(h) ==
    /\ pc[h] = "ingest"
    /\ IF ev[h] \in cache
       THEN Finish(h) /\ UNCHANGED cache
       ELSE Goto(h, "store") /\ cache' = cache \cup {ev[h]}
    /\ UNCHANGED <<dbVars, apiVars, completions, queue, envVars, boundVars>>

\* The event of a cancelled job and an event already in the cache are
\* dropped.  ("deleted" is tested too, and no statement writes that phase.)
Ingest(h) ==
    /\ pc[h] = "ingest"
    /\ IF phase \in {"cancelled", "deleted"} \/ ev[h] \in cache
       THEN Finish(h) /\ UNCHANGED cache
       ELSE Goto(h, "store") /\ cache' = cache \cup {ev[h]}
    /\ UNCHANGED <<dbVars, apiVars, completions, queue, envVars, boundVars>>

\* get_job_phase fails and answers "unknown": even a cancelled job goes on.
IngestFails(h) ==
    /\ pc[h] = "ingest" /\ Fault
    /\ IF ev[h] \in cache
       THEN Finish(h) /\ UNCHANGED cache
       ELSE Goto(h, "store") /\ cache' = cache \cup {ev[h]}
    /\ UNCHANGED <<dbVars, apiVars, completions, queue, envVars>>

\* Mutant: INSERT ... ON CONFLICT DO NOTHING, the transition check runs anyway.
StoreUpsert(h) ==
    /\ pc[h] = "store"
    /\ stored' = stored \cup {ev[h]}
    /\ Goto(h, "check")
    /\ UNCHANGED <<phase, deleted, assets, wiped, found, cache, apiVars,
                   completions, queue, envVars, boundVars>>

\* store_phase_event: a plain INSERT.  A row with this event_id makes it
\* fail; the event is then forgotten by the cache and acknowledged.
Store(h) ==
    /\ pc[h] = "store"
    /\ IF ev[h] \in stored
       THEN Finish(h) /\ cache' = cache \ {ev[h]} /\ UNCHANGED stored
       ELSE Goto(h, "check") /\ stored' = stored \cup {ev[h]} /\ UNCHANGED cache
    /\ UNCHANGED <<phase, deleted, assets, wiped, found, apiVars,
                   completions, queue, envVars, boundVars>>

StoreFails(h) ==
    /\ pc[h] = "store" /\ Fault
    /\ Finish(h) /\ cache' = cache \ {ev[h]}
    /\ UNCHANGED <<dbVars, apiVars, completions, queue, envVars>>

\* Mutant: any event completes a job of phase evidence.
BranchAny(p, e) ==
    CASE p = "collection"         -> "collect"
      [] p = "feature_extraction" -> "assets"
      [] p = "matching" -> IF e.name = MatchDone THEN "toEvidence" ELSE "request"
      [] p = "evidence"           -> "toCompleted"
      [] OTHER -> IF e.name = EvidenceDone THEN "viaEvidence" ELSE "ack"

\* Where check_phase_transitions goes for the phase it read.
Branch(p, e) ==
    CASE p = "collection"         -> "collect"
      [] p = "feature_extraction" -> "assets"
      [] p = "matching" -> IF e.name = MatchDone THEN "toEvidence" ELSE "request"
      [] p = "evidence" /\ e.name = EvidenceDone -> "toCompleted"
      [] OTHER -> IF e.name = EvidenceDone /\ p # "evidence"
                  THEN "viaEvidence" ELSE "ack"

Check(h) ==
    /\ pc[h] = "check"
    /\ IF Branch(phase, ev[h]) = "ack"
       THEN Finish(h)
       ELSE /\ pc' = [pc EXCEPT ![h] = Branch(phase, ev[h])]
            /\ seen' = [seen EXCEPT ![h] = phase]
            /\ UNCHANGED <<ev, need>>
    /\ UNCHANGED <<dbVars, cache, apiVars, completions, queue, envVars, boundVars>>

\* get_job_phase fails and answers "unknown".
CheckFails(h) ==
    /\ pc[h] = "check" /\ Fault
    /\ IF Branch("unknown", ev[h]) = "ack" THEN Finish(h)
       ELSE Goto(h, Branch("unknown", ev[h]))
    /\ UNCHANGED <<dbVars, cache, apiVars, completions, queue, envVars>>

\* Mutant: one collection is enough.
CollectAny(h) ==
    /\ pc[h] = "collect"
    /\ IF CollectionEvents \cap StoredNames # {}
       THEN Goto(h, "toFeatures") ELSE Cross(h)
    /\ UNCHANGED <<dbVars, cache, apiVars, completions, queue, envVars, boundVars>>

\* _process_collection_phase: both collections have reported.
Collect(h) ==
    /\ pc[h] = "collect"
    /\ IF CollectionEvents \subseteq StoredNames
       THEN Goto(h, "toFeatures") ELSE Cross(h)
    /\ UNCHANGED <<dbVars, cache, apiVars, completions, queue, envVars, boundVars>>

\* The phase is written and nothing else is looked at: feature events stored
\* earlier are not checked again.
ToFeatures(h) ==
    /\ pc[h] = "toFeatures"
    /\ SetPhase("feature_extraction")
    /\ Cross(h)
    /\ UNCHANGED <<deleted, stored, assets, wiped, found, cache, apiVars,
                   completions, queue, envVars, boundVars>>

\* get_job_asset_types and _get_required_feature_events.
Assets(h) ==
    /\ pc[h] = "assets"
    /\ need' = [need EXCEPT ![h] = RequiredFeatures(assets)]
    /\ pc' = [pc EXCEPT ![h] = IF assets = {} THEN "toMatching" ELSE "features"]
    /\ UNCHANGED <<dbVars, cache, ev, seen, apiVars, completions, queue,
                   envVars, boundVars>>

\* A count fails and answers 0: the kind looks absent from the job.
AssetsFails(h) ==
    /\ pc[h] = "assets" /\ Fault
    /\ \E a \in SUBSET assets :
          /\ need' = [need EXCEPT ![h] = RequiredFeatures(a)]
          /\ pc' = [pc EXCEPT ![h] = IF a = {} THEN "toMatching" ELSE "features"]
    /\ UNCHANGED <<dbVars, cache, ev, seen, apiVars, completions, queue, envVars>>

\* Mutant: one of the required events is enough.
FeaturesAny(h) ==
    /\ pc[h] = "features"
    /\ IF need[h] \cap StoredNames # {} THEN Goto(h, "toMatching") ELSE Cross(h)
    /\ UNCHANGED <<dbVars, cache, apiVars, completions, queue, envVars, boundVars>>

\* Mutant: the event at hand is not counted, as if it were stored afterwards.
FeaturesBeforeStore(h) ==
    /\ pc[h] = "features"
    /\ IF need[h] \subseteq StoredNames \ {ev[h].name}
       THEN Goto(h, "toMatching") ELSE Cross(h)
    /\ UNCHANGED <<dbVars, cache, apiVars, completions, queue, envVars, boundVars>>

\* _check_all_feature_events_received.
Features(h) ==
    /\ pc[h] = "features"
    /\ IF need[h] \subseteq StoredNames THEN Goto(h, "toMatching") ELSE Cross(h)
    /\ UNCHANGED <<dbVars, cache, apiVars, completions, queue, envVars, boundVars>>

ToMatching(h) ==
    /\ pc[h] = "toMatching"
    /\ SetPhase("matching")
    /\ Goto(h, "request")
    /\ UNCHANGED <<deleted, stored, assets, wiped, found, cache, apiVars,
                   completions, queue, envVars, boundVars>>

\* _publish_match_request_for_job: a match.request with a fresh event_id.  One
\* past the bound stays in the queue of the matcher and is not followed.
Request(h) ==
    /\ pc[h] = "request"
    /\ \/ \E i \in MatchIds :
             /\ mreq[i] = "none" /\ \A j \in MatchIds : j < i => mreq[j] # "none"
             /\ mreq' = [mreq EXCEPT ![i] = "queued"]
       \/ (\A i \in MatchIds : mreq[i] # "none") /\ UNCHANGED mreq
    /\ Cross(h)
    /\ UNCHANGED <<dbVars, cache, apiVars, completions, queue, emitted, asked,
                   boundVars>>

ToEvidence(h) ==
    /\ pc[h] = "toEvidence"
    /\ SetPhase("evidence")
    /\ Cross(h)
    /\ UNCHANGED <<deleted, stored, assets, wiped, found, cache, apiVars,
                   completions, queue, envVars, boundVars>>

ViaEvidence(h) ==
    /\ pc[h] = "viaEvidence"
    /\ SetPhase("evidence")
    /\ Goto(h, "toCompleted")
    /\ UNCHANGED <<deleted, stored, assets, wiped, found, cache, apiVars,
                   completions, queue, envVars, boundVars>>

ToCompleted(h) ==
    /\ pc[h] = "toCompleted"
    /\ SetPhase("completed")
    /\ Goto(h, "announce")
    /\ UNCHANGED <<deleted, stored, assets, wiped, found, cache, apiVars,
                   completions, queue, envVars, boundVars>>

\* publish_job_completed.
Announce(h) ==
    /\ pc[h] = "announce"
    /\ completions' = completions + 1
    /\ Finish(h)
    /\ UNCHANGED <<dbVars, cache, apiVars, queue, envVars, boundVars>>

\* A statement or publish of a branch fails.  _process_collection_phase, the
\* event checks and the match request swallow it and the cross-phase step
\* still runs; the other branches give up with the message acknowledged.
BranchFails(h) ==
    /\ Fault
    /\ \/ pc[h] \in {"collect", "toFeatures", "features", "request"} /\ Cross(h)
       \/ /\ pc[h] \in {"toMatching", "toEvidence", "viaEvidence", "toCompleted",
                        "announce"}
          /\ Finish(h)
    /\ UNCHANGED <<dbVars, cache, apiVars, completions, queue, envVars>>

\* MessageHandler acknowledges the message: only now the broker forgets it.
Ack(h) ==
    /\ pc[h] = "ack"
    /\ pc' = [pc EXCEPT ![h] = "idle"]
    /\ ev' = [ev EXCEPT ![h] = NoEvent]
    /\ UNCHANGED <<dbVars, cache, seen, need, apiVars, completions, queue,
                   envVars, boundVars>>

TaskStep(h) ==
    \/ Ingest(h) \/ Store(h) \/ Check(h) \/ Collect(h) \/ ToFeatures(h)
    \/ Assets(h) \/ Features(h) \/ ToMatching(h) \/ Request(h)
    \/ ToEvidence(h) \/ ViaEvidence(h) \/ ToCompleted(h) \/ Announce(h)
    \/ Ack(h)

TaskFault(h) ==
    \/ IngestFails(h) \/ StoreFails(h) \/ CheckFails(h) \/ AssetsFails(h)
    \/ BranchFails(h)

-----------------------------------------------------------------------------
\* The cancel and delete endpoints: JobManagementService

CallTo(r, p) == call' = [call EXCEPT ![r] = p]

StartCall(r) ==
    /\ call[r] = "new" /\ asked # {}
    /\ \/ CallTo(r, "cancel") /\ UNCHANGED force
       \/ CallTo(r, "active") /\ force' \in {[force EXCEPT ![r] = b] : b \in BOOLEAN}
    /\ UNCHANGED <<dbVars, cache, taskVars, completions, queue, envVars, boundVars>>

\* cancel_job reads the job: an absent (404), cancelled or completed job is
\* left alone.  Called by delete_job, the deletion goes on.
Cancel(r) ==
    /\ \/ /\ call[r] = "cancel"
          /\ CallTo(r, IF phase \in {"unknown", "cancelled", "completed"}
                       THEN "done" ELSE "mark")
       \/ /\ call[r] = "cancelFirst"
          /\ CallTo(r, IF phase \in {"cancelled", "completed"}
                       THEN "wipeRows" ELSE "markFirst")
    /\ UNCHANGED <<dbVars, cache, taskVars, force, completions, queue, envVars,
                   boundVars>>

\* UPDATE jobs SET phase = 'cancelled', the purge that purges nothing, and
\* job.cancelled, which no service consumes.
Mark(r) ==
    /\ \/ call[r] = "mark" /\ CallTo(r, "done")
       \/ call[r] = "markFirst" /\ CallTo(r, "wipeRows")
    /\ SetPhase("cancelled")
    /\ UNCHANGED <<deleted, stored, assets, wiped, found, cache, taskVars,
                   force, completions, queue, envVars, boundVars>>

\* delete_job: nothing for an absent or deleted job, 409 for an active one
\* unless forced, and an active one is cancelled first.
Delete(r) ==
    /\ call[r] = "active"
    /\ LET active == phase \notin {"completed", "cancelled", "unknown"}
       IN  CallTo(r, IF phase = "unknown" \/ deleted \/ (active /\ ~force[r])
                     THEN "done"
                     ELSE IF active THEN "cancelFirst" ELSE "wipeRows")
    /\ UNCHANGED <<dbVars, cache, taskVars, force, completions, queue, envVars,
                   boundVars>>

\* delete_job_data, statement by statement (no transaction).
WipeRows(r) ==
    /\ call[r] = "wipeRows" /\ CallTo(r, "wipeEvents")
    /\ assets' = {} /\ wiped' = TRUE
    /\ UNCHANGED <<phase, deleted, stored, found, cache, taskVars, force,
                   completions, queue, envVars, boundVars>>

WipeEvents(r) ==
    /\ call[r] = "wipeEvents" /\ CallTo(r, "markDeleted")
    /\ stored' = {}
    /\ UNCHANGED <<phase, deleted, assets, wiped, found, cache, taskVars, force,
                   completions, queue, envVars, boundVars>>

\* Mutant: the phase becomes "deleted", which no reader of the phase knows.
MarkDeletedPhase(r) ==
    /\ call[r] = "markDeleted" /\ CallTo(r, "done")
    /\ deleted' = TRUE /\ phase' = "deleted"
    /\ UNCHANGED <<stored, assets, wiped, found, cache, taskVars, force,
                   completions, queue, envVars, boundVars>>

\* deleted_at is set and job.deleted published; the phase stays what it was.
MarkDeleted(r) ==
    /\ call[r] = "markDeleted" /\ CallTo(r, "done")
    /\ deleted' = TRUE
    /\ UNCHANGED <<phase, stored, assets, wiped, found, cache, taskVars, force,
                   completions, queue, envVars, boundVars>>

\* A statement fails: the call answers 500 and leaves what it has done.  But
\* get_job_phase answers "unknown", which is not active: the job of a delete call
\* loses its data without being cancelled, forced or not.
CallFails(r) ==
    /\ call[r] \notin {"new", "done"} /\ Fault
    /\ \/ CallTo(r, "done")
       \/ call[r] = "active" /\ phase # "unknown" /\ ~deleted /\ CallTo(r, "wipeRows")
    /\ UNCHANGED <<dbVars, cache, taskVars, force, completions, queue, envVars>>

CallStep(r) ==
    \/ Cancel(r) \/ Mark(r) \/ Delete(r) \/ WipeRows(r) \/ WipeEvents(r)
    \/ MarkDeleted(r)

-----------------------------------------------------------------------------
\* The matcher: one match request at a time, the completion event published
\* first, the phase written after it, and only then the request recorded.

MatcherTake(i) ==
    /\ mreq[i] \in {"queued", "again"}
    /\ \A j \in MatchIds : mreq[j] \notin {"running", "sent"}
    /\ mreq' = [mreq EXCEPT ![i] = "running"]
    /\ UNCHANGED <<dbVars, cache, taskVars, apiVars, completions, queue,
                   emitted, asked, boundVars>>

MatcherSend(i) ==
    /\ mreq[i] = "running"
    /\ mreq' = [mreq EXCEPT ![i] = "sent"]
    /\ emitted' = emitted \cup {[name |-> MatchDone, id |-> i]}
    /\ queue' = queue \cup {[name |-> MatchDone, id |-> i]}
    /\ UNCHANGED <<dbVars, cache, taskVars, apiVars, completions, asked, boundVars>>

\* UPDATE jobs SET phase = 'evidence', whatever the phase is by now.
MatcherMark(i) ==
    /\ mreq[i] = "sent"
    /\ mreq' = [mreq EXCEPT ![i] = "done"]
    /\ SetPhase("evidence")
    /\ UNCHANGED <<deleted, stored, assets, wiped, found, cache, taskVars,
                   apiVars, completions, queue, emitted, asked, boundVars>>

\* The matcher restarts before it has recorded the request, perhaps after it
\* wrote the phase: the request is redelivered.
MatcherCrash(i) ==
    /\ mreq[i] \in {"running", "sent"} /\ crashes < MaxCrashes
    /\ crashes' = crashes + 1
    /\ mreq' = [mreq EXCEPT ![i] = "again"]
    /\ IF mreq[i] = "sent" THEN UNCHANGED phase \/ SetPhase("evidence")
                           ELSE UNCHANGED phase
    /\ UNCHANGED <<deleted, stored, assets, wiped, found, cache, taskVars, apiVars,
                   completions, queue, emitted, asked, requeues, faults>>

\* A statement of the matcher fails: the request goes to the dead letter
\* routing key, which no queue is bound to, or is published again.
MatcherFails(i) ==
    /\ mreq[i] \in {"running", "sent"} /\ Fault
    /\ mreq' \in {[mreq EXCEPT ![i] = s] : s \in {"done", "again"}}
    /\ UNCHANGED <<dbVars, cache, taskVars, apiVars, completions, queue,
                   emitted, asked>>

-----------------------------------------------------------------------------
\* The other services, seen through the events they publish

Publish(e) ==
    /\ e \notin emitted
    /\ emitted' = emitted \cup {e}
    /\ queue' = queue \cup {e}
    /\ UNCHANGED <<phase, deleted, stored, wiped, found, cache, taskVars,
                   apiVars, completions, asked, mreq, boundVars>>

\* A collector has stored the rows of its kind and reports.
CollectorReports(e) ==
    /\ e.name \in asked
    /\ assets' = assets \cup {k \in found : CollectionOf(k) = e.name}
    /\ Publish(e)

\* A vision service reports its completion for a kind, which the assets of
\* that kind cause as they arrive, before or after the collector's report.
VisionReports(e) ==
    /\ \E k \in AssetKinds : e.name \in FeaturesOf(k) /\ CollectionOf(k) \in asked
    /\ UNCHANGED assets
    /\ Publish(e)

\* The evidence builder reports: after a match.result of a matcher that may
\* be running still, or after match.request.completed without matches.
EvidenceReports(e) ==
    /\ e.name = EvidenceDone
    /\ \E i \in MatchIds : mreq[i] \notin {"none", "queued"}
    /\ UNCHANGED assets
    /\ Publish(e)

-----------------------------------------------------------------------------
\* Failures of main-api and of its connection

\* main-api restarts: memory is lost, unacknowledged messages are redelivered
\* and the HTTP calls in progress are gone.
Crash ==
    /\ crashes < MaxCrashes /\ crashes' = crashes + 1
    /\ queue' = queue \cup {ev[h] : h \in {g \in Handlers : pc[g] # "idle"}}
    /\ cache' = {}
    /\ pc' = [h \in Handlers |-> "idle"]
    /\ ev' = [h \in Handlers |-> NoEvent]
    /\ seen' = [h \in Handlers |-> "unknown"]
    /\ need' = [h \in Handlers |-> {}]
    /\ call' = [r \in Requests |-> IF call[r] = "new" THEN "new" ELSE "done"]
    /\ UNCHANGED <<dbVars, force, completions, envVars, requeues, faults>>

\* The connection drops: the broker delivers again a message that a task of
\* the surviving process is still working on.
Requeue(h) ==
    /\ pc[h] # "idle" /\ requeues < MaxRequeues
    /\ requeues' = requeues + 1
    /\ queue' = queue \cup {ev[h]}
    /\ UNCHANGED <<dbVars, cache, taskVars, apiVars, completions, envVars,
                   crashes, faults>>

-----------------------------------------------------------------------------
Next ==
    \/ StartJob \/ StartJobFails
    \/ \E h \in Handlers : \/ \E e \in queue : Deliver(h, e)
                           \/ TaskStep(h) \/ TaskFault(h) \/ Requeue(h)
    \/ \E r \in Requests : StartCall(r) \/ CallStep(r) \/ CallFails(r)
    \/ \E i \in MatchIds : \/ MatcherTake(i) \/ MatcherSend(i) \/ MatcherMark(i)
                           \/ MatcherCrash(i) \/ MatcherFails(i)
    \/ \E e \in Event : CollectorReports(e) \/ VisionReports(e) \/ EvidenceReports(e)
    \/ Crash

Spec == Init /\ [][Next]_vars

\* Deliveries, the tasks of main-api and the matcher go on while they can; a
\* user need not call, nothing need fail, and a producer need not report.
FairSpec ==
    /\ Spec
    /\ \A h \in Handlers : WF_vars(TaskStep(h))
    /\ \A e \in Event : WF_vars(\E h \in Handlers : Deliver(h, e))
    /\ \A i \in MatchIds : WF_vars(MatcherTake(i) \/ MatcherSend(i) \/ MatcherMark(i))

-----------------------------------------------------------------------------
\* Type invariant

TypeOK ==
    /\ phase \in Phases /\ deleted \in BOOLEAN
    /\ stored \subseteq Event /\ wiped \in BOOLEAN
    /\ assets \subseteq found /\ found \subseteq AssetKinds
    /\ cache \subseteq Event
    /\ pc \in [Handlers -> TaskPcs]
    /\ ev \in [Handlers -> Event \cup {NoEvent}]
    /\ \A h \in Handlers : pc[h] # "idle" => ev[h] \in Event
    /\ seen \in [Handlers -> Phases]
    /\ need \in [Handlers -> SUBSET RequiredFeatures(AssetKinds)]
    /\ call \in [Requests -> CallPcs] /\ force \in [Requests -> BOOLEAN]
    /\ completions \in Nat
    /\ queue \subseteq Event /\ emitted \subseteq Event
    /\ asked \subseteq CollectionEvents
    /\ mreq \in [MatchIds -> {"none", "queued", "running", "sent", "again", "done"}]
    /\ crashes \in Nat /\ requeues \in Nat /\ faults \in Nat

-----------------------------------------------------------------------------
\* Safety

\* The matching of the job has been asked for, or its phase says so.
Opened == phase \in LatePhases \/ \E i \in MatchIds : mreq[i] # "none"

\* Matching never starts before both collectors have reported, whatever
\* fails, restarts or is cancelled (_process_collection_phase is the only
\* place that looks).  A deletion wipes the events that show it.
CollectionBarrier == Opened /\ ~wiped => CollectionEvents \subseteq StoredNames

\* Matching never starts before each feature the assets of the job need is
\* extracted, as long as no statement fails: a failed count reads as zero
\* assets and lets the job through (get_job_counts).  The barrier is computed
\* from row counts read while collectors, other handlers and deletions run.
FeatureBarrier ==
    Opened /\ ~wiped /\ faults = 0 => RequiredFeatures(found) \subseteq StoredNames

\* A job announced or shown as completed has its collections, a matching that
\* was asked for and its evidence behind it, though a completion may come
\* from any phase (_handle_cross_phase_evidence_completion).
CompletionBacked ==
    (completions > 0 \/ phase = "completed") /\ ~wiped
        => /\ CollectionEvents \cup {EvidenceDone} \subseteq StoredNames
           /\ \E i \in MatchIds : mreq[i] # "none"

\* A redelivered message is never worked on by two tasks at once: the cache
\* and the primary key of phase_events let one of them past.
NoConcurrentDuplicate ==
    \A g, h \in Handlers :
        g # h /\ ev[g] = ev[h] => {pc[g], pc[h]} \cap {"idle", "ingest", "ack"} # {}

\* Each match request is owed to an event of its own, and the event that
\* closed the collection is owed none: redeliveries and restarts add no
\* matching (handle_phase_event returns when the INSERT fails).
RequestPerEvent ==
    LET requests == {i \in MatchIds : mreq[i] # "none"}
    IN  requests # {} /\ ~wiped => Cardinality(requests) < Cardinality(stored)

\* job.completed is announced at most once for each evidence event, whatever
\* is redelivered or restarted.
CompletedOncePerEvidence ==
    ~wiped => completions <= Cardinality({e \in stored : e.name = EvidenceDone})

\* No task is past its phase test and no match request is pending.
Quiet ==
    /\ \A h \in Handlers : pc[h] \in {"idle", "ingest", "ack"}
    /\ \A i \in MatchIds : mreq[i] \in {"none", "done"}

\* Once a job is cancelled and the work in flight has drained, it stays
\* cancelled and starts nothing, whatever arrives late (unless the phase test
\* itself fails: get_job_phase then answers "unknown").
CancelSealed ==
    [][phase = "cancelled" /\ Quiet /\ faults' = faults
          => phase' = "cancelled" /\ Quiet']_vars

-----------------------------------------------------------------------------
\* What makes the barriers hold: an inductive invariant

Collected == CollectionEvents \subseteq StoredNames
Extracted == RequiredFeatures(found) \subseteq StoredNames
Asked     == \E i \in MatchIds : mreq[i] # "none"

Finishing     == {"viaEvidence", "toCompleted", "announce"}
AfterFeatures == {"toMatching", "request", "toEvidence"} \cup Finishing
AfterCollect  == {"toFeatures", "assets", "features"} \cup AfterFeatures
AfterStore    == {"check", "collect"} \cup AfterCollect

\* Messages come from their producers, evidence only after a match request,
\* and a collector reports after it has stored its rows.
SourceInv ==
    /\ queue \subseteq emitted /\ stored \subseteq emitted
    /\ \A h \in Handlers : pc[h] # "idle" => ev[h] \in emitted
    /\ EvidenceDone \in EmittedNames => Asked
    /\ ~wiped => {k \in found : CollectionOf(k) \in EmittedNames} \subseteq assets
    /\ \A r \in Requests : call[r] \in {"wipeEvents", "markDeleted"} => wiped

\* A task works on an event it has stored, and finishes a job on evidence.
StoredInv ==
    ~wiped =>
        /\ \A h \in Handlers : pc[h] \in AfterStore => ev[h] \in stored
        /\ \A h \in Handlers : pc[h] \in Finishing => ev[h].name = EvidenceDone
        /\ completions > 0 \/ phase = "completed" => EvidenceDone \in StoredNames

CollectedInv ==
    /\ ~wiped
    /\ \/ phase \in {"feature_extraction"} \cup LatePhases
       \/ Asked
       \/ \E h \in Handlers : pc[h] \in AfterCollect
    => Collected

ExtractedInv ==
    ~wiped /\ faults = 0 =>
        /\ Opened \/ (\E h \in Handlers : pc[h] \in AfterFeatures) => Extracted
        /\ \A h \in Handlers : pc[h] = "features" => need[h] = RequiredFeatures(found)

\* A task past its cache test holds its event in the cache, and no other does.
Working == TaskPcs \ {"idle", "ingest", "ack"}

DedupInv ==
    /\ \A h \in Handlers : pc[h] \in Working => ev[h] \in cache
    /\ NoConcurrentDuplicate

BarrierInv == TypeOK /\ SourceInv /\ StoredInv /\ CollectedInv /\ ExtractedInv

\* What the requests and the completions are paid with: a task that may still
\* ask for matching, or may still complete the job, has stored an event of its
\* own.  The task that moved the job to feature extraction asks for nothing.
Owing   == {h \in Handlers : pc[h] \in AfterStore \ ({"toEvidence"} \cup Finishing)}
Closing == {h \in Handlers : pc[h] \in AfterStore /\ ev[h].name = EvidenceDone}

Requested == {i \in MatchIds : mreq[i] # "none"}

StoredEvidence == {e \in stored : e.name = EvidenceDone}

PastCollection ==
    \/ phase \in {"feature_extraction", "matching"} \/ Requested # {}
    \/ \E h \in Handlers : pc[h] \in {"assets", "features", "toMatching", "request"}

LedgerInv ==
    /\ IsFiniteSet(stored) /\ IsFiniteSet(Owing) /\ IsFiniteSet(Closing)
    /\ ~wiped =>
          /\ Cardinality(Requested) + Cardinality(Owing) <= Cardinality(stored)
          /\ PastCollection =>
                Cardinality(Requested) + Cardinality(Owing) < Cardinality(stored)
          /\ completions + Cardinality(Closing) <= Cardinality(StoredEvidence)

-----------------------------------------------------------------------------
\* The machine keeps the ledger of the job

Ledger == INSTANCE JobLedger
    WITH Events <- Event, Collections <- CollectionEvents, Evidence <- EvidenceDone,
         reported <- stored, requests <- Cardinality(Requested),
         completed <- completions, erased <- wiped

\* Whatever interleaves, fails, restarts or is cancelled, each step of the
\* machine books an event, a match request or a completion as the ledger
\* allows, or nothing: matching is asked for only with both collections in
\* and at most once for an event, a completion only after a request and once
\* for an evidence event.
LedgerKept == Ledger!LedgerSpec

-----------------------------------------------------------------------------
\* Liveness, when nothing fails and nobody cancels

\* Evidence that is announced completes the job, in whatever phase it finds it.
EvidenceCompletes == EvidenceDone \in EmittedNames ~> completions > 0

\* A job that waits in feature extraction for events that are on their way
\* leaves it.  (When they arrived before the last collection it may not: see
\* FeaturesLeadToMatching.)
BarrierOpens ==
    /\ phase = "feature_extraction"
    /\ ~(RequiredFeatures(found) \subseteq StoredNames)
    /\ RequiredFeatures(found) \subseteq EmittedNames
    ~> phase # "feature_extraction"

-----------------------------------------------------------------------------
\* What the documents say and the code does not do

\* docs/sprint/common/sprint_7_zero_edge_case.md:77: feature_extraction moves
\* to matching once all required completion events are received.
FeaturesLeadToMatching ==
    phase = "feature_extraction" /\ RequiredFeatures(assets) \subseteq StoredNames
        ~> phase # "feature_extraction"

\* phase_event_service.py:32: events of a cancelled job are ignored, so the
\* job stays cancelled.
CancelledIsFinal == [][phase = "cancelled" => phase' = "cancelled"]_vars
=============================================================================
