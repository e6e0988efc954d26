--------------------------- MODULE VisionProgress ---------------------------
(***************************************************************************)
(* Progress tracking in vision-embedding and vision-keypoint, for one job  *)
(* and one kind of asset, with the JobProgressManager of vision-common.    *)
(*                                                                         *)
(* The segmentor sends one message for each masked image (or one for the   *)
(* keyframes of each video) and, on a queue of its own, a batch message    *)
(* with the number of assets it masked.  Up to ten asset messages are      *)
(* handled at once, beside one batch message; the counts, the set of       *)
(* assets seen and the set of completions sent live in memory.  When the   *)
(* assets done reach the threshold, the service publishes the completion   *)
(* that opens the barrier of main-api, and must do so once.                *)
(*                                                                         *)
(* A step runs to the next await.  The two services differ in four lines,  *)
(* told apart here by service.  Left out: the vectors and keypoints, the   *)
(* per-asset ready events (nobody consumes them) and the ready handlers    *)
(* (defined in the services, subscribed by neither).                       *)
(***************************************************************************)
EXTENDS Naturals, FiniteSets

CONSTANTS
    Services,     \* the services considered, of {"embedding", "keypoint"}
    Assets,       \* assets of the job: images, or keyframes
    Totals,       \* what the batch message may announce; it need not agree
                  \* with the masked messages (see product-segmentor)
    Workers,      \* tasks for asset messages, bounded by the prefetch of 10
    Batcher,      \* the task for batch messages, whose prefetch is 1
    Threshold,    \* COMPLETION_THRESHOLD_PERCENTAGE
    High,         \* the expected count of a job whose total is not known yet
    MaxCrashes,   \* bound on restarts
    MaxRequeues,  \* bound on redeliveries of a message still being handled
    MaxFaults     \* bound on failing statements, extractions that raise and
                  \* publishes that fail

ASSUME ThresholdAssumption == Threshold \in 0..100

ASSUME TotalsAssumption ==
    /\ Totals \subseteq Nat /\ High \in Nat
    /\ \A n \in Totals : n < High

ASSUME TasksAssumption ==
    /\ Services \subseteq {"embedding", "keypoint"}
    /\ Batcher \notin Workers /\ IsFiniteSet(Assets)
    /\ MaxCrashes \in Nat /\ MaxRequeues \in Nat /\ MaxFaults \in Nat

Tasks == Workers \cup {Batcher}

Claim == [expected : Totals, done : Nat]
NoClaim == [expected |-> High, done |-> 0]

-----------------------------------------------------------------------------
VARIABLES
    service, kind,   \* fixed: which service, images or keyframes
    batchTotal,      \* fixed: the total the batch message announces
    \* memory of the service
    processed,       \* processed_assets
    tracked,         \* job_tracking has the entry of this kind
    expected, done,  \* the two counts of that entry
    initialised,     \* the batch message is in job_batch_initialized
    batchSeen,       \* its id is in processed_batch_events (videos only)
    sent,            \* the completion is in _completion_events_sent
    \* the tasks
    pc, msg, todo,   \* where each stands, its message, the assets left of it
    cur,             \* the assets it works on (one, or none)
    claim,           \* the completion it is about to publish
    \* the database, the broker
    extracted,       \* assets whose row has its vectors or keypoints
    queue,           \* asset messages waiting; a message is a set of assets
    batch,           \* the batch message: queued, taken or done
    claims,          \* the completions published
    completions,     \* how many
    counted,         \* history: the assets behind the count done
    crashes, requeues, faults

fixed    == <<service, kind, batchTotal>>
memory   == <<processed, tracked, expected, done, initialised, batchSeen,
              sent, counted>>
taskVars == <<pc, msg, todo, cur, claim>>
outVars  == <<extracted, claims, completions>>
bounds   == <<crashes, requeues, faults>>
vars == <<fixed, memory, taskVars, outVars, queue, batch, bounds>>

\* How the assets may be grouped into messages: one each for images, the
\* frames of a video together.
Groupings(k) ==
    {ms \in SUBSET ((SUBSET Assets) \ {{}}) :
        /\ \A m, n \in ms : m # n => m \cap n = {}
        /\ k = "image" => \A m \in ms : Cardinality(m) = 1}

Init ==
    /\ service \in Services /\ kind \in {"image", "video"}
    /\ batchTotal \in Totals
    /\ processed = {} /\ tracked = FALSE /\ expected = 0 /\ done = 0
    /\ initialised = FALSE /\ batchSeen = FALSE /\ sent = FALSE
    /\ counted = {}
    /\ pc = [t \in Tasks |-> "idle"]
    /\ msg = [t \in Tasks |-> {}] /\ todo = [t \in Tasks |-> {}]
    /\ cur = [t \in Tasks |-> {}]
    /\ claim = [t \in Tasks |-> NoClaim]
    /\ extracted = {} /\ claims = {} /\ completions = 0
    /\ queue \in Groupings(kind) /\ batch = "queued"
    /\ crashes = 0 /\ requeues = 0 /\ faults = 0

Fault == faults < MaxFaults /\ faults' = faults + 1 /\ UNCHANGED <<crashes, requeues>>

\* _has_reached_completion.
Reached(d, e) == IF e = 0 THEN d >= e ELSE d * 100 >= e * Threshold

\* update_job_progress: which expected count an entry keeps when progress is
\* reported with the count n.
Refined(e, n) == IF (0 < n /\ n < High) \/ (n = 0 /\ e = 0) THEN n ELSE e

-----------------------------------------------------------------------------
\* Completion

\* Mutant: the completion is marked as sent when its publish has returned.
SettleLate(t, reached, e, d, rest) ==
    /\ IF reached /\ ~sent
       THEN /\ pc' = [pc EXCEPT ![t] = "publish"]
            /\ claim' = [claim EXCEPT ![t] = [expected |-> e, done |-> d]]
       ELSE pc' = [pc EXCEPT ![t] = rest] /\ UNCHANGED claim
    /\ sent' = (sent \/ completions > 0)

\* publish_completion_event_with_count: the completion is marked as sent
\* first, and published once in the life of the process.
Settle(t, reached, e, d, rest) ==
    IF reached /\ ~sent
    THEN /\ sent' = TRUE
         /\ pc' = [pc EXCEPT ![t] = "publish"]
         /\ claim' = [claim EXCEPT ![t] = [expected |-> e, done |-> d]]
    ELSE /\ pc' = [pc EXCEPT ![t] = rest]
         /\ UNCHANGED <<sent, claim>>

\* The broker has the completion; the handler goes on with its message.
PublishCompletion(t) ==
    /\ pc[t] = "publish"
    /\ claims' = claims \cup {claim[t]} /\ completions' = completions + 1
    /\ claim' = [claim EXCEPT ![t] = NoClaim]
    /\ pc' = [pc EXCEPT ![t] = IF t = Batcher THEN "ack" ELSE "next"]
    /\ UNCHANGED <<fixed, memory, msg, todo, cur, extracted, queue, batch, bounds>>

-----------------------------------------------------------------------------
\* Asset messages

Deliver(w, m) ==
    /\ pc[w] = "idle" /\ m \in queue
    /\ queue' = queue \ {m}
    /\ pc' = [pc EXCEPT ![w] = "next"]
    /\ msg' = [msg EXCEPT ![w] = m] /\ todo' = [todo EXCEPT ![w] = m]
    /\ UNCHANGED <<fixed, memory, cur, claim, outVars, batch, bounds>>

\* Mutant: an asset is remembered but not looked up.
StartNoDedup(w) ==
    /\ pc[w] = "next"
    /\ \E a \in todo[w] :
          /\ todo' = [todo EXCEPT ![w] = @ \ {a}]
          /\ processed' = processed \cup {a}
          /\ cur' = [cur EXCEPT ![w] = {a}]
          /\ pc' = [pc EXCEPT ![w] = "extract"]
    /\ UNCHANGED <<fixed, tracked, expected, done, initialised, batchSeen, sent,
                   counted, msg, claim, outVars, queue, batch, bounds>>

\* The next asset of the message: skipped when it was seen before, and
\* otherwise remembered before any work is done on it.
Start(w) ==
    /\ pc[w] = "next"
    /\ \E a \in todo[w] :
          /\ todo' = [todo EXCEPT ![w] = @ \ {a}]
          /\ IF a \in processed
             THEN UNCHANGED <<processed, cur, pc>>
             ELSE /\ processed' = processed \cup {a}
                  /\ cur' = [cur EXCEPT ![w] = {a}]
                  /\ pc' = [pc EXCEPT ![w] = "extract"]
    /\ UNCHANGED <<fixed, tracked, expected, done, initialised, batchSeen, sent,
                   counted, msg, claim, outVars, queue, batch, bounds>>

\* vision-embedding reads the asset's row before that, and goes on with the
\* next asset when there is none (the job was deleted).
Missing(w) ==
    /\ pc[w] = "next" /\ service = "embedding" /\ Fault
    /\ \E a \in todo[w] : todo' = [todo EXCEPT ![w] = @ \ {a}]
    /\ UNCHANGED <<fixed, memory, pc, msg, cur, claim, outVars, queue, batch>>

\* Extraction and the UPDATE of the asset's row.
Save(w) ==
    /\ pc[w] = "extract"
    /\ extracted' = extracted \cup cur[w]
    /\ pc' = [pc EXCEPT ![w] = "count"]
    /\ UNCHANGED <<fixed, memory, msg, todo, cur, claim, claims, completions,
                   queue, batch, bounds>>

\* Nothing could be extracted (or the row is gone, in vision-keypoint): the
\* asset counts neither as done nor as failed.
NothingExtracted(w) ==
    /\ pc[w] = "extract"
    /\ cur' = [cur EXCEPT ![w] = {}]
    /\ pc' = [pc EXCEPT ![w] = "next"]
    /\ UNCHANGED <<fixed, memory, msg, todo, claim, outVars, queue, batch, bounds>>

\* The total that update_job_progress takes from expected_total_frames.
FrameTotal == IF kind = "video" /\ initialised THEN batchTotal ELSE 0

\* Mutant: starting the entry over forgets what was done.
CountRestarts(w) ==
    /\ pc[w] = "count"
    /\ LET fresh == service = "keypoint" \/ ~tracked
           e == Refined(IF fresh THEN High ELSE expected, FrameTotal)
           d == IF fresh THEN 1 ELSE done + 1
           known == initialised /\ batchTotal > 0
       IN  /\ tracked' = TRUE /\ done' = d
           /\ expected' = IF known THEN batchTotal ELSE e
           /\ Settle(w, known /\ Reached(d, batchTotal), batchTotal, d, "next")
    /\ counted' = counted \cup cur[w] /\ cur' = [cur EXCEPT ![w] = {}]
    /\ UNCHANGED <<fixed, processed, initialised, batchSeen, msg, todo, outVars,
                   queue, batch, bounds>>

\* The ready event is out and the asset is counted, in one stretch without an
\* await: an entry that is new gets the High expected count (vision-keypoint
\* tests for it under the wrong key, so always); update_job_progress adds the
\* asset and checks the threshold when the expected count is a real one; once
\* the batch message has come with a total, that total is set and checked.
Count(w) ==
    /\ pc[w] = "count"
    /\ LET fresh == service = "keypoint" \/ ~tracked
           e == Refined(IF fresh THEN High ELSE expected, FrameTotal)
           d == done + 1
           known == initialised /\ batchTotal > 0
           first == e # 0 /\ e < High /\ Reached(d, e)
           again == known /\ Reached(d, batchTotal)
       IN  /\ tracked' = TRUE /\ done' = d
           /\ expected' = IF known THEN batchTotal ELSE e
           /\ Settle(w, first \/ again, IF first THEN e ELSE batchTotal, d, "next")
    /\ counted' = counted \cup cur[w] /\ cur' = [cur EXCEPT ![w] = {}]
    /\ UNCHANGED <<fixed, processed, initialised, batchSeen, msg, todo, outVars,
                   queue, batch, bounds>>

\* The handler returns and the message is acknowledged.
Ack(w) ==
    /\ pc[w] = "next" /\ todo[w] = {}
    /\ pc' = [pc EXCEPT ![w] = "idle"] /\ msg' = [msg EXCEPT ![w] = {}]
    /\ UNCHANGED <<fixed, memory, todo, cur, claim, outVars, queue, batch, bounds>>

\* An await of the handler raises: the message is published again (retry) or
\* goes to the dead letter key, and is acknowledged.  The assets begun stay in
\* processed_assets, so a retry passes them over.  The UPDATE may be done.
\* (Between two assets only vision-embedding awaits anything.)
Raises(w) ==
    /\ \/ pc[w] \in {"extract", "count", "publish"}
       \/ pc[w] = "next" /\ (todo[w] = {} \/ service = "embedding")
    /\ Fault
    /\ extracted' \in {extracted, extracted \cup IF pc[w] = "extract" THEN cur[w] ELSE {}}
    /\ queue' \in {queue, queue \cup {msg[w]}}
    /\ pc' = [pc EXCEPT ![w] = "idle"]
    /\ msg' = [msg EXCEPT ![w] = {}] /\ todo' = [todo EXCEPT ![w] = {}]
    /\ cur' = [cur EXCEPT ![w] = {}] /\ claim' = [claim EXCEPT ![w] = NoClaim]
    /\ UNCHANGED <<fixed, memory, claims, completions, batch>>

WorkerStep(w) ==
    Start(w) \/ Save(w) \/ NothingExtracted(w) \/ Count(w)
    \/ PublishCompletion(w) \/ Ack(w)

-----------------------------------------------------------------------------
\* The batch message

\* Mutant: vision-keypoint does not check again either.
BatchNoRecheck ==
    /\ batch = "queued" /\ pc[Batcher] = "idle"
    /\ batch' = "taken" /\ initialised' = TRUE
    /\ batchSeen' = (kind = "video")
    /\ IF batchTotal = 0
       THEN /\ tracked' = TRUE
            /\ expected' = IF service = "embedding" \/ ~tracked THEN 0 ELSE expected
       ELSE UNCHANGED <<tracked, expected>>
    /\ pc' = [pc EXCEPT ![Batcher] = "ack"]
    /\ UNCHANGED <<fixed, processed, done, sent, counted, msg, todo, cur, claim,
                   outVars, queue, bounds>>

\* handle_batch_initialization.  The total is kept; a total of zero makes an
\* entry that expects nothing (vision-embedding looks for it under the wrong
\* key and starts it over).  Only vision-keypoint then checks for completion:
\* update_job_progress skips the check while the expected count is zero.
Batch ==
    /\ batch = "queued" /\ pc[Batcher] = "idle"
    /\ batch' = "taken"
    /\ IF batchSeen
       THEN /\ pc' = [pc EXCEPT ![Batcher] = "ack"]
            /\ UNCHANGED <<tracked, expected, initialised, batchSeen, sent, claim>>
       ELSE LET entry == tracked \/ batchTotal = 0
                check == service = "keypoint" /\ entry
            IN  /\ initialised' = TRUE /\ batchSeen' = (kind = "video")
                /\ tracked' = entry
                /\ expected' = IF check THEN batchTotal
                               ELSE IF batchTotal = 0 THEN 0 ELSE expected
                /\ Settle(Batcher, check /\ Reached(done, batchTotal),
                          batchTotal, done, "ack")
    /\ UNCHANGED <<fixed, processed, done, counted, msg, todo, cur, outVars,
                   queue, bounds>>

AckBatch ==
    /\ pc[Batcher] = "ack"
    /\ pc' = [pc EXCEPT ![Batcher] = "idle"]
    /\ batch' = IF batch = "taken" THEN "done" ELSE batch
    /\ UNCHANGED <<fixed, memory, msg, todo, cur, claim, outVars, queue, bounds>>

\* The publish of the completion raises, as in Raises.
BatchRaises ==
    /\ pc[Batcher] = "publish" /\ Fault
    /\ pc' = [pc EXCEPT ![Batcher] = "idle"]
    /\ claim' = [claim EXCEPT ![Batcher] = NoClaim]
    /\ batch' \in {"done", "queued"}
    /\ UNCHANGED <<fixed, memory, msg, todo, cur, outVars, queue>>

BatchStep == Batch \/ PublishCompletion(Batcher) \/ AckBatch

-----------------------------------------------------------------------------
\* Failures

\* A restart: memory is lost and unacknowledged messages are redelivered.
Crash ==
    /\ crashes < MaxCrashes /\ crashes' = crashes + 1
    /\ queue' = queue \cup {msg[w] : w \in {v \in Workers : pc[v] # "idle"}}
    /\ batch' = IF batch = "taken" THEN "queued" ELSE batch
    /\ processed' = {} /\ tracked' = FALSE /\ expected' = 0 /\ done' = 0
    /\ initialised' = FALSE /\ batchSeen' = FALSE /\ sent' = FALSE
    /\ counted' = {}
    /\ pc' = [t \in Tasks |-> "idle"]
    /\ msg' = [t \in Tasks |-> {}] /\ todo' = [t \in Tasks |-> {}]
    /\ cur' = [t \in Tasks |-> {}] /\ claim' = [t \in Tasks |-> NoClaim]
    /\ UNCHANGED <<fixed, outVars, requeues, faults>>

\* The connection drops and a message that is still handled comes again.
Requeue ==
    /\ requeues < MaxRequeues /\ requeues' = requeues + 1
    /\ \/ /\ \E w \in Workers : pc[w] # "idle" /\ queue' = queue \cup {msg[w]}
          /\ UNCHANGED batch
       \/ pc[Batcher] # "idle" /\ batch' = "queued" /\ UNCHANGED queue
    /\ UNCHANGED <<fixed, memory, taskVars, outVars, crashes, faults>>

Next ==
    \/ \E w \in Workers : \/ \E m \in queue : Deliver(w, m)
                          \/ WorkerStep(w) \/ Missing(w) \/ Raises(w)
    \/ BatchStep \/ BatchRaises
    \/ Crash \/ Requeue

Spec == Init /\ [][Next]_vars

\* Messages are delivered and handlers run on; nothing need fail.
FairSpec ==
    /\ Spec
    /\ \A w \in Workers : WF_vars(WorkerStep(w))
    /\ WF_vars(\E w \in Workers : \E m \in queue : Deliver(w, m))
    /\ WF_vars(BatchStep)

-----------------------------------------------------------------------------
\* Type invariant

TypeOK ==
    /\ service \in Services /\ kind \in {"image", "video"} /\ batchTotal \in Totals
    /\ processed \subseteq Assets /\ counted \subseteq Assets
    /\ tracked \in BOOLEAN /\ done \in Nat
    /\ expected \in Totals \cup {0, High}
    /\ initialised \in BOOLEAN /\ batchSeen \in BOOLEAN /\ sent \in BOOLEAN
    /\ pc \in [Tasks -> {"idle", "next", "extract", "count", "publish", "ack"}]
    /\ msg \in [Tasks -> SUBSET Assets] /\ todo \in [Tasks -> SUBSET Assets]
    /\ cur \in [Tasks -> SUBSET Assets]
    /\ claim \in [Tasks -> Claim \cup {NoClaim}]
    /\ \A t \in Tasks : pc[t] = "publish" => claim[t] \in Claim
    /\ extracted \subseteq Assets /\ queue \subseteq SUBSET Assets
    /\ batch \in {"queued", "taken", "done"}
    /\ claims \subseteq Claim /\ completions \in Nat
    /\ crashes \in Nat /\ requeues \in Nat /\ faults \in Nat

-----------------------------------------------------------------------------
\* Safety

\* A completion announces the total of the batch, and what is really done.
Honest(c) ==
    /\ c.expected = batchTotal /\ Reached(c.done, c.expected)
    /\ c.done <= Cardinality(extracted)

\* A completion tells the truth, whatever is redelivered, retried or lost: it
\* carries the total of the batch message, at least the threshold of it is
\* done, and as many assets really have their row (the barrier of main-api
\* and the matcher rely on it; CONTRACTS.md:55).
CompletionHonest == \A c \in claims : Honest(c)

\* One completion in each life of the process, though two tasks may reach the
\* threshold together and the publish is an await (_completion_events_sent).
OneCompletion == completions <= crashes + 1

\* When the tasks are idle, nothing was raised and nothing restarted, the
\* count is exactly the number of rows with results: the resets of the entry
\* to the High expected count, redeliveries and interleavings lose none.
CountSettles ==
    (\A t \in Tasks : pc[t] = "idle") /\ crashes = 0 /\ faults = 0
        => done = Cardinality(extracted)

-----------------------------------------------------------------------------
\* What makes the safety properties hold: an inductive invariant

\* Workers between the claim of an asset and its count.
Busy == {w \in Workers : pc[w] \in {"extract", "count"}}

\* The entry counts assets that have their rows, each once: what a worker has
\* in hand was remembered by it alone and is not counted yet.
CountInv ==
    /\ counted \subseteq extracted \cap processed
    /\ done = Cardinality(counted)
    /\ \A w \in Busy : \E a \in processed \ counted : cur[w] = {a}
    /\ \A v, w \in Busy : v # w => cur[v] # cur[w]
    /\ \A w \in Workers : pc[w] = "count" => cur[w] \subseteq extracted

\* An entry expects nothing, an unknown number, or the total of the batch.
ExpectedInv == expected \in {0, High, batchTotal}

ClaimInv ==
    /\ CompletionHonest
    /\ \A t \in Tasks : pc[t] = "publish" => Honest(claim[t])

\* The task about to publish is the one that marked the completion as sent.
SentInv ==
    /\ OneCompletion
    /\ ~sent => completions <= crashes
    /\ \A t \in Tasks : pc[t] = "publish" => sent /\ completions <= crashes
    /\ \A s, t \in Tasks : pc[s] = "publish" /\ pc[t] = "publish" => s = t

\* Undisturbed, a row that is not counted is about to be.
PendingInv ==
    crashes = 0 /\ faults = 0 =>
        \A a \in extracted \ counted : \E w \in Workers : pc[w] = "count" /\ a \in cur[w]

ProgressInv ==
    TypeOK /\ CountInv /\ ExpectedInv /\ ClaimInv /\ SentInv /\ PendingInv

-----------------------------------------------------------------------------
\* Liveness

Enough == initialised /\ Reached(done, batchTotal)
Disturbed == crashes > 0 \/ faults > 0

\* vision-keypoint announces the completion once the batch message has come
\* and enough assets are done, in whichever order they arrive and also when
\* there are no assets.  A restart or a publish that fails may lose it.
KeypointsComplete ==
    service = "keypoint" /\ Enough ~> completions > 0 \/ Disturbed

-----------------------------------------------------------------------------
\* What the documents say and the code does not do

\* CONTRACTS.md:55: when as many assets are processed as the batch announced,
\* image.embeddings.completed is emitted.  vision-embedding does not look
\* again when the batch message comes last, or announces zero.
EmbeddingsComplete ==
    service = "embedding" /\ Enough ~> completions > 0 \/ Disturbed
=============================================================================
