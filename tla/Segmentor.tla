----------------------------- MODULE Segmentor ------------------------------
(***************************************************************************)
(* product-segmentor: the masks of one job, for its product images and its *)
(* video frames, with the JobProgressManager of vision-common.             *)
(*                                                                         *)
(* An asset message brings one image or the frames of a video, a batch     *)
(* message the number of assets of its kind.  Each asset that gets a mask  *)
(* is counted; when the count reaches the threshold of the total, or a     *)
(* watermark timer expires first, the service publishes the completion and *)
(* then the masked batch that vision-embedding and vision-keypoint wait    *)
(* for.  There is one timer for the job, shared by the two kinds, and it   *)
(* looks at a copy of the counts made when a batch message was handled.    *)
(*                                                                         *)
(* A step runs to the next await.  Left out: the pixels (MaskMaking has    *)
(* how one mask is made), GPU statistics and the semaphore of three, which *)
(* the prefetch of two asset messages keeps from ever being full.          *)
(***************************************************************************)
EXTENDS AssetBus, Sequences

CONSTANTS
    Frames,                     \* frames of the job; other assets are images
    ImageWorkers, VideoWorkers, \* tasks for asset messages: the prefetch
    SegThreshold,               \* COMPLETION_THRESHOLD_PERCENTAGE
    SegHigh,                    \* the count expected before a batch message
    MaxSegCrashes,              \* bound on restarts
    MaxSegFaults                \* bound on publishes that fail

Kinds == {"image", "video"}

BatchTask(k) == IF k = "image" THEN "imageBatch" ELSE "videoBatch"

BatchTasks == {BatchTask(k) : k \in Kinds}
SegWorkers == ImageWorkers \cup VideoWorkers
SegTasks == SegWorkers \cup BatchTasks \cup {"timer"}

ASSUME SegmentorAssumption ==
    /\ IsFiniteSet(SegWorkers) /\ ImageWorkers \cap VideoWorkers = {}
    /\ SegWorkers \cap (BatchTasks \cup {"timer"}) = {}
    /\ SegThreshold \in 0..100 /\ SegHigh \in Nat \ {0}
    /\ MaxSegCrashes \in Nat /\ MaxSegFaults \in Nat

\* The kind of asset a task works on; the timer's is the one it found.
KindOf(t, found) ==
    IF t \in ImageWorkers \cup {"imageBatch"} THEN "image"
    ELSE IF t = "timer" THEN found ELSE "video"

\* What a task does when it has published.  A batch task rechecks; when it
\* had rechecked already, the second time finds the completion sent and changes
\* nothing.
Rest(t) ==
    IF t = "timer" THEN "idle" ELSE IF t \in SegWorkers THEN "next" ELSE "recheck"

NoCounts == [expected |-> 0, done |-> 0]
NoBatch == [id |-> 0, total |-> 0]

VARIABLES
    tracking,    \* the kinds in job_tracking, in the order they came
    counts,      \* expected and done of each
    batchKnown,  \* job_batch_initialized
    mirror,      \* job_tracking[job_id]: a copy of one kind's counts, or none
    seen,        \* processed_batch_events (videos only)
    completed,   \* the kinds whose completion is in _completion_events_sent
    batched,     \* the kinds whose masked batch is in it
    \* the tasks
    spc, smsg,   \* where each stands, its message
    left,        \* the assets it has not gone through
    made,        \* the assets it has masked
    claimed,     \* the counts it is about to publish
    timed,       \* the kind the timer publishes
    \* disk, database, broker
    masks,       \* assets with a mask file
    maskedOut,   \* assets in masked messages
    maskedBatch, \* masked batches published: kind and count, in order
    recounts,    \* history: assets of messages that raised and came again
    unmasked,    \* history: assets no mask was made for
    cut,         \* history: the timer was cancelled while it published
    segCrashes, segFaults

segMemory == <<tracking, counts, batchKnown, mirror, seen, completed, batched>>
segTask   == <<spc, smsg, left, made, claimed, timed>>
segOut    == <<masks, maskedOut, maskedBatch>>
segPast   == <<recounts, unmasked, cut>>
segBound  == <<segCrashes, segFaults>>
segVars   == <<segMemory, segTask, segOut, segPast, segBound>>

ForgetAll ==
    /\ tracking' = <<>> /\ counts' = [k \in Kinds |-> NoCounts]
    /\ batchKnown' = {} /\ mirror' = NoCounts /\ seen' = {}
    /\ completed' = {} /\ batched' = {}
    /\ spc' = [t \in SegTasks |-> "idle"]
    /\ smsg' = [t \in SegTasks |-> IF t \in SegWorkers THEN {} ELSE NoBatch]
    /\ left' = [t \in SegWorkers |-> {}] /\ made' = [t \in SegWorkers |-> {}]
    /\ claimed' = [t \in SegTasks |-> NoCounts] /\ timed' = "image"

SegmentorInit ==
    /\ tracking = <<>> /\ counts = [k \in Kinds |-> NoCounts]
    /\ batchKnown = {} /\ mirror = NoCounts /\ seen = {}
    /\ completed = {} /\ batched = {}
    /\ spc = [t \in SegTasks |-> "idle"]
    /\ smsg = [t \in SegTasks |-> IF t \in SegWorkers THEN {} ELSE NoBatch]
    /\ left = [t \in SegWorkers |-> {}] /\ made = [t \in SegWorkers |-> {}]
    /\ claimed = [t \in SegTasks |-> NoCounts] /\ timed = "image"
    /\ masks = {} /\ maskedOut = {} /\ maskedBatch = <<>>
    /\ recounts = 0 /\ unmasked = {} /\ cut = FALSE
    /\ segCrashes = 0 /\ segFaults = 0

SegFault ==
    /\ segFaults < MaxSegFaults
    /\ segFaults' = segFaults + 1 /\ UNCHANGED segCrashes

Tracked(k) == \E n \in DOMAIN tracking : tracking[n] = k

Track(k) == IF Tracked(k) THEN tracking ELSE Append(tracking, k)

\* _has_reached_completion.
SegReached(c) ==
    IF c.expected = 0 THEN TRUE ELSE c.done * 100 >= c.expected * SegThreshold

\* The guard of publish_completion_event_with_count: the completion of a kind
\* is marked as sent and then published, once in the life of the process.
Conclude(t, k, reached, c, rest) ==
    IF reached /\ k \notin completed
    THEN /\ completed' = completed \cup {k}
         /\ claimed' = [claimed EXCEPT ![t] = c]
         /\ spc' = [spc EXCEPT ![t] = "completed"]
    ELSE /\ spc' = [spc EXCEPT ![t] = rest]
         /\ UNCHANGED <<completed, claimed>>

-----------------------------------------------------------------------------
\* Asset messages

TakeImage(w, im) ==
    /\ spc[w] = "idle" /\ im \in readyImages
    /\ readyImages' = readyImages \ {im}
    /\ smsg' = [smsg EXCEPT ![w] = {im}] /\ left' = [left EXCEPT ![w] = {im}]
    /\ spc' = [spc EXCEPT ![w] = "next"]
    /\ IF "image" \in batchKnown
       THEN UNCHANGED <<tracking, counts>>
       ELSE /\ tracking' = Track("image")
            /\ counts' = [counts EXCEPT !["image"].expected = SegHigh]
    /\ UNCHANGED <<batchKnown, mirror, seen, completed, batched, made, claimed,
                   timed, segOut, segPast, segBound, imageBatches, readyVideos,
                   videoBatches>>

TakeVideo(w, m) ==
    /\ spc[w] = "idle" /\ m \in readyVideos
    /\ readyVideos' = readyVideos \ {m}
    /\ smsg' = [smsg EXCEPT ![w] = m] /\ left' = [left EXCEPT ![w] = m]
    /\ spc' = [spc EXCEPT ![w] = "next"]
    /\ UNCHANGED <<segMemory, made, claimed, timed, segOut, segPast, segBound,
                   readyImages, imageBatches, videoBatches>>

\* Mutant: an asset without a mask is counted as well.
LoseCounted(w, x) ==
    /\ spc[w] = "next" /\ x \in left[w]
    /\ left' = [left EXCEPT ![w] = @ \ {x}]
    /\ unmasked' = unmasked \cup {x}
    /\ counts' = [counts EXCEPT ![KindOf(w, timed)].done = @ + 1]
    /\ tracking' = Track(KindOf(w, timed))
    /\ UNCHANGED <<batchKnown, mirror, seen, completed, batched, spc, smsg, made,
                   claimed, timed, segOut, recounts, cut, segBound, bus>>

\* No mask is made: any failure ends here, those of GPU memory too (MaskMaking
\* models how one mask is made).
LoseAsset(w, x) ==
    /\ spc[w] = "next" /\ x \in left[w]
    /\ left' = [left EXCEPT ![w] = @ \ {x}]
    /\ unmasked' = unmasked \cup {x}
    /\ UNCHANGED <<segMemory, spc, smsg, made, claimed, timed, segOut, recounts,
                   cut, segBound, bus>>

\* The mask is made and its row updated, which no other task looks at, and
\* then the asset is counted, whatever was counted for it before.
MaskAsset(w, x) ==
    LET k == KindOf(w, timed)
        c == [counts[k] EXCEPT !.done = @ + 1]
    IN /\ spc[w] = "next" /\ x \in left[w]
       /\ left' = [left EXCEPT ![w] = @ \ {x}]
       /\ made' = [made EXCEPT ![w] = @ \cup {x}]
       /\ masks' = masks \cup {x}
       /\ tracking' = Track(k) /\ counts' = [counts EXCEPT ![k] = c]
       /\ Conclude(w, k, c.expected \notin {0, SegHigh} /\ SegReached(c), c, "next")
       /\ UNCHANGED <<batchKnown, mirror, seen, batched, smsg, timed, maskedOut,
                      maskedBatch, segPast, segBound, bus>>

\* products.image.masked, or video.keyframes.masked for the frames of a video
\* that got a mask.
EmitMasked(w) ==
    /\ spc[w] = "next" /\ left[w] = {} /\ made[w] # {}
    /\ maskedOut' = maskedOut \cup made[w]
    /\ made' = [made EXCEPT ![w] = {}]
    /\ UNCHANGED <<segMemory, spc, smsg, left, claimed, timed, masks, maskedBatch,
                   segPast, segBound, bus>>

\* Mutant: the message is acknowledged before its masks are announced.
AckEarly(w) ==
    /\ spc[w] = "next" /\ left[w] = {}
    /\ spc' = [spc EXCEPT ![w] = "idle"] /\ smsg' = [smsg EXCEPT ![w] = {}]
    /\ UNCHANGED <<segMemory, left, made, claimed, timed, segOut, segPast,
                   segBound, bus>>

AckAssets(w) ==
    /\ spc[w] = "next" /\ left[w] = {} /\ made[w] = {}
    /\ spc' = [spc EXCEPT ![w] = "idle"] /\ smsg' = [smsg EXCEPT ![w] = {}]
    /\ UNCHANGED <<segMemory, left, made, claimed, timed, segOut, segPast,
                   segBound, bus>>

\* A publish of the handler raises: the broker sends the message again, and
\* what was counted for it stays counted.
RaiseAssets(w) ==
    /\ spc[w] \in {"completed", "batched"}
       \/ (spc[w] = "next" /\ left[w] = {} /\ made[w] # {})
    /\ IF w \in ImageWorkers
       THEN readyImages' = readyImages \cup smsg[w] /\ UNCHANGED readyVideos
       ELSE readyVideos' = readyVideos \cup {smsg[w]} /\ UNCHANGED readyImages
    /\ spc' = [spc EXCEPT ![w] = "idle"] /\ smsg' = [smsg EXCEPT ![w] = {}]
    /\ left' = [left EXCEPT ![w] = {}] /\ made' = [made EXCEPT ![w] = {}]
    /\ claimed' = [claimed EXCEPT ![w] = NoCounts]
    /\ recounts' = recounts + Cardinality(smsg[w])
    /\ SegFault
    /\ UNCHANGED <<segMemory, timed, segOut, unmasked, cut, imageBatches, videoBatches>>

-----------------------------------------------------------------------------
\* Publishing

\* Mutant: the masked batch follows every completion.
PublishSegmentedAlways(t) ==
    /\ spc[t] = "completed"
    /\ spc' = [spc EXCEPT ![t] = "batched"]
    /\ batched' = batched \cup {KindOf(t, timed)}
    /\ UNCHANGED <<tracking, counts, batchKnown, mirror, seen, completed, smsg,
                   left, made, claimed, timed, segOut, segPast, segBound, bus>>

\* The completion of a kind (main-api does not listen to it) is out; the
\* masked batch follows unless it is marked as sent already.
PublishSegmented(t) ==
    LET k == KindOf(t, timed) IN
    /\ spc[t] = "completed"
    /\ IF k \in batched
       THEN /\ spc' = [spc EXCEPT ![t] = Rest(t)] /\ UNCHANGED batched
            /\ claimed' = [claimed EXCEPT ![t] = NoCounts]
       ELSE /\ spc' = [spc EXCEPT ![t] = "batched"]
            /\ batched' = batched \cup {k} /\ UNCHANGED claimed
    /\ UNCHANGED <<tracking, counts, batchKnown, mirror, seen, completed, smsg,
                   left, made, timed, segOut, segPast, segBound, bus>>

\* products.images.masked.batch or video.keyframes.masked.batch.
PublishMaskedBatch(t) ==
    /\ spc[t] = "batched"
    /\ maskedBatch' = Append(maskedBatch, [kind |-> KindOf(t, timed),
                                           count |-> claimed[t].done])
    /\ spc' = [spc EXCEPT ![t] = Rest(t)]
    /\ claimed' = [claimed EXCEPT ![t] = NoCounts]
    /\ UNCHANGED <<segMemory, smsg, left, made, timed, masks, maskedOut, segPast,
                   segBound, bus>>

-----------------------------------------------------------------------------
\* Batch messages

\* _handle_batch_event to its first publish.  The timer of the job is started
\* anew: the old one is cancelled, wherever it stands.
AnnounceTotal(k, total) ==
    LET t == BatchTask(k)
        c == [expected |-> total, done |-> counts[k].done]
    IN /\ batchKnown' = batchKnown \cup {k}
       /\ cut' = (cut \/ spc["timer"] \in {"completed", "batched"})
       /\ IF total = 0
          THEN /\ IF k \in batched
                  THEN spc' = [spc EXCEPT ![t] = "recheck", !["timer"] = "armed"]
                       /\ UNCHANGED batched
                  ELSE spc' = [spc EXCEPT ![t] = "batched", !["timer"] = "armed"]
                       /\ batched' = batched \cup {k}
               /\ claimed' = [claimed EXCEPT ![t] = NoCounts, !["timer"] = NoCounts]
               /\ UNCHANGED <<tracking, counts, completed>>
          ELSE /\ tracking' = Track(k) /\ counts' = [counts EXCEPT ![k] = c]
               /\ LET sends == SegReached(c) /\ k \notin completed IN
                  /\ spc' = [spc EXCEPT ![t] = IF sends THEN "completed" ELSE "recheck",
                                        !["timer"] = "armed"]
                  /\ claimed' = [claimed EXCEPT ![t] = IF sends THEN c ELSE NoCounts,
                                                !["timer"] = NoCounts]
                  /\ completed' = IF sends THEN completed \cup {k} ELSE completed
               /\ UNCHANGED batched

TakeImagesBatch(b) ==
    /\ spc["imageBatch"] = "idle" /\ b \in imageBatches
    /\ imageBatches' = imageBatches \ {b}
    /\ smsg' = [smsg EXCEPT !["imageBatch"] = b]
    /\ AnnounceTotal("image", b.total)
    /\ UNCHANGED <<mirror, seen, left, made, timed, segOut, recounts, unmasked,
                   segBound, readyImages, readyVideos, videoBatches>>

\* A video batch is handled once in the life of the process, also when the
\* first attempt raised.
TakeVideosBatch(b) ==
    /\ spc["videoBatch"] = "idle" /\ b \in videoBatches
    /\ videoBatches' = videoBatches \ {b}
    /\ IF b.id \in seen
       THEN UNCHANGED <<tracking, counts, batchKnown, seen, completed, batched,
                        spc, smsg, claimed, cut>>
       ELSE /\ seen' = seen \cup {b.id}
            /\ smsg' = [smsg EXCEPT !["videoBatch"] = b]
            /\ AnnounceTotal("video", b.total)
    /\ UNCHANGED <<mirror, left, made, timed, segOut, recounts, unmasked, segBound,
                   readyImages, imageBatches, readyVideos>>

\* update_expected_and_recheck_completion.
Recheck(k) ==
    LET t == BatchTask(k)
        c == [counts[k] EXCEPT !.expected = smsg[t].total]
    IN /\ spc[t] = "recheck"
       /\ counts' = IF Tracked(k) THEN [counts EXCEPT ![k] = c] ELSE counts
       /\ Conclude(t, k, Tracked(k) /\ SegReached(c), c, "mirror")
       /\ UNCHANGED <<tracking, batchKnown, mirror, seen, batched, smsg, left,
                      made, timed, segOut, segPast, segBound, bus>>

\* Mutant: without the copy.
MirrorNothing(k) ==
    /\ spc[BatchTask(k)] = "mirror"
    /\ spc' = [spc EXCEPT ![BatchTask(k)] = "idle"]
    /\ smsg' = [smsg EXCEPT ![BatchTask(k)] = NoBatch]
    /\ UNCHANGED <<tracking, counts, batchKnown, mirror, seen, completed, batched,
                   left, made, claimed, timed, segOut, segPast, segBound, bus>>

\* The copy of the counts "for legacy tests": the only entry the timer finds.
Mirror(k) ==
    LET t == BatchTask(k) IN
    /\ spc[t] = "mirror"
    /\ mirror' = IF Tracked(k) THEN counts[k] ELSE mirror
    /\ spc' = [spc EXCEPT ![t] = "idle"] /\ smsg' = [smsg EXCEPT ![t] = NoBatch]
    /\ UNCHANGED <<tracking, counts, batchKnown, seen, completed, batched, left,
                   made, claimed, timed, segOut, segPast, segBound, bus>>

\* A publish raises: the batch message comes again.
RaiseBatch(k) ==
    LET t == BatchTask(k) IN
    /\ spc[t] \in {"completed", "batched"}
    /\ IF k = "image"
       THEN imageBatches' = imageBatches \cup {smsg[t]} /\ UNCHANGED videoBatches
       ELSE videoBatches' = videoBatches \cup {smsg[t]} /\ UNCHANGED imageBatches
    /\ spc' = [spc EXCEPT ![t] = "idle"] /\ smsg' = [smsg EXCEPT ![t] = NoBatch]
    /\ claimed' = [claimed EXCEPT ![t] = NoCounts]
    /\ SegFault
    /\ UNCHANGED <<segMemory, left, made, timed, segOut, segPast, readyImages,
                   readyVideos>>

-----------------------------------------------------------------------------
\* The watermark timer

\* timer_task: the job looks incomplete in the copy.  publish_completion_event
\* then takes the kind that was tracked first, whatever kind the copy is of.
\* BATCH_TIMEOUT_SECONDS is half an hour: the handlers that armed it are done.
Expire ==
    /\ spc["timer"] = "armed" /\ \A t \in BatchTasks : spc[t] = "idle"
    /\ LET incomplete == mirror.done < mirror.expected
           k == tracking[1]
           sends == /\ incomplete /\ counts[k].expected # 0 /\ k \notin completed
       IN IF sends
          THEN /\ spc' = [spc EXCEPT !["timer"] = "completed"]
               /\ completed' = completed \cup {k} /\ timed' = k
               /\ claimed' = [claimed EXCEPT !["timer"] = counts[k]]
          ELSE /\ spc' = [spc EXCEPT !["timer"] = "idle"]
               /\ UNCHANGED <<completed, timed, claimed>>
    /\ UNCHANGED <<tracking, counts, batchKnown, mirror, seen, batched, smsg, left,
                   made, segOut, segPast, segBound, bus>>

\* A publish of the timer raises: the task dies, nobody looks at it.
TimerDies ==
    /\ spc["timer"] \in {"completed", "batched"}
    /\ spc' = [spc EXCEPT !["timer"] = "idle"]
    /\ claimed' = [claimed EXCEPT !["timer"] = NoCounts]
    /\ SegFault
    /\ UNCHANGED <<segMemory, smsg, left, made, timed, segOut, segPast, bus>>

-----------------------------------------------------------------------------
\* A restart loses all memory and the timer; messages that were being
\* handled come again.
SegCrash ==
    /\ segCrashes < MaxSegCrashes /\ segCrashes' = segCrashes + 1
    /\ ForgetAll
    /\ readyImages' = readyImages \cup UNION {smsg[w] : w \in ImageWorkers}
    /\ readyVideos' = readyVideos \cup ({smsg[w] : w \in VideoWorkers} \ {{}})
    /\ imageBatches' = imageBatches \cup ({smsg["imageBatch"]} \ {NoBatch})
    /\ videoBatches' = videoBatches \cup ({smsg["videoBatch"]} \ {NoBatch})
    /\ UNCHANGED <<segOut, segPast, segFaults>>

Deliver ==
    \/ \E w \in ImageWorkers : \E im \in readyImages : TakeImage(w, im)
    \/ \E w \in VideoWorkers : \E m \in readyVideos : TakeVideo(w, m)
    \/ \E b \in imageBatches : TakeImagesBatch(b)
    \/ \E b \in videoBatches : TakeVideosBatch(b)

WorkerStep(w) ==
    \/ \E x \in left[w] : MaskAsset(w, x)
    \/ EmitMasked(w) \/ AckAssets(w)

SegPublish == \E t \in SegTasks : PublishSegmented(t) \/ PublishMaskedBatch(t)

BatchStep(k) == Recheck(k) \/ Mirror(k)

\* What the event loop and the consumers do when nothing fails.
SegmentorWork ==
    \/ Deliver \/ SegPublish
    \/ \E w \in SegWorkers : WorkerStep(w)
    \/ \E k \in Kinds : BatchStep(k)

SegmentorNext ==
    \/ SegmentorWork \/ Expire \/ TimerDies \/ SegCrash
    \/ \E w \in SegWorkers : RaiseAssets(w) \/ \E x \in left[w] : LoseAsset(w, x)
    \/ \E k \in Kinds : RaiseBatch(k)

\* The event loop goes on while a task can run, and a timer expires.
SegmentorFairness == WF_<<segVars, bus>>(SegmentorWork) /\ WF_<<segVars, bus>>(Expire)

-----------------------------------------------------------------------------
\* Properties

MasksOf(k) == IF k = "video" THEN masks \cap Frames ELSE masks \ Frames

SegmentorTypeOK ==
    /\ \/ tracking = <<>> \/ \E k \in Kinds : tracking = <<k>>
       \/ tracking \in {<<"image", "video">>, <<"video", "image">>}
    /\ counts \in [Kinds -> [expected : Nat, done : Nat]]
    /\ batchKnown \subseteq Kinds /\ completed \subseteq Kinds /\ batched \subseteq Kinds
    /\ mirror \in [expected : Nat, done : Nat] /\ seen \subseteq Nat
    /\ spc \in [SegTasks -> {"idle", "next", "completed", "batched", "recheck",
                             "mirror", "armed"}]
    /\ claimed \in [SegTasks -> [expected : Nat, done : Nat]] /\ timed \in Kinds
    /\ \A w \in SegWorkers : left[w] \subseteq smsg[w] /\ made[w] \subseteq smsg[w] \ left[w]
    /\ maskedOut \subseteq masks
    /\ segCrashes \in 0..MaxSegCrashes /\ segFaults \in 0..MaxSegFaults

\* The number of assets a masked batch announces, and every consumer waits
\* for, is at most the number of masks made; only a message that raised after
\* its assets were counted, and came again, adds to it.
MaskedHonest ==
    /\ \A k \in Kinds : counts[k].done <= Cardinality(MasksOf(k)) + recounts
    /\ \A n \in DOMAIN maskedBatch :
        maskedBatch[n].count <= Cardinality(MasksOf(maskedBatch[n].kind)) + recounts

\* A kind has one masked batch in the life of a process, by whichever of the
\* four ways to it: progress, recheck, a total of zero, or the timer.
OneMaskedBatch ==
    \A k \in Kinds :
        Cardinality({n \in DOMAIN maskedBatch : maskedBatch[n].kind = k}) <= 1 + segCrashes
=============================================================================
