----------------------------- MODULE VideoCrawl -----------------------------
(***************************************************************************)
(* video-crawler: one request to collect the videos of a job.              *)
(*                                                                         *)
(* The platforms are searched, and each result goes through process_video, *)
(* all gathered: the video row is found or made and linked to the job, the *)
(* keyframes are extracted and stored one by one, and announced in one     *)
(* message.  A video that has frames already is not extracted again.  When *)
(* all are done the batch total goes out, if there is a frame at all, and  *)
(* then the completion main-api waits for.                                 *)
(*                                                                         *)
(* A step runs to the next await that another task can notice.  Rows of    *)
(* videos and frames outlive the job and a restart.  VideoSearch models a  *)
(* search, Keyframes an extraction; ON CONFLICT DO NOTHING makes an INSERT *)
(* of a row that is there a no-op which the code reports as a new row.     *)
(***************************************************************************)
EXTENDS Naturals, Sequences, FiniteSets

CONSTANTS
    Results,          \* results a search may return
    VideoOf,          \* the video of each: platforms may be named twice
    KeyframesOf,      \* how many keyframes the extractor finds in it
    MaxCrawls,        \* bound on deliveries of the request
    MaxCrawlCrashes, MaxCrawlFaults

CrawlVideos == {VideoOf[s] : s \in Results}

FramesOf(v) == {v} \X (1..KeyframesOf[v])

AllFrames == UNION {FramesOf(v) : v \in CrawlVideos}

ASSUME CrawlAssumption ==
    /\ IsFiniteSet(Results) /\ KeyframesOf \in [CrawlVideos -> Nat \ {0}]
    /\ MaxCrawls \in Nat /\ MaxCrawlCrashes \in Nat /\ MaxCrawlFaults \in Nat

VARIABLES
    crawl,       \* the request message: queued, taken or done
    crawls,      \* deliveries so far
    cstage,      \* where its handler stands
    progress,    \* "crawling" progress: expected, done, and event sent
    \* process_video of each result
    vpc, isNew,  \* where it stands; created_new
    next,        \* keyframes it has gone through
    got,         \* frame_data
    result,      \* the frames it returned
    \* database and broker
    videoRows, linked, frameRows,
    told,        \* the frames its message announced in this delivery
    totals,      \* videos.keyframes.ready.batch messages
    collected,   \* videos.collections.completed messages
    torn,        \* history: a message has announced a part of the keyframes
    crawlCrashes, crawlFaults

crawlHandler == <<crawl, crawls, cstage, progress>>
crawlTasks   == <<vpc, isNew, next, got, result>>
crawlTables  == <<videoRows, linked, frameRows>>
crawlOut     == <<told, totals, collected, torn>>
crawlBound   == <<crawlCrashes, crawlFaults>>
crawlVars    == <<crawlHandler, crawlTasks, crawlTables, crawlOut, crawlBound>>

CrawlInit ==
    /\ crawl = "queued" /\ crawls = 0 /\ cstage = "idle"
    /\ progress = [expected |-> 0, done |-> 0, sent |-> FALSE]
    /\ vpc = [s \in Results |-> "off"] /\ isNew = [s \in Results |-> FALSE]
    /\ next = [s \in Results |-> 0] /\ got = [s \in Results |-> {}]
    /\ result = [s \in Results |-> {}]
    /\ videoRows \in SUBSET CrawlVideos     \* an earlier job has been here
    /\ frameRows = UNION {FramesOf(v) : v \in videoRows}
    /\ linked = {}
    /\ told = [s \in Results |-> {}] /\ totals = <<>> /\ collected = 0 /\ torn = FALSE
    /\ crawlCrashes = 0 /\ crawlFaults = 0

CrawlFault ==
    /\ crawlFaults < MaxCrawlFaults
    /\ crawlFaults' = crawlFaults + 1 /\ UNCHANGED crawlCrashes

TakeCrawl ==
    /\ crawl = "queued" /\ crawls < MaxCrawls
    /\ crawl' = "taken" /\ crawls' = crawls + 1 /\ cstage' = "search"
    /\ vpc' = [s \in Results |-> "off"]
    /\ result' = [s \in Results |-> {}] /\ told' = [s \in Results |-> {}]
    /\ UNCHANGED <<progress, isNew, next, got, crawlTables, totals, collected,
                   torn, crawlBound>>

\* The search of all platforms; one that fails adds nothing.  Without a video
\* only the completion is published.
SearchPlatforms(found) ==
    /\ cstage = "search" /\ found \subseteq Results
    /\ IF found = {}
       THEN cstage' = "completed" /\ UNCHANGED <<progress, crawlTasks>>
       ELSE /\ cstage' = "process"
            /\ progress' = [progress EXCEPT !.expected = Cardinality(found)]
            /\ vpc' = [s \in Results |-> IF s \in found THEN "check" ELSE "off"]
            /\ isNew' = [s \in Results |-> FALSE] /\ next' = [s \in Results |-> 0]
            /\ got' = [s \in Results |-> {}] /\ UNCHANGED result
    /\ UNCHANGED <<crawl, crawls, crawlTables, crawlOut, crawlBound>>

-----------------------------------------------------------------------------
\* process_video

\* Mutant: get_existing_video takes every video for a known one.
CheckAssumed(s) ==
    /\ vpc[s] = "check" /\ vpc' = [vpc EXCEPT ![s] = "link"]
    /\ UNCHANGED <<crawlHandler, isNew, next, got, result, crawlTables, crawlOut,
                   crawlBound>>

\* get_existing_video.
CheckVideo(s) ==
    /\ vpc[s] = "check"
    /\ vpc' = [vpc EXCEPT ![s] = IF VideoOf[s] \in videoRows THEN "link" ELSE "insert"]
    /\ UNCHANGED <<crawlHandler, isNew, next, got, result, crawlTables, crawlOut,
                   crawlBound>>

InsertVideo(s) ==
    /\ vpc[s] = "insert"
    /\ videoRows' = videoRows \cup {VideoOf[s]}
    /\ isNew' = [isNew EXCEPT ![s] = TRUE]
    /\ vpc' = [vpc EXCEPT ![s] = "link"]
    /\ UNCHANGED <<crawlHandler, next, got, result, linked, frameRows, crawlOut,
                   crawlBound>>

\* Mutant: a video of an earlier job is not linked to this one.
LinkNewVideo(s) ==
    /\ vpc[s] = "link"
    /\ linked' = IF isNew[s] THEN linked \cup {VideoOf[s]} ELSE linked
    /\ vpc' = [vpc EXCEPT ![s] = IF isNew[s] THEN "extract" ELSE "reuse"]
    /\ UNCHANGED <<crawlHandler, isNew, next, got, result, videoRows, frameRows,
                   crawlOut, crawlBound>>

LinkVideo(s) ==
    /\ vpc[s] = "link"
    /\ linked' = linked \cup {VideoOf[s]}
    /\ vpc' = [vpc EXCEPT ![s] = IF isNew[s] THEN "extract" ELSE "reuse"]
    /\ UNCHANGED <<crawlHandler, isNew, next, got, result, videoRows, frameRows,
                   crawlOut, crawlBound>>

\* database_retry: after a connection error create_video_with_idempotency
\* starts again, and finds the row it has made.
RetryVideo(s) ==
    /\ vpc[s] \in {"insert", "link"}
    /\ vpc' = [vpc EXCEPT ![s] = "check"] /\ isNew' = [isNew EXCEPT ![s] = FALSE]
    /\ CrawlFault
    /\ UNCHANGED <<crawlHandler, next, got, result, crawlTables, crawlOut>>

\* A read fails and answers that nothing is there: get_existing_video, when the
\* connection is not valid, and get_existing_frames.  A known video is made and
\* extracted again.
ReadFails(s) ==
    /\ \/ vpc[s] = "check" /\ vpc' = [vpc EXCEPT ![s] = "insert"]
       \/ vpc[s] = "reuse" /\ vpc' = [vpc EXCEPT ![s] = "extract"]
    /\ CrawlFault
    /\ UNCHANGED <<crawlHandler, isNew, next, got, result, crawlTables, crawlOut>>

\* Any frame the video has counts as all of them.
ReuseFrames(s) ==
    LET there == frameRows \cap FramesOf(VideoOf[s]) IN
    /\ vpc[s] = "reuse"
    /\ got' = [got EXCEPT ![s] = there]
    /\ vpc' = [vpc EXCEPT ![s] = IF there = {} THEN "extract" ELSE "emit"]
    /\ UNCHANGED <<crawlHandler, isNew, next, result, crawlTables, crawlOut, crawlBound>>

\* The extractor brings all keyframes or none (a file it cannot use, an
\* extraction that failed for a TikTok video).  A TikTok result always has a
\* local_path: download_videos_batch returns no other (TiktokDownload).
ExtractKeyframes(s) ==
    /\ vpc[s] = "extract"
    /\ \/ vpc' = [vpc EXCEPT ![s] = "frame"]
       \/ vpc' = [vpc EXCEPT ![s] = "emit"]
    /\ UNCHANGED <<crawlHandler, isNew, next, got, result, crawlTables, crawlOut,
                   crawlBound>>

\* create_frame_with_idempotency: the frame is new or there already.
SaveFrame(s) ==
    LET f == <<VideoOf[s], next[s] + 1>> IN
    /\ vpc[s] = "frame" /\ next[s] < KeyframesOf[VideoOf[s]]
    /\ frameRows' = frameRows \cup {f}
    /\ got' = [got EXCEPT ![s] = @ \cup {f}] /\ next' = [next EXCEPT ![s] = @ + 1]
    /\ vpc' = [vpc EXCEPT ![s] = IF next'[s] = KeyframesOf[VideoOf[s]] THEN "emit" ELSE "frame"]
    /\ UNCHANGED <<crawlHandler, isNew, result, videoRows, linked, crawlOut, crawlBound>>

\* An error that is no foreign key violation, or one of these for 20 seconds:
\* the frame is left out.
SkipFrame(s) ==
    /\ vpc[s] = "frame" /\ next[s] < KeyframesOf[VideoOf[s]]
    /\ next' = [next EXCEPT ![s] = @ + 1]
    /\ vpc' = [vpc EXCEPT ![s] = IF next'[s] = KeyframesOf[VideoOf[s]] THEN "emit" ELSE "frame"]
    /\ CrawlFault
    /\ UNCHANGED <<crawlHandler, isNew, got, result, crawlTables, crawlOut>>

\* videos.keyframes.ready, unless there is no frame.
AnnounceVideo(s) ==
    /\ vpc[s] = "emit"
    /\ told' = [told EXCEPT ![s] = got[s]]
    /\ torn' = (torn \/ got[s] \notin {{}, FramesOf(VideoOf[s])})
    /\ vpc' = [vpc EXCEPT ![s] = "progress"]
    /\ UNCHANGED <<crawlHandler, isNew, next, got, result, crawlTables, totals,
                   collected, crawlBound>>

\* _update_progress: the last video publishes video.crawling.completed, to
\* which nobody listens, once in the life of the process.
CountVideo(s) ==
    LET done == progress.done + 1
        last == done >= progress.expected /\ ~progress.sent
    IN /\ vpc[s] = "progress"
       /\ progress' = [progress EXCEPT !.done = done, !.sent = @ \/ last]
       /\ vpc' = [vpc EXCEPT ![s] = IF last THEN "crawled" ELSE "return"]
       /\ UNCHANGED <<crawl, crawls, cstage, isNew, next, got, result, crawlTables,
                      crawlOut, crawlBound>>

PublishCrawled(s) ==
    /\ vpc[s] = "crawled" /\ vpc' = [vpc EXCEPT ![s] = "return"]
    /\ UNCHANGED <<crawlHandler, isNew, next, got, result, crawlTables, crawlOut,
                   crawlBound>>

\* Mutant: process_video returns only the frames of a new video.
ReturnNewVideo(s) ==
    /\ vpc[s] = "return" /\ vpc' = [vpc EXCEPT ![s] = "done"]
    /\ result' = [result EXCEPT ![s] = IF isNew[s] THEN got[s] ELSE {}]
    /\ UNCHANGED <<crawlHandler, isNew, next, got, crawlTables, crawlOut, crawlBound>>

ReturnVideo(s) ==
    /\ vpc[s] = "return" /\ vpc' = [vpc EXCEPT ![s] = "done"]
    /\ result' = [result EXCEPT ![s] = got[s]]
    /\ UNCHANGED <<crawlHandler, isNew, next, got, crawlTables, crawlOut, crawlBound>>

\* A statement, the extractor or a publish raises: the result is a video
\* without an id and without frames, also when they are announced already.
FailVideo(s) ==
    /\ vpc[s] \in {"check", "insert", "link", "extract", "emit", "crawled"}
    /\ vpc' = [vpc EXCEPT ![s] = "done"]
    /\ CrawlFault
    /\ UNCHANGED <<crawlHandler, isNew, next, got, result, crawlTables, crawlOut>>

-----------------------------------------------------------------------------
\* Completion

\* The frames of each result, those that two results share as often as that.
PerResult(frames) == UNION {{s} \X frames[s] : s \in Results}

CrawlTotal == Cardinality(PerResult(result))

\* The gather is over, and run_auto_cleanup, which raises nothing (Youtube-
\* Download models it).
GatherVideos ==
    /\ cstage = "process" /\ \A s \in Results : vpc[s] \in {"off", "done"}
    /\ cstage' = IF \E s \in Results : result[s] # {} THEN "batch" ELSE "completed"
    /\ UNCHANGED <<crawl, crawls, progress, crawlTasks, crawlTables, crawlOut, crawlBound>>

PublishFrameTotal ==
    /\ cstage = "batch" /\ cstage' = "completed"
    /\ totals' = Append(totals, CrawlTotal)
    /\ UNCHANGED <<crawl, crawls, progress, crawlTasks, crawlTables, told, collected,
                   torn, crawlBound>>

PublishVideosCollected ==
    /\ cstage = "completed" /\ cstage' = "ack"
    /\ collected' = collected + 1
    /\ UNCHANGED <<crawl, crawls, progress, crawlTasks, crawlTables, told, totals,
                   torn, crawlBound>>

AckCrawl ==
    /\ cstage = "ack" /\ cstage' = "idle" /\ crawl' = "done"
    /\ UNCHANGED <<crawls, progress, crawlTasks, crawlTables, crawlOut, crawlBound>>

\* VideoCrawlerError: the broker sends the request again.
RaiseCrawl ==
    /\ cstage \in {"batch", "completed"}
    /\ cstage' = "idle" /\ crawl' = "queued"
    /\ CrawlFault
    /\ UNCHANGED <<crawls, progress, crawlTasks, crawlTables, crawlOut>>

CrawlCrash ==
    /\ crawlCrashes < MaxCrawlCrashes /\ crawlCrashes' = crawlCrashes + 1
    /\ crawl = "taken" /\ crawl' = "queued" /\ cstage' = "idle"
    /\ progress' = [expected |-> 0, done |-> 0, sent |-> FALSE]
    /\ vpc' = [s \in Results |-> "off"]
    /\ UNCHANGED <<crawls, isNew, next, got, result, crawlTables, crawlOut, crawlFaults>>

VideoStep(s) ==
    \/ CheckVideo(s) \/ InsertVideo(s) \/ LinkVideo(s) \/ ReuseFrames(s)
    \/ ExtractKeyframes(s) \/ SaveFrame(s) \/ AnnounceVideo(s) \/ CountVideo(s)
    \/ PublishCrawled(s) \/ ReturnVideo(s)

CrawlStep ==
    \/ TakeCrawl \/ \E found \in SUBSET Results : SearchPlatforms(found)
    \/ GatherVideos \/ PublishFrameTotal \/ PublishVideosCollected \/ AckCrawl

CrawlWork == CrawlStep \/ \E s \in Results : VideoStep(s)

CrawlNext ==
    \/ CrawlWork \/ RaiseCrawl \/ CrawlCrash
    \/ \E s \in Results : RetryVideo(s) \/ ReadFails(s) \/ SkipFrame(s) \/ FailVideo(s)

CrawlSpec == CrawlInit /\ [][CrawlNext]_crawlVars

-----------------------------------------------------------------------------
\* Properties

CrawlTypeOK ==
    /\ crawl \in {"queued", "taken", "done"} /\ crawls \in 0..MaxCrawls
    /\ cstage \in {"idle", "search", "process", "batch", "completed", "ack"}
    /\ progress \in [expected : Nat, done : Nat, sent : BOOLEAN]
    /\ vpc \in [Results -> {"off", "check", "insert", "link", "reuse", "extract", "frame",
                            "emit", "progress", "crawled", "return", "done"}]
    /\ isNew \in [Results -> BOOLEAN] /\ next \in [Results -> Nat]
    /\ got \in [Results -> SUBSET AllFrames] /\ result \in [Results -> SUBSET AllFrames]
    /\ told \in [Results -> SUBSET AllFrames]
    /\ videoRows \subseteq CrawlVideos /\ linked \subseteq videoRows
    /\ frameRows \subseteq AllFrames
    /\ crawlCrashes \in 0..MaxCrawlCrashes /\ crawlFaults \in 0..MaxCrawlFaults

\* An announced frame has its row, and its video is one main-api counts for
\* this job: otherwise the job would not wait for its features.
FramesLinked ==
    \A s \in Results : told[s] # {} => told[s] \subseteq frameRows /\ VideoOf[s] \in linked

Named(s) == vpc[s] # "off"

\* A message brings all keyframes of its video.  A part of them is announced
\* only after a fault or a restart in the middle of a video, or when the
\* request names the video twice: the second result then takes the frames the
\* first has stored so far for all there are.
WholeVideos ==
    torn => \/ crawlFaults + crawlCrashes > 0
            \/ \E s, t \in Results : s # t /\ VideoOf[s] = VideoOf[t] /\ Named(s) /\ Named(t)

\* The total the segmentor waits for counts the frames announced in this
\* delivery, repeated ones again.  It is never more, or the segmentor would
\* wait for ever; it is less only when a video fails after its announcement.
FrameTotalHonest ==
    cstage = "completed" /\ (\E s \in Results : result[s] # {}) =>
        /\ totals[Len(totals)] <= Cardinality(PerResult(told))
        /\ crawlFaults = 0 => totals[Len(totals)] = Cardinality(PerResult(told))

\* What the segmentor is told of a video: frames that are stored and counted
\* for the job, and all of them.
AnnouncedHonest == FramesLinked /\ WholeVideos
=============================================================================
