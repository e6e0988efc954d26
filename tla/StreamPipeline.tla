--------------------------- MODULE StreamPipeline ---------------------------
(***************************************************************************)
(* video-crawler: StreamingVideoPipeline and the ParallelVideoService over *)
(* it, which its tests call and no handler does yet.  Searches put tasks   *)
(* on the download queue, download workers move them to the processing     *)
(* queue, processing workers make the rows, and the pipeline ends when     *)
(* both queues have been joined.                                           *)
(*                                                                         *)
(* VideoFetcher has no fetch_videos, _download_video_file and the          *)
(* extraction are placeholders: what they would bring is a choice here, of *)
(* which the code takes the failing one and the tests' stand-ins the other.*)
(***************************************************************************)
EXTENDS Naturals, Sequences, FiniteSets

CONSTANTS
    Searches,           \* platform searches
    StreamedBy,         \* the videos each would find: [Searches -> Seq(videos)]
    Downloaders, Processors,    \* the workers
    DownloadCap,        \* download_queue_size
    ProcessingCap       \* processing_queue_size

PipeWorkers == Downloaders \cup Processors

PipeVideos == UNION {{StreamedBy[q][n] : n \in DOMAIN StreamedBy[q]} : q \in Searches}

Sentinel == "sentinel"
NoTask == "none"

ASSUME PipelineAssumption ==
    /\ IsFiniteSet(PipeWorkers) /\ Downloaders \cap Processors = {}
    /\ \A q \in Searches : StreamedBy[q] \in Seq(PipeVideos)
    /\ {Sentinel, NoTask} \cap PipeVideos = {}
    /\ DownloadCap \in Nat \ {0} /\ ProcessingCap \in Nat \ {0}

VARIABLES
    pipe,         \* process_videos_streaming: what it is at
    mode,         \* streaming or batch
    searched,     \* videos each search has put; Len + 1 when it is over
    sentinels,    \* sentinels put
    downloads,    \* download_queue
    toDo,         \* its unfinished tasks
    processing, toProcess,
    worker,       \* "run" or "gone"
    holds,        \* the task a worker is at
    existing,     \* video rows
    stats

pipeVars == <<pipe, mode, searched, sentinels, downloads, toDo, processing, toProcess,
              worker, holds, existing, stats>>

PipelineInit ==
    /\ pipe = "idle" /\ mode \in {"streaming", "batch"}
    /\ searched = [q \in Searches |-> 0] /\ sentinels = 0
    /\ downloads = <<>> /\ toDo = 0 /\ processing = <<>> /\ toProcess = 0
    /\ worker = [w \in PipeWorkers |-> "gone"] /\ holds = [w \in PipeWorkers |-> NoTask]
    /\ existing \in SUBSET PipeVideos
    /\ stats = [found |-> 0, downloaded |-> 0, processed |-> 0, skipped |-> 0,
                failed |-> 0, broken |-> 0]

StartPipeline ==
    /\ pipe = "idle" /\ mode = "streaming"
    /\ pipe' = "search" /\ worker' = [w \in PipeWorkers |-> "run"]
    /\ UNCHANGED <<mode, searched, sentinels, downloads, toDo, processing, toProcess,
                   holds, existing, stats>>

\* The batch path: the call of fetch_videos raises before `results` is bound;
\* the handler counts the error and the return statement raises in its turn.
RunBatch ==
    /\ pipe = "idle" /\ mode = "batch"
    /\ pipe' = "raised" /\ stats' = [stats EXCEPT !.broken = @ + 1]
    /\ UNCHANGED <<mode, searched, sentinels, downloads, toDo, processing, toProcess,
                   worker, holds, existing>>

SearchOver(q) == searched[q] > Len(StreamedBy[q])

\* _search_and_stream_results puts its next video, and waits at a full queue.
StreamResult(q) ==
    /\ pipe = "search" /\ searched[q] < Len(StreamedBy[q])
    /\ Len(downloads) < DownloadCap
    /\ searched' = [searched EXCEPT ![q] = @ + 1]
    /\ downloads' = Append(downloads, StreamedBy[q][searched'[q]]) /\ toDo' = toDo + 1
    /\ stats' = [stats EXCEPT !.found = @ + 1]
    /\ UNCHANGED <<pipe, mode, sentinels, processing, toProcess, worker, holds, existing>>

\* The search is over, or raises.
EndSearch(q) ==
    /\ pipe = "search" /\ ~SearchOver(q)
    /\ searched' = [searched EXCEPT ![q] = Len(StreamedBy[q]) + 1]
    /\ \/ searched[q] = Len(StreamedBy[q]) /\ UNCHANGED stats
       \/ stats' = [stats EXCEPT !.broken = @ + 1]
    /\ UNCHANGED <<pipe, mode, sentinels, downloads, toDo, processing, toProcess, worker,
                   holds, existing>>

\* One sentinel for each download worker; none for the processing workers.
PutSentinel ==
    /\ pipe \in {"search", "sentinels"} /\ \A q \in Searches : SearchOver(q)
    /\ Len(downloads) < DownloadCap /\ sentinels < Cardinality(Downloaders)
    /\ downloads' = Append(downloads, Sentinel) /\ toDo' = toDo + 1
    /\ sentinels' = sentinels + 1
    /\ pipe' = IF sentinels' = Cardinality(Downloaders) THEN "join" ELSE "sentinels"
    /\ UNCHANGED <<mode, searched, processing, toProcess, worker, holds, existing, stats>>

Joined == pipe = "join" /\ toDo = 0 /\ toProcess = 0

\* After download_queue.join and processing_queue.join, or when the caller is
\* cancelled: stop_pipeline cancels the workers, and what they held is lost.
StopPipeline ==
    /\ pipe \in {"search", "sentinels", "join"}
    /\ pipe' = IF Joined THEN "complete" ELSE "cancelled"
    /\ worker' = [w \in PipeWorkers |-> "gone"]
    /\ UNCHANGED <<mode, searched, sentinels, downloads, toDo, processing, toProcess,
                   holds, existing, stats>>

\* A worker that takes a sentinel leaves, without task_done.
TakeDownload(w) ==
    /\ worker[w] = "run" /\ holds[w] = NoTask /\ downloads # <<>>
    /\ downloads' = Tail(downloads)
    /\ IF Head(downloads) = Sentinel
       THEN worker' = [worker EXCEPT ![w] = "gone"] /\ UNCHANGED holds
       ELSE holds' = [holds EXCEPT ![w] = Head(downloads)] /\ UNCHANGED worker
    /\ UNCHANGED <<pipe, mode, searched, sentinels, toDo, processing, toProcess,
                   existing, stats>>

\* Mutant: a duplicate is skipped without task_done and without a count.
DownloadForgets(w) ==
    /\ worker[w] = "run" /\ holds[w] # NoTask
    /\ holds' = [holds EXCEPT ![w] = NoTask]
    /\ IF holds[w] \in existing
       THEN UNCHANGED <<toDo, stats>>
       ELSE toDo' = toDo - 1 /\ stats' = [stats EXCEPT !.failed = @ + 1]
    /\ UNCHANGED <<pipe, mode, searched, sentinels, downloads, processing, toProcess,
                   worker, existing>>

\* _download_video: a known video is skipped, a download brings no file or one
\* that is queued for processing, with a wait while the queue is full; errors
\* are counted.  A known video is downloaded again if check_video_exists cannot
\* reach the database, or another worker has made the row since.
Download(w) ==
    /\ worker[w] = "run" /\ holds[w] # NoTask
    /\ holds' = [holds EXCEPT ![w] = NoTask] /\ toDo' = toDo - 1
    /\ \/ /\ holds[w] \in existing /\ stats' = [stats EXCEPT !.skipped = @ + 1]
          /\ UNCHANGED <<processing, toProcess>>
       \/ /\ stats' = [stats EXCEPT !.failed = @ + 1]
          /\ UNCHANGED <<processing, toProcess>>
       \/ /\ Len(processing) < ProcessingCap
          /\ stats' = [stats EXCEPT !.downloaded = @ + 1]
          /\ processing' = Append(processing, holds[w]) /\ toProcess' = toProcess + 1
    /\ UNCHANGED <<pipe, mode, searched, sentinels, downloads, worker, existing>>

TakeProcessing(w) ==
    /\ worker[w] = "run" /\ holds[w] = NoTask /\ processing # <<>>
    /\ processing' = Tail(processing) /\ holds' = [holds EXCEPT ![w] = Head(processing)]
    /\ UNCHANGED <<pipe, mode, searched, sentinels, downloads, toDo, toProcess, worker,
                   existing, stats>>

\* _process_video: a row that is there skips the video, unless the read fails;
\* an error, before or after the row is made, is counted.
ProcessVideo(w) ==
    /\ worker[w] = "run" /\ holds[w] # NoTask
    /\ holds' = [holds EXCEPT ![w] = NoTask] /\ toProcess' = toProcess - 1
    /\ existing' = existing \cup {holds[w]}
    /\ \/ holds[w] \in existing /\ stats' = [stats EXCEPT !.skipped = @ + 1]
       \/ stats' = [stats EXCEPT !.processed = @ + 1]
    /\ UNCHANGED <<pipe, mode, searched, sentinels, downloads, toDo, processing, worker>>

FailProcessing(w) ==
    /\ worker[w] = "run" /\ holds[w] # NoTask
    /\ holds' = [holds EXCEPT ![w] = NoTask] /\ toProcess' = toProcess - 1
    /\ stats' = [stats EXCEPT !.failed = @ + 1]
    /\ existing' \in {existing, existing \cup {holds[w]}}
    /\ UNCHANGED <<pipe, mode, searched, sentinels, downloads, toDo, processing, worker>>

PipelineWork ==
    \/ StartPipeline \/ RunBatch \/ PutSentinel
    \/ \E q \in Searches : StreamResult(q) \/ EndSearch(q)
    \/ \E w \in Downloaders : TakeDownload(w) \/ Download(w)
    \/ \E w \in Processors : TakeProcessing(w) \/ ProcessVideo(w) \/ FailProcessing(w)

PipelineNext == PipelineWork \/ StopPipeline

PipelineSpec == PipelineInit /\ [][PipelineNext]_pipeVars

-----------------------------------------------------------------------------
\* Properties

PipelineTypeOK ==
    /\ pipe \in {"idle", "search", "sentinels", "join", "complete", "cancelled", "raised"}
    /\ downloads \in Seq(PipeVideos \cup {Sentinel}) /\ Len(downloads) <= DownloadCap
    /\ processing \in Seq(PipeVideos) /\ Len(processing) <= ProcessingCap
    /\ toDo \in Nat /\ toProcess \in Nat
    /\ holds \in [PipeWorkers -> PipeVideos \cup {NoTask}]
    /\ existing \subseteq PipeVideos

Held(ws) == Cardinality({w \in ws : holds[w] # NoTask})

\* The places of the download queue that hold a video.
Streamed == {n \in DOMAIN downloads : downloads[n] # Sentinel}

\* The videos that were counted as done with.
Settled == stats.skipped + stats.failed + stats.processed

\* A video that was found is in a queue, with a worker, or counted once as
\* skipped, failed or processed; and a join waits for what is queued or held,
\* and for every sentinel that was put.
StreamAccounted ==
    /\ stats.found = Cardinality(Streamed) + Held(PipeWorkers) + Len(processing) + Settled
    /\ toProcess = Len(processing) + Held(Processors)
    /\ toDo = Cardinality(Streamed) + Held(Downloaders) + sentinels
=============================================================================
