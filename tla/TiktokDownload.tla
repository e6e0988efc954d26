--------------------------- MODULE TiktokDownload ---------------------------
(***************************************************************************)
(* video-crawler: TikTokDownloader.download_videos_batch over the          *)
(* Scrapling API or over TikWM.                                            *)
(*                                                                         *)
(* A batch points the downloader at its directory and downloads its videos *)
(* in threads, each with an event loop of its own, as many at a time as    *)
(* the semaphore lets.  With the Scrapling API the threads share one       *)
(* TikTokDownloadClient, whose HTTP client belongs to the loop that asked  *)
(* for it last: LoopAwareAsyncClient closes the one of another loop.  A    *)
(* request that names the platform twice runs two batches at once.         *)
(*                                                                         *)
(* The servers and the file system are external.                           *)
(***************************************************************************)
EXTENDS Naturals, FiniteSets

CONSTANTS
    Batches,        \* batches of the request
    ClipsOf,        \* the videos of each
    Parallel,       \* NUM_PARALLEL_DOWNLOADS
    JobDir, DefaultDir      \* download_dir, TIKTOK_VIDEO_STORAGE_PATH

Clips == UNION {ClipsOf[b] : b \in Batches}
Tasks == UNION {{b} \X ClipsOf[b] : b \in Batches}
TikDirs == {JobDir, DefaultDir}
Nobody == <<>>

ASSUME TiktokAssumption ==
    /\ IsFiniteSet(Batches) /\ IsFiniteSet(Tasks) /\ Parallel \in Nat \ {0}
    /\ JobDir # DefaultDir /\ Nobody \notin Tasks

VARIABLES
    strategy,   \* "scrapling" or "tikwm"
    storage,    \* the downloader's video_storage_path
    batch,      \* of each batch: "off", "run" or "over"
    restore,    \* its original_video_path
    task,       \* where each download stands
    into,       \* the directory its file goes to
    file,       \* [directory, video]: none, part or whole
    \* the strategy's client: a TikTokDownloadClient is named by its maker
    shared,     \* _client
    uses,       \* the client a task has taken
    bound,      \* the task whose loop the HTTP client of each belongs to
    open,       \* tasks whose loop has an open HTTP client
    \* history
    refused,    \* downloads a server failed
    crowded     \* some download ran while another did

tikClients == <<shared, uses, bound, open>>
tikFiles   == <<storage, into, file>>
tikHistory == <<refused, crowded>>
tiktokVars == <<strategy, batch, restore, task, tikFiles, tikClients, tikHistory>>

TiktokInit ==
    /\ strategy \in {"scrapling", "tikwm"}
    /\ storage = DefaultDir /\ restore = [b \in Batches |-> DefaultDir]
    /\ batch = [b \in Batches |-> "off"]
    /\ task = [t \in Tasks |-> "off"] /\ into = [t \in Tasks |-> DefaultDir]
    /\ file = [f \in TikDirs \X Clips |-> "none"]
    /\ shared = Nobody /\ uses = [t \in Tasks |-> Nobody]
    /\ bound = [t \in Tasks |-> Nobody] /\ open = {}
    /\ refused = {} /\ crowded = FALSE

FileOf(t) == <<into[t], t[2]>>

Busy(b) == {t \in Tasks : t[1] = b /\ task[t] \notin {"off", "wait", "done", "lost"}}

Go(t, stage) == task' = [task EXCEPT ![t] = stage]

StartBatch(b) ==
    /\ batch[b] = "off" /\ batch' = [batch EXCEPT ![b] = "run"]
    /\ restore' = [restore EXCEPT ![b] = storage] /\ storage' = JobDir
    /\ task' = [t \in Tasks |-> IF t[1] = b THEN "wait" ELSE task[t]]
    /\ UNCHANGED <<strategy, into, file, tikClients, tikHistory>>

\* The semaphore lets the task through and its thread reads the path.
BeginTask(t) ==
    /\ task[t] = "wait" /\ Cardinality(Busy(t[1])) < Parallel
    /\ Go(t, IF strategy = "tikwm" THEN "head" ELSE "client")
    /\ into' = [into EXCEPT ![t] = storage]
    /\ crowded' = (crowded \/ \E b \in Batches : Busy(b) # {})
    /\ UNCHANGED <<strategy, batch, restore, storage, file, tikClients, refused>>

-----------------------------------------------------------------------------
\* Scrapling API

\* The property `client` looks for a client, makes one if there was none, over
\* one that another thread has made since, and returns what is there then.
LookForClient(t) ==
    /\ task[t] = "client" /\ Go(t, IF shared = Nobody THEN "make" ELSE "take")
    /\ UNCHANGED <<strategy, batch, restore, tikFiles, tikClients, tikHistory>>

MakeClient(t) ==
    /\ task[t] = "make" /\ Go(t, "take") /\ shared' = t
    /\ UNCHANGED <<strategy, batch, restore, tikFiles, uses, bound, open, tikHistory>>

\* The except block may remove the file that is there, of whichever batch.
Discard(t) == file' \in {file, [file EXCEPT ![FileOf(t)] = "none"]}

\* None, when another thread has closed it, has no download_video_with_retry.
TakeClient(t) ==
    /\ task[t] = "take" /\ uses' = [uses EXCEPT ![t] = shared]
    /\ IF shared = Nobody THEN Go(t, "close") /\ Discard(t)
       ELSE Go(t, "headless") /\ UNCHANGED file
    /\ UNCHANGED <<strategy, batch, restore, storage, into, shared, bound, open, tikHistory>>

\* get_client, and the request is on its way: a client of another loop is
\* closed and replaced.
PostRequest(t) ==
    LET c == uses[t] IN
    /\ task[t] \in {"headless", "headful"}
    /\ bound' = [bound EXCEPT ![c] = t]
    /\ open' = (open \ {bound[c]}) \cup {t}
    /\ Go(t, IF task[t] = "headless" THEN "asked" ELSE "askedHeadful")
    /\ UNCHANGED <<strategy, batch, restore, tikFiles, shared, uses, tikHistory>>

\* The answer, or the error of a client that was closed meanwhile.  The first
\* attempt may end in an error a headful browser may cure: another status, a
\* network error, one of HEADFUL_RETRY_ERRORS.
ServerAnswers(t) ==
    /\ task[t] \in {"asked", "askedHeadful"}
    /\ \/ t \in open /\ Go(t, "stream") /\ UNCHANGED refused
       \/ task[t] = "asked" /\ Go(t, "headful") /\ UNCHANGED refused
       \/ task[t] = "askedHeadful" /\ t \notin open /\ Go(t, "close") /\ UNCHANGED refused
       \/ Go(t, "close") /\ refused' = refused \cup {t}
    /\ UNCHANGED file \/ (task'[t] = "close" /\ Discard(t))
    /\ UNCHANGED <<strategy, batch, restore, storage, into, tikClients, crowded>>

\* The finally block: the shared client is closed, whoever uses it.
CloseClient(t) ==
    /\ task[t] \in {"close", "closeKept"}
    /\ Go(t, IF task[t] = "closeKept" THEN "done" ELSE "lost")
    /\ IF shared = Nobody
       THEN UNCHANGED <<shared, bound, open>>
       ELSE /\ open' = open \ {bound[shared]}
            /\ bound' = [bound EXCEPT ![shared] = Nobody]
            /\ shared' = Nobody
    /\ UNCHANGED <<strategy, batch, restore, tikFiles, uses, tikHistory>>

-----------------------------------------------------------------------------
\* TikWM: each request has its own client, and no error is retried, since all
\* of them become ValueErrors.

HeadRequest(t) ==
    /\ task[t] = "head"
    /\ \/ Go(t, "stream") /\ UNCHANGED refused
       \/ Go(t, "lost") /\ refused' = refused \cup {t}
    /\ UNCHANGED <<strategy, batch, restore, tikFiles, tikClients, crowded>>

-----------------------------------------------------------------------------
\* _stream_video_file

\* The file is opened for writing, which empties one that is there, unless
\* the server has refused already.
OpenFile(t) ==
    /\ task[t] = "stream"
    /\ \/ Go(t, "write") /\ file' = [file EXCEPT ![FileOf(t)] = "part"] /\ UNCHANGED refused
       \/ /\ Go(t, IF strategy = "tikwm" THEN "lost" ELSE "close")
          /\ refused' = refused \cup {t} /\ UNCHANGED file
    /\ UNCHANGED <<strategy, batch, restore, storage, into, tikClients, crowded>>

SameFile(t) == {u \in Tasks \ {t} : task[u] = "write" /\ FileOf(u) = FileOf(t)}

\* Mutant: a stream that breaks off counts as a download.
KeepPart(t) ==
    /\ task[t] = "write"
    /\ Go(t, IF strategy = "tikwm" THEN "done" ELSE "closeKept")
    /\ \/ file' = [file EXCEPT ![FileOf(t)] = "whole"] /\ UNCHANGED refused
       \/ refused' = refused \cup {t} /\ UNCHANGED file
    /\ UNCHANGED <<strategy, batch, restore, storage, into, tikClients, crowded>>

\* The stream ends, and the size is checked; or it breaks off, which TikWM
\* cleans up and the Scrapling strategy does not.  A file that is empty or too
\* large is removed.
WriteFile(t) ==
    /\ task[t] = "write"
    /\ \/ /\ Go(t, IF strategy = "tikwm" THEN "done" ELSE "closeKept")
          /\ file' = [file EXCEPT ![FileOf(t)] = IF SameFile(t) = {} THEN "whole" ELSE "part"]
          /\ UNCHANGED refused
       \/ /\ Go(t, IF strategy = "tikwm" THEN "lost" ELSE "close")
          /\ refused' = refused \cup {t}
          /\ \/ strategy = "scrapling" /\ UNCHANGED file
             \/ file' = [file EXCEPT ![FileOf(t)] = "none"]
    /\ UNCHANGED <<strategy, batch, restore, storage, into, tikClients, crowded>>

\* The gather is over and the path is put back.
EndBatch(b) ==
    /\ batch[b] = "run" /\ \A t \in Tasks : t[1] = b => task[t] \in {"done", "lost"}
    /\ batch' = [batch EXCEPT ![b] = "over"] /\ storage' = restore[b]
    /\ UNCHANGED <<strategy, restore, task, into, file, tikClients, tikHistory>>

TiktokNext ==
    \/ \E b \in Batches : StartBatch(b) \/ EndBatch(b)
    \/ \E t \in Tasks :
          \/ BeginTask(t) \/ LookForClient(t) \/ MakeClient(t) \/ TakeClient(t)
          \/ PostRequest(t) \/ ServerAnswers(t) \/ CloseClient(t) \/ HeadRequest(t) \/ OpenFile(t) \/ WriteFile(t)

TiktokSpec == TiktokInit /\ [][TiktokNext]_tiktokVars

-----------------------------------------------------------------------------
\* Properties

TiktokTypeOK ==
    /\ storage \in TikDirs /\ into \in [Tasks -> TikDirs]
    /\ batch \in [Batches -> {"off", "run", "over"}] /\ restore \in [Batches -> TikDirs]
    /\ task \in [Tasks -> {"off", "wait", "client", "make", "take", "headless", "asked", "headful",
                           "askedHeadful", "head", "stream", "write", "close", "closeKept",
                           "done", "lost"}]
    /\ file \in [TikDirs \X Clips -> {"none", "part", "whole"}]
    /\ shared \in Tasks \cup {Nobody} /\ uses \in [Tasks -> Tasks \cup {Nobody}]
    /\ bound \in [Tasks -> Tasks \cup {Nobody}] /\ open \subseteq Tasks

Twice == Cardinality({b \in Batches : batch[b] # "off"}) > 1

\* A result of a batch is a whole file in the directory of the job; two
\* batches at once may move, cut or remove each other's files.
ResultsWhole ==
    ~Twice => \A t \in Tasks : task[t] \in {"closeKept", "done"} =>
                                   into[t] = JobDir /\ file[FileOf(t)] = "whole"

\* A video is lost only because a server has failed for it, or because the
\* downloads beside it have closed its client under it; and without downloads
\* side by side no client outlives its download.
LossExplained ==
    \/ crowded /\ strategy = "scrapling"
    \/ /\ \A t \in Tasks : task[t] \in {"close", "lost"} => t \in refused
       /\ \A t \in open : task[t] \notin {"done", "lost"}

\* A batch returns whole files, and loses no video by itself.
DownloadsHonest == ResultsWhole /\ LossExplained
=============================================================================
