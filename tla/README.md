# Verification of the product-video-matching pipeline

TLA+ models of the services that find products and videos, extract features from
their pictures and frames, match them and build evidence. The modules are written
from the code under `src/`; TLC checks them on small instances and TLAPS proves
the main safety results for every size of instance.

## 1. The system

A job is started over HTTP (`main-api`). Everything after that is events on one
RabbitMQ topic exchange (`product_video_matching`, one durable queue per service
and topic) and rows of one Postgres database. Each service is one asyncio process.
`aio_pika` starts a task for each delivery, up to the prefetch of the queue, and
the message is acknowledged when the handler returns. So inside a service the
tasks interleave at every `await`; between services the events of different topics
arrive in any order; after a restart every unacknowledged message comes again,
and memory is lost.

```
              products.collect.request / videos.search.request
 main-api ------------------------------------------------> dropship-product-finder
   ^  ^   \                                                 video-crawler
   |  |    \ match.request                                       | images / keyframes ready
   |  |     v                                                    v
   |  |   matcher --- match.result, match.request.completed   product-segmentor
   |  |                     |                                    | masked, masked.batch
   |  |                     v                                    v
   |  +-- evidences.   evidence-builder            vision-embedding, vision-keypoint
   |      generation.completed                                   |
   +---- *.collections.completed,  image|video.embeddings|keypoints.completed --+
```

| component | state it keeps | operations | module | status |
|---|---|---|---|---|
| main-api: phase machine (`services/phase/`) | `jobs.phase`, `phase_events`; `processed_events` in memory | handle a completion event: dedup, insert, check the barrier of the phase, write the next phase, publish `match.request` or `job.completed` | `JobPhase`, abstractly `JobLedger` | modelled |
| main-api: start, cancel, delete (`services/job/`) | `jobs` and every row of the job | `start_job`, `cancel_job`, `delete_job` | `JobPhase` | modelled |
| dropship-product-finder: collection | `products`, `product_images`; `_collections_emitted` in memory | search, store each product in one transaction, announce, count, complete | `ProductCollect` in `AssetFlow` | modelled |
| dropship-product-finder: eBay search | the token in Redis | search each marketplace, details, retries, token refresh, deduplicate | `EbaySearch` | modelled |
| product-segmentor: handlers | counts, batch totals, completions sent, the watermark timer: all in memory; mask columns | handle ready assets and batches, count, recheck, expire, publish masked assets and batches | `Segmentor` in `AssetFlow` | modelled |
| product-segmentor: masks | files in three folders, the cached weights | segment, save, read back, subtract, move | `MaskMaking` | modelled |
| video-crawler: request | `videos`, `job_videos`, `video_frames`; progress in memory | search the platforms, process each video, announce frames and total | `VideoCrawl` | modelled |
| video-crawler: platform searches | - | queries, retries, filters, deduplication | `VideoSearch` | modelled |
| video-crawler: downloads | files; the shared HTTP client | a batch over TikTok's two strategies, yt-dlp with retries and clean-up | `TiktokDownload`, `YoutubeDownload` | modelled, HTTP and yt-dlp external |
| video-crawler: keyframes | the frame directory | choose the extractor, choose timestamps, write, fall back, retry | `Keyframes` | modelled, decoders external |
| video-crawler: streaming pipeline | two bounded queues, workers, statistics | search into the queue, download, process, sentinels, join, stop | `StreamPipeline` | modelled |
| vision-common, vision-embedding, vision-keypoint | counts, totals, assets seen, completions sent: all in memory; feature columns | handle a masked asset (or frames), handle a masked batch | `VisionProgress`, timers in `Segmentor` | modelled |
| matcher | `matches`; `jobs.phase` | handle `match.request`: scan pairs, insert, publish results and completion, write the phase, record | `MatchEvidence`, phase in `JobPhase` | partly (scores are data) |
| evidence-builder | `matches.evidence_path`, `processed_events` | handle `match.result`, handle `match.request.completed` | `MatchEvidence` | modelled |
| common-py messaging | queues, deliveries | publish, subscribe, handle, retry, dead letter, acknowledge | `Broker`, abstractly `EventDelivery` | modelled |
| database migrations | the revision | upgrade and downgrade with connection retries, prerequisites, dry run, verdict | `Migrations` | modelled |
| common-py CRUD | tables, keys | statements | inside the actions that run them | partly |
| contracts, read endpoints, front-end | none of the pipeline | validation, queries, display | - | not modelled |

What makes these parts hard, and what correctness means for each:

* **Phase machine.** Two tasks read the phase, await, and write it without a
  condition; the cancel and delete calls and the matcher write the same row.
  Right means: no matching before both collections and all required features; no
  completion without evidence; no event worked on or paid for twice; a cancelled
  job stays cancelled; evidence completes the job in whatever phase it finds it.
* **Matcher and evidence builder.** Rows are inserted one by one while ten workers
  write evidence, count and announce. Right means: no pair recorded without its
  evidence, no completion on nothing, none after it is recorded, every match
  gets evidence, and the last worker announces the end.
* **Vision services.** The batch total and the assets arrive in any order on two
  queues; the count is in memory and is reset to a huge expected value by the
  code that creates entries. Right means: what a completion says is true, it is
  published once, the count is exact, and it is published when enough is done.
* **Collector and segmentor.** They agree on the number of images through a count
  that runs beside the messages it counts, in transactions that abort, and the
  segmentor publishes its masked batch by progress, recheck, a total of zero or a
  timer shared by two kinds. Right means: what is announced has a row, the total
  counts what is sent, the masked batch comes once, tells the truth, and comes.
* **Crawler.** Check-then-insert of videos and frames under retries and
  redelivery; downloads in threads that share a client and a path; a clean-up
  beside downloads; frames named by rounded times in a directory that is made and
  removed by fallbacks; queues joined with sentinels in them. Right means: what is
  announced is stored, linked, whole and counted; a file that is returned is there.
* **Broker, migrations, eBay, masks.** Retries that fan out to every queue of the
  topic; a verdict read over a connection that may be down; limits before or
  after a sort; files written beside their place. Right means: no event
  vanishes before it is given up, retries are bounded, a reported success holds,
  the cheapest offers come back, a path in the database is that of a whole mask.

`PROJECT.json` lists the hazards one by one, at the line where each bites.

## 2. The modules

### JobPhase (`MCJobPhase`, `JobPhaseProofs`)

One job as main-api sees it. The variables are the database (`phase`, `deleted`,
`stored` for `phase_events`, `assets`, `wiped`), the memory of main-api (`cache`),
the handler tasks (`pc`, `ev`, and what each has read: `seen`, `need`), the HTTP
calls, the broker (`queue`) and what the other services have published.

| action | code |
|---|---|
| `StartJob`, `StartJobFails` | `JobInitializer.initialize_job` |
| `Deliver`, `Ack`, `Requeue` | the broker and `MessageHandler` |
| `Ingest`, `Store` | `PhaseEventService.handle_phase_event`, `store_phase_event` |
| `Check` with `Branch` | `PhaseTransitionManager.check_phase_transitions` |
| `Collect`, `ToFeatures` | `_process_collection_phase` |
| `Assets`, `Features`, `ToMatching`, `Request` | `_process_feature_extraction_phase`, also the one of phase matching |
| `ToEvidence`, `ToCompleted`, `Announce` | the matching and evidence branches, `publish_job_completed` |
| `Cross`, `ViaEvidence` | `_handle_cross_phase_evidence_completion` |
| `Cancel`, `Mark`, `Delete`, `WipeRows`, `WipeEvents`, `MarkDeleted` | `JobManagementService`, `delete_job_data` |
| `MatcherTake`, `MatcherSend`, `MatcherMark` | the matcher as far as it touches the phase |
| `CollectorReports`, `VisionReports`, `EvidenceReports` | the producers, as the events they publish |
| `Crash`, `MatcherCrash`, `...Fails` | restarts, and a failure of one statement or publish |

A step is one statement or publish with the code up to the next `await`. Reads of
`phase_events` that follow each other are one step: rows are only added, so only
the last read decides, and a deletion is told apart by `wiped`.

### MatchEvidence (`MCMatchEvidence`, `MatchEvidenceProofs`)

The matcher (`Take`, `Insert`, `PublishResult`, `PublishDone`, `Record`:
`MatcherService.handle_match_request`), the workers of the evidence builder
(`Dedup`, `Update`, `Mark`, `HasPublished`, `CountTotal`, `CountEvidence`,
`PublishCompletion`, `MarkPublished`: `handle_match_result` and
`check_and_publish_completion`) and the closer (`Close`, `CountMatches`:
`handle_match_request_completed`). Which pairs are accepted is any subset.

### VisionProgress (`MCVisionProgress`, `VisionProgressProofs`)

One service (embedding or keypoint, which differ in four lines), one job, one kind
of asset. `Start` is the check and the entry in `processed_assets`, `Save` the
extraction and its UPDATE, `Count` the whole stretch without an `await` from
`update_job_progress` to the decision to publish (with the quirks of the code:
`Refined` for the expected count an entry keeps, and vision-keypoint starting the
expected count over for each asset because it looks under another key), `Batch`
the handler of the batch message, `Settle` the test and the mark of
`publish_completion_event_with_count`. A message is a set of assets: one for
images, the frames of a video for keyframes.

### JobLedger (theorems in `JobPhaseProofs`)

What main-api promises of a job without tasks, caches and phases: a ledger of
events reported, requests made and completions announced. A match request needs
both collections and is booked against an event, one event staying unpaid (the
one that closed the collection asks for nothing); a completion is booked against
an evidence event. `JobPhase` instantiates it (`Ledger == INSTANCE JobLedger WITH
reported <- stored, ...`) and `LedgerKept` says that it implements it: `Store` is
`Report`, `Request` is `AskForMatching`, `Announce` is `Complete`, the deletion is
`Erase`, and every other step changes nothing of it.

### EventDelivery (theorems in `LibraryProofs`)

What `common-py` promises of an event, without copies, counters, prefetch and
acknowledgements: it is owed to every queue of its topic (`Send`) until the consumer
of that queue settles it, by handling or burying it (`Settle`). A failed handler makes it
owed to all once more (`SendAgain`), and a consumer that stops may be owed again what it
had settled (`BringBack`). `Broker` instantiates it (`Promise == INSTANCE EventDelivery WITH sent <-
published, ...`: an event is owed where a copy waits or a delivery is not answered) and
`DeliveryKept` says that it implements it: `PublishEvent` is `Send`, `Republish` is `SendAgain`,
`Complete` and `Bury` are `Settle`, `Halt` is `BringBack`, and deliveries, failures and
acknowledgements change nothing of it. The other modules rely on this promise where they
take a message out of a set and give it back when its consumer dies.

### AssetBus, ProductCollect, Segmentor, AssetFlow (`MCAssetFlow`)

`AssetBus` has the four queues between the collectors and the segmentor as sets:
a message leaves its set when it is taken and returns when its consumer dies.

`ProductCollect` is `handle_products_collect_request` with the tasks it gathers:
`Browse` (a search), `BeginStore`, `StoreImage`, `SkipImage`, `BreakImage`,
`Commit`, `Announce` (`store_product` and its image loop, with PostgreSQL's rule
that a failed statement aborts the transaction and its COMMIT then rolls back
without an error), `Count`, `PublishCollected`, `PublishImagesBatch` (the
completion). `orphans` and `lost` are history: images of rolled back transactions,
and committed images that will not be announced.

`Segmentor` has the four handlers. `TakeImage`, `TakeVideo`, `MaskAsset`, `LoseAsset`,
`EmitMasked`, `AckAssets` are the asset handlers; `TakeImagesBatch`, `TakeVideosBatch`
(with `AnnounceTotal`), `Recheck` and `Mirror` the batch handlers, in the code's
order; `PublishSegmented` and `PublishMaskedBatch` the two publishes any of them may
make; `Expire` the watermark timer, which looks at the copy `Mirror` has made and
publishes for the kind that was tracked first. `counts`, `mirror`, `tracking`,
`completed` and `batched` are the fields of `JobProgressManager`.

`AssetFlow` composes them over `AssetBus` (theorems in `AssetFlowProofs`). The keyframes of
the job are there at first or the job has none; what brings them is `VideoCrawl`.

### The parts of `MCServices`

Ten parts that share no state with another in the model. `MCServices` extends them all; the
variable `part` is chosen at first and only its part moves, so the run explores
each part from all its initial states. `Places` says once what a filter and a sort make of
a Python list: the place of an element in the result is the number of those before it
(`Arranged`, `InPlace`, `Kept`); the searches, eBay's deduplication and the keyframes use
it. The theorems are in `VideoCrawlerProofs` (crawl, pipeline, downloads),
`PlacesProofs` (searches, eBay, keyframes), `LibraryProofs` (broker, migrations) and
`ServicesProofs` (masks, the composition, and that the parts end).

| module | what it models | actions and code |
|---|---|---|
| `VideoCrawl` | one crawl request over rows that outlive jobs | `SearchPlatforms`, `CheckVideo`, `InsertVideo`, `LinkVideo` (`create_video_with_idempotency`), `ReuseFrames`, `ExtractKeyframes`, `SaveFrame` (`process_video`), `AnnounceVideo`, `CountVideo`, `PublishFrameTotal`, `PublishVideosCollected`; `RetryVideo` is the database retry, `ReadFails` a failed read that answers nothing is there, `FailVideo`, `RaiseCrawl`, `CrawlCrash` the other failures |
| `VideoSearch` | the searches of both platforms | `PrepareQueries`, `TiktokAnswers`, `TiktokRetries`, `TiktokGivesUp`, `YoutubeAnswers`, `YoutubeFails`, `DedupeVideos` (`UniqueVideos`: by id, then by title) |
| `StreamPipeline` | the streaming pipeline and its batch fallback | `StreamResult`, `PutSentinel`, `TakeDownload`, `Download` (which waits while the processing queue is full), `TakeProcessing`, `ProcessVideo`, `FailProcessing`, `StopPipeline` |
| `TiktokDownload` | concurrent batches of one downloader | `StartBatch`, `EndBatch` (the storage path that is swapped), `LookForClient`, `MakeClient`, `TakeClient` (the property `client`, a check and an assignment between threads), `PostRequest`, `ServerAnswers`, `CloseClient` (the shared client), `HeadRequest`, `OpenFile`, `WriteFile` |
| `YoutubeDownload` | the downloads of one directory, several of a title | `CheckExisting` and `ProcessFile` (with `Glob`: which titles a pattern matches is `GlobMatches`), `NoDirectory`, `YtdlpWrites`, `YtdlpFinishes`, `YtdlpFails` (yt-dlp: the part file, its renaming, `Rename`), `EmptyFile` (a removal that may fail), `RetryOrFail`, `CleanUp`, `Restart` |
| `Keyframes` | the extraction of one video | `Route`, `ChooseMarks` (with `SceneMarks`, `PyAVMarks`: the arithmetic of timestamps in milliseconds), `SaveFrameFile`, `SkipMark`, `FinishFrames`, `RemoveFolder` (an `rmtree` that may fail), `RetryFrames`, `ExtractAgain` |
| `Broker` | a topic, its queues and their consumers | `PublishEvent`, `Deliver`, `Complete`, `Raise`, `Republish`, `Bury`, `Ack`, `Halt` |
| `Migrations` | runners on one database | `Run`, `Knock` (no connection), `Answer`, `Compare`, `Begin`, `Command`, `Judge` |
| `EbaySearch` | one product search over marketplaces | `HaveToken`, `NoToken`, `Answered`, `Refused`, `Unavailable`, `Unauthorized`, `Collected`, with `Deduplicate` |
| `MaskMaking` | deliveries of one image | `LoadModel`, `SegmentForeground`, `WriteTemp`, `MoveTemp`, `ReadForeground`, `SegmentPeople`, `Subtract`, `Stop` |

### Abstractions

* Messages without ids or that fail the schema are left out; so are log lines,
  audit rows that nothing reads, and the contents of texts, vectors and pictures.
* `Delete` merges the two reads of `delete_job` (`get_job`, `is_job_active`);
  `WipeRows` merges the DELETE statements of the row tables, which no handler
  tells apart.
* A call that fails ends (`CallFails`), but `delete_job` takes a phase it cannot read for
  that of an idle job and deletes its rows (`database_handler.py:192-203`).
* `record_event` names a conflict target that migration 009 removed, so the
  statement fails; the request then goes to the dead letters and is acknowledged,
  which for this model is what the success would be.
* A `ValueError` in a handler leaves its message unacknowledged until the
  connection drops (`messaging_handler.py:62`): `Broker` has that state (`stuck`), no
  handler of the other modules is left in it.
* In `JobPhase`, `MatchEvidence`, `VisionProgress`, `ProductCollect` and `Segmentor` a
  failed handler is given its message again without the copies that a retry through
  the topic makes for other consumers; `Broker` has these.
* Match requests past `MaxRequests` stay in the queue of the matcher.
* The batch total of `VisionProgress` may disagree with the masked messages,
  because the segmentor may announce fewer than it sends. Vision events may come
  for a kind without assets (a batch of zero).
* The threshold is compared in integers, `done * 100 >= expected * percentage`;
  the code multiplies floats.
* After a repeated match request each pair has several rows; a pair already
  recorded is skipped, so its newer row may stay without evidence and the
  completion may never be announced. The liveness properties therefore ask for
  evidence of the pair, and for the completion of a single request.
* Servers, yt-dlp, decoders, scene detection, segmentation models, Redis, PostgreSQL,
  RabbitMQ and Alembic are external: what they answer is a choice, and
  of PostgreSQL the rules the code runs into (keys, aborted transactions).
* The files of a YouTube title are the part file and the whole one, and its pattern
  matches both or neither: a title with a bracket in it may match neither of its own.
* A TikTok result always has a `local_path`, because a batch returns no other, so the
  path of `video_processor.py:164-226` for one without is folded into `ExtractKeyframes`.
* eBay gives each item its `itemId`; without one `ebay_api_client.py:29` would raise and
  drop the marketplace. The migrations' names begin with numbers, so their head is known
  and the weaker test of `migration_executor.py:299-302` has no case.
* Names, prices and times are small numbers; `NoValue` stands for a missing id or
  title, `NoQuery` for one that is empty once it is stripped.
* `VideoFetcher` has no `fetch_videos` and the download of the pipeline is a
  placeholder: `StreamPipeline` lets them bring what the tests' stand-ins bring, or
  nothing as the code does.

## 3. What TLC checks

| run | question | bounds |
|---|---|---|
| `phase_race` | barriers and single handling, two tasks interleaved at every await | two handlers, one kind, one redelivery of a message in progress |
| `phase_calls` | does the machine keep its ledger, and a cancelled job stay so, under a call and a failure, or under restarts? | one handler, two ids for an event by redelivery, one call and one fault, or two restarts |
| `phase_live` | does evidence complete the job, does a waiting job leave feature extraction? | two handlers, fair |
| `evidence` | records, completions, sealing; every match gets evidence, the last worker announces | two pairs, two workers and the closer, a restart or a fault, fair |
| `vision` | honest, single and exact counts; the keypoint completion in any order of messages | two assets in every grouping, totals 0 to 2, a restart, or a redelivery and a fault, two asset tasks and the batch task, fair |
| `asset_flow` | rows behind what is announced, totals, one honest masked batch, and that it comes | two products with two and no images, one job with a frame or none, one worker of each kind, one restart or fault of either service, fair |
| `services` | the thirteen properties of the ten parts | below |
| `phase_stuck` (violated) | "transition once all required events are received" | one handler |
| `phase_cancel` (violated) | "ignore events for cancelled jobs": a cancelled job stays so | one handler, one call |
| `evidence_early` (violated) | "only when all matches have evidence" | two pairs |
| `vision_embedding` (violated) | embeddings are announced when all are done | totals 0 to 2, no failures |
| `dead_letters` (violated) | "republished to a queue named `<queue>.dlq`" | two queues, one event |

The instances of `services`: three results of two videos, one known from an
earlier job or not, two deliveries; four lists of queries with answers that share
ids and titles or lack them; two searches, two download workers, one processing
worker, a download queue of two and a processing queue of one; two TikTok batches at
once, the first of two videos; two YouTube titles, the pattern of one matching the
files of the other, two downloads of the one and one of the other, two attempts, a
second process and at most one file at first; six videos for the three codec routes;
one event on two queues with prefetch two, one retry and one consumer crash;
two runners over two revisions with two outages; two marketplaces with
variants of four products, limits 0, 2 and 3; two deliveries of one image and a
restart.

Why the bounds are enough to be telling. The races here are between two tasks (or
a task and a call): a third repeats what the second does. One asset kind already
gives a barrier of two collections and two features. One restart separates "before
and after the record"; `phase_calls` allows two because a redelivered event is
itself redelivered. Two assets with a threshold of 50 percent make
the threshold be reached before the last asset, by either task. A failing
statement is one fault: every later consequence of it is explored. Two queues are
where a retry for one consumer reaches another. For the safety properties that
are proved, the bounds matter no more.

Some runs leave out combinations of mishaps with a state constraint, named in the MC
module: `OneMishap` (a restart is not combined with a failed statement, nor in
`phase_calls` with HTTP calls), `OneAtATime` in `asset_flow` (one disturbance; the
second product, a disturbed collector and a job with videos not all together, and
the collector done before the segmentor is disturbed, since it takes
nothing back from it), in `services` `OneCrawlMishap` (one mishap of a crawl, and then two of the three
results), `FewDownloads` (two YouTube downloads in the first process, one in the next),
`TwoAtOnce` (two of the three TikTok downloads side by side) and `LittleLitter` (a
removal that fails leaves one file). `services` has about 770 thousand states. Liveness under them is sound for what it says: the
properties are about behaviours that are undisturbed or within the constraint, and a
constraint cuts only behaviours with the mishaps it names, but for `asset_flow`,
where it also leaves out two products with videos.

The violated properties are findings: each states a sentence of a document or
comment, and the run gives the schedule. They are (1) feature events stored before the last
collection event are never looked at again; (2) a task that has read the phase
overwrites `cancelled`; (3) evidence is announced complete when the matcher has
inserted only some of its rows; (4) vision-embedding does not look again
when the batch message is last or announces zero, where vision-keypoint does;
(5) a dead letter is published to the exchange under the name of a queue that is declared
but bound to nothing.

Tasks, pairs and assets are model values; `phase_race` takes handlers and ids as
interchangeable, the runs with liveness properties take nothing so.

Deadlock is not checked: in every module the job may come to rest.

**Fairness.** `FairSpec` asks that a delivery that stays possible happens, and that
a task which can go on does: the event loop runs every ready task, and RabbitMQ
delivers while the prefetch has room. `FlowSpec` asks the same of the collector and
the segmentor as a whole (`WF` of `FinderWork` and of `SegmentorWork`: the work is finite, so it
gets done), and that a timer that is armed expires: it is a sleep in a task of its own.
Nothing is asked of users, of main-api asking for a match, of the services
that are only seen by their events, nor of any failure. The liveness properties
are stated up to the first fault or restart where the code has no way back (memory
lost, message acknowledged), and through a restart where it has (`EveryMatchEvidenced`).
`ImagesAnnounced` excepts one schedule the model showed: the batch message of the
videos cancels the timer while it is publishing, with the completion marked as sent.

What properties of `services` do not claim, because the code does not keep it, is in
their statements: frames of a video named twice in a request may be announced in
part (`WholeVideos`); a download may be lost by one beside it closing the shared
client (`LossExplained`); files of two batches at once may be cut or misplaced (`Twice`);
the path of a YouTube download may be of a file that is empty, that a clean-up removes
because yt-dlp dated it by the server's `Last-Modified` or an earlier process left it,
or that another download is writing, of the same title or of one that goes on after a
dot, and then renames (`frail`); a directory of frames stays when its removal fails
(`litter`);
a downgrade is reported as done when the database does not answer (`unread`); with a
sentinel on it, a join never returns (`StreamAccounted` counts them).

## 4. What is proved

TLAPS checks these for every number of tasks, calls, assets, pairs, queues, restarts and
failures. The assumptions are those the modules name: bounds are naturals, tasks of
different roles are different, sets that are counted are finite, a search result
belongs to one search, totals are below the `High` expected count, frames are told
from images, and PySceneDetect returns scenes in order and of 20 ms or more (its
`min_scene_len` is 15 frames). All safety properties that the passing runs check are
proved.

* `JobPhaseProofs`: `TypeCorrect`; `BarrierInvariant`; from it
  `CollectionBarrierHolds`, `FeatureBarrierHolds`, `CompletionBackedHolds`; and
  `NoConcurrentDuplicateHolds`. The barriers are not inductive: they speak of phases and
  requests, while a task on its way to write a phase holds its permission in its
  `pc`. `BarrierInv` therefore says, of every place past a test, what the test has
  established (`CollectedInv`, `ExtractedInv`), that a task past the INSERT has
  its event stored (`StoredInv`), and that collectors store rows before they report
  (`SourceInv`), which is why the row counts read at the barrier are final. What
  may change under all this is settled once in `StepLasts`: stored events and
  requests last but for a deletion.
* `JobPhaseProofs` goes on with `JobLedger`: `RequestPerEventHolds` and `CompletedOncePerEvidenceHolds` from
  `LedgerBalanced`; the refinement `KeepsLedger` (initial states map to initial states,
  each step of `JobPhase` to a step of `JobLedger` or to none); and
  `CancelSealedHolds`, an action property. The argument counts: a task that may still
  ask for matching (`Owing`) has stored an event of its own, so requests and such
  tasks together stay within the stored events, with one event over once the job is
  past collection; completions and tasks that may complete (`Closing`) stay within the
  stored evidence. `FrugalSteps` shows that only five actions touch these books.
* `MatchEvidenceProofs`: `TypeCorrect`; `EvidenceInvariant`; from it
  `EvidenceBehindRecordHolds` and `CompletionBackedHolds`; and `CompletionSealedHolds`, an action
  property. The invariant says that rows come before the messages about them, that a
  worker past the UPDATE has evidence behind it, and that the closer goes on
  only when no pair is accepted: it can have read zero rows only then, because
  `match.request.completed` follows the whole scan.
* `VisionProgressProofs`: `TypeCorrect`; `ProgressInvariant`; from it
  `CompletionHonestHolds`, `OneCompletionHolds` and `CountSettlesHolds`. The count in
  memory is tied to the database by a history variable, `counted`: `CountInv` says that
  it has as many members as the count says, that their rows have results, and that
  workers in the middle of an asset hold different ones, none counted yet (each was
  put into `processed_assets` by the worker that has it, in one stretch with the
  lookup). `SentInv` lets only the task that set the mark publish; `PendingInv`
  says who holds the rows that are not counted yet.
* `AssetFlowProofs`: `FlowTypesHold`, `ReadyBackedHolds`, `TotalCountsReadyHolds`,
  `OneMaskedBatchHolds` and `MaskedHonestHolds`, of the composition. For the collector, `BooksInv` accounts
  for every committed image: announced, lost, or in the buffer of a task that goes on
  announcing. That a commit adds only images nobody has is `AttemptInv`: an image carries
  the delivery and the product, `FoundOnce` shows that a product has one task in a
  delivery, and rows of this delivery belong to tasks past their transaction. At the
  count no task is left, so rows are what was announced or lost. For the segmentor,
  `OnceInv` pays each masked batch with a mark in `batched`: the mark is with
  the one task that will publish, or spent, or wasted by a failure; a restart forgets
  it and allows one more. `MaskedHonestHolds` follows an asset from the collector on:
  an image is announced once (`FreshInv`), so an asset is in one place, on the bus
  or with one worker (`HoldInv`); behind each unit of a count is therefore a
  masked asset that nobody will mask again, or one whose message raised and came
  again (`SettledInv`); and what a task is about to publish, or has published, stays covered
  because masks never become fewer (`ClaimInv`, `SaidInv`).
* `VideoCrawlerProofs`, four modules in turn.
  * The crawl: `AnnouncedHonestHolds` and `FrameTotalHonestHolds`. `RowsInv` says of every
    place of a task which rows are behind it. That a video is announced whole needs more, and
    only while nothing has failed and no two tasks have one video (`Calm`, `Apart`): then the
    frames of a video have rows all or none, but where its one task is among them
    (`WholeInv`). `ResultInv` ties what tasks return to what they announced, and `TotalInv`
    the last total to the results once all tasks are gathered.
  * The pipeline: `StreamAccountedHolds`. `PipelineInv` counts: a video found is in a queue,
    with a worker, or settled in one of the statistics; a sentinel moves none of these.
  * The downloads of TikTok: `DownloadsHonestHolds`. `BatchInv` says that while one batch
    runs the storage path is the job's, so every file is in its place. A loss is explained by
    `LossInv`: with the second strategy nothing is shared (`TikwmInv`); with the first,
    unless two downloads have been busy at once, the one that is busy owns the one open
    client (`QuietInv`).
  * The downloads of YouTube: `LocalFileKeptHolds`. A file is touched in three ways: its
    title's downloads write and rename it, an empty one is removed by whoever finds it, and
    the clean-up removes old ones. So `HeldInv` says of a finished download not in `frail`
    that its file is there, neither empty nor old, and that no other download is at
    work on its title (`SafeFile`); whoever begins one enters its holders in `frail`.
* `PlacesProofs` begins with the lists. `ArrangedInOrder`: when the pairs order the set, by whatever
  key, every element is in the result once, in order; the number of elements before one grows
  along the order (`BeforeGrows`), so these numbers are 0, 1, ... without a gap, and `CHOOSE` finds
  one element each. `KeptInOrder` and `FirstOfKeeps` draw from it what a filter and a
  deduplication keep. No recursion is left, so this holds for lists of every length.
  * `SearchKeepsAllHolds` (`UniqueKeeps`): everything found is returned, or something with its
    id or its title is, and nothing twice. `SearchInv` adds that the deduplication gets all that was found.
  * `CheapestReturnedHolds`: by `DeduplicateCheapest` the answer is the cheapest offer of
    each group, cheapest groups first, up to the limit (`LowestPlaces`: what is after
    the cut is not cheaper); `EbayInv` that nothing listed and readable is lost on the way
    there, through retries and a refreshed token.
  * `NothingLeftBehindHolds` (`FolderInv`) and `FolderMatchesHolds`. The frames of a
    video are named by time in hundredths of a second, so the lemmas are arithmetic: evenly
    spread times (`PyAVTelling`) and times in the middle of scenes (`ScenesTelling`) are inside
    the video and apart enough to have different names. `FramesInv` carries
    `Telling` from the times that are chosen to the frames saved, each with its file.
* `LibraryProofs`:
  * `EventAccountedHolds`: each step of the broker leaves a copy of an event where each
    consumer will find it, or that consumer has handled or buried it (`KeptStep`).
  * `KeepsDelivery`, the refinement: each step of `Broker` is a step of `EventDelivery` or
    of nothing. `TopicOwes`, `DeliverOwes`, `BecomeOwes`, `AckOwes` and `HaltOwes` say of each action
    exactly what a queue is owed after it; that a consumer which stops brings back only
    what it had settled follows from `EventAccounted`, and that only published events
    are owed from `OfPublished`.
  * `RunsBoundedHolds`. A retry publishes to the topic, so one failure gives every
    consumer a copy, and the failures of all consumers feed each other. The invariant
    (`RunsInv`, `InBudget`) is a budget: for each consumer, the calls it made, the copies in
    its queue and the size of `Calls`, a set with `Spare(n)` tokens for each pending
    copy that failed n times, the most its failures may still bring. A republish gives up
    `Spare(n)` tokens for one copy per queue and `Spare(n+1)` tokens for each of these (`FanCount`,
    `RepublishKeeps`); deliveries and answers only move copies (`DeliverCalms`, `AnswerCalms`). The
    limit is defined by recursion over the retries; its values (`RunLimitValues`)
    come from well-foundedness, as the least number at which they would fail.
  * `VerdictHonestHolds`. `LatestInv` and `BaseInv` say what a runner's readings before and
    after still mean while no runner has moved the other way.
* `ServicesProofs`, about the parts of `MCServices` and their composition.
  * `MaskWholeHolds`. `FilesInv` says of every file in the product folder that it is whole and
    the right one, `SavingInv` the same of what a delivery is about to move there, whoever else
    writes; `FitLasts` that a mask that fits goes on to fit.
  * `ServicesTypesHold`, of the composition, whose behaviours are behaviours of each part
    (the lemma `PartsHold`: a part's steps leave the others alone). Types are not inductive where a count is limited by a guard
    elsewhere: attempts stay below their limit only at the places where one may follow
    (`AttemptInv`, `ReelInv`), a marketplace that is indexed exists because the index moves
    only with its test (`EbayInv`), and a copy is of a published event (`OfPublished`).
  * The parts that end. Liveness is out of reach, but that a loop cannot go on for
    ever is safety: a natural number that every step makes smaller. `SearchEnds` and `EbayEnds`
    (retries, and a token refreshed once for a request, `DueInv`), `ReelEnds` (a product of
    what is left of the attempts, the marks and the two extractors; `MarksInv`), `TubeEnds` (the
    steps not yet used by the downloads, counted) and `RunEnds` (a migration run makes
    at most `3 * Tries + 4` steps after its start, and other runners add none). With these numbers a
    fair scheduler brings each part to its end.

Only model-checked, because they are out of the prover's reach: the liveness
properties (`EvidenceCompletes`, `BarrierOpens`, `EveryMatchEvidenced`,
`CompletionAnnounced`, `KeypointsComplete`, `ImagesAnnounced`, all under fairness), and
that the parts above, whose steps are limited, may always take the next one.

## 5. What is left

Not modelled:

* **The front-end, the read endpoints and the static file server** (`main-api/api`,
  `services/results`, `front-end`): they only read rows and files; the pipeline does not
  depend on them, and what they return is formatting of a query.
* **Contracts** (`libs/contracts`): JSON schemas and their validation; a message
  that fails is logged and dropped before any state changes.
* **What the models and codecs compute**: segmentation, embeddings, keypoints, scores,
  decoding, scene detection. Their results are choices in the modules that use them.
* **Metrics, audit rows, logging, configuration and the tooling that syncs
  compose files**: nothing of the pipeline reads what they write.
* **Several jobs in one process.** Each module follows one job (`YoutubeDownload`,
  `TiktokDownload` and `VideoCrawl` several requests); the tables in memory are keyed by
  job id, so jobs meet only at prefetch and semaphores.

Modelled partly: the matcher (the vector search that limits the pairs is data, so which
pairs are accepted is open); video-crawler (bodies of HTTP calls and decoders); the
CRUD layer (only the statements the modelled services run).

What would come next:

1. `EventDelivery` under the consumers: showing that the queues the other modules use
   (`queue`, `batch`, `results`, `dones`, the sets of `AssetBus`) are instances of it.
2. `VideoCrawl` feeding `AssetFlow`, and `AssetFlow` feeding `VisionProgress`, over one
   job; today each side is checked against all that the other may send.
