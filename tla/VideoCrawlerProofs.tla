------------------------- MODULE VideoCrawlerProofs --------------------------
(***************************************************************************)
(* Parts of video-crawler, for any number of platforms, videos, keyframes, *)
(* workers and batches: what a completion event announces, what the        *)
(* streaming pipeline counts and the files its downloads return.           *)
(*                                                                         *)
(* The four parts share no state, so each has an invariant of its own,     *)
(* stated where its section begins.                                        *)
(***************************************************************************)
EXTENDS VideoCrawl, StreamPipeline, TiktokDownload, YoutubeDownload, FiniteSetTheorems,
        FunctionTheorems, SequenceTheorems, Integers, TLAPS

-----------------------------------------------------------------------------
\* Types, and what each stage of the handler says of its tasks

Rest == {"off", "done"}

\* Where a task works on a video that is linked to the job.
Linked == {"reuse", "extract", "frame", "emit"}

\* Where it has not gone through a keyframe.
Before == {"check", "insert", "link", "reuse", "extract"}

StageInv ==
    /\ cstage # "process" => \A s \in Results : vpc[s] \in Rest
    /\ cstage = "search" => \A s \in Results : vpc[s] = "off" /\ result[s] = {} /\ told[s] = {}
    /\ crawl = "taken" <=> cstage # "idle"

\* Rows come before the message about them.
RowsInv ==
    \A s \in Results :
        /\ got[s] \subseteq frameRows /\ told[s] \subseteq frameRows
        /\ got[s] \subseteq FramesOf(VideoOf[s])
        /\ vpc[s] \in Linked \/ told[s] # {} => VideoOf[s] \in linked
        /\ vpc[s] = "link" => VideoOf[s] \in videoRows
        /\ vpc[s] = "frame" => next[s] < KeyframesOf[VideoOf[s]]
        /\ vpc[s] \in Before => next[s] = 0

CrawlInv == CrawlTypeOK /\ StageInv /\ RowsInv

LEMMA FrameTypes ==
    ASSUME NEW s \in Results
    PROVE  /\ VideoOf[s] \in CrawlVideos /\ KeyframesOf[VideoOf[s]] \in Nat \ {0}
           /\ FramesOf(VideoOf[s]) \subseteq AllFrames
           /\ \A n \in 1..KeyframesOf[VideoOf[s]] :
                 <<VideoOf[s], n>> \in FramesOf(VideoOf[s])
<1>1. VideoOf[s] \in CrawlVideos
    BY DEF CrawlVideos
<1> QED BY <1>1, CrawlAssumption DEF AllFrames, FramesOf

LEMMA CrawlInvInit == CrawlInit => CrawlInv
<1> SUFFICES ASSUME CrawlInit PROVE CrawlInv
    OBVIOUS
<1> USE CrawlAssumption DEF CrawlInit
<1>1. frameRows \subseteq AllFrames
    BY DEF AllFrames
<1>2. CrawlTypeOK
    BY <1>1 DEF CrawlTypeOK
<1>3. StageInv /\ RowsInv
    BY DEF StageInv, RowsInv, Rest, Linked, Before
<1> QED BY <1>2, <1>3 DEF CrawlInv

\* Steps of the handler.
LEMMA HandlerStep ==
    ASSUME CrawlInv, CrawlStep \/ RaiseCrawl \/ CrawlCrash
    PROVE  CrawlInv'
<1> USE CrawlAssumption DEF CrawlInv, StageInv, RowsInv, Rest, Linked, Before
<1>1. CASE TakeCrawl
    BY <1>1 DEF TakeCrawl, CrawlTypeOK, crawlTables, crawlBound, crawlOut
<1>2. ASSUME NEW found \in SUBSET Results, SearchPlatforms(found) PROVE CrawlInv'
  <2>1. IsFiniteSet(found) /\ Cardinality(found) \in Nat
      BY FS_Subset, FS_CardinalityType
  <2>2. CASE found = {}
      BY <1>2, <2>2 DEF SearchPlatforms, CrawlTypeOK, crawlTables, crawlBound, crawlOut, crawlTasks
  <2>3. CASE found # {}
    <3>1. CrawlTypeOK'
      <4>1. progress' \in [expected : Nat, done : Nat, sent : BOOLEAN]
          BY <1>2, <2>1, <2>3 DEF SearchPlatforms, CrawlTypeOK
      <4>2. vpc' \in [Results -> {"check", "off"}]
          BY <1>2, <2>3 DEF SearchPlatforms
      <4>3. isNew' \in [Results -> BOOLEAN]
          BY <1>2, <2>3 DEF SearchPlatforms
      <4>4. next' \in [Results -> Nat] /\ got' \in [Results -> SUBSET AllFrames]
          BY <1>2, <2>3 DEF SearchPlatforms
      <4> QED BY <1>2, <2>3, <4>1, <4>2, <4>3, <4>4
              DEF SearchPlatforms, CrawlTypeOK, crawlTables, crawlBound, crawlOut
    <3>2. StageInv' /\ RowsInv'
        BY <1>2, <2>3 DEF SearchPlatforms, CrawlTypeOK, crawlTables, crawlBound, crawlOut
    <3> QED BY <3>1, <3>2
  <2> QED BY <2>2, <2>3
<1>3. CASE GatherVideos
    BY <1>3 DEF GatherVideos, CrawlTypeOK, crawlTables, crawlBound, crawlOut, crawlTasks
<1>4. CASE PublishFrameTotal \/ PublishVideosCollected
    BY <1>4 DEF PublishFrameTotal, PublishVideosCollected, CrawlTypeOK, crawlTables, crawlBound,
                crawlTasks
<1>5. CASE AckCrawl \/ RaiseCrawl
    BY <1>5 DEF AckCrawl, RaiseCrawl, CrawlTypeOK, crawlTables, crawlBound, crawlOut, crawlTasks,
                CrawlFault
<1>6. CASE CrawlCrash
    BY <1>6 DEF CrawlCrash, CrawlTypeOK, crawlTables, crawlOut
<1> QED BY <1>1, <1>2, <1>3, <1>4, <1>5, <1>6 DEF CrawlStep

TaskStep(s) == VideoStep(s) \/ RetryVideo(s) \/ ReadFails(s) \/ SkipFrame(s) \/ FailVideo(s)

\* Steps of the tasks.
LEMMA TaskKeeps ==
    ASSUME CrawlInv, NEW s \in Results, TaskStep(s)
    PROVE  CrawlInv'
<1> USE CrawlAssumption DEF CrawlInv, crawlHandler, crawlTables, crawlBound, crawlOut, CrawlFault
<1>0. /\ VideoOf[s] \in CrawlVideos /\ KeyframesOf[VideoOf[s]] \in Nat \ {0}
      /\ FramesOf(VideoOf[s]) \subseteq AllFrames
      /\ \A n \in 1..KeyframesOf[VideoOf[s]] : <<VideoOf[s], n>> \in FramesOf(VideoOf[s])
    BY FrameTypes
<1>1. CASE CheckVideo(s) \/ InsertVideo(s) \/ LinkVideo(s)
  <2>1. CrawlTypeOK'
      BY ZenonT(60), <1>0, <1>1 DEF CheckVideo, InsertVideo, LinkVideo, CrawlTypeOK, RowsInv
  <2>2. StageInv'
      BY <1>0, <1>1 DEF CheckVideo, InsertVideo, LinkVideo, CrawlTypeOK, StageInv, Rest
  <2>3. RowsInv'
      BY <1>0, <1>1 DEF CheckVideo, InsertVideo, LinkVideo, CrawlTypeOK, RowsInv, Linked, Before
  <2> QED BY <2>1, <2>2, <2>3
<1>2. CASE RetryVideo(s)
  <2>1. CrawlTypeOK'
      BY <1>0, <1>2 DEF RetryVideo, CrawlTypeOK, RowsInv
  <2>2. StageInv'
      BY <1>0, <1>2 DEF RetryVideo, CrawlTypeOK, StageInv, Rest
  <2>3. RowsInv'
      BY <1>0, <1>2 DEF RetryVideo, CrawlTypeOK, RowsInv, Linked, Before
  <2> QED BY <2>1, <2>2, <2>3
<1>11. CASE ReadFails(s)
  <2>1. CrawlTypeOK'
      BY <1>0, <1>11 DEF ReadFails, CrawlTypeOK, RowsInv
  <2>2. StageInv'
      BY <1>0, <1>11 DEF ReadFails, CrawlTypeOK, StageInv, Rest
  <2>3. RowsInv'
      BY <1>0, <1>11 DEF ReadFails, CrawlTypeOK, RowsInv, Linked, Before
  <2> QED BY <2>1, <2>2, <2>3
<1>3. CASE FailVideo(s)
  <2>1. CrawlTypeOK'
      BY <1>0, <1>3 DEF FailVideo, CrawlTypeOK, RowsInv
  <2>2. StageInv'
      BY <1>0, <1>3 DEF FailVideo, CrawlTypeOK, StageInv, Rest
  <2>3. RowsInv'
      BY <1>0, <1>3 DEF FailVideo, CrawlTypeOK, RowsInv, Linked, Before
  <2> QED BY <2>1, <2>2, <2>3
<1>4. CASE ReuseFrames(s)
  <2>1. CrawlTypeOK'
      BY <1>0, <1>4 DEF ReuseFrames, CrawlTypeOK, RowsInv
  <2>2. StageInv'
      BY <1>0, <1>4 DEF ReuseFrames, CrawlTypeOK, StageInv, Rest
  <2>3. RowsInv'
      BY <1>0, <1>4 DEF ReuseFrames, CrawlTypeOK, RowsInv, Linked, Before
  <2> QED BY <2>1, <2>2, <2>3
<1>5. CASE ExtractKeyframes(s)
  <2>1. CrawlTypeOK'
      BY <1>0, <1>5 DEF ExtractKeyframes, CrawlTypeOK, RowsInv
  <2>2. StageInv'
      BY <1>0, <1>5 DEF ExtractKeyframes, CrawlTypeOK, StageInv, Rest
  <2>3. RowsInv'
      BY <1>0, <1>5 DEF ExtractKeyframes, CrawlTypeOK, RowsInv, Linked, Before
  <2> QED BY <2>1, <2>2, <2>3
<1>6. CASE SaveFrame(s)
  <2>0. next[s] + 1 \in 1..KeyframesOf[VideoOf[s]] /\ next[s] \in Nat
      BY <1>0, <1>6 DEF SaveFrame, RowsInv, CrawlTypeOK
  <2>1. CrawlTypeOK'
      BY <1>0, <1>6, <2>0 DEF SaveFrame, CrawlTypeOK, RowsInv
  <2>2. StageInv'
      BY <1>0, <1>6, <2>0 DEF SaveFrame, CrawlTypeOK, StageInv, Rest
  <2>3. RowsInv'
      BY <1>0, <1>6, <2>0 DEF SaveFrame, CrawlTypeOK, RowsInv, Linked, Before
  <2> QED BY <2>1, <2>2, <2>3
<1>7. CASE SkipFrame(s)
  <2>1. CrawlTypeOK'
      BY <1>0, <1>7 DEF SkipFrame, CrawlTypeOK, RowsInv
  <2>2. StageInv'
      BY <1>0, <1>7 DEF SkipFrame, CrawlTypeOK, StageInv, Rest
  <2>3. RowsInv'
      BY <1>0, <1>7 DEF SkipFrame, CrawlTypeOK, RowsInv, Linked, Before
  <2> QED BY <2>1, <2>2, <2>3
<1>8. CASE AnnounceVideo(s)
  <2>1. CrawlTypeOK'
      BY <1>0, <1>8 DEF AnnounceVideo, CrawlTypeOK, RowsInv
  <2>2. StageInv'
      BY <1>0, <1>8 DEF AnnounceVideo, CrawlTypeOK, StageInv, Rest
  <2>3. RowsInv'
      BY <1>0, <1>8 DEF AnnounceVideo, CrawlTypeOK, RowsInv, Linked, Before
  <2> QED BY <2>1, <2>2, <2>3
<1>9. CASE CountVideo(s) \/ PublishCrawled(s)
  <2>0. progress' \in [expected : Nat, done : Nat, sent : BOOLEAN]
    <3> DEFINE reached == progress.done + 1 >= progress.expected /\ ~progress.sent
    <3>1. CASE PublishCrawled(s)
        BY <3>1 DEF PublishCrawled, CrawlTypeOK
    <3>2. CASE CountVideo(s)
      <4>1. /\ progress \in [expected : Nat, done : Nat, sent : BOOLEAN]
            /\ progress' = [progress EXCEPT !.done = progress.done + 1,
                                           !.sent = progress.sent \/ reached]
          BY <3>2 DEF CountVideo, CrawlTypeOK
      <4>2. (progress.sent \/ reached) \in BOOLEAN /\ progress.done + 1 \in Nat
          BY <4>1
      <4> HIDE DEF reached
      <4> QED BY <4>1, <4>2
    <3> QED BY <1>9, <3>1, <3>2
  <2>1. CrawlTypeOK'
      BY <1>0, <1>9, <2>0 DEF CountVideo, PublishCrawled, CrawlTypeOK, RowsInv
  <2>2. StageInv'
      BY <1>0, <1>9, <2>0 DEF CountVideo, PublishCrawled, CrawlTypeOK, StageInv, Rest
  <2>3. RowsInv'
      BY <1>0, <1>9, <2>0 DEF CountVideo, PublishCrawled, CrawlTypeOK, RowsInv, Linked, Before
  <2> QED BY <2>1, <2>2, <2>3
<1>10. CASE ReturnVideo(s)
  <2>1. CrawlTypeOK'
      BY <1>0, <1>10 DEF ReturnVideo, CrawlTypeOK, RowsInv
  <2>2. StageInv'
      BY <1>0, <1>10 DEF ReturnVideo, CrawlTypeOK, StageInv, Rest
  <2>3. RowsInv'
      BY <1>0, <1>10 DEF ReturnVideo, CrawlTypeOK, RowsInv, Linked, Before
  <2> QED BY <2>1, <2>2, <2>3
<1> QED BY <1>1, <1>2, <1>3, <1>4, <1>5, <1>6, <1>7, <1>8, <1>9, <1>10, <1>11 DEF TaskStep, VideoStep

LEMMA CrawlInvStep == CrawlInv /\ [CrawlNext]_crawlVars => CrawlInv'
<1> SUFFICES ASSUME CrawlInv, [CrawlNext]_crawlVars PROVE CrawlInv'
    OBVIOUS
<1>1. CASE UNCHANGED crawlVars
    BY <1>1 DEF crawlVars, crawlHandler, crawlTasks, crawlTables, crawlOut, crawlBound, CrawlInv,
                CrawlTypeOK, StageInv, RowsInv
<1> QED BY <1>1, HandlerStep, TaskKeeps DEF CrawlNext, CrawlWork, TaskStep

-----------------------------------------------------------------------------
\* Whole videos

Calm == crawlFaults = 0 /\ crawlCrashes = 0

\* No two results under way are of one video.
Apart ==
    \A s, t \in Results : s # t /\ VideoOf[s] = VideoOf[t] => vpc[s] = "off" \/ vpc[t] = "off"

\* The frames of a video are all there or none, but while they are stored.
FramesWhole ==
    \A v \in CrawlVideos :
        \/ frameRows \cap FramesOf(v) \in {{}, FramesOf(v)}
        \/ \E t \in Results : VideoOf[t] = v /\ vpc[t] = "frame"

TaskWhole(s) ==
    /\ vpc[s] \in Before => got[s] = {}
    /\ vpc[s] = "frame" => got[s] = {VideoOf[s]} \X (1..next[s])
    /\ vpc[s] = "emit" => got[s] \in {{}, FramesOf(VideoOf[s])}

WholeInv ==
    /\ Calm /\ crawl = "queued" => \A s \in Results : vpc[s] = "off"
    /\ Calm /\ Apart => ~torn /\ FramesWhole /\ \A s \in Results : TaskWhole(s)

LEMMA WholeInit == CrawlInit => WholeInv
<1> SUFFICES ASSUME CrawlInit PROVE WholeInv
    OBVIOUS
<1>1. ASSUME NEW v \in CrawlVideos
      PROVE  frameRows \cap FramesOf(v) \in {{}, FramesOf(v)}
    BY DEF CrawlInit, FramesOf
<1> QED BY <1>1 DEF CrawlInit, WholeInv, FramesWhole, TaskWhole, Before

LEMMA WholeHandler ==
    ASSUME CrawlInv, WholeInv, CrawlStep
    PROVE  WholeInv'
<1> USE DEF WholeInv, CrawlInv, Calm, Apart
<1>1. CASE TakeCrawl
    BY <1>1 DEF TakeCrawl, crawlBound, crawlTables, FramesWhole, TaskWhole, Before
<1>2. ASSUME NEW found \in SUBSET Results, SearchPlatforms(found) PROVE WholeInv'
  <2>1. \A s \in Results : vpc[s] = "off"
      BY <1>2 DEF SearchPlatforms, StageInv
  <2>2. UNCHANGED <<crawl, crawlTables, crawlOut, crawlBound>> /\ crawl # "queued"
      BY <1>2 DEF SearchPlatforms, StageInv
  <2>3. Calm /\ Apart' => ~torn' /\ FramesWhole'
      BY <2>1, <2>2 DEF crawlTables, crawlOut, crawlBound, FramesWhole
  <2>4. \A s \in Results : TaskWhole(s)'
      BY <1>2, <2>1 DEF SearchPlatforms, TaskWhole, Before, crawlTasks
  <2> QED BY <2>2, <2>3, <2>4 DEF crawlBound
<1>3. CASE GatherVideos \/ PublishFrameTotal \/ PublishVideosCollected \/ AckCrawl
  <2>1. UNCHANGED <<crawlTasks, crawlTables, torn, crawlBound>> /\ crawl' # "queued"
      BY <1>3 DEF GatherVideos, PublishFrameTotal, PublishVideosCollected, AckCrawl, crawlOut,
                  StageInv
  <2> QED BY <2>1 DEF crawlTasks, crawlTables, crawlBound, FramesWhole, TaskWhole
<1> QED BY <1>1, <1>2, <1>3 DEF CrawlStep

\* The one step that stores a frame.
LEMMA WholeSave ==
    ASSUME CrawlInv, NEW s \in Results, SaveFrame(s), FramesWhole, TaskWhole(s)
    PROVE  FramesWhole' /\ TaskWhole(s)'
<1> DEFINE v == VideoOf[s]
           K == KeyframesOf[VideoOf[s]]
<1>1. /\ next[s] \in Nat /\ next[s] < K /\ K \in Nat /\ vpc[s] = "frame"
      /\ next' = [next EXCEPT ![s] = next[s] + 1]
      /\ got' = [got EXCEPT ![s] = got[s] \cup {<<v, next[s] + 1>>}]
      /\ frameRows' = frameRows \cup {<<v, next[s] + 1>>}
      /\ vpc' = [vpc EXCEPT ![s] = IF next[s] + 1 = K THEN "emit" ELSE "frame"]
    BY FrameTypes DEF SaveFrame, CrawlInv, CrawlTypeOK
<1>2. got'[s] = {v} \X (1..(next[s] + 1))
  <2>1. got'[s] = ({v} \X (1..next[s])) \cup {<<v, next[s] + 1>>}
      BY <1>1 DEF TaskWhole, CrawlInv, CrawlTypeOK
  <2>2. 1..(next[s] + 1) = (1..next[s]) \cup {next[s] + 1}
      BY <1>1
  <2> QED BY <2>1, <2>2
<1>3. next'[s] = next[s] + 1 /\ vpc'[s] = IF next[s] + 1 = K THEN "emit" ELSE "frame"
    BY <1>1 DEF CrawlInv, CrawlTypeOK
<1>4. TaskWhole(s)'
    BY <1>2, <1>3 DEF TaskWhole, FramesOf, Before
<1>5. FramesWhole'
  <2> SUFFICES ASSUME NEW w \in CrawlVideos
               PROVE  \/ frameRows' \cap FramesOf(w) \in {{}, FramesOf(w)}
                      \/ \E t \in Results : VideoOf[t] = w /\ vpc'[t] = "frame"
      BY DEF FramesWhole
  <2>1. CASE w = v /\ next[s] + 1 = K
    <3>1. got'[s] = FramesOf(w)
        BY <1>2, <2>1 DEF FramesOf
    <3>2. got'[s] \subseteq frameRows'
        BY <1>1 DEF CrawlInv, RowsInv, CrawlTypeOK
    <3> QED BY <3>1, <3>2
  <2>2. CASE w = v /\ next[s] + 1 # K
      BY <1>3, <2>2
  <2>3. CASE w # v
    <3>1. frameRows' \cap FramesOf(w) = frameRows \cap FramesOf(w)
        BY <1>1, <2>3 DEF FramesOf
    <3>2. ASSUME NEW t \in Results, VideoOf[t] = w PROVE vpc'[t] = vpc[t]
        BY <1>1, <2>3, <3>2 DEF CrawlInv, CrawlTypeOK
    <3> QED BY <3>1, <3>2 DEF FramesWhole
  <2> QED BY <2>1, <2>2, <2>3
<1> QED BY <1>4, <1>5

LEMMA WholeTask ==
    ASSUME CrawlInv, WholeInv, NEW s \in Results, VideoStep(s)
    PROVE  WholeInv'
<1> USE DEF CrawlInv
<1>1. /\ vpc[s] # "off" /\ vpc'[s] # "off"
      /\ \A t \in Results \ {s} : vpc'[t] = vpc[t] /\ got'[t] = got[t] /\ next'[t] = next[t]
      /\ UNCHANGED <<crawl, crawlFaults, crawlCrashes>>
    BY DEF VideoStep, CheckVideo, InsertVideo, LinkVideo, ReuseFrames, ExtractKeyframes,
           SaveFrame, AnnounceVideo, CountVideo, PublishCrawled, ReturnVideo, crawlHandler,
           crawlBound, CrawlTypeOK
<1>2. (Calm /\ Apart)' => Calm /\ Apart
    BY <1>1 DEF Calm, Apart
<1>3. (Calm /\ crawl = "queued")' => FALSE
    BY <1>1 DEF WholeInv, Calm
<1> SUFFICES ASSUME Calm, Apart, ~torn, FramesWhole, \A t \in Results : TaskWhole(t)
             PROVE  ~torn' /\ FramesWhole' /\ TaskWhole(s)'
    BY <1>1, <1>2, <1>3 DEF WholeInv, TaskWhole
<1>4. CASE SaveFrame(s)
    BY <1>4, WholeSave DEF SaveFrame, crawlOut
<1>5. CASE AnnounceVideo(s)
  <2>1. TaskWhole(s)' /\ FramesWhole'
      BY <1>1, <1>5 DEF AnnounceVideo, TaskWhole, FramesWhole, crawlTables, Before, CrawlTypeOK
  <2> QED BY <1>5, <2>1 DEF AnnounceVideo, TaskWhole
<1>6. CASE ReuseFrames(s)
  <2>1. ASSUME NEW t \in Results, VideoOf[t] = VideoOf[s], vpc[t] = "frame" PROVE FALSE
      BY <1>6, <2>1 DEF ReuseFrames, Apart
  <2>2. frameRows \cap FramesOf(VideoOf[s]) \in {{}, FramesOf(VideoOf[s])}
      BY <2>1, FrameTypes DEF FramesWhole
  <2>3. TaskWhole(s)'
      BY <1>6, <2>2 DEF ReuseFrames, TaskWhole, Before, CrawlTypeOK
  <2>4. FramesWhole'
      BY <1>1, <1>6 DEF ReuseFrames, FramesWhole, crawlTables, Before, CrawlTypeOK
  <2> QED BY <1>6, <2>3, <2>4 DEF ReuseFrames, crawlOut
<1>7. CASE CheckVideo(s) \/ InsertVideo(s) \/ LinkVideo(s) \/ ExtractKeyframes(s)
           \/ CountVideo(s) \/ PublishCrawled(s) \/ ReturnVideo(s)
  <2>1. /\ UNCHANGED <<frameRows, torn, got, next>> /\ vpc[s] # "frame"
        /\ vpc'[s] = "frame" => got[s] = {} /\ next[s] = 0
        /\ vpc'[s] \in Before \cup {"emit"} => got[s] = {}
      BY <1>7 DEF CheckVideo, InsertVideo, LinkVideo, ExtractKeyframes, CountVideo,
                  PublishCrawled, ReturnVideo, crawlTables, crawlOut, TaskWhole, Before,
                  CrawlTypeOK, RowsInv
  <2>2. FramesWhole'
      BY <1>1, <2>1 DEF FramesWhole
  <2>3. TaskWhole(s)'
      BY <2>1 DEF TaskWhole, Before
  <2> QED BY <2>1, <2>2, <2>3
<1> QED BY <1>4, <1>5, <1>6, <1>7 DEF VideoStep

LEMMA WholeStep == CrawlInv /\ WholeInv /\ [CrawlNext]_crawlVars => WholeInv'
<1> SUFFICES ASSUME CrawlInv, WholeInv, [CrawlNext]_crawlVars PROVE WholeInv'
    OBVIOUS
<1>1. ASSUME RaiseCrawl \/ CrawlCrash \/ \E s \in Results : RetryVideo(s) \/ ReadFails(s) \/ SkipFrame(s) \/ FailVideo(s)
      PROVE  WholeInv'
  <2>1. ~Calm'
      BY <1>1 DEF RaiseCrawl, CrawlCrash, RetryVideo, ReadFails, SkipFrame, FailVideo, CrawlFault, Calm,
                  CrawlInv, CrawlTypeOK
  <2> QED BY <2>1 DEF WholeInv
<1>2. CASE UNCHANGED crawlVars
    BY <1>2 DEF crawlVars, crawlHandler, crawlTasks, crawlTables, crawlOut, crawlBound, WholeInv,
                Calm, Apart, FramesWhole, TaskWhole
<1> QED BY <1>1, <1>2, WholeHandler, WholeTask DEF CrawlNext, CrawlWork

\* What the segmentor is told of a video is stored and counted for the job; and
\* it is all of the video's frames, unless a fault or a second naming of the
\* video came between, for any results, frames, deliveries and faults.
THEOREM AnnouncedHonestHolds == CrawlSpec => []AnnouncedHonest
<1>1. CrawlSpec => [](CrawlInv /\ WholeInv)
    BY CrawlInvInit, CrawlInvStep, WholeInit, WholeStep, PTL DEF CrawlSpec
<1>2. CrawlInv /\ WholeInv => AnnouncedHonest
  <2> SUFFICES ASSUME CrawlInv, WholeInv PROVE AnnouncedHonest
      OBVIOUS
  <2>1. FramesLinked
      BY DEF FramesLinked, CrawlInv, RowsInv
  <2>2. Calm \/ crawlFaults + crawlCrashes > 0
      BY CrawlAssumption DEF Calm, CrawlInv, CrawlTypeOK
  <2>3. WholeVideos
      BY <2>2 DEF WholeVideos, WholeInv, Apart, Named
  <2> QED BY <2>1, <2>3 DEF AnnouncedHonest
<1> QED BY <1>1, <1>2, PTL

-----------------------------------------------------------------------------
\* The total of the frames

\* Where a task has announced and not yet returned.
Announced == {"progress", "crawled", "return"}

\* A video that failed has announced what it does not return.
ResultInv ==
    \A s \in Results :
        /\ result[s] \subseteq told[s]
        /\ vpc[s] \in Before \cup {"frame", "emit"} => told[s] = {}
        /\ vpc[s] \in Announced => told[s] = got[s] /\ result[s] = {}
        /\ crawlFaults = 0 /\ cstage # "idle" /\ vpc[s] \in Rest => result[s] = told[s]

TotalInv ==
    /\ totals \in Seq(Nat)
    /\ cstage = "completed" /\ (\E s \in Results : result[s] # {}) =>
           totals # <<>> /\ totals[Len(totals)] = CrawlTotal

LEMMA PerResultFinite ==
    ASSUME NEW frames \in [Results -> SUBSET AllFrames]
    PROVE  IsFiniteSet(PerResult(frames)) /\ Cardinality(PerResult(frames)) \in Nat
<1>1. IsFiniteSet(CrawlVideos)
  <2>1. [s \in Results |-> VideoOf[s]] \in Surjection(Results, CrawlVideos)
      BY DEF Surjection, CrawlVideos
  <2> QED BY <2>1, FS_Surjection, CrawlAssumption
<1>2. \A v \in CrawlVideos : IsFiniteSet(FramesOf(v))
  <2> SUFFICES ASSUME NEW v \in CrawlVideos PROVE IsFiniteSet(FramesOf(v))
      OBVIOUS
  <2>1. IsFiniteSet({v})
      BY FS_Singleton
  <2>2. IsFiniteSet(1..KeyframesOf[v])
      BY FS_Interval, CrawlAssumption
  <2> QED BY <2>1, <2>2, FS_Product DEF FramesOf
<1>3. IsFiniteSet(AllFrames)
  <2> DEFINE S == {FramesOf(v) : v \in CrawlVideos}
  <2>1. [v \in CrawlVideos |-> FramesOf(v)] \in Surjection(CrawlVideos, S)
      BY DEF Surjection
  <2>2. IsFiniteSet(S)
      BY <1>1, <2>1, FS_Surjection
  <2>3. \A T \in S : IsFiniteSet(T)
      BY <1>2
  <2> HIDE DEF S
  <2>4. IsFiniteSet(UNION S)
      BY <2>2, <2>3, FS_UNION
  <2> QED BY <2>4 DEF S, AllFrames
<1>4. IsFiniteSet(Results \X AllFrames)
    BY <1>3, FS_Product, CrawlAssumption
<1>5. PerResult(frames) \subseteq Results \X AllFrames
    BY DEF PerResult
<1>6. IsFiniteSet(PerResult(frames))
    BY <1>4, <1>5, FS_Subset
<1> QED BY <1>6, FS_CardinalityType

LEMMA ResultStep == CrawlInv /\ ResultInv /\ [CrawlNext]_crawlVars => ResultInv'
<1> SUFFICES ASSUME CrawlInv, ResultInv, [CrawlNext]_crawlVars PROVE ResultInv'
    OBVIOUS
<1> USE DEF CrawlInv, crawlBound, crawlTables
<1>1. CASE TakeCrawl
    BY <1>1 DEF TakeCrawl, ResultInv, Announced, Before
<1>2. ASSUME NEW found \in SUBSET Results, SearchPlatforms(found) PROVE ResultInv'
    BY <1>2 DEF SearchPlatforms, ResultInv, StageInv, Announced, Before, Rest, crawlOut, crawlTasks
<1>3. CASE GatherVideos \/ PublishFrameTotal \/ PublishVideosCollected \/ AckCrawl
  <2>1. /\ UNCHANGED <<crawlTasks, told, crawlBound>>
        /\ cstage' # "idle" => cstage # "idle"
      BY <1>3 DEF GatherVideos, PublishFrameTotal, PublishVideosCollected, AckCrawl, crawlOut
  <2> QED BY <2>1 DEF ResultInv, crawlTasks
<1>4. CASE RaiseCrawl \/ CrawlCrash
    BY <1>4, CrawlAssumption
       DEF RaiseCrawl, CrawlCrash, ResultInv, CrawlFault, CrawlTypeOK, Announced, Before,
           crawlTasks, crawlOut
<1>5. ASSUME NEW s \in Results, RetryVideo(s) \/ ReadFails(s) \/ SkipFrame(s) \/ FailVideo(s) PROVE ResultInv'
  <2>1. crawlFaults' # 0
      BY <1>5, CrawlAssumption DEF RetryVideo, ReadFails, SkipFrame, FailVideo, CrawlFault, CrawlTypeOK
  <2>2. UNCHANGED <<told, result>>
      BY <1>5 DEF RetryVideo, ReadFails, SkipFrame, FailVideo, crawlOut
  <2>3. /\ \A t \in Results \ {s} : vpc'[t] = vpc[t] /\ got'[t] = got[t]
        /\ vpc[s] \in Before \cup {"frame", "emit"} \/ vpc'[s] = "done"
        /\ vpc'[s] \notin Announced
      BY <1>5 DEF RetryVideo, ReadFails, SkipFrame, FailVideo, Before, Announced, CrawlTypeOK
  <2>4. vpc'[s] \in Before \cup {"frame", "emit"} => vpc[s] \in Before \cup {"frame", "emit"}
      BY <2>3 DEF Before
  <2> QED BY <2>1, <2>2, <2>3, <2>4 DEF ResultInv
<1>6. ASSUME NEW s \in Results, VideoStep(s) PROVE ResultInv'
  <2>1. /\ \A t \in Results \ {s} :
              /\ vpc'[t] = vpc[t] /\ got'[t] = got[t]
              /\ told'[t] = told[t] /\ result'[t] = result[t]
        /\ UNCHANGED <<cstage, crawlFaults>>
      BY <1>6 DEF VideoStep, CheckVideo, InsertVideo, LinkVideo, ReuseFrames, ExtractKeyframes,
             SaveFrame, AnnounceVideo, CountVideo, PublishCrawled, ReturnVideo, crawlHandler,
             crawlOut, CrawlTypeOK
  <2>2. CASE AnnounceVideo(s)
      BY <2>1, <2>2 DEF AnnounceVideo, ResultInv, Before, Announced, Rest, CrawlTypeOK
  <2>3. CASE ReturnVideo(s)
      BY <2>1, <2>3 DEF ReturnVideo, ResultInv, Before, Announced, Rest, CrawlTypeOK, crawlOut
  <2>4. CASE CountVideo(s) \/ PublishCrawled(s)
      BY <2>1, <2>4 DEF CountVideo, PublishCrawled, ResultInv, Before, Announced, Rest,
                        CrawlTypeOK, crawlOut
  <2>5. CASE CheckVideo(s) \/ InsertVideo(s) \/ LinkVideo(s) \/ ReuseFrames(s)
             \/ ExtractKeyframes(s) \/ SaveFrame(s)
    <3>1. /\ vpc[s] \in Before \cup {"frame"} /\ vpc'[s] \in Before \cup {"frame", "emit"}
          /\ UNCHANGED <<told, result>>
        BY <2>5 DEF CheckVideo, InsertVideo, LinkVideo, ReuseFrames, ExtractKeyframes,
                    SaveFrame, Before, CrawlTypeOK, crawlOut
    <3> QED BY <2>1, <3>1 DEF ResultInv, Before, Announced, Rest
  <2> QED BY <1>6, <2>2, <2>3, <2>4, <2>5 DEF VideoStep
<1>7. CASE UNCHANGED crawlVars
    BY <1>7 DEF crawlVars, crawlHandler, crawlTasks, crawlOut, ResultInv
<1> QED BY <1>1, <1>2, <1>3, <1>4, <1>5, <1>6, <1>7 DEF CrawlNext, CrawlWork, CrawlStep

LEMMA TotalStep == CrawlInv /\ TotalInv /\ [CrawlNext]_crawlVars => TotalInv'
<1> SUFFICES ASSUME CrawlInv, TotalInv, [CrawlNext]_crawlVars PROVE TotalInv'
    OBVIOUS
<1>1. ASSUME UNCHANGED <<totals, result>>,
             cstage' = "completed" => cstage = "completed" \/ \A s \in Results : result[s] = {}
      PROVE  TotalInv'
    BY <1>1 DEF TotalInv, CrawlTotal, PerResult
<1>2. ASSUME NEW found \in SUBSET Results, SearchPlatforms(found) PROVE TotalInv'
    BY <1>1, <1>2 DEF SearchPlatforms, CrawlInv, StageInv, crawlOut, crawlTasks
<1>3. CASE GatherVideos \/ AckCrawl \/ PublishVideosCollected \/ RaiseCrawl \/ CrawlCrash
    BY <1>1, <1>3 DEF GatherVideos, AckCrawl, PublishVideosCollected, RaiseCrawl, CrawlCrash,
                      crawlTasks, crawlOut
<1>4. CASE TakeCrawl
    BY <1>4 DEF TakeCrawl, TotalInv
<1>5. CASE PublishFrameTotal
  <2>1. UNCHANGED result /\ totals' = Append(totals, CrawlTotal)
      BY <1>5 DEF PublishFrameTotal, crawlTasks
  <2>2. CrawlTotal \in Nat /\ CrawlTotal' = CrawlTotal
      BY <2>1, PerResultFinite DEF CrawlTotal, PerResult, CrawlInv, CrawlTypeOK
  <2> QED BY <2>1, <2>2 DEF TotalInv
<1>6. ASSUME NEW s \in Results, TaskStep(s) PROVE TotalInv'
  <2>1. vpc[s] \notin Rest /\ UNCHANGED <<totals, cstage>>
      BY <1>6 DEF TaskStep, VideoStep, CheckVideo, InsertVideo, LinkVideo, ReuseFrames,
             ExtractKeyframes, SaveFrame, AnnounceVideo, CountVideo, PublishCrawled, ReturnVideo,
             RetryVideo, ReadFails, SkipFrame, FailVideo, Rest, crawlHandler, crawlOut
  <2>2. cstage = "process"
      BY <2>1 DEF CrawlInv, StageInv
  <2> QED BY <2>1, <2>2 DEF TotalInv
<1>7. CASE UNCHANGED crawlVars
    BY <1>1, <1>7 DEF crawlVars, crawlHandler, crawlTasks, crawlOut
<1> QED BY <1>2, <1>3, <1>4, <1>5, <1>6, <1>7 DEF CrawlNext, CrawlWork, CrawlStep, TaskStep

\* The total of a delivery is at most the number of frames it has announced,
\* and is this number if no video has failed: so the segmentor, which waits for
\* that many, is not made to wait for frames that are not announced.
THEOREM FrameTotalHonestHolds == CrawlSpec => []FrameTotalHonest
<1>1. CrawlInit => ResultInv /\ TotalInv
    BY DEF CrawlInit, ResultInv, TotalInv, Rest, Before, Announced
<1>2. CrawlSpec => [](CrawlInv /\ ResultInv /\ TotalInv)
    BY <1>1, CrawlInvInit, CrawlInvStep, ResultStep, TotalStep, PTL DEF CrawlSpec
<1>3. CrawlInv /\ ResultInv /\ TotalInv => FrameTotalHonest
  <2> SUFFICES ASSUME CrawlInv, ResultInv, TotalInv, cstage = "completed",
                      \E s \in Results : result[s] # {}
               PROVE  /\ CrawlTotal <= Cardinality(PerResult(told))
                      /\ crawlFaults = 0 => CrawlTotal = Cardinality(PerResult(told))
      BY DEF FrameTotalHonest, TotalInv
  <2>1. IsFiniteSet(PerResult(told)) /\ PerResult(result) \subseteq PerResult(told)
      BY PerResultFinite DEF CrawlInv, CrawlTypeOK, ResultInv, PerResult
  <2>2. crawlFaults = 0 => PerResult(result) = PerResult(told)
      BY DEF PerResult, CrawlInv, StageInv, ResultInv
  <2> QED BY <2>1, <2>2, FS_Subset DEF CrawlTotal
<1> QED BY <1>2, <1>3, PTL

-----------------------------------------------------------------------------
\* The counts of the streaming pipeline

\* The places of a queue that hold a video.
Places(s) == {n \in DOMAIN s : s[n] # Sentinel}

Counts == [found : Nat, downloaded : Nat, processed : Nat, skipped : Nat, failed : Nat, broken : Nat]

PipelineInv ==
    /\ PipelineTypeOK
    /\ searched \in [Searches -> Nat] /\ sentinels \in Nat /\ stats \in Counts
    /\ StreamAccounted

LEMMA SettledNat == stats \in Counts => Settled \in Nat
BY DEF Counts, Settled

\* A count more of those that are done with, and one more of another kind.
LEMMA SettlesOne ==
    ASSUME stats \in Counts,
           \/ stats' = [stats EXCEPT !.skipped = @ + 1]
           \/ stats' = [stats EXCEPT !.failed = @ + 1]
           \/ stats' = [stats EXCEPT !.processed = @ + 1]
    PROVE  stats' \in Counts /\ stats'.found = stats.found /\ Settled' = Settled + 1
<1>1. CASE stats' = [stats EXCEPT !.skipped = @ + 1]
    BY <1>1 DEF Counts, Settled
<1>2. CASE stats' = [stats EXCEPT !.failed = @ + 1]
    BY <1>2 DEF Counts, Settled
<1>3. CASE stats' = [stats EXCEPT !.processed = @ + 1]
    BY <1>3 DEF Counts, Settled
<1> QED BY <1>1, <1>2, <1>3

LEMMA SettlesNone ==
    ASSUME stats \in Counts,
           \/ stats' = [stats EXCEPT !.downloaded = @ + 1]
           \/ stats' = [stats EXCEPT !.broken = @ + 1]
           \/ UNCHANGED stats
    PROVE  stats' \in Counts /\ stats'.found = stats.found /\ Settled' = Settled
<1>1. CASE stats' = [stats EXCEPT !.downloaded = @ + 1]
    BY <1>1 DEF Counts, Settled
<1>2. CASE stats' = [stats EXCEPT !.broken = @ + 1]
    BY <1>2 DEF Counts, Settled
<1>3. CASE UNCHANGED stats
    BY <1>3 DEF Settled
<1> QED BY <1>1, <1>2, <1>3

LEMMA PlacesCount ==
    ASSUME NEW S, NEW s \in Seq(S)
    PROVE  /\ DOMAIN s = 1..Len(s) /\ Len(s) \in Nat
           /\ IsFiniteSet(Places(s)) /\ Cardinality(Places(s)) \in Nat
<1>1. DOMAIN s = 1..Len(s) /\ Len(s) \in Nat
    OBVIOUS
<1>2. IsFiniteSet(1..Len(s))
    BY <1>1, FS_Interval
<1>3. Places(s) \in SUBSET (1..Len(s))
    BY <1>1 DEF Places
<1>4. IsFiniteSet(Places(s))
    BY <1>2, <1>3, FS_Subset
<1> QED BY <1>1, <1>4, FS_CardinalityType

LEMMA PlacesAppend ==
    ASSUME NEW S, NEW s \in Seq(S), NEW x \in S
    PROVE  Cardinality(Places(Append(s, x)))
               = Cardinality(Places(s)) + (IF x = Sentinel THEN 0 ELSE 1)
<1>1. /\ Append(s, x) \in Seq(S) /\ Len(Append(s, x)) = Len(s) + 1
      /\ \A i \in 1..Len(s) : Append(s, x)[i] = s[i]
      /\ Append(s, x)[Len(s) + 1] = x
    BY AppendProperties
<1>2. /\ DOMAIN s = 1..Len(s) /\ Len(s) \in Nat
      /\ IsFiniteSet(Places(s)) /\ Cardinality(Places(s)) \in Nat
    BY PlacesCount
<1>3. DOMAIN Append(s, x) = 1..(Len(s) + 1)
    BY <1>1
<1>4. Len(s) + 1 \notin Places(s)
    BY <1>2 DEF Places
<1>5. CASE x = Sentinel
  <2>1. Places(Append(s, x)) = Places(s)
      BY <1>1, <1>2, <1>3, <1>5 DEF Places
  <2> QED BY <1>2, <1>5, <2>1
<1>6. CASE x # Sentinel
  <2>1. Places(Append(s, x)) = Places(s) \cup {Len(s) + 1}
      BY <1>1, <1>2, <1>3, <1>6 DEF Places
  <2> QED BY <1>2, <1>4, <1>6, <2>1, FS_AddElement
<1> QED BY <1>5, <1>6

LEMMA PlacesTail ==
    ASSUME NEW S, NEW s \in Seq(S), s # <<>>
    PROVE  Cardinality(Places(s))
               = Cardinality(Places(Tail(s))) + (IF Head(s) = Sentinel THEN 0 ELSE 1)
<1> DEFINE T == {n \in 2..Len(s) : s[n] # Sentinel}
           f == [n \in Places(Tail(s)) |-> n + 1]
<1>1. /\ DOMAIN s = 1..Len(s) /\ Len(s) \in Nat
      /\ IsFiniteSet(Places(s)) /\ Cardinality(Places(s)) \in Nat
    BY PlacesCount
<1>2. /\ Tail(s) \in Seq(S) /\ Len(Tail(s)) = Len(s) - 1 /\ Len(s) # 0
      /\ \A i \in 1..Len(Tail(s)) : Tail(s)[i] = s[i + 1]
    BY HeadTailProperties, EmptySeq
<1>3. /\ DOMAIN Tail(s) = 1..(Len(s) - 1)
      /\ IsFiniteSet(Places(Tail(s))) /\ Cardinality(Places(Tail(s))) \in Nat
    BY <1>2, PlacesCount
<1>4. f \in Bijection(Places(Tail(s)), T)
  <2>1. ASSUME NEW n \in Places(Tail(s)) PROVE f[n] \in T /\ f[n] = n + 1 /\ n \in Nat
    <3>1. n \in 1..(Len(s) - 1) /\ Tail(s)[n] # Sentinel
        BY <1>3 DEF Places
    <3>2. Tail(s)[n] = s[n + 1] /\ n + 1 \in 2..Len(s)
        BY <1>1, <1>2, <3>1
    <3> QED BY <3>1, <3>2
  <2>2. ASSUME NEW m \in T PROVE \E n \in Places(Tail(s)) : f[n] = m
    <3>1. m - 1 \in 1..(Len(s) - 1) /\ m - 1 + 1 = m
        BY <1>1
    <3>2. Tail(s)[m - 1] = s[m]
        BY <1>2, <3>1
    <3>3. m - 1 \in Places(Tail(s))
        BY <1>3, <3>1, <3>2 DEF Places
    <3> QED BY <3>1, <3>3
  <2>3. f \in [Places(Tail(s)) -> T]
      BY <2>1
  <2>4. f \in Injection(Places(Tail(s)), T)
      BY <2>1, <2>3 DEF Injection, IsInjective
  <2>5. f \in Surjection(Places(Tail(s)), T)
      BY <2>2, <2>3 DEF Surjection
  <2> QED BY <2>4, <2>5 DEF Bijection
<1>5. IsFiniteSet(T) /\ Cardinality(T) = Cardinality(Places(Tail(s)))
    BY <1>3, <1>4, FS_Bijection DEF ExistsBijection
<1>6. Head(s) = s[1] /\ 1 \notin T
    BY <1>1
<1>7. CASE Head(s) = Sentinel
  <2>1. Places(s) = T
      BY <1>1, <1>2, <1>6, <1>7 DEF Places
  <2> QED BY <1>3, <1>5, <1>7, <2>1
<1>8. CASE Head(s) # Sentinel
  <2>1. Places(s) = T \cup {1}
      BY <1>1, <1>2, <1>6, <1>8 DEF Places
  <2> QED BY <1>3, <1>5, <1>6, <1>8, <2>1, FS_AddElement
<1> QED BY <1>7, <1>8

\* What a worker that takes or leaves a task does to the number of those at one.
LEMMA HeldCount ==
    ASSUME PipelineAssumption, NEW U \in SUBSET PipeWorkers
    PROVE  IsFiniteSet({w \in U : holds[w] # NoTask}) /\ Held(U) \in Nat
<1>1. {w \in U : holds[w] # NoTask} \in SUBSET PipeWorkers
    OBVIOUS
<1>2. IsFiniteSet({w \in U : holds[w] # NoTask})
    BY <1>1, FS_Subset DEF PipelineAssumption
<1> QED BY <1>2, FS_CardinalityType DEF Held

LEMMA HeldNat ==
    ASSUME PipelineAssumption
    PROVE  /\ Downloaders \in SUBSET PipeWorkers /\ Processors \in SUBSET PipeWorkers
           /\ PipeWorkers \in SUBSET PipeWorkers
           /\ Held(Downloaders) \in Nat /\ Held(PipeWorkers) \in Nat /\ Held(Processors) \in Nat
<1>1. /\ Downloaders \in SUBSET PipeWorkers /\ Processors \in SUBSET PipeWorkers
      /\ PipeWorkers \in SUBSET PipeWorkers
    BY DEF PipeWorkers
<1>2. Held(Downloaders) \in Nat
    BY <1>1, HeldCount
<1>3. Held(Processors) \in Nat
    BY <1>1, HeldCount
<1>4. Held(PipeWorkers) \in Nat
    BY <1>1, HeldCount
<1> QED BY <1>1, <1>2, <1>3, <1>4

LEMMA HeldTakes ==
    ASSUME PipelineAssumption, holds \in [PipeWorkers -> PipeVideos \cup {NoTask}],
           NEW U \in SUBSET PipeWorkers, NEW w \in PipeWorkers, NEW v \in PipeVideos,
           holds[w] = NoTask, holds' = [holds EXCEPT ![w] = v]
    PROVE  Held(U)' = Held(U) + (IF w \in U THEN 1 ELSE 0)
<1> DEFINE A == {x \in U : holds[x] # NoTask}
<1>1. v # NoTask
    BY DEF PipelineAssumption
<1>2. IsFiniteSet(A) /\ Cardinality(A) \in Nat /\ Held(U) = Cardinality(A)
    BY HeldCount DEF Held
<1>3. CASE w \in U
  <2>1. {x \in U : holds'[x] # NoTask} = A \cup {w} /\ w \notin A
      BY <1>1, <1>3
  <2>2. Cardinality(A \cup {w}) = Cardinality(A) + 1
      BY <1>2, <2>1, FS_AddElement
  <2> QED BY <1>2, <1>3, <2>1, <2>2 DEF Held
<1>4. CASE w \notin U
  <2>1. {x \in U : holds'[x] # NoTask} = A
      BY <1>4
  <2>2. Held(U)' = Cardinality(A)
      BY <2>1 DEF Held
  <2> HIDE DEF A
  <2> QED BY <1>2, <1>4, <2>2
<1> QED BY <1>3, <1>4

LEMMA HeldLeaves ==
    ASSUME PipelineAssumption, holds \in [PipeWorkers -> PipeVideos \cup {NoTask}],
           NEW U \in SUBSET PipeWorkers, NEW w \in PipeWorkers,
           holds[w] # NoTask, holds' = [holds EXCEPT ![w] = NoTask]
    PROVE  Held(U)' = Held(U) - (IF w \in U THEN 1 ELSE 0) /\ Held(U)' \in Nat
<1> DEFINE A == {x \in U : holds[x] # NoTask}
<1>1. IsFiniteSet(A) /\ Cardinality(A) \in Nat /\ Held(U) = Cardinality(A)
    BY HeldCount DEF Held
<1>2. CASE w \in U
  <2>1. {x \in U : holds'[x] # NoTask} = A \ {w} /\ w \in A
      BY <1>2
  <2>2. Cardinality(A \ {w}) = Cardinality(A) - 1 /\ Cardinality(A \ {w}) \in Nat
      BY ZenonT(60), <1>1, <2>1, FS_RemoveElement, FS_CardinalityType
  <2> QED BY <1>1, <1>2, <2>1, <2>2 DEF Held
<1>3. CASE w \notin U
  <2>1. {x \in U : holds'[x] # NoTask} = A
      BY <1>3
  <2>2. Held(U)' = Cardinality(A)
      BY <2>1 DEF Held
  <2> HIDE DEF A
  <2> QED BY <1>1, <1>3, <2>2
<1> QED BY <1>2, <1>3

LEMMA HeldApart ==
    ASSUME holds \in [PipeWorkers -> PipeVideos \cup {NoTask}],
           NEW U \in SUBSET PipeWorkers, NEW w \in PipeWorkers, w \notin U,
           NEW v, holds' = [holds EXCEPT ![w] = v]
    PROVE  Held(U)' = Held(U)
<1>1. {x \in U : holds'[x] # NoTask} = {x \in U : holds[x] # NoTask}
    OBVIOUS
<1> QED BY <1>1 DEF Held

\* What a step leaves alone.
LEMMA PipelineFrame ==
    ASSUME PipelineInv, UNCHANGED <<downloads, toDo, processing, toProcess, holds, sentinels>>,
           stats'.found = stats.found, Settled' = Settled
    PROVE  StreamAccounted'
BY DEF PipelineInv, StreamAccounted, Streamed, Held

LEMMA PipelineSearchStep ==
    ASSUME PipelineAssumption, PipelineInv, NEW q \in Searches, StreamResult(q)
    PROVE  PipelineInv'
<1> DEFINE v == StreamedBy[q][searched[q] + 1]
           S == PipeVideos \cup {Sentinel}
<1>1. v \in PipeVideos /\ v # Sentinel
  <2>1. searched[q] + 1 \in 1..Len(StreamedBy[q]) /\ StreamedBy[q] \in Seq(PipeVideos)
      BY DEF PipelineAssumption, PipelineInv, StreamResult
  <2> QED BY <2>1 DEF PipelineAssumption
<1>2. downloads' = Append(downloads, v) /\ searched' = [searched EXCEPT ![q] = @ + 1]
    BY DEF StreamResult, PipelineInv
<1> HIDE DEF v
<1>3. /\ downloads \in Seq(S) /\ downloads' \in Seq(S) /\ Len(downloads') <= DownloadCap
    BY <1>1, <1>2, AppendProperties DEF StreamResult, PipelineInv, PipelineTypeOK, PipelineAssumption
<1>4. Cardinality(Places(downloads')) = Cardinality(Places(downloads)) + 1
      /\ Cardinality(Places(downloads)) \in Nat
    BY <1>1, <1>2, <1>3, PlacesAppend, PlacesCount
<1>5. stats' = [stats EXCEPT !.found = stats.found + 1] /\ toDo' = toDo + 1 /\ stats \in Counts
    BY DEF StreamResult, PipelineInv
<1>6. stats' \in Counts /\ stats'.found = stats.found + 1 /\ Settled' = Settled
    BY <1>5 DEF Counts, Settled
<1>7. UNCHANGED <<pipe, processing, toProcess, holds, existing, sentinels>>
    BY DEF StreamResult
<1>8. Held(PipeWorkers) \in Nat /\ Held(Downloaders) \in Nat /\ Len(processing) \in Nat
    BY HeldNat DEF PipelineInv, PipelineTypeOK
<1>9. StreamAccounted'
  <2>1. /\ Held(PipeWorkers)' = Held(PipeWorkers) /\ Held(Downloaders)' = Held(Downloaders)
        /\ Held(Processors)' = Held(Processors)
      BY <1>7 DEF Held
  <2>2. Cardinality(Streamed') = Cardinality(Streamed) + 1 /\ Cardinality(Streamed) \in Nat
      BY <1>4 DEF Streamed, Places
  <2>3. stats.found \in Nat /\ Settled \in Nat /\ Len(processing) \in Nat /\ sentinels \in Nat
      BY SettledNat DEF PipelineInv, PipelineTypeOK, Counts
  <2>4. stats.found = Cardinality(Streamed) + Held(PipeWorkers) + Len(processing) + Settled
      BY DEF StreamAccounted, PipelineInv
  <2>5. stats'.found = Cardinality(Streamed') + Held(PipeWorkers)' + Len(processing') + Settled'
      BY <1>6, <1>7, <1>8, <2>1, <2>2, <2>3, <2>4
  <2>6. /\ toProcess' = Len(processing') + Held(Processors)'
        /\ toDo' = Cardinality(Streamed') + Held(Downloaders)' + sentinels'
      BY <1>5, <1>7, <1>8, <2>1, <2>2, <2>3 DEF StreamAccounted, PipelineInv
  <2> QED BY <2>5, <2>6 DEF StreamAccounted
<1> QED BY <1>2, <1>3, <1>5, <1>6, <1>7, <1>9 DEF PipelineInv, PipelineTypeOK

LEMMA PipelineSentinelStep ==
    ASSUME PipelineAssumption, PipelineInv, PutSentinel
    PROVE  PipelineInv'
<1> DEFINE S == PipeVideos \cup {Sentinel}
<1>1. /\ downloads \in Seq(S) /\ downloads' = Append(downloads, Sentinel)
      /\ downloads' \in Seq(S) /\ Len(downloads') <= DownloadCap
    BY AppendProperties DEF PutSentinel, PipelineInv, PipelineTypeOK, PipelineAssumption
<1>2. Cardinality(Places(downloads')) = Cardinality(Places(downloads))
      /\ Cardinality(Places(downloads)) \in Nat
    BY <1>1, PlacesAppend, PlacesCount
<1>3. Cardinality(Streamed') = Cardinality(Streamed) /\ Cardinality(Streamed) \in Nat
    BY <1>2 DEF Streamed, Places
<1>4. UNCHANGED <<processing, toProcess, holds, existing, stats, searched>>
      /\ toDo' = toDo + 1 /\ sentinels' = sentinels + 1 /\ pipe' \in {"join", "sentinels"}
    BY DEF PutSentinel
<1>5. Held(Downloaders) \in Nat
    BY HeldNat
<1>6. StreamAccounted'
  <2>1. /\ Held(PipeWorkers)' = Held(PipeWorkers) /\ Held(Downloaders)' = Held(Downloaders)
        /\ Held(Processors)' = Held(Processors)
      BY <1>4 DEF Held
  <2>2. stats'.found = stats.found /\ Settled' = Settled
      BY <1>4 DEF Settled
  <2> QED BY <1>3, <1>4, <1>5, <2>1, <2>2 DEF StreamAccounted, PipelineInv, PipelineTypeOK
<1> QED BY <1>1, <1>4, <1>6 DEF PipelineInv, PipelineTypeOK

LEMMA PipelineTakeStep ==
    ASSUME PipelineAssumption, PipelineInv, NEW w \in Downloaders, TakeDownload(w)
    PROVE  PipelineInv'
<1> DEFINE S == PipeVideos \cup {Sentinel}
<1>1. /\ downloads \in Seq(S) /\ downloads # <<>> /\ downloads' = Tail(downloads)
      /\ downloads' \in Seq(S) /\ Len(downloads') <= DownloadCap /\ Head(downloads) \in S
  <2>1. downloads \in Seq(S) /\ downloads # <<>> /\ downloads' = Tail(downloads)
        /\ Len(downloads) <= DownloadCap
      BY DEF TakeDownload, PipelineInv, PipelineTypeOK
  <2>2. /\ downloads' \in Seq(S) /\ Len(downloads') = Len(downloads) - 1
        /\ Head(downloads) \in S /\ Len(downloads) \in Nat
      BY <2>1, HeadTailProperties
  <2> QED BY <2>1, <2>2 DEF PipelineAssumption
<1>2. /\ Cardinality(Places(downloads))
             = Cardinality(Places(downloads')) + (IF Head(downloads) = Sentinel THEN 0 ELSE 1)
      /\ Cardinality(Places(downloads)) \in Nat /\ Cardinality(Places(downloads')) \in Nat
    BY <1>1, PlacesTail, PlacesCount
<1>3. /\ Cardinality(Streamed)
             = Cardinality(Streamed') + (IF Head(downloads) = Sentinel THEN 0 ELSE 1)
      /\ Cardinality(Streamed) \in Nat /\ Cardinality(Streamed') \in Nat
    BY <1>2 DEF Streamed, Places
<1>4. /\ UNCHANGED <<pipe, searched, sentinels, toDo, processing, toProcess, existing, stats>>
      /\ holds[w] = NoTask /\ holds \in [PipeWorkers -> PipeVideos \cup {NoTask}]
      /\ w \in PipeWorkers /\ w \notin Processors
      /\ Downloaders \in SUBSET PipeWorkers /\ Processors \in SUBSET PipeWorkers
      /\ PipeWorkers \in SUBSET PipeWorkers
    BY DEF TakeDownload, PipelineInv, PipelineTypeOK, PipeWorkers, PipelineAssumption
<1>5. /\ Held(Downloaders) \in Nat /\ Held(PipeWorkers) \in Nat /\ Held(Processors) \in Nat
    BY HeldNat
<1>6. CASE Head(downloads) = Sentinel
  <2>1. UNCHANGED holds
      BY <1>6 DEF TakeDownload
  <2>2. /\ Held(PipeWorkers)' = Held(PipeWorkers) /\ Held(Downloaders)' = Held(Downloaders)
        /\ Held(Processors)' = Held(Processors)
      BY <2>1 DEF Held
  <2>3. StreamAccounted'
    <3>1. stats'.found = stats.found /\ Settled' = Settled
        BY <1>4 DEF Settled
    <3> QED BY <1>3, <1>4, <1>6, <2>2, <3>1 DEF StreamAccounted, PipelineInv
  <2> QED BY <1>1, <1>4, <2>1, <2>3 DEF PipelineInv, PipelineTypeOK
<1>7. CASE Head(downloads) # Sentinel
  <2>1. holds' = [holds EXCEPT ![w] = Head(downloads)] /\ Head(downloads) \in PipeVideos
      BY <1>1, <1>7 DEF TakeDownload
  <2>2. /\ Held(PipeWorkers)' = Held(PipeWorkers) + 1 /\ Held(Downloaders)' = Held(Downloaders) + 1
        /\ Held(Processors)' = Held(Processors)
    <3>1. Held(PipeWorkers)' = Held(PipeWorkers) + 1
        BY <1>4, <1>5, <2>1, HeldTakes
    <3>2. Held(Downloaders)' = Held(Downloaders) + 1
        BY <1>4, <1>5, <2>1, HeldTakes
    <3>3. Held(Processors)' = Held(Processors)
        BY <1>4, <2>1, HeldApart
    <3> QED BY <3>1, <3>2, <3>3
  <2>3. StreamAccounted'
    <3>1. stats.found \in Nat /\ Settled \in Nat /\ Len(processing) \in Nat /\ sentinels \in Nat
        BY SettledNat DEF PipelineInv, PipelineTypeOK, Counts
    <3>2. stats.found = Cardinality(Streamed) + Held(PipeWorkers) + Len(processing) + Settled
        BY DEF StreamAccounted, PipelineInv
    <3>3. stats'.found = Cardinality(Streamed') + Held(PipeWorkers)' + Len(processing') + Settled'
      <4>1. stats'.found = stats.found /\ Settled' = Settled /\ Len(processing') = Len(processing)
          BY <1>4 DEF Settled
      <4> QED BY <1>3, <1>5, <1>7, <2>2, <3>1, <3>2, <4>1
    <3>4. /\ toProcess' = Len(processing') + Held(Processors)'
          /\ toDo' = Cardinality(Streamed') + Held(Downloaders)' + sentinels'
        BY <1>3, <1>4, <1>5, <1>7, <2>2, <3>1 DEF StreamAccounted, PipelineInv
    <3> QED BY <3>3, <3>4 DEF StreamAccounted
  <2> QED BY <1>1, <1>4, <2>1, <2>3 DEF PipelineInv, PipelineTypeOK
<1> QED BY <1>6, <1>7

LEMMA PipelineDownloadStep ==
    ASSUME PipelineAssumption, PipelineInv, NEW w \in Downloaders, Download(w)
    PROVE  PipelineInv'
<1>1. /\ UNCHANGED <<pipe, searched, sentinels, downloads, existing>> /\ toDo' = toDo - 1
      /\ holds[w] # NoTask /\ holds \in [PipeWorkers -> PipeVideos \cup {NoTask}]
      /\ holds' = [holds EXCEPT ![w] = NoTask] /\ holds[w] \in PipeVideos
      /\ w \in PipeWorkers /\ w \notin Processors
    BY DEF Download, PipelineInv, PipelineTypeOK, PipeWorkers, PipelineAssumption
<1>2. /\ Held(PipeWorkers)' = Held(PipeWorkers) - 1 /\ Held(Downloaders)' = Held(Downloaders) - 1
      /\ Held(Processors)' = Held(Processors)
      /\ Held(PipeWorkers)' \in Nat /\ Held(Downloaders)' \in Nat
  <2>1. Held(PipeWorkers)' = Held(PipeWorkers) - 1 /\ Held(PipeWorkers)' \in Nat
      BY <1>1, HeldNat, HeldLeaves
  <2>2. Held(Downloaders)' = Held(Downloaders) - 1 /\ Held(Downloaders)' \in Nat
      BY <1>1, HeldNat, HeldLeaves
  <2>3. Held(Processors)' = Held(Processors)
      BY <1>1, HeldNat, HeldApart
  <2> QED BY <2>1, <2>2, <2>3
<1>3. /\ Held(Downloaders) \in Nat /\ Held(PipeWorkers) \in Nat /\ Held(Processors) \in Nat
    BY HeldNat
<1>4. Cardinality(Streamed') = Cardinality(Streamed) /\ Cardinality(Streamed) \in Nat
    BY <1>1, PlacesCount DEF Streamed, Places, PipelineInv, PipelineTypeOK
<1>5. stats.found \in Nat /\ Settled \in Nat /\ Len(processing) \in Nat /\ sentinels \in Nat
      /\ processing \in Seq(PipeVideos) /\ toProcess \in Nat /\ stats \in Counts
      /\ Len(processing) <= ProcessingCap /\ ProcessingCap \in Nat
    BY SettledNat DEF PipelineInv, PipelineTypeOK, Counts, PipelineAssumption
<1>6. /\ stats.found = Cardinality(Streamed) + Held(PipeWorkers) + Len(processing) + Settled
      /\ toProcess = Len(processing) + Held(Processors)
      /\ toDo = Cardinality(Streamed) + Held(Downloaders) + sentinels
    BY DEF StreamAccounted, PipelineInv
<1>7. toDo' = Cardinality(Streamed') + Held(Downloaders)' + sentinels' /\ toDo' \in Nat
  <2>1. toDo' = toDo - 1 /\ sentinels' = sentinels
      BY <1>1
  <2>2. toDo = Cardinality(Streamed) + Held(Downloaders) + sentinels /\ sentinels \in Nat
      BY <1>5, <1>6
  <2> QED BY <1>2, <1>3, <1>4, <2>1, <2>2
<1>8. holds' \in [PipeWorkers -> PipeVideos \cup {NoTask}]
    BY <1>1
<1>9. /\ stats.found = Cardinality(Streamed') + Held(PipeWorkers)' + 1 + Len(processing) + Settled
      /\ Held(PipeWorkers)' \in Nat /\ Len(processing) \in Nat /\ Settled \in Nat
      /\ Cardinality(Streamed') \in Nat
  <2>1. stats.found = Cardinality(Streamed) + Held(PipeWorkers) + Len(processing) + Settled
        /\ Settled \in Nat /\ Len(processing) \in Nat
      BY <1>5, <1>6
  <2>2. Held(PipeWorkers)' = Held(PipeWorkers) - 1 /\ Held(PipeWorkers)' \in Nat
        /\ Held(PipeWorkers) \in Nat
      BY <1>2, <1>3
  <2> QED BY <1>4, <2>1, <2>2
<1>10. toProcess = Len(processing) + Held(Processors)' /\ Held(Processors)' \in Nat
    BY <1>2, <1>3, <1>6
<1>11. /\ stats' \in Counts /\ processing' \in Seq(PipeVideos) /\ Len(processing') <= ProcessingCap
       /\ stats'.found = Cardinality(Streamed') + Held(PipeWorkers)' + Len(processing') + Settled'
       /\ toProcess' = Len(processing') + Held(Processors)' /\ toProcess' \in Nat
  <2>1. CASE /\ stats' = [stats EXCEPT !.skipped = @ + 1] \/ stats' = [stats EXCEPT !.failed = @ + 1]
             /\ UNCHANGED <<processing, toProcess>>
    <3>1. stats' \in Counts /\ stats'.found = stats.found /\ Settled' = Settled + 1
        BY <1>5, <2>1, SettlesOne
    <3>2. Len(processing') = Len(processing) /\ processing' \in Seq(PipeVideos) /\ toProcess' = toProcess
          /\ Len(processing') <= ProcessingCap
        BY <1>5, <2>1
    <3>3. stats'.found = Cardinality(Streamed') + Held(PipeWorkers)' + Len(processing') + Settled'
      <4>1. Len(processing') = Len(processing) /\ stats'.found = stats.found /\ Settled' = Settled + 1
          BY <3>1, <3>2
      <4> QED BY SMTT(30), <1>9, <4>1
    <3>4. toProcess' = Len(processing') + Held(Processors)' /\ toProcess' \in Nat
        BY <1>9, <1>10, <3>2
    <3> QED BY <3>1, <3>2, <3>3, <3>4
  <2>2. CASE /\ stats' = [stats EXCEPT !.downloaded = @ + 1] /\ Len(processing) < ProcessingCap
             /\ processing' = Append(processing, holds[w]) /\ toProcess' = toProcess + 1
    <3>1. stats' \in Counts /\ stats'.found = stats.found /\ Settled' = Settled
        BY <1>5, <2>2, SettlesNone
    <3>2. processing' \in Seq(PipeVideos) /\ Len(processing') = Len(processing) + 1
        BY <1>1, <1>5, <2>2, AppendProperties
    <3>6. Len(processing') <= ProcessingCap
        BY <1>5, <2>2, <3>2
    <3>3. stats'.found = Cardinality(Streamed') + Held(PipeWorkers)' + Len(processing') + Settled'
        BY <1>9, <3>1, <3>2
    <3>4. toProcess' = toProcess + 1
        BY <2>2
    <3>5. toProcess' = Len(processing') + Held(Processors)' /\ toProcess' \in Nat
        BY SMTT(30), <1>9, <1>10, <3>2, <3>4
    <3> QED BY <3>1, <3>2, <3>3, <3>5, <3>6
  <2> QED BY <2>1, <2>2 DEF Download
<1> QED BY <1>1, <1>7, <1>8, <1>11 DEF PipelineInv, PipelineTypeOK, StreamAccounted

LEMMA PipelineProcessStep ==
    ASSUME PipelineAssumption, PipelineInv, NEW w \in Processors,
           TakeProcessing(w) \/ ProcessVideo(w) \/ FailProcessing(w)
    PROVE  PipelineInv'
<1>1. /\ UNCHANGED <<pipe, searched, sentinels, downloads, toDo>>
      /\ holds \in [PipeWorkers -> PipeVideos \cup {NoTask}]
      /\ w \in PipeWorkers /\ w \notin Downloaders /\ existing \subseteq PipeVideos
    BY DEF TakeProcessing, ProcessVideo, FailProcessing, PipelineInv, PipelineTypeOK, PipeWorkers,
           PipelineAssumption
<1>2. /\ Held(Downloaders) \in Nat /\ Held(PipeWorkers) \in Nat /\ Held(Processors) \in Nat
    BY HeldNat
<1>3. Cardinality(Streamed') = Cardinality(Streamed) /\ Cardinality(Streamed) \in Nat
    BY <1>1, PlacesCount DEF Streamed, Places, PipelineInv, PipelineTypeOK
<1>4. stats.found \in Nat /\ Settled \in Nat /\ Len(processing) \in Nat /\ sentinels \in Nat
      /\ processing \in Seq(PipeVideos) /\ toProcess \in Nat /\ stats \in Counts
      /\ Len(processing) <= ProcessingCap /\ ProcessingCap \in Nat
    BY SettledNat DEF PipelineInv, PipelineTypeOK, Counts, PipelineAssumption
<1>5. /\ stats.found = Cardinality(Streamed) + Held(PipeWorkers) + Len(processing) + Settled
      /\ toProcess = Len(processing) + Held(Processors)
      /\ toDo = Cardinality(Streamed) + Held(Downloaders) + sentinels
    BY DEF StreamAccounted, PipelineInv
<1>6. CASE TakeProcessing(w)
  <2>1. /\ UNCHANGED <<toProcess, existing, stats>> /\ processing # <<>>
        /\ holds[w] = NoTask /\ processing' = Tail(processing)
        /\ holds' = [holds EXCEPT ![w] = Head(processing)]
      BY <1>6 DEF TakeProcessing
  <2>2. /\ Head(processing) \in PipeVideos /\ processing' \in Seq(PipeVideos)
        /\ Len(processing') = Len(processing) - 1 /\ Len(processing') \in Nat
        /\ Len(processing') <= ProcessingCap
    <3>1. /\ Head(processing) \in PipeVideos /\ processing' \in Seq(PipeVideos)
          /\ Len(processing') = Len(processing) - 1
        BY <1>4, <2>1, HeadTailProperties
    <3> QED BY <1>4, <3>1
  <2>3. Held(PipeWorkers)' = Held(PipeWorkers) + 1
      BY <1>1, <2>1, <2>2, HeldNat, HeldTakes
  <2>4. Held(Processors)' = Held(Processors) + 1
      BY <1>1, <2>1, <2>2, HeldNat, HeldTakes
  <2>5. Held(Downloaders)' = Held(Downloaders)
      BY <1>1, <2>1, HeldNat, HeldApart
  <2>6. stats'.found = Cardinality(Streamed') + Held(PipeWorkers)' + Len(processing') + Settled'
    <3>1. stats'.found = stats.found /\ Settled' = Settled
        BY <2>1 DEF Settled
    <3>2. stats.found = Cardinality(Streamed) + Held(PipeWorkers) + Len(processing) + Settled
          /\ Settled \in Nat /\ Len(processing) \in Nat
        BY <1>4, <1>5
    <3>3. Held(PipeWorkers)' + Len(processing') = Held(PipeWorkers) + Len(processing)
          /\ Held(PipeWorkers)' \in Nat /\ Held(PipeWorkers) \in Nat /\ Len(processing') \in Nat
      <4>1. Held(PipeWorkers) \in Nat /\ Held(PipeWorkers)' = Held(PipeWorkers) + 1
          BY <1>2, <2>3
      <4>2. Len(processing) \in Nat /\ Len(processing') = Len(processing) - 1
            /\ Len(processing') \in Nat
          BY <2>2, <3>2
      <4> QED BY SMTT(30), <4>1, <4>2
    <3>4. Cardinality(Streamed') = Cardinality(Streamed) /\ Cardinality(Streamed) \in Nat
        BY <1>3
    <3> QED BY SMTT(30), <3>1, <3>2, <3>3, <3>4
  <2>7. /\ toProcess' = Len(processing') + Held(Processors)'
        /\ toDo' = Cardinality(Streamed') + Held(Downloaders)' + sentinels'
      BY <1>1, <1>2, <1>3, <1>4, <1>5, <2>1, <2>2, <2>4, <2>5
  <2>8. holds' \in [PipeWorkers -> PipeVideos \cup {NoTask}]
      BY <1>1, <2>1, <2>2
  <2> QED BY <1>1, <2>1, <2>2, <2>6, <2>7, <2>8 DEF PipelineInv, PipelineTypeOK, StreamAccounted
<1>7. CASE ProcessVideo(w) \/ FailProcessing(w)
  <2>1. /\ UNCHANGED processing /\ Len(processing') <= ProcessingCap
        /\ holds[w] # NoTask /\ holds[w] \in PipeVideos
        /\ holds' = [holds EXCEPT ![w] = NoTask] /\ toProcess' = toProcess - 1
        /\ existing' \subseteq PipeVideos
      BY <1>1, <1>4, <1>7 DEF ProcessVideo, FailProcessing
  <2>2. Held(PipeWorkers)' = Held(PipeWorkers) - 1 /\ Held(PipeWorkers)' \in Nat
      BY <1>1, <2>1, HeldNat, HeldLeaves
  <2>3. Held(Processors)' = Held(Processors) - 1 /\ Held(Processors)' \in Nat
      BY <1>1, <2>1, HeldNat, HeldLeaves
  <2>4. Held(Downloaders)' = Held(Downloaders)
      BY <1>1, <2>1, HeldNat, HeldApart
  <2>5. stats' \in Counts /\ stats'.found = stats.found /\ Settled' = Settled + 1
      BY <1>4, <1>7, SettlesOne DEF ProcessVideo, FailProcessing
  <2>6. stats'.found = Cardinality(Streamed') + Held(PipeWorkers)' + Len(processing') + Settled'
    <3>1. Len(processing') = Len(processing)
        BY <2>1
    <3>2. stats.found = Cardinality(Streamed) + Held(PipeWorkers) + Len(processing) + Settled
          /\ Settled \in Nat /\ Len(processing) \in Nat
        BY <1>4, <1>5
    <3>3. stats'.found = stats.found /\ Settled' = Settled + 1
        BY <2>5
    <3>4. Held(PipeWorkers)' = Held(PipeWorkers) - 1 /\ Held(PipeWorkers) \in Nat
        BY <1>2, <2>2
    <3> QED BY <1>3, <3>1, <3>2, <3>3, <3>4
  <2>7. /\ toProcess' = Len(processing') + Held(Processors)' /\ toProcess' \in Nat
        /\ toDo' = Cardinality(Streamed') + Held(Downloaders)' + sentinels'
    <3>1. /\ Len(processing') = Len(processing) /\ toProcess' = toProcess - 1
          /\ toDo' = toDo /\ sentinels' = sentinels
        BY <1>1, <2>1
    <3>2. toDo' = Cardinality(Streamed') + Held(Downloaders)' + sentinels'
        BY <1>3, <1>5, <2>4, <3>1
    <3>3. toProcess = Len(processing) + Held(Processors) /\ Len(processing) \in Nat
          /\ Held(Processors)' = Held(Processors) - 1 /\ Held(Processors)' \in Nat
          /\ Held(Processors) \in Nat
        BY <1>2, <1>4, <1>5, <2>3
    <3>4. toProcess' = Len(processing') + Held(Processors)' /\ toProcess' \in Nat
        BY <3>1, <3>3
    <3> QED BY <3>2, <3>4
  <2>8. holds' \in [PipeWorkers -> PipeVideos \cup {NoTask}]
      BY <1>1, <2>1
  <2> QED BY <1>1, <1>4, <2>1, <2>5, <2>6, <2>7, <2>8 DEF PipelineInv, PipelineTypeOK, StreamAccounted
<1> QED BY <1>6, <1>7

LEMMA PipelineQuietStep ==
    ASSUME PipelineInv,
           \/ StartPipeline \/ RunBatch \/ StopPipeline \/ UNCHANGED pipeVars
           \/ \E q \in Searches : EndSearch(q)
    PROVE  PipelineInv'
<1>1. /\ UNCHANGED <<downloads, toDo, processing, toProcess, holds, existing, sentinels>>
      /\ pipe' \in {"idle", "search", "sentinels", "join", "complete", "cancelled", "raised"}
      /\ stats' = [stats EXCEPT !.broken = @ + 1] \/ UNCHANGED stats
    BY DEF StartPipeline, RunBatch, StopPipeline, EndSearch, pipeVars, PipelineInv, PipelineTypeOK
<1>2. searched' \in [Searches -> Nat]
  <2>1. CASE \E q \in Searches : EndSearch(q)
    <3>1. PICK q \in Searches : EndSearch(q)
        BY <2>1
    <3>2. searched' = [searched EXCEPT ![q] = Len(StreamedBy[q]) + 1]
        BY <3>1 DEF EndSearch
    <3>3. Len(StreamedBy[q]) + 1 \in Nat
        BY PipelineAssumption DEF PipelineAssumption
    <3> QED BY <3>2, <3>3 DEF PipelineInv
  <2>2. CASE UNCHANGED searched
      BY <2>2 DEF PipelineInv
  <2> QED BY <2>1, <2>2 DEF StartPipeline, RunBatch, StopPipeline, pipeVars
<1>3. stats' \in Counts /\ stats'.found = stats.found /\ Settled' = Settled
    BY <1>1, SettlesNone DEF PipelineInv
<1> QED BY <1>1, <1>2, <1>3, PipelineFrame DEF PipelineInv, PipelineTypeOK

LEMMA PipelineInit0 == PipelineInit => PipelineInv
<1> SUFFICES ASSUME PipelineInit PROVE PipelineInv
    OBVIOUS
<1>1. PipelineTypeOK /\ searched \in [Searches -> Nat] /\ sentinels \in Nat
    BY PipelineAssumption DEF PipelineInit, PipelineTypeOK, PipelineAssumption
<1>2. stats \in Counts /\ stats.found = 0 /\ Settled = 0
    BY DEF PipelineInit, Counts, Settled
<1>3. ASSUME NEW U \in SUBSET PipeWorkers PROVE Held(U) = 0
  <2>1. {w \in U : holds[w] # NoTask} = {}
      BY DEF PipelineInit
  <2> QED BY <2>1, FS_EmptySet DEF Held
<1>4. Streamed = {} /\ Cardinality(Streamed) = 0
    BY FS_EmptySet DEF PipelineInit, Streamed
<1>5. Held(PipeWorkers) = 0 /\ Held(Downloaders) = 0 /\ Held(Processors) = 0
    BY <1>3 DEF PipeWorkers
<1> QED BY <1>1, <1>2, <1>4, <1>5 DEF PipelineInit, PipelineInv, StreamAccounted

LEMMA PipelineStep == PipelineInv /\ [PipelineNext]_pipeVars => PipelineInv'
<1> SUFFICES ASSUME PipelineInv, [PipelineNext]_pipeVars PROVE PipelineInv'
    OBVIOUS
<1> USE PipelineAssumption
<1>1. ASSUME NEW q \in Searches, StreamResult(q) PROVE PipelineInv'
    BY <1>1, PipelineSearchStep
<1>2. CASE PutSentinel
    BY <1>2, PipelineSentinelStep
<1>3. ASSUME NEW w \in Downloaders, TakeDownload(w) \/ Download(w) PROVE PipelineInv'
    BY <1>3, PipelineTakeStep, PipelineDownloadStep
<1>4. ASSUME NEW w \in Processors, TakeProcessing(w) \/ ProcessVideo(w) \/ FailProcessing(w)
      PROVE  PipelineInv'
    BY <1>4, PipelineProcessStep
<1>5. CASE \/ StartPipeline \/ RunBatch \/ StopPipeline \/ UNCHANGED pipeVars
           \/ \E q \in Searches : EndSearch(q)
    BY <1>5, PipelineQuietStep
<1> QED BY <1>1, <1>2, <1>3, <1>4, <1>5 DEF PipelineNext, PipelineWork

\* Whatever the workers and the searches do, in any order, and wherever the
\* pipeline is stopped, each video that was found is in one place or counted
\* once, and each join waits for exactly what is queued or held.
THEOREM StreamAccountedHolds == PipelineSpec => []StreamAccounted
BY PipelineInit0, PipelineStep, PTL DEF PipelineSpec, PipelineInv

-----------------------------------------------------------------------------
\* The downloads of TikTok

TiktokAction(t) ==
    \/ BeginTask(t) \/ LookForClient(t) \/ MakeClient(t) \/ TakeClient(t) \/ PostRequest(t)
    \/ ServerAnswers(t) \/ CloseClient(t) \/ HeadRequest(t) \/ OpenFile(t) \/ WriteFile(t)

\* A task is named by its batch and its video.
LEMMA TaskParts ==
    /\ \A t \in Tasks : t[1] \in Batches /\ t[2] \in Clips
    /\ \A t, u \in Tasks : t[1] = u[1] /\ t[2] = u[2] => t = u
BY DEF Tasks, Clips

LEMMA TiktokTypes == TiktokTypeOK /\ [TiktokNext]_tiktokVars => TiktokTypeOK'
<1> SUFFICES ASSUME TiktokTypeOK, [TiktokNext]_tiktokVars PROVE TiktokTypeOK'
    OBVIOUS
<1> USE DEF TiktokTypeOK, tikFiles, tikClients, tikHistory, Go
<1>1. ASSUME NEW b \in Batches, StartBatch(b) PROVE TiktokTypeOK'
    BY <1>1 DEF StartBatch, TikDirs
<1>2. ASSUME NEW b \in Batches, EndBatch(b) PROVE TiktokTypeOK'
    BY <1>2 DEF EndBatch
<1>3. ASSUME NEW t \in Tasks, BeginTask(t) PROVE TiktokTypeOK'
    BY <1>3 DEF BeginTask
<1>4. ASSUME NEW t \in Tasks, LookForClient(t) \/ MakeClient(t) \/ TakeClient(t)
      PROVE  TiktokTypeOK'
    BY <1>4 DEF LookForClient, MakeClient, TakeClient, Discard
<1>5. ASSUME NEW t \in Tasks, PostRequest(t) PROVE TiktokTypeOK'
    BY <1>5 DEF PostRequest
<1>6. ASSUME NEW t \in Tasks, ServerAnswers(t) PROVE TiktokTypeOK'
    BY <1>6 DEF ServerAnswers, Discard
<1>7. ASSUME NEW t \in Tasks, CloseClient(t) PROVE TiktokTypeOK'
    BY <1>7 DEF CloseClient
<1>8. ASSUME NEW t \in Tasks, HeadRequest(t) PROVE TiktokTypeOK'
    BY <1>8 DEF HeadRequest
<1>9. ASSUME NEW t \in Tasks, OpenFile(t) PROVE TiktokTypeOK'
    BY <1>9 DEF OpenFile
<1>10. ASSUME NEW t \in Tasks, WriteFile(t) PROVE TiktokTypeOK'
    BY <1>10 DEF WriteFile
<1>11. CASE UNCHANGED tiktokVars
    BY <1>11 DEF tiktokVars
<1> QED BY <1>1, <1>2, <1>3, <1>4, <1>5, <1>6, <1>7, <1>8, <1>9, <1>10, <1>11 DEF TiktokNext

\* No two batches have been started.
Single == \A b, c \in Batches : batch[b] # "off" /\ batch[c] # "off" => b = c

LEMMA OnceIsSingle == TiktokAssumption /\ ~Twice => Single
<1> SUFFICES ASSUME TiktokAssumption, ~Twice, NEW b \in Batches, NEW c \in Batches,
                    batch[b] # "off", batch[c] # "off", b # c
             PROVE  FALSE
    BY DEF Single
<1> DEFINE B == {d \in Batches : batch[d] # "off"}
<1>1. IsFiniteSet(B) /\ Cardinality(B) \in Nat
  <2>1. B \in SUBSET Batches
      OBVIOUS
  <2> QED BY <2>1, FS_Subset, FS_CardinalityType DEF TiktokAssumption
<1>2. Cardinality({b}) = 1 /\ IsFiniteSet({b})
    BY FS_Singleton
<1>3. Cardinality({b} \cup {c}) = 2
  <2>1. c \notin {b}
      OBVIOUS
  <2>2. Cardinality({b} \cup {c}) = Cardinality({b}) + 1
      BY <1>2, <2>1, FS_AddElement
  <2> QED BY <1>2, <2>2
<1>4. {b} \cup {c} \in SUBSET B
    OBVIOUS
<1>5. 2 <= Cardinality(B)
    BY <1>1, <1>3, <1>4, FS_Subset
<1> QED BY <1>1, <1>5 DEF Twice

\* A download is under way only in a batch that runs; and in the first batch
\* all files go to the directory of the job, each download's to one of its own.
BatchInv ==
    /\ TiktokTypeOK
    /\ \A t \in Tasks : task[t] \notin {"off", "done", "lost"} => batch[t[1]] = "run"
    /\ \A t \in Tasks : task[t] # "off" => batch[t[1]] # "off"
    /\ Single =>
          /\ \A b \in Batches : batch[b] = "run" => storage = JobDir
          /\ \A t \in Tasks : task[t] \notin {"off", "wait"} => into[t] = JobDir
          /\ \A t \in Tasks : task[t] \in {"closeKept", "done"} => file[<<JobDir, t[2]>>] = "whole"

LEMMA BatchSteps ==
    ASSUME BatchInv, NEW b \in Batches, StartBatch(b) \/ EndBatch(b)
    PROVE  BatchInv'
<1>1. TiktokTypeOK'
    BY TiktokTypes DEF BatchInv, TiktokNext
<1> USE DEF TiktokTypeOK
<1>2. CASE StartBatch(b)
  <2>1. /\ batch[b] = "off" /\ batch' = [batch EXCEPT ![b] = "run"] /\ storage' = JobDir
        /\ task' = [t \in Tasks |-> IF t[1] = b THEN "wait" ELSE task[t]]
        /\ UNCHANGED <<into, file>>
      BY <1>2 DEF StartBatch
  <2>2. \A t \in Tasks : /\ task'[t] \notin {"off", "done", "lost"} => batch'[t[1]] = "run"
                         /\ task'[t] # "off" => batch'[t[1]] # "off"
      BY <2>1, TaskParts DEF BatchInv
  <2>3. ASSUME Single', NEW t \in Tasks, t[1] # b PROVE task[t] = "off"
    <3>1. batch'[b] # "off" /\ t[1] \in Batches
        BY <2>1, TaskParts DEF BatchInv
    <3>2. batch[t[1]] = "off"
        BY <2>1, <2>3, <3>1 DEF Single, BatchInv
    <3> QED BY <3>2 DEF BatchInv
  <2>4. \A t \in Tasks : t[1] = b => task'[t] = "wait"
      BY <2>1
  <2>5. \A t \in Tasks : t[1] # b => task'[t] = task[t]
      BY <2>1
  <2> QED BY <1>1, <2>1, <2>2, <2>3, <2>4, <2>5 DEF BatchInv
<1>3. CASE EndBatch(b)
  <2>1. /\ batch[b] = "run" /\ batch' = [batch EXCEPT ![b] = "over"]
        /\ \A t \in Tasks : t[1] = b => task[t] \in {"done", "lost"}
        /\ UNCHANGED <<into, file, task>>
      BY <1>3 DEF EndBatch, tikHistory
  <2>2. \A t \in Tasks : /\ task'[t] \notin {"off", "done", "lost"} => batch'[t[1]] = "run"
                         /\ task'[t] # "off" => batch'[t[1]] # "off"
      BY <2>1, TaskParts DEF BatchInv
  <2>3. Single' => Single
      BY <2>1 DEF Single, BatchInv
  <2>4. Single' => \A c \in Batches : batch'[c] # "run"
      BY <2>1 DEF Single, BatchInv
  <2> QED BY <1>1, <2>1, <2>2, <2>3, <2>4 DEF BatchInv
<1> QED BY <1>2, <1>3

LEMMA BatchTaskSteps ==
    ASSUME BatchInv, NEW t \in Tasks, TiktokAction(t)
    PROVE  BatchInv'
<1>1. TiktokTypeOK'
    BY TiktokTypes DEF BatchInv, TiktokNext, TiktokAction
<1> USE DEF TiktokTypeOK, tikFiles, tikClients, tikHistory, Go
<1>2. UNCHANGED <<batch, storage>> /\ task[t] \notin {"off", "done", "lost"}
    BY DEF TiktokAction, BeginTask, LookForClient, MakeClient, TakeClient, PostRequest,
           ServerAnswers, CloseClient, HeadRequest, OpenFile, WriteFile
<1>3. task' = [task EXCEPT ![t] = task'[t]] /\ task'[t] \notin {"off", "wait"}
    BY DEF BatchInv, TiktokAction, BeginTask, LookForClient, MakeClient, TakeClient, PostRequest,
           ServerAnswers, CloseClient, HeadRequest, OpenFile, WriteFile
<1>4. /\ \A u \in Tasks : task'[u] \notin {"off", "done", "lost"} => batch'[u[1]] = "run"
      /\ \A u \in Tasks : task'[u] # "off" => batch'[u[1]] # "off"
      /\ Single' = Single
    BY <1>2, <1>3 DEF BatchInv, Single
<1>5. CASE BeginTask(t)
  <2>1. into' = [into EXCEPT ![t] = storage] /\ UNCHANGED file /\ task[t] = "wait"
        /\ task'[t] \in {"head", "client"}
      BY <1>5 DEF BeginTask, BatchInv
  <2>2. batch[t[1]] = "run" /\ t[1] \in Batches
      BY <2>1, TaskParts DEF BatchInv
  <2> QED BY <1>1, <1>2, <1>3, <1>4, <2>1, <2>2 DEF BatchInv
<1>6. CASE LookForClient(t) \/ MakeClient(t) \/ PostRequest(t) \/ CloseClient(t) \/ HeadRequest(t)
  <2>1. /\ UNCHANGED <<into, file>> /\ task[t] # "wait"
        /\ task'[t] \in {"closeKept", "done"} => task[t] \in {"closeKept", "done"}
      BY <1>6 DEF LookForClient, MakeClient, PostRequest, CloseClient, HeadRequest, BatchInv
  <2>2. \A u \in Tasks : u # t => task'[u] = task[u]
      BY <1>3 DEF BatchInv
  <2> HIDE DEF TiktokTypeOK, tikFiles, tikClients, tikHistory, Go
  <2>3. \A u \in Tasks : task'[u] \in {"closeKept", "done"} => task[u] \in {"closeKept", "done"}
      BY <2>1, <2>2
  <2>4. \A u \in Tasks : task'[u] \notin {"off", "wait"} => task[u] \notin {"off", "wait"}
    <3>1. task[t] \notin {"off", "wait"}
        BY <1>2, <2>1
    <3> QED BY <2>2, <3>1
  <2>5. ASSUME Single'
        PROVE  /\ \A b \in Batches : batch'[b] = "run" => storage' = JobDir
               /\ \A u \in Tasks : task'[u] \notin {"off", "wait"} => into'[u] = JobDir
               /\ \A u \in Tasks :
                     task'[u] \in {"closeKept", "done"} => file'[<<JobDir, u[2]>>] = "whole"
    <3>1. Single
        BY <1>4, <2>5
    <3> QED BY <1>2, <2>1, <2>3, <2>4, <3>1 DEF BatchInv
  <2> QED BY <1>1, <1>4, <2>5 DEF BatchInv
<1>7. CASE OpenFile(t) \/ WriteFile(t) \/ TakeClient(t) \/ ServerAnswers(t)
  <2>1. /\ UNCHANGED into /\ task[t] \in {"stream", "write", "take", "asked", "askedHeadful"}
        /\ \E x : file' = [file EXCEPT ![FileOf(t)] = x] \/ file' = file
      BY <1>7 DEF OpenFile, WriteFile, TakeClient, ServerAnswers, Discard
  <2>2. ASSUME Single PROVE into[t] = JobDir /\ FileOf(t) = <<JobDir, t[2]>>
      BY <2>1, <2>2 DEF BatchInv, FileOf
  <2>3. ASSUME Single, NEW u \in Tasks, u # t, task[u] # "off" PROVE u[2] # t[2]
    <3>1. batch[u[1]] # "off" /\ batch[t[1]] # "off" /\ u[1] \in Batches /\ t[1] \in Batches
        BY <2>1, <2>3, TaskParts DEF BatchInv
    <3>2. u[1] = t[1]
        BY <2>3, <3>1 DEF Single
    <3> QED BY <2>3, <3>2, TaskParts
  <2>4. ASSUME Single, NEW u \in Tasks, u # t, task[u] \in {"closeKept", "done"}
        PROVE  file'[<<JobDir, u[2]>>] = "whole"
    <3>1. file[<<JobDir, u[2]>>] = "whole" /\ <<JobDir, u[2]>> # FileOf(t)
        BY <2>2, <2>3, <2>4 DEF BatchInv
    <3>2. <<JobDir, u[2]>> \in TikDirs \X Clips
        BY TaskParts DEF TikDirs
    <3>3. file'[<<JobDir, u[2]>>] = file[<<JobDir, u[2]>>]
        BY <2>1, <3>1, <3>2 DEF BatchInv
    <3> QED BY <3>1, <3>3
  <2>5. ASSUME Single, task'[t] \in {"closeKept", "done"} PROVE file'[<<JobDir, t[2]>>] = "whole"
    <3>1. WriteFile(t) /\ file' = [file EXCEPT ![FileOf(t)] =
                                        IF SameFile(t) = {} THEN "whole" ELSE "part"]
        BY <1>7, <2>5 DEF OpenFile, WriteFile, TakeClient, ServerAnswers, BatchInv
    <3>2. SameFile(t) = {}
        BY <2>2, <2>3, <2>5 DEF SameFile, FileOf, BatchInv
    <3>3. FileOf(t) \in TikDirs \X Clips
        BY <2>2, <2>5, TaskParts DEF TikDirs
    <3> QED BY <2>2, <2>5, <3>1, <3>2, <3>3 DEF BatchInv
  <2>6. Single => \A u \in Tasks :
            task'[u] \in {"closeKept", "done"} => file'[<<JobDir, u[2]>>] = "whole"
      BY <1>3, <2>4, <2>5 DEF BatchInv
  <2>7. Single => \A u \in Tasks : task'[u] \notin {"off", "wait"} => into'[u] = JobDir
      BY <1>3, <2>1, <2>2 DEF BatchInv
  <2> QED BY <1>1, <1>2, <1>4, <2>6, <2>7 DEF BatchInv
<1> QED BY <1>5, <1>6, <1>7 DEF TiktokAction

-----------------------------------------------------------------------------
\* Who is busy, and whose the one client is then

NotBusy == {"off", "wait", "done", "lost"}

TikwmInv ==
    /\ open = {}
    /\ \A t \in Tasks : /\ task[t] \in NotBusy \cup {"head", "stream", "write"}
                        /\ task[t] = "lost" => t \in refused

QuietInv ==
    /\ \A t, u \in Tasks : task[t] \notin NotBusy /\ task[u] \notin NotBusy => t = u
    /\ (\A t \in Tasks : task[t] \in NotBusy) => shared = Nobody /\ open = {}
    /\ \A t \in Tasks :
          /\ task[t] # "head"
          /\ task[t] \in {"client", "make"} => shared = Nobody /\ open = {}
          /\ task[t] = "take" => shared = t /\ open = {}
          /\ task[t] = "headless" => shared = t /\ uses[t] = t /\ open = {}
          /\ task[t] \notin NotBusy \cup {"client", "make", "take", "headless"} =>
                shared = t /\ uses[t] = t /\ bound[t] = t /\ open = {t}
          /\ task[t] \in {"close", "lost"} => t \in refused

LossInv ==
    /\ TiktokTypeOK
    /\ \/ strategy = "tikwm" /\ TikwmInv
       \/ strategy = "scrapling" /\ (crowded \/ QuietInv)

LEMMA TikwmStep ==
    ASSUME TiktokTypeOK, strategy = "tikwm", TikwmInv, TiktokNext
    PROVE  strategy' = "tikwm" /\ TikwmInv'
<1> USE DEF TiktokTypeOK, tikFiles, tikClients, tikHistory, Go, TikwmInv, NotBusy
<1>1. ASSUME NEW b \in Batches, StartBatch(b) \/ EndBatch(b) PROVE strategy' = "tikwm" /\ TikwmInv'
    BY <1>1 DEF StartBatch, EndBatch
<1>2. ASSUME NEW t \in Tasks, TiktokAction(t) PROVE strategy' = "tikwm" /\ TikwmInv'
  <2>1. CASE BeginTask(t)
      BY <2>1 DEF BeginTask
  <2>2. CASE HeadRequest(t)
      BY <2>2 DEF HeadRequest
  <2>3. CASE OpenFile(t)
      BY <2>3 DEF OpenFile
  <2>4. CASE WriteFile(t)
      BY <2>4 DEF WriteFile
  <2>5. /\ ~LookForClient(t) /\ ~MakeClient(t) /\ ~TakeClient(t)
        /\ ~PostRequest(t) /\ ~ServerAnswers(t) /\ ~CloseClient(t)
    <3>1. task[t] \notin {"client", "make", "take", "headless", "headful", "asked", "askedHeadful", "close", "closeKept"}
      <4> HIDE DEF TiktokTypeOK, tikFiles, tikClients, tikHistory, Go
      <4> QED OBVIOUS
    <3> QED BY <3>1 DEF LookForClient, MakeClient, TakeClient, PostRequest, ServerAnswers, CloseClient
  <2> QED BY <1>2, <2>1, <2>2, <2>3, <2>4, <2>5 DEF TiktokAction
<1> QED BY <1>1, <1>2 DEF TiktokNext, TiktokAction

\* The batches only let tasks wait that were off.
LEMMA QuietBatches ==
    ASSUME TiktokTypeOK, BatchInv, QuietInv, NEW b \in Batches, StartBatch(b) \/ EndBatch(b)
    PROVE  UNCHANGED <<strategy, crowded>> /\ QuietInv'
<1> USE DEF TiktokTypeOK, tikFiles, tikClients, tikHistory
<1>1. UNCHANGED <<strategy, crowded, tikClients, refused>>
    BY DEF StartBatch, EndBatch
<1>2. \A t \in Tasks : \/ task'[t] = task[t]
                       \/ task[t] \in NotBusy /\ task'[t] = "wait"
  <2>1. CASE StartBatch(b)
    <3>1. \A t \in Tasks : t[1] = b => task[t] = "off"
        BY <2>1 DEF StartBatch, BatchInv
    <3>2. task' = [t \in Tasks |-> IF t[1] = b THEN "wait" ELSE task[t]]
        BY <2>1 DEF StartBatch
    <3> HIDE DEF TiktokTypeOK, tikFiles, tikClients, tikHistory
    <3> QED BY <3>1, <3>2 DEF NotBusy
  <2>2. CASE EndBatch(b)
    <3>1. task' = task
        BY <2>2 DEF EndBatch
    <3> QED BY <3>1
  <2> QED BY <2>1, <2>2
<1> QED BY <1>1, <1>2 DEF QuietInv, NotBusy

LEMMA QuietTasks ==
    ASSUME TiktokTypeOK, strategy = "scrapling", QuietInv, NEW t \in Tasks, TiktokAction(t)
    PROVE  UNCHANGED strategy /\ (crowded' \/ QuietInv')
<1> USE DEF TiktokTypeOK, tikFiles, tikClients, tikHistory, Go, NotBusy
<1>1. CASE BeginTask(t)
  <2>1. /\ UNCHANGED <<strategy, tikClients, refused>> /\ task[t] = "wait"
        /\ task' = [task EXCEPT ![t] = "client"]
        /\ crowded' = (crowded \/ \E b \in Batches : Busy(b) # {})
      BY <1>1 DEF BeginTask
  <2>2. ASSUME ~crowded' PROVE \A u \in Tasks : task[u] \in NotBusy
    <3>1. \A b \in Batches : Busy(b) = {}
        BY <2>1, <2>2
    <3>2. \A u \in Tasks : u \notin Busy(u[1])
        BY <3>1, TaskParts
    <3> QED BY <3>2 DEF Busy
  <2>3. ASSUME ~crowded' PROVE QuietInv'
      BY <2>1, <2>2, <2>3 DEF QuietInv
  <2> QED BY <2>1, <2>3
<1>8. CASE LookForClient(t) \/ MakeClient(t)
  <2>1. /\ UNCHANGED <<strategy, uses, bound, open, refused>> /\ task[t] \in {"client", "make"}
        /\ task' = [task EXCEPT ![t] = task'[t]]
        /\ shared = Nobody /\ open = {}
        /\ \/ task'[t] = "make" /\ shared' = shared
           \/ task'[t] = "take" /\ shared' = t
      BY <1>8 DEF LookForClient, MakeClient, QuietInv
  <2> QED BY <2>1 DEF QuietInv
<1>2. CASE TakeClient(t)
  <2>0. shared = t /\ t # Nobody
      BY <1>2, TiktokAssumption DEF TakeClient, QuietInv, TiktokAssumption
  <2>1. /\ UNCHANGED <<strategy, shared, bound, open, refused>> /\ task[t] = "take"
        /\ task' = [task EXCEPT ![t] = "headless"]
        /\ shared = t /\ uses' = [uses EXCEPT ![t] = t] /\ open = {}
      BY <1>2, <2>0 DEF TakeClient, QuietInv
  <2> QED BY <2>1 DEF QuietInv
<1>3. CASE PostRequest(t)
  <2>1. /\ UNCHANGED <<strategy, shared, uses, refused>>
        /\ task[t] \in {"headless", "headful"} /\ uses[t] = t /\ shared = t
        /\ task' = [task EXCEPT ![t] = task'[t]] /\ task'[t] \in {"asked", "askedHeadful"}
        /\ bound' = [bound EXCEPT ![t] = t] /\ open' = (open \ {bound[t]}) \cup {t}
        /\ open = {} \/ open = {t}
    <3>1. /\ UNCHANGED <<strategy, shared, uses, refused>>
          /\ task[t] \in {"headless", "headful"}
          /\ task' = [task EXCEPT ![t] = IF task[t] = "headless" THEN "asked" ELSE "askedHeadful"]
          /\ bound' = [bound EXCEPT ![uses[t]] = t]
          /\ open' = (open \ {bound[uses[t]]}) \cup {t}
        BY <1>3 DEF PostRequest
    <3>2. /\ task[t] = "headless" => shared = t /\ uses[t] = t /\ open = {}
          /\ task[t] = "headful" => shared = t /\ uses[t] = t /\ open = {t}
        BY DEF QuietInv
    <3> QED BY <3>1, <3>2
  <2>2. open' = {t}
      BY <2>1
  <2> QED BY <2>1, <2>2 DEF QuietInv
<1>4. CASE ServerAnswers(t)
  <2>1. /\ UNCHANGED <<strategy, tikClients>> /\ task[t] \in {"asked", "askedHeadful"}
        /\ open = {t} /\ shared = t /\ uses[t] = t /\ bound[t] = t
        /\ task' = [task EXCEPT ![t] = task'[t]]
        /\ \/ task'[t] \in {"stream", "headful"} /\ refused' = refused
           \/ task'[t] = "close" /\ refused' = refused \cup {t}
      BY <1>4 DEF ServerAnswers, QuietInv
  <2> QED BY <2>1 DEF QuietInv
<1>5. CASE CloseClient(t)
  <2>1. /\ UNCHANGED <<strategy, uses, refused>> /\ task[t] \in {"close", "closeKept"}
        /\ shared = t /\ open = {t} /\ bound[t] = t
        /\ task' = [task EXCEPT ![t] = task'[t]]
        /\ task'[t] = (IF task[t] = "closeKept" THEN "done" ELSE "lost")
      BY <1>5 DEF CloseClient, QuietInv
  <2>2. shared' = Nobody /\ open' = {}
    <3>1. t # Nobody
        BY TiktokAssumption DEF TiktokAssumption
    <3> QED BY <1>5, <2>1, <3>1 DEF CloseClient
  <2>3. \A u \in Tasks : u # t => task'[u] = task[u] /\ task[u] \in NotBusy
      BY <2>1 DEF QuietInv
  <2> QED BY <2>1, <2>2, <2>3 DEF QuietInv
<1>6. CASE HeadRequest(t)
    BY <1>6 DEF HeadRequest, QuietInv
<1>7. CASE OpenFile(t) \/ WriteFile(t)
  <2>1. /\ UNCHANGED <<strategy, tikClients>> /\ task[t] \in {"stream", "write"}
        /\ task' = [task EXCEPT ![t] = task'[t]]
        /\ \/ task'[t] \in {"write", "closeKept"} /\ refused' = refused
           \/ task'[t] = "close" /\ refused' = refused \cup {t}
      BY <1>7 DEF OpenFile, WriteFile
  <2> QED BY <2>1 DEF QuietInv
<1> QED BY <1>1, <1>2, <1>3, <1>4, <1>5, <1>6, <1>7, <1>8 DEF TiktokAction

\* However the downloads of the batches interleave: a single batch returns whole
\* files in the job's directory, and no video is lost but by a server or by
\* downloads side by side.
THEOREM DownloadsHonestHolds == TiktokSpec => []DownloadsHonest
<1>1. TiktokInit => BatchInv /\ LossInv
  <2> SUFFICES ASSUME TiktokInit PROVE BatchInv /\ LossInv
      OBVIOUS
  <2>1. TiktokTypeOK
      BY DEF TiktokInit, TiktokTypeOK, TikDirs
  <2>2. BatchInv
      BY <2>1 DEF TiktokInit, BatchInv
  <2>3. TikwmInv /\ QuietInv
      BY DEF TiktokInit, TikwmInv, QuietInv, NotBusy
  <2> QED BY <2>1, <2>2, <2>3 DEF TiktokInit, LossInv
<1>2. BatchInv /\ [TiktokNext]_tiktokVars => BatchInv'
  <2> SUFFICES ASSUME BatchInv, [TiktokNext]_tiktokVars PROVE BatchInv'
      OBVIOUS
  <2>1. CASE UNCHANGED tiktokVars
      BY <2>1 DEF tiktokVars, tikFiles, BatchInv, TiktokTypeOK, Single, tikClients
  <2> QED BY <2>1, BatchSteps, BatchTaskSteps DEF TiktokNext, TiktokAction
<1>3. BatchInv /\ LossInv /\ [TiktokNext]_tiktokVars => LossInv'
  <2> SUFFICES ASSUME BatchInv, LossInv, [TiktokNext]_tiktokVars PROVE LossInv'
      OBVIOUS
  <2>1. TiktokTypeOK'
      BY TiktokTypes DEF LossInv
  <2>2. CASE UNCHANGED tiktokVars
      BY <2>1, <2>2 DEF tiktokVars, tikFiles, tikClients, tikHistory, LossInv, TikwmInv, QuietInv
  <2>3. CASE TiktokNext /\ strategy = "tikwm" /\ TikwmInv
      BY <2>1, <2>3, TikwmStep DEF LossInv
  <2>4. CASE TiktokNext /\ strategy = "scrapling" /\ crowded
    <3>1. strategy' = strategy /\ crowded'
        BY <2>4 DEF TiktokNext, StartBatch, EndBatch, BeginTask, LookForClient, MakeClient, TakeClient, PostRequest,
                    ServerAnswers, CloseClient, HeadRequest, OpenFile, WriteFile, tikHistory
    <3> QED BY <2>1, <2>4, <3>1 DEF LossInv
  <2>5. CASE TiktokNext /\ strategy = "scrapling" /\ QuietInv
    <3>1. strategy' = strategy /\ (crowded' \/ QuietInv')
        BY <2>5, QuietBatches, QuietTasks DEF TiktokNext, TiktokAction, LossInv
    <3> QED BY <2>1, <2>5, <3>1 DEF LossInv
  <2> QED BY <2>2, <2>3, <2>4, <2>5 DEF LossInv
<1>4. BatchInv /\ LossInv => DownloadsHonest
  <2> SUFFICES ASSUME BatchInv, LossInv PROVE DownloadsHonest
      OBVIOUS
  <2>1. ResultsWhole
      BY OnceIsSingle, TiktokAssumption DEF BatchInv, ResultsWhole, FileOf
  <2>2. LossExplained
    <3>1. CASE strategy = "tikwm" /\ TikwmInv
      <4>1. \A t \in Tasks : task[t] # "close" /\ (task[t] = "lost" => t \in refused)
          BY <3>1 DEF TikwmInv, NotBusy
      <4> QED BY <3>1, <4>1 DEF LossExplained, TikwmInv
    <3>2. CASE strategy = "scrapling" /\ QuietInv
      <4>1. ASSUME NEW t \in open PROVE task[t] \notin {"done", "lost"}
        <5>1. open # {} /\ t \in Tasks
            BY <4>1 DEF LossInv, TiktokTypeOK
        <5>2. PICK u \in Tasks : task[u] \notin NotBusy
            BY <3>2, <5>1 DEF QuietInv
        <5>3. open = {u}
            BY <3>2, <5>1, <5>2 DEF QuietInv
        <5> QED BY <4>1, <5>2, <5>3 DEF NotBusy
      <4>2. \A t \in Tasks : task[t] \in {"close", "lost"} => t \in refused
          BY <3>2 DEF QuietInv
      <4> QED BY <4>1, <4>2 DEF LossExplained
    <3> QED BY <3>1, <3>2 DEF LossInv, LossExplained
  <2> QED BY <2>1, <2>2 DEF DownloadsHonest
<1> QED BY <1>1, <1>2, <1>3, <1>4, PTL DEF TiktokSpec

-----------------------------------------------------------------------------
\* The files of YouTube
\*
\* The title parts the downloads: a file is written and renamed by downloads of
\* its own title alone, and what others take from the directory is empty or old.
\* So a file that is neither, and on whose title none but its holder has worked
\* since it was given out, is as it was.

SafeFile(d) ==
    local[d] \in disk \ (empty \cup aged) /\ ~Shared(d, local[d])

HeldInv == \A d \in Downloads : tube[d] \in Holding => SafeFile(d) \/ d \in frail

FilesInv == YoutubeTypeOK /\ HeldInv

LEMMA FilesInit == YoutubeInit => FilesInv
<1> SUFFICES ASSUME YoutubeInit PROVE FilesInv
    OBVIOUS
<1> USE YoutubeAssumption DEF YoutubeInit
<1>1. YoutubeTypeOK
    BY DEF YoutubeTypeOK
<1>2. HeldInv
    BY DEF HeldInv, Holding
<1> QED BY <1>1, <1>2 DEF FilesInv

\* A step of one download.
TubeStep(d) ==
    CheckExisting(d) \/ NoDirectory(d) \/ YtdlpWrites(d) \/ YtdlpFinishes(d)
    \/ YtdlpFails(d) \/ ProcessFile(d) \/ CleanUp(d)

LEMMA TypeStep == YoutubeTypeOK /\ [YoutubeNext]_tubeVars => YoutubeTypeOK'
<1> SUFFICES ASSUME YoutubeTypeOK, [YoutubeNext]_tubeVars PROVE YoutubeTypeOK'
    OBVIOUS
<1> USE YoutubeAssumption DEF YoutubeTypeOK, TubeGo, Glob, tubeFiles, Working, Holding
<1>1. ASSUME NEW d \in Downloads PROVE Part(d[1]) \in TubeFiles /\ Whole(d[1]) \in TubeFiles
    BY DEF Part, Whole, TubeFiles
<1>2. ASSUME NEW d \in Downloads, CheckExisting(d) PROVE YoutubeTypeOK'
    BY Zenon, <1>2 DEF CheckExisting, TakeFile
<1>3. ASSUME NEW d \in Downloads, NoDirectory(d) \/ CleanUp(d) PROVE YoutubeTypeOK'
    BY <1>3 DEF NoDirectory, CleanUp
<1>4. ASSUME NEW d \in Downloads, YtdlpWrites(d) PROVE YoutubeTypeOK'
    BY <1>1, <1>4 DEF YtdlpWrites
<1>5. ASSUME NEW d \in Downloads, YtdlpFinishes(d) PROVE YoutubeTypeOK'
    BY <1>1, <1>5 DEF YtdlpFinishes, Rename
<1>6. ASSUME NEW d \in Downloads, YtdlpFails(d) PROVE YoutubeTypeOK'
    BY <1>1, <1>6 DEF YtdlpFails, RetryOrFail, LastTry, Rename
<1>7. ASSUME NEW d \in Downloads, ProcessFile(d) PROVE YoutubeTypeOK'
  <2>1. /\ \E stage \in {"lost", "fetch", "clean"} : TubeGo(d, stage)
        /\ local' = local \/ \E f \in disk : local' = [local EXCEPT ![d] = f]
        /\ frail' = frail \/ frail' = frail \cup {d}
      BY <1>7 DEF ProcessFile, EmptyFile, TakeFile, RetryOrFail
  <2>2. UNCHANGED tubeFiles \/ \E f \in disk : disk' = disk \ {f} /\ empty' = empty \ {f}
                                                /\ aged' = aged \ {f}
      BY <1>7 DEF ProcessFile, EmptyFile
  <2>3. /\ tubeStarts' = tubeStarts
        /\ \/ tubeTry' = tubeTry
           \/ tubeTry[d] # MaxRetries - 1 /\ tubeTry' = [tubeTry EXCEPT ![d] = tubeTry[d] + 1]
      BY <1>7 DEF ProcessFile, EmptyFile, RetryOrFail, LastTry
  <2>4. tubeTry' \in [Downloads -> 0..MaxRetries-1]
      BY <2>3
  <2>5. tube' \in [Downloads -> {"wait", "lost"} \cup Working \cup Holding]
      BY <2>1
  <2>6. local' \in [Downloads -> TubeFiles \cup {NoFile}] /\ frail' \subseteq Downloads
      BY <2>1
  <2>7. disk' \subseteq TubeFiles /\ empty' \subseteq disk' /\ aged' \subseteq disk'
      BY <2>2
  <2> QED BY <2>3, <2>4, <2>5, <2>6, <2>7
<1>8. CASE Restart
    BY <1>8 DEF Restart
<1>9. CASE UNCHANGED tubeVars
    BY <1>9 DEF tubeVars
<1> QED BY <1>2, <1>3, <1>4, <1>5, <1>6, <1>7, <1>8, <1>9 DEF YoutubeNext

\* What a download is given is safe, or the download is marked.
LEMMA TakeIsSafe ==
    ASSUME YoutubeTypeOK, NEW d \in Downloads, NEW f \in disk, NEW stage \in Holding,
           TakeFile(d, f, stage), UNCHANGED tubeFiles
    PROVE  SafeFile(d)' \/ d \in frail'
<1>1. local'[d] = f /\ \A e \in Downloads \ {d} : tube'[e] = tube[e]
    BY DEF TakeFile, TubeGo, YoutubeTypeOK
<1>2. CASE f \in empty \cup aged \/ Shared(d, f)
    BY <1>2 DEF TakeFile
<1>3. CASE ~(f \in empty \cup aged \/ Shared(d, f))
    BY <1>1, <1>3 DEF SafeFile, Shared, tubeFiles
<1> QED BY <1>2, <1>3

\* A step of one download leaves the file of another safe.
LEMMA OthersKeep ==
    ASSUME YoutubeTypeOK, NEW d \in Downloads, TubeStep(d),
           NEW e \in Downloads \ {d}, tube[e] \in Holding, SafeFile(e), e \notin frail'
    PROVE  SafeFile(e)'
<1> DEFINE f == local[e]
<1> USE DEF TubeGo, YoutubeTypeOK
<1>1. /\ local'[e] = f
      /\ \A x \in Downloads \ {d} : tube'[x] = tube[x]
    BY DEF TubeStep, CheckExisting, NoDirectory, YtdlpWrites, YtdlpFinishes, YtdlpFails,
           RetryOrFail, ProcessFile, EmptyFile, TakeFile, CleanUp
<1>2. tube'[d] \in Working => tube[d] \in Working \/ f[1] # d[1]
  <2>1. CASE CheckExisting(d)
      BY <2>1 DEF CheckExisting, TakeFile, Working
  <2>2. CASE ~CheckExisting(d)
      BY <2>2 DEF TubeStep, NoDirectory, YtdlpWrites, YtdlpFinishes, YtdlpFails, ProcessFile,
                  CleanUp, Working
  <2> QED BY <2>1, <2>2
<1>3. ~Shared(e, f)'
    BY <1>1, <1>2 DEF SafeFile, Shared
<1>4. tube[d] \in Working => f # Part(d[1]) /\ f # Whole(d[1])
    BY DEF SafeFile, Shared, Part, Whole
<1>5. f \in disk' \ (empty' \cup aged')
  <2>0. f \in disk \ (empty \cup aged)
      BY DEF SafeFile
  <2>1. CASE UNCHANGED tubeFiles
      BY <2>0, <2>1 DEF tubeFiles
  <2>2. CASE YtdlpWrites(d)
      BY <1>4, <2>0, <2>2 DEF YtdlpWrites, Working
  <2>3. CASE tube[d] = "write" /\ Rename(d[1])
      BY <1>4, <2>0, <2>3 DEF Rename, Working
  <2>4. CASE CleanUp(d)
      BY <2>0, <2>4 DEF CleanUp
  <2>5. CASE ProcessFile(d)
      BY <2>0, <2>1, <2>5 DEF ProcessFile, EmptyFile
  <2> QED BY <2>1, <2>2, <2>3, <2>4, <2>5
          DEF TubeStep, CheckExisting, NoDirectory, YtdlpFinishes, YtdlpFails
<1> QED BY <1>1, <1>3, <1>5 DEF SafeFile, Shared

\* A download that holds a file after its step was given it by the step, or goes
\* from the clean-up on.
LEMMA OwnKeeps ==
    ASSUME YoutubeTypeOK, HeldInv, NEW d \in Downloads, TubeStep(d), tube'[d] \in Holding
    PROVE  SafeFile(d)' \/ d \in frail'
<1> USE DEF TubeGo, YoutubeTypeOK
<1>1. CASE CheckExisting(d)
  <2>1. PICK f \in disk : TakeFile(d, f, "done")
      BY <1>1 DEF CheckExisting, Glob, Holding
  <2> QED BY <1>1, <2>1, TakeIsSafe DEF CheckExisting, Holding
<1>2. CASE ProcessFile(d)
  <2>1. PICK f \in disk : TakeFile(d, f, "clean") /\ UNCHANGED tubeFiles
      BY <1>2 DEF ProcessFile, EmptyFile, RetryOrFail, Glob, Holding
  <2> QED BY <2>1, TakeIsSafe DEF Holding
<1>3. CASE CleanUp(d)
  <2>1. tube[d] \in Holding /\ local' = local /\ frail' = frail
        /\ \A e \in Downloads \ {d} : tube'[e] = tube[e]
      BY <1>3 DEF CleanUp, Holding
  <2>2. SafeFile(d) => SafeFile(d)'
      BY <1>3, <2>1 DEF CleanUp, SafeFile, Shared
  <2> QED BY <2>1, <2>2 DEF HeldInv
<1> QED BY <1>1, <1>2, <1>3
        DEF TubeStep, NoDirectory, YtdlpWrites, YtdlpFinishes, YtdlpFails, RetryOrFail, Holding

LEMMA FilesStep == FilesInv /\ [YoutubeNext]_tubeVars => FilesInv'
<1> SUFFICES ASSUME FilesInv, [YoutubeNext]_tubeVars PROVE HeldInv'
    BY TypeStep DEF FilesInv
<1> USE DEF FilesInv
<1>1. ASSUME NEW d \in Downloads, TubeStep(d) PROVE HeldInv'
  <2> SUFFICES ASSUME NEW e \in Downloads, tube'[e] \in Holding, e \notin frail'
               PROVE  SafeFile(e)'
      BY DEF HeldInv
  <2>1. CASE e = d
      BY <1>1, <2>1, OwnKeeps
  <2>2. CASE e # d
    <3>1. tube'[e] = tube[e] /\ frail \subseteq frail'
        BY <1>1, <2>2 DEF YoutubeTypeOK, TubeGo, TubeStep, CheckExisting, NoDirectory, YtdlpWrites,
           YtdlpFinishes, YtdlpFails, RetryOrFail, ProcessFile, EmptyFile, TakeFile, CleanUp
    <3> QED BY <1>1, <2>2, <3>1, OthersKeep DEF HeldInv
  <2> QED BY <2>1, <2>2
<1>2. CASE Restart
    BY <1>2 DEF Restart, HeldInv, Holding
<1>3. CASE UNCHANGED tubeVars
    BY <1>3 DEF tubeVars, tubeFiles, HeldInv, SafeFile, Shared
<1> QED BY <1>1, <1>2, <1>3 DEF YoutubeNext, TubeStep

\* Whatever the titles match, and whichever downloads run beside it: a path that
\* was returned for a file with content and of this process's days is that file
\* still, if no other download works on its title.
THEOREM LocalFileKeptHolds == YoutubeSpec => []LocalFileKept
<1>1. YoutubeSpec => []FilesInv
    BY FilesInit, FilesStep, PTL DEF YoutubeSpec
<1>2. FilesInv => LocalFileKept
    BY DEF FilesInv, HeldInv, SafeFile, LocalFileKept
<1> QED BY <1>1, <1>2, PTL
=============================================================================
