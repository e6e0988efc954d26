----------------------------- MODULE MCServices -----------------------------
(***************************************************************************)
(* Small instances of the parts that share no state with another: of       *)
(* video-crawler its handler, its searches, downloads and extractions and  *)
(* the streaming pipeline, of dropship-product-finder the search on eBay,  *)
(* of product-segmentor the making of a mask, of the library the message   *)
(* broker and the migrations.  A behaviour is one of a single part, which  *)
(* `part` names; the others stay in one initial state.                     *)
(***************************************************************************)
EXTENDS VideoCrawl, VideoSearch, StreamPipeline, TiktokDownload, YoutubeDownload,
        Keyframes, Broker, Migrations, EbaySearch, MaskMaking, TLC

VARIABLE part

\* Two results of one video, as when a platform is named twice, and another.
MCResults == {"a", "b", "c"}
MCVideoOf == "a" :> "v" @@ "b" :> "v" @@ "c" :> "w"
MCKeyframesOf == "v" :> 2 @@ "w" :> 1

\* Answers that share ids and titles, lack them, or lack a duration; query "r"
\* has too few usable entries for any number of attempts.
MCAsked == {<<>>, <<"q", "e", "u">>, <<"u", "q">>, <<"q", "r">>}
MCAnswers == "q" :> <<"a", "b", "c", "d">> @@ "u" :> <<"b", "e", "f">> @@ "r" :> <<"e", "d">>
MCIdOf == "a" :> 1 @@ "b" :> 2 @@ "c" :> 0 @@ "d" :> 3 @@ "e" :> 2 @@ "f" :> 0
MCTitleOf == "a" :> 1 @@ "b" :> 0 @@ "c" :> 1 @@ "d" :> 0 @@ "e" :> 2 @@ "f" :> 2
MCWithDuration == {"b", "c", "d", "f"}

\* Two searches that find one video both, and a queue that fills.
MCStreamedBy == "q" :> <<"a", "b">> @@ "r" :> <<"a">>

\* Two batches at once; the first downloads side by side.
MCClipsOf == <<{"a", "b"}, {"a"}>>

\* Two downloads of one title, and one of another that begins with it.
MCDownloads == {<<"a", 1>>, <<"a", 2>>, <<"b", 1>>}
MCGlobMatches == {<<"a", "a">>, <<"a", "b">>, <<"b", "b">>}

\* Codecs of each route; no scene, one long one, short ones that follow each
\* other closely or run past the end; a length that cannot be read.
Video(codec, length, scenes) == [codec |-> codec, length |-> length, scenes |-> scenes]
MCFootage == {
    Video("h264", 8000, <<>>), Video("h264", 12000, << <<0, 12100>> >>),
    Video("h264", 0, << <<0, 700>>, <<700, 1500>> >>),
    Video("unknown", 4000, << <<500, 520>>, <<520, 540>>, <<3970, 3990>>, <<3990, 4010>>,
                              <<4010, 4100>> >>),
    Video("av1", 0, <<>>), Video("av1", 16000, << <<0, 300>>, <<300, 900>>, <<900, 16000>> >>)}

Item(name, product, price) == [name |-> name, product |-> product, price |-> price]

\* Variants of one product at two prices and at two marketplaces, and an item
\* that cannot be read.
A1 == Item("a1", "a", 30)
A2 == Item("a2", "a", 20)
B1 == Item("b1", "b", 25)
C1 == Item("c1", "c", 10)
D1 == Item("d1", "d", 22)
MCItems == {A1, A2, B1, C1, D1}
MCShelves == {<< <<A1, B1, A2, D1>>, <<C1, A2>> >>, << <<A1, D1>>, <<D1, C1, A2>> >>}
MCMisshapen == {B1}

\* Both deliveries are of one image.
MCImageOf == [d \in Deliveries |-> "i"]

ServicesInit ==
    /\ part \in {"crawl", "search", "pipe", "tiktok", "tube", "reel", "broker", "migrations",
                "ebay", "mask"}
    /\ CrawlInit      /\ (part # "crawl" => videoRows = {})
    /\ SearchInit     /\ (part # "search" => skind = "tiktok" /\ asked = <<>> /\ ~headful)
    /\ PipelineInit   /\ (part # "pipe" => mode = "batch" /\ existing = {})
    /\ TiktokInit     /\ (part # "tiktok" => strategy = "tikwm")
    /\ YoutubeInit    /\ Cardinality(disk) <= 1 /\ (part # "tube" => disk = {})
    /\ KeyframesInit  /\ (part # "reel" => footage = Video("h264", 8000, <<>>) /\ ~wrapped)
    /\ BrokerInit
    /\ MigrationsInit /\ (part # "migrations" => revision = 0)
    /\ EbayInit
    /\ (part # "ebay" => shelf = << <<A1, D1>>, <<D1, C1, A2>> >> /\ topK = 0 /\ ~token)
    /\ MaskInit       /\ (part # "mask" => weights = "good")

\* A step of one part: the others stay as they are.
Only(name) ==
    /\ part = name /\ UNCHANGED part
    /\ name # "crawl" => UNCHANGED crawlVars
    /\ name # "search" => UNCHANGED searchVars
    /\ name # "pipe" => UNCHANGED pipeVars
    /\ name # "tiktok" => UNCHANGED tiktokVars
    /\ name # "tube" => UNCHANGED tubeVars
    /\ name # "reel" => UNCHANGED reelVars
    /\ name # "broker" => UNCHANGED brokerVars
    /\ name # "migrations" => UNCHANGED migrationVars
    /\ name # "ebay" => UNCHANGED ebayVars
    /\ name # "mask" => UNCHANGED maskVars

ServicesNext ==
    \/ Only("crawl") /\ CrawlNext
    \/ Only("search") /\ SearchNext
    \/ Only("pipe") /\ PipelineNext
    \/ Only("tiktok") /\ TiktokNext
    \/ Only("tube") /\ YoutubeNext
    \/ Only("reel") /\ KeyframesNext
    \/ Only("broker") /\ BrokerNext
    \/ Only("migrations") /\ MigrationsNext
    \/ Only("ebay") /\ EbayNext
    \/ Only("mask") /\ MaskNext

ServicesSpec ==
    ServicesInit /\ [][ServicesNext]_<<part, crawlVars, searchVars, pipeVars, tiktokVars,
        tubeVars, reelVars, brokerVars, migrationVars, ebayVars, maskVars>>

\* Bounds: two downloads in the first process, the second of a title after the
\* first, and one in the next.
FewDownloads ==
    LET begun == {d \in Downloads : tube[d] # "wait"} IN
    /\ Cardinality(begun) <= IF tubeStarts = 1 THEN 2 ELSE 1
    /\ <<"a", 2>> \in begun => <<"a", 1>> \in begun

\* Bounds: two of the three downloads of TikTok side by side.
TwoAtOnce == Cardinality(UNION {Busy(b) : b \in Batches}) <= 2

\* Bounds: a removal that fails leaves no more than one file.
LittleLitter == litter /\ reel # "frames" => Cardinality(folder) <= 1

\* Bounds: one fault or crash in a crawl, and then two results of the three.
OneCrawlMishap ==
    /\ crawlCrashes + crawlFaults <= 1
    /\ crawlCrashes + crawlFaults = 1 => \E s \in Results : vpc[s] = "off"

-----------------------------------------------------------------------------
\* Properties

\* The variables of every part keep their types.
ServicesTypeOK ==
    /\ CrawlTypeOK /\ SearchTypeOK /\ PipelineTypeOK /\ TiktokTypeOK /\ YoutubeTypeOK
    /\ KeyframesTypeOK /\ BrokerTypeOK /\ MigrationsTypeOK /\ EbayTypeOK /\ MaskTypeOK
=============================================================================
