---------------------------- MODULE ServicesProofs ---------------------------
(***************************************************************************)
(* The parts of MCServices together, for every value of their constants.   *)
(* Proved of parts here: the masks of product-segmentor, and that searches,*)
(* extractions, downloads and migrations end, by a number that each of     *)
(* their steps makes smaller.  In a behaviour of the composition a part    *)
(* makes its own steps only (PartsHold), so the types are those of the     *)
(* parts.                                                                  *)
(***************************************************************************)
EXTENDS MCServices, VideoCrawlerProofs, PlacesProofs, LibraryProofs

-----------------------------------------------------------------------------
(***************************************************************************)
(* The masks of the segmentor.  MaskWhole speaks of one file that several  *)
(* deliveries write and whose content each takes from steps long before.   *)
(* Its invariant follows the content: from the step that takes the people  *)
(* out, over what a delivery holds while it saves, to the file.            *)
(***************************************************************************)

Contents == {"none", "all", "people", "product"}

\* What a mask of the product folder may show, for an image.
Fit(i, content) ==
    \/ content = "product"
    \/ content = "all" /\ \E e \in spared : ImageOf[e] = i

MaskTypesInv ==
    /\ MaskTypeOK
    /\ png \in [Folders -> [Images -> Contents]] /\ held \in [Deliveries -> Contents]

MaskFilesInv == \A i \in Images : png["product"][i] = "none" \/ Fit(i, png["product"][i])

Saving(d) == mask[d] \in {"write", "move"} /\ target[d] = "product"

SavingInv == \A d \in Deliveries : Saving(d) => Fit(ImageOf[d], held[d])

ReturnedInv == \A d \in Deliveries : path[d] => png["product"][ImageOf[d]] # "none"

MaskInv == MaskTypesInv /\ MaskFilesInv /\ SavingInv /\ ReturnedInv

LEMMA ImagesOf == \A d \in Deliveries : ImageOf[d] \in Images
BY DEF Images

LEMMA MaskInvInit == MaskInit => MaskInv
BY MaskAssumption, ImagesOf
   DEF MaskInit, MaskInv, MaskTypesInv, MaskTypeOK, MaskFilesInv, SavingInv, Saving, ReturnedInv,
       Folders, Contents

LEMMA MaskTypesStep == MaskTypesInv /\ [MaskNext]_maskVars => MaskTypesInv'
<1> SUFFICES ASSUME MaskTypesInv, [MaskNext]_maskVars PROVE MaskTypesInv'
    OBVIOUS
<1> USE MaskAssumption, ImagesOf DEF MaskTypesInv, MaskTypeOK, MaskTo, Folders, Contents
<1>1. CASE LoadModel BY <1>1 DEF LoadModel
<1>2. CASE Stop BY <1>2 DEF Stop
<1>3. ASSUME NEW d \in Deliveries, SegmentForeground(d) PROVE MaskTypesInv'
    BY <1>3 DEF SegmentForeground
<1>4. ASSUME NEW d \in Deliveries, WriteTemp(d) PROVE MaskTypesInv'
    BY <1>4 DEF WriteTemp, SaveFailed
<1>5. ASSUME NEW d \in Deliveries, MoveTemp(d) PROVE MaskTypesInv'
  <2>1. png' \in [Folders -> [Images -> Contents]]
      BY <1>5 DEF MoveTemp
  <2>2. path' \in [Deliveries -> BOOLEAN]
      BY <1>5 DEF MoveTemp, SaveDone, SaveFailed
  <2>3. mask' \in [Deliveries -> {"wait", "write", "move", "read", "people", "subtract",
                                  "returned", "failed"}]
      BY <1>5 DEF MoveTemp, SaveDone, SaveFailed
  <2>4. temps' \subseteq Deliveries \X Folders
      BY <1>5 DEF MoveTemp
  <2> QED BY <1>5, <2>1, <2>2, <2>3, <2>4 DEF MoveTemp
<1>6. ASSUME NEW d \in Deliveries, ReadForeground(d) PROVE MaskTypesInv'
  <2>1. png["foreground"][ImageOf[d]] \in Contents
      OBVIOUS
  <2> QED BY <1>6, <2>1 DEF ReadForeground
<1>7. ASSUME NEW d \in Deliveries, SegmentPeople(d) PROVE MaskTypesInv'
    BY <1>7 DEF SegmentPeople
<1>8. ASSUME NEW d \in Deliveries, Subtract(d) PROVE MaskTypesInv'
    BY <1>8 DEF Subtract
<1>9. CASE UNCHANGED maskVars BY <1>9 DEF maskVars
<1> QED BY <1>1, <1>2, <1>3, <1>4, <1>5, <1>6, <1>7, <1>8, <1>9 DEF MaskNext

\* What was fit stays fit: a delivery that was spared the subtraction is not
\* forgotten.
LEMMA FitLasts ==
    ASSUME [MaskNext]_maskVars
    PROVE  \A i, content : Fit(i, content) => Fit(i, content)'
<1>1. spared \subseteq spared'
    BY DEF MaskNext, maskVars, LoadModel, Stop, SegmentForeground, WriteTemp, MoveTemp,
           ReadForeground, SegmentPeople, Subtract
<1> QED BY <1>1 DEF Fit

\* The product folder is written by a delivery that saves a product, with what
\* it holds; nothing else touches it, and no file is removed.
LEMMA ProductFolder ==
    ASSUME MaskTypesInv, [MaskNext]_maskVars
    PROVE  \/ png'["product"] = png["product"]
           \/ \E d \in Deliveries :
                 Saving(d) /\ png'["product"] = [png["product"] EXCEPT ![ImageOf[d]] = held[d]]
<1> USE DEF MaskTypesInv, MaskTypeOK, Folders
<1>1. ASSUME NEW d \in Deliveries, MoveTemp(d)
      PROVE  \/ png'["product"] = png["product"]
             \/ Saving(d) /\ png'["product"] = [png["product"] EXCEPT ![ImageOf[d]] = held[d]]
    BY <1>1 DEF MoveTemp, Saving
<1>2. (\E d \in Deliveries : MoveTemp(d)) \/ UNCHANGED png
    BY DEF MaskNext, maskVars, LoadModel, Stop, SegmentForeground, WriteTemp,
           ReadForeground, SegmentPeople, Subtract
<1> QED BY <1>1, <1>2

LEMMA SavingStep ==
    ASSUME MaskTypesInv, SavingInv, [MaskNext]_maskVars
    PROVE  SavingInv'
<1> SUFFICES ASSUME NEW e \in Deliveries, Saving(e)' PROVE Fit(ImageOf[e], held[e])'
    BY DEF SavingInv
<1> USE DEF MaskTypesInv, MaskTypeOK, MaskTo, Folders
<1>old. ASSUME Saving(e), held'[e] = held[e] PROVE Fit(ImageOf[e], held[e])'
    BY <1>old, FitLasts DEF SavingInv, Fit
<1>1. ASSUME NEW d \in Deliveries, Subtract(d), d = e PROVE Fit(ImageOf[e], held[e])'
    BY <1>1 DEF Subtract, Fit
<1>2. ASSUME NEW d \in Deliveries, Subtract(d), d # e PROVE Saving(e) /\ held'[e] = held[e]
    BY <1>2 DEF Subtract, Saving
<1>3. ASSUME NEW d \in Deliveries, SegmentForeground(d) PROVE Saving(e) /\ held'[e] = held[e]
    BY <1>3 DEF SegmentForeground, Saving
<1>4. ASSUME NEW d \in Deliveries, WriteTemp(d) PROVE Saving(e) /\ held'[e] = held[e]
    BY <1>4 DEF WriteTemp, SaveFailed, Saving
<1>5. ASSUME NEW d \in Deliveries, MoveTemp(d) PROVE Saving(e) /\ held'[e] = held[e]
    BY <1>5 DEF MoveTemp, SaveDone, SaveFailed, Saving
<1>6. ASSUME NEW d \in Deliveries, ReadForeground(d) PROVE Saving(e) /\ held'[e] = held[e]
    BY <1>6 DEF ReadForeground, Saving
<1>7. ASSUME NEW d \in Deliveries, SegmentPeople(d) PROVE Saving(e) /\ held'[e] = held[e]
    BY <1>7 DEF SegmentPeople, Saving
<1>8. CASE LoadModel \/ Stop \/ UNCHANGED maskVars
    BY <1>8, <1>old DEF LoadModel, Stop, maskVars, Saving
<1> QED BY <1>old, <1>1, <1>2, <1>3, <1>4, <1>5, <1>6, <1>7, <1>8 DEF MaskNext

LEMMA MaskFilesStep ==
    ASSUME MaskTypesInv, MaskFilesInv, SavingInv, [MaskNext]_maskVars
    PROVE  MaskFilesInv'
<1>1. CASE png'["product"] = png["product"]
    BY <1>1, FitLasts DEF MaskFilesInv, Fit
<1>2. ASSUME NEW d \in Deliveries, Saving(d),
             png'["product"] = [png["product"] EXCEPT ![ImageOf[d]] = held[d]]
      PROVE  MaskFilesInv'
  <2>1. Fit(ImageOf[d], held[d])
      BY <1>2 DEF SavingInv
  <2>2. \A i \in Images : png'["product"][i] = IF i = ImageOf[d] THEN held[d] ELSE png["product"][i]
      BY <1>2 DEF MaskTypesInv, Folders
  <2> QED BY <2>1, <2>2, FitLasts DEF MaskFilesInv, Fit
<1> QED BY <1>1, <1>2, ProductFolder

\* A path is set by the move of a product into its place.
LEMMA ReturnedStep ==
    ASSUME MaskTypesInv, SavingInv, ReturnedInv, [MaskNext]_maskVars
    PROVE  ReturnedInv'
<1> USE DEF MaskTypesInv, MaskTypeOK, MaskTo, Folders
<1>1. \A i \in Images : png["product"][i] # "none" => png'["product"][i] # "none"
  <2>1. ASSUME NEW d \in Deliveries, Saving(d),
               png'["product"] = [png["product"] EXCEPT ![ImageOf[d]] = held[d]]
        PROVE  \A i \in Images : png["product"][i] # "none" => png'["product"][i] # "none"
      BY <2>1 DEF SavingInv, Fit
  <2> QED BY <2>1, ProductFolder
<1>2. ASSUME NEW d \in Deliveries, MoveTemp(d), NEW e \in Deliveries, path'[e], ~path[e]
      PROVE  png'["product"][ImageOf[e]] # "none"
  <2>1. e = d /\ target[d] = "product" /\ mask[d] = "move"
      BY <1>2 DEF MoveTemp, SaveDone, SaveFailed
  <2>2. png'["product"][ImageOf[d]] = held[d]
      BY <1>2, <2>1, ImagesOf DEF MoveTemp, SaveDone, SaveFailed
  <2> QED BY <2>1, <2>2 DEF SavingInv, Saving, Fit
<1>3. (\E d \in Deliveries : MoveTemp(d)) \/ UNCHANGED path
    BY DEF MaskNext, maskVars, LoadModel, Stop, SegmentForeground, WriteTemp, SaveFailed,
           ReadForeground, SegmentPeople, Subtract
<1> QED BY <1>1, <1>2, <1>3, ImagesOf DEF ReturnedInv

LEMMA MaskInvStep == MaskInv /\ [MaskNext]_maskVars => MaskInv'
BY MaskTypesStep, MaskFilesStep, SavingStep, ReturnedStep DEF MaskInv

\* Whoever makes the mask of an image again, and wherever that stops: a path
\* in the database is that of a whole mask, without the people unless some
\* delivery of the image could not take them out.
THEOREM MaskWholeHolds == MaskSpec => []MaskWhole
<1>1. MaskSpec => []MaskInv
    BY MaskInvInit, MaskInvStep, PTL DEF MaskSpec
<1>2. MaskInv => MaskWhole
    BY ImagesOf DEF MaskInv, MaskFilesInv, ReturnedInv, Fit, MaskWhole
<1> QED BY <1>1, <1>2, PTL

-----------------------------------------------------------------------------
\* The types of the searches, eBay and the keyframes

\* The attempts are within their limit, and YouTube asks for as many entries
\* more with each.
AttemptInv ==
    /\ SearchTypeOK /\ SearchInv

LEMMA UniqueType ==
    ASSUME NEW videos \in Seq(SearchVideos) PROVE UniqueVideos(videos) \in Seq(SearchVideos)
BY FirstOfKeeps DEF UniqueVideos

LEMMA AttemptStep == AttemptInv /\ [SearchNext]_searchVars => SearchTypeOK'
<1> SUFFICES ASSUME AttemptInv, [SearchNext]_searchVars PROVE SearchTypeOK'
    OBVIOUS
<1> DEFINE Most == IF skind = "tiktok" THEN TiktokAttempts ELSE YoutubeAttempts
           Wanted == IF skind = "tiktok" THEN NumVideos ELSE attempt * NumVideos
           Right == /\ attempt' \in 1..Most
                      /\ limit' = IF skind = "tiktok" THEN NumVideos ELSE attempt' * NumVideos
<1>0. /\ NumVideos \in Nat \ {0} /\ Most \in Nat \ {0} /\ attempt \in 1..Most /\ limit = Wanted
      /\ skind \in {"tiktok", "youtube"} /\ headful \in BOOLEAN
    BY SearchAssumption DEF AttemptInv, SearchTypeOK
<1>1. SearchInv' /\ best' \in Seq(SearchVideos) /\ found' \in Seq(SearchVideos)
      /\ sstage' \in {"prepare", "search", "dedup", "download", "failed"}
  <2>1. SearchInv'
      BY SearchStep DEF AttemptInv
  <2> QED BY <2>1 DEF SearchInv
<1>2. UNCHANGED skind /\ headful' \in BOOLEAN
    BY <1>0 DEF SearchNext, searchVars, PrepareQueries, TiktokAnswers, TiktokRetries, TiktokGivesUp,
                YoutubeAnswers, YoutubeFails, DedupeVideos, FailPlatform
<1>3. unique' \in Seq(SearchVideos)
  <2>1. unique' = unique \/ unique' = UniqueVideos(found)
      BY DEF SearchNext, searchVars, PrepareQueries, TiktokAnswers, TiktokRetries, TiktokGivesUp,
             YoutubeAnswers, YoutubeFails, DedupeVideos, FailPlatform
  <2>2. found \in Seq(SearchVideos) /\ unique \in Seq(SearchVideos)
      BY DEF AttemptInv, SearchTypeOK
  <2> QED BY <2>1, <2>2, UniqueType
<1>4. Right
  <2>1. CASE UNCHANGED <<attempt, limit>>
      BY <1>0, <2>1
  <2>2. CASE attempt' = 1 /\ limit' = NumVideos
      BY <1>0, <2>2
  <2>3. CASE attempt' = attempt + 1 /\ UNCHANGED limit /\ skind = "tiktok" /\ attempt < TiktokAttempts
      BY <1>0, <2>3
  <2>4. CASE attempt' = attempt + 1 /\ limit' = limit + NumVideos /\ skind = "youtube"
             /\ attempt < YoutubeAttempts
    <3>1. (attempt + 1) * NumVideos = attempt * NumVideos + NumVideos
        BY <1>0
    <3>2. attempt + 1 \in 1..Most /\ limit = attempt * NumVideos
        BY <1>0, <2>4
    <3> QED BY <2>4, <3>1, <3>2
  <2> QED BY <2>1, <2>2, <2>3, <2>4
          DEF SearchNext, searchVars, PrepareQueries, TiktokAnswers, TiktokRetries, TiktokGivesUp,
              YoutubeAnswers, YoutubeFails, DedupeVideos, FailPlatform, NextQuery
<1> HIDE DEF Right
<1> QED BY <1>0, <1>1, <1>2, <1>3, <1>4 DEF SearchTypeOK, Right

LEMMA AttemptInit == SearchInit => AttemptInv
<1> SUFFICES ASSUME SearchInit PROVE AttemptInv
    OBVIOUS
<1>1. SearchInv
    BY SearchInvInit
<1>2. SearchTypeOK
    BY SearchAssumption DEF SearchInit, SearchTypeOK
<1> QED BY <1>1, <1>2 DEF AttemptInv

\* A retry counts up to its limit, and a summary has details once at most.
LEMMA EbayTypesStep == EbayInv /\ EbayTypeOK /\ [EbayNext]_ebayVars => EbayTypeOK'
<1> SUFFICES ASSUME EbayInv, EbayTypeOK, [EbayNext]_ebayVars PROVE EbayTypeOK'
    OBVIOUS
<1> USE EbayAssumption
<1>1. /\ EbayInv' /\ UNCHANGED <<shelf, topK>> /\ market' \in 1..Len(shelf')
      /\ summaries' \in Seq(Items) /\ details' \in Seq(Items)
  <2>1. EbayInv'
      BY EbayStep
  <2>2. UNCHANGED <<shelf, topK>>
      BY DEF EbayNext, ebayVars, SkipSearch, HaveToken, NoToken, Answered, Refused, Unavailable,
             Unauthorized, Collected, Expire
  <2> QED BY <2>1, <2>2 DEF EbayInv
<1>2. Len(details') <= Len(summaries')
  <2>1. DOMAIN details' \subseteq DOMAIN summaries'
      BY <1>1 DEF EbayInv
  <2>2. /\ DOMAIN details' = 1..Len(details') /\ DOMAIN summaries' = 1..Len(summaries')
        /\ Len(details') \in Nat /\ Len(summaries') \in Nat
      BY <1>1
  <2>3. Len(details') = 0 \/ Len(details') \in 1..Len(details')
      BY <2>2
  <2> QED BY <2>1, <2>2, <2>3
<1>3. token' \in BOOLEAN /\ expiries' \in 0..MaxExpiries
  <2>1. token' \in {TRUE, FALSE, token}
      BY DEF EbayNext, ebayVars, SkipSearch, HaveToken, NoToken, Answered, Refused,
             Unavailable, Unauthorized, Collected, Expire
  <2>2. \/ UNCHANGED expiries
        \/ expiries < MaxExpiries /\ expiries' = expiries + 1
      BY DEF EbayNext, ebayVars, SkipSearch, HaveToken, NoToken, Answered, Refused,
             Unavailable, Unauthorized, Collected, Expire
  <2>3. token' \in BOOLEAN
      BY <2>1 DEF EbayTypeOK
  <2>4. expiries' \in 0..MaxExpiries
      BY <2>2 DEF EbayTypeOK
  <2> QED BY <2>3, <2>4
<1>4. tries' \in 0..BrowseTries-1
  <2>1. Again => tries' \in 0..BrowseTries-1
      BY DEF Again, EbayTypeOK
  <2> QED BY <2>1 DEF EbayTypeOK, EbayNext, ebayVars, SkipSearch, HaveToken, NoToken, Answered,
                      Refused, Unavailable, Unauthorized, Collected, Expire
<1>5. /\ ebay' \in {"search_token", "search", "detail_token", "detail", "collected", "done"}
      /\ listed' = listed \/ listed' = listed \cup ToSet(summaries')
  <2> DEFINE Staged == /\ ebay' \in {"search_token", "search", "detail_token", "detail",
                                     "collected", "done"}
                       /\ listed' = listed \/ listed' = listed \cup ToSet(summaries')
  <2>1. ASSUME NEW items, Result(items) PROVE Staged
      BY <2>1 DEF Result, Detailed
  <2>2. ASSUME NEW items, NextMarket(items), UNCHANGED listed PROVE Staged
      BY <2>2 DEF NextMarket
  <2>3. ASSUME Again PROVE Staged
      BY <2>1, <2>3 DEF Again, EbayTypeOK
  <2>4. ASSUME Detailed PROVE Staged
      BY <2>4 DEF Detailed
  <2>5. ASSUME UNCHANGED <<ebay, listed>> PROVE Staged
      BY <2>5 DEF EbayTypeOK
  <2>6. ASSUME HaveToken PROVE Staged
      BY <2>6 DEF HaveToken
  <2> HIDE DEF Staged
  <2>7. ASSUME SkipSearch \/ NoToken \/ Collected PROVE Staged
      BY <2>2, <2>4, <2>7 DEF SkipSearch, NoToken, Collected
  <2>8. ASSUME Answered PROVE Staged
      BY <2>1, <2>8 DEF Answered
  <2>9. ASSUME Refused \/ Unavailable \/ Unauthorized PROVE Staged
      BY <2>1, <2>3, <2>9 DEF Refused, Unavailable, Unauthorized
  <2>10. ASSUME Expire \/ UNCHANGED ebayVars PROVE Staged
      BY <2>5, <2>10 DEF Expire, ebayVars
  <2>11. Staged
      BY <2>6, <2>7, <2>8, <2>9, <2>10 DEF EbayNext
  <2> QED BY <2>11 DEF Staged
<1>6. listed' \subseteq Items
  <2>1. ToSet(summaries') \subseteq Items
      BY <1>1 DEF ToSet
  <2> QED BY <1>5, <2>1 DEF EbayTypeOK
<1> QED BY <1>1, <1>2, <1>3, <1>4, <1>5, <1>6 DEF EbayTypeOK

\* An extractor is there as long as one is at work.
ReelInv ==
    /\ KeyframesTypeOK /\ tools \in Seq({"pyav", "pyscene"})
    /\ reel \in {"open", "frames"} => tools # <<>>

LEMMA MarksType == \A tool : footage \in Footage => Marks(tool) \in Seq(Nat)
<1> SUFFICES ASSUME NEW tool, footage \in Footage PROVE Marks(tool) \in Seq(Nat)
    OBVIOUS
<1>1. footage.length \in Nat
    BY KeyframesAssumption DEF KeyframesAssumption
<1> QED BY <1>1, PyAVTelling, ScenesTelling DEF Marks, Telling

LEMMA NotEmpty ==
    ASSUME NEW s, Len(s) # 0
    PROVE  s # <<>>
BY Len(<<>>) = 0

LEMMA ToolsType ==
    ASSUME NEW codec
    PROVE  /\ Tools(codec) \in Seq({"pyav", "pyscene"}) /\ Len(Tools(codec)) <= 2
           /\ Tools(codec) # <<>>
<1>1. Tools(codec) \in {<<"pyav", "pyscene">>, <<"pyscene", "pyav">>, <<"pyav">>, <<"pyscene">>}
    BY DEF Tools
<1>2. CASE Tools(codec) = <<"pyav", "pyscene">>
    BY <1>2
<1>3. CASE Tools(codec) = <<"pyscene", "pyav">>
    BY <1>3
<1>4. CASE Tools(codec) = <<"pyav">>
    BY <1>4
<1>5. CASE Tools(codec) = <<"pyscene">>
    BY <1>5
<1> QED BY <1>1, <1>2, <1>3, <1>4, <1>5

LEMMA ReelStep == ReelInv /\ [KeyframesNext]_reelVars => ReelInv'
<1> SUFFICES ASSUME ReelInv, [KeyframesNext]_reelVars PROVE ReelInv'
    OBVIOUS
<1> USE DEF ReelInv, KeyframesTypeOK
<1>0. <<>> \in Seq(Nat) /\ <<>> \in Seq({"pyav", "pyscene"}) /\ Len(<<>>) = 0
    OBVIOUS
<1>1. CASE Route
  <2>1. reel' = "open" => tools' \in Seq({"pyav", "pyscene"}) /\ Len(tools') <= 2 /\ tools' # <<>>
    <3> SUFFICES ASSUME NEW codec, tools' = Tools(codec)
                 PROVE  tools' \in Seq({"pyav", "pyscene"}) /\ Len(tools') <= 2 /\ tools' # <<>>
        BY <1>1 DEF Route
    <3> QED BY ToolsType
  <2> QED BY <1>1, <2>1 DEF Route
<1>2. ASSUME GiveWay, reel \in {"open", "frames"}
      PROVE  /\ tools' \in Seq({"pyav", "pyscene"}) /\ Len(tools') <= 2
             /\ marks' \in Seq(Nat) /\ saved' \in Seq(Nat)
             /\ reel' \in {"open", "none"} /\ (reel' = "open" => tools' # <<>>)
  <2> DEFINE rest == Tail(tools)
             n == Len(tools)
  <2>1. /\ rest \in Seq({"pyav", "pyscene"}) /\ Len(rest) = n - 1
        /\ n \in Nat /\ n <= 2
    <3>1. tools \in Seq({"pyav", "pyscene"}) /\ tools # <<>> /\ Len(tools) <= 2
        BY <1>2
    <3> QED BY <3>1, HeadTailProperties
  <2>2. /\ tools' = rest /\ marks' = <<>> /\ saved' = <<>>
        /\ reel' = IF n > 1 THEN "open" ELSE "none"
      BY <1>2 DEF GiveWay
  <2> HIDE DEF rest, n
  <2>3. Len(rest) <= 2 /\ (n > 1 => Len(rest) # 0)
      BY <2>1
  <2>4. n > 1 => rest # <<>>
      BY <2>3, NotEmpty
  <2>5. reel' \in {"open", "none"} /\ (reel' = "open" => n > 1)
      BY <2>2
  <2> QED BY <1>0, <2>1, <2>2, <2>3, <2>4, <2>5
<1>3. CASE RefuseFile
    BY <1>2, <1>3 DEF RefuseFile
<1>4. CASE ChooseMarks
    BY <1>0, <1>4, MarksType DEF ChooseMarks
<1>5. CASE SaveFrameFile \/ SkipMark
  <2>1. Tail(marks) \in Seq(Nat) /\ Head(marks) \in Nat /\ marks # <<>>
      BY <1>5, HeadTailProperties DEF SaveFrameFile, SkipMark
  <2>2. Append(saved, Head(marks)) \in Seq(Nat)
      BY <2>1, AppendProperties
  <2>3. FrameName(Head(marks)) \in Nat
      BY <2>1 DEF FrameName
  <2> QED BY <1>5, <2>1, <2>2, <2>3 DEF SaveFrameFile, SkipMark
<1>6. CASE FinishFrames
    BY <1>2, <1>6 DEF FinishFrames, RemoveFolder
<1>7. CASE RaiseFrames
    BY <1>2, <1>7 DEF RaiseFrames, RemoveFolder
<1>8. CASE RetryFrames
  <2>1. litter' \in BOOLEAN
      BY Zenon, <1>8 DEF RetryFrames
  <2>2. folder' \subseteq Nat
      BY <1>8 DEF RetryFrames
  <2> QED BY <1>8, <2>1, <2>2 DEF RetryFrames
<1>9. CASE GiveUpFrames
    BY <1>9 DEF GiveUpFrames, RemoveFolder
<1>10. CASE ExtractAgain
    BY <1>0, <1>10, KeyframesAssumption DEF ExtractAgain, KeyframesAssumption
<1>11. CASE UNCHANGED reelVars
    BY <1>11 DEF reelVars
<1> QED BY <1>1, <1>3, <1>4, <1>5, <1>6, <1>7, <1>8, <1>9, <1>10, <1>11 DEF KeyframesNext

LEMMA ReelInit == KeyframesInit => ReelInv
<1> SUFFICES ASSUME KeyframesInit PROVE ReelInv
    OBVIOUS
<1>1. /\ <<>> \in Seq(Nat) /\ <<>> \in Seq({"pyav", "pyscene"}) /\ Len(<<>>) = 0
      /\ 1 \in 1..MaxExtractions
    BY KeyframesAssumption DEF KeyframesAssumption
<1>2. litter \in BOOLEAN
    BY Zenon DEF KeyframesInit
<1> QED BY <1>1, <1>2 DEF KeyframesInit, ReelInv, KeyframesTypeOK

LEMMA EbayTypesInit == EbayInit => EbayTypeOK
<1> SUFFICES ASSUME EbayInit PROVE EbayTypeOK
    OBVIOUS
<1>1. 1 \in 1..Len(shelf) /\ Len(<<>>) = 0 /\ 0 \in 0..BrowseTries-1 /\ 0 \in 0..MaxExpiries
    BY EbayAssumption DEF EbayInit
<1> QED BY <1>1 DEF EbayInit, EbayTypeOK

LEMMA TiktokTypesInit == TiktokInit => TiktokTypeOK
BY DEF TiktokInit, TiktokTypeOK, TikDirs

-----------------------------------------------------------------------------
\* Searches, extractions and downloads come to an end

LEMMA OneFactorLess ==
    ASSUME NEW n \in Nat \ {0}, NEW m \in Nat
    PROVE  n * m = (n - 1) * m + m /\ (n - 1) * m \in Nat /\ n * m \in Nat
OBVIOUS

LEMMA SmallerFactor ==
    ASSUME NEW a \in Nat, NEW b \in Nat, a <= b, NEW m \in Nat
    PROVE  a * m \in Nat /\ b * m \in Nat /\ a * m <= b * m
<1>1. b * m = a * m + (b - a) * m /\ (b - a) * m \in Nat /\ a * m \in Nat
    OBVIOUS
<1> QED BY <1>1

LEMMA FewerLeft ==
    ASSUME NEW a \in Nat, NEW b \in Nat, NEW c \in Nat, a <= b, c >= 1
    PROVE  a + 2 - c < b + 2
OBVIOUS

LEMMA RestNat ==
    ASSUME NEW n \in Nat, NEW m \in 0..n
    PROVE  n - m \in Nat
OBVIOUS

MostAttempts == IF skind = "tiktok" THEN TiktokAttempts ELSE YoutubeAttempts

\* Steps that a platform's search can still make.
SearchLeft ==
    CASE sstage = "prepare" -> Len(asked) * MostAttempts + 2
      [] sstage = "search" -> Len(asked) * MostAttempts + 2 - attempt
      [] sstage = "dedup" -> 1
      [] OTHER -> 0

\* The queries that are left, as a number.
LEMMA QueriesLeft ==
    AttemptInv => /\ MostAttempts \in Nat \ {0} /\ Len(asked) \in Nat
                  /\ attempt \in 1..MostAttempts
                  /\ sstage = "search" => Len(asked) # 0
                  /\ Len(asked) * MostAttempts \in Nat
                  /\ SearchLeft \in Nat
<1> SUFFICES ASSUME AttemptInv
             PROVE  /\ MostAttempts \in Nat \ {0} /\ Len(asked) \in Nat
                    /\ attempt \in 1..MostAttempts
                    /\ sstage = "search" => Len(asked) # 0
                    /\ Len(asked) * MostAttempts \in Nat
                    /\ SearchLeft \in Nat
    OBVIOUS
<1>1. MostAttempts \in Nat \ {0} /\ attempt \in 1..MostAttempts
    BY SearchAssumption DEF AttemptInv, SearchTypeOK, MostAttempts
<1>2. asked \in Seq(DOMAIN Answers \cup {NoQuery}) /\ (sstage = "search" => asked # <<>>)
    BY DEF AttemptInv, SearchInv
<1>3. Len(asked) \in Nat /\ (sstage = "search" => Len(asked) # 0)
    BY <1>2
<1> DEFINE n == Len(asked)
<1> HIDE DEF n
<1>4. n \in Nat /\ (sstage = "search" => n # 0)
    BY <1>3 DEF n
<1>5. n * MostAttempts \in Nat /\ (n # 0 => n * MostAttempts >= MostAttempts)
    BY <1>1, <1>4, OneFactorLess
<1>6. SearchLeft = CASE sstage = "prepare" -> n * MostAttempts + 2
                     [] sstage = "search" -> n * MostAttempts + 2 - attempt
                     [] sstage = "dedup" -> 1
                     [] OTHER -> 0
    BY DEF SearchLeft, n
<1> DEFINE x == n * MostAttempts
<1>7. SearchLeft \in Nat
  <2>1. x \in Nat /\ (sstage = "search" => x >= attempt) /\ attempt \in Nat
      BY <1>1, <1>4, <1>5
  <2> HIDE DEF x
  <2> QED BY <1>6, <2>1 DEF x
<1> QED BY <1>1, <1>4, <1>5, <1>7 DEF n

LEMMA SearchAdvances == AttemptInv /\ AttemptInv' /\ SearchNext => SearchLeft' < SearchLeft
<1> SUFFICES ASSUME AttemptInv, AttemptInv', SearchNext PROVE SearchLeft' < SearchLeft
    OBVIOUS
<1> DEFINE m == MostAttempts
           n == Len(asked)
           n1 == Len(asked')
<1>1. /\ m \in Nat \ {0} /\ n \in Nat /\ attempt \in 1..m /\ (sstage = "search" => n # 0)
      /\ n * m \in Nat
    BY QueriesLeft
<1>2. UNCHANGED skind
    BY DEF SearchNext, PrepareQueries, TiktokAnswers, TiktokRetries, TiktokGivesUp,
           YoutubeAnswers, YoutubeFails, DedupeVideos, FailPlatform
<1>3. MostAttempts' = m
    BY <1>2 DEF MostAttempts
<1>4. n1 \in Nat /\ attempt' \in 1..m /\ n1 * m \in Nat
  <2>1. (/\ Len(asked) \in Nat /\ attempt \in 1..MostAttempts
         /\ Len(asked) * MostAttempts \in Nat)'
      BY QueriesLeft, PTL
  <2> QED BY <1>3, <2>1
<1>5. /\ SearchLeft = CASE sstage = "prepare" -> n * m + 2
                        [] sstage = "search" -> n * m + 2 - attempt
                        [] sstage = "dedup" -> 1
                        [] OTHER -> 0
      /\ SearchLeft' = CASE sstage' = "prepare" -> n1 * m + 2
                         [] sstage' = "search" -> n1 * m + 2 - attempt'
                         [] sstage' = "dedup" -> 1
                         [] OTHER -> 0
    BY <1>3 DEF SearchLeft
<1> HIDE DEF m
\* A query is over: the next one begins, or the searching is over.
<1>6. ASSUME NEW videos, sstage = "search", NextQuery(videos) PROVE SearchLeft' < SearchLeft
  <2>1. asked' = Tail(asked) /\ asked # <<>>
        /\ asked \in Seq(DOMAIN Answers)
      BY <1>6 DEF NextQuery, AttemptInv, SearchInv
  <2>2. n1 = n - 1
      BY <2>1, HeadTailProperties
  <2>3. attempt' = 1 /\ sstage' \in {"search", "download", "dedup"}
      BY <1>6 DEF NextQuery
  <2> HIDE DEF n, n1
  <2> DEFINE x == n * m
             x1 == n1 * m
  <2>4. x = x1 + m /\ x1 \in Nat
      BY <1>1, <1>6, <2>2, OneFactorLess
  <2>5. /\ SearchLeft = x + 2 - attempt
        /\ SearchLeft' = CASE sstage' = "search" -> x1 + 1 [] sstage' = "dedup" -> 1 [] OTHER -> 0
    <3> HIDE DEF x, x1
    <3>1. x1 + 2 - 1 = x1 + 1
        BY <2>4
    <3> QED BY <1>5, <1>6, <2>3, <3>1 DEF x, x1
  <2> HIDE DEF x, x1
  <2> QED BY <1>1, <2>3, <2>4, <2>5
\* The next attempt.
<1>7. ASSUME sstage = "search", UNCHANGED <<sstage, asked>>, attempt' = attempt + 1
      PROVE  SearchLeft' < SearchLeft
  <2>1. n1 = n /\ n * m \in Nat /\ attempt \in Nat
      BY <1>1, <1>7
  <2> DEFINE x == n * m
  <2>2. SearchLeft = x + 2 - attempt /\ SearchLeft' = x + 2 - (attempt + 1)
      BY <1>5, <1>7, <2>1
  <2>3. x \in Nat
      BY <2>1
  <2> HIDE DEF x
  <2> QED BY <2>1, <2>2, <2>3
<1>8. CASE PrepareQueries
  <2>1. PICK places \in SUBSET DOMAIN asked : asked' = Kept(asked, places)
      BY <1>8 DEF PrepareQueries
  <2>2. n1 <= n
    <3>1. asked \in Seq(DOMAIN Answers \cup {NoQuery})
        BY DEF AttemptInv, SearchInv
    <3>2. n1 = Cardinality(places)
        BY <2>1, <3>1, KeptInOrder
    <3>3. IsFiniteSet(1..n) /\ Cardinality(1..n) = n /\ DOMAIN asked = 1..n
        BY <1>1, <3>1, FS_Interval
    <3> QED BY <3>2, <3>3, FS_Subset
  <2>3. sstage = "prepare" /\ sstage' \in {"download", "search"}
      BY <1>8 DEF PrepareQueries
  <2> HIDE DEF n, n1
  <2> DEFINE x == n * m
             x1 == n1 * m
  <2>4. x \in Nat /\ x1 \in Nat /\ x1 <= x
      BY <1>1, <1>4, <2>2, SmallerFactor
  <2>5. /\ SearchLeft = x + 2
        /\ SearchLeft' = IF sstage' = "search" THEN x1 + 2 - attempt' ELSE 0
      BY <1>5, <2>3
  <2> HIDE DEF x, x1
  <2>6. attempt' \in Nat /\ attempt' >= 1
      BY <1>1, <1>4
  <2>7. CASE sstage' = "search"
    <3>1. SearchLeft' = x1 + 2 - attempt' /\ SearchLeft = x + 2
        BY <2>5, <2>7
    <3>2. x1 + 2 - attempt' < x + 2
        BY <2>4, <2>6, FewerLeft
    <3> QED BY <3>1, <3>2
  <2>8. CASE sstage' # "search"
      BY <2>4, <2>5, <2>8
  <2> QED BY <2>7, <2>8
<1>9. CASE TiktokAnswers
    BY <1>6, <1>9 DEF TiktokAnswers
<1>10. CASE TiktokRetries
    BY <1>7, <1>10 DEF TiktokRetries
<1>11. CASE TiktokGivesUp
    BY <1>6, <1>11 DEF TiktokGivesUp
<1>12. CASE YoutubeAnswers
    BY <1>6, <1>7, <1>12 DEF YoutubeAnswers
<1>13. CASE YoutubeFails
    BY <1>6, <1>13 DEF YoutubeFails
<1>14. CASE DedupeVideos \/ FailPlatform
  <2>1. /\ sstage \in {"prepare", "dedup"} /\ sstage' \in {"download", "failed"}
      BY <1>14 DEF DedupeVideos, FailPlatform
  <2> DEFINE x == n * m
  <2>2. SearchLeft \in {x + 2, 1} /\ SearchLeft' = 0 /\ x \in Nat
      BY <1>1, <1>5, <2>1
  <2> HIDE DEF x
  <2> QED BY <2>2
<1> QED BY <1>8, <1>9, <1>10, <1>11, <1>12, <1>13, <1>14 DEF SearchNext

\* The search of a platform ends, whatever is answered or fails: every step
\* uses one up, a retry too, of a number that the queries and the attempts
\* limit from the start.
THEOREM SearchEnds == SearchSpec => [](SearchLeft \in Nat) /\ [][SearchLeft' < SearchLeft]_searchVars
<1>1. AttemptInv /\ [SearchNext]_searchVars => AttemptInv'
    BY AttemptStep, SearchStep DEF AttemptInv
<1>2. AttemptInv => SearchLeft \in Nat
    BY QueriesLeft
<1>3. AttemptInv /\ AttemptInv' /\ [SearchNext]_searchVars => [SearchLeft' < SearchLeft]_searchVars
    BY SearchAdvances
<1> QED BY AttemptInit, <1>1, <1>2, <1>3, PTL DEF SearchSpec

\* Of a marketplace: the requests and their tries that are left.  Each asks for
\* a token first.
Requests == BrowseTries + 1
MarketSteps == topK * Requests + Requests + 1
MarketLeft ==
    CASE ebay = "search_token" -> MarketSteps
      [] ebay = "search" -> topK * Requests + 1 + (BrowseTries - tries)
      [] ebay = "detail_token" -> (topK - Len(details)) * Requests + 1
      [] ebay = "detail" -> (topK - Len(details) - 1) * Requests + 1 + (BrowseTries - tries)
      [] ebay = "collected" -> 1
      [] OTHER -> 0

\* Steps that a search on eBay can still make.
EbayLeft == (Len(shelf) - market) * MarketSteps + MarketLeft + (MaxExpiries - expiries)

\* Details are still asked for only below top_k.
DueInv ==
    /\ EbayInv /\ EbayTypeOK
    /\ ebay \in {"detail_token", "detail"} => Len(details) < topK

LEMMA DueStep == DueInv /\ [EbayNext]_ebayVars => DueInv'
<1> SUFFICES ASSUME DueInv, [EbayNext]_ebayVars PROVE DueInv'
    OBVIOUS
<1> DEFINE Due == ebay \in {"detail_token", "detail"} => Len(details) < topK
<1>1. EbayInv' /\ EbayTypeOK'
    BY EbayStep, EbayTypesStep DEF DueInv
<1>2. UNCHANGED topK
    BY DEF EbayNext, ebayVars, SkipSearch, HaveToken, NoToken, Answered, Refused, Unavailable,
           Unauthorized, Collected, Expire
<1>3. ASSUME NEW page, NextMarket(page) PROVE Due'
    BY <1>3 DEF NextMarket
<1>4. ASSUME Detailed PROVE Due'
    BY <1>2, <1>4 DEF Detailed, Outstanding
<1>5. ASSUME NEW page, Result(page), ebay = "search" PROVE Due'
  <2>1. details = <<>> /\ details' = details
      BY <1>5 DEF Result, DueInv, EbayInv
  <2> QED BY <1>2, <1>5, <2>1 DEF Result, Outstanding
<1>6. ASSUME NEW page, Result(page), ebay \in {"search", "detail"} PROVE Due'
    BY <1>4, <1>5, <1>6 DEF Result
<1>7. ASSUME UNCHANGED <<ebay, details>> PROVE Due'
    BY <1>2, <1>7 DEF DueInv
<1>8. ASSUME Again, ebay \in {"search", "detail"} PROVE Due'
    BY <1>6, <1>7, <1>8 DEF Again
<1>9. ASSUME HaveToken PROVE Due'
  <2>1. UNCHANGED details /\ (ebay' = "detail" => ebay = "detail_token") /\ ebay' # "detail_token"
      BY <1>9 DEF HaveToken
  <2> QED BY <1>2, <2>1 DEF DueInv
<1> HIDE DEF Due
<1>10. ASSUME SkipSearch \/ NoToken \/ Collected PROVE Due'
    BY <1>3, <1>4, <1>10 DEF SkipSearch, NoToken, Collected
<1>11. ASSUME Answered PROVE Due'
    BY <1>6, <1>11 DEF Answered
<1>12. ASSUME Refused \/ Unavailable \/ Unauthorized PROVE Due'
    BY <1>6, <1>8, <1>12 DEF Refused, Unavailable, Unauthorized
<1>13. ASSUME Expire \/ UNCHANGED ebayVars PROVE Due'
    BY <1>7, <1>13 DEF Expire, ebayVars
<1>14. Due'
    BY <1>9, <1>10, <1>11, <1>12, <1>13 DEF EbayNext
<1> QED BY <1>1, <1>14 DEF DueInv, Due

\* The numbers that the steps count down.
LEMMA EbayNumbers ==
    DueInv => /\ Requests \in Nat \ {0} /\ Requests = BrowseTries + 1 /\ topK \in Nat
              /\ Len(details) \in Nat /\ BrowseTries - tries \in Nat \ {0}
              /\ BrowseTries - tries <= BrowseTries /\ BrowseTries \in Nat
              /\ topK * Requests \in Nat /\ MarketSteps \in Nat \ {0}
              /\ ebay \in {"detail_token", "detail"} => topK - Len(details) \in Nat \ {0}
<1> SUFFICES ASSUME DueInv
             PROVE  /\ Requests \in Nat \ {0} /\ Requests = BrowseTries + 1 /\ topK \in Nat
                    /\ Len(details) \in Nat /\ BrowseTries - tries \in Nat \ {0}
                    /\ BrowseTries - tries <= BrowseTries /\ BrowseTries \in Nat
                    /\ topK * Requests \in Nat /\ MarketSteps \in Nat \ {0}
                    /\ ebay \in {"detail_token", "detail"} => topK - Len(details) \in Nat \ {0}
    OBVIOUS
<1>1. topK \in Nat /\ details \in Seq(Items) /\ tries \in 0..BrowseTries-1
    BY DEF DueInv, EbayInv, EbayTypeOK
<1>2. BrowseTries \in Nat \ {0} /\ Requests = BrowseTries + 1 /\ Requests \in Nat \ {0}
    BY EbayAssumption DEF Requests
<1>3. topK * Requests \in Nat
    BY <1>1, <1>2, SmallerFactor
<1> DEFINE x == topK * Requests
           d == Len(details)
<1>4. MarketSteps = x + Requests + 1 /\ x \in Nat /\ d \in Nat
    BY <1>1, <1>3 DEF MarketSteps
<1>5. ebay \in {"detail_token", "detail"} => d < topK
    BY DEF DueInv
<1> HIDE DEF x, d
<1>6. /\ MarketSteps \in Nat \ {0} /\ BrowseTries - tries \in Nat \ {0}
      /\ BrowseTries - tries <= BrowseTries
    BY <1>1, <1>2, <1>4
<1>7. ebay \in {"detail_token", "detail"} => topK - d \in Nat \ {0}
    BY <1>1, <1>4, <1>5
<1> QED BY <1>1, <1>2, <1>3, <1>4, <1>6, <1>7 DEF d

LEMMA MarketLeftNat ==
    DueInv => MarketLeft \in Nat /\ (ebay # "done" => MarketLeft # 0)
<1> SUFFICES ASSUME DueInv PROVE MarketLeft \in Nat /\ (ebay # "done" => MarketLeft # 0)
    OBVIOUS
<1> DEFINE r == BrowseTries - tries
           k == topK - Len(details)
<1>1. /\ Requests \in Nat \ {0} /\ r \in Nat \ {0} /\ topK * Requests \in Nat
      /\ MarketSteps \in Nat \ {0} /\ (ebay \in {"detail_token", "detail"} => k \in Nat \ {0})
    BY EbayNumbers
<1>2. ebay \in {"search_token", "search", "detail_token", "detail", "collected", "done"}
    BY DEF DueInv, EbayTypeOK
<1>3. MarketLeft =
          CASE ebay = "search_token" -> MarketSteps
            [] ebay = "search" -> topK * Requests + 1 + r
            [] ebay = "detail_token" -> k * Requests + 1
            [] ebay = "detail" -> (k - 1) * Requests + 1 + r
            [] ebay = "collected" -> 1
            [] OTHER -> 0
    BY DEF MarketLeft
<1> HIDE DEF r, k
<1>4. CASE ebay = "search_token"
    BY <1>1, <1>3, <1>4
<1>5. CASE ebay = "search"
  <2> DEFINE x == topK * Requests
  <2>1. MarketLeft = x + 1 + r /\ x \in Nat
      BY <1>1, <1>3, <1>5
  <2> HIDE DEF x
  <2> QED BY <1>1, <2>1
<1>6. CASE ebay \in {"detail_token", "detail"}
  <2> DEFINE x == k * Requests
             y == (k - 1) * Requests
  <2>1. x \in Nat /\ y \in Nat
      BY <1>1, <1>6, OneFactorLess
  <2>2. MarketLeft \in {x + 1, y + 1 + r}
      BY <1>3, <1>6
  <2> HIDE DEF x, y
  <2> QED BY <1>1, <2>1, <2>2
<1>7. CASE ebay \in {"collected", "done"}
    BY <1>3, <1>7
<1> QED BY <1>2, <1>4, <1>5, <1>6, <1>7

\* Each step at a marketplace leaves fewer of them.
LEMMA MarketAdvances ==
    ASSUME DueInv, DueInv', UNCHANGED <<shelf, topK, market>>, EbayNext, ~Expire,
           ebay \in {"search_token", "search", "detail_token", "detail"}, ebay' # "done"
    PROVE  MarketLeft' < MarketLeft
<1> DEFINE r == BrowseTries - tries
           k == topK - Len(details)
           B == BrowseTries
           x == topK * Requests
           y == (k - 1) * Requests
           z == k * Requests
<1>1. /\ Requests \in Nat \ {0} /\ Requests = B + 1 /\ B \in Nat /\ topK \in Nat
      /\ r \in Nat \ {0} /\ x \in Nat /\ (ebay \in {"detail_token", "detail"} => k \in Nat \ {0})
    BY EbayNumbers
<1>2. ebay \in {"detail_token", "detail"} => y \in Nat /\ z = y + Requests
    BY <1>1, OneFactorLess
<1>3. MarketLeft =
          CASE ebay = "search_token" -> x + Requests + 1
            [] ebay = "search" -> x + 1 + r
            [] ebay = "detail_token" -> z + 1
            [] ebay = "detail" -> y + 1 + r
            [] ebay = "collected" -> 1
            [] OTHER -> 0
    BY DEF MarketLeft, MarketSteps
<1>4. MarketLeft' =
          CASE ebay' = "search_token" -> x + Requests + 1
            [] ebay' = "search" -> x + 1 + (B - tries')
            [] ebay' = "detail_token" -> (topK - Len(details')) * Requests + 1
            [] ebay' = "detail" -> (topK - Len(details') - 1) * Requests + 1 + (B - tries')
            [] ebay' = "collected" -> 1
            [] OTHER -> 0
    BY DEF MarketLeft, MarketSteps, Requests
<1>5. MarketLeft \in Nat
    BY MarketLeftNat
<1>6. details \in Seq(Items) /\ (ebay \in {"search_token", "search"} => details = <<>>)
      /\ tries \in 0..B-1
    BY DEF DueInv, EbayInv, EbayTypeOK
\* The details of one item more.
<1>7. ASSUME Detailed, ebay \in {"detail_token", "detail"} PROVE MarketLeft' < MarketLeft
  <2>1. ebay' \in {"detail_token", "collected"} /\ details' = Append(details, summaries[Len(details) + 1])
      BY <1>7 DEF Detailed
  <2>2. Len(details') = Len(details) + 1
      BY <1>6, <2>1, AppendProperties
  <2>3. topK - Len(details') = k - 1
      BY <1>1, <1>6, <2>2
  <2>4. MarketLeft' \in {y + 1, 1}
      BY <1>4, <2>1, <2>3
  <2>5. MarketLeft \in {z + 1, y + 1 + r}
      BY <1>3, <1>7
  <2> HIDE DEF r, k, x, y, z
  <2>6. y \in Nat /\ z = y + Requests
      BY <1>2, <1>7
  <2> QED BY <1>1, <2>4, <2>5, <2>6
<1>8. ASSUME NEW page, Result(page), ebay \in {"search", "detail"} PROVE MarketLeft' < MarketLeft
  <2>1. CASE ebay = "search"
    <3>1. details' = details /\ Len(details') = 0 /\ ebay' \in {"detail_token", "collected"}
        BY <1>6, <1>8, <2>1 DEF Result
    <3>2. topK - Len(details') = topK
        BY <1>1, <3>1
    <3>3. MarketLeft' \in {x + 1, 1} /\ MarketLeft = x + 1 + r
        BY <1>3, <1>4, <2>1, <3>1, <3>2
    <3> HIDE DEF r, k, x, y, z
    <3> QED BY <1>1, <3>3
  <2>2. CASE ebay = "detail"
      BY <1>7, <1>8, <2>2 DEF Result
  <2> QED BY <1>8, <2>1, <2>2
<1>9. ASSUME Again, ebay \in {"search", "detail"} PROVE MarketLeft' < MarketLeft
  <2>1. CASE tries + 1 < BrowseTries
    <3>1. UNCHANGED <<ebay, details>> /\ tries' = tries + 1
        BY <1>9, <2>1 DEF Again
    <3>2. B - tries' = r - 1
        BY <1>1, <1>6, <3>1
    <3>3. \/ MarketLeft = x + 1 + r /\ MarketLeft' = x + 1 + (r - 1)
          \/ MarketLeft = y + 1 + r /\ MarketLeft' = y + 1 + (r - 1) /\ y \in Nat
      <4>1. CASE ebay = "search"
          BY <1>3, <1>4, <3>1, <3>2, <4>1
      <4>2. CASE ebay = "detail"
          BY <1>2, <1>3, <1>4, <3>1, <3>2, <4>2
      <4> QED BY <1>9, <4>1, <4>2
    <3> HIDE DEF r, k, x, y, z
    <3> QED BY <1>1, <3>3
  <2>2. CASE ~(tries + 1 < BrowseTries)
      BY <1>8, <1>9, <2>2 DEF Again
  <2> QED BY <2>1, <2>2
<1>10. CASE HaveToken
  <2>1. UNCHANGED details /\ tries' = 0
        /\ \/ ebay = "search_token" /\ ebay' = "search"
           \/ ebay = "detail_token" /\ ebay' = "detail"
      BY <1>10 DEF HaveToken
  <2>2. \/ MarketLeft = x + Requests + 1 /\ MarketLeft' = x + 1 + (B - 0)
        \/ MarketLeft = z + 1 /\ MarketLeft' = y + 1 + (B - 0) /\ y \in Nat /\ z = y + Requests
    <3>1. CASE ebay = "search_token"
        BY <1>3, <1>4, <2>1, <3>1
    <3>2. CASE ebay = "detail_token"
        BY <1>2, <1>3, <1>4, <2>1, <3>2
    <3> QED BY <2>1, <3>1, <3>2
  <2> HIDE DEF r, k, x, y, z
  <2> QED BY <1>1, <2>2
\* No other marketplace, so none of the steps that go on to one.
<1>11. ASSUME NEW page, NextMarket(page) PROVE FALSE
  <2>1. market \in Nat
      BY DEF DueInv, EbayInv
  <2> QED BY <1>11, <2>1 DEF NextMarket
<1>12. CASE SkipSearch \/ NoToken \/ Collected
    BY <1>7, <1>11, <1>12 DEF SkipSearch, NoToken, Collected
<1>13. CASE Answered
    BY <1>8, <1>13 DEF Answered
<1>14. CASE Refused \/ Unavailable \/ Unauthorized
    BY <1>8, <1>9, <1>14 DEF Refused, Unavailable, Unauthorized
<1> QED BY <1>10, <1>12, <1>13, <1>14 DEF EbayNext

LEMMA EbayAdvances == DueInv /\ DueInv' /\ EbayNext => EbayLeft' < EbayLeft
<1> SUFFICES ASSUME DueInv, DueInv', EbayNext PROVE EbayLeft' < EbayLeft
    OBVIOUS
<1> DEFINE n == Len(shelf) - market
           e == MaxExpiries - expiries
           w == MarketSteps
           a == MarketLeft
           a1 == MarketLeft'
           e1 == MaxExpiries - expiries'
           n1 == Len(shelf) - market'
\* Of whom a step is.
<1>1. \/ Expire
      \/ /\ UNCHANGED <<market, expiries>> /\ ebay' # "done"
         /\ ebay \in {"search_token", "search", "detail_token", "detail"} /\ ~Expire
      \/ /\ UNCHANGED expiries /\ ebay # "done"
         /\ \E page : NextMarket(page)
  <2> DEFINE Here == UNCHANGED <<market, expiries>> /\ ebay' # "done"
  <2>1. ASSUME Detailed, UNCHANGED expiries PROVE Here
      BY <2>1 DEF Detailed
  <2>2. ASSUME NEW page, Result(page), UNCHANGED expiries PROVE Here
      BY <2>1, <2>2 DEF Result
  <2>3. ASSUME Again, UNCHANGED expiries, ebay # "done" PROVE Here
      BY <2>2, <2>3 DEF Again
  <2>4. CASE SkipSearch \/ Collected
      BY <2>4 DEF SkipSearch, Collected
  <2>5. CASE HaveToken
      BY <2>5 DEF HaveToken, Expire
  <2> HIDE DEF Here
  <2>6. CASE NoToken
      BY <2>1, <2>6 DEF NoToken, Expire, Here
  <2>7. CASE Answered
    <3>1. Here /\ ebay \in {"search", "detail"}
        BY <2>2, <2>7 DEF Answered
    <3>2. CASE ~Expire
        BY <3>1, <3>2 DEF Here
    <3> QED BY <3>2
  <2>8. CASE Refused \/ Unavailable \/ Unauthorized
    <3>1. Here /\ ebay \in {"search", "detail"}
        BY <2>2, <2>3, <2>8 DEF Refused, Unavailable, Unauthorized
    <3> QED BY <3>1 DEF Here
  <2> QED BY <2>4, <2>5, <2>6, <2>7, <2>8 DEF EbayNext
<1>2. /\ n \in Nat /\ e \in Nat /\ w \in Nat \ {0} /\ a \in Nat /\ n * w \in Nat
      /\ n1 \in Nat /\ e1 \in Nat /\ a1 \in Nat /\ (ebay # "done" => a # 0)
  <2>1. /\ market \in 1..Len(shelf) /\ expiries \in 0..MaxExpiries /\ MaxExpiries \in Nat
        /\ Len(shelf) \in Nat
      BY EbayAssumption DEF DueInv, EbayInv, EbayTypeOK
  <2>2. market' \in 1..Len(shelf') /\ expiries' \in 0..MaxExpiries /\ shelf' = shelf
    <3>1. shelf' = shelf
        BY DEF EbayNext, ebayVars, SkipSearch, HaveToken, NoToken, Answered, Refused,
               Unavailable, Unauthorized, Collected, Expire
    <3> QED BY <3>1 DEF DueInv, EbayInv, EbayTypeOK
  <2>3. n \in Nat /\ n1 \in Nat /\ e \in Nat /\ e1 \in Nat
    <3> DEFINE l == Len(shelf)
    <3>1. l \in Nat /\ market \in 1..l /\ market' \in 1..l
        BY <2>1, <2>2
    <3> HIDE DEF l
    <3>2. market \in 0..l /\ market' \in 0..l
        BY <3>1
    <3>3. l - market \in Nat /\ l - market' \in Nat
        BY <3>1, <3>2, RestNat
    <3>4. e \in Nat /\ e1 \in Nat
        BY <2>1, <2>2, RestNat
    <3> QED BY <3>3, <3>4 DEF l
  <2>4. w \in Nat \ {0} /\ a \in Nat /\ (ebay # "done" => a # 0)
      BY EbayNumbers, MarketLeftNat
  <2>5. (MarketLeft \in Nat)'
      BY MarketLeftNat, PTL
  <2> HIDE DEF n, w
  <2>6. n * w \in Nat
      BY <2>3, <2>4, SmallerFactor
  <2> QED BY <2>3, <2>4, <2>5, <2>6
<1>3. UNCHANGED <<shelf, topK>>
    BY DEF EbayNext, ebayVars, SkipSearch, HaveToken, NoToken, Answered, Refused, Unavailable,
           Unauthorized, Collected, Expire
<1>4. EbayLeft = n * w + a + e /\ EbayLeft' = n1 * w + a1 + e1
  <2>1. MarketSteps' = w
      BY <1>3 DEF MarketSteps, Requests
  <2> QED BY <1>3, <2>1 DEF EbayLeft
<1>5. CASE Expire
  <2>1. expiries' = expiries + 1 /\ expiries \in Nat /\ MaxExpiries \in Nat /\ n1 = n
      BY <1>5, EbayAssumption DEF Expire, DueInv, EbayTypeOK
  <2>2. e1 = e - 1
      BY <2>1
  <2>3. a1 = a
      BY <1>5 DEF Expire, MarketLeft, MarketSteps, Requests
  <2> HIDE DEF a, a1, e, e1, n, n1, w
  <2> DEFINE x == n * w
  <2>4. x \in Nat /\ EbayLeft = x + a + e /\ EbayLeft' = x + a + (e - 1)
      BY <1>2, <1>4, <2>1, <2>2, <2>3
  <2> HIDE DEF x
  <2> QED BY <1>2, <2>4
<1>6. CASE /\ UNCHANGED <<market, expiries>> /\ ebay' # "done"
           /\ ebay \in {"search_token", "search", "detail_token", "detail"} /\ ~Expire
  <2>1. a1 < a
      BY <1>3, <1>6, MarketAdvances
  <2>2. n1 = n /\ e1 = e
      BY <1>6
  <2> HIDE DEF a, a1, e, e1, n, n1, w
  <2> DEFINE x == n * w
  <2>3. x \in Nat /\ EbayLeft = x + a + e /\ EbayLeft' = x + a1 + e
      BY <1>2, <1>4, <2>2
  <2> HIDE DEF x
  <2> QED BY <1>2, <2>1, <2>3
<1>7. CASE UNCHANGED expiries /\ ebay # "done" /\ \E page : NextMarket(page)
  <2>1. a # 0 /\ e1 = e
      BY <1>2, <1>7
  <2>2. CASE market < Len(shelf)
    <3>1. market' = market + 1 /\ ebay' = "search_token"
        BY <1>7, <2>2 DEF NextMarket
    <3>2. market \in Nat /\ Len(shelf) \in Nat
        BY DEF DueInv, EbayInv
    <3>3. n \in Nat \ {0} /\ n1 = n - 1
        BY <2>2, <3>1, <3>2
    <3>4. a1 = w
        BY <1>3, <3>1 DEF MarketLeft, MarketSteps, Requests
    <3> HIDE DEF a, a1, e, e1, n, n1, w
    <3> DEFINE x == n * w
               y == (n - 1) * w
    <3>5. x = y + w /\ y \in Nat
        BY <1>2, <3>3, OneFactorLess
    <3>6. EbayLeft = x + a + e /\ EbayLeft' = y + w + e
        BY <1>4, <2>1, <3>3, <3>4
    <3> HIDE DEF x, y
    <3> QED BY <1>2, <2>1, <3>5, <3>6
  <2>3. CASE ~(market < Len(shelf))
    <3>1. ebay' = "done" /\ n1 = n
        BY <1>7, <2>3 DEF NextMarket
    <3>2. a1 = 0
        BY <3>1 DEF MarketLeft
    <3> HIDE DEF a, a1, e, e1, n, n1, w
    <3> DEFINE x == n * w
    <3>3. x \in Nat /\ EbayLeft = x + a + e /\ EbayLeft' = x + 0 + e
        BY <1>2, <1>4, <2>1, <3>1, <3>2
    <3> HIDE DEF x
    <3> QED BY <1>2, <2>1, <3>3
  <2> QED BY <2>2, <2>3
<1> QED BY <1>1, <1>5, <1>6, <1>7

LEMMA EbayLeftNat == DueInv => EbayLeft \in Nat
<1> SUFFICES ASSUME DueInv PROVE EbayLeft \in Nat
    OBVIOUS
<1> DEFINE n == Len(shelf) - market
           e == MaxExpiries - expiries
           w == MarketSteps
<1>1. n \in Nat /\ e \in Nat
  <2>1. /\ market \in 1..Len(shelf) /\ expiries \in 0..MaxExpiries /\ MaxExpiries \in Nat
        /\ Len(shelf) \in Nat
      BY EbayAssumption DEF DueInv, EbayInv, EbayTypeOK
  <2> QED BY <2>1
<1>2. w \in Nat /\ MarketLeft \in Nat
    BY EbayNumbers, MarketLeftNat
<1>3. EbayLeft = n * w + MarketLeft + e
    BY DEF EbayLeft
<1> HIDE DEF n, e, w
<1>4. n * w \in Nat
    BY <1>1, <1>2, SmallerFactor
<1> QED BY <1>1, <1>2, <1>3, <1>4

\* A search on eBay ends, whichever requests fail, are refused or find their
\* token expired: each step uses one up of a number that the marketplaces,
\* top_k and the tries of a request limit from the start.
THEOREM EbayEnds == EbaySpec => [](EbayLeft \in Nat) /\ [][EbayLeft' < EbayLeft]_ebayVars
<1>1. EbayInit => DueInv
    BY EbayInvInit, EbayTypesInit DEF EbayInit, DueInv
<1>2. DueInv => EbayLeft \in Nat
    BY EbayLeftNat
<1>3. DueInv /\ DueInv' /\ [EbayNext]_ebayVars => [EbayLeft' < EbayLeft]_ebayVars
    BY EbayAdvances
<1> QED BY <1>1, DueStep, <1>2, <1>3, PTL DEF EbaySpec

\* As many timestamps as an extractor can choose, the steps of an extractor and
\* those of an attempt with two of them.
MostMarks == Len(Marks("pyav")) + Len(Marks("pyscene"))
ToolSteps == MostMarks + 2
EffortSteps == ToolSteps + ToolSteps + 4
EffortLeft ==
    CASE reel = "route" -> EffortSteps - 1
      [] reel = "open" -> (IF Len(tools) > 1 THEN ToolSteps ELSE 0) + ToolSteps + 2
      [] reel = "frames" -> (IF Len(tools) > 1 THEN ToolSteps ELSE 0) + Len(marks) + 3
      [] reel = "none" -> 1
      [] OTHER -> 0

\* Steps that the extractions of a video can still make.
ReelLeft == (MaxExtractions - extractions) * (EffortSteps + EffortSteps + EffortSteps)
            + (2 - effort) * EffortSteps + EffortLeft

MarksInv == ReelInv /\ (reel = "frames" => Len(marks) <= MostMarks)

LEMMA MarksNumbers ==
    ReelInv => /\ MostMarks \in Nat /\ ToolSteps \in Nat /\ EffortSteps \in Nat
               /\ \A tool : Len(Marks(tool)) <= MostMarks /\ Len(Marks(tool)) \in Nat
<1> SUFFICES ASSUME ReelInv
             PROVE  /\ MostMarks \in Nat /\ ToolSteps \in Nat /\ EffortSteps \in Nat
                    /\ \A tool : Len(Marks(tool)) <= MostMarks /\ Len(Marks(tool)) \in Nat
    OBVIOUS
<1>1. \A tool : Marks(tool) \in Seq(Nat)
    BY MarksType DEF ReelInv, KeyframesTypeOK
<1>2. ASSUME NEW tool PROVE Len(Marks(tool)) \in Nat
  <2>1. Marks(tool) \in Seq(Nat)
      BY <1>1
  <2> HIDE DEF Marks
  <2> QED BY <2>1
<1> DEFINE a == Len(Marks("pyav"))
           b == Len(Marks("pyscene"))
<1>3. MostMarks = a + b /\ a \in Nat /\ b \in Nat
    BY <1>2 DEF MostMarks
<1>4. ASSUME NEW tool PROVE Len(Marks(tool)) \in {a, b}
    BY DEF Marks
<1> HIDE DEF a, b
<1>5. MostMarks \in Nat /\ a <= MostMarks /\ b <= MostMarks
    BY <1>3
<1>6. ToolSteps \in Nat /\ EffortSteps \in Nat
    BY <1>5 DEF ToolSteps, EffortSteps
<1>7. ASSUME NEW tool PROVE Len(Marks(tool)) <= MostMarks
    BY <1>4, <1>5
<1> QED BY <1>2, <1>5, <1>6, <1>7

LEMMA MarksStep == MarksInv /\ [KeyframesNext]_reelVars => MarksInv'
<1> SUFFICES ASSUME MarksInv, [KeyframesNext]_reelVars PROVE MarksInv'
    OBVIOUS
<1>1. ReelInv'
    BY ReelStep DEF MarksInv
<1>2. MostMarks' = MostMarks /\ ReelInv
  <2>1. footage' = footage
      BY DEF KeyframesNext, reelVars, Route, RefuseFile, ChooseMarks, SaveFrameFile, SkipMark,
             FinishFrames, RaiseFrames, RetryFrames, GiveUpFrames, ExtractAgain
  <2> QED BY <2>1 DEF MostMarks, Marks, MarksInv
<1> DEFINE m == MostMarks
           Few == reel' = "frames" => Len(marks') <= m
<1>3. m \in Nat
    BY <1>2, MarksNumbers
<1>4. CASE ChooseMarks
  <2>1. marks' = Marks(Head(tools))
      BY <1>4 DEF ChooseMarks
  <2>2. Len(Marks(Head(tools))) <= m
      BY <1>2, MarksNumbers
  <2>3. Few
      BY <2>1, <2>2
  <2> QED BY <1>1, <1>2, <2>3 DEF MarksInv
<1>5. CASE SaveFrameFile \/ SkipMark
  <2>1. marks' = Tail(marks) /\ marks # <<>> /\ marks \in Seq(Nat) /\ reel = "frames"
      BY <1>2, <1>5 DEF SaveFrameFile, SkipMark, ReelInv, KeyframesTypeOK
  <2>2. Len(marks') = Len(marks) - 1 /\ Len(marks) \in Nat
      BY <2>1, HeadTailProperties
  <2>3. Len(marks) <= m
      BY <2>1 DEF MarksInv
  <2>4. Few
    <3> DEFINE n == Len(marks)
    <3>1. n \in Nat /\ n <= m /\ Len(marks') = n - 1
        BY <2>2, <2>3
    <3> HIDE DEF m, n
    <3>2. n - 1 <= m
        BY <1>3, <3>1
    <3> QED BY <3>1, <3>2
  <2> QED BY <1>1, <1>2, <2>4 DEF MarksInv
<1>6. CASE UNCHANGED reelVars
  <2>1. UNCHANGED <<reel, marks>>
      BY <1>6 DEF reelVars
  <2> QED BY <1>1, <1>2, <2>1 DEF MarksInv
<1>7. CASE Route \/ RefuseFile \/ FinishFrames \/ RaiseFrames \/ RetryFrames \/ GiveUpFrames \/ ExtractAgain
  <2>1. reel' # "frames"
      BY <1>7 DEF Route, RefuseFile, FinishFrames, RaiseFrames, RetryFrames, GiveUpFrames,
                  ExtractAgain, GiveWay
  <2> QED BY <1>1, <2>1 DEF MarksInv
<1> QED BY <1>4, <1>5, <1>6, <1>7 DEF KeyframesNext

\* An attempt has steps left until it is over, and fewer than the next would.
LEMMA EffortNumbers ==
    MarksInv => /\ EffortLeft \in Nat /\ EffortLeft < EffortSteps
                /\ reel = "none" => EffortLeft = 1
<1> SUFFICES ASSUME MarksInv
             PROVE  /\ EffortLeft \in Nat /\ EffortLeft < EffortSteps
                    /\ reel = "none" => EffortLeft = 1
    OBVIOUS
<1> DEFINE t == ToolSteps
           m == MostMarks
           l == Len(marks)
           p == IF Len(tools) > 1 THEN t ELSE 0
<1>1. m \in Nat /\ t \in Nat /\ t = m + 2 /\ EffortSteps = t + t + 4
    BY MarksNumbers DEF MarksInv, ToolSteps, EffortSteps
<1>2. l \in Nat /\ (reel = "frames" => l <= m)
    BY DEF MarksInv, ReelInv, KeyframesTypeOK
<1>3. EffortLeft = CASE reel = "route" -> t + t + 4 - 1
                     [] reel = "open" -> p + t + 2
                     [] reel = "frames" -> p + l + 3
                     [] reel = "none" -> 1
                     [] OTHER -> 0
    BY <1>1 DEF EffortLeft
<1>4. p \in {0, t}
    OBVIOUS
<1> HIDE DEF t, m, l, p
<1> QED BY <1>1, <1>2, <1>3, <1>4

\* Each step of an attempt leaves fewer.
LEMMA EffortAdvances ==
    ASSUME MarksInv, MarksInv', KeyframesNext, reel' # "route"
    PROVE  EffortLeft' < EffortLeft
<1> DEFINE t == ToolSteps
           m == MostMarks
           l == Len(marks)
           l1 == Len(marks')
           p == IF Len(tools) > 1 THEN t ELSE 0
           p1 == IF Len(tools') > 1 THEN t ELSE 0
<1>0. footage' = footage
    BY DEF KeyframesNext, Route, RefuseFile, ChooseMarks, SaveFrameFile, SkipMark,
           FinishFrames, RaiseFrames, RetryFrames, GiveUpFrames, ExtractAgain
<1>1. m \in Nat /\ t \in Nat /\ t = m + 2 /\ ToolSteps' = t /\ EffortSteps = t + t + 4
  <2>1. MostMarks' = MostMarks
      BY <1>0 DEF MostMarks, Marks
  <2> QED BY <2>1, MarksNumbers DEF MarksInv, ToolSteps, EffortSteps
<1>2. l \in Nat /\ l1 \in Nat /\ (reel' = "frames" => l1 <= m)
  <2>1. (reel = "frames" => Len(marks) <= MostMarks)'
      BY DEF MarksInv
  <2>2. MostMarks' = m
      BY <1>0 DEF MostMarks, Marks
  <2>3. marks \in Seq(Nat) /\ marks' \in Seq(Nat)
      BY DEF MarksInv, ReelInv, KeyframesTypeOK
  <2>4. l \in Nat /\ l1 \in Nat
      BY <2>3
  <2> QED BY <2>1, <2>2, <2>4
<1>3. /\ EffortLeft = CASE reel = "route" -> t + t + 4 - 1
                        [] reel = "open" -> p + t + 2
                        [] reel = "frames" -> p + l + 3
                        [] reel = "none" -> 1
                        [] OTHER -> 0
      /\ EffortLeft' = CASE reel' = "route" -> EffortSteps' - 1
                         [] reel' = "open" -> p1 + t + 2
                         [] reel' = "frames" -> p1 + l1 + 3
                         [] reel' = "none" -> 1
                         [] OTHER -> 0
    BY <1>1 DEF EffortLeft
<1>4. p \in {0, t} /\ p1 \in {0, t}
    OBVIOUS
\* To the next extractor, or none.
<1>5. ASSUME GiveWay, reel \in {"open", "frames"} PROVE EffortLeft' < EffortLeft
  <2>1. tools \in Seq({"pyav", "pyscene"}) /\ tools # <<>> /\ Len(tools) <= 2
      BY <1>5 DEF MarksInv, ReelInv, KeyframesTypeOK
  <2>2. Len(tools') = Len(tools) - 1 /\ Len(tools) \in Nat
      BY <1>5, <2>1, HeadTailProperties DEF GiveWay
  <2>3. p1 = 0
    <3> DEFINE n == Len(tools)
    <3>1. n \in Nat /\ n <= 2 /\ Len(tools') = n - 1
        BY <2>1, <2>2
    <3> HIDE DEF n
    <3>2. ~(n - 1 > 1)
        BY <3>1
    <3> QED BY <3>1, <3>2
  <2>4. \/ reel' = "open" /\ p = t
        \/ reel' = "none"
      BY <1>5 DEF GiveWay
  <2> HIDE DEF t, m, l, l1, p, p1
  <2>5. EffortLeft \in {p + t + 2, p + l + 3}
      BY <1>3, <1>5
  <2>6. EffortLeft' \in {t + 2, 1} /\ (EffortLeft' = 1 \/ p = t)
      BY <1>1, <1>3, <2>3, <2>4
  <2> QED BY <1>1, <1>2, <1>4, <2>5, <2>6
<1>6. CASE Route
  <2>1. reel = "route" /\ reel' \in {"open", "none"}
      BY <1>6 DEF Route
  <2> HIDE DEF t, m, l, l1, p, p1
  <2>2. EffortLeft = t + t + 3 /\ EffortLeft' \in {p1 + t + 2, 1}
      BY <1>1, <1>3, <2>1
  <2> QED BY <1>1, <1>4, <2>2
<1>7. CASE RefuseFile
    BY <1>5, <1>7 DEF RefuseFile
<1>8. CASE ChooseMarks
  <2>1. reel = "open" /\ reel' = "frames" /\ p1 = p
      BY <1>8 DEF ChooseMarks
  <2> HIDE DEF t, m, l, l1, p, p1
  <2>2. EffortLeft = p + t + 2 /\ EffortLeft' = p + l1 + 3 /\ l1 <= m
      BY <1>2, <1>3, <2>1
  <2> QED BY <1>1, <1>2, <1>4, <2>2
<1>9. CASE SaveFrameFile \/ SkipMark
  <2>1. reel = "frames" /\ reel' = "frames" /\ p1 = p /\ marks' = Tail(marks) /\ marks # <<>>
        /\ marks \in Seq(Nat)
      BY <1>9 DEF SaveFrameFile, SkipMark, MarksInv, ReelInv, KeyframesTypeOK
  <2>2. l1 = l - 1
      BY <2>1, HeadTailProperties
  <2> HIDE DEF t, m, l, l1, p, p1
  <2>3. EffortLeft = p + l + 3 /\ EffortLeft' = p + (l - 1) + 3
      BY <1>3, <2>1, <2>2
  <2> QED BY <1>1, <1>2, <1>4, <2>3
<1>10. CASE FinishFrames
  <2>1. CASE saved = <<>>
      BY <1>5, <1>10, <2>1 DEF FinishFrames
  <2>2. CASE saved # <<>>
    <3>1. reel = "frames" /\ reel' = "frames_found"
        BY <1>10, <2>2 DEF FinishFrames
    <3> HIDE DEF t, m, l, l1, p, p1
    <3>2. EffortLeft = p + l + 3 /\ EffortLeft' = 0
        BY <1>3, <3>1
    <3> QED BY <1>1, <1>2, <1>4, <3>2
  <2> QED BY <2>1, <2>2
<1>11. CASE RaiseFrames
    BY <1>5, <1>11 DEF RaiseFrames
<1>12. CASE RetryFrames \/ ExtractAgain
    BY <1>12 DEF RetryFrames, ExtractAgain
<1>13. CASE GiveUpFrames
  <2>1. reel = "none" /\ reel' = "nothing"
      BY <1>13 DEF GiveUpFrames
  <2>2. EffortLeft = 1 /\ EffortLeft' = 0
      BY <1>3, <2>1
  <2> QED BY <2>2
<1> QED BY <1>6, <1>7, <1>8, <1>9, <1>10, <1>11, <1>12, <1>13 DEF KeyframesNext

LEMMA ReelAdvances == MarksInv /\ MarksInv' /\ KeyframesNext => ReelLeft' < ReelLeft
<1> SUFFICES ASSUME MarksInv, MarksInv', KeyframesNext PROVE ReelLeft' < ReelLeft
    OBVIOUS
<1> DEFINE E == EffortSteps
           x == MaxExtractions - extractions
           x1 == MaxExtractions - extractions'
           f == 2 - effort
           f1 == 2 - effort'
           a == EffortLeft
           a1 == EffortLeft'
<1>1. E \in Nat /\ EffortSteps' = E
  <2>1. footage' = footage
      BY DEF KeyframesNext, Route, RefuseFile, ChooseMarks, SaveFrameFile, SkipMark,
             FinishFrames, RaiseFrames, RetryFrames, GiveUpFrames, ExtractAgain
  <2> QED BY <2>1, MarksNumbers DEF MarksInv, EffortSteps, ToolSteps, MostMarks, Marks
<1>2. /\ a \in Nat /\ a < E /\ (reel = "none" => a = 1)
      /\ a1 \in Nat /\ a1 < E
  <2>1. (EffortLeft \in Nat /\ EffortLeft < EffortSteps)'
      BY EffortNumbers, PTL
  <2> QED BY <1>1, <2>1, EffortNumbers
<1>3. ReelLeft = x * (E + E + E) + f * E + a /\ ReelLeft' = x1 * (E + E + E) + f1 * E + a1
    BY <1>1 DEF ReelLeft
<1>4. /\ extractions \in 1..MaxExtractions /\ effort \in 0..2 /\ MaxExtractions \in Nat
      /\ x \in Nat /\ f \in 0..2
  <2>1. extractions \in 1..MaxExtractions /\ effort \in 0..2 /\ MaxExtractions \in Nat
      BY KeyframesAssumption DEF KeyframesAssumption, MarksInv, ReelInv, KeyframesTypeOK
  <2> QED BY <2>1
<1>5. CASE reel' # "route"
  <2>1. UNCHANGED <<extractions, effort>>
      BY <1>5 DEF KeyframesNext, Route, RefuseFile, ChooseMarks, SaveFrameFile, SkipMark,
                  FinishFrames, RaiseFrames, RetryFrames, GiveUpFrames, ExtractAgain
  <2>2. x1 = x /\ f1 = f /\ a1 < a
      BY <1>5, <2>1, EffortAdvances
  <2> HIDE DEF E, x, x1, f, f1, a, a1
  <2> DEFINE y == x * (E + E + E)
             z == f * E
  <2>3. y \in Nat /\ z \in Nat
      BY <1>1, <1>4, SmallerFactor
  <2>4. ReelLeft = y + z + a /\ ReelLeft' = y + z + a1
      BY <1>3, <2>2
  <2> HIDE DEF y, z
  <2> QED BY <1>2, <2>2, <2>3, <2>4
<1>6. CASE RetryFrames
  <2>1. effort' = effort + 1 /\ effort < 2 /\ extractions' = extractions /\ reel = "none"
      BY <1>6 DEF RetryFrames
  <2>2. x1 = x /\ f \in Nat \ {0} /\ f1 = f - 1
      BY <1>4, <2>1
  <2> HIDE DEF E, x, x1, f, f1, a, a1
  <2> DEFINE y == x * (E + E + E)
             z == f * E
             z1 == (f - 1) * E
  <2>3. y \in Nat /\ z1 \in Nat /\ z = z1 + E
      BY <1>1, <1>4, <2>2, SmallerFactor, OneFactorLess
  <2>4. ReelLeft = y + z + a /\ ReelLeft' = y + z1 + a1
      BY <1>3, <2>2
  <2> HIDE DEF y, z, z1
  <2> QED BY <1>1, <1>2, <2>3, <2>4
<1>7. CASE ExtractAgain
  <2>1. effort' = 0 /\ extractions' = extractions + 1 /\ extractions < MaxExtractions
      BY <1>7 DEF ExtractAgain
  <2>2. x \in Nat \ {0} /\ x1 = x - 1 /\ f1 = 2
      BY <1>4, <2>1
  <2> HIDE DEF E, x, x1, f, f1, a, a1
  <2> DEFINE T == E + E + E
             y == x * T
             y1 == (x - 1) * T
             z == f * E
  <2>3. y1 \in Nat /\ y = y1 + T /\ z \in Nat
      BY <1>1, <1>4, <2>2, SmallerFactor, OneFactorLess
  <2>4. ReelLeft = y + z + a /\ ReelLeft' = y1 + 2 * E + a1
      BY <1>3, <2>2
  <2>5. T = E + E + E
      OBVIOUS
  <2> HIDE DEF y, y1, z, T
  <2> QED BY <1>1, <1>2, <2>3, <2>4, <2>5
<1>8. CASE Route \/ RefuseFile \/ ChooseMarks \/ SaveFrameFile \/ SkipMark \/ FinishFrames
           \/ RaiseFrames \/ GiveUpFrames
  <2>1. reel' # "route"
      BY <1>8 DEF Route, RefuseFile, ChooseMarks, SaveFrameFile, SkipMark, FinishFrames,
                  RaiseFrames, GiveUpFrames, GiveWay
  <2> QED BY <1>5, <2>1
<1> QED BY <1>6, <1>7, <1>8 DEF KeyframesNext

LEMMA ReelLeftNat == MarksInv => ReelLeft \in Nat
<1> SUFFICES ASSUME MarksInv PROVE ReelLeft \in Nat
    OBVIOUS
<1> DEFINE E == EffortSteps
           x == MaxExtractions - extractions
           f == 2 - effort
<1>1. E \in Nat /\ EffortLeft \in Nat
    BY MarksNumbers, EffortNumbers DEF MarksInv
<1>2. x \in Nat /\ f \in Nat
  <2>1. extractions \in 1..MaxExtractions /\ effort \in 0..2 /\ MaxExtractions \in Nat
      BY KeyframesAssumption DEF KeyframesAssumption, MarksInv, ReelInv, KeyframesTypeOK
  <2> QED BY <2>1
<1>3. ReelLeft = x * (E + E + E) + f * E + EffortLeft
    BY DEF ReelLeft
<1> HIDE DEF E, x, f
<1>4. x * (E + E + E) \in Nat /\ f * E \in Nat
    BY <1>1, <1>2, SmallerFactor
<1> QED BY <1>1, <1>3, <1>4

\* The extraction ends, whatever cannot be opened, read or written: each step
\* uses one up of a number that the timestamps of the video, the two
\* extractors, the three attempts and the deliveries limit from the start.
THEOREM ReelEnds == KeyframesSpec => [](ReelLeft \in Nat) /\ [][ReelLeft' < ReelLeft]_reelVars
<1>1. KeyframesInit => MarksInv
    BY ReelInit DEF KeyframesInit, MarksInv
<1>2. MarksInv => ReelLeft \in Nat
    BY ReelLeftNat
<1>3. MarksInv /\ MarksInv' /\ [KeyframesNext]_reelVars => [ReelLeft' < ReelLeft]_reelVars
    BY ReelAdvances
<1> QED BY <1>1, MarksStep, <1>2, <1>3, PTL DEF KeyframesSpec

\* Steps that a download can still make in this process: three in an attempt,
\* and the clean-up.
DownloadLeft(v) ==
    CASE tube[v] = "wait" -> 3 * MaxRetries + 2
      [] tube[v] = "fetch" -> 3 * (MaxRetries - tubeTry[v]) + 1
      [] tube[v] = "write" -> 3 * (MaxRetries - tubeTry[v])
      [] tube[v] = "process" -> 3 * (MaxRetries - tubeTry[v]) - 1
      [] tube[v] = "clean" -> 1
      [] OTHER -> 0

\* Those of all downloads, as pairs.
AllSteps == Downloads \X (1..(3 * MaxRetries + 2))
TubeSteps == {x \in AllSteps : x[2] <= DownloadLeft(x[1])}

TubeLeft == (MaxTubeStarts - tubeStarts) * (Cardinality(AllSteps) + 1) + Cardinality(TubeSteps)

TriesLimited == \A v \in Downloads : DownloadLeft(v) \in 0..(3 * MaxRetries + 2)

LEMMA DownloadNumbers == YoutubeTypeOK => TriesLimited
<1> SUFFICES ASSUME YoutubeTypeOK, NEW v \in Downloads PROVE DownloadLeft(v) \in 0..(3 * MaxRetries + 2)
    BY DEF TriesLimited
<1> DEFINE y == tubeTry[v]
<1>1. y \in 0..MaxRetries-1 /\ MaxRetries \in Nat \ {0}
    BY YoutubeAssumption DEF YoutubeTypeOK
<1>2. DownloadLeft(v) \in {3 * MaxRetries + 2, 3 * (MaxRetries - y) + 1, 3 * (MaxRetries - y),
                          3 * (MaxRetries - y) - 1, 1, 0}
    BY DEF DownloadLeft
<1> HIDE DEF y
<1> QED BY <1>1, <1>2

LEMMA TubeStepsFinite ==
    /\ IsFiniteSet(AllSteps) /\ Cardinality(AllSteps) \in Nat
    /\ \A S \in SUBSET AllSteps : /\ IsFiniteSet(S) /\ Cardinality(S) \in Nat
                                  /\ Cardinality(S) <= Cardinality(AllSteps)
<1>1. IsFiniteSet(AllSteps)
  <2>1. 3 * MaxRetries + 2 \in Nat
      BY YoutubeAssumption
  <2>2. IsFiniteSet(1..(3 * MaxRetries + 2))
    <3> DEFINE n == 3 * MaxRetries + 2
    <3>1. 1 \in Int /\ n \in Int
        BY <2>1
    <3> HIDE DEF n
    <3>2. IsFiniteSet(1..n)
        BY <3>1, FS_Interval
    <3> QED BY <3>2 DEF n
  <2>3. IsFiniteSet(Downloads)
      BY YoutubeAssumption
  <2> QED BY <2>2, <2>3, FS_Product DEF AllSteps
<1> HIDE DEF AllSteps
<1>2. ASSUME NEW S \in SUBSET AllSteps
      PROVE  /\ IsFiniteSet(S) /\ Cardinality(S) \in Nat
             /\ Cardinality(S) <= Cardinality(AllSteps)
    BY <1>1, FS_Subset, FS_CardinalityType
<1> QED BY <1>1, <1>2, FS_CardinalityType

LEMMA TubeLeftNat == YoutubeTypeOK => TubeLeft \in Nat
<1> SUFFICES ASSUME YoutubeTypeOK PROVE TubeLeft \in Nat
    OBVIOUS
<1> DEFINE n == MaxTubeStarts - tubeStarts
           c == Cardinality(AllSteps)
           s == Cardinality(TubeSteps)
<1>1. n \in Nat
    BY YoutubeAssumption DEF YoutubeTypeOK
<1>2. c \in Nat /\ s \in Nat
    BY TubeStepsFinite DEF TubeSteps
<1>3. TubeLeft = n * (c + 1) + s
    BY DEF TubeLeft
<1> HIDE DEF n, c, s
<1>4. n * (c + 1) \in Nat
    BY <1>1, <1>2, SmallerFactor
<1> QED BY <1>2, <1>3, <1>4

\* Where a step takes a download.
NextStage(v, stage) ==
    \/ tube[v] = "wait" /\ stage \in {"fetch", "done"} /\ UNCHANGED tubeTry[v]
    \/ tube[v] = "fetch" /\ stage \in {"write", "process"} /\ UNCHANGED tubeTry[v]
    \/ tube[v] = "write" /\ stage = "process" /\ UNCHANGED tubeTry[v]
    \/ tube[v] \in Working /\ stage = "lost" /\ UNCHANGED tubeTry[v]
    \/ tube[v] \in Working /\ stage = "fetch" /\ tubeTry[v]' = tubeTry[v] + 1
    \/ tube[v] = "process" /\ stage = "clean"
    \/ tube[v] = "clean" /\ stage = "done"

\* A step of one download leaves it fewer, and the others theirs.
LEMMA DownloadAdvances ==
    ASSUME YoutubeTypeOK, YoutubeTypeOK', NEW v \in Downloads, TubeStep(v)
    PROVE  /\ DownloadLeft(v)' < DownloadLeft(v)
           /\ \A w \in Downloads : w # v => DownloadLeft(w)' = DownloadLeft(w)
           /\ tubeStarts' = tubeStarts
<1> DEFINE y == tubeTry[v]
           y1 == tubeTry'[v]
           m == MaxRetries
<1>1. y \in 0..m-1 /\ y1 \in 0..m-1 /\ m \in Nat \ {0}
    BY YoutubeAssumption DEF YoutubeTypeOK
<1>2. \E stage : TubeGo(v, stage) /\ NextStage(v, stage)
  <2>1. CASE CheckExisting(v)
      BY <2>1 DEF CheckExisting, TakeFile, NextStage
  <2>2. CASE NoDirectory(v) \/ YtdlpWrites(v) \/ CleanUp(v)
      BY <2>2 DEF NoDirectory, YtdlpWrites, CleanUp, NextStage, Working
  <2>3. CASE YtdlpFinishes(v)
      BY <2>3 DEF YtdlpFinishes, NextStage
  <2>4. RetryOrFail(v) /\ tube[v] \in Working => \E stage : TubeGo(v, stage) /\ NextStage(v, stage)
      BY DEF RetryOrFail, NextStage, YoutubeTypeOK
  <2>5. CASE YtdlpFails(v)
      BY <2>4, <2>5 DEF YtdlpFails, Working
  <2>6. CASE ProcessFile(v)
      BY <2>4, <2>6 DEF ProcessFile, EmptyFile, TakeFile, NextStage, Working
  <2> QED BY <2>1, <2>2, <2>3, <2>5, <2>6 DEF TubeStep
<1>3. PICK stage : TubeGo(v, stage) /\ NextStage(v, stage)
    BY <1>2
<1>4. tube' = [tube EXCEPT ![v] = stage] /\ tube'[v] = stage
    BY <1>3 DEF TubeGo, YoutubeTypeOK
<1>5. /\ DownloadLeft(v) = CASE tube[v] = "wait" -> 3 * m + 2
                             [] tube[v] = "fetch" -> 3 * (m - y) + 1
                             [] tube[v] = "write" -> 3 * (m - y)
                             [] tube[v] = "process" -> 3 * (m - y) - 1
                             [] tube[v] = "clean" -> 1
                             [] OTHER -> 0
      /\ DownloadLeft(v)' = CASE stage = "wait" -> 3 * m + 2
                              [] stage = "fetch" -> 3 * (m - y1) + 1
                              [] stage = "write" -> 3 * (m - y1)
                              [] stage = "process" -> 3 * (m - y1) - 1
                              [] stage = "clean" -> 1
                              [] OTHER -> 0
    BY <1>4 DEF DownloadLeft
<1>6. \A w \in Downloads : w # v => tube'[w] = tube[w] /\ tubeTry'[w] = tubeTry[w]
  <2>1. tubeTry' = tubeTry \/ tubeTry' = [tubeTry EXCEPT ![v] = @ + 1]
      BY DEF TubeStep, CheckExisting, NoDirectory, YtdlpWrites, YtdlpFinishes, YtdlpFails,
             RetryOrFail, ProcessFile, CleanUp
  <2> QED BY <1>4, <2>1 DEF YoutubeTypeOK
<1>7. tubeStarts' = tubeStarts
    BY DEF TubeStep, CheckExisting, NoDirectory, YtdlpWrites, YtdlpFinishes, YtdlpFails,
           ProcessFile, CleanUp
<1>8. DownloadLeft(v)' < DownloadLeft(v)
  <2> HIDE DEF y, y1, m
  <2>1. y1 = tubeTry'[v] /\ y = tubeTry[v]
      BY DEF y, y1
  <2>2. CASE tube[v] = "wait"
    <3>1. DownloadLeft(v) = 3 * m + 2 /\ DownloadLeft(v)' \in {3 * (m - y1) + 1, 0}
        BY <1>3, <1>5, <2>2 DEF NextStage, Working
    <3> QED BY <1>1, <3>1
  <2>3. CASE tube[v] \in Working
    <3>1. /\ DownloadLeft(v) \in {3 * (m - y) + 1, 3 * (m - y), 3 * (m - y) - 1}
          /\ stage = "fetch" => DownloadLeft(v)' = 3 * (m - (y + 1)) + 1
          /\ stage = "lost" => DownloadLeft(v)' = 0
          /\ stage = "clean" => DownloadLeft(v)' = 1
        BY <1>3, <1>5, <2>1, <2>3 DEF NextStage, Working
    <3>2. CASE stage \in {"fetch", "lost", "clean"}
        BY <1>1, <3>1, <3>2
    <3>3. CASE stage \in {"write", "process"}
      <4>1. y1 = y
          BY <1>3, <2>1, <2>3, <3>3 DEF NextStage, Working
      <4>2. \/ tube[v] = "fetch"
            \/ tube[v] = "write" /\ stage = "process"
          BY <1>3, <2>3, <3>3 DEF NextStage, Working
      <4>3. \/ DownloadLeft(v) = 3 * (m - y) + 1 /\ DownloadLeft(v)' \in {3 * (m - y), 3 * (m - y) - 1}
            \/ DownloadLeft(v) = 3 * (m - y) /\ DownloadLeft(v)' = 3 * (m - y) - 1
          BY <1>5, <3>3, <4>1, <4>2
      <4> QED BY <1>1, <4>3
    <3> QED BY <1>3, <2>3, <3>2, <3>3 DEF NextStage, Working
  <2>4. CASE tube[v] = "clean"
      BY <1>3, <1>5, <2>4 DEF NextStage, Working
  <2> QED BY <1>3, <2>2, <2>3, <2>4 DEF NextStage, Working
<1> QED BY <1>6, <1>7, <1>8 DEF DownloadLeft

LEMMA TubeAdvances == YoutubeTypeOK /\ YoutubeTypeOK' /\ YoutubeNext => TubeLeft' < TubeLeft
<1> SUFFICES ASSUME YoutubeTypeOK, YoutubeTypeOK', YoutubeNext PROVE TubeLeft' < TubeLeft
    OBVIOUS
<1> DEFINE n == MaxTubeStarts - tubeStarts
           n1 == MaxTubeStarts - tubeStarts'
           c == Cardinality(AllSteps)
           s == Cardinality(TubeSteps)
           s1 == Cardinality(TubeSteps')
<1>1. TubeSteps \in SUBSET AllSteps /\ TubeSteps' \in SUBSET AllSteps
    BY DEF TubeSteps
<1>2. c \in Nat /\ s \in Nat /\ s1 \in Nat /\ s1 <= c /\ n \in Nat
  <2>1. tubeStarts \in 1..MaxTubeStarts /\ MaxTubeStarts \in Nat
      BY YoutubeAssumption DEF YoutubeTypeOK
  <2>2. n \in Nat
      BY <2>1
  <2> QED BY <1>1, <2>2, TubeStepsFinite
<1>3. TubeLeft = n * (c + 1) + s /\ TubeLeft' = n1 * (c + 1) + s1
    BY DEF TubeLeft, AllSteps
<1>4. CASE Restart
  <2>1. tubeStarts' = tubeStarts + 1 /\ tubeStarts < MaxTubeStarts /\ tubeStarts \in Nat
        /\ MaxTubeStarts \in Nat
      BY <1>4, YoutubeAssumption DEF Restart, YoutubeTypeOK
  <2>2. n \in Nat \ {0} /\ n1 = n - 1
      BY <2>1
  <2> HIDE DEF n, n1, c, s, s1
  <2> DEFINE x == n * (c + 1)
             x1 == (n - 1) * (c + 1)
  <2>3. x = x1 + (c + 1) /\ x1 \in Nat
      BY <1>2, <2>2, OneFactorLess
  <2>4. TubeLeft = x + s /\ TubeLeft' = x1 + s1
      BY <1>3, <2>2
  <2> HIDE DEF x, x1
  <2> QED BY <1>2, <2>3, <2>4
<1>5. ASSUME NEW v \in Downloads, TubeStep(v)
      PROVE  TubeLeft' < TubeLeft
  <2>1. /\ DownloadLeft(v)' < DownloadLeft(v) /\ tubeStarts' = tubeStarts
        /\ \A w \in Downloads : w # v => DownloadLeft(w)' = DownloadLeft(w)
      BY <1>5, DownloadAdvances
  <2> DEFINE d == DownloadLeft(v)
             e == DownloadLeft(v)'
             N == 3 * MaxRetries + 2
  <2>2. d \in 0..N /\ e \in 0..N /\ e < d /\ N \in Nat
    <3>1. TriesLimited'
        BY DownloadNumbers, PTL
    <3>2. e \in 0..N
        BY <3>1 DEF TriesLimited
    <3>3. d \in 0..N /\ N \in Nat
        BY DownloadNumbers, YoutubeAssumption DEF TriesLimited
    <3>4. e < d
        BY <2>1
    <3> QED BY <3>2, <3>3, <3>4
  <2>3. TubeSteps' \subseteq TubeSteps
    <3> SUFFICES ASSUME NEW x \in AllSteps, x[2] <= DownloadLeft(x[1])'
                 PROVE  x[2] <= DownloadLeft(x[1])
        BY DEF TubeSteps, AllSteps
    <3>1. x[1] \in Downloads /\ x[2] \in 1..N
        BY DEF AllSteps
    <3>2. CASE x[1] # v
        BY <2>1, <3>1, <3>2
    <3>3. CASE x[1] = v
      <4>1. x[2] <= e
          BY <3>3
      <4>2. x[2] <= d
        <5> DEFINE i == x[2]
        <5>1. i \in Nat /\ i <= e
            BY <2>2, <3>1, <4>1
        <5> HIDE DEF i, d, e
        <5>2. i <= d
            BY <2>2, <5>1
        <5> QED BY <5>2 DEF i
      <4> QED BY <3>3, <4>2
    <3> QED BY <3>2, <3>3
  <2>4. <<v, d>> \in TubeSteps /\ <<v, d>> \notin TubeSteps'
    <3> HIDE DEF d, e, N
    <3>1. d \in 1..N /\ ~(d <= e)
        BY <2>2
    <3>2. <<v, d>> \in AllSteps
        BY <3>1 DEF AllSteps, N
    <3>3. <<v, d>>[1] = v /\ <<v, d>>[2] = d
        OBVIOUS
    <3>4. d <= DownloadLeft(v)
        BY <2>2 DEF d
    <3>5. <<v, d>> \in TubeSteps
        BY <3>2, <3>3, <3>4 DEF TubeSteps
    <3>6. ASSUME <<v, d>> \in TubeSteps' PROVE FALSE
      <4>1. d <= DownloadLeft(v)'
          BY <3>3, <3>6 DEF TubeSteps
      <4> QED BY <3>1, <4>1 DEF e
    <3> QED BY <3>5, <3>6
  <2>5. s1 < s
    <3>1. IsFiniteSet(TubeSteps) /\ TubeSteps' \in SUBSET TubeSteps /\ TubeSteps # TubeSteps'
        BY <1>1, <2>3, <2>4, TubeStepsFinite
    <3>2. s1 <= s /\ s # s1
        BY <3>1, FS_Subset
    <3> HIDE DEF s, s1
    <3> QED BY <1>2, <3>2
  <2>6. n1 = n
      BY <2>1
  <2> HIDE DEF n, n1, c, s, s1
  <2> DEFINE x == n * (c + 1)
  <2>7. TubeLeft = x + s /\ TubeLeft' = x + s1 /\ x \in Nat
      BY <1>2, <1>3, <2>6, SmallerFactor
  <2> HIDE DEF x
  <2> QED BY <1>2, <2>5, <2>7
<1> QED BY <1>4, <1>5 DEF YoutubeNext, TubeStep

\* The downloads end, whatever yt-dlp raises or leaves behind: each step uses
\* one up of a number that the videos and their attempts limit, and only a
\* delivery of the request to a new process begins them again.
THEOREM TubeEnds == YoutubeSpec => [](TubeLeft \in Nat) /\ [][TubeLeft' < TubeLeft]_tubeVars
<1>1. FilesInv => YoutubeTypeOK
    BY DEF FilesInv
<1>2. YoutubeTypeOK => TubeLeft \in Nat
    BY TubeLeftNat
<1>3. YoutubeTypeOK /\ YoutubeTypeOK' /\ [YoutubeNext]_tubeVars => [TubeLeft' < TubeLeft]_tubeVars
    BY TubeAdvances
<1> QED BY FilesInit, FilesStep, <1>1, <1>2, <1>3, PTL DEF YoutubeSpec

\* Steps that a run of the migrations can still make: its three connections may
\* each need all of their attempts.
RunLeft(r) ==
    CASE step[r] = "test" -> 3 * Tries + 4 - knocks[r]
      [] step[r] = "read" -> 2 * Tries + 4 - knocks[r]
      [] step[r] = "compare" -> Tries + 4
      [] step[r] = "begin" -> Tries + 3
      [] step[r] = "command" -> Tries + 2
      [] step[r] = "verify" -> Tries + 1 - knocks[r]
      [] step[r] = "judge" -> 1
      [] OTHER -> 0

RunsLimited == \A r \in Runners : RunLeft(r) \in 0..(3 * Tries + 4)

\* A step is a start of one runner or leaves it fewer; the others keep theirs.
RunGoesOn ==
    \E r \in Runners :
        /\ \/ step[r] \in {"idle", "ok", "failed", "error"} /\ step'[r] = "test"
           \/ RunLeft(r)' < RunLeft(r)
        /\ \A s \in Runners : s # r => RunLeft(s)' = RunLeft(s)

LEMMA RunLeftNat == MigrationsTypeOK => RunsLimited
<1> SUFFICES ASSUME MigrationsTypeOK, NEW r \in Runners PROVE RunLeft(r) \in 0..(3 * Tries + 4)
    BY DEF RunsLimited
<1> DEFINE k == knocks[r]
<1>1. k \in 0..Tries-1 /\ Tries \in Nat \ {0}
    BY MigrationsAssumption DEF MigrationsTypeOK
<1>2. RunLeft(r) \in {3 * Tries + 4 - k, 2 * Tries + 4 - k, Tries + 4, Tries + 3, Tries + 2,
                      Tries + 1 - k, 1, 0}
    BY DEF RunLeft
<1> HIDE DEF k
<1> QED BY <1>1, <1>2

LEMMA RunAdvances == MigrationsTypeOK /\ MigrationsTypeOK' /\ MigrationsNext => RunGoesOn
<1> SUFFICES ASSUME MigrationsTypeOK, MigrationsTypeOK', MigrationsNext PROVE RunGoesOn
    OBVIOUS
\* A step of r leaves what the other runners have.
<1>1. ASSUME NEW r \in Runners, NEW stage, StepTo(r, stage) \/ UNCHANGED step,
             UNCHANGED knocks \/ (\E k : knocks' = [knocks EXCEPT ![r] = k])
      PROVE  \A s \in Runners : s # r => RunLeft(s)' = RunLeft(s)
  <2> SUFFICES ASSUME NEW s \in Runners, s # r PROVE RunLeft(s)' = RunLeft(s)
      OBVIOUS
  <2>1. step'[s] = step[s] /\ knocks'[s] = knocks[s]
      BY <1>1 DEF StepTo, MigrationsTypeOK
  <2> QED BY <2>1 DEF RunLeft
<1>2. ASSUME NEW r \in Runners, NEW action \in {"upgrade", "downgrade"}, NEW isDry \in BOOLEAN,
             Run(r, action, isDry)
      PROVE  RunGoesOn
  <2>1. step'[r] = "test" /\ step[r] \in {"idle", "ok", "failed", "error"}
      BY <1>2 DEF Run, StepTo, MigrationsTypeOK
  <2>2. \A s \in Runners : s # r => RunLeft(s)' = RunLeft(s)
      BY <1>1, <1>2 DEF Run
  <2> QED BY <2>1, <2>2 DEF RunGoesOn
<1>3. ASSUME NEW r \in Runners,
             Knock(r) \/ Answer(r) \/ Compare(r) \/ Begin(r) \/ Command(r) \/ Judge(r)
      PROVE  RunGoesOn
  <2> DEFINE k == knocks[r]
             k1 == knocks'[r]
             T == Tries
  <2>1. k \in 0..T-1 /\ k1 \in 0..T-1 /\ T \in Nat \ {0}
      BY MigrationsAssumption DEF MigrationsTypeOK
  <2>2. \E stage :
          /\ StepTo(r, stage) \/ UNCHANGED step
          /\ UNCHANGED knocks \/ (\E j : knocks' = [knocks EXCEPT ![r] = j])
          /\ \/ step'[r] = step[r] /\ step[r] \in {"test", "read", "verify"} /\ k1 = k + 1
             \/ step[r] = "test" /\ step'[r] = "failed"
             \/ step[r] = "test" /\ step'[r] = "read" /\ k1 = 0
             \/ step[r] = "read" /\ step'[r] = "compare"
             \/ step[r] = "compare" /\ step'[r] \in {"ok", "verify", "begin"}
             \/ step[r] = "begin" /\ step'[r] = "command"
             \/ step[r] = "command" /\ step'[r] \in {"verify", "error"}
             \/ step[r] = "verify" /\ step'[r] = "judge"
             \/ step[r] = "judge" /\ step'[r] \in {"ok", "failed"}
    <3>1. CASE Knock(r)
      <4>1. CASE knocks[r] + 1 < Tries
        <5>1. step' = step /\ knocks' = [knocks EXCEPT ![r] = @ + 1]
              /\ step[r] \in {"test", "read", "verify"}
            BY <3>1, <4>1 DEF Knock
        <5>2. k1 = k + 1
            BY <5>1 DEF MigrationsTypeOK
        <5> QED BY <5>1, <5>2
      <4>2. CASE ~(knocks[r] + 1 < Tries)
        <5>1. /\ knocks' = [knocks EXCEPT ![r] = 0]
              /\ \/ step[r] = "test" /\ StepTo(r, "failed")
                 \/ step[r] = "read" /\ StepTo(r, "compare")
                 \/ step[r] = "verify" /\ StepTo(r, "judge")
            BY <3>1, <4>2 DEF Knock
        <5> QED BY <5>1 DEF StepTo, MigrationsTypeOK
      <4> QED BY <4>1, <4>2
    <3>2. CASE Answer(r)
      <4>1. /\ knocks' = [knocks EXCEPT ![r] = 0]
            /\ \/ step[r] = "test" /\ StepTo(r, "read")
               \/ step[r] = "read" /\ StepTo(r, "compare")
               \/ step[r] = "verify" /\ StepTo(r, "judge")
          BY <3>2 DEF Answer
      <4>2. k1 = 0
          BY <4>1 DEF MigrationsTypeOK
      <4> QED BY <4>1, <4>2 DEF StepTo, MigrationsTypeOK
    <3>3. CASE Compare(r)
        BY <3>3 DEF Compare, StepTo, MigrationsTypeOK
    <3>4. CASE Begin(r)
        BY <3>4 DEF Begin, StepTo, MigrationsTypeOK
    <3>5. CASE Command(r)
        BY <3>5 DEF Command, StepTo, MigrationsTypeOK
    <3>6. CASE Judge(r)
        BY <3>6 DEF Judge, StepTo, MigrationsTypeOK
    <3> QED BY <1>3, <3>1, <3>2, <3>3, <3>4, <3>5, <3>6
  <2>3. \A s \in Runners : s # r => RunLeft(s)' = RunLeft(s)
      BY <1>1, <2>2
  <2>4. /\ RunLeft(r) = CASE step[r] = "test" -> 3 * T + 4 - k
                          [] step[r] = "read" -> 2 * T + 4 - k
                          [] step[r] = "compare" -> T + 4
                          [] step[r] = "begin" -> T + 3
                          [] step[r] = "command" -> T + 2
                          [] step[r] = "verify" -> T + 1 - k
                          [] step[r] = "judge" -> 1
                          [] OTHER -> 0
        /\ RunLeft(r)' = CASE step'[r] = "test" -> 3 * T + 4 - k1
                           [] step'[r] = "read" -> 2 * T + 4 - k1
                           [] step'[r] = "compare" -> T + 4
                           [] step'[r] = "begin" -> T + 3
                           [] step'[r] = "command" -> T + 2
                           [] step'[r] = "verify" -> T + 1 - k1
                           [] step'[r] = "judge" -> 1
                           [] OTHER -> 0
      BY DEF RunLeft
  <2>5. RunLeft(r)' < RunLeft(r)
    <3> DEFINE a == step[r]
               b == step'[r]
    <3>1. \/ b = a /\ a \in {"test", "read", "verify"} /\ k1 = k + 1
          \/ a = "test" /\ b = "failed"
          \/ a = "test" /\ b = "read" /\ k1 = 0
          \/ a = "read" /\ b = "compare"
          \/ a = "compare" /\ b \in {"ok", "verify", "begin"}
          \/ a = "begin" /\ b = "command"
          \/ a = "command" /\ b \in {"verify", "error"}
          \/ a = "verify" /\ b = "judge"
          \/ a = "judge" /\ b \in {"ok", "failed"}
        BY <2>2
    <3> HIDE DEF a, b, k, k1, T
    <3>2. CASE b = a /\ a \in {"test", "read", "verify"} /\ k1 = k + 1
        BY <2>1, <2>4, <3>2 DEF a, b
    <3>3. CASE a = "test" /\ b # a
      <4>1. RunLeft(r) = 3 * T + 4 - k /\ RunLeft(r)' \in {0, 2 * T + 4}
          BY <2>1, <2>4, <3>1, <3>3 DEF a, b
      <4> QED BY <2>1, <4>1
    <3>4. CASE a \in {"read", "compare"} /\ b # a
      <4>1. /\ RunLeft(r) \in {2 * T + 4 - k, T + 4}
            /\ RunLeft(r)' \in {T + 4, 0, T + 1 - k1, T + 3}
            /\ RunLeft(r) = T + 4 => RunLeft(r)' \in {0, T + 1 - k1, T + 3}
          BY <2>1, <2>4, <3>1, <3>4 DEF a, b
      <4> QED BY <2>1, <4>1
    <3>5. CASE a \in {"begin", "command"} /\ b # a
      <4>1. \/ RunLeft(r) = T + 3 /\ RunLeft(r)' = T + 2
            \/ RunLeft(r) = T + 2 /\ RunLeft(r)' \in {0, T + 1 - k1}
          BY <2>4, <3>1, <3>5 DEF a, b
      <4> QED BY <2>1, <4>1
    <3>6. CASE a \in {"verify", "judge"} /\ b # a
      <4>1. \/ RunLeft(r) = T + 1 - k /\ RunLeft(r)' = 1
            \/ RunLeft(r) = 1 /\ RunLeft(r)' = 0
          BY <2>4, <3>1, <3>6 DEF a, b
      <4> QED BY <2>1, <4>1
    <3> QED BY <3>1, <3>2, <3>3, <3>4, <3>5, <3>6
  <2> QED BY <2>3, <2>5 DEF RunGoesOn
<1> QED BY <1>2, <1>3 DEF MigrationsNext

\* A run of the migrations ends, however often the database does not answer and
\* whatever other runners do: after its start it makes no more than 3 Tries + 4
\* steps, and nothing but its start makes them more.
THEOREM RunEnds == MigrationsSpec => []RunsLimited /\ [][RunGoesOn]_migrationVars
<1>1. VerdictInv => MigrationsTypeOK
    BY DEF VerdictInv, TypesInv
<1>2. MigrationsTypeOK => RunsLimited
    BY RunLeftNat
<1>3. MigrationsTypeOK /\ MigrationsTypeOK' /\ [MigrationsNext]_migrationVars
      => [RunGoesOn]_migrationVars
    BY RunAdvances
<1> QED BY VerdictInit, VerdictStep, <1>1, <1>2, <1>3, PTL DEF MigrationsSpec

-----------------------------------------------------------------------------
\* The parts and the whole

\* A step of the composition is a step of one part and none of the others.
LEMMA PartSteps ==
    ASSUME [ServicesNext]_<<part, crawlVars, searchVars, pipeVars, tiktokVars, tubeVars, reelVars,
                            brokerVars, migrationVars, ebayVars, maskVars>>
    PROVE  /\ [CrawlNext]_crawlVars /\ [SearchNext]_searchVars /\ [PipelineNext]_pipeVars
           /\ [TiktokNext]_tiktokVars /\ [YoutubeNext]_tubeVars /\ [KeyframesNext]_reelVars
           /\ [BrokerNext]_brokerVars /\ [MigrationsNext]_migrationVars
           /\ [EbayNext]_ebayVars /\ [MaskNext]_maskVars
BY DEF ServicesNext, Only

\* What is proved of a part alone holds where the parts run together: a
\* behaviour of the composition is a behaviour of every part.
LEMMA PartsHold ==
    ServicesSpec => /\ CrawlSpec /\ SearchSpec /\ PipelineSpec /\ TiktokSpec /\ YoutubeSpec
                    /\ KeyframesSpec /\ BrokerSpec /\ MigrationsSpec /\ EbaySpec /\ MaskSpec
<1>1. ServicesInit => /\ CrawlInit /\ SearchInit /\ PipelineInit /\ TiktokInit /\ YoutubeInit
                      /\ KeyframesInit /\ BrokerInit /\ MigrationsInit /\ EbayInit /\ MaskInit
    BY DEF ServicesInit
<1> QED BY <1>1, PartSteps, PTL
        DEF ServicesSpec, CrawlSpec, SearchSpec, PipelineSpec, TiktokSpec, YoutubeSpec,
            KeyframesSpec, BrokerSpec, MigrationsSpec, EbaySpec, MaskSpec

\* In every behaviour of the composition each variable of each part keeps its
\* type: no attempt, retry, prefetch or crash count passes its limit, a market
\* or a version that is indexed exists, and a broker holds copies of published
\* events alone.
THEOREM ServicesTypesHold == ServicesSpec => []ServicesTypeOK
<1>1. CrawlSpec => []CrawlTypeOK
  <2>1. CrawlInv => CrawlTypeOK
      BY DEF CrawlInv
  <2> QED BY CrawlInvInit, CrawlInvStep, <2>1, PTL DEF CrawlSpec
<1>2. SearchSpec => []SearchTypeOK
  <2>1. AttemptInv /\ [SearchNext]_searchVars => AttemptInv'
      BY AttemptStep, SearchStep DEF AttemptInv
  <2>2. AttemptInv => SearchTypeOK
      BY DEF AttemptInv
  <2> QED BY AttemptInit, <2>1, <2>2, PTL DEF SearchSpec
<1>3. PipelineSpec => []PipelineTypeOK
  <2>1. PipelineInv => PipelineTypeOK
      BY DEF PipelineInv
  <2> QED BY PipelineInit0, PipelineStep, <2>1, PTL DEF PipelineSpec
<1>4. TiktokSpec => []TiktokTypeOK
  <2> QED BY TiktokTypesInit, TiktokTypes, PTL DEF TiktokSpec
<1>5. YoutubeSpec => []YoutubeTypeOK
  <2>1. FilesInv => YoutubeTypeOK
      BY DEF FilesInv
  <2> QED BY FilesInit, FilesStep, <2>1, PTL DEF YoutubeSpec
<1>6. KeyframesSpec => []KeyframesTypeOK
  <2>1. ReelInv => KeyframesTypeOK
      BY DEF ReelInv
  <2> QED BY ReelInit, ReelStep, <2>1, PTL DEF KeyframesSpec
<1>7. BrokerSpec => []BrokerTypeOK
  <2> QED BY OfPublishedInit, OfPublishedStep, OfPublishedTypes, PTL DEF BrokerSpec
<1>8. MigrationsSpec => []MigrationsTypeOK
  <2>1. VerdictInv => MigrationsTypeOK
      BY DEF VerdictInv, TypesInv
  <2> QED BY VerdictInit, VerdictStep, <2>1, PTL DEF MigrationsSpec
<1>9. EbaySpec => []EbayTypeOK
  <2>1. EbayInv /\ EbayTypeOK /\ [EbayNext]_ebayVars => EbayInv' /\ EbayTypeOK'
      BY EbayStep, EbayTypesStep
  <2> QED BY EbayInvInit, EbayTypesInit, <2>1, PTL DEF EbaySpec
<1>10. MaskSpec => []MaskTypeOK
  <2>1. MaskInv => MaskTypeOK
      BY DEF MaskInv, MaskTypesInv
  <2> QED BY MaskInvInit, MaskInvStep, <2>1, PTL DEF MaskSpec
<1> QED BY PartsHold, <1>1, <1>2, <1>3, <1>4, <1>5, <1>6, <1>7, <1>8, <1>9, <1>10, PTL
        DEF ServicesTypeOK
=============================================================================
