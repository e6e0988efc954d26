----------------------------- MODULE AssetFlow ------------------------------
(***************************************************************************)
(* The way of a product image: dropship-product-finder stores and          *)
(* announces it, product-segmentor masks it, and the two agree on how many *)
(* there are through the batch total alone.  The keyframes of the same job *)
(* come from video-crawler (VideoCrawl); here they are waiting at first,   *)
(* or the job has none.                                                    *)
(***************************************************************************)
EXTENDS ProductCollect, Segmentor

CONSTANT VideoTotals    \* totals video-crawler may announce

\* Frames are told from images, and a total is a count.
ASSUME FlowAssumption ==
    /\ IsFiniteSet(Frames) /\ \A f \in Frames : f \notin Nat \X Items \X Nat
    /\ VideoTotals \subseteq Nat

flowVars == <<finderVars, segVars, bus>>

FlowInit ==
    /\ FinderInit /\ SegmentorInit
    /\ readyImages = {} /\ imageBatches = {}
    /\ \/ readyVideos = {} /\ videoBatches = {}
       \/ /\ readyVideos = {Frames}
          /\ \E n \in VideoTotals : videoBatches = {[id |-> 1, total |-> n]}

FlowNext ==
    \/ FinderNext /\ UNCHANGED segVars
    \/ SegmentorNext /\ UNCHANGED finderVars

FlowSpec ==
    FlowInit /\ [][FlowNext]_flowVars /\ FinderFairness /\ SegmentorFairness

FlowTypeOK ==
    /\ FinderTypeOK /\ SegmentorTypeOK
    /\ readyImages \subseteq announced /\ readyVideos \subseteq SUBSET Frames
    /\ imageBatches \subseteq [id : 1..MaxAttempts, total : Nat]
    /\ videoBatches \subseteq [id : Nat, total : Nat]

Undisturbed ==
    finderFaults = 0 /\ finderCrashes = 0 /\ segFaults = 0 /\ segCrashes = 0

ImagesBatched == \E n \in DOMAIN maskedBatch : maskedBatch[n].kind = "image"

\* Without faults and restarts the images of a job are announced as masked:
\* all of them when each got its mask, and what there is, by the timer, when
\* the job has no videos.  (With videos the timer is armed once more and looks
\* at their counts.)  The one exception: the batch message of the videos comes
\* while the timer is publishing, and cancels it with the completion marked.
ImagesAnnounced ==
    <>[](Undisturbed /\ ~cut /\ (unmasked = {} \/ "video" \notin batchKnown) => ImagesBatched)
=============================================================================
