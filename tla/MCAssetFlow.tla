---------------------------- MODULE MCAssetFlow -----------------------------
EXTENDS AssetFlow, TLC

CONSTANTS p1, p2, f1, w1, v1

MCQueries == {"amazon", "ebay"}
MCFound == "amazon" :> {p1} @@ "ebay" :> {p2}
MCShots == p1 :> 2 @@ p2 :> 0
MCFrames == {f1}
MCImageWorkers == {w1}
MCVideoWorkers == {v1}

HasVideo ==
    \/ readyVideos # {} \/ videoBatches # {} \/ "video" \in batchKnown
    \/ \E w \in VideoWorkers : smsg[w] # {}
    \/ Frames \cap (masks \cup unmasked) # {}
    \/ \E n \in DOMAIN maskedBatch : maskedBatch[n].kind = "video"

FinderDisturbed == finderFaults + finderCrashes > 0

\* One disturbance in a behaviour; and what makes it long, a second product, a
\* disturbed finder, a job with videos, one at a time.  The finder takes nothing
\* back from the segmentor, so when it is disturbed, or the segmentor restarts,
\* it is done first.
OneAtATime ==
    /\ finderFaults + finderCrashes + segFaults + segCrashes <= 1
    /\ HasVideo => /\ item[p2] = "off" /\ ~FinderDisturbed
                   /\ Len(buffer[p1]) + Cardinality(announced) <= 1
    /\ segFaults + segCrashes > 0 => item[p2] = "off"
    /\ segFaults > 0 /\ HasVideo => request = "done"
    /\ segCrashes > 0 => request = "done" /\ (HasVideo => announced = {})
    /\ finderCrashes > 0 => Cardinality(announced) <= 2
    /\ FinderDisturbed /\ request # "done" =>
        \A t \in SegTasks : spc[t] = "idle"
=============================================================================
