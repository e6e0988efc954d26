------------------------ MODULE VisionProgressProofs ------------------------
(***************************************************************************)
(* The vision services: progress tracking, for every set of assets, every  *)
(* number of tasks, total, threshold, restart and failure.                 *)
(***************************************************************************)
EXTENDS VisionProgress, FiniteSetTheorems, TLAPS

-----------------------------------------------------------------------------
\* What the helpers do

\* The expected count an entry keeps is the old one or the one reported.
LEMMA RefinedIsEither ==
    ASSUME NEW e, NEW n
    PROVE  Refined(e, n) \in {e, n}
BY DEF Refined

\* Completion goes one of two ways: to the publish, with the mark set and the
\* claim noted, when the threshold is reached and nothing was sent; or on.
LEMMA SettleSplits ==
    ASSUME NEW t \in Tasks, NEW reached \in BOOLEAN, NEW e, NEW d, NEW rest,
           TypeOK, Settle(t, reached, e, d, rest)
    PROVE  \/ /\ reached /\ ~sent /\ sent'
              /\ pc' = [pc EXCEPT ![t] = "publish"]
              /\ claim' = [claim EXCEPT ![t] = [expected |-> e, done |-> d]]
           \/ /\ pc' = [pc EXCEPT ![t] = rest]
              /\ UNCHANGED <<sent, claim>>
BY DEF Settle, TypeOK

\* The total that frames report is a total of the batch, or nothing.
LEMMA FrameTotals == FrameTotal \in {0, batchTotal}
BY DEF FrameTotal

-----------------------------------------------------------------------------
\* Type correctness

\* The expected count that Count works with, and the fields of its claim.
LEMMA CountTypes ==
    ASSUME TypeOK, ExpectedInv, NEW fresh \in BOOLEAN
    PROVE  LET e == Refined(IF fresh THEN High ELSE expected, FrameTotal)
           IN  /\ e \in {0, High, batchTotal}
               /\ e # 0 /\ e < High => e = batchTotal
<1> DEFINE e == Refined(IF fresh THEN High ELSE expected, FrameTotal)
<1>1. e \in {0, High, batchTotal}
    BY RefinedIsEither, FrameTotals DEF ExpectedInv
<1>2. ~(High < High)
    BY TotalsAssumption
<1> QED BY <1>1, <1>2

\* Count settles with a claim about the total of the batch, whichever of its
\* two checks it is for.
LEMMA CountSettling ==
    ASSUME TypeOK, ExpectedInv, NEW w \in Workers, Count(w)
    PROVE  \E first, known \in BOOLEAN, e \in {0, High, batchTotal} :
              /\ first => e = batchTotal /\ Reached(done + 1, e)
              /\ known => initialised
              /\ expected' = IF known THEN batchTotal ELSE e
              /\ Settle(w, first \/ (known /\ Reached(done + 1, batchTotal)),
                        batchTotal, done + 1, "next")
<1> DEFINE fresh == service = "keypoint" \/ ~tracked
           e == Refined(IF fresh THEN High ELSE expected, FrameTotal)
           known == initialised /\ batchTotal > 0
           first == e # 0 /\ e < High /\ Reached(done + 1, e)
<1>1. /\ e \in {0, High, batchTotal}
      /\ e # 0 /\ e < High => e = batchTotal
    BY CountTypes
<1>2. /\ expected' = IF known THEN batchTotal ELSE e
      /\ Settle(w, first \/ (known /\ Reached(done + 1, batchTotal)),
                IF first THEN e ELSE batchTotal, done + 1, "next")
    BY DEF Count
<1>3. (IF first THEN e ELSE batchTotal) = batchTotal
    BY <1>1
<1>4. Settle(w, first \/ (known /\ Reached(done + 1, batchTotal)),
             batchTotal, done + 1, "next")
    BY <1>2, <1>3
<1>5. first \in BOOLEAN /\ known \in BOOLEAN /\ (first => e = batchTotal /\ Reached(done + 1, e))
    BY <1>1
<1> HIDE DEF first, e
<1> QED BY <1>1, <1>2, <1>4, <1>5

\* The batch message settles with a claim about its total, or is passed over.
LEMMA BatchSettling ==
    ASSUME TypeOK, Batch
    PROVE  /\ expected' \in {0, batchTotal, expected}
           /\ tracked' \in BOOLEAN /\ initialised' \in BOOLEAN /\ batchSeen' \in BOOLEAN
           /\ \E check \in BOOLEAN :
                 Settle(Batcher, check /\ Reached(done, batchTotal), batchTotal, done, "ack")
<1>1. CASE batchSeen
  <2>1. Settle(Batcher, FALSE /\ Reached(done, batchTotal), batchTotal, done, "ack")
      BY <1>1 DEF Batch, Settle
  <2> QED BY <1>1, <2>1 DEF Batch, TypeOK
<1>2. CASE ~batchSeen
  <2> DEFINE entry == tracked \/ batchTotal = 0
             check == service = "keypoint" /\ entry
  <2>1. Settle(Batcher, check /\ Reached(done, batchTotal), batchTotal, done, "ack")
      BY <1>2 DEF Batch
  <2>2. check \in BOOLEAN
      OBVIOUS
  <2>3. expected' \in {0, batchTotal, expected}
      BY <1>2 DEF Batch
  <2>4. tracked' \in BOOLEAN /\ initialised' \in BOOLEAN /\ batchSeen' \in BOOLEAN
      BY <1>2 DEF Batch
  <2> QED BY <2>1, <2>2, <2>3, <2>4
<1> QED BY <1>1, <1>2

\* Every step keeps the variables in their types.
LEMMA TypeStep == TypeOK /\ ExpectedInv /\ [Next]_vars => TypeOK' /\ ExpectedInv'
<1> SUFFICES ASSUME TypeOK, ExpectedInv, [Next]_vars PROVE TypeOK' /\ ExpectedInv'
    OBVIOUS
<1> USE TasksAssumption, TotalsAssumption DEF TypeOK, ExpectedInv, Tasks, Fault, fixed,
        taskVars, outVars, bounds
<1>settle. ASSUME NEW t \in Tasks, NEW reached \in BOOLEAN, NEW d \in Nat,
                  NEW rest \in {"next", "ack"}, Settle(t, reached, batchTotal, d, rest)
           PROVE  /\ pc' \in [Tasks -> {"idle", "next", "extract", "count", "publish", "ack"}]
                  /\ claim' \in [Tasks -> Claim \cup {NoClaim}] /\ sent' \in BOOLEAN
                  /\ \A u \in Tasks : pc'[u] = "publish" => claim'[u] \in Claim
  <2> DEFINE c == [expected |-> batchTotal, done |-> d]
  <2>1. c \in Claim
      BY DEF Claim
  <2>2. CASE pc' = [pc EXCEPT ![t] = "publish"] /\ claim' = [claim EXCEPT ![t] = c] /\ sent'
      BY <1>settle, <2>1, <2>2 DEF Settle
  <2>3. CASE pc' = [pc EXCEPT ![t] = rest] /\ UNCHANGED <<sent, claim>>
      BY <2>3
  <2> HIDE DEF c
  <2> QED BY <1>settle, <2>2, <2>3, SettleSplits DEF c
<1>worker. ASSUME NEW w \in Workers, WorkerStep(w) \/ Missing(w) \/ Raises(w)
           PROVE  TypeOK' /\ ExpectedInv'
  <2>1. CASE Start(w) BY <2>1 DEF Start
  <2>2. CASE Save(w) BY <2>2 DEF Save, memory
  <2>3. CASE NothingExtracted(w) BY <2>3 DEF NothingExtracted, memory
  <2>4. CASE Count(w)
    <3>1. PICK first \in BOOLEAN, known \in BOOLEAN, e \in {0, High, batchTotal} :
             /\ expected' = IF known THEN batchTotal ELSE e
             /\ Settle(w, first \/ (known /\ Reached(done + 1, batchTotal)),
                       batchTotal, done + 1, "next")
        BY <2>4, CountSettling
    <3>2. (first \/ (known /\ Reached(done + 1, batchTotal))) \in BOOLEAN
        BY DEF Reached
    <3>3. done + 1 \in Nat
        OBVIOUS
    <3> QED BY <1>settle, <2>4, <3>1, <3>2, <3>3 DEF Count
  <2>5. CASE PublishCompletion(w) BY <2>5 DEF PublishCompletion, memory
  <2>6. CASE Ack(w) BY <2>6 DEF Ack, memory
  <2>7. CASE Missing(w) BY <2>7 DEF Missing, memory
  <2>8. CASE Raises(w) BY <2>8 DEF Raises, memory
  <2> QED BY <1>worker, <2>1, <2>2, <2>3, <2>4, <2>5, <2>6, <2>7, <2>8 DEF WorkerStep
<1>deliver. ASSUME NEW w \in Workers, NEW m \in queue, Deliver(w, m)
            PROVE  TypeOK' /\ ExpectedInv'
    BY <1>deliver DEF Deliver, memory
<1>batch. CASE BatchStep
  <2>1. CASE Batch
    <3>1. PICK check \in BOOLEAN :
             Settle(Batcher, check /\ Reached(done, batchTotal), batchTotal, done, "ack")
        BY <2>1, BatchSettling
    <3>2. (check /\ Reached(done, batchTotal)) \in BOOLEAN
        BY DEF Reached
    <3>3. /\ pc' \in [Tasks -> {"idle", "next", "extract", "count", "publish", "ack"}]
          /\ claim' \in [Tasks -> Claim \cup {NoClaim}] /\ sent' \in BOOLEAN
          /\ \A u \in Tasks : pc'[u] = "publish" => claim'[u] \in Claim
        BY <1>settle, <3>1, <3>2
    <3>4. /\ expected' \in {0, batchTotal, expected}
          /\ tracked' \in BOOLEAN /\ initialised' \in BOOLEAN /\ batchSeen' \in BOOLEAN
        BY <2>1, BatchSettling
    <3> QED BY <2>1, <3>3, <3>4 DEF Batch
  <2>2. CASE PublishCompletion(Batcher) BY <2>2 DEF PublishCompletion, memory
  <2>3. CASE AckBatch BY <2>3 DEF AckBatch, memory
  <2> QED BY <1>batch, <2>1, <2>2, <2>3 DEF BatchStep
<1>raises. CASE BatchRaises BY <1>raises DEF BatchRaises, memory
<1>crash. CASE Crash
  <2>1. {msg[w] : w \in {v \in Workers : pc[v] # "idle"}} \subseteq SUBSET Assets
      OBVIOUS
  <2>2. queue' \subseteq SUBSET Assets
      BY <1>crash, <2>1 DEF Crash
  <2>3. /\ pc' = [t \in Tasks |-> "idle"] /\ claim' = [t \in Tasks |-> NoClaim]
        /\ msg' = [t \in Tasks |-> {}] /\ todo' = [t \in Tasks |-> {}]
        /\ cur' = [t \in Tasks |-> {}]
      BY <1>crash DEF Crash
  <2>4. /\ processed' = {} /\ counted' = {} /\ tracked' = FALSE /\ expected' = 0
        /\ done' = 0 /\ initialised' = FALSE /\ batchSeen' = FALSE /\ sent' = FALSE
        /\ crashes' = crashes + 1 /\ batch' \in {batch, "queued"}
        /\ UNCHANGED <<service, kind, batchTotal, extracted, claims, completions,
                      requeues, faults>>
      BY <1>crash DEF Crash
  <2>5. /\ pc' \in [Tasks -> {"idle", "next", "extract", "count", "publish", "ack"}]
        /\ msg' \in [Tasks -> SUBSET Assets] /\ todo' \in [Tasks -> SUBSET Assets]
        /\ cur' \in [Tasks -> SUBSET Assets]
        /\ claim' \in [Tasks -> Claim \cup {NoClaim}]
        /\ \A t \in Tasks : pc'[t] # "publish"
      BY <2>3
  <2>6. expected' \in {0, High, batchTotal'} /\ expected' \in Totals \cup {0, High}
      BY <2>4
  <2>7. done' \in Nat /\ crashes' \in Nat
      BY <2>4
  <2>8. batch' \in {"queued", "taken", "done"}
      BY <2>4
  <2>9. tracked' \in BOOLEAN /\ initialised' \in BOOLEAN /\ batchSeen' \in BOOLEAN
        /\ sent' \in BOOLEAN
      BY <2>4
  <2> QED BY <2>2, <2>4, <2>5, <2>6, <2>7, <2>8, <2>9
<1>requeue. CASE Requeue BY <1>requeue DEF Requeue, memory
<1>stutter. CASE UNCHANGED vars BY <1>stutter DEF vars, memory
<1> QED BY <1>worker, <1>deliver, <1>batch, <1>raises, <1>crash, <1>requeue, <1>stutter DEF Next

\* The initial states are of the right types.
LEMMA TypeInit == Init => TypeOK /\ ExpectedInv
<1> SUFFICES ASSUME Init PROVE TypeOK /\ ExpectedInv
    OBVIOUS
<1>1. queue \subseteq SUBSET Assets
    BY DEF Init, Groupings
<1> QED BY <1>1 DEF Init, TypeOK, ExpectedInv

\* The variables of a vision service keep their types: every completion about
\* to be published is a total of the batch and a number of assets
\* (JobProgressManager and the asset processors).
THEOREM TypeCorrect == Spec => []TypeOK
<1>1. Spec => [](TypeOK /\ ExpectedInv)
    BY TypeInit, TypeStep, PTL DEF Spec
<1> QED BY <1>1, PTL

-----------------------------------------------------------------------------
\* The count is exact

\* The assets counted are finitely many, and one more makes the count one more.
LEMMA CountAdds ==
    ASSUME TypeOK
    PROVE  /\ IsFiniteSet(counted) /\ Cardinality(counted) \in Nat
           /\ IsFiniteSet(extracted) /\ Cardinality(extracted) \in Nat
           /\ \A a : a \notin counted => Cardinality(counted \cup {a}) = Cardinality(counted) + 1
BY TasksAssumption, FS_Subset, FS_CardinalityType, FS_AddElement DEF TypeOK

\* A step that counts nothing, gives no worker an asset and takes nothing back
\* leaves the counts right.
LEMMA CountCalm ==
    ASSUME CountInv,
           done' = done, counted' = counted,
           processed \subseteq processed', extracted \subseteq extracted',
           \A w \in Workers : pc'[w] \in {"extract", "count"} => pc'[w] = pc[w] /\ cur'[w] = cur[w]
    PROVE  CountInv'
BY DEF CountInv, Busy

\* Every step leaves the counts right.
LEMMA CountStep == TypeOK /\ ExpectedInv /\ CountInv /\ [Next]_vars => CountInv'
<1> SUFFICES ASSUME TypeOK, ExpectedInv, CountInv, [Next]_vars PROVE CountInv'
    OBVIOUS
<1>types. /\ pc \in [Tasks -> {"idle", "next", "extract", "count", "publish", "ack"}]
          /\ cur \in [Tasks -> SUBSET Assets]
          /\ Workers \subseteq Tasks /\ Batcher \in Tasks /\ Batcher \notin Workers
    BY TasksAssumption DEF TypeOK, Tasks
<1> USE DEF fixed, memory, taskVars, outVars, bounds
<1>start. ASSUME NEW w \in Workers, Start(w) PROVE CountInv'
  <2>1. PICK a \in todo[w] :
           \/ UNCHANGED <<processed, cur, pc>>
           \/ /\ a \notin processed
              /\ processed' = processed \cup {a}
              /\ cur' = [cur EXCEPT ![w] = {a}]
              /\ pc' = [pc EXCEPT ![w] = "extract"]
      BY <1>start DEF Start
  <2>2. UNCHANGED <<done, counted, extracted>>
      BY <1>start DEF Start
  <2>3. CASE UNCHANGED <<processed, cur, pc>>
      BY <2>2, <2>3, CountCalm
  <2>4. CASE /\ a \notin processed
             /\ processed' = processed \cup {a}
             /\ cur' = [cur EXCEPT ![w] = {a}]
             /\ pc' = [pc EXCEPT ![w] = "extract"]
    <3>1. cur'[w] = {a} /\ pc'[w] = "extract"
        BY <1>types, <2>4
    <3>2. \A v \in Workers \ {w} : pc'[v] = pc[v] /\ cur'[v] = cur[v]
        BY <1>types, <2>4
    <3>3. counted \subseteq processed
        BY DEF CountInv
    <3> QED BY <2>2, <2>4, <3>1, <3>2, <3>3 DEF CountInv, Busy
  <2> QED BY <2>1, <2>3, <2>4
<1>save. ASSUME NEW w \in Workers, Save(w) PROVE CountInv'
  <2>1. /\ pc[w] = "extract" /\ pc'[w] = "count" /\ cur' = cur
        /\ \A v \in Workers \ {w} : pc'[v] = pc[v]
        /\ extracted' = extracted \cup cur[w]
        /\ UNCHANGED <<done, counted, processed>>
      BY <1>save, <1>types DEF Save
  <2>2. Busy' = Busy
      BY <2>1 DEF Busy
  <2> QED BY <2>1, <2>2 DEF CountInv
<1>count. ASSUME NEW w \in Workers, Count(w) PROVE CountInv'
  <2>1. /\ pc[w] = "count" /\ done' = done + 1 /\ counted' = counted \cup cur[w]
        /\ cur' = [cur EXCEPT ![w] = {}] /\ UNCHANGED <<processed, extracted>>
      BY <1>count DEF Count
  <2>2. pc'[w] \in {"next", "publish"} /\ \A v \in Workers \ {w} : pc'[v] = pc[v]
    <3>1. PICK first \in BOOLEAN, known \in BOOLEAN :
             Settle(w, first \/ (known /\ Reached(done + 1, batchTotal)),
                    batchTotal, done + 1, "next")
        BY <1>count, CountSettling
    <3> QED BY <3>1, <1>types DEF Settle
  <2>3. PICK a \in processed \ counted : cur[w] = {a}
      BY <2>1 DEF CountInv, Busy
  <2>4. done' = Cardinality(counted')
      BY <2>1, <2>3, CountAdds DEF CountInv
  <2>5. counted' \subseteq extracted' \cap processed'
      BY <2>1, <2>3 DEF CountInv
  <2>6. Busy' \subseteq Busy \ {w} /\ \A v \in Busy' : cur'[v] = cur[v] /\ pc'[v] = pc[v]
      BY <1>types, <2>1, <2>2 DEF Busy
  <2>7. ASSUME NEW v \in Busy' PROVE \E b \in processed' \ counted' : cur'[v] = {b}
    <3>1. PICK b \in processed \ counted : cur[v] = {b}
        BY <2>6, <2>7 DEF CountInv
    <3>2. w \in Busy /\ cur[v] # cur[w]
        BY <2>1, <2>6, <2>7 DEF CountInv, Busy
    <3> QED BY <2>1, <2>3, <2>6, <2>7, <3>1, <3>2
  <2>8. \A u, v \in Busy' : u # v => cur'[u] # cur'[v]
      BY <2>6 DEF CountInv
  <2>9. \A v \in Workers : pc'[v] = "count" => cur'[v] \subseteq extracted'
      BY <2>1, <2>6 DEF CountInv, Busy
  <2> QED BY <2>4, <2>5, <2>7, <2>8, <2>9 DEF CountInv
<1>other. ASSUME NEW w \in Workers,
                 \/ NothingExtracted(w) \/ PublishCompletion(w) \/ Ack(w)
                 \/ Missing(w) \/ Raises(w) \/ \E m \in queue : Deliver(w, m)
          PROVE  CountInv'
  <2>1. CASE NothingExtracted(w)
      BY <1>types, <2>1, CountCalm DEF NothingExtracted
  <2>2. CASE PublishCompletion(w)
      BY <1>types, <2>2, CountCalm DEF PublishCompletion
  <2>3. CASE Ack(w) BY <1>types, <2>3, CountCalm DEF Ack
  <2>4. CASE Missing(w) BY <1>types, <2>4, CountCalm DEF Missing
  <2>5. CASE Raises(w) BY <1>types, <2>5, CountCalm DEF Raises
  <2>6. CASE \E m \in queue : Deliver(w, m) BY <1>types, <2>6, CountCalm DEF Deliver
  <2> QED BY <1>other, <2>1, <2>2, <2>3, <2>4, <2>5, <2>6
<1>batch. CASE BatchStep \/ BatchRaises
  <2>1. CASE Batch
    <3>1. \A w \in Workers : pc'[w] = pc[w]
        BY <1>types, <2>1, BatchSettling DEF Settle
    <3> QED BY <2>1, <3>1, CountCalm DEF Batch
  <2>2. CASE PublishCompletion(Batcher)
      BY <1>types, <2>2, CountCalm DEF PublishCompletion
  <2>3. CASE AckBatch BY <1>types, <2>3, CountCalm DEF AckBatch
  <2>4. CASE BatchRaises BY <1>types, <2>4, CountCalm DEF BatchRaises
  <2> QED BY <1>batch, <2>1, <2>2, <2>3, <2>4 DEF BatchStep
<1>crash. CASE Crash
  <2>1. /\ counted' = {} /\ done' = 0 /\ processed' = {}
        /\ \A w \in Workers : pc'[w] = "idle"
      BY <1>crash, <1>types DEF Crash
  <2> QED BY <2>1, FS_EmptySet DEF CountInv, Busy
<1>requeue. CASE Requeue BY <1>requeue, CountCalm DEF Requeue
<1>stutter. CASE UNCHANGED vars BY <1>stutter, CountCalm DEF vars
<1> QED BY <1>start, <1>save, <1>count, <1>other, <1>batch, <1>crash, <1>requeue, <1>stutter
        DEF Next, WorkerStep

-----------------------------------------------------------------------------
\* What completions say

\* No step takes back a row with results, and none changes the batch total.
LEMMA RowsLast ==
    ASSUME TypeOK, [Next]_vars
    PROVE  extracted \subseteq extracted' /\ batchTotal' = batchTotal
<1> USE DEF fixed, memory, taskVars, outVars, bounds
<1>1. ASSUME NEW w \in Workers, WorkerStep(w)
      PROVE  extracted \subseteq extracted' /\ batchTotal' = batchTotal
    BY <1>1 DEF WorkerStep, Start, Save, NothingExtracted, Count, PublishCompletion, Ack
<1>2. ASSUME NEW w \in Workers, Missing(w) \/ Raises(w) \/ \E m \in queue : Deliver(w, m)
      PROVE  extracted \subseteq extracted' /\ batchTotal' = batchTotal
    BY <1>2 DEF Missing, Raises, Deliver
<1>3. CASE BatchStep \/ BatchRaises
    BY <1>3 DEF BatchStep, Batch, PublishCompletion, AckBatch, BatchRaises
<1>4. CASE Crash \/ Requeue \/ UNCHANGED vars
    BY <1>4 DEF Crash, Requeue, vars
<1> QED BY <1>1, <1>2, <1>3, <1>4 DEF Next

\* A claim that is honest stays so: rows with results are never taken back.
LEMMA HonestLasts ==
    ASSUME TypeOK, TypeOK', [Next]_vars, NEW c \in Claim, Honest(c)
    PROVE  Honest(c)'
<1>1. extracted \subseteq extracted' /\ batchTotal' = batchTotal
    BY RowsLast
<1>2. IsFiniteSet(extracted') /\ Cardinality(extracted') \in Nat
    BY TasksAssumption, FS_Subset, FS_CardinalityType DEF TypeOK
<1>3. Cardinality(extracted) <= Cardinality(extracted') /\ Cardinality(extracted) \in Nat
    BY <1>1, <1>2, FS_Subset, CountAdds
<1>4. c.done \in Nat
    BY DEF Claim
<1> QED BY <1>1, <1>2, <1>3, <1>4 DEF Honest

\* Where tasks about to publish come from: they were so before with the same
\* claim, or have just settled with an honest one and found nothing sent.
Publishers ==
    \A t \in Tasks : pc'[t] = "publish" =>
        \/ pc[t] = "publish" /\ claim'[t] = claim[t]
        \/ /\ ~sent /\ sent'
           /\ \A s \in Tasks \ {t} : pc'[s] = pc[s]
           /\ Reached(done', batchTotal)
           /\ claim'[t] = [expected |-> batchTotal, done |-> done']

LEMMA PublishersStep ==
    ASSUME TypeOK, ExpectedInv, [Next]_vars
    PROVE  Publishers
<1>types. /\ pc \in [Tasks -> {"idle", "next", "extract", "count", "publish", "ack"}]
          /\ claim \in [Tasks -> Claim \cup {NoClaim}]
          /\ Workers \subseteq Tasks /\ Batcher \in Tasks
    BY DEF TypeOK, Tasks
<1> USE <1>types DEF Publishers, fixed, memory, taskVars, outVars, bounds
<1>count. ASSUME NEW w \in Workers, Count(w) PROVE Publishers
  <2>1. PICK first \in BOOLEAN, known \in BOOLEAN, e \in {0, High, batchTotal} :
           /\ first => e = batchTotal /\ Reached(done + 1, e)
           /\ Settle(w, first \/ (known /\ Reached(done + 1, batchTotal)),
                     batchTotal, done + 1, "next")
      BY <1>count, CountSettling
  <2>2. done' = done + 1
      BY <1>count DEF Count
  <2> QED BY <2>1, <2>2 DEF Settle
<1>worker. ASSUME NEW w \in Workers,
                  \/ Start(w) \/ Save(w) \/ NothingExtracted(w) \/ PublishCompletion(w)
                  \/ Ack(w) \/ Missing(w) \/ Raises(w) \/ \E m \in queue : Deliver(w, m)
           PROVE  Publishers
  <2>0. w # Batcher
      BY TasksAssumption
  <2>1. CASE Start(w) BY <2>1 DEF Start
  <2>2. CASE Save(w) BY <2>2 DEF Save
  <2>3. CASE NothingExtracted(w) BY <2>3 DEF NothingExtracted
  <2>4. CASE PublishCompletion(w) BY <2>0, <2>4 DEF PublishCompletion
  <2>5. CASE Ack(w) BY <2>5 DEF Ack
  <2>6. CASE Missing(w) BY <2>6 DEF Missing
  <2>7. CASE Raises(w) BY <2>7 DEF Raises
  <2>8. CASE \E m \in queue : Deliver(w, m) BY <2>8 DEF Deliver
  <2> QED BY <1>worker, <2>1, <2>2, <2>3, <2>4, <2>5, <2>6, <2>7, <2>8
<1>batch. CASE BatchStep \/ BatchRaises
  <2>1. CASE Batch
    <3>1. PICK check \in BOOLEAN :
             Settle(Batcher, check /\ Reached(done, batchTotal), batchTotal, done, "ack")
        BY <2>1, BatchSettling
    <3>2. done' = done
        BY <2>1 DEF Batch
    <3> QED BY <3>1, <3>2 DEF Settle
  <2>2. CASE PublishCompletion(Batcher) BY <2>2 DEF PublishCompletion
  <2>3. CASE AckBatch BY <2>3 DEF AckBatch
  <2>4. CASE BatchRaises BY <2>4 DEF BatchRaises
  <2> QED BY <1>batch, <2>1, <2>2, <2>3, <2>4 DEF BatchStep
<1>crash. CASE Crash BY <1>crash DEF Crash
<1>rest. CASE Requeue \/ UNCHANGED vars BY <1>rest DEF Requeue, vars
<1> QED BY <1>count, <1>worker, <1>batch, <1>crash, <1>rest DEF Next, WorkerStep

\* What a step does to the completions: it publishes that of one task, it is a
\* restart, or it leaves them alone and takes no mark back.
LEMMA CompletionWays ==
    ASSUME TypeOK, ExpectedInv, [Next]_vars
    PROVE  \/ \E t \in Tasks :
                 /\ pc[t] = "publish" /\ pc'[t] # "publish"
                 /\ \A s \in Tasks \ {t} : pc'[s] = pc[s]
                 /\ claims' = claims \cup {claim[t]} /\ completions' = completions + 1
                 /\ UNCHANGED <<sent, crashes>>
           \/ Crash
           \/ UNCHANGED <<claims, completions, crashes>> /\ (sent => sent')
<1>types. /\ pc \in [Tasks -> {"idle", "next", "extract", "count", "publish", "ack"}]
          /\ Workers \subseteq Tasks /\ Batcher \in Tasks
    BY DEF TypeOK, Tasks
<1> DEFINE Calm == UNCHANGED <<claims, completions, crashes>> /\ (sent => sent')
<1> USE DEF fixed, memory, taskVars, outVars, bounds
<1>publish. ASSUME NEW t \in Tasks, PublishCompletion(t)
            PROVE  /\ pc[t] = "publish" /\ pc'[t] # "publish"
                   /\ \A s \in Tasks \ {t} : pc'[s] = pc[s]
                   /\ claims' = claims \cup {claim[t]} /\ completions' = completions + 1
                   /\ UNCHANGED <<sent, crashes>>
    BY <1>types, <1>publish DEF PublishCompletion
<1>worker. ASSUME NEW w \in Workers,
                  \/ Start(w) \/ Save(w) \/ NothingExtracted(w) \/ Count(w)
                  \/ Ack(w) \/ Missing(w) \/ Raises(w) \/ \E m \in queue : Deliver(w, m)
           PROVE  Calm
  <2>1. CASE Start(w) BY <2>1 DEF Start
  <2>2. CASE Save(w) BY <2>2 DEF Save
  <2>3. CASE NothingExtracted(w) BY <2>3 DEF NothingExtracted
  <2>4. CASE Count(w)
    <3>1. PICK first \in BOOLEAN, known \in BOOLEAN :
             Settle(w, first \/ (known /\ Reached(done + 1, batchTotal)),
                    batchTotal, done + 1, "next")
        BY <2>4, CountSettling
    <3> QED BY <2>4, <3>1 DEF Settle, Count
  <2>5. CASE Ack(w) BY <2>5 DEF Ack
  <2>6. CASE Missing(w) BY <2>6 DEF Missing, Fault
  <2>7. CASE Raises(w) BY <2>7 DEF Raises, Fault
  <2>8. CASE \E m \in queue : Deliver(w, m) BY <2>8 DEF Deliver
  <2> QED BY <1>worker, <2>1, <2>2, <2>3, <2>4, <2>5, <2>6, <2>7, <2>8
<1>batch. CASE Batch
    BY <1>batch, BatchSettling DEF Settle, Batch
<1>rest. CASE AckBatch \/ BatchRaises \/ Requeue \/ UNCHANGED vars
    BY <1>rest DEF AckBatch, BatchRaises, Fault, Requeue, vars
<1> HIDE DEF Calm
<1> QED BY <1>types, <1>publish, <1>worker, <1>batch, <1>rest
        DEF Next, WorkerStep, BatchStep, Calm

\* Every step keeps claims honest.
LEMMA ClaimStep ==
    ASSUME TypeOK, TypeOK', ExpectedInv, CountInv', ClaimInv, [Next]_vars
    PROVE  ClaimInv'
<1>1. ASSUME NEW c \in claims' PROVE Honest(c)'
  <2>1. c \in claims \/ \E t \in Tasks : pc[t] = "publish" /\ c = claim[t]
      BY <1>1, CompletionWays DEF Crash, outVars
  <2>2. c \in Claim /\ Honest(c)
      BY <2>1 DEF ClaimInv, CompletionHonest, TypeOK
  <2> QED BY <2>2, HonestLasts
<1>2. ASSUME NEW t \in Tasks, pc'[t] = "publish" PROVE Honest(claim[t])'
  <2>1. CASE pc[t] = "publish" /\ claim'[t] = claim[t]
    <3>1. claim[t] \in Claim /\ Honest(claim[t])
        BY <2>1 DEF ClaimInv, TypeOK
    <3>2. PICK c \in Claim : c = claim[t]
        BY <3>1
    <3>3. Honest(c)'
        BY <3>1, <3>2, HonestLasts
    <3> QED BY <2>1, <3>2, <3>3 DEF Honest
  <2>2. CASE /\ Reached(done', batchTotal)
             /\ claim'[t] = [expected |-> batchTotal, done |-> done']
    <3>1. batchTotal' = batchTotal
        BY RowsLast
    <3>2. done' <= Cardinality(extracted')
      <4>1. counted' \subseteq extracted' /\ done' = Cardinality(counted')
          BY DEF CountInv
      <4>2. IsFiniteSet(extracted')
          BY TasksAssumption, FS_Subset DEF TypeOK
      <4> QED BY <4>1, <4>2, FS_Subset
    <3> QED BY <2>2, <3>1, <3>2 DEF Honest, Reached
  <2> QED BY <1>2, <2>1, <2>2, PublishersStep DEF Publishers
<1> QED BY <1>1, <1>2 DEF ClaimInv, CompletionHonest

\* Every step keeps the completions within the restarts.
LEMMA SentStep ==
    ASSUME TypeOK, ExpectedInv, SentInv, [Next]_vars
    PROVE  SentInv'
<1>nat. completions \in Nat /\ crashes \in Nat
    BY DEF TypeOK
<1>1. CASE \E t \in Tasks :
              /\ pc[t] = "publish" /\ pc'[t] # "publish"
              /\ \A s \in Tasks \ {t} : pc'[s] = pc[s]
              /\ completions' = completions + 1
              /\ UNCHANGED <<sent, crashes>>
  <2>1. PICK t \in Tasks :
              /\ pc[t] = "publish" /\ pc'[t] # "publish"
              /\ \A s \in Tasks \ {t} : pc'[s] = pc[s]
              /\ completions' = completions + 1
              /\ UNCHANGED <<sent, crashes>>
      BY <1>1
  <2>2. \A s \in Tasks : pc'[s] # "publish"
      BY <2>1 DEF SentInv
  <2>3. sent /\ completions <= crashes
      BY <2>1 DEF SentInv
  <2> QED BY <1>nat, <2>1, <2>2, <2>3 DEF SentInv, OneCompletion
<1>2. CASE Crash
  <2>1. /\ \A s \in Tasks : pc'[s] # "publish"
        /\ crashes' = crashes + 1 /\ completions' = completions
      BY <1>2 DEF Crash, outVars
  <2> QED BY <1>nat, <2>1 DEF SentInv, OneCompletion
<1>3. CASE UNCHANGED <<completions, crashes>> /\ (sent => sent')
  <2>1. ASSUME NEW t \in Tasks, pc'[t] = "publish"
        PROVE  sent' /\ completions' <= crashes'
      BY <1>3, <2>1, PublishersStep DEF Publishers, SentInv
  <2>2. ASSUME NEW s \in Tasks, NEW t \in Tasks, pc'[s] = "publish", pc'[t] = "publish"
        PROVE  s = t
      BY <2>2, PublishersStep DEF Publishers, SentInv
  <2> QED BY <1>3, <2>1, <2>2 DEF SentInv, OneCompletion
<1> QED BY <1>1, <1>2, <1>3, CompletionWays

\* Undisturbed, every step leaves the uncounted rows in the hands of workers.
LEMMA PendingStep ==
    ASSUME TypeOK, ExpectedInv, PendingInv, [Next]_vars
    PROVE  PendingInv'
<1> SUFFICES ASSUME crashes' = 0, faults' = 0, NEW a \in extracted' \ counted'
             PROVE  \E w \in Workers : pc'[w] = "count" /\ a \in cur'[w]
    BY DEF PendingInv
<1> DEFINE Pending == \E w \in Workers : pc'[w] = "count" /\ a \in cur'[w]
<1>types. /\ pc \in [Tasks -> {"idle", "next", "extract", "count", "publish", "ack"}]
          /\ cur \in [Tasks -> SUBSET Assets]
          /\ Workers \subseteq Tasks /\ Batcher \in Tasks /\ Batcher \notin Workers
          /\ crashes \in Nat /\ faults \in Nat
    BY TasksAssumption DEF TypeOK, Tasks
<1> USE DEF fixed, memory, taskVars, outVars, bounds
<1>calm. ASSUME crashes' = crashes, faults' = faults,
                extracted' = extracted, counted' = counted,
                \A w \in Workers : pc[w] = "count" => pc'[w] = "count" /\ cur'[w] = cur[w]
         PROVE  Pending
    BY <1>calm DEF PendingInv
<1>undisturbed. ~Crash /\ ~Fault
    BY <1>types DEF Crash, Fault
<1>save. ASSUME NEW w \in Workers, Save(w) PROVE Pending
  <2>1. /\ pc'[w] = "count" /\ cur' = cur /\ extracted' = extracted \cup cur[w]
        /\ \A v \in Workers \ {w} : pc'[v] = pc[v]
        /\ pc[w] = "extract" /\ UNCHANGED <<counted, crashes, faults>>
      BY <1>save, <1>types DEF Save
  <2>2. CASE a \in cur[w] BY <2>1, <2>2
  <2>3. CASE a \in extracted BY <2>1, <2>3 DEF PendingInv
  <2> QED BY <2>1, <2>2, <2>3
<1>count. ASSUME NEW w \in Workers, Count(w) PROVE Pending
  <2>1. /\ counted' = counted \cup cur[w] /\ cur' = [cur EXCEPT ![w] = {}]
        /\ UNCHANGED <<extracted, crashes, faults>>
      BY <1>count DEF Count
  <2>2. \A v \in Workers \ {w} : pc'[v] = pc[v]
      BY <1>count, <1>types, CountSettling DEF Settle
  <2>3. PICK v \in Workers : pc[v] = "count" /\ a \in cur[v]
      BY <2>1 DEF PendingInv
  <2>4. v # w
      BY <2>1, <2>3
  <2> QED BY <1>types, <2>1, <2>2, <2>3, <2>4
<1>worker. ASSUME NEW w \in Workers,
                  \/ Start(w) \/ NothingExtracted(w) \/ PublishCompletion(w) \/ Ack(w)
                  \/ Missing(w) \/ Raises(w) \/ \E m \in queue : Deliver(w, m)
           PROVE  Pending
  <2>1. CASE Start(w) BY <1>types, <1>calm, <2>1 DEF Start
  <2>2. CASE NothingExtracted(w) BY <1>types, <1>calm, <2>2 DEF NothingExtracted
  <2>3. CASE PublishCompletion(w) BY <1>types, <1>calm, <2>3 DEF PublishCompletion
  <2>4. CASE Ack(w) BY <1>types, <1>calm, <2>4 DEF Ack
  <2>5. CASE Missing(w) BY <1>undisturbed, <2>5 DEF Missing
  <2>6. CASE Raises(w) BY <1>undisturbed, <2>6 DEF Raises
  <2>7. CASE \E m \in queue : Deliver(w, m) BY <1>types, <1>calm, <2>7 DEF Deliver
  <2> QED BY <1>worker, <2>1, <2>2, <2>3, <2>4, <2>5, <2>6, <2>7
<1>batch. CASE BatchStep \/ BatchRaises
  <2>1. CASE Batch
    <3>1. \A w \in Workers : pc'[w] = pc[w]
        BY <1>types, <2>1, BatchSettling DEF Settle
    <3> QED BY <1>calm, <2>1, <3>1 DEF Batch
  <2>2. CASE PublishCompletion(Batcher) BY <1>types, <1>calm, <2>2 DEF PublishCompletion
  <2>3. CASE AckBatch BY <1>types, <1>calm, <2>3 DEF AckBatch
  <2>4. CASE BatchRaises BY <1>undisturbed, <2>4 DEF BatchRaises
  <2> QED BY <1>batch, <2>1, <2>2, <2>3, <2>4 DEF BatchStep
<1>rest. CASE Requeue \/ UNCHANGED vars BY <1>calm, <1>rest DEF Requeue, vars
<1>tasks. ASSUME NEW w \in Workers,
                   \/ \E m \in queue : Deliver(w, m)
                   \/ WorkerStep(w) \/ Missing(w) \/ Raises(w)
            PROVE  Pending
    BY <1>save, <1>count, <1>worker, <1>tasks DEF WorkerStep
<1> QED BY <1>undisturbed, <1>tasks, <1>batch, <1>rest DEF Next

-----------------------------------------------------------------------------
\* The theorems

\* The inductive invariant of progress tracking: the counts match the rows,
\* claims are honest, one task publishes, and uncounted rows are in hand
\* (JobProgressManager, the asset processors and the batch handlers).
THEOREM ProgressInvariant == Spec => []ProgressInv
<1>1. Init => ProgressInv
  <2> SUFFICES ASSUME Init PROVE ProgressInv
      OBVIOUS
  <2>1. TypeOK /\ ExpectedInv
      BY TypeInit
  <2>2. \A t \in Tasks : pc[t] = "idle"
      BY DEF Init
  <2>3. CountInv
      BY <2>2, FS_EmptySet DEF Init, CountInv, Busy, Tasks
  <2>4. ClaimInv /\ SentInv /\ PendingInv
      BY <2>2 DEF Init, ClaimInv, CompletionHonest, SentInv, OneCompletion, PendingInv
  <2> QED BY <2>1, <2>3, <2>4 DEF ProgressInv
<1>2. ProgressInv /\ [Next]_vars => ProgressInv'
  <2> SUFFICES ASSUME ProgressInv, [Next]_vars PROVE ProgressInv'
      OBVIOUS
  <2>1. TypeOK' /\ ExpectedInv' /\ CountInv'
      BY TypeStep, CountStep DEF ProgressInv
  <2>2. ClaimInv' /\ SentInv' /\ PendingInv'
      BY <2>1, ClaimStep, SentStep, PendingStep DEF ProgressInv
  <2> QED BY <2>1, <2>2 DEF ProgressInv
<1> QED BY <1>1, <1>2, PTL DEF Spec

\* A completion carries the total of the batch and a number of assets that
\* reaches the threshold and is really done (publish_completion_event_with_count).
THEOREM CompletionHonestHolds == Spec => []CompletionHonest
<1>1. ProgressInv => CompletionHonest
    BY DEF ProgressInv, ClaimInv
<1> QED BY <1>1, ProgressInvariant, PTL

\* A process publishes one completion in its life, however its tasks interleave
\* (_completion_events_sent is marked before the publish is awaited).
THEOREM OneCompletionHolds == Spec => []OneCompletion
<1>1. ProgressInv => OneCompletion
    BY DEF ProgressInv, SentInv
<1> QED BY <1>1, ProgressInvariant, PTL

\* At rest and undisturbed, the count is the number of rows with results
\* (update_job_progress and the asset processors).
THEOREM CountSettlesHolds == Spec => []CountSettles
<1>1. ASSUME ProgressInv PROVE CountSettles
  <2> SUFFICES ASSUME \A t \in Tasks : pc[t] = "idle", crashes = 0, faults = 0
               PROVE  done = Cardinality(extracted)
      BY DEF CountSettles
  <2>1. extracted \subseteq counted
      BY <1>1 DEF ProgressInv, PendingInv, Tasks
  <2> QED BY <1>1, <2>1 DEF ProgressInv, CountInv
<1>2. ProgressInv => CountSettles
    BY <1>1
<1> QED BY <1>2, ProgressInvariant, PTL
=============================================================================
