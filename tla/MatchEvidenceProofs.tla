------------------------ MODULE MatchEvidenceProofs -------------------------
(***************************************************************************)
(* Proofs about the matcher and the evidence builder, for every value of   *)
(* the constants.                                                          *)
(***************************************************************************)
EXTENDS MatchEvidence, FiniteSetTheorems, TLAPS

-----------------------------------------------------------------------------
\* Type correctness

\* The counts of rows and of messages held by a crashed task are numbers.
LEMMA Counts ==
    ASSUME TypeOK
    PROVE  /\ Cardinality(rows) \in Nat
           /\ \A p \in Pairs : Cardinality(RowsOf(p)) \in Nat
           /\ \A p \in Pairs : Cardinality(Holding(p)) \in Nat
<1>1. Cardinality(rows) \in Nat
    BY FS_CardinalityType DEF TypeOK
<1>2. \A p \in Pairs : Cardinality(RowsOf(p)) \in Nat
    BY FS_Subset, FS_CardinalityType DEF TypeOK, RowsOf
<1>3. ASSUME NEW p \in Pairs PROVE Cardinality(Holding(p)) \in Nat
  <2>1. Holding(p) \subseteq Workers
      BY DEF Holding
  <2> QED BY <2>1, WorkersAssumption, FS_Subset, FS_CardinalityType
<1> QED BY <1>1, <1>2, <1>3

\* Every step keeps the variables in their types.
LEMMA TypeStep == TypeOK /\ [Next]_vars => TypeOK'
<1> SUFFICES ASSUME TypeOK, [Next]_vars PROVE TypeOK'
    OBVIOUS
<1> USE MatchBounds, CloserAssumption DEF TypeOK, Tasks, WorkerPcs, CloserPcs, Goto,
        Fault, matcherVars, taskVars
<1>matcher. CASE Ask \/ Take \/ PublishResult \/ PublishDone \/ Record \/ MatcherFails \/ MatcherCrash
  <2>1. CASE Ask BY <2>1 DEF Ask
  <2>2. CASE Take BY <2>2 DEF Take
  <2>3. CASE PublishResult BY <2>3 DEF PublishResult
  <2>4. CASE PublishDone BY <2>4 DEF PublishDone
  <2>5. CASE Record BY <2>5 DEF Record
  <2>6. CASE MatcherFails BY <2>6 DEF MatcherFails
  <2>7. CASE MatcherCrash BY <2>7 DEF MatcherCrash
  <2> QED BY <1>matcher, <2>1, <2>2, <2>3, <2>4, <2>5, <2>6, <2>7
<1>insert. ASSUME NEW p \in Pairs, Insert(p) PROVE TypeOK'
  
  <2> DEFINE r == [pair |-> p, id |-> Cardinality(RowsOf(p))]
  <2>1. r \in Row
      BY Counts DEF Row
  <2>2. IsFiniteSet(rows \cup {r})
      BY FS_AddElement
  <2> QED BY <1>insert, <2>1, <2>2 DEF Insert
<1>deliver. ASSUME NEW p \in Pairs, NEW w \in Workers, Deliver(w, p) PROVE TypeOK'
  BY <1>deliver DEF Deliver
<1>worker. ASSUME NEW w \in Workers, WorkerStep(w) \/ RenderFails(w) \/ WorkerFails(w)
          PROVE  TypeOK'
  <2>1. CASE Dedup(w) BY <2>1 DEF Dedup
  <2>2. CASE Update(w) BY <2>2 DEF Update, RowsOf
  <2>3. CASE Mark(w) BY <2>3 DEF Mark
  <2>4. CASE CountTotal(w) BY <2>4, Counts DEF CountTotal
  <2>5. CASE CountEvidence(w) BY <2>5 DEF CountEvidence
  <2>6. CASE RenderFails(w) BY <2>6 DEF RenderFails
  <2>7. CASE WorkerFails(w) BY <2>7 DEF WorkerFails
  <2> QED BY <1>worker, <2>1, <2>2, <2>3, <2>4, <2>5, <2>6, <2>7 DEF WorkerStep
<1>task. ASSUME NEW t \in Tasks, TaskStep(t) PROVE TypeOK'
  <2>1. CASE HasPublished(t) BY <2>1 DEF HasPublished
  <2>2. CASE PublishCompletion(t) BY <2>2 DEF PublishCompletion
  <2>3. CASE MarkPublished(t) BY <2>3 DEF MarkPublished
  <2>4. CASE Ack(t) BY <2>4 DEF Ack
  <2> QED BY <1>task, <2>1, <2>2, <2>3, <2>4 DEF TaskStep
<1>closer. CASE Close \/ CountMatches \/ CloserFails \/ BuilderCrash
  <2>1. CASE Close BY <2>1 DEF Close
  <2>2. CASE CountMatches BY <2>2 DEF CountMatches
  <2>3. CASE CloserFails BY <2>3 DEF CloserFails
  <2>4. CASE BuilderCrash BY <2>4, Counts DEF BuilderCrash
  <2> QED BY <1>closer, <2>1, <2>2, <2>3, <2>4
<1>stutter. CASE UNCHANGED vars BY <1>stutter DEF vars
<1> QED BY <1>matcher, <1>insert, <1>deliver, <1>worker, <1>task, <1>closer,
           <1>stutter DEF Next

\* Initially the variables are in their types.
LEMMA TypeInit == Init => TypeOK
<1> SUFFICES ASSUME Init PROVE TypeOK
    OBVIOUS
<1>1. rows \subseteq Row /\ IsFiniteSet(rows) /\ evidenced \subseteq rows
    BY FS_EmptySet DEF Init
<1>2. /\ pc \in [Tasks -> {"idle"}] /\ pair \in [Workers -> {NoPair}]
      /\ \A t \in Tasks : pc[t] = "idle"
      /\ total \in [Workers -> Nat] /\ results \in [Pairs -> Nat]
    BY DEF Init
<1> QED BY <1>1, <1>2 DEF Init, TypeOK, Tasks, WorkerPcs, CloserPcs

\* The variables stay in their types.
THEOREM TypeCorrect == Spec => []TypeOK
BY TypeInit, TypeStep, PTL DEF Spec

-----------------------------------------------------------------------------
\* Rows and evidence

\* An insertion adds a row of its pair and keeps the others.
LEMMA InsertAdds ==
    ASSUME NEW p \in Pairs, Insert(p)
    PROVE  rows \subseteq rows' /\ \E r \in rows' : r.pair = p
<1>1. [pair |-> p, id |-> Cardinality(RowsOf(p))] \in rows' /\ rows \subseteq rows'
    BY DEF Insert
<1> QED BY <1>1

\* A message or a task has the row of its pair behind it: rows are only added.
LEMMA RowStep == TypeOK /\ RowInv /\ [Next]_vars => RowInv'
<1> SUFFICES ASSUME TypeOK, RowInv, [Next]_vars PROVE RowInv'
    OBVIOUS
<1> USE CloserAssumption DEF TypeOK, RowInv, RowsOf, Tasks, Goto, Fault, matcherVars, taskVars
<1>matcher. CASE Ask \/ Take \/ PublishResult \/ PublishDone \/ Record \/ MatcherFails \/ MatcherCrash
  <2>1. CASE Ask BY <2>1 DEF Ask
  <2>2. CASE Take BY <2>2 DEF Take
  <2>3. CASE PublishResult BY <2>3 DEF PublishResult
  <2>4. CASE PublishDone BY <2>4 DEF PublishDone
  <2>5. CASE Record BY <2>5 DEF Record
  <2>6. CASE MatcherFails BY <2>6 DEF MatcherFails
  <2>7. CASE MatcherCrash BY <2>7 DEF MatcherCrash
  <2> QED BY <1>matcher, <2>1, <2>2, <2>3, <2>4, <2>5, <2>6, <2>7
<1>insert. ASSUME NEW p \in Pairs, Insert(p) PROVE RowInv'
  
  <2>1. UNCHANGED <<pc, pair, results>> /\ current' = p
      BY <1>insert DEF Insert
  <2> QED BY <1>insert, <2>1, InsertAdds
<1>deliver. ASSUME NEW p \in Pairs, NEW w \in Workers, Deliver(w, p) PROVE RowInv'
  BY <1>deliver DEF Deliver
<1>worker. ASSUME NEW w \in Workers, WorkerStep(w) \/ RenderFails(w) \/ WorkerFails(w)
          PROVE  RowInv'
  <2>1. CASE Dedup(w) BY <2>1 DEF Dedup
  <2>2. CASE Update(w) BY <2>2 DEF Update
  <2>3. CASE Mark(w) BY <2>3 DEF Mark
  <2>4. CASE CountTotal(w) BY <2>4 DEF CountTotal
  <2>5. CASE CountEvidence(w) BY <2>5 DEF CountEvidence
  <2>6. CASE RenderFails(w) BY <2>6 DEF RenderFails
  <2>7. CASE WorkerFails(w) BY <2>7 DEF WorkerFails
  <2> QED BY <1>worker, <2>1, <2>2, <2>3, <2>4, <2>5, <2>6, <2>7 DEF WorkerStep
<1>task. ASSUME NEW t \in Tasks, TaskStep(t) PROVE RowInv'
  <2>1. CASE HasPublished(t) BY <2>1 DEF HasPublished
  <2>2. CASE PublishCompletion(t) BY <2>2 DEF PublishCompletion
  <2>3. CASE MarkPublished(t) BY <2>3 DEF MarkPublished
  <2>4. CASE Ack(t) BY <2>4 DEF Ack
  <2> QED BY <1>task, <2>1, <2>2, <2>3, <2>4 DEF TaskStep
<1>closer. CASE Close \/ CountMatches \/ CloserFails \/ BuilderCrash
  <2>1. CASE Close BY <2>1 DEF Close
  <2>2. CASE CountMatches BY <2>2 DEF CountMatches
  <2>3. CASE CloserFails BY <2>3 DEF CloserFails
  <2>4. CASE BuilderCrash 
    <3>1. ASSUME NEW p \in Pairs, results'[p] > 0, results[p] = 0
          PROVE  \E w \in Workers : pc[w] # "idle" /\ pair[w] = p
      <4>1. results'[p] = results[p] + Cardinality(Holding(p))
          BY <2>4 DEF BuilderCrash
      <4>2. Cardinality(Holding(p)) # 0
          BY <3>1, <4>1
      <4>3. Holding(p) # {}
          BY <4>2, FS_EmptySet
      <4> QED BY <4>3 DEF Holding
    <3> QED BY <2>4, <3>1 DEF BuilderCrash
  <2> QED BY <1>closer, <2>1, <2>2, <2>3, <2>4
<1>stutter. CASE UNCHANGED vars BY <1>stutter DEF vars
<1> QED BY <1>matcher, <1>insert, <1>deliver, <1>worker, <1>task, <1>closer,
           <1>stutter DEF Next

\* Evidence is behind every recorded pair and every task past the update.
LEMMA EvidenceStep == TypeOK /\ RowInv /\ EvidenceInv /\ [Next]_vars => EvidenceInv'
<1> SUFFICES ASSUME TypeOK, RowInv, EvidenceInv, [Next]_vars PROVE EvidenceInv'
    OBVIOUS
<1> USE CloserAssumption DEF TypeOK, EvidenceInv, EvidenceBehindRecord, HasEvidence, AfterUpdate, Tasks,
        Goto, Fault, matcherVars, taskVars
<1>matcher. CASE Ask \/ Take \/ PublishResult \/ PublishDone \/ Record \/ MatcherFails \/ MatcherCrash
  <2>1. CASE Ask BY <2>1 DEF Ask
  <2>2. CASE Take BY <2>2 DEF Take
  <2>3. CASE PublishResult BY <2>3 DEF PublishResult
  <2>4. CASE PublishDone BY <2>4 DEF PublishDone
  <2>5. CASE Record BY <2>5 DEF Record
  <2>6. CASE MatcherFails BY <2>6 DEF MatcherFails
  <2>7. CASE MatcherCrash BY <2>7 DEF MatcherCrash
  <2> QED BY <1>matcher, <2>1, <2>2, <2>3, <2>4, <2>5, <2>6, <2>7
<1>insert. ASSUME NEW p \in Pairs, Insert(p) PROVE EvidenceInv'
  BY <1>insert DEF Insert
<1>deliver. ASSUME NEW p \in Pairs, NEW w \in Workers, Deliver(w, p) PROVE EvidenceInv'
  BY <1>deliver DEF Deliver
<1>worker. ASSUME NEW w \in Workers, WorkerStep(w) \/ RenderFails(w) \/ WorkerFails(w)
          PROVE  EvidenceInv'
  <2>1. CASE Dedup(w) BY <2>1 DEF Dedup
  <2>2. CASE Update(w) BY <2>2 DEF Update, RowInv, RowsOf
  <2>3. CASE Mark(w) BY <2>3 DEF Mark
  <2>4. CASE CountTotal(w) BY <2>4 DEF CountTotal
  <2>5. CASE CountEvidence(w) BY <2>5 DEF CountEvidence
  <2>6. CASE RenderFails(w) BY <2>6 DEF RenderFails
  <2>7. CASE WorkerFails(w) BY <2>7 DEF WorkerFails
  <2> QED BY <1>worker, <2>1, <2>2, <2>3, <2>4, <2>5, <2>6, <2>7 DEF WorkerStep
<1>task. ASSUME NEW t \in Tasks, TaskStep(t) PROVE EvidenceInv'
  <2>1. CASE HasPublished(t) BY <2>1 DEF HasPublished
  <2>2. CASE PublishCompletion(t) BY <2>2 DEF PublishCompletion
  <2>3. CASE MarkPublished(t) BY <2>3 DEF MarkPublished
  <2>4. CASE Ack(t) BY <2>4 DEF Ack
  <2> QED BY <1>task, <2>1, <2>2, <2>3, <2>4 DEF TaskStep
<1>closer. CASE Close \/ CountMatches \/ CloserFails \/ BuilderCrash
  <2>1. CASE Close BY <2>1 DEF Close
  <2>2. CASE CountMatches BY <2>2 DEF CountMatches
  <2>3. CASE CloserFails BY <2>3 DEF CloserFails
  <2>4. CASE BuilderCrash BY <2>4 DEF BuilderCrash
  <2> QED BY <1>closer, <2>1, <2>2, <2>3, <2>4
<1>stutter. CASE UNCHANGED vars BY <1>stutter DEF vars
<1> QED BY <1>matcher, <1>insert, <1>deliver, <1>worker, <1>task, <1>closer,
           <1>stutter DEF Next

\* The closer passes its count only when the matcher accepts no pair: before
\* match.request.completed every accepted pair has been inserted.
LEMMA CloserStep == TypeOK /\ CloserInv /\ [Next]_vars => CloserInv'
<1> SUFFICES ASSUME TypeOK, CloserInv, [Next]_vars PROVE CloserInv'
    OBVIOUS
<1> USE CloserAssumption DEF TypeOK, CloserInv, RowsOf, Tasks, Goto, Fault, matcherVars, taskVars
<1>matcher. CASE Ask \/ Take \/ PublishResult \/ PublishDone \/ Record \/ MatcherFails \/ MatcherCrash
  <2>1. CASE Ask BY <2>1 DEF Ask
  <2>2. CASE Take BY <2>2 DEF Take
  <2>3. CASE PublishResult BY <2>3 DEF PublishResult
  <2>4. CASE PublishDone BY <2>4 DEF PublishDone
  <2>5. CASE Record BY <2>5 DEF Record
  <2>6. CASE MatcherFails BY <2>6 DEF MatcherFails
  <2>7. CASE MatcherCrash BY <2>7 DEF MatcherCrash
  <2> QED BY <1>matcher, <2>1, <2>2, <2>3, <2>4, <2>5, <2>6, <2>7
<1>insert. ASSUME NEW p \in Pairs, Insert(p) PROVE CloserInv'
  
  <2>1. /\ UNCHANGED <<accepted, dones, pc>> /\ mpc' = "result" /\ mpc = "scan"
        /\ todo' = todo \ {p}
      BY <1>insert DEF Insert
  <2>2. \A q \in accepted : q \in todo' \/ \E r \in rows' : r.pair = q
      BY <1>insert, <2>1, InsertAdds
  <2>3. \A q \in accepted : RowsOf(q) # {} => RowsOf(q)' # {}
      BY <1>insert, InsertAdds
  <2> QED BY <2>1, <2>2, <2>3
<1>deliver. ASSUME NEW p \in Pairs, NEW w \in Workers, Deliver(w, p) PROVE CloserInv'
  BY <1>deliver DEF Deliver
<1>worker. ASSUME NEW w \in Workers, WorkerStep(w) \/ RenderFails(w) \/ WorkerFails(w)
          PROVE  CloserInv'
  <2>1. CASE Dedup(w) BY <2>1 DEF Dedup
  <2>2. CASE Update(w) BY <2>2 DEF Update
  <2>3. CASE Mark(w) BY <2>3 DEF Mark
  <2>4. CASE CountTotal(w) BY <2>4 DEF CountTotal
  <2>5. CASE CountEvidence(w) BY <2>5 DEF CountEvidence
  <2>6. CASE RenderFails(w) BY <2>6 DEF RenderFails
  <2>7. CASE WorkerFails(w) BY <2>7 DEF WorkerFails
  <2> QED BY <1>worker, <2>1, <2>2, <2>3, <2>4, <2>5, <2>6, <2>7 DEF WorkerStep
<1>task. ASSUME NEW t \in Tasks, TaskStep(t) PROVE CloserInv'
  <2>1. CASE HasPublished(t) BY <2>1 DEF HasPublished
  <2>2. CASE PublishCompletion(t) BY <2>2 DEF PublishCompletion
  <2>3. CASE MarkPublished(t) BY <2>3 DEF MarkPublished
  <2>4. CASE Ack(t) BY <2>4 DEF Ack
  <2> QED BY <1>task, <2>1, <2>2, <2>3, <2>4 DEF TaskStep
<1>closer. CASE Close \/ CountMatches \/ CloserFails \/ BuilderCrash
  <2>1. CASE Close BY <2>1 DEF Close
  <2>2. CASE CountMatches BY <2>2 DEF CountMatches
  <2>3. CASE CloserFails BY <2>3 DEF CloserFails
  <2>4. CASE BuilderCrash BY <2>4 DEF BuilderCrash
  <2> QED BY <1>closer, <2>1, <2>2, <2>3, <2>4
<1>stutter. CASE UNCHANGED vars BY <1>stutter DEF vars
<1> QED BY <1>matcher, <1>insert, <1>deliver, <1>worker, <1>task, <1>closer,
           <1>stutter DEF Next

\* A completion is announced by a worker past its update or by the closer of a
\* job without accepted pairs.
LEMMA BackedStep ==
    TypeOK /\ EvidenceInv /\ CloserInv /\ CompletionBacked /\ [Next]_vars
        => CompletionBacked'
<1> SUFFICES ASSUME TypeOK, EvidenceInv, CloserInv, CompletionBacked, [Next]_vars
             PROVE  CompletionBacked'
    OBVIOUS
<1> USE CloserAssumption DEF TypeOK, CompletionBacked, Tasks, Goto, Fault, matcherVars, taskVars
<1>matcher. CASE Ask \/ Take \/ PublishResult \/ PublishDone \/ Record \/ MatcherFails \/ MatcherCrash
  <2>1. CASE Ask BY <2>1 DEF Ask
  <2>2. CASE Take BY <2>2 DEF Take
  <2>3. CASE PublishResult BY <2>3 DEF PublishResult
  <2>4. CASE PublishDone BY <2>4 DEF PublishDone
  <2>5. CASE Record BY <2>5 DEF Record
  <2>6. CASE MatcherFails BY <2>6 DEF MatcherFails
  <2>7. CASE MatcherCrash BY <2>7 DEF MatcherCrash
  <2> QED BY <1>matcher, <2>1, <2>2, <2>3, <2>4, <2>5, <2>6, <2>7
<1>insert. ASSUME NEW p \in Pairs, Insert(p) PROVE CompletionBacked'
  BY <1>insert DEF Insert
<1>deliver. ASSUME NEW p \in Pairs, NEW w \in Workers, Deliver(w, p) PROVE CompletionBacked'
  BY <1>deliver DEF Deliver
<1>worker. ASSUME NEW w \in Workers, WorkerStep(w) \/ RenderFails(w) \/ WorkerFails(w)
          PROVE  CompletionBacked'
  <2>1. CASE Dedup(w) BY <2>1 DEF Dedup
  <2>2. CASE Update(w) BY <2>2 DEF Update
  <2>3. CASE Mark(w) BY <2>3 DEF Mark
  <2>4. CASE CountTotal(w) BY <2>4 DEF CountTotal
  <2>5. CASE CountEvidence(w) BY <2>5 DEF CountEvidence
  <2>6. CASE RenderFails(w) BY <2>6 DEF RenderFails
  <2>7. CASE WorkerFails(w) BY <2>7 DEF WorkerFails
  <2> QED BY <1>worker, <2>1, <2>2, <2>3, <2>4, <2>5, <2>6, <2>7 DEF WorkerStep
<1>task. ASSUME NEW t \in Tasks, TaskStep(t) PROVE CompletionBacked'
  <2>1. CASE HasPublished(t) BY <2>1 DEF HasPublished
  <2>2. CASE PublishCompletion(t) BY <2>2 DEF PublishCompletion, EvidenceInv, CloserInv, AfterUpdate, HasEvidence
  <2>3. CASE MarkPublished(t) BY <2>3 DEF MarkPublished
  <2>4. CASE Ack(t) BY <2>4 DEF Ack
  <2> QED BY <1>task, <2>1, <2>2, <2>3, <2>4 DEF TaskStep
<1>closer. CASE Close \/ CountMatches \/ CloserFails \/ BuilderCrash
  <2>1. CASE Close BY <2>1 DEF Close
  <2>2. CASE CountMatches BY <2>2 DEF CountMatches
  <2>3. CASE CloserFails BY <2>3 DEF CloserFails
  <2>4. CASE BuilderCrash BY <2>4 DEF BuilderCrash
  <2> QED BY <1>closer, <2>1, <2>2, <2>3, <2>4
<1>stutter. CASE UNCHANGED vars BY <1>stutter DEF vars
<1> QED BY <1>matcher, <1>insert, <1>deliver, <1>worker, <1>task, <1>closer,
           <1>stutter DEF Next

-----------------------------------------------------------------------------
\* Theorems

EvidenceIInv == TypeOK /\ RowInv /\ EvidenceInv /\ CloserInv /\ CompletionBacked

\* The inductive invariant holds.
THEOREM EvidenceInvariant == Spec => []EvidenceIInv
<1>1. Init => EvidenceIInv
  <2> SUFFICES ASSUME Init PROVE EvidenceIInv
      OBVIOUS
  <2>1. TypeOK
      BY TypeInit
  <2>2. /\ \A p \in Pairs : results[p] = 0
        /\ \A t \in Tasks : pc[t] = "idle"
        /\ rows = {} /\ processed = {} /\ completions = 0 /\ dones = 0
        /\ mpc = "idle" /\ todo = {}
      BY DEF Init
  <2>3. RowInv /\ EvidenceInv
      BY <2>2 DEF RowInv, EvidenceInv, EvidenceBehindRecord, AfterUpdate, Tasks
  <2>4. CloserInv /\ CompletionBacked
      BY <2>2 DEF CloserInv, CompletionBacked, Tasks
  <2> QED BY <2>1, <2>3, <2>4 DEF EvidenceIInv
<1>2. EvidenceIInv /\ [Next]_vars => EvidenceIInv'
    BY TypeStep, RowStep, EvidenceStep, CloserStep, BackedStep DEF EvidenceIInv
<1> QED BY <1>1, <1>2, PTL DEF Spec

\* A pair recorded as processed has its evidence, through every restart.
THEOREM EvidenceBehindRecordHolds == Spec => []EvidenceBehindRecord
<1>1. EvidenceIInv => EvidenceBehindRecord
    BY DEF EvidenceIInv, EvidenceInv
<1> QED BY EvidenceInvariant, <1>1, PTL

\* The completion is never announced on nothing.
THEOREM CompletionBackedHolds == Spec => []CompletionBacked
<1>1. EvidenceIInv => CompletionBacked
    BY DEF EvidenceIInv
<1> QED BY EvidenceInvariant, <1>1, PTL

\* With the completion recorded and no task on its way to announce it, a step
\* neither announces it nor sends a task on that way.
LEMMA SealStep ==
    TypeOK /\ [Next]_vars
        => (published /\ (\A t \in Tasks : pc[t] \notin Announcing)
              => completions' = completions /\ \A t \in Tasks : pc'[t] \notin Announcing)
<1> SUFFICES ASSUME TypeOK, [Next]_vars,
                    published, \A t \in Tasks : pc[t] \notin Announcing
             PROVE  completions' = completions /\ \A t \in Tasks : pc'[t] \notin Announcing
    OBVIOUS
<1> DEFINE Sealed == completions' = completions /\ \A t \in Tasks : pc'[t] \notin Announcing
<1> USE CloserAssumption DEF TypeOK, Announcing, Tasks, Goto, Fault, matcherVars, taskVars
<1>matcher. CASE Ask \/ Take \/ PublishResult \/ PublishDone \/ Record \/ MatcherFails \/ MatcherCrash
  <2>1. CASE Ask BY <2>1 DEF Ask
  <2>2. CASE Take BY <2>2 DEF Take
  <2>3. CASE PublishResult BY <2>3 DEF PublishResult
  <2>4. CASE PublishDone BY <2>4 DEF PublishDone
  <2>5. CASE Record BY <2>5 DEF Record
  <2>6. CASE MatcherFails BY <2>6 DEF MatcherFails
  <2>7. CASE MatcherCrash BY <2>7 DEF MatcherCrash
  <2> QED BY <1>matcher, <2>1, <2>2, <2>3, <2>4, <2>5, <2>6, <2>7
<1>insert. ASSUME NEW p \in Pairs, Insert(p) PROVE Sealed
  BY <1>insert DEF Insert
<1>deliver. ASSUME NEW p \in Pairs, NEW w \in Workers, Deliver(w, p) PROVE Sealed
  BY <1>deliver DEF Deliver
<1>worker. ASSUME NEW w \in Workers, WorkerStep(w) \/ RenderFails(w) \/ WorkerFails(w)
          PROVE  Sealed
  <2>1. CASE Dedup(w) BY <2>1 DEF Dedup
  <2>2. CASE Update(w) BY <2>2 DEF Update
  <2>3. CASE Mark(w) BY <2>3 DEF Mark
  <2>4. CASE CountTotal(w) BY <2>4 DEF CountTotal
  <2>5. CASE CountEvidence(w) BY <2>5 DEF CountEvidence
  <2>6. CASE RenderFails(w) BY <2>6 DEF RenderFails
  <2>7. CASE WorkerFails(w) BY <2>7 DEF WorkerFails
  <2> QED BY <1>worker, <2>1, <2>2, <2>3, <2>4, <2>5, <2>6, <2>7 DEF WorkerStep
<1>task. ASSUME NEW t \in Tasks, TaskStep(t) PROVE Sealed
  <2>1. CASE HasPublished(t) BY <2>1 DEF HasPublished
  <2>2. CASE PublishCompletion(t) BY <2>2 DEF PublishCompletion
  <2>3. CASE MarkPublished(t) BY <2>3 DEF MarkPublished
  <2>4. CASE Ack(t) BY <2>4 DEF Ack
  <2> QED BY <1>task, <2>1, <2>2, <2>3, <2>4 DEF TaskStep
<1>closer. CASE Close \/ CountMatches \/ CloserFails \/ BuilderCrash
  <2>1. CASE Close BY <2>1 DEF Close
  <2>2. CASE CountMatches BY <2>2 DEF CountMatches
  <2>3. CASE CloserFails BY <2>3 DEF CloserFails
  <2>4. CASE BuilderCrash BY <2>4 DEF BuilderCrash
  <2> QED BY <1>closer, <2>1, <2>2, <2>3, <2>4
<1>stutter. CASE UNCHANGED vars BY <1>stutter DEF vars
<1> QED BY <1>matcher, <1>insert, <1>deliver, <1>worker, <1>task, <1>closer,
           <1>stutter DEF Next

\* Once recorded and drained, the completion is not announced again.
THEOREM CompletionSealedHolds == Spec => CompletionSealed
<1>1. TypeOK /\ [Next]_vars
        => [published /\ (\A t \in Tasks : pc[t] \notin Announcing)
              => completions' = completions /\ \A t \in Tasks : pc'[t] \notin Announcing]_vars
    BY SealStep
<1> QED BY TypeCorrect, <1>1, PTL DEF Spec, CompletionSealed
=============================================================================
