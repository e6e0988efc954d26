--------------------------- MODULE JobPhaseProofs ---------------------------
(***************************************************************************)
(* Proofs about the job phase machine, for every value of its constants:   *)
(* its barriers, and that it implements the ledger of JobLedger.           *)
(***************************************************************************)
EXTENDS JobPhase, FiniteSetTheorems, TLAPS

-----------------------------------------------------------------------------
\* Lemmas about the events

\* More asset kinds require more feature events, and no kind requires none.
LEMMA RequiredMonotone ==
    ASSUME NEW A, NEW B, A \subseteq B
    PROVE  RequiredFeatures(A) \subseteq RequiredFeatures(B)
BY DEF RequiredFeatures

\* A job without assets waits for no feature event.
LEMMA RequiredOfNone == RequiredFeatures({}) = {}
BY DEF RequiredFeatures

\* The event by which the matcher answers a match request is an event.
LEMMA MatchAnswer == \A i \in MatchIds : [name |-> MatchDone, id |-> i] \in Event
BY DEF Event

-----------------------------------------------------------------------------
\* Type correctness

\* Every step of the machine keeps the variables in their types.
LEMMA TypeStep == TypeOK /\ [Next]_vars => TypeOK'
<1> SUFFICES ASSUME TypeOK, [Next]_vars PROVE TypeOK'
    OBVIOUS
<1> USE BoundsAssumption DEF TypeOK, Phases, TaskPcs, CallPcs, dbVars, taskVars,
        apiVars, envVars, boundVars
<1>start. CASE StartJob
    BY <1>start DEF StartJob
<1>startFails. CASE StartJobFails
    BY <1>startFails DEF StartJobFails, Fault, CollectionEvents
<1>deliver. ASSUME NEW h \in Handlers, NEW e \in queue, Deliver(h, e) PROVE TypeOK'
    BY <1>deliver DEF Deliver
<1>task. ASSUME NEW h \in Handlers, TaskStep(h) PROVE TypeOK'
  <2> USE DEF Goto, Finish
  <2>1. CASE Ingest(h) BY <2>1 DEF Ingest
  <2>2. CASE Store(h) BY <2>2 DEF Store
  <2>3. CASE Check(h) BY <2>3 DEF Check, Branch
  <2>4. CASE Collect(h) BY <2>4 DEF Collect, Cross
  <2>5. CASE ToFeatures(h) BY <2>5 DEF ToFeatures, SetPhase, Cross
  <2>6. CASE Assets(h) BY <2>6, RequiredMonotone DEF Assets
  <2>7. CASE Features(h) BY <2>7 DEF Features, Cross
  <2>8. CASE ToMatching(h) BY <2>8 DEF ToMatching, SetPhase
  <2>9. CASE Request(h) BY <2>9 DEF Request, Cross
  <2>10. CASE ToEvidence(h) BY <2>10 DEF ToEvidence, SetPhase, Cross
  <2>11. CASE ViaEvidence(h) BY <2>11 DEF ViaEvidence, SetPhase
  <2>12. CASE ToCompleted(h) BY <2>12 DEF ToCompleted, SetPhase
  <2>13. CASE Announce(h) BY <2>13 DEF Announce
  <2>14. CASE Ack(h) BY <2>14 DEF Ack
  <2> QED BY <1>task, <2>1, <2>2, <2>3, <2>4, <2>5, <2>6, <2>7, <2>8, <2>9, <2>10,
             <2>11, <2>12, <2>13, <2>14 DEF TaskStep
<1>fault. ASSUME NEW h \in Handlers, TaskFault(h) PROVE TypeOK'
  <2> USE DEF Goto, Finish, Fault
  <2>1. CASE IngestFails(h) BY <2>1 DEF IngestFails
  <2>2. CASE StoreFails(h) BY <2>2 DEF StoreFails
  <2>3. CASE CheckFails(h) BY <2>3 DEF CheckFails, Branch
  <2>4. CASE AssetsFails(h) BY <2>4, RequiredMonotone DEF AssetsFails
  <2>5. CASE BranchFails(h) BY <2>5 DEF BranchFails, Cross
  <2> QED BY <1>fault, <2>1, <2>2, <2>3, <2>4, <2>5 DEF TaskFault
<1>requeue. ASSUME NEW h \in Handlers, Requeue(h) PROVE TypeOK'
    BY <1>requeue DEF Requeue
<1>call. ASSUME NEW r \in Requests, StartCall(r) \/ CallStep(r) \/ CallFails(r)
         PROVE TypeOK'
  <2> USE DEF CallTo, SetPhase, Fault
  <2>1. CASE StartCall(r) BY <2>1 DEF StartCall
  <2>2. CASE Cancel(r) BY <2>2 DEF Cancel
  <2>3. CASE Mark(r) BY <2>3 DEF Mark
  <2>4. CASE Delete(r) BY <2>4 DEF Delete
  <2>5. CASE WipeRows(r) BY <2>5 DEF WipeRows
  <2>6. CASE WipeEvents(r) BY <2>6 DEF WipeEvents
  <2>7. CASE MarkDeleted(r) BY <2>7 DEF MarkDeleted
  <2>8. CASE CallFails(r) BY <2>8 DEF CallFails
  <2> QED BY <1>call, <2>1, <2>2, <2>3, <2>4, <2>5, <2>6, <2>7, <2>8 DEF CallStep
<1>matcher. ASSUME NEW i \in MatchIds, \/ MatcherTake(i) \/ MatcherSend(i)
                                       \/ MatcherMark(i) \/ MatcherCrash(i)
                                       \/ MatcherFails(i)
            PROVE TypeOK'
  <2> USE DEF SetPhase, Fault
  <2>1. CASE MatcherTake(i) BY <2>1 DEF MatcherTake
  <2>2. CASE MatcherSend(i) BY <2>2, MatchAnswer DEF MatcherSend
  <2>3. CASE MatcherMark(i) BY <2>3 DEF MatcherMark
  <2>4. CASE MatcherCrash(i) BY <2>4 DEF MatcherCrash
  <2>5. CASE MatcherFails(i) BY <2>5 DEF MatcherFails
  <2> QED BY <1>matcher, <2>1, <2>2, <2>3, <2>4, <2>5
<1>report. ASSUME NEW e \in Event,
                  CollectorReports(e) \/ VisionReports(e) \/ EvidenceReports(e)
           PROVE TypeOK'
    BY <1>report DEF CollectorReports, VisionReports, EvidenceReports, Publish
<1>crash. CASE Crash
    BY <1>crash DEF Crash
<1>stutter. CASE UNCHANGED vars
    BY <1>stutter DEF vars
<1> QED BY <1>start, <1>startFails, <1>deliver, <1>task, <1>fault, <1>requeue,
           <1>call, <1>matcher, <1>report, <1>crash, <1>stutter DEF Next

\* The initial states are of the right types.
LEMMA TypeInit == Init => TypeOK
  <1> SUFFICES ASSUME Init PROVE TypeOK
      OBVIOUS
  <1>1. /\ pc \in [Handlers -> TaskPcs] /\ \A h \in Handlers : pc[h] = "idle"
        /\ ev \in [Handlers -> Event \cup {NoEvent}]
        /\ seen \in [Handlers -> Phases]
        /\ need \in [Handlers -> SUBSET RequiredFeatures(AssetKinds)]
      BY DEF Init, TaskPcs, Phases
  <1>2. call \in [Requests -> CallPcs] /\ force \in [Requests -> BOOLEAN]
      BY DEF Init, CallPcs
  <1> QED BY <1>1, <1>2 DEF Init, TypeOK, Phases

\* The phase, the tasks, the calls and the requests only ever hold the values
\* the code gives them, whatever fails or restarts.
THEOREM TypeCorrect == Spec => []TypeOK
<1>1. Init => TypeOK
    BY TypeInit
<1>2. TypeOK /\ [Next]_vars => TypeOK'
    BY TypeStep
<1> QED BY <1>1, <1>2, PTL DEF Spec

-----------------------------------------------------------------------------
\* The barriers

\* What no step takes back: a published event, a match request, the wiping of
\* the rows, a failure; and a stored event but for a deletion.
Lasting ==
    /\ found' = found /\ (wiped => wiped') /\ (faults' = 0 => faults = 0)
    /\ emitted \subseteq emitted' /\ (Asked => Asked')
    /\ ~wiped' => stored \subseteq stored'

\* No step takes back a published event, a match request, the sign of a
\* deletion, a failure, or (but for a deletion) a stored event.
LEMMA StepLasts == TypeOK /\ SourceInv /\ [Next]_vars => Lasting
<1> SUFFICES ASSUME TypeOK, SourceInv, [Next]_vars PROVE Lasting
    OBVIOUS
<1>types. /\ mreq \in [MatchIds -> {"none", "queued", "running", "sent", "again", "done"}]
          /\ faults \in Nat
    BY DEF TypeOK
<1>wipes. \A r \in Requests : call[r] \in {"wipeEvents", "markDeleted"} => wiped
    BY DEF SourceInv
<1> USE <1>types DEF Lasting, Asked, dbVars, taskVars, apiVars, envVars, boundVars
<1>start. CASE StartJob BY <1>start DEF StartJob
<1>startFails. CASE StartJobFails BY <1>startFails DEF StartJobFails, Fault
<1>deliver. ASSUME NEW h \in Handlers, NEW e \in queue, Deliver(h, e) PROVE Lasting
    BY <1>deliver DEF Deliver
<1>task. ASSUME NEW h \in Handlers, TaskStep(h) PROVE Lasting
  <2> USE DEF Goto, Finish
  <2>1. CASE Ingest(h) BY <2>1 DEF Ingest
  <2>2. CASE Store(h) BY <2>2 DEF Store
  <2>3. CASE Check(h) BY <2>3 DEF Check
  <2>4. CASE Collect(h) BY <2>4 DEF Collect, Cross
  <2>5. CASE ToFeatures(h) BY <2>5 DEF ToFeatures, SetPhase, Cross
  <2>6. CASE Assets(h) BY <2>6 DEF Assets
  <2>7. CASE Features(h) BY <2>7 DEF Features, Cross
  <2>8. CASE ToMatching(h) BY <2>8 DEF ToMatching, SetPhase
  <2>9. CASE Request(h) BY <2>9 DEF Request, Cross
  <2>10. CASE ToEvidence(h) BY <2>10 DEF ToEvidence, SetPhase, Cross
  <2>11. CASE ViaEvidence(h) BY <2>11 DEF ViaEvidence, SetPhase
  <2>12. CASE ToCompleted(h) BY <2>12 DEF ToCompleted, SetPhase
  <2>13. CASE Announce(h) BY <2>13 DEF Announce
  <2>14. CASE Ack(h) BY <2>14 DEF Ack
  <2> QED BY <1>task, <2>1, <2>2, <2>3, <2>4, <2>5, <2>6, <2>7, <2>8, <2>9, <2>10, <2>11, <2>12, <2>13, <2>14 DEF TaskStep
<1>fault. ASSUME NEW h \in Handlers, TaskFault(h) PROVE Lasting
  <2> USE DEF Goto, Finish, Fault
  <2>1. CASE IngestFails(h) BY <2>1 DEF IngestFails
  <2>2. CASE StoreFails(h) BY <2>2 DEF StoreFails
  <2>3. CASE CheckFails(h) BY <2>3 DEF CheckFails
  <2>4. CASE AssetsFails(h) BY <2>4 DEF AssetsFails
  <2>5. CASE BranchFails(h) BY <2>5 DEF BranchFails, Cross
  <2> QED BY <1>fault, <2>1, <2>2, <2>3, <2>4, <2>5 DEF TaskFault
<1>requeue. ASSUME NEW h \in Handlers, Requeue(h) PROVE Lasting
    BY <1>requeue DEF Requeue
<1>call. ASSUME NEW r \in Requests, StartCall(r) \/ CallStep(r) \/ CallFails(r) PROVE Lasting
  <2> USE DEF CallTo, Fault
  <2>1. CASE StartCall(r) BY <2>1 DEF StartCall
  <2>2. CASE Cancel(r) BY <2>2 DEF Cancel
  <2>3. CASE Mark(r) BY <2>3 DEF Mark, SetPhase
  <2>4. CASE Delete(r) BY <2>4 DEF Delete
  <2>5. CASE WipeRows(r) BY <2>5 DEF WipeRows
  <2>6. CASE WipeEvents(r) BY <2>6, <1>wipes DEF WipeEvents
  <2>7. CASE MarkDeleted(r) BY <2>7 DEF MarkDeleted
  <2>8. CASE CallFails(r) BY <2>8 DEF CallFails
  <2> QED BY <1>call, <2>1, <2>2, <2>3, <2>4, <2>5, <2>6, <2>7, <2>8 DEF CallStep
<1>matcher. ASSUME NEW i \in MatchIds, \/ MatcherTake(i) \/ MatcherSend(i) \/ MatcherMark(i)
                                       \/ MatcherCrash(i) \/ MatcherFails(i)
            PROVE Lasting
  <2> USE DEF Fault
  <2>1. CASE MatcherTake(i) BY <2>1 DEF MatcherTake
  <2>2. CASE MatcherSend(i) BY <2>2 DEF MatcherSend
  <2>3. CASE MatcherMark(i) BY <2>3 DEF MatcherMark, SetPhase
  <2>4. CASE MatcherCrash(i) BY <2>4 DEF MatcherCrash, SetPhase
  <2>5. CASE MatcherFails(i) BY <2>5 DEF MatcherFails
  <2> QED BY <1>matcher, <2>1, <2>2, <2>3, <2>4, <2>5
<1>report. ASSUME NEW e \in Event, CollectorReports(e) \/ VisionReports(e) \/ EvidenceReports(e)
           PROVE Lasting
    BY <1>report DEF Publish, CollectorReports, VisionReports, EvidenceReports
<1>crash. CASE Crash BY <1>crash DEF Crash
<1>stutter. CASE UNCHANGED vars BY <1>stutter DEF vars
<1> QED BY <1>start, <1>startFails, <1>deliver, <1>task, <1>fault, <1>requeue,
           <1>call, <1>matcher, <1>report, <1>crash, <1>stutter DEF Next

\* The events of a producer are the only ones whose names a step can add.
LEMMA SourceStep == TypeOK /\ SourceInv /\ [Next]_vars => SourceInv'
<1> SUFFICES ASSUME TypeOK, SourceInv, [Next]_vars PROVE SourceInv'
    OBVIOUS
<1>lasting. Lasting
    BY StepLasts
<1>types. /\ mreq \in [MatchIds -> {"none", "queued", "running", "sent", "again", "done"}]
          /\ call \in [Requests -> CallPcs]
          /\ pc \in [Handlers -> TaskPcs]
          /\ ev \in [Handlers -> Event \cup {NoEvent}]
    BY DEF TypeOK
<1>asked. asked \subseteq CollectionEvents
    BY DEF TypeOK
<1> USE <1>types, <1>lasting DEF Lasting, Asked, SourceInv, EmittedNames, dbVars, taskVars, apiVars, envVars, boundVars
<1>start. CASE StartJob BY <1>start DEF StartJob
<1>startFails. CASE StartJobFails BY <1>startFails DEF StartJobFails, Fault
<1>deliver. ASSUME NEW h \in Handlers, NEW e \in queue, Deliver(h, e) PROVE SourceInv'
    BY <1>deliver DEF Deliver
<1>task. ASSUME NEW h \in Handlers, TaskStep(h) PROVE SourceInv'
  <2> USE DEF Goto, Finish
  <2>1. CASE Ingest(h) BY <2>1 DEF Ingest
  <2>2. CASE Store(h) BY <2>2 DEF Store
  <2>3. CASE Check(h) BY <2>3 DEF Check
  <2>4. CASE Collect(h) BY <2>4 DEF Collect, Cross
  <2>5. CASE ToFeatures(h) BY <2>5 DEF ToFeatures, SetPhase, Cross
  <2>6. CASE Assets(h) BY <2>6 DEF Assets
  <2>7. CASE Features(h) BY <2>7 DEF Features, Cross
  <2>8. CASE ToMatching(h) BY <2>8 DEF ToMatching, SetPhase
  <2>9. CASE Request(h) BY <2>9 DEF Request, Cross
  <2>10. CASE ToEvidence(h) BY <2>10 DEF ToEvidence, SetPhase, Cross
  <2>11. CASE ViaEvidence(h) BY <2>11 DEF ViaEvidence, SetPhase
  <2>12. CASE ToCompleted(h) BY <2>12 DEF ToCompleted, SetPhase
  <2>13. CASE Announce(h) BY <2>13 DEF Announce
  <2>14. CASE Ack(h) BY <2>14 DEF Ack
  <2> QED BY <1>task, <2>1, <2>2, <2>3, <2>4, <2>5, <2>6, <2>7, <2>8, <2>9, <2>10, <2>11, <2>12, <2>13, <2>14 DEF TaskStep
<1>fault. ASSUME NEW h \in Handlers, TaskFault(h) PROVE SourceInv'
  <2> USE DEF Goto, Finish, Fault
  <2>1. CASE IngestFails(h) BY <2>1 DEF IngestFails
  <2>2. CASE StoreFails(h) BY <2>2 DEF StoreFails
  <2>3. CASE CheckFails(h) BY <2>3 DEF CheckFails
  <2>4. CASE AssetsFails(h) BY <2>4 DEF AssetsFails
  <2>5. CASE BranchFails(h) BY <2>5 DEF BranchFails, Cross
  <2> QED BY <1>fault, <2>1, <2>2, <2>3, <2>4, <2>5 DEF TaskFault
<1>requeue. ASSUME NEW h \in Handlers, Requeue(h) PROVE SourceInv'
    BY <1>requeue DEF Requeue
<1>call. ASSUME NEW r \in Requests, StartCall(r) \/ CallStep(r) \/ CallFails(r) PROVE SourceInv'
  <2> USE DEF CallTo, Fault
  <2>1. CASE StartCall(r) BY <2>1 DEF StartCall
  <2>2. CASE Cancel(r) BY <2>2 DEF Cancel
  <2>3. CASE Mark(r) BY <2>3 DEF Mark, SetPhase
  <2>4. CASE Delete(r) BY <2>4 DEF Delete
  <2>5. CASE WipeRows(r) BY <2>5 DEF WipeRows
  <2>6. CASE WipeEvents(r) BY <2>6 DEF WipeEvents
  <2>7. CASE MarkDeleted(r) BY <2>7 DEF MarkDeleted
  <2>8. CASE CallFails(r) BY <2>8 DEF CallFails
  <2> QED BY <1>call, <2>1, <2>2, <2>3, <2>4, <2>5, <2>6, <2>7, <2>8 DEF CallStep
<1>matcher. ASSUME NEW i \in MatchIds, \/ MatcherTake(i) \/ MatcherSend(i) \/ MatcherMark(i)
                                       \/ MatcherCrash(i) \/ MatcherFails(i)
            PROVE SourceInv'
  <2> USE DEF Fault
  <2>1. CASE MatcherTake(i) BY <2>1 DEF MatcherTake
  <2>2. CASE MatcherSend(i) BY <2>2 DEF MatcherSend, MatchDone, EvidenceDone, CollectionOf, ProductsCollected, VideosCollected
  <2>3. CASE MatcherMark(i) BY <2>3 DEF MatcherMark, SetPhase
  <2>4. CASE MatcherCrash(i) BY <2>4 DEF MatcherCrash, SetPhase
  <2>5. CASE MatcherFails(i) BY <2>5 DEF MatcherFails
  <2> QED BY <1>matcher, <2>1, <2>2, <2>3, <2>4, <2>5
<1>report. ASSUME NEW e \in Event, CollectorReports(e) \/ VisionReports(e) \/ EvidenceReports(e)
           PROVE SourceInv'
  <2>names. EmittedNames' = EmittedNames \cup {e.name}
      BY <1>report DEF Publish, CollectorReports, VisionReports, EvidenceReports
  <2>1. queue' \subseteq emitted' /\ stored' \subseteq emitted'
      BY <1>report DEF Publish, CollectorReports, VisionReports, EvidenceReports
  <2>2. EvidenceDone \in EmittedNames' => Asked'
    <3>1. CASE EvidenceReports(e)
        BY <3>1 DEF EvidenceReports, Publish
    <3>2. CASE e.name # EvidenceDone
        BY <2>names, <3>2
    <3>3. CASE CollectorReports(e) \/ VisionReports(e)
      <4>1. e.name # EvidenceDone
          BY <3>3, <1>asked DEF CollectorReports, VisionReports, FeaturesOf, CollectionEvents,
                        EvidenceDone, ProductsCollected, VideosCollected
      <4> QED BY <4>1, <3>2
    <3> QED BY <1>report, <3>1, <3>3
  <2>3. ~wiped' => {k \in found' : CollectionOf(k) \in EmittedNames'} \subseteq assets'
    <3>1. CASE CollectorReports(e)
        BY <2>names, <3>1 DEF CollectorReports, Publish
    <3>2. CASE VisionReports(e) \/ EvidenceReports(e)
      <4>1. e.name \notin {ProductsCollected, VideosCollected}
          BY <3>2 DEF VisionReports, EvidenceReports, FeaturesOf, EvidenceDone,
                      ProductsCollected, VideosCollected
      <4>2. UNCHANGED <<assets, wiped, found>>
          BY <3>2 DEF VisionReports, EvidenceReports, Publish
      <4> QED BY <2>names, <4>1, <4>2 DEF CollectionOf
    <3> QED BY <1>report, <3>1, <3>2
  <2>4. UNCHANGED <<pc, ev, call>>
      BY <1>report DEF Publish, CollectorReports, VisionReports, EvidenceReports
  <2> QED BY <2>1, <2>2, <2>3, <2>4
<1>crash. CASE Crash BY <1>crash DEF Crash
<1>stutter. CASE UNCHANGED vars BY <1>stutter DEF vars
<1> QED BY <1>start, <1>startFails, <1>deliver, <1>task, <1>fault, <1>requeue,
           <1>call, <1>matcher, <1>report, <1>crash, <1>stutter DEF Next

\* Where the transition check may send a task: past the barriers only when the
\* phase already is, to the end of the job only on evidence.
LEMMA BranchFacts ==
    ASSUME NEW p, NEW e
    PROVE  /\ Branch(p, e) = "collect" => p = "collection"
           /\ Branch(p, e) = "assets" => p = "feature_extraction"
           /\ Branch(p, e) \in {"request", "toEvidence"} => p = "matching"
           /\ Branch(p, e) \in Finishing => e.name = EvidenceDone
           /\ Branch(p, e) \in {"collect", "assets", "request", "toEvidence", "ack"}
                                \cup Finishing
<1> USE DEF Branch, Finishing
<1>1. CASE p = "collection" BY <1>1
<1>2. CASE p = "feature_extraction" BY <1>2
<1>3. CASE p = "matching" BY <1>3
<1>4. CASE p = "evidence" BY <1>4
<1>5. CASE p \notin {"collection", "feature_extraction", "matching", "evidence"}
    BY <1>5
<1> QED BY <1>1, <1>2, <1>3, <1>4, <1>5

\* Every step keeps: tasks past the INSERT have their event stored, and only
\* evidence finishes a job.
LEMMA StoredStep == TypeOK /\ SourceInv /\ StoredInv /\ [Next]_vars => StoredInv'
<1> SUFFICES ASSUME TypeOK, SourceInv, StoredInv, [Next]_vars, ~wiped' PROVE StoredInv'
    BY DEF StoredInv
<1>lasting. stored \subseteq stored' /\ ~wiped
    BY StepLasts DEF Lasting
<1>types. /\ pc \in [Handlers -> TaskPcs] /\ ev \in [Handlers -> Event \cup {NoEvent}]
          /\ completions \in Nat
    BY DEF TypeOK
<1> USE <1>types, <1>lasting DEF StoredInv, StoredNames, AfterStore, AfterCollect,
        AfterFeatures, Finishing, TaskPcs, dbVars, taskVars, apiVars, envVars, boundVars
<1>start. CASE StartJob BY <1>start DEF StartJob
<1>startFails. CASE StartJobFails BY <1>startFails DEF StartJobFails, Fault
<1>deliver. ASSUME NEW h \in Handlers, NEW e \in queue, Deliver(h, e) PROVE StoredInv'
    BY <1>deliver DEF Deliver
<1>task. ASSUME NEW h \in Handlers, TaskStep(h) PROVE StoredInv'
  <2> USE DEF Goto, Finish
  <2>1. CASE Ingest(h) BY <2>1 DEF Ingest
  <2>2. CASE Store(h) BY <2>2 DEF Store
  <2>3. CASE Check(h) BY <2>3, BranchFacts DEF Check
  <2>4. CASE Collect(h) BY <2>4 DEF Collect, Cross
  <2>5. CASE ToFeatures(h) BY <2>5 DEF ToFeatures, SetPhase, Cross
  <2>6. CASE Assets(h) BY <2>6 DEF Assets
  <2>7. CASE Features(h) BY <2>7 DEF Features, Cross
  <2>8. CASE ToMatching(h) BY <2>8 DEF ToMatching, SetPhase
  <2>9. CASE Request(h) BY <2>9 DEF Request, Cross
  <2>10. CASE ToEvidence(h) BY <2>10 DEF ToEvidence, SetPhase, Cross
  <2>11. CASE ViaEvidence(h) BY <2>11 DEF ViaEvidence, SetPhase
  <2>12. CASE ToCompleted(h) BY <2>12 DEF ToCompleted, SetPhase
  <2>13. CASE Announce(h) BY <2>13 DEF Announce
  <2>14. CASE Ack(h) BY <2>14 DEF Ack
  <2> QED BY <1>task, <2>1, <2>2, <2>3, <2>4, <2>5, <2>6, <2>7, <2>8, <2>9, <2>10, <2>11, <2>12, <2>13, <2>14 DEF TaskStep
<1>fault. ASSUME NEW h \in Handlers, TaskFault(h) PROVE StoredInv'
  <2> USE DEF Goto, Finish, Fault
  <2>1. CASE IngestFails(h) BY <2>1 DEF IngestFails
  <2>2. CASE StoreFails(h) BY <2>2 DEF StoreFails
  <2>3. CASE CheckFails(h) BY <2>3, BranchFacts DEF CheckFails
  <2>4. CASE AssetsFails(h) BY <2>4 DEF AssetsFails
  <2>5. CASE BranchFails(h) BY <2>5 DEF BranchFails, Cross
  <2> QED BY <1>fault, <2>1, <2>2, <2>3, <2>4, <2>5 DEF TaskFault
<1>requeue. ASSUME NEW h \in Handlers, Requeue(h) PROVE StoredInv'
    BY <1>requeue DEF Requeue
<1>call. ASSUME NEW r \in Requests, StartCall(r) \/ CallStep(r) \/ CallFails(r) PROVE StoredInv'
  <2> USE DEF CallTo, Fault
  <2>1. CASE StartCall(r) BY <2>1 DEF StartCall
  <2>2. CASE Cancel(r) BY <2>2 DEF Cancel
  <2>3. CASE Mark(r) BY <2>3 DEF Mark, SetPhase
  <2>4. CASE Delete(r) BY <2>4 DEF Delete
  <2>5. CASE WipeRows(r) BY <2>5 DEF WipeRows
  <2>6. CASE WipeEvents(r) BY <2>6 DEF WipeEvents
  <2>7. CASE MarkDeleted(r) BY <2>7 DEF MarkDeleted
  <2>8. CASE CallFails(r) BY <2>8 DEF CallFails
  <2> QED BY <1>call, <2>1, <2>2, <2>3, <2>4, <2>5, <2>6, <2>7, <2>8 DEF CallStep
<1>matcher. ASSUME NEW i \in MatchIds, \/ MatcherTake(i) \/ MatcherSend(i) \/ MatcherMark(i)
                                       \/ MatcherCrash(i) \/ MatcherFails(i)
            PROVE StoredInv'
  <2> USE DEF Fault
  <2>1. CASE MatcherTake(i) BY <2>1 DEF MatcherTake
  <2>2. CASE MatcherSend(i) BY <2>2 DEF MatcherSend
  <2>3. CASE MatcherMark(i) BY <2>3 DEF MatcherMark, SetPhase
  <2>4. CASE MatcherCrash(i) BY <2>4 DEF MatcherCrash, SetPhase
  <2>5. CASE MatcherFails(i) BY <2>5 DEF MatcherFails
  <2> QED BY <1>matcher, <2>1, <2>2, <2>3, <2>4, <2>5
<1>report. ASSUME NEW e \in Event, CollectorReports(e) \/ VisionReports(e) \/ EvidenceReports(e)
           PROVE StoredInv'
    BY <1>report DEF Publish, CollectorReports, VisionReports, EvidenceReports
<1>crash. CASE Crash BY <1>crash DEF Crash
<1>stutter. CASE UNCHANGED vars BY <1>stutter DEF vars
<1> QED BY <1>start, <1>startFails, <1>deliver, <1>task, <1>fault, <1>requeue,
           <1>call, <1>matcher, <1>report, <1>crash, <1>stutter DEF Next

\* Only _process_collection_phase crosses the collection barrier; evidence,
\* which can complete a job from any phase, follows a match request.
LEMMA CollectedStep ==
    TypeOK /\ SourceInv /\ StoredInv /\ CollectedInv /\ [Next]_vars => CollectedInv'
<1> DEFINE Past == \/ phase \in {"feature_extraction"} \cup LatePhases
                   \/ Asked
                   \/ \E h \in Handlers : pc[h] \in AfterCollect
<1> SUFFICES ASSUME TypeOK, SourceInv, StoredInv, CollectedInv, [Next]_vars, ~wiped', Past'
             PROVE Collected'
    BY DEF CollectedInv
<1>lasting. (Collected => Collected') /\ ~wiped
    BY StepLasts DEF Lasting, Collected, StoredNames
<1>past. Past => Collected'
    BY <1>lasting DEF CollectedInv
<1>evidence. \A h \in Handlers : pc[h] # "idle" /\ ev[h].name = EvidenceDone => Past
    BY DEF SourceInv, EmittedNames
<1>types. /\ pc \in [Handlers -> TaskPcs] /\ ev \in [Handlers -> Event \cup {NoEvent}]
          /\ mreq \in [MatchIds -> {"none", "queued", "running", "sent", "again", "done"}]
    BY DEF TypeOK
<1> USE <1>types, <1>past, <1>evidence DEF AfterCollect, AfterFeatures, Finishing, TaskPcs,
        LatePhases, Asked, dbVars, taskVars, apiVars, envVars, boundVars
<1>start. CASE StartJob BY <1>start DEF StartJob
<1>startFails. CASE StartJobFails BY <1>startFails DEF StartJobFails, Fault
<1>deliver. ASSUME NEW h \in Handlers, NEW e \in queue, Deliver(h, e) PROVE Collected'
    BY <1>deliver DEF Deliver
<1>task. ASSUME NEW h \in Handlers, TaskStep(h) PROVE Collected'
  <2> USE DEF Goto, Finish
  <2>1. CASE Ingest(h) BY <2>1 DEF Ingest
  <2>2. CASE Store(h) BY <2>2 DEF Store
  <2>3. CASE Check(h) BY <2>3, BranchFacts DEF Check
  <2>4. CASE Collect(h) BY <2>4, <1>lasting DEF Collect, Cross, Collected
  <2>5. CASE ToFeatures(h) BY <2>5 DEF ToFeatures, SetPhase, Cross
  <2>6. CASE Assets(h) BY <2>6 DEF Assets
  <2>7. CASE Features(h) BY <2>7 DEF Features, Cross
  <2>8. CASE ToMatching(h) BY <2>8 DEF ToMatching, SetPhase
  <2>9. CASE Request(h) BY <2>9 DEF Request, Cross
  <2>10. CASE ToEvidence(h) BY <2>10 DEF ToEvidence, SetPhase, Cross
  <2>11. CASE ViaEvidence(h) BY <2>11 DEF ViaEvidence, SetPhase
  <2>12. CASE ToCompleted(h) BY <2>12 DEF ToCompleted, SetPhase
  <2>13. CASE Announce(h) BY <2>13 DEF Announce
  <2>14. CASE Ack(h) BY <2>14 DEF Ack
  <2> QED BY <1>task, <2>1, <2>2, <2>3, <2>4, <2>5, <2>6, <2>7, <2>8, <2>9, <2>10, <2>11, <2>12, <2>13, <2>14 DEF TaskStep
<1>fault. ASSUME NEW h \in Handlers, TaskFault(h) PROVE Collected'
  <2> USE DEF Goto, Finish, Fault
  <2>1. CASE IngestFails(h) BY <2>1 DEF IngestFails
  <2>2. CASE StoreFails(h) BY <2>2 DEF StoreFails
  <2>3. CASE CheckFails(h) BY <2>3, BranchFacts DEF CheckFails
  <2>4. CASE AssetsFails(h) BY <2>4 DEF AssetsFails
  <2>5. CASE BranchFails(h) BY <2>5 DEF BranchFails, Cross
  <2> QED BY <1>fault, <2>1, <2>2, <2>3, <2>4, <2>5 DEF TaskFault
<1>requeue. ASSUME NEW h \in Handlers, Requeue(h) PROVE Collected'
    BY <1>requeue DEF Requeue
<1>call. ASSUME NEW r \in Requests, StartCall(r) \/ CallStep(r) \/ CallFails(r) PROVE Collected'
  <2> USE DEF CallTo, Fault
  <2>1. CASE StartCall(r) BY <2>1 DEF StartCall
  <2>2. CASE Cancel(r) BY <2>2 DEF Cancel
  <2>3. CASE Mark(r) BY <2>3 DEF Mark, SetPhase
  <2>4. CASE Delete(r) BY <2>4 DEF Delete
  <2>5. CASE WipeRows(r) BY <2>5 DEF WipeRows
  <2>6. CASE WipeEvents(r) BY <2>6 DEF WipeEvents
  <2>7. CASE MarkDeleted(r) BY <2>7 DEF MarkDeleted
  <2>8. CASE CallFails(r) BY <2>8 DEF CallFails
  <2> QED BY <1>call, <2>1, <2>2, <2>3, <2>4, <2>5, <2>6, <2>7, <2>8 DEF CallStep
<1>matcher. ASSUME NEW i \in MatchIds, \/ MatcherTake(i) \/ MatcherSend(i) \/ MatcherMark(i)
                                       \/ MatcherCrash(i) \/ MatcherFails(i)
            PROVE Collected'
  <2> USE DEF Fault
  <2>1. CASE MatcherTake(i) BY <2>1 DEF MatcherTake
  <2>2. CASE MatcherSend(i) BY <2>2 DEF MatcherSend
  <2>3. CASE MatcherMark(i) BY <2>3 DEF MatcherMark, SetPhase
  <2>4. CASE MatcherCrash(i) BY <2>4 DEF MatcherCrash, SetPhase
  <2>5. CASE MatcherFails(i) BY <2>5 DEF MatcherFails
  <2> QED BY <1>matcher, <2>1, <2>2, <2>3, <2>4, <2>5
<1>report. ASSUME NEW e \in Event, CollectorReports(e) \/ VisionReports(e) \/ EvidenceReports(e)
           PROVE Collected'
    BY <1>report DEF Publish, CollectorReports, VisionReports, EvidenceReports
<1>crash. CASE Crash BY <1>crash DEF Crash
<1>stutter. CASE UNCHANGED vars BY <1>stutter DEF vars
<1> QED BY <1>start, <1>startFails, <1>deliver, <1>task, <1>fault, <1>requeue,
           <1>call, <1>matcher, <1>report, <1>crash, <1>stutter DEF Next

\* Behind both collections the counts of main-api see all the assets there are,
\* so the events a task requires are the ones the job needs.
LEMMA ExtractedStep ==
    TypeOK /\ SourceInv /\ CollectedInv /\ ExtractedInv /\ [Next]_vars => ExtractedInv'
<1> SUFFICES ASSUME TypeOK, SourceInv, CollectedInv, ExtractedInv, [Next]_vars,
                    ~wiped', faults' = 0
             PROVE ExtractedInv'
    BY DEF ExtractedInv
<1>lasting. (Extracted => Extracted') /\ ~wiped /\ faults = 0 /\ found' = found
    BY StepLasts DEF Lasting, Extracted, StoredNames
<1>past. \/ phase \in LatePhases
         \/ \E i \in MatchIds : mreq[i] # "none"
         \/ \E h \in Handlers : pc[h] \in AfterFeatures
         => Extracted'
    BY <1>lasting DEF ExtractedInv, Opened
<1>need. \A h \in Handlers : pc[h] = "features" => need[h] = RequiredFeatures(found)
    BY <1>lasting DEF ExtractedInv
<1>evidence. \A h \in Handlers : pc[h] # "idle" /\ ev[h].name = EvidenceDone
                => Extracted'
    BY <1>past DEF SourceInv, EmittedNames, Asked
<1>assets. \A h \in Handlers : pc[h] = "assets" => assets = found
  <2> SUFFICES ASSUME NEW h \in Handlers, pc[h] = "assets" PROVE found \subseteq assets
      BY DEF TypeOK
  <2>1. CollectionEvents \subseteq StoredNames
      BY <1>lasting DEF CollectedInv, Collected, AfterCollect
  <2>2. StoredNames \subseteq EmittedNames
      BY DEF StoredNames, EmittedNames, SourceInv
  <2>3. \A k \in found : CollectionOf(k) \in EmittedNames
      BY <2>1, <2>2 DEF CollectionOf, CollectionEvents
  <2> QED BY <2>3, <1>lasting DEF SourceInv
<1>types. /\ pc \in [Handlers -> TaskPcs] /\ ev \in [Handlers -> Event \cup {NoEvent}]
          /\ mreq \in [MatchIds -> {"none", "queued", "running", "sent", "again", "done"}]
          /\ need \in [Handlers -> SUBSET RequiredFeatures(AssetKinds)] /\ faults \in Nat
    BY DEF TypeOK
<1> DEFINE Goal ==
        /\ \/ phase' \in LatePhases
           \/ \E i \in MatchIds : mreq'[i] # "none"
           \/ \E h \in Handlers : pc'[h] \in AfterFeatures
           => Extracted'
        /\ \A h \in Handlers : pc'[h] = "features" => need'[h] = RequiredFeatures(found)
<1> SUFFICES Goal
    BY <1>lasting DEF ExtractedInv, Opened
<1> USE <1>types, <1>past, <1>need, <1>evidence DEF AfterFeatures, Finishing, TaskPcs,
        LatePhases, dbVars, taskVars, apiVars, envVars, boundVars
<1>start. CASE StartJob BY <1>start DEF StartJob
<1>startFails. CASE StartJobFails BY <1>startFails, <1>lasting DEF StartJobFails, Fault
<1>deliver. ASSUME NEW h \in Handlers, NEW e \in queue, Deliver(h, e) PROVE Goal
    BY <1>deliver DEF Deliver
<1>task. ASSUME NEW h \in Handlers, TaskStep(h) PROVE Goal
  <2> USE DEF Goto, Finish
  <2>1. CASE Ingest(h) BY <2>1 DEF Ingest
  <2>2. CASE Store(h) BY <2>2 DEF Store
  <2>3. CASE Check(h) BY <2>3, BranchFacts DEF Check
  <2>4. CASE Collect(h) BY <2>4 DEF Collect, Cross
  <2>5. CASE ToFeatures(h) BY <2>5 DEF ToFeatures, SetPhase, Cross
  <2>6. CASE Assets(h) BY <2>6, <1>assets, <1>lasting, RequiredOfNone DEF Assets, Extracted
  <2>7. CASE Features(h) BY <2>7, <1>lasting DEF Features, Cross, Extracted
  <2>8. CASE ToMatching(h) BY <2>8 DEF ToMatching, SetPhase
  <2>9. CASE Request(h) BY <2>9 DEF Request, Cross
  <2>10. CASE ToEvidence(h) BY <2>10 DEF ToEvidence, SetPhase, Cross
  <2>11. CASE ViaEvidence(h) BY <2>11 DEF ViaEvidence, SetPhase
  <2>12. CASE ToCompleted(h) BY <2>12 DEF ToCompleted, SetPhase
  <2>13. CASE Announce(h) BY <2>13 DEF Announce
  <2>14. CASE Ack(h) BY <2>14 DEF Ack
  <2> QED BY <1>task, <2>1, <2>2, <2>3, <2>4, <2>5, <2>6, <2>7, <2>8, <2>9, <2>10, <2>11, <2>12, <2>13, <2>14 DEF TaskStep
<1>fault. ASSUME NEW h \in Handlers, TaskFault(h) PROVE Goal
  <2> USE DEF Goto, Finish, Fault
  <2>1. CASE IngestFails(h) BY <2>1, <1>lasting DEF IngestFails
  <2>2. CASE StoreFails(h) BY <2>2, <1>lasting DEF StoreFails
  <2>3. CASE CheckFails(h) BY <2>3, <1>lasting DEF CheckFails
  <2>4. CASE AssetsFails(h) BY <2>4, <1>lasting DEF AssetsFails
  <2>5. CASE BranchFails(h) BY <2>5, <1>lasting DEF BranchFails, Cross
  <2> QED BY <1>fault, <2>1, <2>2, <2>3, <2>4, <2>5 DEF TaskFault
<1>requeue. ASSUME NEW h \in Handlers, Requeue(h) PROVE Goal
    BY <1>requeue DEF Requeue
<1>call. ASSUME NEW r \in Requests, StartCall(r) \/ CallStep(r) \/ CallFails(r) PROVE Goal
  <2> USE DEF CallTo, Fault
  <2>1. CASE StartCall(r) BY <2>1 DEF StartCall
  <2>2. CASE Cancel(r) BY <2>2 DEF Cancel
  <2>3. CASE Mark(r) BY <2>3 DEF Mark, SetPhase
  <2>4. CASE Delete(r) BY <2>4 DEF Delete
  <2>5. CASE WipeRows(r) BY <2>5 DEF WipeRows
  <2>6. CASE WipeEvents(r) BY <2>6 DEF WipeEvents
  <2>7. CASE MarkDeleted(r) BY <2>7 DEF MarkDeleted
  <2>8. CASE CallFails(r) BY <2>8, <1>lasting DEF CallFails
  <2> QED BY <1>call, <2>1, <2>2, <2>3, <2>4, <2>5, <2>6, <2>7, <2>8 DEF CallStep
<1>matcher. ASSUME NEW i \in MatchIds, \/ MatcherTake(i) \/ MatcherSend(i) \/ MatcherMark(i)
                                       \/ MatcherCrash(i) \/ MatcherFails(i)
            PROVE Goal
  <2> USE DEF Fault
  <2>1. CASE MatcherTake(i) BY <2>1 DEF MatcherTake
  <2>2. CASE MatcherSend(i) BY <2>2 DEF MatcherSend
  <2>3. CASE MatcherMark(i) BY <2>3 DEF MatcherMark, SetPhase
  <2>4. CASE MatcherCrash(i) BY <2>4 DEF MatcherCrash, SetPhase
  <2>5. CASE MatcherFails(i) BY <2>5, <1>lasting DEF MatcherFails
  <2> QED BY <1>matcher, <2>1, <2>2, <2>3, <2>4, <2>5
<1>report. ASSUME NEW e \in Event, CollectorReports(e) \/ VisionReports(e) \/ EvidenceReports(e)
           PROVE Goal
    BY <1>report DEF Publish, CollectorReports, VisionReports, EvidenceReports
<1>crash. CASE Crash BY <1>crash DEF Crash
<1>stutter. CASE UNCHANGED vars BY <1>stutter DEF vars
<1> QED BY <1>start, <1>startFails, <1>deliver, <1>task, <1>fault, <1>requeue,
           <1>call, <1>matcher, <1>report, <1>crash, <1>stutter DEF Next

\* The inductive invariant of the barriers.
THEOREM BarrierInvariant == Spec => []BarrierInv
<1>1. Init => BarrierInv
  <2> SUFFICES ASSUME Init PROVE SourceInv /\ StoredInv /\ CollectedInv /\ ExtractedInv
      BY TypeInit DEF BarrierInv
  <2>1. \A h \in Handlers : pc[h] = "idle"
      BY DEF Init
  <2>2. \A i \in MatchIds : mreq[i] = "none"
      BY DEF Init
  <2>3. SourceInv
      BY <2>1 DEF Init, SourceInv, EmittedNames
  <2>4. StoredInv
      BY <2>1 DEF Init, StoredInv, AfterStore, AfterCollect, AfterFeatures, Finishing
  <2>5. CollectedInv
      BY <2>1, <2>2 DEF Init, CollectedInv, Asked, LatePhases, AfterCollect, AfterFeatures,
                        Finishing
  <2>6. ExtractedInv
      BY <2>1, <2>2 DEF Init, ExtractedInv, Opened, LatePhases, AfterFeatures, Finishing
  <2> QED BY <2>3, <2>4, <2>5, <2>6
<1>2. BarrierInv /\ [Next]_vars => BarrierInv'
    BY TypeStep, SourceStep, StoredStep, CollectedStep, ExtractedStep DEF BarrierInv
<1> QED BY <1>1, <1>2, PTL DEF Spec

\* Matching is never asked for, and no phase shows it, before both collectors
\* have reported: whatever fails, restarts, is cancelled or redelivered.
THEOREM CollectionBarrierHolds == Spec => []CollectionBarrier
<1>1. BarrierInv => CollectionBarrier
    BY DEF BarrierInv, CollectedInv, CollectionBarrier, Opened, Asked, Collected
<1> QED BY <1>1, BarrierInvariant, PTL

\* While no statement fails, matching never starts before the features of all
\* the assets that the collectors found are extracted.
THEOREM FeatureBarrierHolds == Spec => []FeatureBarrier
<1>1. BarrierInv => FeatureBarrier
    BY DEF BarrierInv, ExtractedInv, FeatureBarrier, Extracted
<1> QED BY <1>1, BarrierInvariant, PTL

\* A completed job has its evidence, both collections and a match request
\* behind it.
THEOREM CompletionBackedHolds == Spec => []CompletionBacked
<1>1. BarrierInv => CompletionBacked
  <2> SUFFICES ASSUME BarrierInv, ~wiped, completions > 0 \/ phase = "completed"
               PROVE  CollectionEvents \cup {EvidenceDone} \subseteq StoredNames /\ Asked
      BY DEF CompletionBacked, Asked
  <2>1. EvidenceDone \in StoredNames
      BY DEF BarrierInv, StoredInv
  <2>2. Asked
      BY <2>1 DEF BarrierInv, SourceInv, StoredNames, EmittedNames
  <2> QED BY <2>1, <2>2 DEF BarrierInv, CollectedInv, Collected
<1> QED BY <1>1, BarrierInvariant, PTL

-----------------------------------------------------------------------------
\* Redelivered messages

\* Every step keeps the events under work in the cache and apart.
LEMMA DedupStep == TypeOK /\ DedupInv /\ [Next]_vars => DedupInv'
<1> SUFFICES ASSUME TypeOK, DedupInv, [Next]_vars PROVE DedupInv'
    OBVIOUS
<1>types. /\ pc \in [Handlers -> TaskPcs] /\ ev \in [Handlers -> Event \cup {NoEvent}]
    BY DEF TypeOK
<1> USE <1>types DEF DedupInv, NoConcurrentDuplicate, Working, TaskPcs, Finishing, dbVars, taskVars, apiVars, envVars, boundVars
<1>start. CASE StartJob BY <1>start DEF StartJob
<1>startFails. CASE StartJobFails BY <1>startFails DEF StartJobFails, Fault
<1>deliver. ASSUME NEW h \in Handlers, NEW e \in queue, Deliver(h, e) PROVE DedupInv'
    BY <1>deliver DEF Deliver
<1>task. ASSUME NEW h \in Handlers, TaskStep(h) PROVE DedupInv'
  <2> USE DEF Goto, Finish
  <2>1. CASE Ingest(h) BY <2>1 DEF Ingest
  <2>2. CASE Store(h) BY <2>2 DEF Store
  <2>3. CASE Check(h) BY <2>3, BranchFacts DEF Check
  <2>4. CASE Collect(h) BY <2>4 DEF Collect, Cross
  <2>5. CASE ToFeatures(h) BY <2>5 DEF ToFeatures, SetPhase, Cross
  <2>6. CASE Assets(h) BY <2>6 DEF Assets
  <2>7. CASE Features(h) BY <2>7 DEF Features, Cross
  <2>8. CASE ToMatching(h) BY <2>8 DEF ToMatching, SetPhase
  <2>9. CASE Request(h) BY <2>9 DEF Request, Cross
  <2>10. CASE ToEvidence(h) BY <2>10 DEF ToEvidence, SetPhase, Cross
  <2>11. CASE ViaEvidence(h) BY <2>11 DEF ViaEvidence, SetPhase
  <2>12. CASE ToCompleted(h) BY <2>12 DEF ToCompleted, SetPhase
  <2>13. CASE Announce(h) BY <2>13 DEF Announce
  <2>14. CASE Ack(h) BY <2>14 DEF Ack
  <2> QED BY <1>task, <2>1, <2>2, <2>3, <2>4, <2>5, <2>6, <2>7, <2>8, <2>9, <2>10, <2>11, <2>12, <2>13, <2>14 DEF TaskStep
<1>fault. ASSUME NEW h \in Handlers, TaskFault(h) PROVE DedupInv'
  <2> USE DEF Goto, Finish, Fault
  <2>1. CASE IngestFails(h) BY <2>1 DEF IngestFails
  <2>2. CASE StoreFails(h) BY <2>2 DEF StoreFails
  <2>3. CASE CheckFails(h) BY <2>3, BranchFacts DEF CheckFails
  <2>4. CASE AssetsFails(h) BY <2>4 DEF AssetsFails
  <2>5. CASE BranchFails(h) BY <2>5 DEF BranchFails, Cross
  <2> QED BY <1>fault, <2>1, <2>2, <2>3, <2>4, <2>5 DEF TaskFault
<1>requeue. ASSUME NEW h \in Handlers, Requeue(h) PROVE DedupInv'
    BY <1>requeue DEF Requeue
<1>call. ASSUME NEW r \in Requests, StartCall(r) \/ CallStep(r) \/ CallFails(r) PROVE DedupInv'
  <2> USE DEF CallTo, Fault
  <2>1. CASE StartCall(r) BY <2>1 DEF StartCall
  <2>2. CASE Cancel(r) BY <2>2 DEF Cancel
  <2>3. CASE Mark(r) BY <2>3 DEF Mark, SetPhase
  <2>4. CASE Delete(r) BY <2>4 DEF Delete
  <2>5. CASE WipeRows(r) BY <2>5 DEF WipeRows
  <2>6. CASE WipeEvents(r) BY <2>6 DEF WipeEvents
  <2>7. CASE MarkDeleted(r) BY <2>7 DEF MarkDeleted
  <2>8. CASE CallFails(r) BY <2>8 DEF CallFails
  <2> QED BY <1>call, <2>1, <2>2, <2>3, <2>4, <2>5, <2>6, <2>7, <2>8 DEF CallStep
<1>matcher. ASSUME NEW i \in MatchIds, \/ MatcherTake(i) \/ MatcherSend(i) \/ MatcherMark(i)
                                       \/ MatcherCrash(i) \/ MatcherFails(i)
            PROVE DedupInv'
  <2> USE DEF Fault
  <2>1. CASE MatcherTake(i) BY <2>1 DEF MatcherTake
  <2>2. CASE MatcherSend(i) BY <2>2 DEF MatcherSend
  <2>3. CASE MatcherMark(i) BY <2>3 DEF MatcherMark, SetPhase
  <2>4. CASE MatcherCrash(i) BY <2>4 DEF MatcherCrash, SetPhase
  <2>5. CASE MatcherFails(i) BY <2>5 DEF MatcherFails
  <2> QED BY <1>matcher, <2>1, <2>2, <2>3, <2>4, <2>5
<1>report. ASSUME NEW e \in Event, CollectorReports(e) \/ VisionReports(e) \/ EvidenceReports(e)
           PROVE DedupInv'
    BY <1>report DEF Publish, CollectorReports, VisionReports, EvidenceReports
<1>crash. CASE Crash BY <1>crash DEF Crash
<1>stutter. CASE UNCHANGED vars BY <1>stutter DEF vars
<1> QED BY <1>start, <1>startFails, <1>deliver, <1>task, <1>fault, <1>requeue,
           <1>call, <1>matcher, <1>report, <1>crash, <1>stutter DEF Next

\* However often a message is delivered, at most one task works on it: the
\* cache and the primary key of phase_events let no second one past.
THEOREM NoConcurrentDuplicateHolds == Spec => []NoConcurrentDuplicate
<1>1. Init => DedupInv
    BY DEF Init, DedupInv, NoConcurrentDuplicate, Working
<1>2. TypeOK /\ DedupInv /\ [Next]_vars => DedupInv'
    BY DedupStep
<1>3. DedupInv => NoConcurrentDuplicate
    BY DEF DedupInv
<1> QED BY <1>1, <1>2, <1>3, TypeCorrect, PTL DEF Spec

-----------------------------------------------------------------------------
(***************************************************************************)
(* The machine implements the ledger of JobLedger, and a cancelled job     *)
(* stays closed.  The argument counts.  A task that may still ask for      *)
(* matching has stored an event of its own, so match requests and such     *)
(* tasks together never outnumber the stored events; and the task that     *)
(* moved the job out of collection leaves one event over.  Completions are *)
(* counted alike, against the stored evidence.                             *)
(***************************************************************************)

\* Where the ledger can change

\* Nothing is booked: no task becomes able to ask or to complete, and matching
\* comes no nearer.
Frugal ==
    /\ UNCHANGED <<stored, Requested, completions>>
    /\ Owing' \subseteq Owing /\ Closing' \subseteq Closing
    /\ PastCollection' => PastCollection

\* Steps that touch the ledger.
Booking ==
    \/ \E h \in Handlers : Store(h) \/ ToFeatures(h) \/ Request(h) \/ Announce(h)
    \/ \E r \in Requests : WipeRows(r) \/ WipeEvents(r)

\* Every other step leaves the ledger alone, and the sign of a deletion too.
LEMMA FrugalSteps ==
    TypeOK /\ [Next]_vars => Booking \/ (Frugal /\ wiped' = wiped)
<1> SUFFICES ASSUME TypeOK, [Next]_vars, ~Booking PROVE Frugal /\ wiped' = wiped
    OBVIOUS
<1>types. /\ pc \in [Handlers -> TaskPcs] /\ ev \in [Handlers -> Event \cup {NoEvent}]
          /\ mreq \in [MatchIds -> {"none", "queued", "running", "sent", "again", "done"}]
    BY DEF TypeOK
<1> USE <1>types DEF Frugal, Owing, Closing, Requested, PastCollection, AfterStore,
        AfterCollect, AfterFeatures, Finishing, TaskPcs,
        dbVars, taskVars, apiVars, envVars, boundVars
<1>start. CASE StartJob BY <1>start DEF StartJob
<1>startFails. CASE StartJobFails BY <1>startFails DEF StartJobFails, Fault
<1>deliver. ASSUME NEW h \in Handlers, NEW e \in queue, Deliver(h, e)
            PROVE Frugal /\ wiped' = wiped
    BY <1>deliver DEF Deliver
<1>task. ASSUME NEW h \in Handlers, TaskStep(h) PROVE Frugal /\ wiped' = wiped
  <2> USE DEF Goto, Finish
  <2>1. CASE Ingest(h) BY <2>1 DEF Ingest
  <2>2. CASE Check(h) BY <2>2, BranchFacts DEF Check
  <2>3. CASE Collect(h) BY <2>3 DEF Collect, Cross
  <2>4. CASE Assets(h) BY <2>4 DEF Assets
  <2>5. CASE Features(h) BY <2>5 DEF Features, Cross
  <2>6. CASE ToMatching(h) BY <2>6 DEF ToMatching, SetPhase
  <2>7. CASE ToEvidence(h) BY <2>7 DEF ToEvidence, SetPhase, Cross
  <2>8. CASE ViaEvidence(h) BY <2>8 DEF ViaEvidence, SetPhase
  <2>9. CASE ToCompleted(h) BY <2>9 DEF ToCompleted, SetPhase
  <2>10. CASE Ack(h) BY <2>10 DEF Ack
  <2> QED BY <1>task, <2>1, <2>2, <2>3, <2>4, <2>5, <2>6, <2>7, <2>8, <2>9, <2>10
          DEF TaskStep, Booking
<1>fault. ASSUME NEW h \in Handlers, TaskFault(h) PROVE Frugal /\ wiped' = wiped
  <2> USE DEF Goto, Finish, Fault
  <2>1. CASE IngestFails(h) BY <2>1 DEF IngestFails
  <2>2. CASE StoreFails(h) BY <2>2 DEF StoreFails
  <2>3. CASE CheckFails(h) BY <2>3, BranchFacts DEF CheckFails
  <2>4. CASE AssetsFails(h) BY <2>4 DEF AssetsFails
  <2>5. CASE BranchFails(h) BY <2>5 DEF BranchFails, Cross
  <2> QED BY <1>fault, <2>1, <2>2, <2>3, <2>4, <2>5 DEF TaskFault
<1>requeue. ASSUME NEW h \in Handlers, Requeue(h) PROVE Frugal /\ wiped' = wiped
    BY <1>requeue DEF Requeue
<1>call. ASSUME NEW r \in Requests, StartCall(r) \/ CallStep(r) \/ CallFails(r)
         PROVE Frugal /\ wiped' = wiped
  <2> USE DEF CallTo, Fault
  <2>1. CASE StartCall(r) BY <2>1 DEF StartCall
  <2>2. CASE Cancel(r) BY <2>2 DEF Cancel
  <2>3. CASE Mark(r) BY <2>3 DEF Mark, SetPhase
  <2>4. CASE Delete(r) BY <2>4 DEF Delete
  <2>5. CASE MarkDeleted(r) BY <2>5 DEF MarkDeleted
  <2>6. CASE CallFails(r) BY <2>6 DEF CallFails
  <2> QED BY <1>call, <2>1, <2>2, <2>3, <2>4, <2>5, <2>6 DEF CallStep, Booking
<1>matcher. ASSUME NEW i \in MatchIds, \/ MatcherTake(i) \/ MatcherSend(i) \/ MatcherMark(i)
                                       \/ MatcherCrash(i) \/ MatcherFails(i)
            PROVE Frugal /\ wiped' = wiped
  <2> USE DEF Fault
  <2>1. CASE MatcherTake(i) BY <2>1 DEF MatcherTake
  <2>2. CASE MatcherSend(i) BY <2>2 DEF MatcherSend
  <2>3. CASE MatcherMark(i) BY <2>3 DEF MatcherMark, SetPhase
  <2>4. CASE MatcherCrash(i) BY <2>4 DEF MatcherCrash, SetPhase
  <2>5. CASE MatcherFails(i) BY <2>5 DEF MatcherFails
  <2> QED BY <1>matcher, <2>1, <2>2, <2>3, <2>4, <2>5
<1>report. ASSUME NEW e \in Event, CollectorReports(e) \/ VisionReports(e) \/ EvidenceReports(e)
           PROVE Frugal /\ wiped' = wiped
    BY <1>report DEF Publish, CollectorReports, VisionReports, EvidenceReports
<1>crash. CASE Crash BY <1>crash DEF Crash
<1>stutter. CASE UNCHANGED vars BY <1>stutter DEF vars
<1> QED BY <1>start, <1>startFails, <1>deliver, <1>task, <1>fault, <1>requeue,
           <1>call, <1>matcher, <1>report, <1>crash, <1>stutter DEF Next

\* A task that stores a new event owes at most that event.
LEMMA StoreBooks ==
    ASSUME NEW h \in Handlers, TypeOK, Store(h)
    PROVE  /\ UNCHANGED <<Requested, completions, wiped>>
           /\ PastCollection' => PastCollection
           /\ \/ stored' = stored /\ Owing' \subseteq Owing /\ Closing' \subseteq Closing
              \/ /\ ev[h] \in Event \ stored /\ stored' = stored \cup {ev[h]}
                 /\ Owing' \subseteq Owing \cup {h}
                 /\ \/ Closing' \subseteq Closing
                    \/ ev[h].name = EvidenceDone /\ Closing' \subseteq Closing \cup {h}
<1> USE DEF TypeOK, Store, Goto, Finish, Owing, Closing, Requested, PastCollection, AfterStore,
        AfterCollect, AfterFeatures, Finishing, dbVars, apiVars, envVars, boundVars
<1>1. CASE ev[h] \in stored
    BY <1>1
<1>2. CASE ev[h] \notin stored
  <2>1. UNCHANGED <<Requested, completions, wiped>> /\ (PastCollection' => PastCollection)
      BY <1>2
  <2>2. ev[h] \in Event /\ stored' = stored \cup {ev[h]}
      BY <1>2
  <2>3. Owing' \subseteq Owing \cup {h}
      BY <1>2
  <2>4. CASE ev[h].name = EvidenceDone
    <3>1. Closing' \subseteq Closing \cup {h}
        BY <1>2
    <3> QED BY <1>2, <2>1, <2>2, <2>3, <2>4, <3>1
  <2>5. CASE ev[h].name # EvidenceDone
    <3>1. Closing' \subseteq Closing
        BY <1>2, <2>5
    <3> QED BY <1>2, <2>1, <2>2, <2>3, <3>1
  <2> QED BY <2>4, <2>5
<1> QED BY <1>1, <1>2

\* The task that opens feature extraction will not ask for matching.
LEMMA ToFeaturesBooks ==
    ASSUME NEW h \in Handlers, TypeOK, ToFeatures(h)
    PROVE  /\ UNCHANGED <<stored, Requested, completions, wiped>>
           /\ h \in Owing /\ Owing' \subseteq Owing \ {h} /\ Closing' \subseteq Closing
BY DEF TypeOK, ToFeatures, SetPhase, Cross, Goto, Finish, Owing, Closing, Requested, AfterStore,
       AfterCollect, AfterFeatures, Finishing, apiVars, envVars, boundVars

\* The task that asks for matching owes its event, and the collection is past.
LEMMA RequestBooks ==
    ASSUME NEW h \in Handlers, TypeOK, Request(h)
    PROVE  /\ UNCHANGED <<stored, completions, wiped>>
           /\ PastCollection
           /\ h \in Owing /\ Owing' \subseteq Owing \ {h} /\ Closing' \subseteq Closing
           /\ \/ Requested' = Requested
              \/ \E i \in MatchIds : i \notin Requested /\ Requested' = Requested \cup {i}
<1> USE DEF TypeOK, Request, Cross, Goto, Finish, Owing, Closing, PastCollection, AfterStore,
       AfterCollect, AfterFeatures, Finishing, dbVars, apiVars, envVars, boundVars
<1>1. /\ UNCHANGED <<stored, completions, wiped>>
      /\ PastCollection
      /\ h \in Owing /\ Owing' \subseteq Owing \ {h} /\ Closing' \subseteq Closing
    OBVIOUS
<1>2. \/ Requested' = Requested
      \/ \E i \in MatchIds : i \notin Requested /\ Requested' = Requested \cup {i}
  <2>1. CASE UNCHANGED mreq
      BY <2>1 DEF Requested
  <2>2. ASSUME NEW i \in MatchIds, mreq[i] = "none", mreq' = [mreq EXCEPT ![i] = "queued"]
        PROVE  i \notin Requested /\ Requested' = Requested \cup {i}
      BY <2>2 DEF Requested
  <2> QED BY <2>1, <2>2
<1> QED BY <1>1, <1>2

\* The task that announces the completion was one of those that might.
LEMMA AnnounceBooks ==
    ASSUME NEW h \in Handlers, TypeOK, StoredInv, Announce(h)
    PROVE  /\ UNCHANGED <<stored, Requested, wiped>>
           /\ PastCollection' => PastCollection
           /\ Owing' \subseteq Owing
           /\ completions' = completions + 1
           /\ Closing' \subseteq Closing \ {h}
           /\ ~wiped => ev[h].name = EvidenceDone /\ h \in Closing
BY DEF TypeOK, StoredInv, Announce, Finish, Owing, Closing, Requested, PastCollection, AfterStore,
       AfterCollect, AfterFeatures, Finishing, dbVars, apiVars, envVars, boundVars

\* A deletion takes events away, and says so before it does.
LEMMA WipeBooks ==
    ASSUME NEW r \in Requests, TypeOK, SourceInv, WipeRows(r) \/ WipeEvents(r)
    PROVE  /\ UNCHANGED <<Requested, completions, Owing, Closing>>
           /\ wiped' = TRUE /\ stored' \in {stored, {}}
BY DEF TypeOK, SourceInv, WipeRows, WipeEvents, CallTo, Owing, Closing, Requested, taskVars,
       envVars, boundVars

-----------------------------------------------------------------------------
\* Counting

\* What a set loses or gains in size when an element goes or comes.
LEMMA Shrinks ==
    ASSUME NEW S, NEW x \in S, NEW T, IsFiniteSet(S), T \subseteq S \ {x}
    PROVE  IsFiniteSet(T) /\ Cardinality(T) + 1 <= Cardinality(S)
<1>1. IsFiniteSet(S \ {x}) /\ Cardinality(S \ {x}) = Cardinality(S) - 1
    BY FS_RemoveElement
<1>2. IsFiniteSet(T) /\ Cardinality(T) <= Cardinality(S \ {x})
    BY <1>1, FS_Subset
<1>3. Cardinality(S) \in Nat /\ Cardinality(T) \in Nat
    BY <1>2, FS_CardinalityType
<1> QED BY <1>1, <1>2, <1>3

LEMMA Grows ==
    ASSUME NEW S, NEW x, NEW T, IsFiniteSet(S), T \subseteq S \cup {x}
    PROVE  IsFiniteSet(T) /\ Cardinality(T) <= Cardinality(S) + 1
<1>1. IsFiniteSet(S \cup {x}) /\ Cardinality(S \cup {x}) \in {Cardinality(S), Cardinality(S) + 1}
    BY FS_AddElement
<1>2. IsFiniteSet(T) /\ Cardinality(T) <= Cardinality(S \cup {x})
    BY <1>1, FS_Subset
<1>3. Cardinality(S) \in Nat /\ Cardinality(T) \in Nat
    BY <1>2, FS_CardinalityType
<1> QED BY <1>1, <1>2, <1>3

\* Only MaxRequests match requests are followed.
LEMMA RequestedFinite == IsFiniteSet(Requested) /\ Cardinality(Requested) \in Nat
<1>1. IsFiniteSet(MatchIds)
    BY BoundsAssumption, FS_Interval DEF MatchIds
<1>2. Requested \subseteq MatchIds
    BY DEF Requested
<1>3. IsFiniteSet(Requested)
    BY <1>1, <1>2, FS_Subset
<1> QED BY <1>3, FS_CardinalityType

\* The stored evidence is finite, and grows with an evidence event.
LEMMA EvidenceFinite ==
    IsFiniteSet(stored) => IsFiniteSet(StoredEvidence) /\ Cardinality(StoredEvidence) \in Nat
<1> SUFFICES ASSUME IsFiniteSet(stored)
             PROVE  IsFiniteSet(StoredEvidence) /\ Cardinality(StoredEvidence) \in Nat
    OBVIOUS
<1>1. StoredEvidence \subseteq stored
    BY DEF StoredEvidence
<1>2. IsFiniteSet(StoredEvidence)
    BY <1>1, FS_Subset
<1> QED BY <1>2, FS_CardinalityType

-----------------------------------------------------------------------------
\* The ledger is never overdrawn

\* Every step keeps the counts: requests and tasks that may ask stay within
\* the stored events, completions and tasks that may complete within the
\* stored evidence.
LEMMA LedgerStep ==
    TypeOK /\ SourceInv /\ StoredInv /\ LedgerInv /\ [Next]_vars => LedgerInv'
<1> SUFFICES ASSUME TypeOK, SourceInv, StoredInv, LedgerInv, [Next]_vars PROVE LedgerInv'
    OBVIOUS
<1>finite. IsFiniteSet(stored) /\ IsFiniteSet(Owing) /\ IsFiniteSet(Closing)
    BY DEF LedgerInv
<1>sizes. /\ Cardinality(stored) \in Nat /\ Cardinality(Owing) \in Nat
          /\ Cardinality(Closing) \in Nat /\ Cardinality(Requested) \in Nat
          /\ Cardinality(StoredEvidence) \in Nat /\ completions \in Nat
    BY <1>finite, FS_CardinalityType, RequestedFinite, EvidenceFinite DEF TypeOK
<1>evidence. stored' = stored => StoredEvidence' = StoredEvidence
    BY DEF StoredEvidence
<1>1. CASE Frugal /\ wiped' = wiped
  <2>1. IsFiniteSet(Owing') /\ Cardinality(Owing') <= Cardinality(Owing)
      BY <1>1, <1>finite, FS_Subset DEF Frugal
  <2>2. IsFiniteSet(Closing') /\ Cardinality(Closing') <= Cardinality(Closing)
      BY <1>1, <1>finite, FS_Subset DEF Frugal
  <2>3. Cardinality(Owing') \in Nat /\ Cardinality(Closing') \in Nat
      BY <2>1, <2>2, FS_CardinalityType
  <2> QED BY <1>1, <1>finite, <1>sizes, <1>evidence, <2>1, <2>2, <2>3 DEF Frugal, LedgerInv
<1>2. ASSUME NEW h \in Handlers, Store(h) PROVE LedgerInv'
  <2>books. /\ UNCHANGED <<Requested, completions, wiped>>
            /\ PastCollection' => PastCollection
      BY <1>2, StoreBooks
  <2>1. CASE stored' = stored /\ Owing' \subseteq Owing /\ Closing' \subseteq Closing
    <3>1. IsFiniteSet(Owing') /\ Cardinality(Owing') <= Cardinality(Owing)
        BY <2>1, <1>finite, FS_Subset
    <3>2. IsFiniteSet(Closing') /\ Cardinality(Closing') <= Cardinality(Closing)
        BY <2>1, <1>finite, FS_Subset
    <3>3. Cardinality(Owing') \in Nat /\ Cardinality(Closing') \in Nat
        BY <3>1, <3>2, FS_CardinalityType
    <3> QED BY <2>1, <2>books, <1>finite, <1>sizes, <1>evidence, <3>1, <3>2, <3>3 DEF LedgerInv
  <2>2. CASE /\ ev[h] \notin stored /\ stored' = stored \cup {ev[h]}
             /\ Owing' \subseteq Owing \cup {h}
             /\ \/ Closing' \subseteq Closing
                \/ ev[h].name = EvidenceDone /\ Closing' \subseteq Closing \cup {h}
    <3>1. IsFiniteSet(stored') /\ Cardinality(stored') = Cardinality(stored) + 1
        BY <2>2, <1>finite, FS_AddElement
    <3>2. IsFiniteSet(Owing') /\ Cardinality(Owing') <= Cardinality(Owing) + 1
        BY <2>2, <1>finite, Grows
    <3>3. Cardinality(Owing') \in Nat
        BY <3>2, FS_CardinalityType
    <3>4. /\ IsFiniteSet(Closing')
          /\ Cardinality(Closing') + Cardinality(StoredEvidence)
                <= Cardinality(Closing) + Cardinality(StoredEvidence')
      <4>1. CASE ev[h].name = EvidenceDone
        <5>1. StoredEvidence' = StoredEvidence \cup {ev[h]} /\ ev[h] \notin StoredEvidence
            BY <2>2, <4>1 DEF StoredEvidence
        <5>2. Cardinality(StoredEvidence') = Cardinality(StoredEvidence) + 1
            BY <5>1, <1>finite, EvidenceFinite, FS_AddElement
        <5>3. Closing' \subseteq Closing \cup {h}
            BY <2>2
        <5>4. IsFiniteSet(Closing') /\ Cardinality(Closing') <= Cardinality(Closing) + 1
            BY <5>3, <1>finite, Grows
        <5>5. Cardinality(Closing') \in Nat
            BY <5>4, FS_CardinalityType
        <5> QED BY <5>2, <5>4, <5>5, <1>sizes
      <4>2. CASE ev[h].name # EvidenceDone
        <5>1. StoredEvidence' = StoredEvidence
            BY <2>2, <4>2 DEF StoredEvidence
        <5>2. Closing' \subseteq Closing
            BY <2>2, <4>2
        <5>3. IsFiniteSet(Closing') /\ Cardinality(Closing') <= Cardinality(Closing)
            BY <5>2, <1>finite, FS_Subset
        <5>4. Cardinality(Closing') \in Nat
            BY <5>3, FS_CardinalityType
        <5> QED BY <5>1, <5>3, <5>4, <1>sizes
      <4> QED BY <4>1, <4>2
    <3>5. Cardinality(Closing') \in Nat
        BY <3>4, FS_CardinalityType
    <3>6. Cardinality(StoredEvidence') \in Nat
      <4>1. StoredEvidence' \subseteq stored'
          BY DEF StoredEvidence
      <4> QED BY <4>1, <3>1, FS_Subset, FS_CardinalityType
    <3>7. ~wiped' =>
            /\ Cardinality(Requested') + Cardinality(Owing') <= Cardinality(stored')
            /\ PastCollection' =>
                  Cardinality(Requested') + Cardinality(Owing') < Cardinality(stored')
        BY <2>books, <1>sizes, <3>1, <3>2, <3>3 DEF LedgerInv
    <3>8. ~wiped' => completions' + Cardinality(Closing') <= Cardinality(StoredEvidence')
        BY <2>books, <1>sizes, <3>4, <3>5, <3>6 DEF LedgerInv
    <3> QED BY <3>1, <3>2, <3>4, <3>7, <3>8 DEF LedgerInv
  <2> QED BY <1>2, <2>1, <2>2, StoreBooks
<1>3. ASSUME NEW h \in Handlers, ToFeatures(h) PROVE LedgerInv'
  <2>books. /\ UNCHANGED <<stored, Requested, completions, wiped>>
            /\ h \in Owing /\ Owing' \subseteq Owing \ {h} /\ Closing' \subseteq Closing
      BY <1>3, ToFeaturesBooks
  <2>1. IsFiniteSet(Owing') /\ Cardinality(Owing') + 1 <= Cardinality(Owing)
      BY <2>books, <1>finite, Shrinks
  <2>2. IsFiniteSet(Closing') /\ Cardinality(Closing') <= Cardinality(Closing)
      BY <2>books, <1>finite, FS_Subset
  <2>3. Cardinality(Owing') \in Nat /\ Cardinality(Closing') \in Nat
      BY <2>1, <2>2, FS_CardinalityType
  <2> QED BY <2>books, <1>finite, <1>sizes, <1>evidence, <2>1, <2>2, <2>3 DEF LedgerInv
<1>4. ASSUME NEW h \in Handlers, Request(h) PROVE LedgerInv'
  <2>books. /\ UNCHANGED <<stored, completions, wiped>> /\ PastCollection
            /\ h \in Owing /\ Owing' \subseteq Owing \ {h} /\ Closing' \subseteq Closing
      BY <1>4, RequestBooks
  <2>1. IsFiniteSet(Owing') /\ Cardinality(Owing') + 1 <= Cardinality(Owing)
      BY <2>books, <1>finite, Shrinks
  <2>2. IsFiniteSet(Closing') /\ Cardinality(Closing') <= Cardinality(Closing)
      BY <2>books, <1>finite, FS_Subset
  <2>3. Cardinality(Owing') \in Nat /\ Cardinality(Closing') \in Nat
      BY <2>1, <2>2, FS_CardinalityType
  <2>4. Cardinality(Requested') \in Nat /\ Cardinality(Requested') <= Cardinality(Requested) + 1
    <3>1. CASE Requested' = Requested
        BY <3>1, <1>sizes
    <3>2. ASSUME NEW i \in MatchIds, i \notin Requested, Requested' = Requested \cup {i}
          PROVE  Cardinality(Requested') = Cardinality(Requested) + 1
        BY <3>2, RequestedFinite, FS_AddElement
    <3> QED BY <1>4, <1>sizes, <3>1, <3>2, RequestBooks
  <2> QED BY <2>books, <1>finite, <1>sizes, <1>evidence, <2>1, <2>2, <2>3, <2>4 DEF LedgerInv
<1>5. ASSUME NEW h \in Handlers, Announce(h) PROVE LedgerInv'
  <2>books. /\ UNCHANGED <<stored, Requested, wiped>>
            /\ PastCollection' => PastCollection
            /\ Owing' \subseteq Owing /\ completions' = completions + 1
            /\ Closing' \subseteq Closing \ {h}
            /\ ~wiped => h \in Closing
      BY <1>5, AnnounceBooks
  <2>1. IsFiniteSet(Owing') /\ Cardinality(Owing') <= Cardinality(Owing)
      BY <2>books, <1>finite, FS_Subset
  <2>2. IsFiniteSet(Closing')
      BY <2>books, <1>finite, FS_Subset
  <2>3. ~wiped => Cardinality(Closing') + 1 <= Cardinality(Closing)
      BY <2>books, <1>finite, Shrinks
  <2>4. Cardinality(Owing') \in Nat /\ Cardinality(Closing') \in Nat
      BY <2>1, <2>2, FS_CardinalityType
  <2> QED BY <2>books, <1>finite, <1>sizes, <1>evidence, <2>1, <2>2, <2>3, <2>4 DEF LedgerInv
<1>6. ASSUME NEW r \in Requests, WipeRows(r) \/ WipeEvents(r) PROVE LedgerInv'
    BY <1>6, <1>finite, WipeBooks, FS_EmptySet DEF LedgerInv
<1> QED BY <1>1, <1>2, <1>3, <1>4, <1>5, <1>6, FrugalSteps DEF Booking

\* Nothing has been asked for and no task runs at the start.
LEMMA LedgerInvInit == Init => LedgerInv
<1> SUFFICES ASSUME Init PROVE LedgerInv
    OBVIOUS
<1>1. stored = {} /\ Owing = {} /\ Closing = {} /\ Requested = {} /\ StoredEvidence = {}
    BY DEF Init, Owing, Closing, Requested, StoredEvidence, AfterStore, AfterCollect,
           AfterFeatures, Finishing
<1>2. ~PastCollection
    BY <1>1 DEF Init, PastCollection
<1> QED BY <1>1, <1>2, FS_EmptySet DEF LedgerInv, Init

\* The job's books balance in every state, whatever interleaves, fails, is
\* redelivered or restarts.
THEOREM LedgerBalanced == Spec => []LedgerInv
<1>1. Init => LedgerInv
    BY LedgerInvInit
<1>2. BarrierInv => TypeOK /\ SourceInv /\ StoredInv
    BY DEF BarrierInv
<1>3. TypeOK /\ SourceInv /\ StoredInv /\ LedgerInv /\ [Next]_vars => LedgerInv'
    BY LedgerStep
<1> QED BY <1>1, <1>2, <1>3, BarrierInvariant, PTL DEF Spec

\* Redeliveries and restarts add no matching: each match request is owed to an
\* event of its own, and one event is owed none.
THEOREM RequestPerEventHolds == Spec => []RequestPerEvent
<1>1. TypeOK /\ LedgerInv => RequestPerEvent
  <2> SUFFICES ASSUME LedgerInv, Requested # {}, ~wiped
               PROVE  Cardinality(Requested) < Cardinality(stored)
      BY DEF RequestPerEvent, Requested
  <2>1. Cardinality(Requested) + Cardinality(Owing) < Cardinality(stored)
      BY DEF LedgerInv, PastCollection
  <2>2. /\ Cardinality(Requested) \in Nat /\ Cardinality(Owing) \in Nat
        /\ Cardinality(stored) \in Nat
      BY RequestedFinite, FS_CardinalityType DEF LedgerInv
  <2> QED BY <2>1, <2>2
<1> QED BY <1>1, TypeCorrect, LedgerBalanced, PTL

\* However often the evidence event is delivered, each completion has an
\* evidence event of its own.
THEOREM CompletedOncePerEvidenceHolds == Spec => []CompletedOncePerEvidence
<1>1. TypeOK /\ LedgerInv => CompletedOncePerEvidence
  <2> SUFFICES ASSUME TypeOK, LedgerInv, ~wiped
               PROVE  completions <= Cardinality(StoredEvidence)
      BY DEF CompletedOncePerEvidence, StoredEvidence
  <2>1. /\ completions \in Nat /\ Cardinality(Closing) \in Nat
        /\ Cardinality(StoredEvidence) \in Nat
      BY EvidenceFinite, FS_CardinalityType DEF TypeOK, LedgerInv
  <2> QED BY <2>1 DEF LedgerInv
<1> QED BY <1>1, TypeCorrect, LedgerBalanced, PTL

-----------------------------------------------------------------------------
\* The machine implements the ledger

\* JobLedger counts with the same Cardinality.
LEMMA SameCount == \A S : Ledger!Cardinality(S) = Cardinality(S)
BY DEF Ledger!Cardinality, Cardinality

\* Every step books what the ledger allows, or nothing.
LEMMA LedgerSimulation ==
    BarrierInv /\ LedgerInv /\ [Next]_vars => [Ledger!LedgerNext]_(Ledger!ledger)
<1> SUFFICES ASSUME BarrierInv, LedgerInv, [Next]_vars, ~UNCHANGED Ledger!ledger
             PROVE  Ledger!LedgerNext
    OBVIOUS
<1>inv. TypeOK /\ SourceInv /\ StoredInv /\ CollectedInv
    BY DEF BarrierInv
<1>1. CASE Frugal /\ wiped' = wiped
    BY <1>1 DEF Frugal, Ledger!ledger
<1>2. ASSUME NEW h \in Handlers, Store(h) PROVE Ledger!LedgerNext
  <2>1. UNCHANGED <<Requested, completions, wiped>>
      BY <1>inv, <1>2, StoreBooks
  <2>2. ev[h] \in Event /\ stored' = stored \cup {ev[h]}
      BY <1>inv, <1>2, <2>1, StoreBooks DEF Ledger!ledger
  <2>3. Ledger!Report(ev[h])
      BY <2>1, <2>2 DEF Ledger!Report
  <2> QED BY <2>2, <2>3 DEF Ledger!LedgerNext
<1>3. ASSUME NEW h \in Handlers, ToFeatures(h) PROVE Ledger!LedgerNext
    BY <1>inv, <1>3, ToFeaturesBooks DEF Ledger!ledger
<1>4. ASSUME NEW h \in Handlers, Request(h) PROVE Ledger!LedgerNext
  <2>1. UNCHANGED <<stored, completions, wiped>> /\ PastCollection /\ h \in Owing
      BY <1>inv, <1>4, RequestBooks
  <2>2. PICK i \in MatchIds : i \notin Requested /\ Requested' = Requested \cup {i}
      BY <1>inv, <1>4, <2>1, RequestBooks DEF Ledger!ledger
  <2>3. Cardinality(Requested)' = Cardinality(Requested) + 1
      BY <2>2, RequestedFinite, FS_AddElement
  <2>4. ~wiped => Collected
      BY <1>inv, <1>4 DEF CollectedInv, Request, AfterCollect, AfterFeatures
  <2>5. ~wiped => \A c \in CollectionEvents : Ledger!Reported(c) # {}
      BY <2>4 DEF Collected, StoredNames, Ledger!Reported
  <2>6. ~wiped => Cardinality(Requested) + 1 < Cardinality(stored)
    <3>1. /\ Cardinality(Owing) \in Nat /\ Cardinality(stored) \in Nat
          /\ Cardinality(Requested) \in Nat
        BY RequestedFinite, FS_CardinalityType DEF LedgerInv
    <3>2. Cardinality(Owing) # 0
        BY <2>1, FS_EmptySet DEF LedgerInv
    <3> QED BY <2>1, <3>1, <3>2 DEF LedgerInv
  <2>7. Ledger!AskForMatching
      BY <2>1, <2>3, <2>5, <2>6, SameCount DEF Ledger!AskForMatching
  <2> QED BY <2>7 DEF Ledger!LedgerNext
<1>5. ASSUME NEW h \in Handlers, Announce(h) PROVE Ledger!LedgerNext
  <2>1. /\ UNCHANGED <<stored, Requested, wiped>> /\ completions' = completions + 1
        /\ ~wiped => ev[h].name = EvidenceDone /\ h \in Closing
      BY <1>inv, <1>5, AnnounceBooks
  <2>2. ~wiped => Collected
      BY <1>inv, <1>5 DEF CollectedInv, Announce, AfterCollect, AfterFeatures, Finishing
  <2>3. ~wiped => \A c \in CollectionEvents : Ledger!Reported(c) # {}
      BY <2>2 DEF Collected, StoredNames, Ledger!Reported
  <2>4. ~wiped => Cardinality(Requested) > 0
    <3> SUFFICES ASSUME ~wiped PROVE Cardinality(Requested) > 0
        OBVIOUS
    <3>1. Requested # {}
        BY <1>inv, <1>5, <2>1 DEF SourceInv, EmittedNames, Asked, Requested, Announce
    <3> QED BY <3>1, RequestedFinite, FS_EmptySet
  <2>5. ~wiped => completions < Cardinality(Ledger!Reported(EvidenceDone))
    <3> SUFFICES ASSUME ~wiped PROVE completions < Cardinality(StoredEvidence)
        BY DEF Ledger!Reported, StoredEvidence
    <3>1. /\ Cardinality(Closing) \in Nat /\ Cardinality(StoredEvidence) \in Nat
          /\ completions \in Nat
        BY <1>inv, EvidenceFinite, FS_CardinalityType DEF LedgerInv, TypeOK
    <3>2. Cardinality(Closing) # 0
        BY <2>1, FS_EmptySet DEF LedgerInv
    <3> QED BY <3>1, <3>2 DEF LedgerInv
  <2>6. Ledger!Complete
      BY <2>1, <2>3, <2>4, <2>5, SameCount DEF Ledger!Complete
  <2> QED BY <2>6 DEF Ledger!LedgerNext
<1>6. ASSUME NEW r \in Requests, WipeRows(r) \/ WipeEvents(r) PROVE Ledger!LedgerNext
  <2>1. Ledger!Erase
      BY <1>inv, <1>6, WipeBooks DEF Ledger!Erase
  <2> QED BY <2>1 DEF Ledger!LedgerNext
<1> QED BY <1>inv, <1>1, <1>2, <1>3, <1>4, <1>5, <1>6, FrugalSteps DEF Booking

\* The phase machine, with its tasks, caches, restarts and failures, keeps the
\* ledger of the job: matching is asked for only with both collections in and
\* never twice for an event, and no completion is announced without a request
\* and an evidence event of its own.
THEOREM KeepsLedger == Spec => LedgerKept
<1>1. Init => Ledger!LedgerInit
  <2> SUFFICES ASSUME Init PROVE Ledger!LedgerInit
      OBVIOUS
  <2>1. Requested = {}
      BY DEF Init, Requested
  <2> QED BY <2>1, FS_EmptySet DEF Init, Ledger!LedgerInit
<1>2. BarrierInv /\ LedgerInv /\ [Next]_vars => [Ledger!LedgerNext]_(Ledger!ledger)
    BY LedgerSimulation
<1> QED BY <1>1, <1>2, BarrierInvariant, LedgerBalanced, PTL
        DEF Spec, LedgerKept, Ledger!LedgerSpec

-----------------------------------------------------------------------------
\* Cancellation

\* Once a job is cancelled and the work in flight has drained, no message,
\* redelivery, restart or call starts anything or takes it out of cancelled.
THEOREM CancelSealedHolds == Spec => CancelSealed
<1>1. TypeOK /\ [Next]_vars =>
        [phase = "cancelled" /\ Quiet /\ faults' = faults => phase' = "cancelled" /\ Quiet']_vars
  <2> SUFFICES ASSUME TypeOK, Next, phase = "cancelled", Quiet, faults' = faults
               PROVE  phase' = "cancelled" /\ Quiet'
      OBVIOUS
  <2> USE DEF TypeOK, Quiet, dbVars, taskVars, apiVars, envVars, boundVars
  <2>noFault. ~Fault
      BY DEF Fault
  <2>1. ~StartJob /\ ~StartJobFails
      BY DEF StartJob, StartJobFails
  <2>2. ASSUME NEW h \in Handlers,
               TaskStep(h) \/ TaskFault(h) \/ Requeue(h) \/ \E e \in queue : Deliver(h, e)
        PROVE  phase' = "cancelled" /\ Quiet'
    <3>1. Ingest(h) \/ Ack(h) \/ Requeue(h) \/ \E e \in queue : Deliver(h, e)
        BY <2>2, <2>noFault DEF TaskStep, TaskFault, Store, Check, Collect, ToFeatures, Assets,
              Features, ToMatching, Request, ToEvidence, ViaEvidence, ToCompleted, Announce,
              IngestFails, StoreFails, CheckFails, AssetsFails, BranchFails
    <3> QED BY <3>1 DEF Ingest, Ack, Requeue, Deliver, Finish
  <2>3. ASSUME NEW r \in Requests, StartCall(r) \/ CallStep(r) \/ CallFails(r)
        PROVE  phase' = "cancelled" /\ Quiet'
      BY <2>3, <2>noFault DEF StartCall, CallStep, CallFails, Cancel, Mark, SetPhase, Delete,
            WipeRows, WipeEvents, MarkDeleted
  <2>4. \A i \in MatchIds : /\ ~MatcherTake(i) /\ ~MatcherSend(i) /\ ~MatcherMark(i)
                             /\ ~MatcherCrash(i) /\ ~MatcherFails(i)
      BY DEF MatcherTake, MatcherSend, MatcherMark, MatcherCrash, MatcherFails
  <2>5. ASSUME NEW e \in Event, CollectorReports(e) \/ VisionReports(e) \/ EvidenceReports(e)
        PROVE  phase' = "cancelled" /\ Quiet'
      BY <2>5 DEF CollectorReports, VisionReports, EvidenceReports, Publish
  <2>6. CASE Crash
      BY <2>6 DEF Crash
  <2> QED BY <2>1, <2>2, <2>3, <2>4, <2>5, <2>6 DEF Next
<1> QED BY <1>1, TypeCorrect, PTL DEF Spec, CancelSealed
=============================================================================
