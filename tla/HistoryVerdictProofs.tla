------------------------ MODULE HistoryVerdictProofs ------------------------
(***************************************************************************)
(* What the verdict of a harvesting says of its history, whatever fails.   *)
(***************************************************************************)
EXTENDS HistoryProofs, HistoryRefinement

SoundInv == HistoryInv /\ VerdictInv

\* A task writes nothing about the harvesting of another task.
LEMMA OthersKeepVerdict ==
    ASSUME TypeOK, NEW h \in Harvestings, TaskStep(h), NEW g \in Harvestings, g # h
    PROVE  /\ dbState'[g] = dbState[g]
           /\ errors'[g] = errors[g]
           /\ dropped'[g] = dropped[g]
<1> USE DEF TypeOK, DoneWith, verdict, task
<1>1. CASE Launch(h) \/ Step(h)
  BY <1>1 DEF Launch, Step, ReadBaseline, FetchResult, IgnoreResult, StoreVersion,
     KeepVersion, RecordEvent, RecordDeletion, EndOfResults, Complete, NotifyCompletion,
     MarkFailed, RecordError
<1>2. CASE Fault(h)
  BY <1>2 DEF Fault, ConversionFails, ResultLost, EndpointFails, DatabaseFails
<1>3. QED
  BY <1>1, <1>2 DEF TaskStep

\* The state column agrees with what a task does next.
LEMMA StateFollowsTaskStep ==
    ASSUME HistoryInv, StateFollowsTask, NEW h \in Harvestings, TaskStep(h)
    PROVE  StateFollowsTask'
<1> SUFFICES ASSUME NEW g \in Harvestings
             PROVE  /\ pc'[g] = "notifying" => dbState'[g] = "completed"
                    /\ pc'[g] = "reporting" => dbState'[g] = "failed"
                    /\ dbState'[g] = "completed" => PastResults(g)' /\ pc'[g] # "deleting"
  BY DEF StateFollowsTask
<1>1. CASE g # h
  BY <1>1, OthersStay, OthersKeepVerdict DEF HistoryInv, StateFollowsTask, PastResults, TaskStep
<1>2. CASE g = h
  <2> USE <1>2 DEF HistoryInv, TypeOK, StateFollowsTask, PastResults, Goto, DoneWith, Raise,
      verdict, task
  <2>1. CASE Launch(h) \/ Step(h)
    BY <2>1 DEF Launch, Step, ReadBaseline, FetchResult, IgnoreResult, StoreVersion,
       KeepVersion, RecordEvent, RecordDeletion, EndOfResults, Complete, NotifyCompletion,
       MarkFailed, RecordError
  <2>2. CASE Fault(h)
    BY <2>2 DEF Fault, ConversionFails, ResultLost, EndpointFails, DatabaseFails
  <2>3. QED
    BY <2>1, <2>2 DEF TaskStep
<1>3. QED
  BY <1>1, <1>2

\* A task that returns has left a verdict.
LEMMA VerdictIsExplainedStep ==
    ASSUME HistoryInv, StateFollowsTask, VerdictIsExplained, NEW h \in Harvestings, TaskStep(h)
    PROVE  VerdictIsExplained'
<1> SUFFICES ASSUME NEW g \in Harvestings, pc'[g] = "ended"
             PROVE  dbState'[g] = "completed" \/ (dbState'[g] = "failed" /\ errors'[g])
  BY DEF VerdictIsExplained
<1>1. CASE g # h
  BY <1>1, OthersStay, OthersKeepVerdict DEF HistoryInv, VerdictIsExplained, TaskStep
<1>2. CASE g = h
  <2>1. NotifyCompletion(h) \/ RecordError(h)
    BY <1>2 DEF TaskStep, Launch, Step, Fault, ReadBaseline, FetchResult, IgnoreResult,
       StoreVersion, KeepVersion, RecordEvent, EndOfResults, RecordDeletion, Complete,
       MarkFailed, ConversionFails, ResultLost, EndpointFails, DatabaseFails, HistoryInv,
       TypeOK, Goto, DoneWith, Raise
  <2>2. CASE NotifyCompletion(h)
    BY <1>2, <2>2 DEF NotifyCompletion, verdict, StateFollowsTask
  <2>3. CASE RecordError(h)
    BY <1>2, <2>3 DEF RecordError, StateFollowsTask, HistoryInv, TypeOK
  <2>4. QED
    BY <2>1, <2>2, <2>3
<1>3. QED
  BY <1>1, <1>2

\* Once aborted, a run stays so.
LEMMA AbortedStays ==
    ASSUME HistoryInv, NEW h \in Harvestings, TaskStep(h), NEW g \in Harvestings, Aborted(g)
    PROVE  Aborted(g)'
<1>1. CASE g # h
  BY <1>1, OthersStay, OthersKeepVerdict DEF HistoryInv, Aborted, TaskStep
<1>2. CASE g = h
  BY <1>2 DEF TaskStep, Launch, Step, Fault, ReadBaseline, FetchResult, IgnoreResult,
     StoreVersion, KeepVersion, RecordEvent, EndOfResults, RecordDeletion, Complete,
     NotifyCompletion, MarkFailed, RecordError, ConversionFails, ResultLost, EndpointFails,
     DatabaseFails, HistoryInv, TypeOK, Goto, DoneWith, Raise, Aborted, verdict
<1>3. QED
  BY <1>1, <1>2

\* A task leaves the recording of an event by recording it or by aborting.
LEMMA RecordingEnds ==
    ASSUME HistoryInv, StateFollowsTask, NEW h \in Harvestings, TaskStep(h),
           pc[h] = "recording"
    PROVE  RecordEvent(h) \/ Aborted(h)'
<1>1. RecordEvent(h) \/ DatabaseFails(h)
  BY DEF TaskStep, Launch, Step, Fault, ReadBaseline, FetchResult, IgnoreResult,
     StoreVersion, KeepVersion, EndOfResults, RecordDeletion, Complete, NotifyCompletion,
     MarkFailed, RecordError, ConversionFails, ResultLost, EndpointFails, DatabaseFails
<1>2. dbState[h] # "completed"
  BY DEF StateFollowsTask, PastResults
<1>3. QED
  BY <1>1, <1>2
  DEF DatabaseFails, Raise, Goto, Aborted, HistoryInv, TypeOK, verdict

\* The version stored by a step is the one whose event comes next; the others keep
\* their event, wait for it, or never get one.
LEMMA VersionsAreReportedStep ==
    ASSUME HistoryInv, StateFollowsTask, VersionsAreReported,
           NEW h \in Harvestings, TaskStep(h)
    PROVE  VersionsAreReported'
<1>1. ASSUME NEW i \in RowIds, NEW g \in Harvestings, references[i].by = g
      PROVE  \/ \E e \in Findings(g)' : e.row = i
             \/ pc'[g] = "recording" /\ current'[g].row = i
             \/ Aborted(g)'
  <2>1. CASE \E e \in Findings(g) : e.row = i
    BY <2>1, EventsStay DEF HistoryInv, Grounded, Findings, Deletions, EventsOf
  <2>2. CASE Aborted(g)
    BY <2>2, AbortedStays
  <2>3. CASE pc[g] = "recording" /\ current[g].row = i
    <3>1. CASE g # h
      BY <2>3, <3>1, OthersStay DEF HistoryInv, TaskStep
    <3>2. CASE g = h /\ RecordEvent(h)
      <4>1. [harvesting |-> h, row |-> i, type |-> current[h].type,
             enhanced |-> current[h].enhanced] \in events'
        BY <2>3, <3>2 DEF RecordEvent, AddEvent
      <4>2. current[h].type # "deleted"
        BY <2>3, <3>2 DEF HistoryInv, ResultAtHand
      <4>3. QED
        BY <3>2, <4>1, <4>2 DEF Findings, Deletions, EventsOf
    <3>3. QED
      BY <2>3, <3>1, <3>2, RecordingEnds
  <2>4. QED
    BY <1>1, <2>1, <2>2, <2>3 DEF VersionsAreReported
<1>2. \A i \in RowIds : references[i].by \in Harvestings /\ references'[i] = references[i]
  BY RowsStay, RowsAreReferences DEF HistoryInv, TaskStep, Reference
<1>3. CASE StoreVersion(h)
  <2>1. PICK n : n = Len(references) + 1
    OBVIOUS
  <2>2. /\ RowIds' = RowIds \union {n}
        /\ references'[n].by = h
    BY <1>3, <2>1, RowsAreReferences DEF StoreVersion, RowIds, HistoryInv, TypeOK
  <2>3. pc'[h] = "recording" /\ current'[h].row = n
    <3>1. current[h] \in Result
      BY <1>3 DEF HistoryInv, ResultAtHand, StoreVersion
    <3>2. QED
      BY <1>3, <2>1, <3>1, StoredResultIsReady DEF HistoryInv, Result
  <2>4. QED
    BY <1>1, <1>2, <2>2, <2>3 DEF VersionsAreReported
<1>4. CASE ~StoreVersion(h)
  <2>1. references' = references
    BY <1>4 DEF TaskStep, Launch, Step, Fault, ReadBaseline, FetchResult, IgnoreResult,
       KeepVersion, RecordEvent, RecordDeletion, EndOfResults, Complete, NotifyCompletion,
       MarkFailed, RecordError, ConversionFails, ResultLost, EndpointFails, DatabaseFails,
       tables
  <2>2. QED
    BY <1>1, <1>2, <2>1 DEF VersionsAreReported, RowIds
<1>5. QED
  BY <1>3, <1>4

\* Deletions are recorded by RecordDeletion only.
LEMMA DeletionsComeLast ==
    ASSUME HistoryInv, NEW h \in Harvestings, TaskStep(h), NEW g \in Harvestings
    PROVE  \/ g = h /\ RecordDeletion(h)
           \/ Deletions(g)' = Deletions(g)
<1>1. \A e \in events' \ events : e.harvesting = h /\ (RecordDeletion(h) \/ e.type # "deleted")
  BY EventsStay DEF HistoryInv, Grounded
<1>2. events \subseteq events'
  BY EventsStay DEF HistoryInv, Grounded
<1>3. QED
  BY <1>1, <1>2 DEF Deletions, EventsOf

\* A loss comes with an exception, and deletions come after its error if at all.
LEMMA LossesAreErrorsStep ==
    ASSUME HistoryInv, LossesAreErrors, NEW h \in Harvestings, TaskStep(h)
    PROVE  LossesAreErrors'
<1> SUFFICES ASSUME NEW g \in Harvestings, dropped'[g] # {}
             PROVE  \/ errors'[g]
                    \/ pc'[g] \in {"failing", "reporting", "dead"} /\ Deletions(g)' = {}
  BY DEF LossesAreErrors
<1>1. CASE g # h
  BY <1>1, OthersStay, OthersKeepVerdict, DeletionsComeLast
  DEF HistoryInv, LossesAreErrors, TaskStep
<1>2. CASE g = h /\ (ConversionFails(h) \/ ResultLost(h))
  <2>1. pc[h] \in {"handling", "fetching"} /\ pc'[h] = "failing"
    BY <1>2 DEF ConversionFails, ResultLost, Raise, Goto, HistoryInv, TypeOK
  <2>2. Deletions(h) = {}
    BY <2>1 DEF HistoryInv, DeletionsAreNotMet, PastResults
  <2>3. ~RecordDeletion(h)
    BY <2>1 DEF RecordDeletion
  <2>4. QED
    BY <1>2, <2>1, <2>2, <2>3, DeletionsComeLast
<1>3. CASE g = h /\ ~ConversionFails(h) /\ ~ResultLost(h)
  <2>1. dropped' = dropped
    BY <1>3 DEF TaskStep, Launch, Step, Fault, ReadBaseline, FetchResult, IgnoreResult,
       StoreVersion, KeepVersion, RecordEvent, RecordDeletion, EndOfResults, Complete,
       NotifyCompletion, MarkFailed, RecordError, EndpointFails, DatabaseFails, task
  <2>2. \/ errors[h]
        \/ pc[h] \in {"failing", "reporting", "dead"} /\ Deletions(h) = {}
    BY <1>3, <2>1 DEF LossesAreErrors
  <2>3. errors[h] => errors'[h]
    BY DEF TaskStep, Launch, Step, Fault, ReadBaseline, FetchResult, IgnoreResult,
       StoreVersion, KeepVersion, RecordEvent, RecordDeletion, EndOfResults, Complete,
       NotifyCompletion, MarkFailed, RecordError, EndpointFails, DatabaseFails,
       ConversionFails, ResultLost, HistoryInv, TypeOK, verdict
  <2>4. pc[h] \in {"failing", "reporting", "dead"} =>
           errors'[h] \/ pc'[h] \in {"failing", "reporting", "dead"}
    BY DEF TaskStep, Launch, Step, Fault, ReadBaseline, FetchResult, IgnoreResult,
       StoreVersion, KeepVersion, RecordEvent, RecordDeletion, EndOfResults, Complete,
       NotifyCompletion, MarkFailed, RecordError, EndpointFails, DatabaseFails,
       ConversionFails, ResultLost, HistoryInv, TypeOK, Goto, Raise, verdict
  <2>5. pc[h] \in {"failing", "reporting", "dead"} => ~RecordDeletion(h)
    BY DEF RecordDeletion
  <2>6. QED
    BY <1>3, <2>2, <2>3, <2>4, <2>5, DeletionsComeLast
<1>4. QED
  BY <1>1, <1>2, <1>3

-----------------------------------------------------------------------------
(* The theorems                                                            *)

LEMMA VerdictInvInit == Init => VerdictInv
<1> SUFFICES ASSUME Init
             PROVE  VerdictInv
  OBVIOUS
<1>1. RowIds = {}
  BY DEF Init, RowIds
<1>2. QED
  BY <1>1 DEF Init, VerdictInv, StateFollowsTask, VerdictIsExplained, VersionsAreReported,
     LossesAreErrors

\* A restart aborts the runs it kills.
LEMMA VerdictInvRestart ==
    ASSUME HistoryInv, VerdictInv, Restart
    PROVE  VerdictInv'
<1>1. /\ UNCHANGED <<tables, verdict, request, resume, task>>
      /\ \A h \in Harvestings : pc'[h] = IF Live(h) THEN "dead" ELSE pc[h]
  BY DEF Restart
<1>2. StateFollowsTask'
  BY <1>1 DEF VerdictInv, StateFollowsTask, PastResults, Live, verdict
<1>3. VerdictIsExplained'
  BY <1>1 DEF VerdictInv, VerdictIsExplained, verdict
<1>4. VersionsAreReported'
  <2>1. \A h \in Harvestings : Aborted(h) => Aborted(h)'
    BY <1>1 DEF Aborted, Live, verdict, HistoryInv, TypeOK
  <2>2. \A h \in Harvestings : pc[h] = "recording" => Aborted(h)'
    BY <1>1 DEF Aborted, Live, verdict, VerdictInv, StateFollowsTask, PastResults
  <2>3. \A i \in RowIds : references[i].by \in Harvestings
    BY RowsAreReferences DEF HistoryInv, Reference
  <2>4. QED
    BY <1>1, <2>1, <2>2, <2>3
    DEF VerdictInv, VersionsAreReported, Findings, Deletions, EventsOf, RowIds, tables
<1>5. LossesAreErrors'
  BY <1>1 DEF VerdictInv, LossesAreErrors, Deletions, EventsOf, Live, tables, verdict, task
<1>6. QED
  BY <1>2, <1>3, <1>4, <1>5 DEF VerdictInv

LEMMA VerdictInvStutter ==
    ASSUME VerdictInv, UNCHANGED vars
    PROVE  VerdictInv'
  BY DEF VerdictInv, StateFollowsTask, VerdictIsExplained, VersionsAreReported,
     LossesAreErrors, PastResults, Aborted, Findings, Deletions, EventsOf, RowIds, vars,
     tables, verdict, task, deployment

\* The verdicts, the errors and the tables agree with the tasks, whatever fails.
THEOREM VerdictInvariance == Spec => []SoundInv
<1>1. SoundInv /\ [Next]_vars => SoundInv'
  <2> SUFFICES ASSUME HistoryInv, VerdictInv, [Next]_vars
               PROVE  VerdictInv'
    BY HistoryInvStep DEF SoundInv
  <2>1. CASE \E h \in Harvestings : TaskStep(h)
    BY <2>1, StateFollowsTaskStep, VerdictIsExplainedStep, VersionsAreReportedStep,
       LossesAreErrorsStep
    DEF VerdictInv
  <2>2. CASE Restart
    BY <2>2, VerdictInvRestart
  <2>3. CASE UNCHANGED vars
    BY <2>3, VerdictInvStutter
  <2>4. QED
    BY <2>1, <2>2, <2>3 DEF Next, TaskStep
<1>2. QED
  BY <1>1, HistoryInvInit, VerdictInvInit, PTL DEF Spec, SoundInv

\* A task that has returned has left a verdict, and a failed one its error.
THEOREM VerdictsAreExplained == Spec => []VerdictIsExplained
<1>1. SoundInv => VerdictIsExplained
  BY DEF SoundInv, VerdictInv
<1>2. QED
  BY <1>1, VerdictInvariance, PTL

\* A completed harvesting has recorded an event for every version it stored.
THEOREM CompletedHarvestingsReport == Spec => []CompletedReportsItsVersions
<1>1. SoundInv => CompletedReportsItsVersions
  <2> SUFFICES ASSUME SoundInv, NEW i \in RowIds, dbState[references[i].by] = "completed"
               PROVE  \E e \in Findings(references[i].by) : e.row = i
    BY DEF CompletedReportsItsVersions
  <2>1. references[i].by \in Harvestings
    BY RowsAreReferences DEF SoundInv, HistoryInv, Reference
  <2>2. QED
    BY <2>1 DEF SoundInv, VerdictInv, VersionsAreReported, StateFollowsTask, Aborted,
       PastResults
<1>2. QED
  BY <1>1, VerdictInvariance, PTL

\* A deletion of a reference that the source lists comes with an error on record.
THEOREM FalseDeletionsAreSignalled == Spec => []FalseDeletionsHaveAnError
<1>1. SoundInv => FalseDeletionsHaveAnError
  BY DEF SoundInv, VerdictInv, LossesAreErrors, FalseDeletionsHaveAnError, SidsOf
<1>2. QED
  BY <1>1, VerdictInvariance, PTL

-----------------------------------------------------------------------------
(* What a harvesting accounts for                                          *)

\* The steps that end with a result yielded, and those that record an event for it.
Yields(h) == IgnoreResult(h) \/ KeepVersion(h) \/ RecordEvent(h)

Reports(h) == KeepVersion(h) \/ RecordEvent(h)

\* What was yielded stays so.
LEMMA YieldedGrows ==
    ASSUME TypeOK, NEW h \in Harvestings, TaskStep(h)
    PROVE  /\ Yields(h) => yielded'[h] = yielded[h] \union {current[h].sid}
           /\ ~Yields(h) => yielded' = yielded
           /\ \A g \in Harvestings \ {h} : yielded'[g] = yielded[g]
<1>1. CASE Yields(h)
  BY <1>1 DEF Yields, IgnoreResult, KeepVersion, RecordEvent, DoneWith, TypeOK
<1>2. CASE ~Yields(h)
  BY <1>2 DEF Yields, TaskStep, Launch, Step, Fault, ReadBaseline, FetchResult, StoreVersion,
     RecordDeletion, EndOfResults, Complete, NotifyCompletion, MarkFailed, RecordError,
     ConversionFails, ResultLost, EndpointFails, DatabaseFails, task
<1>3. QED
  BY <1>1, <1>2

\* The reference of the result at hand is the one its event is about.
LEMMA ReportIsOfResult ==
    ASSUME HistoryInv, NEW h \in Harvestings, Reports(h), NEW i,
           i = IF pc[h] = "handling" THEN current[h].old ELSE current[h].row
    PROVE  /\ events' = events \union {[harvesting |-> h, row |-> i, type |-> current[h].type,
                                        enhanced |-> current[h].enhanced]}
           /\ current[h].type # "deleted"
           /\ i \in RowIds
           /\ references[i].sid = current[h].sid
           /\ references' = references
<1>1. current[h] \in Result /\ current[h].type # "deleted"
  BY DEF Reports, KeepVersion, RecordEvent, HistoryInv, ResultAtHand
<1>2. CASE KeepVersion(h)
  <2>1. pc[h] = "handling" /\ current[h].old # 0
    BY <1>2 DEF KeepVersion, StoresVersion, Kind
  <2>2. QED
    BY <1>1, <1>2, <2>1 DEF KeepVersion, AddEvent, HistoryInv, ResultIsMet, Result
<1>3. CASE RecordEvent(h)
  BY <1>1, <1>3 DEF RecordEvent, AddEvent, HistoryInv, ResultIsMet, ResultAtHand, Result
<1>4. QED
  BY <1>2, <1>3 DEF Reports

\* What is found changes when the result at hand is reported, and then only.
LEMMA FindingsGrow ==
    ASSUME HistoryInv, NEW h \in Harvestings, TaskStep(h), NEW g \in Harvestings
    PROVE  /\ g = h /\ Reports(h) =>
                SidsOf(Findings(g))' = SidsOf(Findings(g)) \union {current[h].sid}
           /\ ~(g = h /\ Reports(h)) => SidsOf(Findings(g))' = SidsOf(Findings(g))
<1>1. \A e \in events : e.row \in RowIds
  BY DEF HistoryInv, TypeOK, Event
<1>2. \A i \in RowIds : references'[i] = references[i]
  BY RowsStay DEF HistoryInv, TaskStep
<1>3. CASE g = h /\ Reports(h)
  <2>1. PICK i : i = IF pc[h] = "handling" THEN current[h].old ELSE current[h].row
    OBVIOUS
  <2>2. PICK e : e = [harvesting |-> h, row |-> i, type |-> current[h].type,
                      enhanced |-> current[h].enhanced]
    OBVIOUS
  <2>3. /\ events' = events \union {e}
        /\ references' = references
        /\ e.type # "deleted" /\ e.harvesting = h
        /\ references[e.row].sid = current[h].sid
    BY <1>3, <2>1, <2>2, ReportIsOfResult
  <2>4. Findings(h)' = Findings(h) \union {e}
    BY <2>3 DEF Findings, Deletions, EventsOf
  <2>5. QED
    BY <1>3, <2>3, <2>4 DEF SidsOf
<1>4. CASE ~(g = h /\ Reports(h))
  <2>1. Findings(g)' = Findings(g)
    BY <1>4, EventsStay DEF Findings, Deletions, EventsOf, Reports, HistoryInv, Grounded
  <2>2. Findings(g) \subseteq events
    BY DEF Findings, EventsOf
  <2>3. QED
    BY <1>1, <1>2, <1>4, <2>1, <2>2 DEF SidsOf
<1>5. QED
  BY <1>3, <1>4

\* The baseline comes before the results.
LEMMA NothingYieldedYetStep ==
    ASSUME HistoryInv, NothingYieldedYet, NEW h \in Harvestings, TaskStep(h)
    PROVE  NothingYieldedYet'
<1> SUFFICES ASSUME NEW g \in Harvestings, pc'[g] \in {"absent", "launched"}
             PROVE  yielded'[g] = {}
  BY DEF NothingYieldedYet
<1>1. CASE g # h
  BY <1>1, OthersStay, YieldedGrows DEF HistoryInv, NothingYieldedYet, TaskStep
<1>2. CASE g = h
  <2>1. Launch(h)
    BY <1>2 DEF TaskStep, Step, Fault, ReadBaseline, FetchResult, IgnoreResult, StoreVersion,
       KeepVersion, RecordEvent, RecordDeletion, EndOfResults, Complete, NotifyCompletion,
       MarkFailed, RecordError, ConversionFails, ResultLost, EndpointFails, DatabaseFails,
       HistoryInv, TypeOK, Goto, DoneWith, Raise
  <2>2. yielded' = yielded /\ pc[h] = "absent"
    BY <2>1 DEF Launch, task
  <2>3. QED
    BY <1>2, <2>2 DEF NothingYieldedYet
<1>3. QED
  BY <1>1, <1>2

\* A result that is yielded is reported when all types of events are requested.
LEMMA FindingsAreYieldedStep ==
    ASSUME HistoryInv, FindingsAreYielded, NEW h \in Harvestings, TaskStep(h)
    PROVE  FindingsAreYielded'
<1> SUFFICES ASSUME NEW g \in Harvestings
             PROVE  /\ SidsOf(Findings(g))' \subseteq yielded'[g]
                    /\ request'[g].types = EventTypes =>
                          yielded'[g] \subseteq SidsOf(Findings(g))'
  BY DEF FindingsAreYielded
<1>1. request' = request
  BY DeploymentStays
<1>2. /\ SidsOf(Findings(g)) \subseteq yielded[g]
      /\ request[g].types = EventTypes => yielded[g] \subseteq SidsOf(Findings(g))
  BY DEF FindingsAreYielded
<1>3. CASE g = h /\ Reports(h)
  BY <1>1, <1>2, <1>3, FindingsGrow, YieldedGrows DEF HistoryInv, Reports, Yields
<1>4. CASE g = h /\ IgnoreResult(h)
  <2>1. request[h].types # EventTypes
    BY <1>4, KindIsNoDeletion DEF IgnoreResult, Wanted, EventTypesOrDefault, EventTypes
  <2>2. ~Reports(h)
    BY <1>4 DEF IgnoreResult, Reports, KeepVersion, RecordEvent
  <2>3. QED
    BY <1>1, <1>2, <1>4, <2>1, <2>2, FindingsGrow, YieldedGrows DEF HistoryInv, Yields
<1>5. CASE g # h \/ ~Yields(h)
  BY <1>1, <1>2, <1>5, FindingsGrow, YieldedGrows DEF HistoryInv, Yields, Reports
<1>6. QED
  BY <1>3, <1>4, <1>5 DEF Yields, Reports

\* What is yielded is met, or about to be.
LEMMA YieldedAreMetStep ==
    ASSUME HistoryInv, NothingYieldedYet, YieldedAreMet, NEW h \in Harvestings, TaskStep(h)
    PROVE  YieldedAreMet'
<1> SUFFICES ASSUME NEW g \in Harvestings, NEW s \in yielded'[g]
             PROVE  Met(g, s)'
  BY DEF YieldedAreMet
<1>1. CASE s \in yielded[g]
  <2>1. pc[g] # "launched"
    BY <1>1 DEF NothingYieldedYet
  <2>2. previous'[g] = previous[g]
    BY <2>1, BaselineStays, OthersStay DEF HistoryInv, Grounded, TaskStep
  <2>3. QED
    BY <1>1, <2>2, MetStays DEF YieldedAreMet
<1>2. CASE s \notin yielded[g]
  <2>1. g = h /\ Yields(h) /\ s = current[h].sid
    BY <1>2, YieldedGrows DEF HistoryInv
  <2>2. pc[h] \in {"handling", "recording"} /\ previous' = previous
    BY <2>1 DEF Yields, IgnoreResult, KeepVersion, RecordEvent
  <2>3. Met(h, s)
    BY <2>1, <2>2 DEF HistoryInv, ResultIsMet
  <2>4. QED
    BY <2>1, <2>2, <2>3, MetStays
<1>3. QED
  BY <1>1, <1>2

\* An error met stays until it is recorded, or stays without deletions for ever.
LEMMA MarredStays ==
    ASSUME HistoryInv, NEW h \in Harvestings, TaskStep(h), NEW g \in Harvestings, Marred(g)
    PROVE  Marred(g)'
<1>1. CASE g # h
  BY <1>1, OthersStay, OthersKeepVerdict DEF HistoryInv, Marred, TaskStep
<1>2. CASE g = h
  <2> USE DEF HistoryInv, TypeOK, Marred, Goto, DoneWith, Raise, verdict
  <2>1. CASE Launch(h) \/ Step(h)
    BY <1>2, <2>1 DEF Launch, Step, ReadBaseline, FetchResult, IgnoreResult, StoreVersion,
       KeepVersion, RecordEvent, RecordDeletion, EndOfResults, Complete, NotifyCompletion,
       MarkFailed, RecordError
  <2>2. CASE Fault(h)
    BY <1>2, <2>2 DEF Fault, ConversionFails, ResultLost, EndpointFails, DatabaseFails
  <2>3. QED
    BY <2>1, <2>2 DEF TaskStep
<1>3. QED
  BY <1>1, <1>2

\* The result at hand is yielded, or its error is met.
LEMMA ResultIsAccountedFor ==
    ASSUME HistoryInv, StateFollowsTask, NEW h \in Harvestings, TaskStep(h),
           pc[h] \in {"handling", "recording"}
    PROVE  \/ Yields(h)
           \/ StoreVersion(h)
           \/ Marred(h)'
<1>1. \/ Yields(h)
      \/ StoreVersion(h)
      \/ ConversionFails(h) \/ DatabaseFails(h)
  BY DEF TaskStep, Launch, Step, Fault, ReadBaseline, FetchResult, RecordDeletion,
     EndOfResults, Complete, NotifyCompletion, MarkFailed, RecordError, ResultLost,
     EndpointFails, Yields
<1>2. dbState[h] # "completed"
  BY DEF StateFollowsTask, PastResults
<1>3. CASE ConversionFails(h) \/ DatabaseFails(h)
  BY <1>2, <1>3 DEF ConversionFails, DatabaseFails, Raise, Goto, Marred, HistoryInv, TypeOK,
     verdict
<1>4. QED
  BY <1>1, <1>3

\* Only what the source yields is put among the existing references.
LEMMA ExistingIsYieldedStep ==
    ASSUME HistoryInv, StateFollowsTask, ExistingIsYielded, NEW h \in Harvestings, TaskStep(h)
    PROVE  ExistingIsYielded'
<1> SUFFICES ASSUME NEW g \in Harvestings, NEW i \in existing'[g], ~Marred(g)'
             PROVE  \/ references'[i].sid \in yielded'[g]
                    \/ /\ pc'[g] \in {"handling", "recording"}
                       /\ references'[i].sid = current'[g].sid
  BY DEF ExistingIsYielded
<1>1. ~Marred(g)
  BY MarredStays
<1>2. \A k \in RowIds : references'[k] = references[k]
  BY RowsStay DEF HistoryInv, TaskStep
<1>3. existing[g] \subseteq RowIds
  BY DEF HistoryInv, TypeOK
<1>4. yielded[g] \subseteq yielded'[g]
  BY YieldedGrows DEF HistoryInv
<1>5. CASE i \in existing[g] /\ references[i].sid \in yielded[g]
  BY <1>2, <1>3, <1>4, <1>5
<1>6. CASE /\ i \in existing[g]
           /\ pc[g] \in {"handling", "recording"}
           /\ references[i].sid = current[g].sid
  <2>1. CASE g # h
    BY <1>2, <1>3, <1>6, <2>1, OthersStay DEF HistoryInv, TaskStep
  <2>2. CASE g = h /\ Yields(h)
    BY <1>2, <1>3, <1>6, <2>2, YieldedGrows DEF HistoryInv
  <2>3. CASE g = h /\ StoreVersion(h)
    BY <1>2, <1>3, <1>6, <2>3, StoredResultIsReady DEF HistoryInv
  <2>4. QED
    BY <1>6, <2>1, <2>2, <2>3, ResultIsAccountedFor
<1>7. CASE i \notin existing[g]
  <2>1. g = h /\ FetchResult(h)
    BY <1>7, ExistingGrows, OthersStay DEF HistoryInv, Grounded, TaskStep
  <2>2. PICK s \in Sources, c \in Contents : \E k \in RowIds \union {0} :
             /\ current'[h] = [sid |-> s, content |-> c, old |-> k, row |-> 0,
                               type |-> Kind(c, k), enhanced |-> Enhanced(k)]
             /\ k # 0 => k \in LastRows(s)
             /\ existing'[h] \subseteq existing[h] \union {k}
    BY <2>1, FetchedResult DEF HistoryInv
  <2>3. PICK k \in RowIds \union {0} :
             /\ current'[h] = [sid |-> s, content |-> c, old |-> k, row |-> 0,
                               type |-> Kind(c, k), enhanced |-> Enhanced(k)]
             /\ k # 0 => k \in LastRows(s)
             /\ existing'[h] \subseteq existing[h] \union {k}
    BY <2>2
  <2>4. existing'[h] \subseteq RowIds /\ 0 \notin RowIds
    <3>1. references' = references
      BY <2>1 DEF FetchResult, tables
    <3>2. RowIds' = RowIds
      BY <3>1, SameRows
    <3>3. TypeOK'
      BY <2>1, FetchResultTypeOK DEF HistoryInv
    <3>4. QED
      BY <3>2, <3>3, RowsAreReferences DEF TypeOK, HistoryInv
  <2>5. i = k /\ k # 0
    BY <1>7, <2>1, <2>3, <2>4
  <2>6. references[k].sid = s
    BY <2>3, <2>5, LastRowsAreRows
  <2>7. pc'[h] = "handling" /\ current'[h].sid = s
    BY <2>1, <2>3, FetchedResultIsReady DEF HistoryInv
  <2>8. QED
    BY <1>2, <2>1, <2>4, <2>5, <2>6, <2>7
<1>8. QED
  BY <1>1, <1>5, <1>6, <1>7 DEF ExistingIsYielded

\* What a harvesting finds to be deleted does not depend on what others do.
LEMMA GoneStays ==
    ASSUME HistoryInv, NEW h \in Harvestings, TaskStep(h), NEW g \in Harvestings,
           previous'[g] = previous[g], existing'[g] = existing[g]
    PROVE  Gone(g)' = Gone(g)
<1>1. \A i \in RowIds : references'[i] = references[i]
  BY RowsStay DEF HistoryInv, TaskStep
<1>2. previous[g] \subseteq RowIds /\ existing[g] \subseteq RowIds
  BY DEF HistoryInv, TypeOK
<1>3. QED
  BY <1>1, <1>2 DEF Gone

\* After the deletions each reference that is gone was reported, or is about to be.
LEMMA DeletionsAreDoneStep ==
    ASSUME HistoryInv, StateFollowsTask, DeletionsAreDone, NEW h \in Harvestings, TaskStep(h)
    PROVE  DeletionsAreDone'
<1> SUFFICES ASSUME NEW g \in Harvestings
             PROVE  /\ /\ "deleted" \in request'[g].types
                       /\ pc'[g] = "deleting" \/ dbState'[g] = "completed"
                       => {d.row : d \in Deletions(g)'} \union toDelete'[g] = Gone(g)'
                    /\ dbState'[g] = "completed" => toDelete'[g] = {}
  BY DEF DeletionsAreDone
<1>1. request' = request
  BY DeploymentStays
<1>2. CASE g # h
  BY <1>1, <1>2, OthersStay, OthersKeepVerdict, DeletionsComeLast, GoneStays
  DEF HistoryInv, DeletionsAreDone, TaskStep
<1>3. CASE g = h /\ EndOfResults(h)
  <2>1. Deletions(h) = {} /\ dbState[h] # "completed"
    BY <1>3 DEF EndOfResults, HistoryInv, DeletionsAreNotMet, StateFollowsTask, PastResults
  <2>2. /\ Deletions(h)' = {}
        /\ dbState'[h] # "completed"
        /\ "deleted" \in request[h].types => toDelete'[h] = Gone(h)
        /\ Gone(h)' = Gone(h)
    BY <1>3, <2>1 DEF EndOfResults, Deletions, EventsOf, Gone, HistoryInv, TypeOK, tables, verdict
  <2>3. QED
    BY <1>1, <1>3, <2>2
<1>4. CASE g = h /\ RecordDeletion(h)
  <2>1. PICK i \in toDelete[h] : /\ AddEvent(h, i, "deleted", FALSE)
                                 /\ toDelete' = [toDelete EXCEPT ![h] = @ \ {i}]
    BY <1>4 DEF RecordDeletion
  <2>2. PICK d : d = [harvesting |-> h, row |-> i, type |-> "deleted", enhanced |-> FALSE]
    OBVIOUS
  <2>3. /\ Deletions(h)' = Deletions(h) \union {d}
        /\ d.row = i
        /\ toDelete'[h] = toDelete[h] \ {i}
    BY <2>1, <2>2 DEF AddEvent, Deletions, EventsOf, HistoryInv, TypeOK
  <2>4. {e.row : e \in Deletions(h)'} = {e.row : e \in Deletions(h)} \union {i}
    BY <2>3
  <2>5. /\ previous'[h] = previous[h] /\ existing'[h] = existing[h]
        /\ dbState' = dbState /\ pc[h] = "deleting"
    BY <1>4 DEF RecordDeletion, verdict
  <2>6. Gone(h)' = Gone(h)
    BY <2>5, GoneStays
  <2>7. dbState[h] # "completed"
    BY <2>5 DEF StateFollowsTask
  <2>8. QED
    BY <1>1, <1>4, <2>1, <2>3, <2>4, <2>5, <2>6, <2>7 DEF DeletionsAreDone
<1>5. CASE g = h /\ Complete(h)
  <2>1. /\ pc[h] = "deleting" /\ toDelete[h] = {} /\ toDelete' = toDelete
        /\ previous'[h] = previous[h] /\ existing'[h] = existing[h]
    BY <1>5 DEF Complete, task
  <2>2. Deletions(h)' = Deletions(h)
    BY <1>5 DEF Complete, Deletions, EventsOf, tables
  <2>3. Gone(h)' = Gone(h)
    BY <2>1, GoneStays
  <2>4. QED
    BY <1>1, <1>5, <2>1, <2>2, <2>3 DEF DeletionsAreDone
<1>6. CASE g = h /\ ~EndOfResults(h) /\ ~RecordDeletion(h) /\ ~Complete(h)
  <2>1. /\ pc'[h] # "deleting"
        /\ dbState'[h] = "completed" => dbState[h] = "completed"
    <3> USE DEF HistoryInv, TypeOK, Goto, DoneWith, Raise, verdict
    <3>1. CASE Launch(h) \/ Step(h)
      BY <1>6, <3>1 DEF Launch, Step, ReadBaseline, FetchResult, IgnoreResult, StoreVersion,
         KeepVersion, RecordEvent, NotifyCompletion, MarkFailed, RecordError
    <3>2. CASE Fault(h)
      BY <3>2 DEF Fault, ConversionFails, ResultLost, EndpointFails, DatabaseFails
    <3>3. QED
      BY <3>1, <3>2 DEF TaskStep
  <2>2. SUFFICES ASSUME dbState[h] = "completed"
                 PROVE  /\ "deleted" \in request[h].types =>
                             {d.row : d \in Deletions(h)'} \union toDelete'[h] = Gone(h)'
                        /\ toDelete'[h] = {}
    BY <1>1, <1>6, <2>1
  <2>3. PastResults(h)
    BY <2>2 DEF StateFollowsTask
  <2>4. ~ReadBaseline(h) /\ ~FetchResult(h)
    BY <2>3 DEF PastResults, ReadBaseline, FetchResult
  <2>5. previous'[h] = previous[h] /\ existing'[h] = existing[h]
    BY <2>4, BaselineStays, ExistingGrows DEF HistoryInv, Grounded
  <2>6. toDelete' = toDelete
    BY <1>6 DEF TaskStep, Launch, Step, Fault, ReadBaseline, FetchResult, IgnoreResult,
       StoreVersion, KeepVersion, RecordEvent, NotifyCompletion, MarkFailed, RecordError,
       ConversionFails, ResultLost, EndpointFails, DatabaseFails, task
  <2>7. Deletions(h)' = Deletions(h)
    BY <1>6, DeletionsComeLast
  <2>8. Gone(h)' = Gone(h)
    BY <2>5, GoneStays
  <2>9. QED
    BY <2>2, <2>6, <2>7, <2>8 DEF DeletionsAreDone
<1>7. QED
  BY <1>2, <1>3, <1>4, <1>5, <1>6

\* A restart changes neither what was yielded nor what was reported.
LEMMA AccountInvRestart ==
    ASSUME HistoryInv, StateFollowsTask, AccountInv, Restart
    PROVE  AccountInv'
<1>1. /\ UNCHANGED <<references, events, dbState, errors, request, resume, previous, existing,
                     current, toDelete, fetched, yielded, dropped>>
      /\ \A h \in Harvestings : pc'[h] = IF Live(h) THEN "dead" ELSE pc[h]
  BY DEF Restart, tables, verdict, task
<1>2. NothingYieldedYet'
  BY <1>1 DEF AccountInv, NothingYieldedYet, Live
<1>3. \A h \in Harvestings :
         Findings(h)' = Findings(h) /\ Deletions(h)' = Deletions(h) /\ Gone(h)' = Gone(h)
  BY <1>1 DEF Findings, Deletions, EventsOf, Gone
<1>4. FindingsAreYielded' /\ YieldedAreMet'
  BY <1>1, <1>3 DEF AccountInv, FindingsAreYielded, YieldedAreMet, SidsOf, Met
<1>5. ExistingIsYielded'
  BY <1>1 DEF AccountInv, ExistingIsYielded, Marred, Live, StateFollowsTask, PastResults
<1>6. DeletionsAreDone'
  BY <1>1, <1>3 DEF AccountInv, DeletionsAreDone, Live
<1>7. QED
  BY <1>2, <1>4, <1>5, <1>6 DEF AccountInv

\* A step that changes nothing changes no account.
LEMMA AccountInvStutter ==
    ASSUME AccountInv, UNCHANGED vars
    PROVE  AccountInv'
<1>1. UNCHANGED <<references, events, dbState, errors, request, pc, resume, previous,
                  existing, current, toDelete, fetched, yielded, dropped>>
  BY DEF vars, tables, verdict, task
<1>2. \A h \in Harvestings :
         Findings(h)' = Findings(h) /\ Deletions(h)' = Deletions(h) /\ Gone(h)' = Gone(h)
  BY <1>1 DEF Findings, Deletions, EventsOf, Gone
<1>3. QED
  BY <1>1, <1>2 DEF AccountInv, NothingYieldedYet, FindingsAreYielded, YieldedAreMet,
     ExistingIsYielded, DeletionsAreDone, Marred, SidsOf, Met

\* At the start there is nothing to account for.
LEMMA AccountInvInit == Init => AccountInv
<1> SUFFICES ASSUME Init
             PROVE  AccountInv
  OBVIOUS
<1>1. \A h \in Harvestings : Findings(h) = {} /\ Deletions(h) = {}
  BY DEF Init, Findings, Deletions, EventsOf
<1>2. QED
  BY <1>1 DEF Init, AccountInv, NothingYieldedYet, FindingsAreYielded, YieldedAreMet,
     ExistingIsYielded, DeletionsAreDone, SidsOf

\* Every harvesting accounts for what the source returned and for its baseline.
THEOREM AccountInvariance == Spec => [](SoundInv /\ AccountInv)
<1>1. SoundInv /\ AccountInv /\ [Next]_vars => AccountInv'
  <2> SUFFICES ASSUME HistoryInv, VerdictInv, AccountInv, [Next]_vars
               PROVE  AccountInv'
    BY DEF SoundInv
  <2>1. CASE \E h \in Harvestings : TaskStep(h)
    BY <2>1, NothingYieldedYetStep, FindingsAreYieldedStep, YieldedAreMetStep,
       ExistingIsYieldedStep, DeletionsAreDoneStep
    DEF AccountInv, VerdictInv
  <2>2. CASE Restart
    BY <2>2, AccountInvRestart DEF VerdictInv
  <2>3. CASE UNCHANGED vars
    BY <2>3, AccountInvStutter
  <2>4. QED
    BY <2>1, <2>2, <2>3 DEF Next, TaskStep
<1>2. QED
  BY <1>1, VerdictInvariance, AccountInvInit, PTL DEF Spec

\* What a harvesting without errors has deleted once it has walked through the results.
LEMMA DeletionsAreExact ==
    ASSUME HistoryInv, AccountInv, NEW h \in Harvestings, PastResults(h), ~Marred(h),
           {d.row : d \in Deletions(h)} = Gone(h)
    PROVE  SidsOf(Deletions(h)) = {references[i].sid : i \in previous[h]} \ yielded[h]
<1>1. SidsOf(Deletions(h)) = {references[i].sid : i \in Gone(h)}
  BY DEF SidsOf
<1>2. \A i \in existing[h] : references[i].sid \in yielded[h]
  BY DEF AccountInv, ExistingIsYielded, PastResults
<1>3. \A s \in yielded[h] : Met(h, s)
  BY DEF AccountInv, YieldedAreMet
<1>4. \A i \in previous[h] : i \in Gone(h) <=> references[i].sid \notin yielded[h]
  BY <1>2, <1>3 DEF Gone, Met
<1>5. Gone(h) \subseteq previous[h]
  BY DEF Gone
<1>6. QED
  BY <1>1, <1>4, <1>5

\* A completed harvesting without errors reports exactly what the source returned
\* and exactly what it no longer returns of the baseline.
THEOREM CleanRunsAreExact == Spec => []CleanRunReportsExactly
<1>1. SoundInv /\ AccountInv => CleanRunReportsExactly
  <2> SUFFICES ASSUME SoundInv, AccountInv, NEW h \in Harvestings, dbState[h] = "completed",
                      ~errors[h]
               PROVE  /\ request[h].types = EventTypes => SidsOf(Findings(h)) = yielded[h]
                      /\ "deleted" \in request[h].types =>
                            SidsOf(Deletions(h))
                              = {references[i].sid : i \in previous[h]} \ yielded[h]
    BY DEF CleanRunReportsExactly
  <2>1. request[h].types = EventTypes => SidsOf(Findings(h)) = yielded[h]
    BY DEF AccountInv, FindingsAreYielded
  <2>2. PastResults(h) /\ ~Marred(h)
    BY DEF SoundInv, VerdictInv, StateFollowsTask, Marred
  <2>3. "deleted" \in request[h].types => {d.row : d \in Deletions(h)} = Gone(h)
    BY DEF AccountInv, DeletionsAreDone
  <2>4. QED
    BY <2>1, <2>2, <2>3, DeletionsAreExact DEF SoundInv
<1>2. QED
  BY <1>1, AccountInvariance, PTL

-----------------------------------------------------------------------------
(* The inventory                                                           *)

\* Two harvestings of the same entity do not run together unless any may.
LEMMA EntitiesTakeTurns ==
    ASSUME TurnsAreTaken, Overlap # "any", NEW g \in Harvestings, NEW h \in Harvestings, g # h,
           request[g].entity = request[h].entity, Live(g), Live(h)
    PROVE  FALSE
<1>1. \A f, k \in Harvestings : f < k /\ Live(f) /\ Live(k) => MayOverlap(f, k)
  BY DEF TurnsAreTaken, Live
<1>2. g < h \/ h < g
  BY DEF Harvestings
<1>3. QED
  BY <1>1, <1>2 DEF MayOverlap

\* Only the harvestings of the same entity move what a harvesting would read.
LEMMA BaselineUnmoved ==
    ASSUME HistoryInv, NEW h \in Harvestings, TaskStep(h), NEW g \in Harvestings,
           g = h \/ request[g].entity # request[h].entity
    PROVE  Baseline(g)' = Baseline(g)
<1>1. request' = request
  BY DeploymentStays
<1>2. \A k \in Harvestings \ {h} : dbState'[k] = dbState[k]
  BY OthersKeepVerdict DEF HistoryInv
<1>3. CompletedBeside(g)' = CompletedBeside(g)
  BY <1>1, <1>2 DEF CompletedBeside
<1>4. LastCompletedBeside(g)' = LastCompletedBeside(g)
  BY <1>3 DEF LastCompletedBeside
<1>5. h \notin LastCompletedBeside(g)
  BY DEF LastCompletedBeside, CompletedBeside
<1>6. \A f : f.harvesting \in LastCompletedBeside(g) => (f \in events' <=> f \in events)
  BY <1>5, EventsStay DEF HistoryInv, Grounded
<1>7. QED
  BY <1>4, <1>6 DEF Baseline

\* A baseline grows old only by another harvesting of the same entity.
LEMMA BaselineIsFreshStep ==
    ASSUME HistoryInv, TurnsAreTaken, BaselineIsFresh, Overlap # "any",
           NEW h \in Harvestings, TaskStep(h)
    PROVE  BaselineIsFresh'
<1> SUFFICES ASSUME NEW g \in Harvestings, Live(g)', pc'[g] # "launched"
             PROVE  previous'[g] = Baseline(g)'
  BY DEF BaselineIsFresh
<1>1. CASE g # h
  <2>1. Live(g) /\ pc[g] # "launched" /\ previous'[g] = previous[g] /\ pc[g] # "absent"
    BY <1>1, OthersStay DEF HistoryInv, TaskStep, Live
  <2>2. request[g].entity # request[h].entity
    <3>1. CASE Launch(h)
      BY <2>1, <3>1 DEF Launch, MayOverlap
    <3>2. CASE Live(h)
      BY <1>1, <2>1, <3>2, EntitiesTakeTurns
    <3>3. QED
      BY <3>1, <3>2, StepIsLive
  <2>3. QED
    BY <2>1, <2>2, BaselineUnmoved DEF BaselineIsFresh
<1>2. CASE g = h
  <2>1. CASE ReadBaseline(h)
    BY <1>2, <2>1, BaselineUnmoved DEF ReadBaseline, HistoryInv, TypeOK
  <2>2. CASE ~ReadBaseline(h)
    <3>1. ~Launch(h)
      BY <1>2 DEF Launch, Goto, HistoryInv, TypeOK
    <3>2. pc[h] # "launched"
      BY <1>2, <2>2, <3>1 DEF TaskStep, Step, Fault, FetchResult, IgnoreResult, StoreVersion,
         KeepVersion, RecordEvent, RecordDeletion, EndOfResults, Complete, NotifyCompletion,
         MarkFailed, RecordError, ConversionFails, ResultLost, EndpointFails, DatabaseFails,
         HistoryInv, TypeOK, Goto, Raise, Live
    <3>3. Live(h)
      BY <3>1, StepIsLive
    <3>4. previous'[h] = previous[h]
      BY <2>2, BaselineStays DEF HistoryInv, Grounded
    <3>5. QED
      BY <1>2, <3>2, <3>3, <3>4, BaselineUnmoved DEF BaselineIsFresh
  <2>3. QED
    BY <2>1, <2>2
<1>3. QED
  BY <1>1, <1>2

\* As long as the database answers, a completed harvesting is not failed afterwards.
LEMMA CompletedRunsReturnStep ==
    ASSUME HistoryInv, CompletedRunsReturn, "database" \notin Faults,
           NEW h \in Harvestings, TaskStep(h)
    PROVE  CompletedRunsReturn'
<1> SUFFICES ASSUME NEW g \in Harvestings, dbState'[g] = "completed"
             PROVE  pc'[g] \in {"notifying", "ended", "dead"}
  BY DEF CompletedRunsReturn
<1>1. CASE g # h
  BY <1>1, OthersStay, OthersKeepVerdict DEF HistoryInv, CompletedRunsReturn, TaskStep
<1>2. CASE g = h
  <2> USE DEF HistoryInv, TypeOK, CompletedRunsReturn, Goto, DoneWith, Raise, verdict
  <2>1. CASE Launch(h) \/ Step(h)
    BY <1>2, <2>1 DEF Launch, Step, ReadBaseline, FetchResult, IgnoreResult, StoreVersion,
       KeepVersion, RecordEvent, RecordDeletion, EndOfResults, Complete, NotifyCompletion,
       MarkFailed, RecordError
  <2>2. CASE Fault(h)
    BY <1>2, <2>2 DEF Fault, ConversionFails, ResultLost, EndpointFails, DatabaseFails
  <2>3. QED
    BY <2>1, <2>2 DEF TaskStep
<1>3. QED
  BY <1>1, <1>2

\* What the steps of the inventory rest on.
InventoryInv ==
    /\ SoundInv
    /\ AccountInv
    /\ UniqueInv
    /\ BaselineIsFresh
    /\ CompletedRunsReturn

(* What the refinement rests on: baselines that are those of the tables,    *)
(* and completed harvestings whose verdict is the last one (run).          *)
THEOREM InventoryInvariance == Spec => []InventoryInv
<1>1. Init => BaselineIsFresh /\ CompletedRunsReturn
  BY DEF Init, BaselineIsFresh, CompletedRunsReturn, Live
<1>2. /\ HistoryInv /\ UniqueInv
      /\ BaselineIsFresh /\ CompletedRunsReturn
      /\ [Next]_vars
      => (BaselineIsFresh /\ CompletedRunsReturn)'
  <2> SUFFICES ASSUME HistoryInv, TurnsAreTaken, BaselineIsFresh, CompletedRunsReturn,
                      [Next]_vars
               PROVE  (BaselineIsFresh /\ CompletedRunsReturn)'
    BY DEF UniqueInv
  <2>1. CASE \E h \in Harvestings : TaskStep(h)
    <3>1. Overlap # "any" => BaselineIsFresh'
      BY <2>1, BaselineIsFreshStep
    <3>2. Overlap = "any" => BaselineIsFresh'
      BY DEF BaselineIsFresh
    <3>3. "database" \notin Faults => CompletedRunsReturn'
      BY <2>1, CompletedRunsReturnStep
    <3>4. "database" \in Faults => CompletedRunsReturn'
      BY DEF CompletedRunsReturn
    <3>5. QED
      BY <3>1, <3>2, <3>3, <3>4
  <2>2. CASE Restart
    BY <2>2 DEF Restart, BaselineIsFresh, CompletedRunsReturn, Live, verdict, HistoryInv, TypeOK
  <2>3. CASE UNCHANGED vars
    BY <2>3 DEF BaselineIsFresh, CompletedRunsReturn, Live, Baseline, LastCompletedBeside,
       CompletedBeside, vars, tables, verdict, task
  <2>4. QED
    BY <2>1, <2>2, <2>3 DEF Next, TaskStep
<1>3. QED
  BY <1>1, <1>2, AccountInvariance, TurnsTaken, PTL DEF Spec, InventoryInv

\* A step other than a completion leaves alone what a completed harvesting has left.
LEMMA CompletedIsLeftAlone ==
    ASSUME InventoryInv, "database" \notin Faults, NEW h \in Harvestings, TaskStep(h),
           ~Complete(h), NEW g \in Harvestings
    PROVE  /\ dbState'[g] = "completed" <=> dbState[g] = "completed"
           /\ dbState[g] = "completed" =>
                /\ yielded'[g] = yielded[g]
                /\ errors'[g] = errors[g]
                /\ SidsOf(Findings(g))' = SidsOf(Findings(g))
                /\ SidsOf(Deletions(g))' = SidsOf(Deletions(g))
<1>1. \A i \in RowIds : references'[i] = references[i]
  BY RowsStay DEF InventoryInv, SoundInv, HistoryInv, TaskStep
<1>2. \A e \in events : e.row \in RowIds
  BY DEF InventoryInv, SoundInv, HistoryInv, TypeOK, Event
<1>3. ~(g = h /\ RecordDeletion(h)) => SidsOf(Deletions(g))' = SidsOf(Deletions(g))
  <2>1. ~(g = h /\ RecordDeletion(h)) => Deletions(g)' = Deletions(g)
    BY DeletionsComeLast DEF InventoryInv, SoundInv
  <2>2. Deletions(g) \subseteq events
    BY DEF Deletions, EventsOf
  <2>3. QED
    BY <1>1, <1>2, <2>1, <2>2 DEF SidsOf
<1>4. CASE g # h
  BY <1>3, <1>4, OthersKeepVerdict, YieldedGrows, FindingsGrow
  DEF InventoryInv, SoundInv, HistoryInv
<1>5. CASE g = h /\ dbState[h] = "completed"
  <2>1. pc[h] \in {"notifying", "ended", "dead"}
    BY <1>5 DEF InventoryInv, CompletedRunsReturn
  <2>2. NotifyCompletion(h)
    BY <2>1 DEF TaskStep, Launch, Step, Fault, ReadBaseline, FetchResult, IgnoreResult,
       StoreVersion, KeepVersion, RecordEvent, RecordDeletion, EndOfResults, Complete,
       MarkFailed, RecordError, ConversionFails, ResultLost, EndpointFails, DatabaseFails
  <2>3. ~Yields(h) /\ ~Reports(h) /\ ~RecordDeletion(h)
    BY <2>1 DEF Yields, Reports, IgnoreResult, KeepVersion, RecordEvent, RecordDeletion
  <2>4. dbState' = dbState /\ errors' = errors
    BY <2>2 DEF NotifyCompletion, verdict
  <2>5. QED
    BY <1>3, <1>5, <2>3, <2>4, YieldedGrows, FindingsGrow
    DEF InventoryInv, SoundInv, HistoryInv
<1>6. CASE g = h /\ dbState[h] # "completed"
  <2>1. dbState'[h] # "completed"
    <3> USE DEF InventoryInv, SoundInv, HistoryInv, TypeOK, verdict
    <3>1. CASE Launch(h) \/ Step(h)
      BY <1>6, <3>1 DEF Launch, Step, ReadBaseline, FetchResult, IgnoreResult, StoreVersion,
         KeepVersion, RecordEvent, RecordDeletion, EndOfResults, NotifyCompletion,
         MarkFailed, RecordError
    <3>2. CASE Fault(h)
      BY <1>6, <3>2 DEF Fault, ConversionFails, ResultLost, EndpointFails, DatabaseFails
    <3>3. QED
      BY <3>1, <3>2 DEF TaskStep
  <2>2. QED
    BY <1>6, <2>1
<1>7. QED
  BY <1>4, <1>5, <1>6

\* What is read of the tables for an entity is what it was when the same harvestings
\* are completed and have left the same.
LEMMA SameInventory ==
    ASSUME NEW e, request' = request,
           \A g \in Harvestings : request[g].entity = e =>
             /\ dbState'[g] = "completed" <=> dbState[g] = "completed"
             /\ dbState[g] = "completed" =>
                  /\ yielded'[g] = yielded[g]
                  /\ errors'[g] = errors[g]
                  /\ SidsOf(Findings(g))' = SidsOf(Findings(g))
                  /\ SidsOf(Deletions(g))' = SidsOf(Deletions(g))
    PROVE  /\ SeenBy(e)' = SeenBy(e)
           /\ KnownTo(e)' = KnownTo(e)
           /\ GoneFor(e)' = GoneFor(e)
           /\ ExactFor(e)' = ExactFor(e)
<1>1. CompletedOf(e)' = CompletedOf(e)
  BY DEF CompletedOf
<1>2. LastOf(e)' = LastOf(e)
  BY <1>1 DEF LastOf
<1>3. \A g \in LastOf(e) :
         /\ yielded'[g] = yielded[g]
         /\ errors'[g] = errors[g]
         /\ SidsOf(Findings(g))' = SidsOf(Findings(g))
         /\ SidsOf(Deletions(g))' = SidsOf(Deletions(g))
  BY DEF LastOf, CompletedOf
<1>4. SeenBy(e)' = SeenBy(e)
  BY <1>2, <1>3 DEF SeenBy
<1>5. KnownTo(e)' = KnownTo(e)
  BY <1>2, <1>3 DEF KnownTo
<1>6. GoneFor(e)' = GoneFor(e)
  BY <1>2, <1>3 DEF GoneFor
<1>7. ExactFor(e)' = ExactFor(e)
  BY <1>2, <1>3 DEF ExactFor
<1>8. QED
  BY <1>4, <1>5, <1>6, <1>7

\* What the theorem on the inventory assumes: every harvesting is asked for all types
\* of events, those of an entity follow each other, and the database does not fail.
InventoryConditions ==
    /\ \A q \in Requests : q.types = EventTypes
    /\ Overlap # "any"
    /\ "database" \notin Faults

\* A harvesting that completes is the last one of its entity.
LEMMA CompletedIsLast ==
    ASSUME InventoryInv, InventoryConditions, NEW h \in Harvestings, Complete(h),
           NEW e, e = request[h].entity
    PROVE  LastOf(e)' = {h}
<1>1. /\ Live(h) /\ request' = request
      /\ dbState'[h] = "completed"
      /\ \A g \in Harvestings \ {h} : dbState'[g] = dbState[g]
  BY DEF Complete, Live, InventoryInv, SoundInv, HistoryInv, TypeOK
<1>2. ASSUME NEW g \in Harvestings \ {h}, dbState[g] = "completed", request[g].entity = e
      PROVE  g < h
  <2>1. pc[g] # "absent"
    BY <1>2 DEF InventoryInv, SoundInv, VerdictInv, StateFollowsTask, PastResults
  <2>2. ~(h < g)
    BY <1>1, <1>2, <2>1 DEF InventoryInv, UniqueInv, TurnsAreTaken, InventoryConditions,
       MayOverlap
  <2>3. QED
    BY <2>2 DEF Harvestings
<1>3. h \in CompletedOf(e)' /\ \A g \in CompletedOf(e)' : g = h \/ g < h
  BY <1>1, <1>2 DEF CompletedOf
<1>4. CompletedOf(e)' \subseteq Harvestings
  BY DEF CompletedOf
<1>5. QED
  BY <1>3, <1>4 DEF LastOf, Harvestings

\* The baseline of a harvesting that completes is what is known of its entity.
LEMMA BaselineIsKnown ==
    ASSUME InventoryInv, InventoryConditions, NEW h \in Harvestings, pc[h] = "deleting",
           NEW e, e = request[h].entity
    PROVE  {references[i].sid : i \in previous[h]} = KnownTo(e)
<1>1. previous[h] = Baseline(h)
  BY DEF InventoryInv, BaselineIsFresh, InventoryConditions, Live
<1>2. dbState[h] # "completed"
  BY DEF InventoryInv, SoundInv, VerdictInv, StateFollowsTask
<1>3. CompletedBeside(h) = CompletedOf(e)
  BY <1>2 DEF CompletedBeside, CompletedOf
<1>4. LastCompletedBeside(h) = LastOf(e)
  BY <1>3 DEF LastCompletedBeside, LastOf
<1>5. Baseline(h) = {f.row : f \in UNION {Findings(g) : g \in LastOf(e)}}
  BY <1>4 DEF Baseline, Findings, Deletions, EventsOf
<1>6. QED
  BY <1>1, <1>5 DEF KnownTo, SidsOf

\* A completion replaces the inventory of its entity as a whole.
LEMMA CompletionIsObserved ==
    ASSUME InventoryInv, InventoryConditions, NEW h \in Harvestings, Complete(h)
    PROVE  Abstract!Next
<1>1. PICK e \in Entities : e = request[h].entity
  BY ConstantsAssumption DEF InventoryInv, SoundInv, HistoryInv, TypeOK
<1>2. PICK S, K, G, x :
         /\ S = yielded[h]
         /\ K = SidsOf(Findings(h))
         /\ G = SidsOf(Deletions(h))
         /\ x = ~errors[h]
  OBVIOUS
<1>3. /\ HistoryInv /\ AccountInv /\ TypeOK
      /\ request[h].types = EventTypes
      /\ pc[h] = "deleting" /\ toDelete[h] = {}
  BY DEF InventoryInv, SoundInv, HistoryInv, TypeOK, InventoryConditions, Complete
<1>4. S \in SUBSET Sources /\ x \in BOOLEAN /\ K \subseteq S
  BY <1>2, <1>3 DEF TypeOK, AccountInv, FindingsAreYielded
<1>5. {references[i].sid : i \in previous[h]} = KnownTo(e)
  BY <1>1, <1>3, BaselineIsKnown
<1>6. G \subseteq KnownTo(e) \ S
  <2>1. \A d \in Deletions(h) : d.row \in previous[h] /\ NotMet(h, d.row)
    BY <1>3 DEF HistoryInv, DeletionsAreNotMet
  <2>2. \A s \in S : Met(h, s)
    BY <1>2, <1>3 DEF AccountInv, YieldedAreMet
  <2>3. \A d \in Deletions(h) :
           references[d.row].sid \in KnownTo(e) /\ references[d.row].sid \notin S
    BY <1>5, <2>1, <2>2 DEF NotMet, Met
  <2>4. QED
    BY <1>2, <2>3 DEF SidsOf
<1>7. x => K = S /\ G = KnownTo(e) \ S
  <2> SUFFICES ASSUME x
               PROVE  K = S /\ G = KnownTo(e) \ S
    OBVIOUS
  <2>1. K = S
    BY <1>2, <1>3 DEF AccountInv, FindingsAreYielded
  <2>2. {d.row : d \in Deletions(h)} = Gone(h)
    BY <1>3 DEF AccountInv, DeletionsAreDone, EventTypes
  <2>3. PastResults(h) /\ ~Marred(h)
    BY <1>2, <1>3 DEF PastResults, Marred
  <2>4. QED
    BY <1>2, <1>3, <1>5, <2>1, <2>2, <2>3, DeletionsAreExact
<1>8. LastOf(e)' = {h}
  BY <1>1, CompletedIsLast
<1>9. /\ UNCHANGED <<references, events, yielded, errors, request>>
      /\ \A g \in Harvestings \ {h} : dbState'[g] = dbState[g]
  BY <1>3 DEF Complete, tables, task, TypeOK
<1>10. /\ SeenBy(e)' = S
       /\ KnownTo(e)' = K
       /\ GoneFor(e)' = G
       /\ ExactFor(e)' = x
  <2>1. /\ SidsOf(Findings(h))' = K
        /\ SidsOf(Deletions(h))' = G
        /\ yielded'[h] = S
        /\ errors'[h] = errors[h]
    BY <1>2, <1>9 DEF SidsOf, Findings, Deletions, EventsOf
  <2>2. SeenBy(e)' = S
    BY <1>8, <2>1 DEF SeenBy
  <2>3. KnownTo(e)' = UNION {SidsOf(Findings(g))' : g \in {h}}
    BY <1>8 DEF KnownTo
  <2>4. GoneFor(e)' = UNION {SidsOf(Deletions(g))' : g \in {h}}
    BY <1>8 DEF GoneFor
  <2>5. ExactFor(e)' = x
    BY <1>2, <1>8, <2>1 DEF ExactFor
  <2>6. QED
    BY <2>1, <2>2, <2>3, <2>4, <2>5
<1>11. ASSUME NEW f \in Entities \ {e}
       PROVE  /\ SeenBy(f)' = SeenBy(f)
              /\ KnownTo(f)' = KnownTo(f)
              /\ GoneFor(f)' = GoneFor(f)
              /\ ExactFor(f)' = ExactFor(f)
  <2>1. \A g \in Harvestings : request[g].entity = f =>
          /\ dbState'[g] = dbState[g]
          /\ yielded'[g] = yielded[g]
          /\ errors'[g] = errors[g]
          /\ SidsOf(Findings(g))' = SidsOf(Findings(g))
          /\ SidsOf(Deletions(g))' = SidsOf(Deletions(g))
    BY <1>1, <1>9 DEF SidsOf, Findings, Deletions, EventsOf
  <2>2. QED
    BY <1>9, <2>1, SameInventory
<1>12. Abstract!Observe(e, S, K, G, x)
  BY <1>7, <1>10, <1>11 DEF Abstract!Observe
<1>13. G \in SUBSET (([f \in Entities |-> KnownTo(f)])[e] \ S)
  BY <1>6
<1>14. QED
  BY <1>4, <1>12, <1>13 DEF Abstract!Next

\* Each step of the harvestings replaces the inventory of an entity or leaves them all.
LEMMA InventoryStep ==
    ASSUME InventoryInv, InventoryConditions, [Next]_vars
    PROVE  [Abstract!Next]_Abstract!vars
<1>1. CASE \E h \in Harvestings : Complete(h)
  BY <1>1, CompletionIsObserved
<1>2. CASE (\E h \in Harvestings : TaskStep(h)) /\ ~(\E h \in Harvestings : Complete(h))
  <2>1. PICK h \in Harvestings : TaskStep(h) /\ ~Complete(h)
    BY <1>2
  <2>2. request' = request
    BY <2>1, DeploymentStays
  <2>3. \A e \in Entities : /\ SeenBy(e)' = SeenBy(e)
                            /\ KnownTo(e)' = KnownTo(e)
                            /\ GoneFor(e)' = GoneFor(e)
                            /\ ExactFor(e)' = ExactFor(e)
    BY <2>1, <2>2, CompletedIsLeftAlone, SameInventory DEF InventoryConditions
  <2>4. QED
    BY <2>3 DEF Abstract!vars
<1>3. CASE Restart \/ UNCHANGED vars
  <2>1. UNCHANGED <<references, events, dbState, errors, request, yielded>>
    BY <1>3 DEF Restart, vars, tables, verdict, task
  <2>2. \A g \in Harvestings : /\ SidsOf(Findings(g))' = SidsOf(Findings(g))
                               /\ SidsOf(Deletions(g))' = SidsOf(Deletions(g))
    BY <2>1 DEF SidsOf, Findings, Deletions, EventsOf
  <2>3. \A e \in Entities : /\ SeenBy(e)' = SeenBy(e)
                            /\ KnownTo(e)' = KnownTo(e)
                            /\ GoneFor(e)' = GoneFor(e)
                            /\ ExactFor(e)' = ExactFor(e)
    BY <2>1, <2>2, SameInventory
  <2>4. QED
    BY <2>3 DEF Abstract!vars
<1>4. QED
  BY <1>1, <1>2, <1>3 DEF Next, TaskStep

\* The history implements the inventory it promises to its clients: when all types of
\* events are requested and the harvestings of an entity follow each other, each
\* completed harvesting replaces the inventory of its entity in one step, whatever runs
\* for other entities, is lost, fails or restarts, as long as the database answers.
THEOREM InventoryIsImplemented ==
    ASSUME InventoryConditions
    PROVE  Spec => ImplementsInventory
<1>1. Init => Abstract!Init
  <2> SUFFICES ASSUME Init
               PROVE  Abstract!Init
    OBVIOUS
  <2>1. \A e \in Entities : LastOf(e) = {}
    BY DEF Init, LastOf, CompletedOf
  <2>2. QED
    BY <2>1 DEF Abstract!Init, SeenBy, KnownTo, GoneFor, ExactFor
<1>2. InventoryInv /\ [Next]_vars => [Abstract!Next]_Abstract!vars
  BY InventoryStep
<1>3. QED
  BY <1>1, <1>2, InventoryInvariance, PTL DEF Spec, ImplementsInventory, Abstract!Spec

=============================================================================
