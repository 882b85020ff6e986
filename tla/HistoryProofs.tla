--------------------------- MODULE HistoryProofs ---------------------------
(***************************************************************************)
(* Safety of ReferenceHistory, from the inductive invariant HistoryInv.    *)
(***************************************************************************)
EXTENDS HistoryTypeProofs

-----------------------------------------------------------------------------
(* What a step of a task may do to the tables and to the task              *)

\* Each action of the task of h, for the lemmas that go through all of them.
TaskStep(h) == Launch(h) \/ Step(h) \/ Fault(h)

Grounded == TypeOK /\ ResultAtHand

\* Events are only added, for the harvesting of the task.  A deletion comes from
\* the list of deletions, and the others come from the result at hand.
LEMMA EventsStay ==
    ASSUME Grounded, NEW h \in Harvestings, TaskStep(h)
    PROVE  /\ events \subseteq events'
           /\ \A e \in events' \ events :
                 /\ e.harvesting = h
                 /\ \/ RecordDeletion(h) /\ e.type = "deleted" /\ e.row \in toDelete[h]
                    \/ KeepVersion(h) /\ e.type # "deleted" /\ e.row = current[h].old
                    \/ RecordEvent(h) /\ e.type # "deleted" /\ e.row = current[h].row
<1>1. CASE KeepVersion(h)
  BY <1>1 DEF KeepVersion, AddEvent, Grounded, ResultAtHand
<1>2. CASE RecordEvent(h)
  BY <1>2 DEF RecordEvent, AddEvent, Grounded, ResultAtHand
<1>3. CASE RecordDeletion(h)
  <2>1. PICK i \in toDelete[h] : AddEvent(h, i, "deleted", FALSE)
    BY <1>3 DEF RecordDeletion
  <2>2. QED
    BY <1>3, <2>1 DEF AddEvent
<1>4. CASE ~KeepVersion(h) /\ ~RecordEvent(h) /\ ~RecordDeletion(h)
  <2>1. events' = events
    BY <1>4 DEF TaskStep, Launch, Step, Fault, ReadBaseline, FetchResult, IgnoreResult,
       StoreVersion, EndOfResults, Complete, NotifyCompletion, MarkFailed, RecordError,
       ConversionFails, ResultLost, EndpointFails, DatabaseFails, tables
  <2>2. QED
    BY <2>1
<1>5. QED
  BY <1>1, <1>2, <1>3, <1>4

\* A baseline is read once, before anything else.
LEMMA BaselineStays ==
    ASSUME Grounded, NEW h \in Harvestings, TaskStep(h)
    PROVE  \/ pc[h] = "launched" /\ ReadBaseline(h)
           \/ previous' = previous
  BY DEF TaskStep, Launch, Step, Fault, ReadBaseline, FetchResult, IgnoreResult, StoreVersion,
     KeepVersion, RecordEvent, RecordDeletion, EndOfResults, Complete, NotifyCompletion,
     MarkFailed, RecordError, ConversionFails, ResultLost, EndpointFails, DatabaseFails, task

\* References are met by fetching results only, and none is forgotten.
LEMMA ExistingGrows ==
    ASSUME Grounded, NEW h \in Harvestings, TaskStep(h)
    PROVE  \/ FetchResult(h) /\ existing[h] \subseteq existing'[h]
           \/ existing' = existing
<1>1. CASE FetchResult(h)
  <2>1. 0 \notin existing[h]
    BY RowsAreReferences DEF Grounded, TypeOK
  <2>2. \E i : existing' = [existing EXCEPT ![h] = (@ \union {i}) \ {0}]
    BY <1>1 DEF FetchResult
  <2>3. \E i : existing'[h] = (existing[h] \union {i}) \ {0}
    BY <2>2 DEF Grounded, TypeOK
  <2>4. QED
    BY <1>1, <2>1, <2>3
<1>2. CASE ~FetchResult(h)
  BY <1>2 DEF TaskStep, Launch, Step, Fault, ReadBaseline, IgnoreResult, StoreVersion,
     KeepVersion, RecordEvent, RecordDeletion, EndOfResults, Complete, NotifyCompletion,
     MarkFailed, RecordError, ConversionFails, ResultLost, EndpointFails, DatabaseFails, task
<1>3. QED
  BY <1>1, <1>2

\* The list of deletions is made at the end of the results, then only shortened.
LEMMA DeletionsShrink ==
    ASSUME Grounded, NEW h \in Harvestings, TaskStep(h)
    PROVE  \/ EndOfResults(h) /\ toDelete'[h] \subseteq Gone(h)
           \/ toDelete'[h] \subseteq toDelete[h]
<1>1. CASE EndOfResults(h)
  BY <1>1 DEF EndOfResults, Grounded, TypeOK
<1>2. CASE RecordDeletion(h)
  BY <1>2 DEF RecordDeletion, Grounded, TypeOK
<1>3. CASE ~EndOfResults(h) /\ ~RecordDeletion(h)
  BY <1>3 DEF TaskStep, Launch, Step, Fault, ReadBaseline, FetchResult, IgnoreResult, StoreVersion,
     KeepVersion, RecordEvent, Complete, NotifyCompletion, MarkFailed, RecordError,
     ConversionFails, ResultLost, EndpointFails, DatabaseFails, task
<1>4. QED
  BY <1>1, <1>2, <1>3

\* A task past its results stays there.
LEMMA PastResultsStays ==
    ASSUME Grounded, NEW h \in Harvestings, TaskStep(h), PastResults(h)
    PROVE  PastResults(h)'
<1> USE DEF PastResults, Grounded, TypeOK, Goto, DoneWith, Raise
<1>1. CASE Launch(h) \/ Step(h)
  BY <1>1 DEF Launch, Step, ReadBaseline, FetchResult, IgnoreResult, StoreVersion, KeepVersion,
     RecordEvent, RecordDeletion, EndOfResults, Complete, NotifyCompletion, MarkFailed,
     RecordError
<1>2. CASE Fault(h)
  BY <1>2 DEF Fault, ConversionFails, ResultLost, EndpointFails, DatabaseFails
<1>3. QED
  BY <1>1, <1>2 DEF TaskStep

-----------------------------------------------------------------------------
(* Preservation of the conjuncts of HistoryInv by the steps of a task      *)

\* What has been met stays so, unless the baseline changes.
LEMMA MetStays ==
    ASSUME HistoryInv, NEW h \in Harvestings, TaskStep(h), NEW g \in Harvestings, NEW s,
           previous'[g] = previous[g], Met(g, s)
    PROVE  Met(g, s)'
<1>1. existing[g] \subseteq existing'[g]
  BY ExistingGrows, OthersStay DEF HistoryInv, Grounded, TaskStep
<1>2. existing[g] \subseteq RowIds /\ previous[g] \subseteq RowIds
  BY DEF HistoryInv, TypeOK
<1>3. \A i \in RowIds : references'[i] = references[i]
  BY RowsStay DEF HistoryInv, TaskStep
<1>4. QED
  BY <1>1, <1>2, <1>3 DEF Met

LEMMA ContiguousStep ==
    ASSUME HistoryInv, NEW h \in Harvestings, TaskStep(h)
    PROVE  VersionsContiguous'
<1>1. CASE StoreVersion(h)
  <2>0. PICK i, n : i = current[h].old /\ n = Len(references) + 1
    OBVIOUS
  <2>1. current[h] \in Result /\ i \in RowIds \union {0}
    BY <1>1, <2>0 DEF HistoryInv, ResultAtHand, StoreVersion, Result
  <2>2. /\ references'[n].version = NextVersion(i)
        /\ references'[n].sid = current[h].sid
        /\ RowIds' = RowIds \union {n}
        /\ n \notin RowIds
    BY <1>1, <2>0, RowsAreReferences DEF StoreVersion, RowIds, HistoryInv, TypeOK
  <2>3. \A k \in RowIds : references'[k] = references[k]
    BY RowsStay DEF HistoryInv, TaskStep
  <2>4. references'[n].version > 0 => i \in RowIds /\ i < n /\ IsSuccessor(n, i)'
    <3> HAVE references'[n].version > 0
    <3>1. i # 0
      BY <2>2 DEF NextVersion
    <3>2. i \in RowIds /\ i < n
      BY <2>0, <2>1, <3>1, RowsAreReferences DEF HistoryInv
    <3>3. references[i].sid = current[h].sid
      BY <1>1, <2>0, <3>1 DEF HistoryInv, ResultIsMet, StoreVersion
    <3>4. QED
      BY <2>2, <2>3, <3>1, <3>2, <3>3 DEF NextVersion, IsSuccessor
  <2>5. QED
    BY <2>2, <2>3, <2>4 DEF HistoryInv, VersionsContiguous, IsSuccessor
<1>2. CASE ~StoreVersion(h)
  <2>1. references' = references
    BY <1>2 DEF TaskStep, Launch, Step, Fault, ReadBaseline, FetchResult, IgnoreResult,
       KeepVersion, RecordEvent, RecordDeletion, EndOfResults, Complete, NotifyCompletion,
       MarkFailed, RecordError, ConversionFails, ResultLost, EndpointFails, DatabaseFails,
       tables
  <2>2. QED
    BY <2>1 DEF HistoryInv, VersionsContiguous, IsSuccessor, RowIds
<1>3. QED
  BY <1>1, <1>2

LEMMA AnnouncedStep ==
    ASSUME HistoryInv, NEW h \in Harvestings, TaskStep(h)
    PROVE  BaselineWasAnnounced'
<1>1. request' = request
  BY DEF TaskStep, Launch, Step, Fault, ReadBaseline, FetchResult, IgnoreResult, StoreVersion,
     KeepVersion, RecordEvent, RecordDeletion, EndOfResults, Complete, NotifyCompletion,
     MarkFailed, RecordError, ConversionFails, ResultLost, EndpointFails, DatabaseFails
<1>2. \A g \in Harvestings : Findings(g) \subseteq Findings(g)'
  BY EventsStay DEF HistoryInv, Grounded, Findings, Deletions, EventsOf
<1>3. SUFFICES ASSUME NEW k \in Harvestings, NEW i \in previous'[k]
               PROVE  \E g \in Harvestings \ {k} :
                        /\ request[g].entity = request[k].entity
                        /\ \E e \in Findings(g) : e.row = i
  BY <1>1, <1>2 DEF BaselineWasAnnounced
<1>4. CASE k = h /\ ReadBaseline(h)
  <2>1. i \in Baseline(h)
    BY <1>3, <1>4 DEF ReadBaseline, HistoryInv, TypeOK
  <2>2. PICK e \in events : /\ e.harvesting \in LastCompletedBeside(h)
                            /\ e.type # "deleted"
                            /\ e.row = i
    BY <2>1 DEF Baseline
  <2>3. e \in Findings(e.harvesting)
    BY <2>2 DEF Findings, Deletions, EventsOf
  <2>4. QED
    BY <1>4, <2>2, <2>3 DEF LastCompletedBeside, CompletedBeside
<1>5. CASE previous'[k] = previous[k]
  BY <1>3, <1>5 DEF HistoryInv, BaselineWasAnnounced
<1>6. QED
  BY <1>4, <1>5, BaselineStays, OthersStay DEF HistoryInv, Grounded, TaskStep

\* The result fetched has been compared with the baseline.
LEMMA FetchedResultIsMet ==
    ASSUME HistoryInv, NEW h \in Harvestings, FetchResult(h)
    PROVE  /\ Met(h, current[h].sid)'
           /\ current'[h].old # 0 => references'[current'[h].old].sid = current'[h].sid
<1>1. PICK s \in Sources, c \in Contents :
         \E i \in IF RowsOf(s) = {} THEN {0} ELSE LastRows(s) :
            /\ current' = [current EXCEPT ![h] =
                             [sid |-> s, content |-> c, old |-> i, row |-> 0,
                              type |-> Kind(c, i), enhanced |-> Enhanced(i)]]
            /\ existing' = [existing EXCEPT ![h] = (@ \union {i}) \ {0}]
  BY DEF FetchResult
<1>2. PICK i \in IF RowsOf(s) = {} THEN {0} ELSE LastRows(s) :
            /\ current' = [current EXCEPT ![h] =
                             [sid |-> s, content |-> c, old |-> i, row |-> 0,
                              type |-> Kind(c, i), enhanced |-> Enhanced(i)]]
            /\ existing' = [existing EXCEPT ![h] = (@ \union {i}) \ {0}]
  BY <1>1
<1>3. /\ current'[h].sid = s
      /\ current'[h].old = i
      /\ existing'[h] = (existing[h] \union {i}) \ {0}
  BY <1>2 DEF HistoryInv, TypeOK
<1>4. references' = references /\ previous' = previous
  BY DEF FetchResult, tables
<1>5. CASE i = 0
  <2>1. RowsOf(s) = {}
    BY <1>2, <1>5, LastRowsAreRows, RowsAreReferences DEF HistoryInv
  <2>2. \A k \in previous[h] : references[k].sid # s
    BY <2>1 DEF RowsOf, HistoryInv, TypeOK
  <2>3. QED
    BY <1>3, <1>4, <1>5, <2>2 DEF Met
<1>6. CASE i # 0
  <2>1. i \in LastRows(s)
    BY <1>2, <1>6
  <2>2. references[i].sid = s
    BY <2>1, LastRowsAreRows
  <2>3. QED
    BY <1>3, <1>4, <1>6, <2>2 DEF Met
<1>7. QED
  BY <1>5, <1>6

LEMMA ResultIsMetStep ==
    ASSUME HistoryInv, NEW h \in Harvestings, TaskStep(h)
    PROVE  ResultIsMet'
<1> SUFFICES ASSUME NEW g \in Harvestings
             PROVE  /\ pc'[g] \in {"handling", "recording"} => Met(g, current[g].sid)'
                    /\ pc'[g] = "handling" /\ current'[g].old # 0 =>
                          references'[current'[g].old].sid = current'[g].sid
                    /\ pc'[g] = "recording" =>
                          references'[current'[g].row].sid = current'[g].sid
  BY DEF ResultIsMet
<1>1. CASE g # h
  <2>1. /\ pc'[g] = pc[g]
        /\ current'[g] = current[g]
        /\ previous'[g] = previous[g]
    BY <1>1, OthersStay DEF HistoryInv, TaskStep
  <2>2. \A i \in RowIds : references'[i] = references[i]
    BY RowsStay DEF HistoryInv, TaskStep
  <2>3. pc[g] \in {"handling", "recording"} =>
           current[g] \in Result /\ Met(g, current[g].sid)
    BY DEF HistoryInv, ResultAtHand, ResultIsMet
  <2>4. \A s : Met(g, s) => Met(g, s)'
    BY <2>1, MetStays
  <2>5. PICK s : s = current[g].sid
    OBVIOUS
  <2>6. Met(g, s)' => Met(g, current[g].sid)'
    BY <2>1, <2>5 DEF Met
  <2>7. QED
    BY <2>1, <2>2, <2>3, <2>4, <2>5, <2>6 DEF HistoryInv, ResultAtHand, ResultIsMet, Result
<1>2. CASE g = h /\ FetchResult(h)
  BY <1>2, FetchedResultIsMet, FetchedResultIsReady DEF HistoryInv
<1>3. CASE g = h /\ StoreVersion(h)
  <2>1. PICK s : s = current[h].sid
    OBVIOUS
  <2>2. /\ current'[h].sid = s
        /\ current'[h].row = Len(references) + 1
        /\ pc'[h] = "recording"
    <3>1. current[h] \in Result
      BY <1>3 DEF HistoryInv, ResultAtHand, StoreVersion
    <3>2. QED
      BY <1>3, <2>1, <3>1, StoredResultIsReady DEF HistoryInv, Result
  <2>3. references'[Len(references) + 1].sid = s
    BY <1>3, <2>1, RowsAreReferences DEF StoreVersion, HistoryInv, TypeOK
  <2>4. Met(h, s)
    BY <1>3, <2>1 DEF HistoryInv, ResultIsMet, StoreVersion
  <2>5. Met(h, s)'
    BY <1>3, <2>4, MetStays DEF StoreVersion
  <2>6. Met(h, current[h].sid)'
    BY <2>2, <2>5 DEF Met
  <2>7. QED
    BY <1>3, <2>2, <2>3, <2>6
<1>4. CASE g = h /\ ~FetchResult(h) /\ ~StoreVersion(h)
  BY <1>4, OtherStepsLeaveResult DEF HistoryInv, TaskStep
<1>5. QED
  BY <1>1, <1>2, <1>3, <1>4

LEMMA NothingBeforeStep ==
    ASSUME HistoryInv, NEW h \in Harvestings, TaskStep(h)
    PROVE  NothingBeforeBaseline'
<1> SUFFICES ASSUME NEW g \in Harvestings, pc'[g] \in {"absent", "launched"}
             PROVE  EventsOf(g)' = {}
  BY DEF NothingBeforeBaseline
<1>1. CASE g # h
  <2>1. pc'[g] = pc[g]
    BY <1>1, OthersStay DEF HistoryInv, TaskStep
  <2>2. QED
    BY <1>1, <2>1, EventsStay
    DEF HistoryInv, Grounded, NothingBeforeBaseline, EventsOf
<1>2. CASE g = h
  <2>1. Launch(h)
    BY <1>2 DEF TaskStep, Step, Fault, ReadBaseline, FetchResult, IgnoreResult, StoreVersion,
       KeepVersion, RecordEvent, RecordDeletion, EndOfResults, Complete, NotifyCompletion,
       MarkFailed, RecordError, ConversionFails, ResultLost, EndpointFails, DatabaseFails,
       HistoryInv, TypeOK, Goto, DoneWith, Raise
  <2>2. events' = events /\ pc[h] = "absent"
    BY <2>1 DEF Launch, tables
  <2>3. QED
    BY <1>2, <2>2 DEF HistoryInv, NothingBeforeBaseline, EventsOf
<1>3. QED
  BY <1>1, <1>2

LEMMA FindingsAreMetStep ==
    ASSUME HistoryInv, NEW h \in Harvestings, TaskStep(h)
    PROVE  FindingsAreMet'
<1> SUFFICES ASSUME NEW g \in Harvestings, NEW e \in Findings(g)'
             PROVE  Met(g, references[e.row].sid)'
  BY DEF FindingsAreMet
<1>1. e \in events' /\ e.harvesting = g /\ e.type # "deleted"
  BY DEF Findings, Deletions, EventsOf
<1>2. \A i \in RowIds : references'[i] = references[i]
  BY RowsStay DEF HistoryInv, TaskStep
<1>3. CASE e \in events
  <2>1. e \in Findings(g) /\ e.row \in RowIds
    BY <1>1, <1>3 DEF Findings, Deletions, EventsOf, HistoryInv, TypeOK, Event
  <2>2. PICK s : s = references[e.row].sid
    OBVIOUS
  <2>3. Met(g, s)
    BY <2>1, <2>2 DEF HistoryInv, FindingsAreMet
  <2>4. previous'[g] = previous[g]
    <3>1. ~(pc[g] = "launched")
      BY <2>1 DEF HistoryInv, NothingBeforeBaseline, Findings
    <3>2. QED
      BY <3>1, BaselineStays, OthersStay DEF HistoryInv, Grounded, TaskStep
  <2>5. Met(g, s)'
    BY <2>3, <2>4, MetStays
  <2>6. QED
    BY <1>2, <2>1, <2>2, <2>5 DEF Met
<1>4. CASE e \notin events
  <2>1. /\ g = h
        /\ \/ KeepVersion(h) /\ e.row = current[h].old
           \/ RecordEvent(h) /\ e.row = current[h].row
    BY <1>1, <1>4, EventsStay DEF HistoryInv, Grounded
  <2>2. /\ pc[h] \in {"handling", "recording"}
        /\ references' = references
        /\ previous' = previous
    BY <2>1 DEF KeepVersion, RecordEvent
  <2>3. references[e.row].sid = current[h].sid
    <3>1. CASE KeepVersion(h) /\ e.row = current[h].old
      <4>1. current[h].old # 0
        BY <3>1 DEF KeepVersion, StoresVersion, Kind
      <4>2. QED
        BY <3>1, <4>1 DEF KeepVersion, HistoryInv, ResultIsMet
    <3>2. CASE RecordEvent(h) /\ e.row = current[h].row
      BY <3>2 DEF RecordEvent, HistoryInv, ResultIsMet
    <3>3. QED
      BY <2>1, <3>1, <3>2
  <2>4. PICK s : s = current[h].sid
    OBVIOUS
  <2>5. Met(h, s)
    BY <2>2, <2>4 DEF HistoryInv, ResultIsMet
  <2>6. Met(h, s)'
    BY <2>2, <2>5, MetStays
  <2>7. QED
    BY <2>1, <2>2, <2>3, <2>4, <2>6 DEF Met
<1>5. QED
  BY <1>3, <1>4

\* What was not met is met by fetching a result only.
LEMMA NotMetStays ==
    ASSUME HistoryInv, NEW h \in Harvestings, TaskStep(h), NEW g \in Harvestings,
           NEW i \in previous[g], NotMet(g, i), PastResults(g)
    PROVE  i \in previous'[g] /\ NotMet(g, i)'
<1>1. previous'[g] = previous[g]
  BY BaselineStays, OthersStay DEF HistoryInv, Grounded, TaskStep, PastResults
<1>2. existing'[g] = existing[g]
  BY ExistingGrows, OthersStay DEF HistoryInv, Grounded, TaskStep, PastResults, FetchResult
<1>3. \A k \in RowIds : references'[k] = references[k]
  BY RowsStay DEF HistoryInv, TaskStep
<1>4. existing[g] \subseteq RowIds /\ i \in RowIds
  BY DEF HistoryInv, TypeOK
<1>5. QED
  BY <1>1, <1>2, <1>3, <1>4 DEF NotMet

LEMMA DeletionsStep ==
    ASSUME HistoryInv, NEW h \in Harvestings, TaskStep(h)
    PROVE  DeletionsAreNotMet'
<1> SUFFICES ASSUME NEW g \in Harvestings
             PROVE  /\ toDelete'[g] # {} \/ Deletions(g)' # {} => PastResults(g)'
                    /\ \A i \in toDelete'[g] : i \in previous'[g] /\ NotMet(g, i)'
                    /\ \A d \in Deletions(g)' : d.row \in previous'[g] /\ NotMet(g, d.row)'
  BY DEF DeletionsAreNotMet
<1>1. \A d \in Deletions(g)' : d \in Deletions(g) \/ d.row \in toDelete[g]
  BY EventsStay DEF HistoryInv, Grounded, Deletions, EventsOf
<1>2. \/ g = h /\ EndOfResults(h) /\ toDelete'[g] \subseteq Gone(g)
      \/ toDelete'[g] \subseteq toDelete[g]
  BY DeletionsShrink, OthersStay DEF HistoryInv, Grounded, TaskStep
<1>3. PastResults(g) => PastResults(g)'
  <2>1. CASE g = h
    BY <2>1, PastResultsStays DEF HistoryInv, Grounded
  <2>2. CASE g # h
    BY <2>2, OthersStay DEF PastResults, HistoryInv, TaskStep
  <2>3. QED
    BY <2>1, <2>2
<1>4. CASE toDelete'[g] \subseteq toDelete[g]
  <2>1. toDelete[g] # {} \/ Deletions(g) # {} => PastResults(g)
    BY DEF HistoryInv, DeletionsAreNotMet
  <2>2. \A i \in toDelete[g] : i \in previous'[g] /\ NotMet(g, i)'
    BY <2>1, NotMetStays DEF HistoryInv, DeletionsAreNotMet
  <2>3. \A d \in Deletions(g) : d.row \in previous'[g] /\ NotMet(g, d.row)'
    <3> SUFFICES ASSUME NEW d \in Deletions(g)
                 PROVE  d.row \in previous'[g] /\ NotMet(g, d.row)'
      OBVIOUS
    <3>1. PICK i : i = d.row
      OBVIOUS
    <3>2. i \in previous'[g] /\ NotMet(g, i)'
      BY <2>1, <3>1, NotMetStays DEF HistoryInv, DeletionsAreNotMet
    <3>3. QED
      BY <3>1, <3>2
  <2>4. QED
    BY <1>1, <1>3, <1>4, <2>1, <2>2, <2>3
<1>5. CASE g = h /\ EndOfResults(h) /\ toDelete'[g] \subseteq Gone(g)
  <2>1. /\ references' = references /\ events' = events
        /\ existing' = existing /\ previous' = previous
        /\ pc'[h] = "deleting" /\ pc[h] = "fetching"
    BY <1>5 DEF EndOfResults, Goto, tables, HistoryInv, TypeOK
  <2>2. PastResults(g)'
    BY <1>5, <2>1 DEF PastResults
  <2>3. \A i \in toDelete'[g] : i \in previous'[g] /\ NotMet(g, i)'
    BY <1>5, <2>1 DEF Gone, NotMet
  <2>4. Deletions(g)' = {}
    BY <1>5, <2>1 DEF HistoryInv, DeletionsAreNotMet, PastResults, Deletions, EventsOf
  <2>5. QED
    BY <2>2, <2>3, <2>4
<1>6. QED
  BY <1>2, <1>4, <1>5

-----------------------------------------------------------------------------
(* The theorems                                                            *)

LEMMA HistoryInvInit == Init => HistoryInv
<1> SUFFICES ASSUME Init
             PROVE  HistoryInv
  OBVIOUS
<1>1. RowIds = {}
  BY DEF Init, RowIds
<1>2. TypeOK /\ ResultAtHand
  BY TypeOKInit
<1>3. ResultIsMet /\ NothingBeforeBaseline /\ FindingsAreMet
  BY DEF Init, ResultIsMet, NothingBeforeBaseline, FindingsAreMet, Findings, EventsOf
<1>4. DeletionsAreNotMet /\ BaselineWasAnnounced
  BY DEF Init, DeletionsAreNotMet, BaselineWasAnnounced, Deletions, EventsOf
<1>5. VersionsContiguous
  BY <1>1 DEF VersionsContiguous
<1>6. QED
  BY <1>2, <1>3, <1>4, <1>5 DEF HistoryInv

\* A restart kills tasks and leaves the rest.
LEMMA HistoryInvRestart ==
    ASSUME HistoryInv, Restart
    PROVE  HistoryInv'
<1>1. /\ UNCHANGED <<tables, verdict, request, resume, task>>
      /\ \A h \in Harvestings : pc'[h] = IF Live(h) THEN "dead" ELSE pc[h]
  BY DEF Restart
<1>2. TypeOK' /\ ResultAtHand'
  BY RestartTypeOK DEF HistoryInv, Restart, Live, ResultAtHand, TypeOK
<1>3. ResultIsMet'
  BY <1>1 DEF ResultIsMet, Live, HistoryInv, TypeOK
<1>4. NothingBeforeBaseline'
  BY <1>1 DEF HistoryInv, NothingBeforeBaseline, EventsOf, Live, tables
<1>5. FindingsAreMet'
  BY <1>1 DEF HistoryInv, FindingsAreMet, Met, Findings, Deletions, EventsOf, tables, task
<1>6. DeletionsAreNotMet'
  BY <1>1 DEF HistoryInv, DeletionsAreNotMet, NotMet, PastResults, Deletions, EventsOf, Live,
     tables, task
<1>7. BaselineWasAnnounced'
  BY <1>1 DEF HistoryInv, BaselineWasAnnounced, Findings, Deletions, EventsOf, tables, task
<1>8. VersionsContiguous'
  BY <1>1 DEF HistoryInv, VersionsContiguous, IsSuccessor, RowIds, tables
<1>9. QED
  BY <1>2, <1>3, <1>4, <1>5, <1>6, <1>7, <1>8 DEF HistoryInv

LEMMA HistoryInvStutter ==
    ASSUME HistoryInv, UNCHANGED vars
    PROVE  HistoryInv'
<1>1. UNCHANGED <<references, events, dbState, errors, request, pc, resume, previous,
                  existing, current, toDelete, fetched, yielded, dropped, deployed, restarts>>
  BY DEF vars, tables, verdict, task, deployment
<1>2. RowIds' = RowIds /\ Event' = Event /\ Result' = Result
  BY <1>1, SameRows
<1>3. TypeOK' /\ ResultAtHand'
  BY <1>1, <1>2 DEF HistoryInv, TypeOK, ResultAtHand
<1>4. ResultIsMet' /\ NothingBeforeBaseline' /\ FindingsAreMet'
  BY <1>1 DEF HistoryInv, ResultIsMet, NothingBeforeBaseline, FindingsAreMet, Met, Findings,
     Deletions, EventsOf
<1>5. DeletionsAreNotMet' /\ BaselineWasAnnounced'
  BY <1>1 DEF HistoryInv, DeletionsAreNotMet, BaselineWasAnnounced, NotMet, PastResults,
     Findings, Deletions, EventsOf
<1>6. VersionsContiguous'
  BY <1>1, <1>2 DEF HistoryInv, VersionsContiguous, IsSuccessor
<1>7. QED
  BY <1>3, <1>4, <1>5, <1>6 DEF HistoryInv

LEMMA HistoryInvStep ==
    ASSUME HistoryInv, [Next]_vars
    PROVE  HistoryInv'
<1>1. CASE \E h \in Harvestings : TaskStep(h)
  <2>1. PICK h \in Harvestings : TaskStep(h)
    BY <1>1
  <2>2. TypeOK' /\ ResultAtHand'
    BY <2>1, StepTypeOK, ResultAtHandStep DEF HistoryInv, TaskStep
  <2>3. QED
    BY <2>1, <2>2, ResultIsMetStep, NothingBeforeStep, FindingsAreMetStep, DeletionsStep,
       AnnouncedStep, ContiguousStep
    DEF HistoryInv
<1>2. CASE Restart
  BY <1>2, HistoryInvRestart
<1>3. CASE UNCHANGED vars
  BY <1>3, HistoryInvStutter
<1>4. QED
  BY <1>1, <1>2, <1>3 DEF Next, TaskStep

\* What relates the tasks to the tables holds in every run of any number of harvestings.
THEOREM Invariance == Spec => []HistoryInv
<1>1. HistoryInv /\ [Next]_vars => HistoryInv'
  BY HistoryInvStep
<1>2. QED
  BY <1>1, HistoryInvInit, PTL DEF Spec

\* No harvesting reports the same reference as found and as deleted.
THEOREM NoContradiction == Spec => []NoContradictoryEvents
<1>1. HistoryInv => NoContradictoryEvents
  <2> SUFFICES ASSUME HistoryInv, NEW h \in Harvestings, NEW d \in Deletions(h),
                      NEW e \in Findings(h), references[d.row].sid = references[e.row].sid
               PROVE  FALSE
    BY DEF NoContradictoryEvents, SidsOf
  <2>1. d.row \in previous[h] /\ NotMet(h, d.row)
    BY DEF HistoryInv, DeletionsAreNotMet
  <2>2. Met(h, references[e.row].sid)
    BY DEF HistoryInv, FindingsAreMet
  <2>3. QED
    BY <2>1, <2>2 DEF Met, NotMet
<1>2. QED
  BY <1>1, Invariance, PTL

\* A reference is reported as deleted only to an entity it had been reported to.
THEOREM DeletedReferencesWereAnnounced == Spec => []DeletedWasAnnounced
<1>1. HistoryInv => DeletedWasAnnounced
  BY DEF HistoryInv, DeletionsAreNotMet, BaselineWasAnnounced, DeletedWasAnnounced
<1>2. QED
  BY <1>1, Invariance, PTL

\* The versions of a reference have no gap, whatever overlaps, fails or restarts.
THEOREM VersionsHaveNoGap == Spec => []VersionsContiguous
<1>1. HistoryInv => VersionsContiguous
  BY DEF HistoryInv
<1>2. QED
  BY <1>1, Invariance, PTL

-----------------------------------------------------------------------------
(* What rows and events tell                                               *)

\* The result fetched is described by the harvester that runs, from the last row.
LEMMA FetchedResult ==
    ASSUME TypeOK, NEW h \in Harvestings, FetchResult(h)
    PROVE  \E s \in Sources, c \in Contents : \E i \in RowIds \union {0} :
             /\ current'[h] = [sid |-> s, content |-> c, old |-> i, row |-> 0,
                               type |-> Kind(c, i), enhanced |-> Enhanced(i)]
             /\ i = 0 => RowsOf(s) = {}
             /\ i # 0 => i \in LastRows(s)
             /\ existing'[h] \subseteq existing[h] \union {i}
<1>1. PICK s \in Sources, c \in Contents :
         \E i \in IF RowsOf(s) = {} THEN {0} ELSE LastRows(s) :
            /\ current' = [current EXCEPT ![h] =
                             [sid |-> s, content |-> c, old |-> i, row |-> 0,
                              type |-> Kind(c, i), enhanced |-> Enhanced(i)]]
            /\ existing' = [existing EXCEPT ![h] = (@ \union {i}) \ {0}]
  BY DEF FetchResult
<1>2. PICK i \in IF RowsOf(s) = {} THEN {0} ELSE LastRows(s) :
            /\ current' = [current EXCEPT ![h] =
                             [sid |-> s, content |-> c, old |-> i, row |-> 0,
                              type |-> Kind(c, i), enhanced |-> Enhanced(i)]]
            /\ existing' = [existing EXCEPT ![h] = (@ \union {i}) \ {0}]
  BY <1>1
<1>3. /\ current'[h] = [sid |-> s, content |-> c, old |-> i, row |-> 0,
                        type |-> Kind(c, i), enhanced |-> Enhanced(i)]
      /\ existing'[h] = (existing[h] \union {i}) \ {0}
  BY <1>2 DEF TypeOK
<1>4. i \in RowIds \union {0} /\ (i = 0 => RowsOf(s) = {}) /\ (i # 0 => i \in LastRows(s))
  BY <1>2, LastRowsAreRows, RowsAreReferences
<1>5. QED
  BY <1>3, <1>4

\* The version stored is described as the result at hand.
LEMMA StoredRow ==
    ASSUME Grounded, NEW h \in Harvestings, StoreVersion(h), NEW n, n = Len(references) + 1
    PROVE  /\ references'[n] =
                [sid |-> current[h].sid, version |-> NextVersion(current[h].old),
                 hver |-> deployed, content |-> current[h].content,
                 converted |-> NeedsConversion(h, current[h].content, current[h].old),
                 by |-> h]
           /\ RowIds' = RowIds \union {n}
           /\ n \notin RowIds
           /\ current'[h].row = n
           /\ current'[h].old = current[h].old
           /\ current'[h].sid = current[h].sid
           /\ current'[h].content = current[h].content
           /\ current'[h].type = current[h].type
           /\ current'[h].enhanced = current[h].enhanced
<1>1. current[h] \in Result
  BY DEF StoreVersion, Grounded, ResultAtHand
<1>2. current'[h] = [current[h] EXCEPT !.row = n]
  BY StoredResultIsReady DEF Grounded
<1>3. references' = Append(references,
              [sid |-> current[h].sid, version |-> NextVersion(current[h].old),
               hver |-> deployed, content |-> current[h].content,
               converted |-> NeedsConversion(h, current[h].content, current[h].old),
               by |-> h])
  BY DEF StoreVersion
<1>4. references \in Seq(Reference) /\ RowIds = 1..Len(references) /\ Len(references) \in Nat
  BY RowsAreReferences DEF Grounded, TypeOK
<1>5. /\ RowIds' = RowIds \union {n}
      /\ n \notin RowIds
  BY <1>3, <1>4 DEF RowIds
<1>6. references'[n] =
                [sid |-> current[h].sid, version |-> NextVersion(current[h].old),
                 hver |-> deployed, content |-> current[h].content,
                 converted |-> NeedsConversion(h, current[h].content, current[h].old),
                 by |-> h]
  BY <1>3, <1>4
<1>7. QED
  BY <1>1, <1>2, <1>5, <1>6 DEF Result

\* No task changes the version of the harvester or what was asked for.
LEMMA DeploymentStays ==
    ASSUME NEW h \in Harvestings, TaskStep(h)
    PROVE  deployed' = deployed /\ request' = request
<1>1. CASE Launch(h) \/ Step(h)
  BY <1>1 DEF Launch, Step, ReadBaseline, FetchResult, IgnoreResult, StoreVersion, KeepVersion,
     RecordEvent, RecordDeletion, EndOfResults, Complete, NotifyCompletion, MarkFailed,
     RecordError, deployment
<1>2. CASE Fault(h)
  BY <1>2 DEF Fault, ConversionFails, ResultLost, EndpointFails, DatabaseFails, deployment
<1>3. QED
  BY <1>1, <1>2 DEF TaskStep

\* A result at hand stays described as it is while the row it was compared with stays.
LEMMA JudgementStays ==
    ASSUME NEW g \in Harvestings, IsJudged(g), deployed' = deployed,
           current'[g].type = current[g].type,
           current'[g].enhanced = current[g].enhanced,
           current'[g].content = current[g].content,
           current'[g].old = current[g].old,
           current'[g].sid = current[g].sid,
           current[g].old # 0 => references'[current[g].old] = references[current[g].old]
    PROVE  IsJudged(g)'
  BY DEF IsJudged, Kind, Changed, ComparisonHash, Enhanced, SemverLater, StringLater

\* A result that was stored stays stored, as rows stay.
LEMMA StoredStays ==
    ASSUME NEW g \in Harvestings, IsStored(g), deployed' = deployed,
           current'[g] = current[g],
           references'[current[g].row] = references[current[g].row],
           current[g].old # 0 => references'[current[g].old] = references[current[g].old]
    PROVE  IsStored(g)'
  BY DEF IsStored, StoresVersion, NextVersion, Kind, Changed, ComparisonHash, Enhanced,
     SemverLater, StringLater

\* The result at hand goes on telling what its row and the rows before it are.
LEMMA ResultIsTrueStep ==
    ASSUME HistoryInv, ResultIsTrue, NEW h \in Harvestings, TaskStep(h)
    PROVE  ResultIsTrue'
<1> SUFFICES ASSUME NEW g \in Harvestings
             PROVE  /\ pc'[g] \in {"handling", "recording"} => IsJudged(g)'
                    /\ pc'[g] = "recording" => IsStored(g)'
  BY DEF ResultIsTrue
<1>1. \A i \in RowIds : references'[i] = references[i]
  BY RowsStay DEF HistoryInv, TaskStep
<1>2. deployed' = deployed
  BY DeploymentStays
<1>3. pc[g] \in {"handling", "recording"} => current[g] \in Result /\ IsJudged(g)
  BY DEF HistoryInv, ResultAtHand, ResultIsTrue
<1>4. pc[g] = "recording" => IsStored(g) /\ current[g].row \in RowIds
  BY DEF HistoryInv, ResultAtHand, ResultIsTrue, Result
<1>5. current[g] \in Result /\ current[g].old # 0 =>
         references'[current[g].old] = references[current[g].old]
  BY <1>1 DEF Result
<1>6. CASE g # h
  <2>1. pc'[g] = pc[g] /\ current'[g] = current[g]
    BY <1>6, OthersStay DEF HistoryInv, TaskStep
  <2>2. QED
    BY <1>1, <1>2, <1>3, <1>4, <1>5, <2>1, JudgementStays, StoredStays
<1>7. CASE g = h /\ FetchResult(h)
  <2>1. PICK s \in Sources, c \in Contents : \E i \in RowIds \union {0} :
             /\ current'[h] = [sid |-> s, content |-> c, old |-> i, row |-> 0,
                               type |-> Kind(c, i), enhanced |-> Enhanced(i)]
             /\ i # 0 => i \in LastRows(s)
    BY <1>7, FetchedResult DEF HistoryInv
  <2>2. PICK i \in RowIds \union {0} :
             /\ current'[h] = [sid |-> s, content |-> c, old |-> i, row |-> 0,
                               type |-> Kind(c, i), enhanced |-> Enhanced(i)]
             /\ i # 0 => i \in LastRows(s)
    BY <2>1
  <2>3. references' = references
    BY <1>7 DEF FetchResult, tables
  <2>4. i # 0 => references[i].sid = s
    BY <2>2, LastRowsAreRows
  <2>5. IsJudged(h)'
    BY <1>2, <2>2, <2>3, <2>4
    DEF IsJudged, Kind, Changed, ComparisonHash, Enhanced, SemverLater, StringLater
  <2>6. pc'[h] = "handling"
    BY <1>7, FetchedResultIsReady DEF HistoryInv
  <2>7. QED
    BY <1>7, <2>5, <2>6
<1>8. CASE g = h /\ StoreVersion(h)
  <2>1. PICK n : n = Len(references) + 1
    OBVIOUS
  <2>2. pc[h] = "handling" /\ StoresVersion(current[h].content, current[h].old)
    BY <1>8 DEF StoreVersion
  <2>3. IsJudged(h)'
    BY <1>2, <1>3, <1>5, <1>8, <2>1, <2>2, StoredRow, JudgementStays
    DEF HistoryInv, Grounded
  <2>4. IsStored(h)'
    <3>1. /\ references'[n] =
                [sid |-> current[h].sid, version |-> NextVersion(current[h].old),
                 hver |-> deployed, content |-> current[h].content,
                 converted |-> NeedsConversion(h, current[h].content, current[h].old),
                 by |-> h]
          /\ current'[h].row = n
          /\ current'[h].old = current[h].old
          /\ current'[h].content = current[h].content
      BY <1>8, <2>1, StoredRow DEF HistoryInv, Grounded
    <3>2. current[h].old # 0 => references'[current[h].old] = references[current[h].old]
      BY <1>3, <1>5, <1>8, <2>2
    <3>3. QED
      BY <1>2, <2>2, <3>1, <3>2
      DEF IsStored, StoresVersion, NextVersion, Kind, Changed, ComparisonHash, Enhanced,
          SemverLater, StringLater
  <2>5. QED
    BY <1>8, <2>3, <2>4
<1>9. CASE g = h /\ ~FetchResult(h) /\ ~StoreVersion(h)
  BY <1>9, OtherStepsLeaveResult DEF HistoryInv, TaskStep
<1>10. QED
  BY <1>6, <1>7, <1>8, <1>9

\* An event says what the result at hand was, unless it is a deletion.
LEMMA NewEvents ==
    ASSUME Grounded, NEW h \in Harvestings, TaskStep(h), NEW e \in events', e \notin events
    PROVE  \/ RecordDeletion(h) /\ e.type = "deleted"
           \/ /\ KeepVersion(h)
              /\ e = [harvesting |-> h, row |-> current[h].old, type |-> current[h].type,
                      enhanced |-> current[h].enhanced]
           \/ /\ RecordEvent(h)
              /\ e = [harvesting |-> h, row |-> current[h].row, type |-> current[h].type,
                      enhanced |-> current[h].enhanced]
  BY EventsStay DEF KeepVersion, RecordEvent, AddEvent

\* An event tells the truth when it is recorded, and rows do not change.
LEMMA EventsMatchStep ==
    ASSUME HistoryInv, ResultIsTrue, EventsMatchHistory, NEW h \in Harvestings, TaskStep(h)
    PROVE  EventsMatchHistory'
<1> SUFFICES ASSUME NEW e \in events'
             PROVE  /\ e.type = "created" => references'[e.row].version = 0
                    /\ (e.type = "updated" \/ (e.type = "unchanged" /\ e.enhanced)) =>
                          \E j \in RowIds' :
                              /\ IsSuccessor(e.row, j)'
                              /\ (e.type = "updated") <=>
                                    (ComparedDigest(e.row, references[j].hver)'
                                      # Digest[references'[j].hver][references'[j].content])
  BY DEF EventsMatchHistory
<1>1. RowIds \subseteq RowIds' /\ \A i \in RowIds : references'[i] = references[i]
  BY RowsStay DEF HistoryInv, TaskStep
<1>2. CASE e \in events
  <2>1. e.row \in RowIds
    BY <1>2 DEF HistoryInv, TypeOK, Event
  <2>2. e.type = "created" => references'[e.row].version = 0
    BY <1>1, <1>2, <2>1 DEF EventsMatchHistory
  <2>3. ASSUME e.type = "updated" \/ (e.type = "unchanged" /\ e.enhanced)
        PROVE  \E j \in RowIds' :
                  /\ IsSuccessor(e.row, j)'
                  /\ (e.type = "updated") <=>
                        (ComparedDigest(e.row, references[j].hver)'
                            # Digest[references'[j].hver][references'[j].content])
    <3>1. PICK j \in RowIds :
                  /\ IsSuccessor(e.row, j)
                  /\ (e.type = "updated") <=>
                        (ComparedDigest(e.row, references[j].hver)
                            # Digest[references[j].hver][references[j].content])
      BY <1>2, <2>3 DEF EventsMatchHistory
    <3>2. /\ references'[j] = references[j]
          /\ references'[e.row] = references[e.row]
      BY <1>1, <2>1
    <3>3. QED
      BY <1>1, <3>1, <3>2 DEF IsSuccessor, ComparedDigest
  <2>4. QED
    BY <2>2, <2>3
<1>3. CASE e \notin events /\ RecordDeletion(h) /\ e.type = "deleted"
  BY <1>3
<1>4. CASE /\ KeepVersion(h)
           /\ e = [harvesting |-> h, row |-> current[h].old, type |-> current[h].type,
                   enhanced |-> current[h].enhanced]
  <2>1. current[h].type = "unchanged" /\ ~current[h].enhanced
    BY <1>4 DEF KeepVersion, StoresVersion, ResultIsTrue, IsJudged, Kind
  <2>2. QED
    BY <1>4, <2>1
<1>5. CASE /\ RecordEvent(h)
           /\ e = [harvesting |-> h, row |-> current[h].row, type |-> current[h].type,
                   enhanced |-> current[h].enhanced]
  <2>1. PICK i, n : i = current[h].old /\ n = current[h].row
    OBVIOUS
  <2>2. /\ current[h] \in Result /\ n \in RowIds /\ i \in RowIds \union {0}
        /\ IsJudged(h) /\ IsStored(h)
        /\ references[n].sid = current[h].sid
        /\ references' = references
    BY <1>5, <2>1
    DEF RecordEvent, HistoryInv, ResultAtHand, ResultIsMet, ResultIsTrue, Result
  <2>3. CASE i = 0
    <3>1. current[h].type = "created" /\ references[n].version = 0
      BY <2>1, <2>2, <2>3 DEF IsJudged, IsStored, Kind, NextVersion
    <3>2. QED
      BY <1>5, <2>1, <2>2, <3>1
  <2>4. CASE i \in RowIds
    <3>1. i # 0
      BY <2>4, RowsAreReferences DEF HistoryInv
    <3>2. IsSuccessor(n, i)
      BY <2>1, <2>2, <3>1 DEF IsSuccessor, IsJudged, IsStored, NextVersion
    <3>3. ComparedDigest(n, references[i].hver)
            = ComparisonHash(current[h].content, references[i])
      <4>1. references[n].hver \in Nat /\ references[i].hver \in Nat
        BY <2>2, <2>4, RowsAreReferences, ConstantsAssumption DEF HistoryInv, Reference
      <4>2. references[n].hver = deployed /\ references[n].content = current[h].content
        BY <2>1, <2>2 DEF IsStored
      <4>3. QED
        BY <4>1, <4>2 DEF ComparedDigest, ComparisonHash, SemverLater
    <3>4. /\ current[h].type \in {"updated", "unchanged"}
          /\ current[h].type = "updated" <=> Changed(current[h].content, references[i])
      BY <2>1, <2>2, <3>1 DEF IsJudged, Kind
    <3>5. e.type = "updated" <=>
            (ComparedDigest(n, references[i].hver)
                # Digest[references[i].hver][references[i].content])
      BY <1>5, <3>3, <3>4 DEF Changed
    <3>6. e.row = n /\ e.type # "created"
      BY <1>5, <2>1, <3>4
    <3>7. /\ IsSuccessor(n, i)'
          /\ ComparedDigest(n, references[i].hver)' = ComparedDigest(n, references[i].hver)
      BY <2>2, <3>2 DEF IsSuccessor, ComparedDigest
    <3>8. i \in RowIds'
      BY <1>1, <2>4
    <3>9. IsSuccessor(e.row, i)' /\ ComparedDigest(e.row, references[i].hver)'
             = ComparedDigest(n, references[i].hver)
      BY <3>6, <3>7 DEF IsSuccessor, ComparedDigest
    <3>10. QED
      BY <2>2, <3>5, <3>6, <3>8, <3>9
  <2>5. QED
    BY <2>2, <2>3, <2>4
<1>6. QED
  BY <1>2, <1>3, <1>4, <1>5, NewEvents DEF HistoryInv, Grounded

\* A version stored unconverted is an enhanced one, wanted as unchanged without
\* enhancements or enhanced by a version later as a string only.
LEMMA BlankRowsStep ==
    ASSUME HistoryInv, ResultIsTrue, BlankRowsAreUnrequestedEnhancements,
           NEW h \in Harvestings, TaskStep(h)
    PROVE  BlankRowsAreUnrequestedEnhancements'
<1>1. /\ RowIds \subseteq RowIds' /\ \A i \in RowIds : references'[i] = references[i]
      /\ request' = request
  BY RowsStay, DeploymentStays DEF HistoryInv, TaskStep
<1>2. ASSUME NEW i \in RowIds, ~references[i].converted
      PROVE  \E j \in RowIds' :
                /\ IsSuccessor(i, j)'
                /\ StringLater(references[i].hver, references[j].hver)
                /\ references'[j] = references[j]
                /\ \/ /\ "unchanged" \in request[references[i].by].types
                      /\ ~request[references[i].by].fetch
                   \/ /\ request[references[i].by].fetch
                      /\ ~SemverLater(references[i].hver, references[j].hver)
  <2>1. PICK j \in RowIds :
              /\ IsSuccessor(i, j)
              /\ StringLater(references[i].hver, references[j].hver)
              /\ \/ /\ "unchanged" \in request[references[i].by].types
                    /\ ~request[references[i].by].fetch
                 \/ /\ request[references[i].by].fetch
                    /\ ~SemverLater(references[i].hver, references[j].hver)
    BY <1>2 DEF BlankRowsAreUnrequestedEnhancements
  <2>2. QED
    BY <1>1, <2>1 DEF IsSuccessor
<1>3. CASE StoreVersion(h)
  <2>1. PICK n, i : n = Len(references) + 1 /\ i = current[h].old
    OBVIOUS
  <2>2. /\ references'[n] =
                [sid |-> current[h].sid, version |-> NextVersion(i),
                 hver |-> deployed, content |-> current[h].content,
                 converted |-> NeedsConversion(h, current[h].content, i),
                 by |-> h]
        /\ RowIds' = RowIds \union {n}
    BY <1>3, <2>1, StoredRow DEF HistoryInv, Grounded
  <2>3. ASSUME ~references'[n].converted
        PROVE  /\ i \in RowIds
               /\ IsSuccessor(n, i)'
               /\ StringLater(deployed, references[i].hver)
               /\ \/ "unchanged" \in request[h].types /\ ~request[h].fetch
                  \/ request[h].fetch /\ ~SemverLater(deployed, references[i].hver)
    <3>1. ~NeedsConversion(h, current[h].content, i)
      BY <2>2, <2>3
    <3>2. /\ i # 0
          /\ ~Changed(current[h].content, references[i])
          /\ ~(SemverLater(deployed, references[i].hver) /\ request[h].fetch)
      BY <3>1 DEF NeedsConversion
    <3>3. pc[h] = "handling" /\ Wanted(h, current[h].content, i)
            /\ StoresVersion(current[h].content, i)
      BY <1>3, <2>1 DEF StoreVersion
    <3>4. Kind(current[h].content, i) = "unchanged"
      BY <3>2 DEF Kind
    <3>5. StringLater(deployed, references[i].hver)
      BY <3>3, <3>4 DEF StoresVersion, Enhanced
    <3>6. "unchanged" \in request[h].types \/ request[h].fetch
      BY <3>3, <3>4 DEF Wanted, EventTypesOrDefault
    <3>7. i \in RowIds /\ references[i].sid = current[h].sid
      BY <2>1, <3>2, <3>3 DEF HistoryInv, ResultAtHand, ResultIsMet, Result
    <3>8. IsSuccessor(n, i)'
      BY <1>1, <2>2, <3>2, <3>7 DEF IsSuccessor, NextVersion
    <3>9. request[h].fetch \in BOOLEAN
      BY ConstantsAssumption DEF HistoryInv, TypeOK
    <3>10. QED
      BY <3>2, <3>5, <3>6, <3>7, <3>8, <3>9
  <2>4. ~references'[n].converted =>
           \E j \in RowIds' :
              /\ IsSuccessor(n, j)'
              /\ StringLater(references'[n].hver, references'[j].hver)
              /\ \/ "unchanged" \in request[h].types /\ ~request[h].fetch
                 \/ request[h].fetch /\ ~SemverLater(references'[n].hver, references'[j].hver)
    BY <1>1, <2>2, <2>3
  <2>5. references'[n].by = h
    BY <2>2
  <2>6. QED
    BY <1>1, <1>2, <2>2, <2>4, <2>5 DEF BlankRowsAreUnrequestedEnhancements
<1>4. CASE ~StoreVersion(h)
  <2>1. references' = references
    BY <1>4 DEF TaskStep, Launch, Step, Fault, ReadBaseline, FetchResult, IgnoreResult,
       KeepVersion, RecordEvent, RecordDeletion, EndOfResults, Complete, NotifyCompletion,
       MarkFailed, RecordError, ConversionFails, ResultLost, EndpointFails, DatabaseFails,
       tables
  <2>2. QED
    BY <1>1, <2>1 DEF BlankRowsAreUnrequestedEnhancements, IsSuccessor, RowIds
<1>5. QED
  BY <1>3, <1>4

\* A restart leaves the tables alone, and no result at hand.
LEMMA TruthInvRestart ==
    ASSUME TruthInv, Restart
    PROVE  TruthInv'
<1>1. /\ UNCHANGED <<tables, verdict, request, resume, task>>
      /\ \A h \in Harvestings : pc'[h] = IF Live(h) THEN "dead" ELSE pc[h]
  BY DEF Restart
<1>2. \A h \in Harvestings : pc'[h] \notin {"handling", "recording"}
  BY <1>1 DEF Live
<1>3. ResultIsTrue'
  BY <1>2 DEF ResultIsTrue
<1>4. EventsMatchHistory' /\ BlankRowsAreUnrequestedEnhancements'
  BY <1>1
  DEF TruthInv, EventsMatchHistory, BlankRowsAreUnrequestedEnhancements, IsSuccessor,
      ComparedDigest, RowIds, tables
<1>5. QED
  BY <1>3, <1>4 DEF TruthInv

(* Rows, results at hand and events agree with each other at any time: what *)
(* fetching, storing and recording, three awaits apart, say of one row      *)
(* (register_creation, register_update, register_unchanged).               *)
THEOREM TruthInvariance == Spec => [](HistoryInv /\ TruthInv)
<1>1. Init => TruthInv
  BY DEF Init, TruthInv, ResultIsTrue, EventsMatchHistory,
     BlankRowsAreUnrequestedEnhancements, RowIds
<1>2. HistoryInv /\ TruthInv /\ [Next]_vars => (HistoryInv /\ TruthInv)'
  <2> SUFFICES ASSUME HistoryInv, TruthInv, [Next]_vars
               PROVE  TruthInv'
    BY HistoryInvStep
  <2>1. CASE \E h \in Harvestings : TaskStep(h)
    BY <2>1, ResultIsTrueStep, EventsMatchStep, BlankRowsStep DEF TruthInv
  <2>2. CASE Restart
    BY <2>2, TruthInvRestart
  <2>3. CASE UNCHANGED vars
    <3>1. UNCHANGED <<references, events, request, deployed, pc, current>>
      BY <2>3 DEF vars, tables, task, deployment
    <3>2. ResultIsTrue'
      BY <3>1
      DEF TruthInv, ResultIsTrue, IsJudged, IsStored, Kind, Changed, ComparisonHash, Enhanced,
          StoresVersion, NextVersion, SemverLater, StringLater
    <3>3. EventsMatchHistory'
      BY <3>1 DEF TruthInv, EventsMatchHistory, IsSuccessor, ComparedDigest, RowIds
    <3>4. BlankRowsAreUnrequestedEnhancements'
      BY <3>1
      DEF TruthInv, BlankRowsAreUnrequestedEnhancements, IsSuccessor, RowIds, Enhanced,
          SemverLater, StringLater
    <3>. QED
      BY <3>2, <3>3, <3>4 DEF TruthInv
  <2>4. QED
    BY <2>1, <2>2, <2>3 DEF Next, TaskStep
<1>3. QED
  BY <1>1, <1>2, HistoryInvInit, PTL DEF Spec

\* Events tell the truth about the stored history, whatever overlaps, fails or
\* restarts between the reading of a row, the version stored after it and its event.
THEOREM EventsTellTheTruth == Spec => []EventsMatchHistory
<1>1. HistoryInv /\ TruthInv => EventsMatchHistory
  BY DEF TruthInv
<1>2. QED
  BY <1>1, TruthInvariance, PTL

\* The rows stored without conversion are enhanced versions that were not asked for.
THEOREM BlankRowsAreExplained == Spec => []BlankRowsAreUnrequestedEnhancements
<1>1. HistoryInv /\ TruthInv => BlankRowsAreUnrequestedEnhancements
  BY DEF TruthInv
<1>2. QED
  BY <1>1, TruthInvariance, PTL

-----------------------------------------------------------------------------
(* Harvestings that follow each other                                      *)

\* Once launched, a harvesting stays launched, and ended once ended.
LEMMA LaunchedStays ==
    ASSUME Grounded, NEW h \in Harvestings, TaskStep(h), NEW g \in Harvestings
    PROVE  /\ pc[g] # "absent" => pc'[g] # "absent"
           /\ pc[g] # "absent" /\ Live(g)' => Live(g)
           /\ pc[g] = "absent" /\ pc'[g] # "absent" => g = h /\ Launch(h)
<1> USE DEF Grounded, TypeOK, Goto, DoneWith, Raise, Live
<1>1. CASE g # h
  BY <1>1, OthersStay DEF TaskStep
<1>2. CASE g = h /\ Launch(h)
  BY <1>2 DEF Launch
<1>3. CASE g = h /\ ~Launch(h)
  <2>1. pc[h] \notin {"absent", "ended", "dead"}
    BY <1>3 DEF TaskStep, Step, Fault, ReadBaseline, FetchResult, IgnoreResult, StoreVersion,
       KeepVersion, RecordEvent, RecordDeletion, EndOfResults, Complete, NotifyCompletion,
       MarkFailed, RecordError, ConversionFails, ResultLost, EndpointFails, DatabaseFails
  <2>2. pc'[h] # "absent"
    <3>1. CASE Step(h)
      BY <3>1 DEF Step, ReadBaseline, FetchResult, IgnoreResult, StoreVersion,
         KeepVersion, RecordEvent, RecordDeletion, EndOfResults, Complete, NotifyCompletion,
         MarkFailed, RecordError
    <3>2. CASE Fault(h)
      BY <3>2 DEF Fault, ConversionFails, ResultLost, EndpointFails, DatabaseFails
    <3>3. QED
      BY <1>3, <3>1, <3>2 DEF TaskStep
  <2>3. QED
    BY <1>3, <2>1, <2>2
<1>4. QED
  BY <1>1, <1>2, <1>3

\* Harvestings are launched in turn, and beside those only that they may overlap.
LEMMA TurnsAreTakenStep ==
    ASSUME Grounded, TurnsAreTaken, NEW h \in Harvestings, TaskStep(h)
    PROVE  TurnsAreTaken'
<1> SUFFICES ASSUME NEW f \in Harvestings, NEW g \in Harvestings, f < g, pc'[g] # "absent"
             PROVE  pc'[f] # "absent" /\ (Live(f)' => MayOverlap(f, g)')
  BY DEF TurnsAreTaken
<1>1. MayOverlap(f, g)' <=> MayOverlap(f, g)
  BY DeploymentStays DEF MayOverlap
<1>2. CASE pc[g] # "absent"
  BY <1>1, <1>2, LaunchedStays DEF TurnsAreTaken
<1>3. CASE pc[g] = "absent"
  <2>1. g = h /\ Launch(h)
    BY <1>3, LaunchedStays
  <2>2. pc'[f] = pc[f] /\ pc[f] # "absent" /\ (Live(f) => MayOverlap(f, g))
    BY <2>1, OthersStay DEF Grounded, Launch, Harvestings
  <2>3. QED
    BY <1>1, <2>2 DEF Live
<1>4. QED
  BY <1>2, <1>3

\* At most one task runs when harvestings may not overlap.
LEMMA OneTaskRuns ==
    ASSUME TurnsAreTaken, Overlap = "none", NEW g \in Harvestings, NEW h \in Harvestings,
           Live(g), Live(h)
    PROVE  g = h
  BY DEF TurnsAreTaken, MayOverlap, Live, Harvestings

\* The task that takes a step runs, or is launched while no other runs.
LEMMA StepIsLive ==
    ASSUME NEW h \in Harvestings, TaskStep(h)
    PROVE  \/ Live(h)
           \/ Launch(h)
  BY DEF TaskStep, Step, Fault, ReadBaseline, FetchResult, IgnoreResult, StoreVersion,
     KeepVersion, RecordEvent, RecordDeletion, EndOfResults, Complete, NotifyCompletion,
     MarkFailed, RecordError, ConversionFails, ResultLost, EndpointFails, DatabaseFails, Live

\* Without overlap nothing is stored between the comparison and what is stored after it.
LEMMA ResultIsLastStep ==
    ASSUME HistoryInv, TurnsAreTaken, Overlap = "none", ResultIsLast,
           NEW h \in Harvestings, TaskStep(h)
    PROVE  ResultIsLast'
<1> SUFFICES ASSUME NEW g \in Harvestings, pc'[g] = "handling",
                    NEW k \in RowsOf(current[g].sid)'
             PROVE  /\ current'[g].old # 0
                    /\ references'[k].version <= references'[current'[g].old].version
  BY DEF ResultIsLast
<1>1. CASE g # h
  <2>1. pc[g] = "handling" /\ Live(g)
    BY <1>1, OthersStay DEF HistoryInv, TaskStep, Live
  <2>2. ~Launch(h)
    BY <2>1 DEF Launch, MayOverlap
  <2>3. QED
    BY <1>1, <2>1, <2>2, StepIsLive, OneTaskRuns
<1>2. CASE g = h
  <2>1. FetchResult(h)
    BY <1>2, OtherStepsLeaveResult, StoredResultIsReady DEF HistoryInv, TaskStep
  <2>2. PICK s \in Sources, c \in Contents : \E i \in RowIds \union {0} :
             /\ current'[h] = [sid |-> s, content |-> c, old |-> i, row |-> 0,
                               type |-> Kind(c, i), enhanced |-> Enhanced(i)]
             /\ i = 0 => RowsOf(s) = {}
             /\ i # 0 => i \in LastRows(s)
    BY <2>1, FetchedResult DEF HistoryInv
  <2>3. PICK i \in RowIds \union {0} :
             /\ current'[h] = [sid |-> s, content |-> c, old |-> i, row |-> 0,
                               type |-> Kind(c, i), enhanced |-> Enhanced(i)]
             /\ i = 0 => RowsOf(s) = {}
             /\ i # 0 => i \in LastRows(s)
    BY <2>2
  <2>4. references' = references /\ current'[h].sid = s /\ current'[h].old = i
    BY <2>1, <2>3 DEF FetchResult, tables
  <2>5. k \in RowsOf(s)
    BY <1>2, <2>4 DEF RowsOf, RowIds
  <2>6. QED
    BY <1>2, <2>3, <2>4, <2>5 DEF LastRows
<1>3. QED
  BY <1>1, <1>2

\* The version stored is later than all those of its reference.
LEMMA VersionsUniqueStep ==
    ASSUME HistoryInv, ResultIsLast, VersionsUnique, NEW h \in Harvestings, TaskStep(h)
    PROVE  VersionsUnique'
<1>1. CASE StoreVersion(h)
  <2>1. PICK n, i : n = Len(references) + 1 /\ i = current[h].old
    OBVIOUS
  <2>2. /\ references'[n] =
                [sid |-> current[h].sid, version |-> NextVersion(i),
                 hver |-> deployed, content |-> current[h].content,
                 converted |-> NeedsConversion(h, current[h].content, i),
                 by |-> h]
        /\ RowIds' = RowIds \union {n}
    BY <1>1, <2>1, StoredRow DEF HistoryInv, Grounded
  <2>3. \A k \in RowIds : references'[k] = references[k]
    BY RowsStay DEF HistoryInv, TaskStep
  <2>4. ASSUME NEW k \in RowIds, references[k].sid = current[h].sid
        PROVE  references[k].version # NextVersion(i)
    <3>1. i # 0 /\ references[k].version <= references[i].version
      BY <1>1, <2>1, <2>4 DEF StoreVersion, ResultIsLast, RowsOf
    <3>2. i \in RowIds
      BY <1>1, <2>1, <3>1 DEF StoreVersion, HistoryInv, ResultAtHand, Result
    <3>3. references[k].version \in Nat /\ references[i].version \in Nat
      BY <3>2, RowsAreReferences DEF HistoryInv, Reference
    <3>4. QED
      BY <3>1, <3>3 DEF NextVersion
  <2>5. QED
    BY <2>2, <2>3, <2>4 DEF VersionsUnique
<1>2. CASE ~StoreVersion(h)
  <2>1. references' = references
    BY <1>2 DEF TaskStep, Launch, Step, Fault, ReadBaseline, FetchResult, IgnoreResult,
       KeepVersion, RecordEvent, RecordDeletion, EndOfResults, Complete, NotifyCompletion,
       MarkFailed, RecordError, ConversionFails, ResultLost, EndpointFails, DatabaseFails,
       tables
  <2>2. QED
    BY <2>1 DEF VersionsUnique, RowIds
<1>3. QED
  BY <1>1, <1>2

\* Harvestings take their turns: the next one is launched beside those that may
\* overlap it and after the end of the others (_launch_harvesters, as the clients
\* of the service order their requests).
THEOREM TurnsTaken == Spec => [](HistoryInv /\ UniqueInv)
<1>1. Init => UniqueInv
  BY DEF Init, UniqueInv, TurnsAreTaken, ResultIsLast, VersionsUnique, RowIds
<1>2. HistoryInv /\ UniqueInv /\ [Next]_vars => (HistoryInv /\ UniqueInv)'
  <2> SUFFICES ASSUME HistoryInv, UniqueInv, [Next]_vars
               PROVE  UniqueInv'
    BY HistoryInvStep
  <2>1. CASE \E h \in Harvestings : TaskStep(h)
    <3>1. PICK h \in Harvestings : TaskStep(h)
      BY <2>1
    <3>2. TurnsAreTaken'
      BY <3>1, TurnsAreTakenStep DEF UniqueInv, HistoryInv, Grounded
    <3>3. Overlap = "none" => ResultIsLast' /\ VersionsUnique'
      BY <3>1, ResultIsLastStep, VersionsUniqueStep DEF UniqueInv
    <3>4. QED
      BY <3>2, <3>3 DEF UniqueInv
  <2>2. CASE Restart
    <3>1. /\ UNCHANGED <<tables, verdict, request, resume, task>>
          /\ \A h \in Harvestings : pc'[h] = IF Live(h) THEN "dead" ELSE pc[h]
      BY <2>2 DEF Restart
    <3>2. TurnsAreTaken'
      BY <3>1 DEF UniqueInv, TurnsAreTaken, Live
    <3>3. ResultIsLast'
      BY <3>1 DEF ResultIsLast, Live
    <3>4. Overlap = "none" => VersionsUnique'
      BY <3>1 DEF UniqueInv, VersionsUnique, RowIds, tables
    <3>5. QED
      BY <3>2, <3>3, <3>4 DEF UniqueInv
  <2>3. CASE UNCHANGED vars
    BY <2>3
    DEF UniqueInv, TurnsAreTaken, Live, MayOverlap, ResultIsLast, RowsOf, VersionsUnique,
        RowIds, vars, tables, task
  <2>4. QED
    BY <2>1, <2>2, <2>3 DEF Next, TaskStep
<1>3. QED
  BY <1>1, <1>2, HistoryInvInit, PTL DEF Spec

\* The versions of a reference are distinct when harvestings do not overlap,
\* whatever fails or restarts.
THEOREM VersionsAreDistinct ==
    ASSUME Overlap = "none"
    PROVE  Spec => []VersionsUnique
<1>1. HistoryInv /\ UniqueInv => VersionsUnique
  BY DEF UniqueInv
<1>2. QED
  BY <1>1, TurnsTaken, PTL

=============================================================================
