------------------------- MODULE HistoryTypeProofs -------------------------
(***************************************************************************)
(* Type correctness of ReferenceHistory.                                   *)
(***************************************************************************)
EXTENDS HistoryInvariants, TLAPS

\* The attributes of a task and the tables, by the lists the actions leave alone.
LEMMA SameRows ==
    ASSUME references' = references
    PROVE  /\ RowIds' = RowIds
           /\ Event' = Event
           /\ Result' = Result
  BY DEF RowIds, Event, Result

\* The baseline of a harvesting is made of rows.
LEMMA BaselineIsRows ==
    ASSUME TypeOK, NEW h \in Harvestings
    PROVE  Baseline(h) \subseteq RowIds
  BY DEF TypeOK, Baseline, Event

\* A row chosen as the last one of a reference is a row of the reference.
LEMMA LastRowsAreRows ==
    ASSUME NEW s
    PROVE  LastRows(s) \subseteq RowIds /\ \A i \in LastRows(s) : references[i].sid = s
  BY DEF LastRows, RowsOf

LEMMA KindIsNoDeletion ==
    ASSUME NEW c, NEW i
    PROVE  Kind(c, i) \in EventTypes \ {"deleted"}
  BY DEF Kind, EventTypes

\* Rows are counted from 1, and each of them is a reference.
LEMMA RowsAreReferences ==
    ASSUME TypeOK
    PROVE  /\ RowIds = 1..Len(references)
           /\ Len(references) \in Nat
           /\ \A i \in RowIds : references[i] \in Reference
  BY DEF TypeOK, RowIds

LEMMA NextVersionIsNat ==
    ASSUME TypeOK, NEW i \in RowIds \union {0}
    PROVE  NextVersion(i) \in Nat
  BY RowsAreReferences DEF NextVersion, Reference

LEMMA EnhancedIsBoolean ==
    ASSUME TypeOK, NEW i \in RowIds \union {0}
    PROVE  Enhanced(i) \in BOOLEAN
  BY DEF Enhanced

\* An event added for a row keeps the table of events well formed.
LEMMA AddedEventIsTyped ==
    ASSUME TypeOK, references' = references, NEW h \in Harvestings, NEW i \in RowIds,
           NEW t \in EventTypes, NEW x \in BOOLEAN, AddEvent(h, i, t, x)
    PROVE  events' \subseteq Event'
<1>1. events' \subseteq Event
  BY DEF TypeOK, AddEvent, Event
<1>2. QED
  BY <1>1, SameRows

-----------------------------------------------------------------------------
(* Steps                                                                   *)

LEMMA LaunchTypeOK ==
    ASSUME TypeOK, NEW h \in Harvestings, Launch(h)
    PROVE  TypeOK'
<1>1. /\ UNCHANGED <<tables, errors, request, resume, task, deployment>>
      /\ dbState' \in [Harvestings -> {"absent", "running", "completed", "failed"}]
      /\ pc' \in [Harvestings -> {"absent", "launched", "fetching", "handling", "recording",
                                  "deleting", "notifying", "failing", "reporting",
                                  "ended", "dead"}]
  BY DEF Launch, Goto, TypeOK
<1>2. QED
  BY <1>1, SameRows DEF TypeOK, tables, task, deployment

LEMMA ReadBaselineTypeOK ==
    ASSUME TypeOK, NEW h \in Harvestings, ReadBaseline(h)
    PROVE  TypeOK'
  BY SameRows, BaselineIsRows DEF ReadBaseline, Goto, TypeOK, tables, deployment

LEMMA FetchResultTypeOK ==
    ASSUME TypeOK, NEW h \in Harvestings, FetchResult(h)
    PROVE  TypeOK'
<1>1. PICK s \in Sources, c \in Contents :
         \E i \in IF RowsOf(s) = {} THEN {0} ELSE LastRows(s) :
            /\ current' = [current EXCEPT ![h] =
                             [sid |-> s, content |-> c, old |-> i, row |-> 0,
                              type |-> Kind(c, i), enhanced |-> Enhanced(i)]]
            /\ existing' = [existing EXCEPT ![h] = (@ \union {i}) \ {0}]
  BY DEF FetchResult
<1>2. PICK i \in IF RowsOf(s) = {} THEN {0} ELSE LastRows(s) :
            /\ current' = [current EXCEPT ![h] =
                             [sid |-> s, content |-> c, old |-> i, row |-> 0,
                              type |-> Kind(c, i), enhanced |-> Enhanced(i)]]
            /\ existing' = [existing EXCEPT ![h] = (@ \union {i}) \ {0}]
  BY <1>1
<1>3. i \in RowIds \union {0}
  BY LastRowsAreRows
<1>4. [sid |-> s, content |-> c, old |-> i, row |-> 0,
       type |-> Kind(c, i), enhanced |-> Enhanced(i)] \in Result
  BY <1>3, KindIsNoDeletion, EnhancedIsBoolean DEF Result
<1>5. current' \in [Harvestings -> Result \union {NoResult}]
  BY <1>2, <1>4 DEF TypeOK
<1>6. existing' \in [Harvestings -> SUBSET RowIds]
  BY <1>2, <1>3 DEF TypeOK
<1>7. fetched' \in [Harvestings -> 0..MaxResults]
  BY ConstantsAssumption DEF FetchResult, TypeOK
<1>8. QED
  BY <1>5, <1>6, <1>7, SameRows
  DEF FetchResult, Goto, TypeOK, NoResult, tables, verdict, deployment

\* The end of a turn of the loop.
LEMMA DoneWithTyped ==
    ASSUME TypeOK, NEW h \in Harvestings, current[h] \in Result, references' = references,
           DoneWith(h)
    PROVE  /\ yielded' \in [Harvestings -> SUBSET Sources]
           /\ current' \in [Harvestings -> Result \union {NoResult}]
           /\ pc' \in [Harvestings -> {"absent", "launched", "fetching", "handling",
                                       "recording", "deleting", "notifying", "failing",
                                       "reporting", "ended", "dead"}]
  BY DEF TypeOK, DoneWith, Goto, Result

LEMMA IgnoreResultTypeOK ==
    ASSUME TypeOK, ResultAtHand, NEW h \in Harvestings, IgnoreResult(h)
    PROVE  TypeOK'
<1>1. current[h] \in Result /\ references' = references /\ DoneWith(h)
  BY DEF IgnoreResult, ResultAtHand, tables
<1>2. QED
  BY <1>1, SameRows, DoneWithTyped
  DEF IgnoreResult, TypeOK, tables, verdict, deployment

LEMMA StoreVersionTypeOK ==
    ASSUME TypeOK, ResultAtHand, NEW h \in Harvestings, StoreVersion(h)
    PROVE  TypeOK'
<1> DEFINE c == current[h].content
           i == current[h].old
           ref == [sid |-> current[h].sid, version |-> NextVersion(i), hver |-> deployed,
                   content |-> c, converted |-> NeedsConversion(h, c, i), by |-> h]
<1>1. current[h] \in Result
  BY DEF StoreVersion, ResultAtHand
<1>2. ref \in Reference
  <2>1. NeedsConversion(h, c, i) \in BOOLEAN
    BY DEF NeedsConversion
  <2>2. QED
    BY <1>1, <2>1, NextVersionIsNat DEF Reference, Result, TypeOK
<1>3. references' = Append(references, ref)
  BY DEF StoreVersion
<1>4. references' \in Seq(Reference)
  BY <1>2, <1>3 DEF TypeOK
<1>5. RowIds' = RowIds \union {Len(references) + 1}
  BY <1>2, <1>3, RowsAreReferences DEF TypeOK, RowIds
<1>6. Event \subseteq Event' /\ Result \subseteq Result'
  BY <1>5 DEF Event, Result
<1>7. current' \in [Harvestings -> Result' \union {NoResult}]
  <2>1. [current[h] EXCEPT !.row = Len(references) + 1] \in Result'
    BY <1>1, <1>5 DEF Result
  <2>2. current' = [current EXCEPT ![h].row = Len(references) + 1]
    BY DEF StoreVersion
  <2>3. QED
    BY <1>6, <2>1, <2>2 DEF TypeOK
<1>8. QED
  BY <1>4, <1>5, <1>6, <1>7
  DEF StoreVersion, Goto, TypeOK, verdict, deployment, NoResult

LEMMA KeepVersionTypeOK ==
    ASSUME TypeOK, ResultAtHand, NEW h \in Harvestings, KeepVersion(h)
    PROVE  TypeOK'
<1>1. current[h] \in Result /\ references' = references /\ DoneWith(h)
  BY DEF KeepVersion, ResultAtHand
<1>2. current[h].old \in RowIds
  BY <1>1 DEF KeepVersion, StoresVersion, Kind, Result
<1>3. events' \subseteq Event'
  BY <1>1, <1>2, AddedEventIsTyped DEF KeepVersion, Result
<1>4. QED
  BY <1>1, <1>3, SameRows, DoneWithTyped
  DEF KeepVersion, TypeOK, verdict, deployment

LEMMA RecordEventTypeOK ==
    ASSUME TypeOK, ResultAtHand, NEW h \in Harvestings, RecordEvent(h)
    PROVE  TypeOK'
<1>1. current[h] \in Result /\ references' = references /\ DoneWith(h)
  BY DEF RecordEvent, ResultAtHand
<1>2. current[h].row \in RowIds
  BY <1>1 DEF RecordEvent, ResultAtHand, Result
<1>3. events' \subseteq Event'
  BY <1>1, <1>2, AddedEventIsTyped DEF RecordEvent, Result
<1>4. QED
  BY <1>1, <1>3, SameRows, DoneWithTyped
  DEF RecordEvent, TypeOK, verdict, deployment

LEMMA EndOfResultsTypeOK ==
    ASSUME TypeOK, NEW h \in Harvestings, EndOfResults(h)
    PROVE  TypeOK'
<1>1. Gone(h) \subseteq RowIds
  BY DEF Gone, TypeOK
<1>2. QED
  BY <1>1, SameRows DEF EndOfResults, Goto, TypeOK, tables, verdict, deployment

LEMMA RecordDeletionTypeOK ==
    ASSUME TypeOK, NEW h \in Harvestings, RecordDeletion(h)
    PROVE  TypeOK'
<1>1. PICK i \in toDelete[h] : /\ AddEvent(h, i, "deleted", FALSE)
                               /\ toDelete' = [toDelete EXCEPT ![h] = @ \ {i}]
  BY DEF RecordDeletion
<1>2. references' = references
  BY DEF RecordDeletion
<1>3. events' \subseteq Event'
  BY <1>1, <1>2, AddedEventIsTyped DEF TypeOK, EventTypes
<1>4. QED
  BY <1>1, <1>3, SameRows DEF RecordDeletion, TypeOK, verdict, deployment

LEMMA CompleteTypeOK ==
    ASSUME TypeOK, NEW h \in Harvestings, Complete(h) \/ NotifyCompletion(h)
    PROVE  TypeOK'
  BY SameRows
  DEF Complete, NotifyCompletion, Goto, TypeOK, tables, verdict, task, deployment

LEMMA HandleErrorTypeOK ==
    ASSUME TypeOK, NEW h \in Harvestings, MarkFailed(h) \/ RecordError(h)
    PROVE  TypeOK'
<1>1. CASE MarkFailed(h)
  BY <1>1, SameRows DEF MarkFailed, Goto, TypeOK, tables, task, deployment
<1>2. CASE RecordError(h)
  <2>1. pc' \in [Harvestings -> {"absent", "launched", "fetching", "handling", "recording",
                                 "deleting", "notifying", "failing", "reporting",
                                 "ended", "dead"}]
    BY <1>2 DEF RecordError, Goto, TypeOK
  <2>2. QED
    BY <1>2, <2>1, SameRows DEF RecordError, TypeOK, tables, task, deployment
<1>3. QED
  BY <1>1, <1>2

LEMMA ConversionFailsTypeOK ==
    ASSUME TypeOK, ResultAtHand, NEW h \in Harvestings, ConversionFails(h)
    PROVE  TypeOK'
<1>1. current[h].sid \in Sources
  BY DEF ConversionFails, ResultAtHand, Result
<1>2. QED
  BY <1>1, SameRows
  DEF ConversionFails, Raise, Goto, TypeOK, tables, verdict, deployment

LEMMA ResultLostTypeOK ==
    ASSUME TypeOK, NEW h \in Harvestings, ResultLost(h)
    PROVE  TypeOK'
<1>1. fetched' \in [Harvestings -> 0..MaxResults]
  BY ConstantsAssumption DEF ResultLost, TypeOK
<1>2. QED
  BY <1>1, SameRows DEF ResultLost, Raise, Goto, TypeOK, tables, verdict, deployment

LEMMA FailsTypeOK ==
    ASSUME TypeOK, NEW h \in Harvestings, EndpointFails(h) \/ DatabaseFails(h)
    PROVE  TypeOK'
  BY SameRows
  DEF EndpointFails, DatabaseFails, Raise, Goto, TypeOK, tables, verdict, task, deployment

LEMMA RestartTypeOK ==
    ASSUME TypeOK, Restart
    PROVE  TypeOK'
<1>1. restarts' \in 0..MaxRestarts
  BY ConstantsAssumption DEF Restart, TypeOK
<1>2. pc' \in [Harvestings -> {"absent", "launched", "fetching", "handling", "recording",
                               "deleting", "notifying", "failing", "reporting",
                               "ended", "dead"}]
  BY DEF Restart, TypeOK
<1>3. QED
  BY <1>1, <1>2, SameRows DEF Restart, TypeOK, tables, verdict, task

-----------------------------------------------------------------------------
(* The result at hand                                                      *)

\* A result stays well formed when rows are added.
LEMMA ResultsStay ==
    ASSUME RowIds \subseteq RowIds'
    PROVE  Result \subseteq Result'
  BY DEF Result

\* A task changes no attribute of another task.
LEMMA OthersStay ==
    ASSUME TypeOK, NEW h \in Harvestings, Launch(h) \/ Step(h) \/ Fault(h),
           NEW g \in Harvestings, g # h
    PROVE  /\ pc'[g] = pc[g]
           /\ resume'[g] = resume[g]
           /\ previous'[g] = previous[g]
           /\ existing'[g] = existing[g]
           /\ current'[g] = current[g]
           /\ toDelete'[g] = toDelete[g]
<1> USE DEF TypeOK, Goto, DoneWith, Raise, task
<1>1. CASE Launch(h) \/ ReadBaseline(h) \/ EndOfResults(h)
  BY <1>1 DEF Launch, ReadBaseline, EndOfResults
<1>2. CASE FetchResult(h)
  BY <1>2 DEF FetchResult
<1>3. CASE IgnoreResult(h) \/ StoreVersion(h) \/ KeepVersion(h) \/ RecordEvent(h)
  BY <1>3 DEF IgnoreResult, StoreVersion, KeepVersion, RecordEvent
<1>4. CASE RecordDeletion(h) \/ Complete(h) \/ NotifyCompletion(h)
  BY <1>4 DEF RecordDeletion, Complete, NotifyCompletion
<1>5. CASE MarkFailed(h) \/ RecordError(h)
  BY <1>5 DEF MarkFailed, RecordError
<1>6. CASE Fault(h)
  BY <1>6 DEF Fault, ConversionFails, ResultLost, EndpointFails, DatabaseFails
<1>7. QED
  BY <1>1, <1>2, <1>3, <1>4, <1>5, <1>6 DEF Step

\* Rows are only added, and only by StoreVersion.
LEMMA RowsStay ==
    ASSUME TypeOK, ResultAtHand, NEW h \in Harvestings, Launch(h) \/ Step(h) \/ Fault(h)
    PROVE  /\ RowIds \subseteq RowIds'
           /\ \A i \in RowIds : references'[i] = references[i]
<1>1. CASE StoreVersion(h)
  BY <1>1, RowsAreReferences DEF StoreVersion, RowIds, TypeOK
<1>2. CASE ~StoreVersion(h)
  <2>1. references' = references
    BY <1>2 DEF Launch, Step, Fault, ReadBaseline, FetchResult, IgnoreResult, KeepVersion,
          RecordEvent, EndOfResults, RecordDeletion, Complete, NotifyCompletion, MarkFailed,
          RecordError, ConversionFails, ResultLost, EndpointFails, DatabaseFails, tables
  <2>2. QED
    BY <2>1 DEF RowIds
<1>3. QED
  BY <1>1, <1>2

LEMMA FetchedResultIsReady ==
    ASSUME TypeOK, NEW h \in Harvestings, FetchResult(h)
    PROVE  /\ current'[h] \in Result'
           /\ current'[h].type # "deleted"
           /\ pc'[h] = "handling"
<1>1. PICK s \in Sources, c \in Contents :
         \E i \in IF RowsOf(s) = {} THEN {0} ELSE LastRows(s) :
            current' = [current EXCEPT ![h] =
                          [sid |-> s, content |-> c, old |-> i, row |-> 0,
                           type |-> Kind(c, i), enhanced |-> Enhanced(i)]]
  BY DEF FetchResult
<1>2. PICK i \in IF RowsOf(s) = {} THEN {0} ELSE LastRows(s) :
            current' = [current EXCEPT ![h] =
                          [sid |-> s, content |-> c, old |-> i, row |-> 0,
                           type |-> Kind(c, i), enhanced |-> Enhanced(i)]]
  BY <1>1
<1>3. i \in RowIds \union {0}
  BY LastRowsAreRows
<1>4. current'[h] = [sid |-> s, content |-> c, old |-> i, row |-> 0,
                     type |-> Kind(c, i), enhanced |-> Enhanced(i)]
  BY <1>2 DEF TypeOK
<1>5. current'[h] \in Result
  BY <1>3, <1>4, KindIsNoDeletion, EnhancedIsBoolean DEF Result
<1>6. Result' = Result
  BY SameRows DEF FetchResult, tables
<1>7. QED
  BY <1>4, <1>5, <1>6, KindIsNoDeletion DEF FetchResult, Goto, TypeOK

LEMMA StoredResultIsReady ==
    ASSUME TypeOK, ResultAtHand, NEW h \in Harvestings, StoreVersion(h)
    PROVE  /\ current'[h] = [current[h] EXCEPT !.row = Len(references) + 1]
           /\ current'[h].type = current[h].type
           /\ current'[h].sid = current[h].sid
           /\ current'[h] \in Result'
           /\ current'[h].row # 0
           /\ pc'[h] = "recording"
<1>1. current[h] \in Result
  BY DEF StoreVersion, ResultAtHand
<1>2. current'[h] = [current[h] EXCEPT !.row = Len(references) + 1]
  BY DEF StoreVersion, TypeOK
<1>3. RowIds' = RowIds \union {Len(references) + 1}
  BY RowsAreReferences DEF StoreVersion, RowIds, TypeOK
<1>4. current'[h] \in Result'
  BY <1>1, <1>2, <1>3 DEF Result
<1>5. QED
  BY <1>1, <1>2, <1>4, RowsAreReferences DEF StoreVersion, Goto, TypeOK, Result

\* The other steps leave the task where no result is at hand.
LEMMA OtherStepsLeaveResult ==
    ASSUME TypeOK, NEW h \in Harvestings, Launch(h) \/ Step(h) \/ Fault(h),
           ~FetchResult(h), ~StoreVersion(h)
    PROVE  pc'[h] \notin {"handling", "recording"}
<1> USE DEF TypeOK, Goto, DoneWith, Raise
<1>1. CASE Launch(h) \/ Step(h)
  BY <1>1 DEF Launch, Step, ReadBaseline, IgnoreResult, KeepVersion, RecordEvent, EndOfResults,
        RecordDeletion, Complete, NotifyCompletion, MarkFailed, RecordError
<1>2. CASE Fault(h)
  BY <1>2 DEF Fault, ConversionFails, ResultLost, EndpointFails, DatabaseFails
<1>3. QED
  BY <1>1, <1>2

LEMMA ResultAtHandStep ==
    ASSUME TypeOK, ResultAtHand, NEW h \in Harvestings, Launch(h) \/ Step(h) \/ Fault(h)
    PROVE  ResultAtHand'
<1> SUFFICES ASSUME NEW g \in Harvestings
             PROVE  /\ pc'[g] \in {"handling", "recording"} =>
                          current'[g] \in Result' /\ current'[g].type # "deleted"
                    /\ pc'[g] = "recording" => current'[g].row # 0
  BY DEF ResultAtHand
<1>1. CASE g # h
  BY <1>1, OthersStay, RowsStay, ResultsStay DEF ResultAtHand
<1>2. CASE g = h /\ FetchResult(h)
  BY <1>2, FetchedResultIsReady
<1>3. CASE g = h /\ StoreVersion(h)
  BY <1>3, StoredResultIsReady DEF ResultAtHand, StoreVersion
<1>4. CASE g = h /\ ~FetchResult(h) /\ ~StoreVersion(h)
  BY <1>4, OtherStepsLeaveResult
<1>5. QED
  BY <1>1, <1>2, <1>3, <1>4

-----------------------------------------------------------------------------
(* The theorem                                                             *)

LEMMA StepTypeOK ==
    ASSUME TypeOK, ResultAtHand, NEW h \in Harvestings, Launch(h) \/ Step(h) \/ Fault(h)
    PROVE  TypeOK'
<1>1. CASE Launch(h) \/ Step(h)
  BY <1>1, LaunchTypeOK, ReadBaselineTypeOK, FetchResultTypeOK, IgnoreResultTypeOK,
     StoreVersionTypeOK, KeepVersionTypeOK, RecordEventTypeOK, EndOfResultsTypeOK,
     RecordDeletionTypeOK, CompleteTypeOK, HandleErrorTypeOK
  DEF Step
<1>2. CASE Fault(h)
  BY <1>2, ConversionFailsTypeOK, ResultLostTypeOK, FailsTypeOK DEF Fault
<1>3. QED
  BY <1>1, <1>2

LEMMA TypeOKInit == Init => TypeOK /\ ResultAtHand
<1> SUFFICES ASSUME Init
             PROVE  TypeOK /\ ResultAtHand
  OBVIOUS
<1>1. RowIds = {} /\ references \in Seq(Reference)
  BY DEF Init, RowIds
<1>2. TypeOK
  BY <1>1, ConstantsAssumption DEF Init, TypeOK
<1>3. ResultAtHand
  BY DEF Init, ResultAtHand
<1>4. QED
  BY <1>2, <1>3

\* Every reachable state is well formed (TypeOK), which rests on the attributes
\* of the result at hand being set when they are used.
THEOREM TypeCorrectness == Spec => [](TypeOK /\ ResultAtHand)
<1>1. TypeOK /\ ResultAtHand /\ [Next]_vars => (TypeOK /\ ResultAtHand)'
  <2> SUFFICES ASSUME TypeOK, ResultAtHand, [Next]_vars
               PROVE  (TypeOK /\ ResultAtHand)'
    OBVIOUS
  <2>1. CASE \E h \in Harvestings : Launch(h) \/ Step(h) \/ Fault(h)
    BY <2>1, StepTypeOK, ResultAtHandStep
  <2>2. CASE Restart
    <3>1. ResultAtHand'
      BY <2>2 DEF Restart, Live, ResultAtHand, TypeOK
    <3>2. QED
      BY <2>2, <3>1, RestartTypeOK
  <2>3. CASE UNCHANGED vars
    <3>1. references' = references
      BY <2>3 DEF vars, tables
    <3>2. QED
      BY <2>3, <3>1, SameRows
      DEF TypeOK, ResultAtHand, vars, tables, verdict, task, deployment
  <2>4. QED
    BY <2>1, <2>2, <2>3 DEF Next
<1>2. QED
  BY <1>1, TypeOKInit, PTL DEF Spec

=============================================================================
