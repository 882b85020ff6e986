-------------------------- MODULE ReferenceHistory --------------------------
(***************************************************************************)
(* The reference history of one harvester.                                 *)
(*                                                                         *)
(* A retrieval launches one harvesting per harvester.  A harvesting reads  *)
(* the inventory left by the last completed harvesting of the same entity  *)
(* (its baseline), walks through the results of the external source,       *)
(* stores a new version of each reference that is new, changed or          *)
(* enhanced, records an event for it, and finally records a deletion for   *)
(* each reference of the baseline that the source no longer returns.       *)
(* Harvestings are asyncio tasks: every await on the database or on the    *)
(* source lets another harvesting run.  Each action below is the code      *)
(* between two such points, ending with at most one committed transaction. *)
(*                                                                         *)
(* All queries involved select on the harvester's name, so the rows of two *)
(* harvesters never meet and one harvester is modelled.                    *)
(***************************************************************************)
EXTENDS Integers, Sequences, FiniteSets

CONSTANTS
    Entities,         \* the persons references are harvested for
    Sources,          \* source identifiers of the references
    Contents,         \* what a source may say about a reference
    Versions,         \* versions of the harvester, in the order of semver
    LexRank,          \* rank of each version in the order of its string
    Digest,           \* Digest[v][c]: hash of content c by the keys of version v
    Requests,         \* what a retrieval may ask for: event types, enhancements
    Overlap,          \* which harvestings clients run at the same time
    Faults,           \* the kinds of failure that may happen
    MaxHarvestings,   \* bound on the harvestings launched
    MaxResults,       \* bound on the results of one harvesting
    MaxRestarts       \* bound on the restarts of the service

EventTypes == {"created", "updated", "deleted", "unchanged"}

Harvestings == 1..MaxHarvestings

ASSUME ConstantsAssumption ==
    /\ Versions \subseteq Nat /\ Versions # {}
    /\ LexRank \in [Versions -> Nat]
    /\ \A v \in Versions, c \in Contents : c \in DOMAIN Digest[v]
    /\ Requests \subseteq [entity : Entities, types : SUBSET EventTypes, fetch : BOOLEAN]
    /\ Requests # {}
    /\ Overlap \in {"none", "across_entities", "any"}
    /\ Faults \subseteq {"endpoint", "conversion", "result", "database", "restart"}
    /\ MaxHarvestings \in Nat /\ MaxResults \in Nat /\ MaxRestarts \in Nat

VARIABLES
    references,   \* table of reference versions, in insertion order
    events,       \* table of reference events
    dbState,      \* state column of each harvesting
    errors,       \* whether an error row exists for each harvesting
    request,      \* the retrieval each harvesting belongs to
    pc,           \* where the task running each harvesting stands
    resume,       \* where handle_error returns to
    previous,     \* rows read as previous_references at the start of the run
    existing,     \* rows collected as existing_references during the run
    current,      \* the result being handled
    toDelete,     \* deletions left to record
    fetched,      \* number of results the source has produced for the run
    yielded,      \* source identifiers handled without error (history)
    dropped,      \* source identifiers listed by the source, lost to an error (history)
    deployed,     \* version of the running harvester
    restarts      \* number of restarts so far

tables == <<references, events>>
verdict == <<dbState, errors>>
task == <<previous, existing, current, toDelete, fetched, yielded, dropped>>
deployment == <<deployed, restarts>>
vars == <<tables, verdict, request, pc, resume, task, deployment>>

-----------------------------------------------------------------------------
(* Rows                                                                    *)

RowIds == DOMAIN references

\* converted: whether the converter has filled the reference (titles, ...).
\* by: the harvesting that inserted the row (history).
Reference == [sid : Sources, version : Nat, hver : Versions, content : Contents,
              converted : BOOLEAN, by : Harvestings]

Event == [harvesting : Harvestings, row : RowIds, type : EventTypes, enhanced : BOOLEAN]

\* old and row are row ids, 0 standing for None.
Result == [sid : Sources, content : Contents, old : RowIds \union {0},
           row : RowIds \union {0}, type : EventTypes, enhanced : BOOLEAN]

NoResult == [old |-> 0, row |-> 0]

RowsOf(s) == {i \in RowIds : references[i].sid = s}

\* Slip: the rows are not ordered by version.
LastRowsUnordered(s) == RowsOf(s)

\* get_last_reference_by_source_identifier: the first row in descending order
\* of version; rows with equal versions come in any order.
LastRows(s) == {i \in RowsOf(s) : \A j \in RowsOf(s) :
                                     references[j].version <= references[i].version}

\* Slip: the harvestings of all entities are considered.
CompletedOfAnyone(h) == {g \in Harvestings : g # h /\ dbState[g] = "completed"}

\* The harvestings get_previous_references_for_entity_and_harvester chooses
\* from, and its choice: the greatest id.
CompletedBeside(h) ==
    {g \in Harvestings : /\ g # h
                         /\ dbState[g] = "completed"
                         /\ request[g].entity = request[h].entity}

LastCompletedBeside(h) == {g \in CompletedBeside(h) : \A k \in CompletedBeside(h) : k <= g}

\* Slip: references reported as deleted stay in the baseline.
BaselineWithDeleted(h) ==
    {e.row : e \in {f \in events : f.harvesting \in LastCompletedBeside(h)}}

\* previous_references.
Baseline(h) == {e.row : e \in {f \in events : /\ f.harvesting \in LastCompletedBeside(h)
                                              /\ f.type # "deleted"}}

-----------------------------------------------------------------------------
(* What the harvester decides about a result                               *)

EventTypesOrDefault(types) ==
    IF types = {} THEN {"created", "updated", "deleted"} ELSE types

SemverLater(v, w) == v > w

StringLater(v, w) == LexRank[v] > LexRank[w]

\* Slip: the keys of the running harvester are used whatever the stored row's.
ComparisonHashOfNew(c, old) == Digest[deployed][c]

\* The hash compared with the stored one is computed with the keys of the
\* older version when the harvester is newer than the stored row.
ComparisonHash(c, old) ==
    Digest[IF SemverLater(deployed, old.hver) THEN old.hver ELSE deployed][c]

Changed(c, old) == ComparisonHash(c, old) # Digest[old.hver][old.content]

\* Slip: enhancements are not converted.
NeedsConversionIfChanged(h, c, i) == i # 0 => Changed(c, references[i])

NeedsConversion(h, c, i) ==
    i # 0 => \/ Changed(c, references[i])
             \/ SemverLater(deployed, references[i].hver) /\ request[h].fetch

Enhanced(i) == i # 0 /\ StringLater(deployed, references[i].hver)

\* The kind of change a result stands for, whether or not it is asked for.
Kind(c, i) == IF i = 0 THEN "created"
              ELSE IF Changed(c, references[i]) THEN "updated" ELSE "unchanged"

\* Slip: unchanged references are never worth an event.
WantedIfChanged(h, c, i) ==
    \/ Kind(c, i) \in EventTypesOrDefault(request[h].types) \ {"unchanged"}
    \/ (Enhanced(i) /\ request[h].fetch)

Wanted(h, c, i) ==
    \/ Kind(c, i) \in EventTypesOrDefault(request[h].types)
    \/ (Enhanced(i) /\ request[h].fetch)

StoresVersion(c, i) == Kind(c, i) # "unchanged" \/ Enhanced(i)

\* Slip: rows are compared instead of their source identifiers.
GoneRows(h) == previous[h] \ existing[h]

\* The rows of the baseline whose source identifier was not met by the run.
Gone(h) == {i \in previous[h] : \A j \in existing[h] :
                                   references[j].sid # references[i].sid}

\* Slip: versions are numbered by counting the rows.
NextVersionByCount(i) == IF i = 0 THEN 0 ELSE Cardinality(RowsOf(references[i].sid))

NextVersion(i) == IF i = 0 THEN 0 ELSE references[i].version + 1

-----------------------------------------------------------------------------
(* Steps of a harvesting                                                   *)

Live(h) == pc[h] \notin {"absent", "ended", "dead"}

Goto(h, step) == pc' = [pc EXCEPT ![h] = step]

\* The end of a turn of the loop of run on the result at hand.
DoneWith(h) ==
    /\ yielded' = [yielded EXCEPT ![h] = @ \union {current[h].sid}]
    /\ current' = [current EXCEPT ![h] = NoResult]
    /\ Goto(h, "fetching")

\* create_reference_event
AddEvent(h, i, type, enhanced) ==
    events' = events \union
        {[harvesting |-> h, row |-> i, type |-> type, enhanced |-> enhanced]}

MayOverlap(g, h) ==
    \/ Overlap = "any"
    \/ (Overlap = "across_entities" /\ request[g].entity # request[h].entity)

\* One turn of the loop of _launch_harvesters: the harvesting row is inserted
\* as running and the task that runs the harvester is created.
Launch(h) ==
    /\ pc[h] = "absent"
    /\ \A g \in Harvestings : g < h => pc[g] # "absent"
    /\ \A g \in Harvestings : Live(g) => MayOverlap(g, h)
    /\ dbState' = [dbState EXCEPT ![h] = "running"]
    /\ Goto(h, "launched")
    /\ UNCHANGED <<tables, errors, request, resume, task, deployment>>

\* The head of run, up to the reading of previous_references.
ReadBaseline(h) ==
    /\ pc[h] = "launched"
    /\ dbState' = [dbState EXCEPT ![h] = "running"]
    /\ previous' = [previous EXCEPT ![h] = Baseline(h)]
    /\ Goto(h, "fetching")
    /\ UNCHANGED <<tables, errors, request, resume, existing, current, toDelete,
                   fetched, yielded, dropped, deployment>>

\* The source produces a result, build computes its hash and exists looks for
\* the last stored version.
FetchResult(h) ==
    /\ pc[h] = "fetching"
    /\ fetched[h] < MaxResults
    /\ \E s \in Sources, c \in Contents :
         \E i \in IF RowsOf(s) = {} THEN {0} ELSE LastRows(s) :
            /\ current' = [current EXCEPT ![h] =
                             [sid |-> s, content |-> c, old |-> i, row |-> 0,
                              type |-> Kind(c, i), enhanced |-> Enhanced(i)]]
            /\ existing' = [existing EXCEPT ![h] = (@ \union {i}) \ {0}]
    /\ fetched' = [fetched EXCEPT ![h] = @ + 1]
    /\ Goto(h, "handling")
    /\ UNCHANGED <<tables, verdict, request, resume, previous, toDelete, yielded,
                   dropped, deployment>>

\* A result the request is not interested in leaves no trace.
IgnoreResult(h) ==
    /\ pc[h] = "handling"
    /\ ~Wanted(h, current[h].content, current[h].old)
    /\ DoneWith(h)
    /\ UNCHANGED <<tables, verdict, request, resume, previous, existing,
                   toDelete, fetched, dropped, deployment>>

\* First transaction of register_creation, of register_update, and of
\* register_unchanged for an enhanced reference: the new version is inserted.
StoreVersion(h) ==
    LET c == current[h].content
        i == current[h].old
    IN  /\ pc[h] = "handling"
        /\ Wanted(h, c, i)
        /\ StoresVersion(c, i)
        /\ references' = Append(references,
              [sid |-> current[h].sid, version |-> NextVersion(i), hver |-> deployed,
               content |-> c, converted |-> NeedsConversion(h, c, i), by |-> h])
        /\ current' = [current EXCEPT ![h].row = Len(references) + 1]
        /\ Goto(h, "recording")
        /\ UNCHANGED <<events, verdict, request, resume, previous, existing, toDelete,
                       fetched, yielded, dropped, deployment>>

\* register_unchanged for a reference that is not enhanced: the only insertion
\* is an event on the row already there.
KeepVersion(h) ==
    /\ pc[h] = "handling"
    /\ Wanted(h, current[h].content, current[h].old)
    /\ ~StoresVersion(current[h].content, current[h].old)
    /\ AddEvent(h, current[h].old, current[h].type, current[h].enhanced)
    /\ DoneWith(h)
    /\ UNCHANGED <<references, verdict, request, resume, previous, existing,
                   toDelete, fetched, dropped, deployment>>

\* Slip: the event points to the row that exists had found.
RecordEventOfOld(h) ==
    /\ pc[h] = "recording"
    /\ AddEvent(h, current[h].old, current[h].type, current[h].enhanced)
    /\ DoneWith(h)
    /\ UNCHANGED <<references, verdict, request, resume, previous, existing,
                   toDelete, fetched, dropped, deployment>>

\* Second transaction of the register_ methods: the event is inserted.
RecordEvent(h) ==
    /\ pc[h] = "recording"
    /\ AddEvent(h, current[h].row, current[h].type, current[h].enhanced)
    /\ DoneWith(h)
    /\ UNCHANGED <<references, verdict, request, resume, previous, existing,
                   toDelete, fetched, dropped, deployment>>

\* The results are exhausted: the rows to report as deleted are computed, from
\* the requested types as they were given, without the default.
EndOfResults(h) ==
    /\ pc[h] = "fetching"
    /\ toDelete' = [toDelete EXCEPT ![h] =
          IF "deleted" \in request[h].types THEN Gone(h) ELSE {}]
    /\ Goto(h, "deleting")
    /\ UNCHANGED <<tables, verdict, request, resume, previous, existing, current,
                   fetched, yielded, dropped, deployment>>

\* One turn of the loop of _register_deleted_references.
RecordDeletion(h) ==
    /\ pc[h] = "deleting"
    /\ \E i \in toDelete[h] :
         /\ AddEvent(h, i, "deleted", FALSE)
         /\ toDelete' = [toDelete EXCEPT ![h] = @ \ {i}]
    /\ UNCHANGED <<references, verdict, request, pc, resume, previous, existing, current,
                   fetched, yielded, dropped, deployment>>

\* The state becomes completed, whatever it was.
Complete(h) ==
    /\ pc[h] = "deleting"
    /\ toDelete[h] = {}
    /\ dbState' = [dbState EXCEPT ![h] = "completed"]
    /\ Goto(h, "notifying")
    /\ UNCHANGED <<tables, errors, request, resume, task, deployment>>

\* The final state is read again and put in the queue: the task returns.
NotifyCompletion(h) ==
    /\ pc[h] = "notifying"
    /\ Goto(h, "ended")
    /\ UNCHANGED <<tables, verdict, request, resume, task, deployment>>

-----------------------------------------------------------------------------
(* Failures                                                                *)

\* Slip: the error is not recorded.
MarkFailedSilently(h) ==
    /\ pc[h] = "failing"
    /\ dbState' = [dbState EXCEPT ![h] = "failed"]
    /\ Goto(h, resume[h])
    /\ UNCHANGED <<tables, errors, request, resume, task, deployment>>

\* Slip: the state is not updated.
MarkFailedWithoutState(h) ==
    /\ pc[h] = "failing"
    /\ Goto(h, "reporting")
    /\ UNCHANGED <<tables, verdict, request, resume, task, deployment>>

\* The exception handlers of run call handle_error, whose first transaction
\* marks the harvesting as failed and whose second one records the error.
MarkFailed(h) ==
    /\ pc[h] = "failing"
    /\ dbState' = [dbState EXCEPT ![h] = "failed"]
    /\ Goto(h, "reporting")
    /\ UNCHANGED <<tables, errors, request, resume, task, deployment>>

RecordError(h) ==
    /\ pc[h] = "reporting"
    /\ errors' = [errors EXCEPT ![h] = TRUE]
    /\ Goto(h, resume[h])
    /\ UNCHANGED <<tables, dbState, request, resume, task, deployment>>

\* Slip: all exceptions are handled within the loop.
RaiseWithinLoop(h, step) ==
    /\ Goto(h, "failing")
    /\ resume' = [resume EXCEPT ![h] = "fetching"]

Raise(h, step) ==
    /\ Goto(h, "failing")
    /\ resume' = [resume EXCEPT ![h] = step]

\* The converter rejects a result (UnexpectedFormatException): the error is
\* handled and the loop goes on.
ConversionFails(h) ==
    /\ "conversion" \in Faults
    /\ pc[h] = "handling"
    /\ NeedsConversion(h, current[h].content, current[h].old)
    /\ dropped' = [dropped EXCEPT ![h] = @ \union {current[h].sid}]
    /\ current' = [current EXCEPT ![h] = NoResult]
    /\ Raise(h, "fetching")
    /\ UNCHANGED <<tables, verdict, request, previous, existing, toDelete,
                   fetched, yielded, deployment>>

\* A secondary query of the IdRef harvester fails: fetch_results handles the
\* error itself and never yields the publication the source has listed.
ResultLost(h) ==
    /\ "result" \in Faults
    /\ pc[h] = "fetching"
    /\ fetched[h] < MaxResults
    /\ \E s \in Sources : dropped' = [dropped EXCEPT ![h] = @ \union {s}]
    /\ fetched' = [fetched EXCEPT ![h] = @ + 1]
    /\ Raise(h, "fetching")
    /\ UNCHANGED <<tables, verdict, request, previous, existing, current, toDelete,
                   yielded, deployment>>

\* The source fails (ExternalEndpointFailure, or a response that cannot be
\* parsed): the run is over.
EndpointFails(h) ==
    /\ "endpoint" \in Faults
    /\ pc[h] = "fetching"
    /\ Raise(h, "ended")
    /\ UNCHANGED <<tables, verdict, request, task, deployment>>

\* A database call raises and its transaction is rolled back.  Only what run
\* does inside its try block is handled; an exception raised by handle_error
\* within the loop gets a second chance in the outer handlers, one raised in
\* those escapes from the task.
DatabaseFails(h) ==
    /\ "database" \in Faults
    /\ \/ /\ \/ pc[h] \in {"fetching", "handling", "recording", "deleting", "notifying"}
             \/ (pc[h] \in {"failing", "reporting"} /\ resume[h] = "fetching")
          /\ Raise(h, "ended")
       \/ /\ \/ pc[h] = "launched"
             \/ (pc[h] \in {"failing", "reporting"} /\ resume[h] = "ended")
          /\ Goto(h, "dead")
          /\ UNCHANGED resume
    /\ UNCHANGED <<tables, verdict, request, task, deployment>>

\* The process stops and starts again, with another version of the harvester
\* perhaps: the tasks are gone, the database is not.
Restart ==
    /\ "restart" \in Faults
    /\ restarts < MaxRestarts
    /\ deployed' \in Versions
    /\ restarts' = restarts + 1
    /\ pc' = [h \in Harvestings |-> IF Live(h) THEN "dead" ELSE pc[h]]
    /\ UNCHANGED <<tables, verdict, request, resume, task>>

-----------------------------------------------------------------------------

Init ==
    /\ references = <<>>
    /\ events = {}
    /\ dbState = [h \in Harvestings |-> "absent"]
    /\ errors = [h \in Harvestings |-> FALSE]
    /\ request \in [Harvestings -> Requests]
    /\ pc = [h \in Harvestings |-> "absent"]
    /\ resume = [h \in Harvestings |-> "ended"]
    /\ previous = [h \in Harvestings |-> {}]
    /\ existing = [h \in Harvestings |-> {}]
    /\ current = [h \in Harvestings |-> NoResult]
    /\ toDelete = [h \in Harvestings |-> {}]
    /\ fetched = [h \in Harvestings |-> 0]
    /\ yielded = [h \in Harvestings |-> {}]
    /\ dropped = [h \in Harvestings |-> {}]
    /\ deployed \in Versions
    /\ restarts = 0

\* What the task of a harvesting does by itself.
Step(h) ==
    \/ ReadBaseline(h)
    \/ FetchResult(h)
    \/ IgnoreResult(h)
    \/ StoreVersion(h)
    \/ KeepVersion(h)
    \/ RecordEvent(h)
    \/ EndOfResults(h)
    \/ RecordDeletion(h)
    \/ Complete(h)
    \/ NotifyCompletion(h)
    \/ MarkFailed(h)
    \/ RecordError(h)

Fault(h) ==
    \/ ConversionFails(h)
    \/ ResultLost(h)
    \/ EndpointFails(h)
    \/ DatabaseFails(h)

Next ==
    \/ \E h \in Harvestings : Launch(h) \/ Step(h) \/ Fault(h)
    \/ Restart

Spec == Init /\ [][Next]_vars

\* The event loop keeps scheduling a task that is ready, and the clients, the
\* faults and the restarts are free not to happen.
FairSpec == Spec /\ \A h \in Harvestings : WF_vars(Step(h))

-----------------------------------------------------------------------------
(* Properties                                                              *)

\* Every variable keeps the shape its table, its column or its attribute has.
TypeOK ==
    /\ references \in Seq(Reference)
    /\ events \subseteq Event
    /\ dbState \in [Harvestings -> {"absent", "running", "completed", "failed"}]
    /\ errors \in [Harvestings -> BOOLEAN]
    /\ request \in [Harvestings -> Requests]
    /\ pc \in [Harvestings -> {"absent", "launched", "fetching", "handling", "recording",
                               "deleting", "notifying", "failing", "reporting",
                               "ended", "dead"}]
    /\ resume \in [Harvestings -> {"fetching", "ended"}]
    /\ previous \in [Harvestings -> SUBSET RowIds]
    /\ existing \in [Harvestings -> SUBSET RowIds]
    /\ current \in [Harvestings -> Result \union {NoResult}]
    /\ toDelete \in [Harvestings -> SUBSET RowIds]
    /\ fetched \in [Harvestings -> 0..MaxResults]
    /\ yielded \in [Harvestings -> SUBSET Sources]
    /\ dropped \in [Harvestings -> SUBSET Sources]
    /\ deployed \in Versions
    /\ restarts \in 0..MaxRestarts

EventsOf(h) == {e \in events : e.harvesting = h}

SidsOf(E) == {references[e.row].sid : e \in E}

Deletions(h) == {e \in EventsOf(h) : e.type = "deleted"}

Findings(h) == EventsOf(h) \ Deletions(h)

IsSuccessor(i, j) ==
    /\ references[i].sid = references[j].sid
    /\ references[i].version = references[j].version + 1

\* The versions of a reference have no gap, however many harvestings store
\* versions of it at once: whatever is at version n > 0 was preceded by a row at
\* version n - 1 (register_update and register_unchanged, which number the
\* version they store from a row read before).
VersionsContiguous ==
    \A i \in RowIds : references[i].version > 0 =>
        \E j \in RowIds : j < i /\ IsSuccessor(i, j)

\* A harvesting never reports as deleted a reference it has itself reported as
\* created, updated or unchanged (_register_deleted_references against the
\* results of the same run, although the baseline was read before them and other
\* harvestings were storing references meanwhile).
NoContradictoryEvents ==
    \A h \in Harvestings : SidsOf(Deletions(h)) \cap SidsOf(Findings(h)) = {}

\* A reference is reported as deleted only to the entity it had been reported
\* to, by another harvesting (get_previous_references_for_entity_and_harvester).
DeletedWasAnnounced ==
    \A h \in Harvestings : \A d \in Deletions(h) :
        \E g \in Harvestings \ {h} :
            /\ request[g].entity = request[h].entity
            /\ \E e \in Findings(g) : e.row = d.row

\* The digests two rows are compared by: the keys of the older harvester.
ComparedDigest(i, v) == Digest[IF references[i].hver > v THEN v ELSE references[i].hver]
                              [references[i].content]

\* Events tell the truth about the stored history.  A created row is a first
\* version.  An updated row succeeds one whose content differed in the fields
\* that the older of their two harvesters watches; an enhanced unchanged row
\* succeeds one that did not (run, _handle_converted_result).
EventsMatchHistory ==
    \A e \in events :
        /\ e.type = "created" => references[e.row].version = 0
        /\ (e.type = "updated" \/ (e.type = "unchanged" /\ e.enhanced)) =>
              \E j \in RowIds :
                  /\ IsSuccessor(e.row, j)
                  /\ (e.type = "updated") <=>
                        (ComparedDigest(e.row, references[j].hver)
                            # Digest[references[j].hver][references[j].content])

\* The only rows stored without having been converted are enhanced versions,
\* stored by a harvesting that asked for unchanged references and not for
\* enhancements, or by a harvester whose version is later than that of the row
\* before as a string and not as a version (the condition on convert in run
\* against the one on return_anyway in _handle_converted_result).
BlankRowsAreUnrequestedEnhancements ==
    \A i \in RowIds : ~references[i].converted =>
        LET q == request[references[i].by]
        IN  \E j \in RowIds :
              /\ IsSuccessor(i, j)
              /\ StringLater(references[i].hver, references[j].hver)
              /\ \/ "unchanged" \in q.types /\ ~q.fetch
                 \/ q.fetch /\ ~SemverLater(references[i].hver, references[j].hver)

\* A completed harvesting has recorded an event for every version it stored,
\* although versions and events are inserted by separate transactions.
CompletedReportsItsVersions ==
    \A i \in RowIds : dbState[references[i].by] = "completed" =>
        \E e \in Findings(references[i].by) : e.row = i

\* A harvesting that reports as deleted a reference which the source does list,
\* but whose details could not be retrieved, has an error on record.
FalseDeletionsHaveAnError ==
    \A h \in Harvestings : SidsOf(Deletions(h)) \cap dropped[h] # {} => errors[h]

\* A completed harvesting without errors that was asked for all types of events
\* reports exactly what the source returned; one that was asked for deletions
\* reports exactly what was in its baseline and was not returned, reported or
\* not, whatever ran, failed or restarted beside it (run).
CleanRunReportsExactly ==
    \A h \in Harvestings : dbState[h] = "completed" /\ ~errors[h] =>
        /\ request[h].types = EventTypes => SidsOf(Findings(h)) = yielded[h]
        /\ "deleted" \in request[h].types =>
              SidsOf(Deletions(h)) = {references[i].sid : i \in previous[h]} \ yielded[h]

\* A task that has returned has left a verdict, and a failed one its error;
\* only a dead task leaves its harvesting running (run, handle_error).
VerdictIsExplained ==
    \A h \in Harvestings : pc[h] = "ended" =>
        dbState[h] = "completed" \/ (dbState[h] = "failed" /\ errors[h])

\* The rows of a reference have distinct versions, so that a reference can be
\* retrieved by source identifier and version (true of runs that do not overlap).
VersionsUnique ==
    \A i, j \in RowIds :
        /\ references[i].sid = references[j].sid
        /\ references[i].version = references[j].version
        => i = j

(* The task of a harvesting that was launched returns, and leaves a        *)
(* verdict, unless it was killed by a restart or by a failure of the       *)
(* database that nothing handles.  The state that handle_error writes      *)
(* within the loop is no end: the run goes on.                             *)
LaunchedRunsEnd ==
    \A h \in Harvestings :
        pc[h] = "launched" ~> \/ pc[h] = "dead"
                              \/ pc[h] = "ended" /\ dbState[h] \in {"completed", "failed"}

\* Stored references have been converted and validated.
StoredReferencesAreConverted == \A i \in RowIds : references[i].converted

=============================================================================
