# A verification of svp-harvester

SVP Harvester collects the bibliographic references of a research institution's members from
HAL, IdRef (with SUDOC, Persée, Science+, OpenEdition), ScanR, OpenAlex and Scopus. A client (a
message on RabbitMQ, or an HTTP call) asks for the references of a person; the service resolves
the person, launches one harvester per source, stores every new version of every reference,
records what changed since the last time as *reference events*, and sends them to the client.

This directory holds TLA+ models of that code, the TLC runs that check them, and theorems that TLAPS
proves. The first half describes the whole system, the plan and what comes next; the second half
describes what is built (sections 3 to 8) and what came out of it (section 9). Paths are relative to
`src/`.

## 1. Inventory

The service is one Python process on one asyncio event loop. There are no threads: two pieces of
code interleave only at an `await`. What outlives the process is the PostgreSQL database (through
SQLAlchemy, one session per method, default isolation READ COMMITTED), the RabbitMQ queue and the
Redis cache.

    RabbitMQ --> AMQP consumer --> inner queue --> workers --> retrieval service --> harvesters
    HTTP API ------------------------------------------------^     |                  |  |  ^
    RabbitMQ <-- publisher <-- listener <-- result queue <---------|------------------'  |  |
                                                                   v                     v  |
                                                          entity resolution    recorder  clients
                                                                   |               |    converters
                                                                   '-- PostgreSQL -'    caches

| Component | State it keeps | Operations | Hard behaviours | What makes it correct |
|---|---|---|---|---|
| Harvester run and history: `app/harvesters/abstract_harvester.py`, `app/db/references/references_recorder.py`, reference, event, harvesting and error DAOs | tables of reference versions, events, harvestings, errors; per task: baseline, existing references, result at hand | `run`, `register_creation`, `register_update`, `register_unchanged`, `register_deletion`, `handle_error` | runs of several entities interleave on the same references; rows read in one transaction are used in another; partial failures inside and outside the `try`; restarts; upgrades and rollbacks of harvester versions | versions without gap or duplicate; events that tell the truth; no contradiction between found and deleted; a verdict and an error for every failure |
| Retrieval service: `app/services/retrieval/retrieval_service.py` | retrieval, entity; tasks launched | `register`, `run`, `_launch_harvesters` | resolve and save are two transactions; failure in the launch loop | one retrieval per request; every launched harvesting is awaited |
| Entity resolution: `app/services/entities/entity_resolution_service.py`, `app/db/daos/entity_dao.py` | persons and identifiers | `resolve`, nullification, safe mode | two registrations of one person at once; choice among several matching entities; removal from a list being iterated | no identifier owned by two entities; nullified identifiers are gone |
| AMQP consumer and workers: `app/amqp/amqp_interface.py`, `app/amqp/amqp_message_processor.py` | inner queue, unfinished count, workers, reconnect event, disconnected flag | `listen`, `wait_for_message`, `stop_listening` | messages acknowledged before being processed; exceptions of every kind; workers that return; shutdown | no message processed twice; the shutdown ends; what is lost is lost for a stated reason |
| AMQP replies: same file, `app/amqp/amqp_message_publisher.py`, the factories | result queue, listener, launcher, publication tasks | `_process_message`, `_wait_for_retrieval_result`, `_put_in_queue` | first-completed wait, cancellation, timeout, bounded queue, publications that overtake each other | each event published at most once; all of them when nothing fails |
| Get or create of shared records: `app/harvesters/abstract_references_converter.py`, its DAOs, `app/db/trigger/journal_issn_trigger.py` | contributors, concepts, organizations, journals, issues, books, document types | `get_or_create_*`, the merge of a finished reference | two harvesters insert one record; unique constraint, rollback and a single retry; a trigger that does not see uncommitted rows; detached objects merged late | one retry is enough against a race; two rows for one record only after one; no name and no label lost without one |
| The harvest from a source: the harvesters, `abstract_harvester.py`, the converters, the hash service | results seen so far, hashes of the stored references | `fetch_results`, `build`, `exists`, `convert` | a list that changes under the paging; a payload no converter can stand; a hash that does not see what changed | deletions are true; each publication once; what is stored follows the source |
| IdRef secondary queries: `app/harvesters/idref/idref_harvester.py` | pending queries and counters | `fetch_results`, `_secondary_query_process` | batches, one query of several failing, conversions beside the queries | each publication listed is yielded or reported as an error; no more requests to SUDOC than allowed |
| Paging clients: `scanr_elastic_client.py`, `open_alex_client.py`, `scopus_client.py`, `hal_api_client.py` | cursor, count | `fetch_*` | result counts at page boundaries, wrong totals | each hit once; the loop ends |
| Third-party cache, Redis pool: `app/services/cache/third_api_cache.py`, `app/redis/redis_pool.py` | cached responses | `get`, `set` | failure between write and expiry | no entry for ever |
| Concept and organization solvers: `app/services/concepts`, `app/services/organizations` | none | `complete_information`, `solve` | remote failures, timeouts, records that lack what is sought | the exception the caller is written for, and no other |
| Concept dereferencing job: `app/services/jobs/concept_dereferencing_job.py` | concepts to dereference | `run` | concept read, slow remote call, concept written beside conversions that hold it | a flagged concept has labels; every run ends |
| Query builders, converters, document types, roles, hash service, identifier inference, Pydantic models | none | pure functions | a field that is absent or malformed; a field that is hashed and not read, or the reverse | a flawed record does not take the others with it; a change is seen |
| Application start, settings, HTTP API, GUI, migrations | startup order, settings | routes | readiness before the connection is up | readiness tells the truth |

`PROJECT.json` lists these parts with their files, and every behaviour that is hard to test at
the line where it bites ("hazards"), with the properties that cover it.

How they interact. The consumer puts messages in a bounded `asyncio.Queue`; each worker takes one,
calls `RetrievalService.register` and `run` and waits. `run` inserts a row per harvester and
creates a task per harvester. With a reply expected, harvesters put their results in a second
bounded queue, which a listener task empties into the publisher. Harvesters share nothing in
memory: they meet only in the database, on the descriptive records and, for one harvester and
several retrievals, on the versions of the references.

## 2. Plan

| Order | Modules | Composes | Abstract specification | Runs | Theorems |
|---|---|---|---|---|---|
| A, built | `ReferenceHistory` | the run of harvesters, the recorder, the tables | `Inventory`, implemented through `HistoryRefinement` | faults, overlap, enhancements, inventory, two findings | all safety properties; `ImplementsInventory` |
| B, built | `AmqpConsumer` | listener, inner queue, workers, shutdown, restart | | one with failures of each kind | all safety properties |
| C, built | `RetrievalReply` | launcher, harvesters as producers, result queue, listener, publications | later: a client's stream, each message at most once, then silence | one with failures of each kind | all safety properties |
| D, built | `EntityResolution` | two registrations, the tables of entities | later: a directory of persons | one with alone and overlapping registrations | types and all action properties |
| E, built | `Authorities`, `GetOrCreate` | conversions, unique indexes, retry, ISSN trigger, solvers, dereferencing job | | one with up to three conversions and the job | all safety properties |
| F, built | `Conversion`, `Sources`, `Paging`, `SecondaryQueries`, `SourceHarvest` | a source that changes, its client, the tasks of IdRef with their cache, the loop of the harvester | | one over all sources, one finding | all safety properties |
| G, left | start order and readiness; nullification and the order of versions as functions against reference definitions | | | bounded inputs | |

The order follows the value of what is lost: the history is what clients build on and can never be
recomputed; the AMQP path can lose requests and answers; what the sources say can be asked again.

Every safety invariant, action property and refinement that a run checks is also a theorem, for
every value of the constants; the eight liveness properties are checked by TLC only, since the
prover has no rule for fairness and ENABLED. `PROJECT.json` lists the theorems with what each says.

Conventions of all modules: parameters are CONSTANTS with one named assumption; one action per
step between two awaits that matter; a definition whose comment starts with *Slip* is never used
by the model: it is a plausible mistake in the definition that follows it, and the run named in
`PROJECT.json` must reject it. Recursion is avoided in every module with theorems.

## 3. The reference history

### Modules

* `ReferenceHistory`: the harvestings of one harvester for several entities, with their tables.
* `Inventory`: what that history promises to a client.
* `HistoryRefinement`: the mapping from the tables to the inventory.
* `HistoryInvariants`: the conjuncts that make the safety properties inductive.
* `HistoryTypeProofs`, `HistoryProofs`, `HistoryVerdictProofs`: the proofs.
* `MCReferenceHistory`, `MCHistoryRefinement`: the values of the constants.

### State

| Variable | Code |
|---|---|
| `references` | table `references` in the order of insertion; a row keeps its source identifier, its `version`, its `harvester_version`, its content (through its hash) and whether the converter filled it |
| `events` | table `reference_events`; a set, since the order of events is not used by the code |
| `dbState`, `errors` | column `harvestings.state` and the existence of rows in `harvesting_errors` |
| `request` | the retrieval: entity, `event_types`, `fetch_enhancements` |
| `pc`, `resume` | where the coroutine of `AbstractHarvester.run` stands; `resume` tells the two calls of `handle_error` in the loop from those in the outer handlers |
| `previous`, `existing`, `current`, `toDelete` | `previous_references`, `existing_references`, `new_ref`/`old_ref` and the computed event type, the list of `_register_deleted_references` |
| `fetched`, `yielded`, `dropped` | history: how many results the source produced, those handled without error, those lost |
| `deployed`, `restarts` | the class attribute `VERSION` of the running harvester, changed by a restart |

`by` in a row is history too: the harvesting that stored it.

### Actions

`Launch` is one turn of `RetrievalService._launch_harvesters`. Then `ReadBaseline`, the loop
(`FetchResult`, then `IgnoreResult`, `KeepVersion`, or `StoreVersion` and `RecordEvent`),
`EndOfResults`, `RecordDeletion` per row, `Complete`, `NotifyCompletion`. `register_creation` and
`register_update` commit twice (the row, then the event), hence two actions; each action is the
code up to one commit. `handle_error` is `MarkFailed` then `RecordError`, again two commits.
Failures: `ConversionFails` (`UnexpectedFormatException` in the loop), `ResultLost` (a secondary
query of IdRef whose error the harvester handles itself), `EndpointFails`
(`ExternalEndpointFailure` and the other exceptions of the iteration), `DatabaseFails` (any
database call raises; what happens next depends on whether it is inside the `try`, inside
`handle_error` within the loop, or outside any handler), `Restart`.

Each action that reads the tables does so at the point where the code commits or leaves the await.
Two places where this merges awaits are worth naming. `FetchResult` merges the arrival of a
result and the query of `exists`, since nothing of the task is visible in between. `ReadBaseline`
merges the update of the state to `running`, which writes the value the column already has, with
the query for the baseline, which comes after it. The content of a result is abstracted to a
model value and its hash to a table, `Digest`, from harvester versions and contents to digests:
which contents the `hash_keys` of a version tell apart is all that the comparison of hashes can
see. What the conversion writes is one bit of the row, `converted`.

Two orders of harvester versions exist in the code: `run` compares `semver.VersionInfo`, and the
test for an enhancement compares strings. `Versions` is ordered as the former; `LexRank` gives the
rank of a version in the latter.

### Properties

Invariants: `TypeOK`; `VersionsContiguous`; `VersionsUnique` (harvestings that do not overlap);
`NoContradictoryEvents`; `DeletedWasAnnounced`; `EventsMatchHistory`;
`BlankRowsAreUnrequestedEnhancements`; `CompletedReportsItsVersions`;
`FalseDeletionsHaveAnError`; `CleanRunReportsExactly`; `VerdictIsExplained`. Liveness:
`LaunchedRunsEnd`, which asks for the task to return: the state `failed` that `handle_error` writes while
the loop goes on is not enough. Refinement: `ImplementsInventory`, which is `Inventory!Spec` under the
mapping. The comment of each says which code it is about.

`Inventory` has one action. A harvesting completes: what the source returned replaces `seen`, what
the harvesting reported replaces `known`, and what it reported as deleted was known before and is
not returned now; if it met no error nothing is left out. That the whole run of a harvesting, with
its dozens of transactions and what other harvestings do between them, looks like that one step is
what `run` is for.

### Runs

| Run | Instance | What it shows |
|---|---|---|
| `HistoryFaults` | two harvestings of one or two entities, any overlap, one result each, all five kinds of failure, one restart; fairness | a completed harvesting has an event for each row it stored; a deletion that is false is never without an error; a task that returned left a verdict; the task of every launched harvesting returns, with a verdict in the table, unless it is killed |
| `HistoryOverlapping` | two harvestings with two results each over two references and two contents, a version change between deployments, all types of events or the default ones, no failure | versions without gap under any interleaving; a run without errors reports exactly its results and the rest of its baseline |
| `HistoryEnhancements` | three harvestings one after the other of one reference with three contents, versions 1.1, 1.9 and 1.10, restarts between them, failing conversions | versions are unique, events agree with the contents of the rows they point to, and which rows are stored without being converted |
| `HistoryInventory` | three harvestings of two entities, those of one entity never at the same time, failing conversions | the refinement, deletions that were announced, no contradiction |
| `FindingDuplicateVersion`, `FindingBlankVersion` | the smallest instance that shows each | section 9 |

The runs have between 170 thousand and 1.8 million distinct states.

Bounds: `MaxHarvestings`, `MaxResults`, `MaxRestarts`, and the sets of entities, references and
contents. Two harvestings are what every pairwise race needs; a baseline, the harvesting that uses
it and another between the two need three, and `HistoryInventory` and `HistoryEnhancements` have
three. One reference that is found and one that is gone need two references. A reference that is
created, updated and unchanged needs two contents; a field that only the newer version hashes needs
a third. Rows and events need no bound of their own. `CHECK_DEADLOCK` is off because a
behaviour ends when all the harvestings have been launched and have ended; `LaunchedRunsEnd`
rejects a task that is stuck before that.

Symmetry (of entities and of references) is used in `HistoryOverlapping` only, which checks no
liveness property and whose constants do not tell the permuted values apart.

### Fairness

`FairSpec` has weak fairness on `Step(h)`: everything the task of `h` does by itself. The event
loop runs every ready task in turn, database calls return or raise, and the sources are called
with timeouts. Nothing obliges a client to launch, a failure to happen, or an operator to restart.
The source stops producing after `MaxResults` results; a source that never stops would keep a
harvesting alive for ever, and which source that is, `RunEnds` of section 8 tells.

### Proofs

All theorems hold for every value of the constants that satisfies `ConstantsAssumption`: any
number of harvestings, entities, references, contents and versions, any overlap, all the failures.

* `TypeCorrectness`: `Spec => [](TypeOK /\ ResultAtHand)`. `TypeOK` alone is not inductive: the
  type of the event recorded by `RecordEvent` is that of the result at hand, so one needs to know
  that there is one (`ResultAtHand`).
* `Invariance`: `Spec => []HistoryInv`, what relates tasks and tables in `HistoryInvariants`.
* `NoContradiction` (`NoContradictoryEvents`), `DeletedReferencesWereAnnounced`
  (`DeletedWasAnnounced`), `VersionsHaveNoGap` (`VersionsContiguous`): consequences.

Along which argument. A contradiction needs a deletion and a finding of the same reference.
Deletions concern rows of the baseline that were *not met*, i.e. no existing reference has their
source identifier (`DeletionsAreNotMet`), and all come after the last result, when nothing is found
any more (`PastResults`). A finding either has its old row among the existing references, or its
reference had no row when it was fetched, so that no row of the baseline, read before it, has its
source identifier (`Met`, `ResultIsMet`, `FindingsAreMet`). The two exclude each other, and they
survive what other harvestings do because rows are never changed, baselines and the baseline's
rows stay, and existing references only grow. That every deleted row was announced follows from
`BaselineWasAnnounced`: the rows of a baseline come from events of another harvesting of the same
entity, and events are never removed. For versions, the row the new version is numbered from is a
row of the same reference (`ResultIsMet`), whatever was stored in the meantime; that is enough
against gaps, and not against duplicates, which do occur (section 9).

* `VerdictInvariance`: `Spec => []SoundInv`, `HistoryInv` with `VerdictInv`.
* `VerdictsAreExplained` (`VerdictIsExplained`), `CompletedHarvestingsReport`
  (`CompletedReportsItsVersions`), `FalseDeletionsAreSignalled` (`FalseDeletionsHaveAnError`).

A version without an event belongs to a task that is about to record it, or to one that will never
be completed: its run is aborted (`VersionsAreReported`), since only the end of the loop writes
`completed` and an aborted run never comes back to it (`StateFollowsTask`, `Aborted`). A reference
lost to an error leaves the error pending or on record, and deletions come after the loop, that is
after the errors met in it (`LossesAreErrors`).

* `TruthInvariance`: `Spec => [](HistoryInv /\ TruthInv)`, and from it `EventsTellTheTruth`
  (`EventsMatchHistory`) and `BlankRowsAreExplained` (`BlankRowsAreUnrequestedEnhancements`).
* `TurnsTaken`: `Spec => [](HistoryInv /\ UniqueInv)`, and from it `VersionsAreDistinct`
  (`VersionsUnique`), under the hypothesis that harvestings follow each other (`Overlap = "none"`);
  finding 1 is what happens otherwise.
* `AccountInvariance`: `Spec => [](SoundInv /\ AccountInv)`, and from it `CleanRunsAreExact`
  (`CleanRunReportsExactly`).

An event tells the truth if what was fetched, compared and stored agrees until it is recorded, two
commits later: `ResultIsTrue` says what the result at hand and the rows it names have in common,
which other harvestings cannot disturb as rows do not change. Versions are distinct since, with
harvestings one after the other (`TurnsAreTaken`), the row the result is compared with stays the
last of its reference (`ResultIsLast`); the version is that row's and one. A clean run is exact
because a harvesting accounts for everything at each of its steps: what it reported as found it
yielded, and with all types of events the reverse (`FindingsAreYielded`); what it yielded of the
baseline is met (`YieldedAreMet`), and without errors nothing else is but what is at hand
(`ExistingIsYielded`); the rest of the baseline is what it deleted and is still to delete
(`DeletionsAreDone`).

* `InventoryIsImplemented` (`ImplementsInventory`): the initial states are those of `Inventory`,
  every step of the history is a step of it or leaves it as it is. Only `Complete` is a step;
  `CompletedIsLast` and the exactness above say which. It holds under `InventoryConditions`:
  every request asks for all the types of events, the harvestings of one entity do not overlap, and
  the database does not fail. Each is needed. Without all types a baseline is not what was seen
  (the first observation of section 9). Overlapping harvestings of one entity have baselines that
  are out of date. And a failure of the database right after the completion makes a completed
  harvesting a failed one: `_notify_harvesting_state` reads the state again inside the `try`
  (`abstract_harvester.py:193`), the handler of its failure writes `failed`, and the inventory goes
  back to an earlier one. Other entities, restarts and all other failures are free.
  `InventoryInv` is what the proof rests on besides: the baseline of a harvesting that runs is that
  of the tables (`BaselineIsFresh`), and a completed one has only to return (`CompletedRunsReturn`).

`HistoryTypeProofs` has a lemma for each action for the types and lemmas on what grows or stays;
`HistoryProofs` and `HistoryVerdictProofs` have for each conjunct a lemma whose proof goes by cases
on the actions of `Next`. All the invariants were first checked by TLC on instances of the size of
those above. Only model-checked: `LaunchedRunsEnd`, which is liveness.

## 4. The consumption of requests

`AmqpConsumer` is the part of the service between RabbitMQ and the retrievals: the listener task
(`AMQPInterface._listen_to_messages`), the bounded queue, the workers
(`AMQPMessageProcessor.wait_for_message`), and `stop_listening`.

State: `ready` is the queue of the broker and `delivered` an answer of the broker on its way;
`listener` says where the listener task stands (`"polling"` the top of its loop, `"getting"` inside
`get`, `"dead"`); `inner` and `unfinished` are the queue and its counter of unfinished tasks;
`hand` has the message of each worker; `stop` is the progress of `stop_listening`. `processed`,
`failed` and `lost` are history: what became of each message.

Actions: `Poll`, `Deliver` (the broker), `Accept`, `GetNothing`, `GetTimesOut` and `ListenerDies`
are one turn of the listener with its outcomes; `Take`, `Process` and `Fail` one turn of a worker,
where everything `_process_message` does is between `Take` and the two others; `StopListening`,
`Join`, `CancelWorkers` and `Close` are the four moments of the shutdown; `Restart` is a new start,
after a shutdown or a crash. `Join` is a moment of its own because `asyncio.Queue.join` wakes its
waiter up and does not look at the queue again.

Properties. A request is processed at most once, whatever crashes and restarts (`AtMostOnce`). A
shutdown whose join does not run into its timeout has processed all that was there when it began
(`ShutdownKeepsOwed`): a message taken with `no_ack` counts as processed, so that neither `nack` nor
`task_done` is called after a failure (`Fail`), the counter of the queue stays above zero, and the
join of the shutdown waits for its timeout. What is queued is handled and shutdowns end
(`QueuedIsHandled`, `ShutdownEnds`). Nothing is claimed of what waits at the broker: an exception of
`get` ends the listener task (`ListenerDies`), nothing starts another one, and no health route shows
it.

Run `AmqpConsumer`: four requests, a queue of one place and two workers, since a full queue, two
busy workers and an answer on its way are four messages; one restart, after a crash or a shutdown.
127,472 states. `CHECK_DEADLOCK` is off: the process may stay closed, and the listener dead.

Fairness: weak on the listener, on each worker and on the steps of the shutdown after its start,
as every task that can run does, a retrieval returns or raises, and `wait_for` has a timeout.
Strong on `Deliver`: a timeout may win any number of times over the answer, but not for ever.
No fairness on failures, shutdowns and restarts.

### Proofs

`AmqpConsumerProofs`, for any number of messages, workers and restarts and any length of the queue:
`ConsumerTypes` (`TypeOK`), `NoRequestTwice` (`AtMostOnce`) and `CleanShutdownOwesNothing`
(`ShutdownKeepsOwed`), all from `ConsumerInvariance`. The three properties are not inductive: that
a join which succeeds leaves nothing behind depends on the counter. In `ConsumerInv` the counter is
the number of messages queued, in hand and failed (`Accounting`): a successful join, which requires
zero, leaves none of them. What the shutdown owes is in one of these places or processed until then
(`OwedIsSomewhere`). `Accounting` is also what keeps the counter from going below zero, at which
`task_done` raises. Only model-checked: `QueuedIsHandled` and `ShutdownEnds`, which are liveness.

## 5. The reply to a retrieval

`RetrievalReply` is one call of `_process_message` with a reply expected: the launcher task, the
harvesters, the result queue, the listener, and the task that publishes each message. Requests
without a reply are `service.run` alone and need no model of their own. Each retrieval has its own
queue and its own listener, so that retrievals meet in the database only.

State: `toLaunch`, `launcher` and `launchFailed` for `_launch_harvesters`; `state` is the column
of the database; `task`, `said` and `pending` say where the run of each harvester stands, how much
it has reported, and the message with which it waits in `put`; `results` is the queue; `listener`,
`item` and `warned` are `_wait_for_retrieval_result`, in `wait_for` (`"waiting"`), about to be given
a result (`"resuming"`) or publishing the timeout (`"warning"`); `worker` is whether
`_process_message` has returned; `publishing`, `published` and `dropped` are the publication tasks.

Actions: `Launch`, `LaunchFails`, `LauncherEnds`; per harvester `Start`, `Report` (an event),
`Signal` (`handle_error`, in the loop or at the end), `Complete`, `Die` (an exception outside the
handlers), and `Put`; `Get`, `Resume`, `Silence`, `Warn`; `Return`, the end of the wait for the
first of the two tasks with the cancellation of the listener; `Publish` and `PublicationFails`. What
the harvesters do to the history is section 3; here they are what they report. Publications take
place in any order. That a message may also wait between its construction and its departure is
left out: no property tells the two apart.

Properties. Each message is in one place, published once at most, and lost once out of the queue
only if its publication fails, whatever is cancelled meanwhile (`EachMessageOnce`); what it tells
is no older than what it was queued for (`NewsIsNotOlder`); the worker goes on when all harvesters
have ended, unless there was a timeout or a failed launch (`DoneMeansEnded`), and does go on in any case
(`WorkerIsFreed`); a harvester is never left waiting for the queue while the listener lives
(`HeardHarvestersEnd`). What is *not* true, and is visible in the model: messages may be left in
the queue at the end, since the listener is cancelled without emptying it; after a timeout or a
failed launch a harvester with more than `Capacity` messages left waits for ever, its
harvesting `running`.

Run `RetrievalReply`: two harvesters, a queue of one place, up to three messages of the one (start,
an event or an error, end) and two of the other. 234,320 states. The real capacity is 10,000; one
place is enough for a harvester to wait. `CHECK_DEADLOCK` is off because a retrieval ends.

Fairness: weak on the launcher, each harvester, the listener, the worker and the publications; none on
failures nor on the silence that makes the listener give up. A step of the model is the code
between two awaits, in any order of the tasks, which is more than the event loop does: it runs ready
tasks in their order, so that some of the losses the model has need several results at once.

### Proofs

`RetrievalReplyProofs`, for any number of harvesters, messages and places in the queue: `ReplyTypes`
(`TypeOK`), `MessagesOnce` (`EachMessageOnce`), `NewsIsRecent` (`NewsIsNotOlder`) and `DoneIsDone`
(`DoneMeansEnded`), all from `ReplyInvariance`. A message is in one of six places, the harvester
waiting in `put`, the queue, the hands of the listener, a publication, published, dropped, and
moves to later ones only. For it not to be there already no place may have a message numbered
beyond what its harvester has said (`Numbered`); for the news to be recent the column of the
database must be ahead of every message on its way (`StateIsAhead`), as states only advance. That
the worker leaves nobody behind rests on why each of the two tasks it waits for has ended
(`TasksEnd`) and on where each harvester stands (`HarvesterStands`). Only model-checked:
`WorkerIsFreed` and `HeardHarvestersEnd`, which are liveness.

## 6. The registration of entities

`EntityResolution` is `RetrievalService.register` as several registrations run it at once:
`EntityResolutionService.resolve` and `EntityDAO.take_or_create_identifier` in a first transaction,
`RetrievalDAO.create_retrieval` in a second one, on the tables of entities and identifiers.

State: `rows`, `entities` and `retrievals` are the tables. Each registration has its `request`, its
`elected` entity, the identifiers `todo`, and what its session knows and has changed: `mine`, the
identifiers of the elected entity, `loaded`, the keys of those of the other matching entities,
`renewed`, `moved`, `added` and `dropped`. `before` and `overlapped` are history.

Actions: `FindNone`, `FindInSafeMode` and `Find` are the query for matching entities and what
follows until the next `await`: election and nullification. `TakeOwn`, `TakeFromOther`,
`TakeRefused`, `Renew` and `Create` are the outcomes of `take_or_create_identifier` for one
identifier; `Commit` and `CommitFails` end the transaction. `SaveRetrieval`, `SaveEntity` and
`SaveFails` are the second one. An identifier is looked up in the table as it is committed by then,
with the session's own changes (autoflush); what the session has loaded is not refreshed, and its
changes are written by primary key. Writes take place at the commit: a flush locks the
rows it writes, so that another session that wants one of them waits, or both wait for each other
and one is rolled back, which `CommitFails` allows when two sessions write the same row. The order
of the identifiers of an entity, which a query does not define, is any order. The name of the
entity is left out, as are the choice of harvesters and the retrieval's other columns.

Properties. A registration that runs alone gives the elected entity what was submitted, takes it
from whoever had it, removes what it replaces and what is to be nullified, and touches nothing else,
in whatever order identifiers are taken (`AlignsAlone`); two exceptions are part of the statement
since the code has them: of several types to nullify some may stay, and of two identifiers of one
type only one is replaced. No entity gets a second identifier of a type unless two registrations
overlap (`OnePerTypeAlone`; with overlap it does, see the observations of section 9). A registration
fails only for having overlapped another, or because its entity already had two identifiers of a
type (`FailsOnlyOverlapped`). `TypeOK` includes that an identifier has one owner, and that owners
and the entities of retrievals exist.

Run `EntityResolution`: two registrations, as many as it takes to overlap; two entities known
before, hence an election and a loser; five identifiers of three types, three of the same type for
an entity that has two and takes a third; up to four known before (`MaxKnown`) and two submitted
(`MaxSubmitted`). `Init` has all such tables, those that overlapping registrations leave behind
included: an entity may start with two identifiers of a type. 713,605 states, up to the symmetry of
registrations, of entities and of the identifiers of one type, which no constant tells apart.
Primary keys are the smallest free ones, which keeps them finite; no key is given again while a
session knows it. `CHECK_DEADLOCK` is off: every registration ends. No liveness is stated: a
transaction either commits or fails, and nothing waits for anything else.

### Proofs

`EntityResolutionProofs`, for any number of registrations, entities, identifiers and types:

* `ResolutionTypes` (`TypeOK`), from `SessionInvariance`. What a session holds must be said for all
  interleavings: while it takes identifiers, those it renewed, moved or added were submitted and are
  not to be taken again, and before and after it holds nothing (`SessionInv`). Others may remove
  the rows it knows; the guards of the commit, not this invariant, tell whether its writes hit.
* `LonelyRegistrationsSucceed` (`FailsOnlyOverlapped`), `LonelyRegistrationsAlign` (`AlignsAlone`)
  and `LonelyRegistrationsKeepOnePerType` (`OnePerTypeAlone`), from `AloneInvariance`. A registration
  that has overlapped nobody is the only one under way, and its session and the tables agree
  (`Knows`); what it will leave is unique (`Distinct`); what it has given the entity is the only
  identifier of its type, or has replaced one of the same type (`OnePerType`); and it has what
  it took so far, and has lost only what was of a type to replace or to nullify (`Progress`). Each
  outcome of `take_or_create_identifier` keeps that, which is why no order matters; from it the
  guards of the commit follow, so that none of the failures is possible.

`Nullified` leaves, of identifiers to nullify that follow each other, every second one: the list is
iterated while it shrinks. The proofs use of it that nothing but these is removed, and that of one
such type the single identifier is. Keys are bounded by `RowIds`, and a commit that has no key left
for a new row (`HasKeysFor`) cannot be taken; the code has no such bound.

## 7. The records that references share

`GetOrCreate` has the conversions of several references at once, with what
`AbstractReferencesConverter` and its subclasses ask of the DAOs: contributors (with an identifier,
or by name only), concepts (by uri or by label), types of document, organizations, issues, journals
and books, each with the keys it is looked for by, the keys a unique index or the trigger on ISSNs
guards, and the retry. `Authorities` is what the solvers of concepts and organizations make of each
kind of answer: a record, a `DereferencingError`, or an exception that goes through. The
dereferencing job runs beside the conversions.

State: `rows` is the tables, in the order of insertion, each row committed or not; `todo`, `at`,
`retried`, `looked`, `made` say what a conversion still asks for, where it is, whether this is its
second attempt, what `complete_information` has completed, and what it is about to insert; `held`
has the objects it will hand to the recorder, with what they were when it read them and whether
their collections were loaded; `why` is the exception that ended it; `job` is each run of the job,
with the concept and the labels its session has read. `beside` (who overlapped whom) and `named`
(the names recorded) are history.

Actions: `Begin`; per demand `Reuse` (the caches of `_contributions`), `LookInBulk` (the query for
all the concepts of a reference), `Look` and `LookAgain` (first and second lookup), `Solve` (the
authority), `Match` (an organization with other identifiers), `Insert` and `Commit`, `Identify`
(`update_external_identifiers`); `Record` (the merge of the finished reference); for the job
`Launch`, `Pick`, `Dereference`, `MergeConcept`. An INSERT waits for an uncommitted row with the
same key of a unique index, as PostgreSQL makes it; the trigger does not see such a row, which is
how two journals come to share an ISSN. `Record` writes back what the conversion read, which is how
one conversion undoes another's update of a contributor.

Three ways to fail belong to the database. An INSERT is violated by a committed row with the same key
(`Violates`) or because the record has no value where the table asks for one (`Lacks`): a contributor
or an organization without name, a label without value, a journal without the identifier of the
source. The code tells none of these apart. An issue that is found at the second attempt cannot be
given its journal, which the session of the first attempt still holds (`JournalIsTaken`). And a
contributor that is found and has no name in the reference loses its own in memory, so that `Record`
fails (`LosesAName`).

Properties. The retry that every `get_or_create_*` allows itself is enough for whatever a unique
index or the trigger rejects: the assertions that a second rejection "cannot occur" fail for a record
that lacks a value, and for no other (`RetryFinds`). Two rows for one record are left only by
conversions that overlapped (`DuplicatesWereRaced`). Conversions fail for a race, for a failure that
an authority's solver lets through, or for a value that is missing, each with its own exception
(`FailuresAreExplained`). No recorded name is forgotten
(`NamesKeptApart`), and a concept flagged as dereferenced has labels of the authority
(`FlaggedHasLabels`), unless conversions overlap on it; both are false with overlap, and the second
for good, since the job does not pick a flagged concept again. Conversions end (`ConversionsEnd`), and
so do runs of the job although concepts stay that it cannot dereference (`JobsEnd`).

Run `GetOrCreate`: up to three conversions with up to two demands each, and one run of the job. Two
conversions race on one key; the third can commit between the attempts of another, which is what the
retry is about; two demands are what the caches, a cycle of waits and a second row by another key
need. The starts (`MCStarts`) are one kind of record each, with keys that overlap as they do in
practice: journals that share an ISSN, an ISSN-L, an identifier of the source or none; books by ISBN
and by title; organizations with common identifiers; a JEL concept, whose solver refuses to complete
it twice; concepts asked in bulk and one by one; a nameless contributor that is new and one that is
known; an organization, a label and a journal that lack what the table asks for. 170,853 states.
`CHECK_DEADLOCK` is off: conversions end.

Fairness: weak on the steps of each conversion and of each run of the job. The event loop runs
what is ready, the authorities are called with timeouts, the database answers. None on `Begin` and
`Launch`.

### Proofs

`GetOrCreateProofs`, for any number of conversions and runs of the job, any demands and any rows to
start with that satisfy `StartsAssumption`: rows that are committed and pairwise of different
records, demands with keys of their kind, flagged concepts with labels of an authority. The
invariants come in layers, each inductive on top of those before:

* `SharedShape`: `Shape`, what the parts of the state have to do with each other. A row that is
  not committed is the one its conversion is about to commit, and there is one per conversion;
  objects are those of rows of their kind.
* `DuplicatesRaced` (`DuplicatesWereRaced`): `Races`. What a conversion has looked for in vain is
  either not there or was created by one it overlaps (`Sought`). The keys of an insertion are those
  of the lookup, or the lookups would not show that.
* `RetriesFind` (`RetryFinds`) and `FailuresExplained` (`FailuresAreExplained`): `Failing`. Who was
  rejected, and lacks nothing, has a row to find that an overlapping conversion inserted (`Retries`),
  since no row is ever deleted; a concept is completed a second time only if such a conversion has
  inserted it (`Completions`). That is why the retry of an issue, which fails once it finds the row,
  needs a race. A name that is missing when the reference is recorded was missing in the demand.
* `NamesAreKept` (`NamesKeptApart`) and `FlaggedAreLabelled` (`FlaggedHasLabels`): `Holding`,
  `NamesFlow` and `LabelsFlow`. Rows change only by what is merged into them; an object that somebody
  holds without overlap has all the names of its row, and its flag comes with labels.

All were checked by TLC on the instance of the run first. Only model-checked: `ConversionsEnd` and
`JobsEnd`, which are liveness.

## 8. The harvest from a source

`SourceHarvest` is one harvesting of one person from one source, down to the fields of the
payloads. It composes:

* `Sources`: the list of publications, which changes meanwhile (`Withdraw`, `Publish`, `Reorder`);
  the identifiers of a person, `is_relevant` and the choice of one of them; what all `fetch_results`
  have in common;
* `Paging`: the clients of HAL (one request), OpenAlex (page numbers), Scopus (offsets) and ScanR
  (as many hits as given so far, after the person was looked up), with the loop condition of each;
* `SecondaryQueries`: IdRef, its list (any of the publications when they are more than the limit of
  the query), a task per publication, the cache each source has in Redis,
  the batch after `MAX_SUDOC_PARALLELISM` publications of SUDOC, and the loop that takes the other
  results as they come;
* `Conversion`: for each of the nine formats, the steps of `convert` in their order with the fields
  they read, the flaws for which they raise an `UnexpectedFormatException` or something else, either
  being possible for a field that has both kinds, and the endpoints they ask; the hash keys, and
  which changes the hash generator sees.

State of `SourceHarvest`: `run` (running, completed or failed), `at` (taking or converting), the
result in `hand`, `known` (which changes of a publication are in its stored reference), `before` and
`existing` (`previous_references`, `existing_references`), `deleted`. Of the list: `index`,
`changed`, `flawed`, `kind`. Of the generators: `fetch` and, for pages, `page`, `asked`, `given`,
`count`, `lookups`; for IdRef `todo`, `task`, `waiting`, `done`, `last` (the variable `pub`) and
`cache`.

Actions: `PagesGoOn` (`LookUp`, `Ask`, `AskFails`, `Give`, `LastGiven`), `SecondaryGoesOn` (`List`,
`ListFails`, `Dispatch`, `EndOfList`, `WaitForAll`, `WaitForSome`, `TakeResult`), `TaskGoesOn`
(`StartTask`, `Answered`, `Write` and their failures), `Take` (`build` and `exists`), `EndConversion`,
`EndRun` and `SourceChanges`. A generator stands still while its result is converted; the tasks of
IdRef do not. What the harvesting stores besides is section 3, and what a conversion does in the
tables section 7: here it ends with a reference or with one of its exceptions.

Properties. What is declared deleted was not listed at some time, or could not be got, or pages
moved (`DeletionsAreTrue`); the exceptions are part of the statement since the code has them: each of
these declares a listed reference deleted. A list that does not change is read once and to its end
(`EachOnce`), but for a failed query of IdRef, after which the draining loop gives `pub` again. What
is stored agrees with the source on every hashed field (`StoredFollowsSource`), but for ScanR,
finding 3. What the limits of HAL and of IdRef cut off could not be got, in all three. There are
never more requests to SUDOC than the limit, those of conversions included (`SudocLoadIsBounded`).
Every harvesting ends, unless ScanR announces more hits than it has or OpenAlex leaves out its count
(`RunEnds`).

Run `SourceHarvest`: 241,174 states. Pages have two publications instead of 25 or 200, the request
to HAL two rows instead of 1000, the list of IdRef room for three publications instead of 10,000
rows, SUDOC two tasks instead of three, and lists have up to three publications, four for IdRef: a
list may be empty, shorter than a page, exactly a page, or longer, and grow by one meanwhile, a list
of IdRef may be cut, and a batch may be followed by a second one or a remainder. Each start
has its own number of changes and failures, two at most for the lists (`MaxTrouble`), which is what
it takes for a change to hide behind a failure; one for the starts that vary the contents, each
field of each format in turn. `MaxPages` is four: more than the pages that can hold something, hence
the bound is met by clients that ask for ever only; the source stops changing then. `CHECK_DEADLOCK`
is off: a harvesting ends.

Fairness: weak on the generator, on the loop and on each task: one event loop runs them all, every
request has a timeout, Redis and the database answer or fail. The source need not change.

### Proofs

For every list, source, number of changes and failures, and sizes of pages and batches that satisfy
`PagingAssumption`, `SecondaryAssumption` and `StartsAssumption`:

* `SudocIsSpared` (`SudocLoadIsBounded`). The bound is not inductive: it
  holds during a conversion because one request fewer runs whenever a result is in hand. In
  `LoadInv` the tasks of SUDOC that may be asking number `waiting` at most while the list is
  dispatched, none once a batch gives results, since all have ended, and the limit less one while
  the rest is drained. Steps of tasks only end requests.
* `DeletionsFollowTheSource` (`DeletionsAreTrue`). `FoundInv` says where a publication is that is
  owed, i.e. was always listed, could be got and was not taken yet. For IdRef (`OwedByIdref`) it is
  on the list to read, to dispatch, or has a task whose result was not taken. For HAL (`OwedByHal`)
  it is in the response. For the others, while the list does not change (`OwedByPages`), it is after
  those given; the page continues those given (`Continued`); pages by number or offset end where the
  pages asked for end (`PagesEnd`), so that the next one begins there; and the count believed in is
  at least the length of the list (`Announced`), so that the loop does not stop before it. At the
  end nothing is owed. `Met` says that what was taken is among the existing ones, whatever becomes
  of its conversion.
* `EachTakenOnce` (`EachOnce`). In `OnceInv` what follows those given on the list was given no time
  (`OnceByPages`), and for HAL the one page is the beginning of the list (`HalFromTheStart`); for
  IdRef the list holds each publication once at most, wherever it is cut (`AnswerIsAList`), and one is
  given once its task has ended, and again at most once for each query that failed (`OnceByIdref`);
  such a query is told from a publication that no converter is for by the format, which what is given
  always has (`KindInv`), and from one that was cut off by its task. Nothing is left out, by
  `FoundInv`.
* `TheStoredFollowTheSource` (`StoredFollowsSource`). In `StoredInv` all that was taken and neither
  refused nor out of date in the cache agrees with the source on what is hashed (`Agrees`): if the
  digests are equal so are the fields (`DigestsAgree`), and if not it is stored anew. What was not
  taken at the end was not listed, by `FoundInv`.

`LoadInv`, `FoundInv`, `OnceInv` and `StoredInv` were checked by TLC on the instance of the run
first. Only model-checked: `RunEnds`, which is liveness.

## 9. What the runs found

Three statements of the repository are refuted by what the code does, each by a run.

1. **Duplicate versions** (`FindingDuplicateVersion`). `register_update` computes the next version
   from a row read in an earlier transaction, no constraint makes (harvester, source identifier,
   version) unique, and two harvestings for two co-authors meet on one reference: both store version
   0, or both version 1. `reference_dao.py:195` says that the query by version returns "the
   reference or None if not found"; with two rows `scalar_one_or_none` raises.
2. **Blank versions** (`FindingBlankVersion`). An unchanged reference of an older harvester version
   is converted only when enhancements are requested (`abstract_harvester.py:161`), but it is stored
   as a new version whenever unchanged events are requested: the latest version of the reference is
   then an empty one. `abstract_references_converter.py:177-181` asserts the mandatory fields of
   those that are converted only.
3. **ScanR changes unseen** (`FindingScanrUnseen`). The payload of a ScanR result is the hit of the
   index (`scanr_harvester.py:75-79`), whose document is under `_source`, where `convert` reads it
   (`scanr_references_converter.py:73`). `JsonHashGenerator` looks the hash keys up at the top of
   the payload (`json_hash_generator.py:32`) and finds none: all hashes are equal and no update of a
   ScanR reference is ever stored. `abstract_references_converter.py:232-233` says that `hash_keys`
   returns "the keys of the dictionary to include in change detection".

Observations made while modelling, which no run is about.

On the history and the requests:

* The baseline is documented as "the references discovered by the harvesting that occurred before"
  (`reference_dao.py:34-35`) and is made of those for which that harvesting recorded an event (line
  55). With the default types an unchanged reference has none, so after two harvestings its
  disappearance is never reported.
* `stop_listening` ("Stop listening to AMQP queue", `amqp_interface.py:59-60`) waits for the queue and
  cancels the workers; the listener task, created in `svp_harvester.py:125`, is never told, and
  takes requests that will be lost.
* `abstract_harvester.py:227` compares versions as strings: from 1.9.0 to 1.10.0 nothing is ever an
  enhancement, and a rollback from 1.10.0 to 1.9.0 is one and stores rows that were not converted
  (`BlankRowsAreUnrequestedEnhancements` states the consequence; `HistoryEnhancements` reaches it).
* `abstract_harvester.py:270` tests for "deleted" the requested types as given, while the test on
  the other types applies the default: a request without types, which the AMQP consumer sends when
  a message has no `events`, never reports deletions although the default types include them.
* What `run` does before its `try` (lines 111-121) has no handler: a database failure there leaves
  the harvesting `running` for ever, without an error. A restart does too.
* A failure of the database in the notification that follows the completion, inside the same `try`
  (lines 192-193), makes a completed harvesting a failed one, with all its events recorded.
* The message of an error carries the state cached at the start of the run, not `failed`
  (line 330). It has no effect: the factory uses the identifier only and reads the database again.
* `wait_for_message` and `_post_process_message` have handlers for errors of AMQP and for invalid
  channels, which set the flag that the health route reports. Nothing raises into them: `publish`
  catches these errors itself, and a message taken with `no_ack` is neither acknowledged nor put
  back. What does happen, an exception of `get`, ends the listener without setting the flag.
* After a cancellation that `wait_for` forgets (Python 3.10, the version of the `Dockerfile`), the
  listener of a retrieval that has ended waits for ten minutes and publishes a timeout. The model
  of section 5 has this behaviour; no statement of the repository is about it.

On the entities:

* `entity.py:37` validates "that no more than one identifier of the same type is present". The
  validator looks at what the session has loaded, and no constraint of the table does better: two
  registrations of one person, each with another IdRef, give both to the person, and later
  registrations that bring a third one from another entity are refused.
* The elected entity is the first in the alphabetic order of the *names* of the types, and the type
  is that of an arbitrary identifier of the entity, not of the one that matches
  (`entity_resolution_service.py:47-54`); the comment above and `entities.rst:225` speak of the
  priority of `identifiers.yml`. `Electable` is what the code does.
* `_remove_nullified_identifiers` removes from the list it iterates over: of two identifiers to nullify
  that follow each other the second stays. `AlignsAlone` tolerates it.
* In safe mode with no match the submitted identifiers are registered with the new entity, although
  `entities.rst:27` says that they are not.
* An entity that loses its last identifier stays in the table; a test
  (`test_entity_resolution_service.py:163-171`) says that it is deleted, and looks for the id `None`.

On the shared records:

* `merge` of a detached contributor writes back all it had loaded: of two conversions at once, the
  names and the external identifiers that the other added are undone.
* The SPARQL solver of IdRef lets an `ExternalEndpointFailure` through. In a conversion it ends the
  harvesting; in `ConceptDereferencingJob.run`, which goes on after a `DereferencingError` only
  (`concept_dereferencing_job.py:40`), it ends the run, although the job is to try "all concepts"
  (line 17). After a success the job draws a concept that it discards, which is harmless.
* `merge_organization` makes a set of objects that compare by identity: equal identifiers add up.
  `get_organization_by_identifiers` matches one of the types and one of the values, not a pair.
* A violated constraint is always taken for a lost race. The assertions that it "cannot occur twice"
  (`abstract_references_converter.py:260-264`, `300-304`, `583-587` and the like) do fail for a record
  without a mandatory value: an author of OpenAlex with an identifier and a null `display_name`, which
  lines 92-94 admit, an organization of Scopus without `affilname`, a subject without text, a journal
  of Scopus without `source-id`. Such an author who is already in the table gets the null name in
  memory, and the reference cannot be stored. Either exception ends the harvesting.
* A conversion that loses the race for an issue always fails: its second attempt (lines 636-642) sets
  `issue.journal` to a journal that is still in the session of the first one, which SQLAlchemy refuses.
* `_update_book` keeps the title it had as a variant and never stores the new one.
* `_add_labels` of Wikidata may keep no label: the concept is flagged as dereferenced without one.

On the sources:

* Queries of IdRef that fail, the HAL publications of IdRef (`{}`), rows beyond the 1000 of HAL or the
  10,000 of the list of IdRef, which has no order (`idref_sparql_query_builder.py:270`), and a person
  ScanR does not find by ORCID or HAL identifier make a completed run that declares references
  deleted although they are listed. So do pages that move, since OpenAlex, Scopus and
  ScanR are read by position in an order that no query fixes.
* After a failed query in the draining loop the result before it is given again, as `pub` is reset
  once per wait and not per query.
* ScanR announcing more hits than it delivers, or OpenAlex without `meta`, make a loop of empty
  pages.
* The limit of requests to SUDOC is that of one harvesting; nothing counts those of several at once,
  where the comment (`idref_harvester.py:97-98`) speaks of what the server supports.
* The cache of Persée is read with the uri of the document and written with another one. A failure
  of Redis is tolerated on read and ends the harvesting on write; one between `set` and `expire`
  leaves an entry that never expires.
* Some flaws of one publication end every run: a HAL article of a journal without title, ScanR
  without `authors` or `source`, OpenAlex with a null `authorships` or `biblio`, Persée or HAL
  without title, a book of SUDOC without publisher (a variable that was never assigned), a subject
  of an authority that no solver is for.
* So do a date that is well formed and in no calendar, such as 2020-00-00, in any format: `isodate`
  raises a plain `ValueError`, where `date_utilities.py:31` expects an `ISO8601Error`; and a HAL
  contributor with more than two identifiers (`hal_references_converter.py:342`).
* SUDOC hashes the type of `dc` and reads that of `rdf`, so that a change of the latter is not seen.

## 10. Not modelled, and why

Not at all: the tables of document types and roles (lookups with a default), Pydantic models, GUI,
forms and migrations (formatting or generated code with no state of their own), the start order and
readiness of the application, and the routes, which read or call the retrieval service.

Inside the history: the descriptive tables are data of a row, the metrics and logs have no effect,
the queue of results belongs to `RetrievalReply`, and rows of other harvesters never meet those
modelled since every query involved filters on the harvester. `reference_events` are never deleted by
the code, nor are references. The loss of the connection to the database is `DatabaseFails` at each
call; a transaction is atomic, as PostgreSQL makes it.

Inside the shared records: names, titles and labels are keys that are equal or not, hence which
of several rows a lookup returns is a choice; `solve_identities` of the organizations is never
called, as `IDENTITY_DEEP_SEARCH` is empty in every solver; the reads of the GUI in these DAOs.

Inside the harvest: the strings of the query builders, the values conversions make of what they
read, and the strings that are hashed; the several rows that IdRef has for one publication, of which
its limit may cut off some and leave a payload in part, where the model cuts off whole publications;
`SUDOC_ENABLED = False`, a constant of the class that nothing sets; the pool of Redis connections,
and the time to live of an entry, which is there or not. One harvesting of one person runs there;
how several meet is sections 3 and 7, and deletions are requested.
