-------------------------- MODULE RetrievalReply --------------------------
(***************************************************************************)
(* The reply to one retrieval asked for by AMQP.                           *)
(*                                                                         *)
(* The worker that handles the request starts a launcher, which runs the   *)
(* harvesters and waits for all of them, and a listener, which takes what  *)
(* they report from a bounded queue and starts one publication task for    *)
(* each message; then it waits for the first of the two to end and cancels *)
(* the listener.  A message is built from the database when it is          *)
(* published.  A message of kind "state" announces the state of a          *)
(* harvesting, one of kind "event" an event of a reference.                *)
(*                                                                         *)
(* wait_for is that of Python 3.10: when it is cancelled while what it     *)
(* waits for is done already, it returns the result and the cancellation   *)
(* is forgotten.                                                           *)
(***************************************************************************)
EXTENDS Integers, Sequences, SequencesExt

CONSTANTS
    Harvesters,    \* the harvesters of the settings
    Capacity,      \* MAX_EXPECTED_RESULTS
    MaxSaid,       \* bound on the messages of each harvester
    Faults,        \* the kinds of failure that may happen
    None           \* no message

States == {"none", "running", "failed", "completed"}

Message == [of : Harvesters, n : Nat \ {0}, kind : {"state", "event"}, state : States]

ASSUME ReplyAssumption ==
    /\ Capacity \in Nat \ {0}
    /\ MaxSaid \in [Harvesters -> Nat \ {0, 1}]
    /\ Faults \subseteq {"launch", "harvester", "silence", "publication"}
    /\ None \notin Message

VARIABLES
    toLaunch,      \* relevant harvesters that have no harvesting yet
    launcher,      \* the task of service.run
    launchFailed,  \* whether it has raised an exception
    state,         \* state of each harvesting in the database
    task,          \* the task of each harvester
    said,          \* number of messages each harvester has had to report
    pending,       \* the message each harvester is putting in the queue
    results,       \* retrieval_results_queue
    listener,      \* the task of _wait_for_retrieval_result
    item,          \* the result wait_for is about to return to it
    warned,        \* whether the timeout has been published
    worker,        \* the task of wait_for_message
    publishing,    \* messages that have a publication task, which run in no order
    published,     \* messages the broker has received, with what they tell
    dropped        \* messages whose publication has failed

launching == <<toLaunch, launcher, launchFailed>>
harvesting == <<state, task, said, pending>>
listening == <<listener, item, warned>>
publication == <<publishing, published, dropped>>
vars == <<launching, harvesting, results, listening, worker, publication>>

\* A message with what the database says of the harvesting when it is built.
Published == [msg : Message, told : States]

\* The next message of harvester h, which gets state s with it.
Say(h, kind, s) ==
    /\ state' = [state EXCEPT ![h] = s]
    /\ said' = [said EXCEPT ![h] = @ + 1]
    /\ pending' = [pending EXCEPT ![h] =
                      [of |-> h, n |-> said[h] + 1, kind |-> kind, state |-> s]]

-----------------------------------------------------------------------------
(* The launcher                                                            *)

\* One turn of the loop of _launch_harvesters.
Launch(h) ==
    /\ launcher = "launching"
    /\ h \in toLaunch
    /\ toLaunch' = toLaunch \ {h}
    /\ state' = [state EXCEPT ![h] = "running"]
    /\ task' = [task EXCEPT ![h] = "launched"]
    /\ UNCHANGED <<launcher, launchFailed, said, pending, results, listening, worker, publication>>

\* The harvesting cannot be created: the exception ends the launcher, and nobody
\* waits for the harvesters launched before.
LaunchFails ==
    /\ "launch" \in Faults
    /\ launcher = "launching"
    /\ toLaunch # {}
    /\ launcher' = "ended"
    /\ launchFailed' = TRUE
    /\ UNCHANGED <<toLaunch, harvesting, results, listening, worker, publication>>

Unfinished == {h \in Harvesters : task[h] \notin {"none", "ended"}}

\* Slip: without the loop around wait, the first harvester to end ends the launcher.
LauncherEndsAtFirst ==
    /\ launcher = "launching"
    /\ toLaunch = {}
    /\ Unfinished = {} \/ \E h \in Harvesters : task[h] = "ended"
    /\ launcher' = "ended"
    /\ UNCHANGED <<toLaunch, launchFailed, harvesting, results, listening, worker, publication>>

\* All harvesters have been launched and have ended.
LauncherEnds ==
    /\ launcher = "launching"
    /\ toLaunch = {}
    /\ Unfinished = {}
    /\ launcher' = "ended"
    /\ UNCHANGED <<toLaunch, launchFailed, harvesting, results, listening, worker, publication>>

-----------------------------------------------------------------------------
(* The harvesters                                                          *)

\* A harvester at work that is not waiting for the queue.
Working(h) == task[h] = "working" /\ pending[h] = None

\* run announces that it has started.
Start(h) ==
    /\ task[h] = "launched"
    /\ Say(h, "state", "running")
    /\ task' = [task EXCEPT ![h] = "working"]
    /\ UNCHANGED <<launching, results, listening, worker, publication>>

\* An event has been recorded.
Report(h) ==
    /\ Working(h)
    /\ said[h] < MaxSaid[h] - 1
    /\ Say(h, "event", state[h])
    /\ UNCHANGED <<launching, task, results, listening, worker, publication>>

\* An error has been recorded, after which the run goes on or ends.  It may be an
\* error of the announcement of the completion: completed is then overwritten.
Signal(h, next) ==
    /\ Working(h)
    /\ said[h] < (IF next = "ending" THEN MaxSaid[h] ELSE MaxSaid[h] - 1)
    /\ Say(h, "state", "failed")
    /\ task' = [task EXCEPT ![h] = next]
    /\ UNCHANGED <<launching, results, listening, worker, publication>>

\* Slip: the end is announced and recorded later, if at all.
CompleteTooLate(h) ==
    /\ Working(h)
    /\ pending' = [pending EXCEPT ![h] =
                      [of |-> h, n |-> said[h] + 1, kind |-> "state", state |-> "completed"]]
    /\ said' = [said EXCEPT ![h] = @ + 1]
    /\ UNCHANGED state
    /\ task' = [task EXCEPT ![h] = "ending"]
    /\ UNCHANGED <<launching, results, listening, worker, publication>>

\* The harvesting is completed, and its completion announced.
Complete(h) ==
    /\ Working(h)
    /\ Say(h, "state", "completed")
    /\ task' = [task EXCEPT ![h] = "ending"]
    /\ UNCHANGED <<launching, results, listening, worker, publication>>

\* An exception that run does not handle, or one of handle_error itself.
Die(h) ==
    /\ "harvester" \in Faults
    /\ task[h] = "launched" \/ Working(h)
    /\ task' = [task EXCEPT ![h] = "ended"]
    /\ \E s \in {state[h], "failed"} : state' = [state EXCEPT ![h] = s]
    /\ UNCHANGED <<launching, said, pending, results, listening, worker, publication>>

\* Slip: put does not wait for a free place.
PutAnyway(h) ==
    /\ pending[h] # None
    /\ results' = Append(results, pending[h])
    /\ pending' = [pending EXCEPT ![h] = None]
    /\ task' = [task EXCEPT ![h] = IF @ = "ending" THEN "ended" ELSE @]
    /\ UNCHANGED <<launching, state, said, listening, worker, publication>>

\* put returns when the queue has a place; after its last message the run ends.
Put(h) ==
    /\ pending[h] # None
    /\ Len(results) < Capacity
    /\ results' = Append(results, pending[h])
    /\ pending' = [pending EXCEPT ![h] = None]
    /\ task' = [task EXCEPT ![h] = IF @ = "ending" THEN "ended" ELSE @]
    /\ UNCHANGED <<launching, state, said, listening, worker, publication>>

-----------------------------------------------------------------------------
(* The listener and the worker                                             *)

\* The get inside wait_for takes a result.
Get ==
    /\ listener = "waiting"
    /\ results # <<>>
    /\ item' = Head(results)
    /\ results' = Tail(results)
    /\ listener' = "resuming"
    /\ UNCHANGED <<launching, harvesting, warned, worker, publication>>

\* wait_for returns the result and its publication starts.
Resume ==
    /\ listener = "resuming"
    /\ publishing' = publishing \union {item}
    /\ item' = None
    /\ listener' = "waiting"
    /\ UNCHANGED <<launching, harvesting, results, warned, worker, published, dropped>>

\* Nothing has come for DEFAULT_RESULT_TIMEOUT.
Silence ==
    /\ "silence" \in Faults
    /\ listener = "waiting"
    /\ results = <<>>
    /\ listener' = "warning"
    /\ UNCHANGED <<launching, harvesting, results, item, warned, worker, publication>>

\* The timeout is published and the listener ends.
Warn ==
    /\ listener = "warning"
    /\ listener' = "ended"
    /\ warned' = TRUE
    /\ UNCHANGED <<launching, harvesting, results, item, worker, publication>>

\* Slip: the worker waits for the launcher.
ReturnAfterLauncher ==
    /\ worker = "waiting"
    /\ launcher = "ended"
    /\ worker' = "done"
    /\ listener' = IF listener = "resuming" THEN "resuming" ELSE "ended"
    /\ UNCHANGED <<launching, harvesting, results, item, warned, publication>>

\* Slip: the result at hand goes with the listener.
ReturnWithItem ==
    /\ worker = "waiting"
    /\ launcher = "ended" \/ listener = "ended"
    /\ worker' = "done"
    /\ listener' = "ended"
    /\ item' = None
    /\ UNCHANGED <<launching, harvesting, results, warned, publication>>

\* The first of the two tasks has ended and the listener is cancelled.
Return ==
    /\ worker = "waiting"
    /\ launcher = "ended" \/ listener = "ended"
    /\ worker' = "done"
    /\ listener' = IF listener = "resuming" THEN "resuming" ELSE "ended"
    /\ UNCHANGED <<launching, harvesting, results, item, warned, publication>>

-----------------------------------------------------------------------------
(* The publications                                                        *)

\* The message is built from the database, and sent to the broker.
Publish(m) ==
    /\ m \in publishing
    /\ publishing' = publishing \ {m}
    /\ published' = published \union {[msg |-> m, told |-> state[m.of]]}
    /\ UNCHANGED <<launching, harvesting, results, listening, worker, dropped>>

\* The message cannot be built, or cannot be sent: the error is only logged.
PublicationFails(m) ==
    /\ "publication" \in Faults
    /\ m \in publishing
    /\ publishing' = publishing \ {m}
    /\ dropped' = dropped \union {m}
    /\ UNCHANGED <<launching, harvesting, results, listening, worker, published>>

-----------------------------------------------------------------------------

Init ==
    /\ toLaunch \in SUBSET Harvesters
    /\ launcher = "launching"
    /\ launchFailed = FALSE
    /\ state = [h \in Harvesters |-> "none"]
    /\ task = [h \in Harvesters |-> "none"]
    /\ said = [h \in Harvesters |-> 0]
    /\ pending = [h \in Harvesters |-> None]
    /\ results = <<>>
    /\ listener = "waiting"
    /\ item = None
    /\ warned = FALSE
    /\ worker = "waiting"
    /\ publishing = {} /\ published = {} /\ dropped = {}

Run(h) ==
    \/ Start(h) \/ Report(h) \/ Complete(h) \/ Put(h)
    \/ \E next \in {"working", "ending"} : Signal(h, next)

LaunchAll == LauncherEnds \/ \E h \in Harvesters : Launch(h)

Listen == Get \/ Resume \/ Warn

Deliver == \E m \in publishing : Publish(m)

Next ==
    \/ LaunchAll \/ LaunchFails
    \/ \E h \in Harvesters : Run(h) \/ Die(h)
    \/ Listen \/ Silence \/ Return
    \/ Deliver
    \/ \E m \in publishing : PublicationFails(m)

Spec == Init /\ [][Next]_vars

\* Every task that can go on does: a harvester has finitely many results, and each
\* call to a source or to the database returns or raises.
FairSpec ==
    /\ Spec
    /\ WF_vars(LaunchAll)
    /\ \A h \in Harvesters : WF_vars(Run(h))
    /\ WF_vars(Listen) /\ WF_vars(Return) /\ WF_vars(Deliver)

-----------------------------------------------------------------------------
(* Properties                                                              *)

TypeOK ==
    /\ toLaunch \subseteq Harvesters
    /\ launcher \in {"launching", "ended"}
    /\ launchFailed \in BOOLEAN
    /\ state \in [Harvesters -> States]
    /\ task \in [Harvesters -> {"none", "launched", "working", "ending", "ended"}]
    /\ said \in [Harvesters -> Nat] /\ \A h \in Harvesters : said[h] <= MaxSaid[h]
    /\ pending \in [Harvesters -> Message \union {None}]
    /\ results \in Seq(Message) /\ Len(results) <= Capacity
    /\ listener \in {"waiting", "resuming", "warning", "ended"}
    /\ item \in Message \union {None}
    /\ warned \in BOOLEAN
    /\ worker \in {"waiting", "done"}
    /\ publishing \subseteq Message /\ dropped \subseteq Message
    /\ published \subseteq Published

\* Where a message can be.
Places == <<{pending[h] : h \in Harvesters} \ {None}, ToSet(results), {item} \ {None},
            publishing, {b.msg : b \in published}, dropped>>

\* Each message a harvester had to report is in one place, whatever has been
\* cancelled meanwhile: it is published once at most, and once it is out of the
\* queue it is lost only if its publication fails (_wait_for_retrieval_result,
\* whose wait_for may be cancelled with a result at hand).
EachMessageOnce ==
    /\ \A h \in Harvesters : \A n \in 1..said[h] :
         \E i \in DOMAIN Places : \E m \in Places[i] : m.of = h /\ m.n = n
    /\ \A i, j \in DOMAIN Places : Places[i] \cap Places[j] # {} => i = j
    /\ \A i, j \in DOMAIN results : results[i] = results[j] => i = j

\* The states a harvesting goes through, in their order.
Rank == [s \in States |-> CASE s = "none" -> 0 [] s = "running" -> 1
                           [] s = "failed" -> 2 [] s = "completed" -> 3]

\* A message about the state of a harvesting tells, when it leaves, a state no
\* older than the one it was queued for, although it is built from the database
\* later and in no order (AMQPHarvestingMessageFactory._build_payload): the
\* announcement of the end always tells the end.
NewsIsNotOlder ==
    \A b \in published :
        b.msg.kind = "state" => Rank[b.msg.state] <= Rank[b.told]

\* The worker goes on to another request when all harvesters have ended, unless
\* the client has been told of a timeout or not all could be launched
\* (_process_message, _launch_harvesters).
DoneMeansEnded ==
    worker = "done" => warned \/ launchFailed \/ (toLaunch = {} /\ Unfinished = {})

\* The worker does go on to another request, even if a harvester waits for ever
\* for a place in a queue that nobody reads any more.
WorkerIsFreed == <>(worker = "done")

\* As long as the listener has not given up and all harvesters were launched, a
\* harvester ends, whatever it has to report: the queue is read until then.
HeardHarvestersEnd ==
    \A h \in Harvesters :
        task[h] = "launched" ~> task[h] = "ended" \/ warned \/ launchFailed

=============================================================================
