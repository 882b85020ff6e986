--------------------------- MODULE AmqpConsumer ---------------------------
(***************************************************************************)
(* The consumption of the retrieval requests that arrive by AMQP.          *)
(*                                                                         *)
(* One listener task polls the broker and puts what it gets in a bounded   *)
(* asyncio queue; a fixed number of workers take messages from it and run  *)
(* the retrievals.  A message is taken with no_ack: the broker forgets it  *)
(* when it sends it, and only the memory of this process has it then.  At  *)
(* shutdown the application waits for the queue to be joined, for a while. *)
(*                                                                         *)
(* What a worker does with a message is one step here, with its two ends:  *)
(* _process_message returns or raises.  The handlers for errors of AMQP    *)
(* and of the channel are left out: publish catches these errors itself,   *)
(* and a message taken with no_ack is never acknowledged.                  *)
(***************************************************************************)
EXTENDS Integers, Sequences, FiniteSets

CONSTANTS
    Messages,      \* the requests clients send
    Workers,       \* inner_task_parallelism_limit of them
    QueueLength,   \* inner_task_queue_length
    Faults,        \* the kinds of failure that may happen
    MaxRestarts,   \* bound on the restarts of the process
    None           \* no message

ASSUME ConsumerAssumption ==
    /\ IsFiniteSet(Messages) /\ IsFiniteSet(Workers)
    /\ QueueLength \in Nat \ {0}
    /\ Faults \subseteq {"processing", "timeout", "connection", "crash"}
    /\ MaxRestarts \in Nat
    /\ None \notin Messages

VARIABLES
    ready,        \* messages kept by the broker
    delivered,    \* message sent by the broker and not yet seen by the listener
    listener,     \* what the listener task is doing
    inner,        \* inner_tasks_queue
    unfinished,   \* tasks the queue counts as unfinished
    hand,         \* the message each worker is processing
    stop,         \* progress of stop_listening
    timedOut,     \* whether the join has timed out
    owed,         \* messages queued or in hand when the shutdown began (history)
    processed,    \* messages processed without an exception (history)
    failed,       \* messages whose processing raised, since the start (history)
    lost,         \* messages nobody will process (history)
    restarts      \* number of restarts so far

fates == <<processed, failed, lost>>
queue == <<inner, unfinished>>
shutdown == <<stop, timedOut, owed>>
vars == <<ready, delivered, listener, queue, hand, shutdown, fates, restarts>>

Queued == {inner[i] : i \in DOMAIN inner}

Busy == {w \in Workers : hand[w] # None}

InHand == {hand[w] : w \in Busy}

\* The worker tasks are cancelled at the end of the join.
WorkersRun == stop \in {"no", "joining", "joined"}

-----------------------------------------------------------------------------
(* The listener                                                            *)

\* One turn of the loop up to the call of get; while the queue is full, the loop
\* only sleeps.
Poll ==
    /\ listener = "polling"
    /\ Len(inner) < QueueLength
    /\ listener' = "getting"
    /\ UNCHANGED <<ready, delivered, queue, hand, shutdown, fates, restarts>>

\* Slip: the broker keeps the message until it is acknowledged.
DeliverUnacknowledged ==
    /\ listener = "getting"
    /\ delivered = {}
    /\ \E m \in ready : delivered' = {m}
    /\ UNCHANGED <<ready, listener, queue, hand, shutdown, fates, restarts>>

\* The broker answers get with a message, and forgets it.
Deliver ==
    /\ listener = "getting"
    /\ delivered = {}
    /\ \E m \in ready :
         /\ ready' = ready \ {m}
         /\ delivered' = {m}
    /\ UNCHANGED <<listener, queue, hand, shutdown, fates, restarts>>

\* get returns and the message is put in the queue.  put waits for a free place.
Accept ==
    /\ listener = "getting"
    /\ Len(inner) < QueueLength
    /\ \E m \in delivered : inner' = Append(inner, m)
    /\ delivered' = {}
    /\ unfinished' = unfinished + 1
    /\ listener' = "polling"
    /\ UNCHANGED <<ready, hand, shutdown, fates, restarts>>

\* get returns None for want of a message.
GetNothing ==
    /\ listener = "getting"
    /\ ready = {} /\ delivered = {}
    /\ listener' = "polling"
    /\ UNCHANGED <<ready, delivered, queue, hand, shutdown, fates, restarts>>

\* get raises TimeoutError, which the loop tolerates: an answer on its way is lost.
GetTimesOut ==
    /\ "timeout" \in Faults
    /\ listener = "getting"
    /\ lost' = lost \union delivered
    /\ delivered' = {}
    /\ listener' = "polling"
    /\ UNCHANGED <<ready, queue, hand, shutdown, processed, failed, restarts>>

\* get raises anything else: nothing catches it, nothing starts the task again.
ListenerDies ==
    /\ "connection" \in Faults
    /\ listener = "getting"
    /\ lost' = lost \union delivered
    /\ delivered' = {}
    /\ listener' = "dead"
    /\ UNCHANGED <<ready, queue, hand, shutdown, processed, failed, restarts>>

-----------------------------------------------------------------------------
(* The workers                                                             *)

\* Slip: the task is declared done before it is processed.
TakeAndFinish(w) ==
    /\ WorkersRun
    /\ hand[w] = None
    /\ inner # <<>>
    /\ hand' = [hand EXCEPT ![w] = Head(inner)]
    /\ inner' = Tail(inner)
    /\ unfinished' = unfinished - 1
    /\ UNCHANGED <<ready, delivered, listener, shutdown, fates, restarts>>

\* A worker that waits for a message gets the oldest one.
Take(w) ==
    /\ WorkersRun
    /\ hand[w] = None
    /\ inner # <<>>
    /\ hand' = [hand EXCEPT ![w] = Head(inner)]
    /\ inner' = Tail(inner)
    /\ UNCHANGED <<ready, delivered, listener, unfinished, shutdown, fates, restarts>>

\* Slip: the finally clause declares the task done once more.
ProcessDoneTwice(w) ==
    /\ WorkersRun
    /\ hand[w] # None
    /\ processed' = processed \union {hand[w]}
    /\ hand' = [hand EXCEPT ![w] = None]
    /\ unfinished' = unfinished - 2
    /\ UNCHANGED <<ready, delivered, listener, inner, shutdown, failed, lost, restarts>>

\* _process_message returns and the task is done.
Process(w) ==
    /\ WorkersRun
    /\ hand[w] # None
    /\ processed' = processed \union {hand[w]}
    /\ hand' = [hand EXCEPT ![w] = None]
    /\ unfinished' = unfinished - 1
    /\ UNCHANGED <<ready, delivered, listener, inner, shutdown, failed, lost, restarts>>

\* _process_message raises.  The handlers return what to do with the message, but
\* it counts as processed already: it is neither put back nor declared done.
Fail(w) ==
    /\ "processing" \in Faults
    /\ WorkersRun
    /\ hand[w] # None
    /\ failed' = failed \union {hand[w]}
    /\ hand' = [hand EXCEPT ![w] = None]
    /\ UNCHANGED <<ready, delivered, listener, queue, shutdown, processed, lost, restarts>>

-----------------------------------------------------------------------------
(* Shutdown and restart                                                    *)

\* stop_listening starts waiting for the join; the listener is not told.
StopListening ==
    /\ stop = "no"
    /\ stop' = "joining"
    /\ owed' = Queued \union InHand
    /\ UNCHANGED <<ready, delivered, listener, queue, hand, timedOut, fates, restarts>>

\* The queue wakes up the task that waits for the join.  The queue is not looked
\* at again when this task runs, some turns of the event loop later.
Join ==
    /\ stop = "joining"
    /\ unfinished = 0
    /\ stop' = "joined"
    /\ UNCHANGED <<ready, delivered, listener, queue, hand, timedOut, owed, fates, restarts>>

\* The wait for the join ends, or times out, and the workers are cancelled.
CancelWorkers ==
    /\ stop = "joined" \/ (stop = "joining" /\ unfinished > 0)
    /\ stop' = "closing"
    /\ timedOut' = (stop = "joining")
    /\ lost' = lost \union InHand
    /\ hand' = [w \in Workers |-> None]
    /\ UNCHANGED <<ready, delivered, listener, queue, owed, processed, failed, restarts>>

\* Slip: without the finally clause, the connection stays open after a timeout.
CloseInTime ==
    /\ stop = "closing"
    /\ ~timedOut
    /\ stop' = "closed"
    /\ listener' = "dead"
    /\ lost' = lost \union delivered \union Queued
    /\ delivered' = {}
    /\ inner' = <<>>
    /\ UNCHANGED <<ready, unfinished, hand, timedOut, owed, processed, failed, restarts>>

\* The connection is closed and the process exits with what it still had.
Close ==
    /\ stop = "closing"
    /\ stop' = "closed"
    /\ listener' = "dead"
    /\ lost' = lost \union delivered \union Queued
    /\ delivered' = {}
    /\ inner' = <<>>
    /\ UNCHANGED <<ready, unfinished, hand, timedOut, owed, processed, failed, restarts>>

\* The process starts again, after a shutdown or a crash, with an empty queue.
Restart ==
    /\ stop = "closed" \/ "crash" \in Faults
    /\ restarts < MaxRestarts
    /\ restarts' = restarts + 1
    /\ lost' = lost \union delivered \union Queued \union InHand \union failed
    /\ failed' = {}
    /\ delivered' = {}
    /\ listener' = "polling"
    /\ inner' = <<>>
    /\ unfinished' = 0
    /\ hand' = [w \in Workers |-> None]
    /\ stop' = "no"
    /\ timedOut' = FALSE
    /\ owed' = {}
    /\ UNCHANGED <<ready, processed>>

-----------------------------------------------------------------------------

Init ==
    /\ ready = Messages
    /\ delivered = {}
    /\ listener = "polling"
    /\ inner = <<>>
    /\ unfinished = 0
    /\ hand = [w \in Workers |-> None]
    /\ stop = "no"
    /\ timedOut = FALSE
    /\ owed = {}
    /\ processed = {}
    /\ failed = {}
    /\ lost = {}
    /\ restarts = 0

Listen == Poll \/ Deliver \/ Accept \/ GetNothing

Work(w) == Take(w) \/ Process(w) \/ Fail(w)

Stop == Join \/ CancelWorkers \/ Close

Next ==
    \/ Listen \/ GetTimesOut \/ ListenerDies
    \/ \E w \in Workers : Work(w)
    \/ StopListening \/ Stop \/ Restart

Spec == Init /\ [][Next]_vars

\* The event loop runs every ready task, a broker that is polled for ever answers
\* in time now and then, and every retrieval ends, one way or the other.
FairSpec ==
    /\ Spec
    /\ WF_vars(Listen)
    /\ SF_vars(Deliver)
    /\ \A w \in Workers : WF_vars(Work(w))
    /\ WF_vars(Stop)

-----------------------------------------------------------------------------
(* Properties                                                              *)

TypeOK ==
    /\ ready \subseteq Messages
    /\ delivered \subseteq Messages /\ \A m, n \in delivered : m = n
    /\ listener \in {"polling", "getting", "dead"}
    /\ inner \in Seq(Messages) /\ Len(inner) <= QueueLength
    /\ unfinished \in Nat
    /\ hand \in [Workers -> Messages \union {None}]
    /\ stop \in {"no", "joining", "joined", "closing", "closed"}
    /\ timedOut \in BOOLEAN
    /\ owed \subseteq Messages
    /\ processed \subseteq Messages /\ failed \subseteq Messages /\ lost \subseteq Messages
    /\ restarts \in 0..MaxRestarts

\* Where the messages out of the broker are, each in one place.
InMemory == delivered \union Queued \union InHand

\* A message is processed at most once: once the broker has sent it, it is in one
\* place at a time, and where it has been processed, failed or been lost it stays
\* (no_ack in _listen_to_messages, whatever the timeouts and the restarts).
AtMostOnce ==
    /\ \A i, j \in DOMAIN inner : inner[i] = inner[j] => i = j
    /\ \A v, w \in Busy : hand[v] = hand[w] => v = w
    /\ delivered \cap Queued = {}
    /\ (delivered \union Queued) \cap InHand = {}
    /\ processed \cap (failed \union lost) = {} /\ failed \cap lost = {}
    /\ (ready \union processed \union failed \union lost) \cap InMemory = {}
    /\ ready \cap (processed \union failed \union lost) = {}

\* A shutdown that does not time out has processed all that was queued or being
\* processed when it began: a failure, even an old one, makes it time out.  What
\* the listener has taken since may be lost (stop_listening).
ShutdownKeepsOwed ==
    stop \in {"joined", "closing", "closed"} /\ ~timedOut => owed \subseteq processed

\* What is in the queue is processed, fails, or is lost by a shutdown or a crash.
QueuedIsHandled ==
    \A m \in Messages : m \in Queued ~> m \in processed \union failed \union lost

\* A shutdown ends, whatever was leaked by failures before.
ShutdownEnds == stop = "joining" ~> stop \in {"closed", "no"}

=============================================================================
