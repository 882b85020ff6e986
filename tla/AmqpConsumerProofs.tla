------------------------- MODULE AmqpConsumerProofs -------------------------
(***************************************************************************)
(* Proofs about AmqpConsumer, for any number of messages and of workers,   *)
(* any length of the queue, any failures and any number of restarts.       *)
(***************************************************************************)
EXTENDS AmqpConsumer, TLAPS, FiniteSetTheorems, SequenceTheorems

(* The counter of the queue: what is queued, what is in hand, and, for     *)
(* ever, what has failed.                                                  *)
Accounting ==
    WorkersRun => unfinished = Len(inner) + Cardinality(Busy) + Cardinality(failed)

\* What the shutdown owes is somewhere until the join has succeeded.
OwedIsSomewhere ==
    /\ stop = "joining" => owed \subseteq Queued \union InHand \union processed \union failed
    /\ WorkersRun => ~timedOut

ConsumerInv ==
    /\ TypeOK /\ AtMostOnce
    /\ Accounting /\ OwedIsSomewhere /\ ShutdownKeepsOwed

-----------------------------------------------------------------------------
(* The queue and the hands of the workers                                  *)

\* Appending a message that is not queued keeps the queue without repetition (put).
LEMMA QueueGrows ==
    ASSUME TypeOK, \A i, j \in DOMAIN inner : inner[i] = inner[j] => i = j,
           NEW m \in Messages, m \notin Queued, inner' = Append(inner, m)
    PROVE  /\ inner' \in Seq(Messages) /\ Len(inner') = Len(inner) + 1
           /\ Queued' = Queued \union {m}
           /\ \A i, j \in DOMAIN inner' : inner'[i] = inner'[j] => i = j
<1>1. inner \in Seq(Messages) /\ DOMAIN inner = 1..Len(inner) /\ Len(inner) \in Nat
  BY DEF TypeOK
<1>2. /\ inner' \in Seq(Messages) /\ Len(inner') = Len(inner) + 1
      /\ DOMAIN inner' = 1..(Len(inner) + 1)
      /\ \A i \in 1..Len(inner) : inner'[i] = inner[i]
      /\ inner'[Len(inner) + 1] = m
  BY <1>1
<1>3. Queued' = Queued \union {m}
  BY <1>1, <1>2 DEF Queued
<1>4. \A i \in 1..Len(inner) : inner'[i] # m
  BY <1>1, <1>2 DEF Queued
<1>. QED
  BY <1>1, <1>2, <1>3, <1>4

\* Taking the oldest message leaves the others, without repetition (get).
LEMMA QueueShrinks ==
    ASSUME TypeOK, \A i, j \in DOMAIN inner : inner[i] = inner[j] => i = j,
           inner # <<>>, inner' = Tail(inner)
    PROVE  /\ inner' \in Seq(Messages) /\ Len(inner') = Len(inner) - 1
           /\ Head(inner) \in Messages
           /\ Queued = Queued' \union {Head(inner)} /\ Head(inner) \notin Queued'
           /\ \A i, j \in DOMAIN inner' : inner'[i] = inner'[j] => i = j
<1>1. /\ inner \in Seq(Messages) /\ DOMAIN inner = 1..Len(inner) /\ Len(inner) \in Nat \ {0}
      /\ Head(inner) = inner[1]
  BY EmptySeq DEF TypeOK
<1>2. /\ inner' \in Seq(Messages) /\ Len(inner') = Len(inner) - 1
      /\ DOMAIN inner' = 1..(Len(inner) - 1)
      /\ \A i \in 1..(Len(inner) - 1) : inner'[i] = inner[i + 1]
  BY <1>1
<1>3. \A i \in 1..Len(inner) : i = 1 \/ (i - 1 \in 1..(Len(inner) - 1) /\ inner'[i - 1] = inner[i])
  BY <1>1, <1>2
<1>4. Queued = Queued' \union {Head(inner)}
  <2>1. \A k \in 1..(Len(inner) - 1) : inner'[k] \in Queued'
    BY <1>2 DEF Queued
  <2>2. \A i \in 1..Len(inner) : inner[i] \in Queued' \union {Head(inner)}
    BY <1>1, <1>3, <2>1
  <2>3. Queued' \subseteq Queued /\ Head(inner) \in Queued
    BY <1>1, <1>2 DEF Queued
  <2>4. Queued \subseteq Queued' \union {Head(inner)}
    BY <1>1, <2>2 DEF Queued
  <2>. QED
    BY <2>3, <2>4
<1>5. Head(inner) \notin Queued'
  BY <1>1, <1>2 DEF Queued
<1>6. \A i, j \in DOMAIN inner' : inner'[i] = inner'[j] => i = j
  BY <1>1, <1>2
<1>. QED
  BY <1>1, <1>2, <1>4, <1>5, <1>6

\* A worker that was free is busy with the message it takes (Take).
LEMMA HandFills ==
    ASSUME TypeOK, NEW w \in Workers, hand[w] = None,
           NEW m \in Messages, hand' = [hand EXCEPT ![w] = m]
    PROVE  /\ hand' \in [Workers -> Messages \union {None}]
           /\ Busy' = Busy \union {w} /\ w \notin Busy
           /\ InHand' = InHand \union {m}
           /\ \A v \in Busy : hand'[v] = hand[v]
           /\ hand'[w] = m
           /\ Cardinality(Busy') = Cardinality(Busy) + 1
<1>1. /\ hand' \in [Workers -> Messages \union {None}]
      /\ Busy' = Busy \union {w} /\ w \notin Busy
      /\ \A v \in Busy : hand'[v] = hand[v]
      /\ hand'[w] = m
  BY ConsumerAssumption DEF TypeOK, Busy
<1>2. InHand' = InHand \union {m}
  BY <1>1 DEF InHand
<1>3. IsFiniteSet(Busy)
  BY ConsumerAssumption, FS_Subset DEF Busy
<1>. QED
  BY <1>1, <1>2, <1>3, FS_AddElement

\* A worker that is done with its message is free again (Process, Fail).
LEMMA HandEmpties ==
    ASSUME TypeOK, \A v, u \in Busy : hand[v] = hand[u] => v = u,
           NEW w \in Workers, hand[w] # None, hand' = [hand EXCEPT ![w] = None]
    PROVE  /\ hand' \in [Workers -> Messages \union {None}]
           /\ Busy' = Busy \ {w} /\ w \in Busy
           /\ hand[w] \in Messages /\ hand[w] \in InHand
           /\ InHand' = InHand \ {hand[w]}
           /\ \A v \in Busy' : hand'[v] = hand[v]
           /\ Cardinality(Busy) \in Nat
           /\ Cardinality(Busy') = Cardinality(Busy) - 1
<1>1. /\ hand' \in [Workers -> Messages \union {None}]
      /\ Busy' = Busy \ {w} /\ w \in Busy
      /\ hand[w] \in Messages
      /\ \A v \in Busy' : hand'[v] = hand[v]
  BY ConsumerAssumption DEF TypeOK, Busy
<1>2. InHand' = InHand \ {hand[w]} /\ hand[w] \in InHand
  BY <1>1 DEF InHand
<1>3. IsFiniteSet(Busy)
  BY ConsumerAssumption, FS_Subset DEF Busy
<1>. QED
  BY <1>1, <1>2, <1>3, FS_RemoveElement, FS_CardinalityType

\* When all hands are empty nothing is in them (CancelWorkers, Restart).
LEMMA HandsAreEmpty ==
    ASSUME hand' = [w \in Workers |-> None]
    PROVE  /\ hand' \in [Workers -> Messages \union {None}]
           /\ Busy' = {} /\ InHand' = {} /\ Cardinality(Busy') = 0
<1>1. hand' \in [Workers -> Messages \union {None}] /\ Busy' = {} /\ InHand' = {}
  BY DEF Busy, InHand
<1>. QED
  BY <1>1, FS_EmptySet

\* The numbers of busy workers and of failures are numbers, and zero for nothing.
LEMMA Counts ==
    ASSUME TypeOK
    PROVE  /\ Cardinality(Busy) \in Nat /\ (Cardinality(Busy) = 0 => Busy = {})
           /\ IsFiniteSet(failed)
           /\ Cardinality(failed) \in Nat /\ (Cardinality(failed) = 0 => failed = {})
           /\ Len(inner) \in Nat /\ (Len(inner) = 0 => Queued = {})
<1>1. IsFiniteSet(Busy) /\ IsFiniteSet(failed)
  BY ConsumerAssumption, FS_Subset DEF Busy, TypeOK
<1>2. Len(inner) \in Nat /\ (Len(inner) = 0 => Queued = {})
  BY DEF TypeOK, Queued
<1>. QED
  BY <1>1, <1>2, FS_CardinalityType, FS_EmptySet

-----------------------------------------------------------------------------
(* The listener                                                            *)

\* The listener moves a message on, or loses it for good.
LEMMA ListenerKeepsInv ==
    ASSUME ConsumerInv, Listen \/ GetTimesOut \/ ListenerDies
    PROVE  ConsumerInv'
<1>1. CASE Poll \/ GetNothing
  <2>1. UNCHANGED <<ready, delivered, inner, unfinished, hand, stop, timedOut, owed,
                    processed, failed, lost, restarts>>
    BY <1>1 DEF Poll, GetNothing, queue, shutdown, fates
  <2>2. listener' \in {"polling", "getting"}
    BY <1>1 DEF Poll, GetNothing
  <2>. QED
    BY <2>1, <2>2 DEF ConsumerInv, TypeOK, AtMostOnce, Accounting, OwedIsSomewhere,
       ShutdownKeepsOwed, InMemory, Queued, InHand, Busy, WorkersRun
<1>2. CASE Deliver
  <2>1. PICK m \in ready : ready' = ready \ {m} /\ delivered' = {m} /\ delivered = {}
    BY <1>2 DEF Deliver
  <2>2. UNCHANGED <<inner, unfinished, hand, stop, timedOut, owed, processed, failed, lost,
                    restarts, listener>>
    BY <1>2 DEF Deliver, queue, shutdown, fates
  <2>3. UNCHANGED <<Queued, Busy, InHand, WorkersRun>>
    BY <2>2 DEF Queued, InHand, Busy, WorkersRun
  <2>4. TypeOK'
    BY <2>1, <2>2 DEF ConsumerInv, TypeOK
  <2>5. AtMostOnce'
    BY <2>1, <2>2, <2>3 DEF ConsumerInv, AtMostOnce, InMemory
  <2>. QED
    BY <2>2, <2>3, <2>4, <2>5 DEF ConsumerInv, Accounting, OwedIsSomewhere, ShutdownKeepsOwed
<1>3. CASE Accept
  <2>1. PICK m \in delivered : inner' = Append(inner, m)
    BY <1>3 DEF Accept
  <2>2. /\ delivered' = {} /\ delivered = {m} /\ m \in Messages /\ m \notin Queued
        /\ unfinished' = unfinished + 1 /\ Len(inner) < QueueLength /\ listener' = "polling"
        /\ \A i, j \in DOMAIN inner : inner[i] = inner[j] => i = j
        /\ UNCHANGED <<ready, hand, stop, timedOut, owed, processed, failed, lost, restarts>>
    BY <1>3, <2>1 DEF Accept, ConsumerInv, TypeOK, AtMostOnce, shutdown, fates
  <2>3. /\ inner' \in Seq(Messages) /\ Len(inner') = Len(inner) + 1
        /\ Queued' = Queued \union {m}
        /\ \A i, j \in DOMAIN inner' : inner'[i] = inner'[j] => i = j
    BY <2>1, <2>2, QueueGrows DEF ConsumerInv
  <2>4. UNCHANGED <<Busy, InHand, WorkersRun>>
    BY <2>2 DEF InHand, Busy, WorkersRun
  <2>5. TypeOK'
    BY <2>2, <2>3, ConsumerAssumption DEF ConsumerInv, TypeOK
  <2>6. AtMostOnce'
    BY <2>2, <2>3, <2>4 DEF ConsumerInv, AtMostOnce, InMemory
  <2>7. Accounting'
    BY <2>2, <2>3, <2>4, Counts DEF ConsumerInv, Accounting
  <2>. QED
    BY <2>2, <2>3, <2>4, <2>5, <2>6, <2>7 DEF ConsumerInv, OwedIsSomewhere, ShutdownKeepsOwed
<1>4. CASE GetTimesOut \/ ListenerDies
  <2>1. /\ lost' = lost \union delivered /\ delivered' = {}
        /\ listener' \in {"polling", "dead"}
        /\ UNCHANGED <<ready, inner, unfinished, hand, stop, timedOut, owed, processed, failed,
                       restarts>>
    BY <1>4 DEF GetTimesOut, ListenerDies, queue, shutdown
  <2>2. UNCHANGED <<Queued, Busy, InHand, WorkersRun>>
    BY <2>1 DEF Queued, InHand, Busy, WorkersRun
  <2>3. TypeOK'
    BY <2>1 DEF ConsumerInv, TypeOK
  <2>4. AtMostOnce'
    BY <2>1, <2>2 DEF ConsumerInv, AtMostOnce, InMemory
  <2>. QED
    BY <2>1, <2>2, <2>3, <2>4 DEF ConsumerInv, Accounting, OwedIsSomewhere, ShutdownKeepsOwed
<1>. QED
  BY <1>1, <1>2, <1>3, <1>4 DEF Listen

-----------------------------------------------------------------------------
(* The workers                                                             *)

\* A message goes from the queue to one worker, and from there to one fate.
LEMMA WorkersKeepInv ==
    ASSUME ConsumerInv, NEW w \in Workers, Work(w)
    PROVE  ConsumerInv'
<1>1. CASE Take(w)
  <2>1. /\ WorkersRun /\ hand[w] = None /\ inner # <<>>
        /\ hand' = [hand EXCEPT ![w] = Head(inner)] /\ inner' = Tail(inner)
        /\ UNCHANGED <<ready, delivered, listener, unfinished, stop, timedOut, owed,
                       processed, failed, lost, restarts>>
        /\ \A i, j \in DOMAIN inner : inner[i] = inner[j] => i = j
    BY <1>1 DEF Take, ConsumerInv, AtMostOnce, shutdown, fates
  <2>2. /\ inner' \in Seq(Messages) /\ Len(inner') = Len(inner) - 1
        /\ Head(inner) \in Messages
        /\ Queued = Queued' \union {Head(inner)} /\ Head(inner) \notin Queued'
        /\ \A i, j \in DOMAIN inner' : inner'[i] = inner'[j] => i = j
    BY <2>1, QueueShrinks DEF ConsumerInv
  <2>3. /\ hand' \in [Workers -> Messages \union {None}]
        /\ Busy' = Busy \union {w} /\ w \notin Busy
        /\ InHand' = InHand \union {Head(inner)}
        /\ \A v \in Busy : hand'[v] = hand[v]
        /\ hand'[w] = Head(inner)
        /\ Cardinality(Busy') = Cardinality(Busy) + 1
    BY <2>1, <2>2, HandFills DEF ConsumerInv
  <2>4. WorkersRun' = WorkersRun
    BY <2>1 DEF WorkersRun
  <2>5. TypeOK'
    BY <2>1, <2>2, <2>3, Counts, ConsumerAssumption DEF ConsumerInv, TypeOK
  <2>6. \A v \in Busy : hand[v] # Head(inner)
    BY <2>2 DEF ConsumerInv, AtMostOnce, InHand
  <2>7. \A u, v \in Busy' : hand'[u] = hand'[v] => u = v
    BY <2>3, <2>6 DEF ConsumerInv, AtMostOnce
  <2>8. AtMostOnce'
    BY <2>1, <2>2, <2>3, <2>7 DEF ConsumerInv, AtMostOnce, InMemory
  <2>9. Accounting'
    BY <2>1, <2>2, <2>3, <2>4, Counts DEF ConsumerInv, Accounting
  <2>. QED
    BY <2>1, <2>2, <2>3, <2>4, <2>5, <2>8, <2>9
       DEF ConsumerInv, OwedIsSomewhere, ShutdownKeepsOwed
<1>2. ASSUME hand' = [hand EXCEPT ![w] = None], hand[w] # None, WorkersRun,
             UNCHANGED <<ready, delivered, listener, inner, stop, timedOut, owed, lost, restarts>>,
             \/ /\ processed' = processed \union {hand[w]} /\ failed' = failed
                /\ unfinished' = unfinished - 1
             \/ /\ failed' = failed \union {hand[w]} /\ processed' = processed
                /\ unfinished' = unfinished
      PROVE  ConsumerInv'
  <2>1. /\ hand' \in [Workers -> Messages \union {None}]
        /\ Busy' = Busy \ {w} /\ w \in Busy
        /\ hand[w] \in Messages /\ hand[w] \in InHand
        /\ InHand' = InHand \ {hand[w]}
        /\ \A v \in Busy' : hand'[v] = hand[v]
        /\ Cardinality(Busy) \in Nat
        /\ Cardinality(Busy') = Cardinality(Busy) - 1
    BY <1>2, HandEmpties DEF ConsumerInv, AtMostOnce
  <2>2. Queued' = Queued /\ WorkersRun' = WorkersRun
    BY <1>2 DEF Queued, WorkersRun
  <2>3. hand[w] \notin failed
    BY <2>1 DEF ConsumerInv, AtMostOnce, InMemory
  <2>4. /\ Cardinality(failed) \in Nat /\ Len(inner) \in Nat
        /\ unfinished = Len(inner) + Cardinality(Busy) + Cardinality(failed)
        /\ failed' # failed => Cardinality(failed') = Cardinality(failed) + 1
    BY <1>2, <2>3, Counts, FS_AddElement DEF ConsumerInv, Accounting
  <2>5. Cardinality(Busy) >= 1
    BY <2>1, ConsumerAssumption, FS_Subset, FS_RemoveElement, FS_CardinalityType DEF Busy
  <2>6. unfinished' \in Nat
    BY <1>2, <2>1, <2>4, <2>5
  <2>7. TypeOK'
    BY <1>2, <2>1, <2>6 DEF ConsumerInv, TypeOK
  <2>8. AtMostOnce'
    <3>1. \A u, v \in Busy' : hand'[u] = hand'[v] => u = v
      BY <2>1 DEF ConsumerInv, AtMostOnce
    <3>. QED
      BY <1>2, <2>1, <2>2, <3>1 DEF ConsumerInv, AtMostOnce, InMemory
  <2>9. Accounting'
    <3>1. failed' # failed => unfinished' = unfinished
      BY <1>2
    <3>2. failed' = failed => unfinished' = unfinished - 1
      BY <1>2, <2>3
    <3>. QED
      BY <1>2, <2>1, <2>2, <2>4, <3>1, <3>2 DEF Accounting
  <2>10. OwedIsSomewhere'
    BY <1>2, <2>1, <2>2 DEF ConsumerInv, OwedIsSomewhere
  <2>11. ShutdownKeepsOwed'
    BY <1>2 DEF ConsumerInv, ShutdownKeepsOwed
  <2>. QED
    BY <2>7, <2>8, <2>9, <2>10, <2>11 DEF ConsumerInv
<1>3. CASE Process(w)
  BY <1>2, <1>3 DEF Process, shutdown
<1>4. CASE Fail(w)
  BY <1>2, <1>4 DEF Fail, queue, shutdown
<1>. QED
  BY <1>1, <1>3, <1>4 DEF Work

-----------------------------------------------------------------------------
(* Shutdown and restart                                                    *)

\* The join succeeds when nothing is left of what the shutdown owed.
LEMMA ShutdownKeepsInv ==
    ASSUME ConsumerInv, StopListening \/ Stop
    PROVE  ConsumerInv'
<1>1. CASE StopListening
  <2>1. /\ stop = "no" /\ stop' = "joining" /\ owed' = Queued \union InHand
        /\ UNCHANGED <<ready, delivered, listener, inner, unfinished, hand, timedOut,
                       processed, failed, lost, restarts>>
    BY <1>1 DEF StopListening, queue, fates
  <2>2. UNCHANGED <<Queued, Busy, InHand, WorkersRun>>
    BY <2>1 DEF Queued, InHand, Busy, WorkersRun
  <2>3. owed' \subseteq Messages
    BY <2>1 DEF ConsumerInv, TypeOK, Queued, InHand, Busy
  <2>4. TypeOK'
    BY <2>1, <2>3 DEF ConsumerInv, TypeOK
  <2>5. AtMostOnce'
    BY <2>1, <2>2 DEF ConsumerInv, AtMostOnce, InMemory
  <2>. QED
    BY <2>1, <2>2, <2>4, <2>5 DEF ConsumerInv, Accounting, OwedIsSomewhere, ShutdownKeepsOwed,
       WorkersRun
<1>2. CASE Join
  <2>1. /\ stop = "joining" /\ stop' = "joined" /\ unfinished = 0
        /\ UNCHANGED <<ready, delivered, listener, inner, unfinished, hand, timedOut, owed,
                       processed, failed, lost, restarts>>
    BY <1>2 DEF Join, queue, fates
  <2>2. UNCHANGED <<Queued, Busy, InHand>> /\ WorkersRun' /\ WorkersRun
    BY <2>1 DEF Queued, InHand, Busy, WorkersRun
  <2>3. Queued = {} /\ Busy = {} /\ failed = {}
    BY <2>1, <2>2, Counts DEF ConsumerInv, Accounting
  <2>4. owed \subseteq processed
    BY <2>1, <2>3 DEF ConsumerInv, OwedIsSomewhere, InHand
  <2>5. TypeOK'
    BY <2>1 DEF ConsumerInv, TypeOK
  <2>6. AtMostOnce'
    BY <2>1, <2>2 DEF ConsumerInv, AtMostOnce, InMemory
  <2>. QED
    BY <2>1, <2>2, <2>4, <2>5, <2>6 DEF ConsumerInv, Accounting, OwedIsSomewhere,
       ShutdownKeepsOwed
<1>3. CASE CancelWorkers
  <2>1. /\ stop \in {"joining", "joined"} /\ stop' = "closing" /\ timedOut' = (stop = "joining")
        /\ lost' = lost \union InHand /\ hand' = [w \in Workers |-> None]
        /\ UNCHANGED <<ready, delivered, listener, inner, unfinished, owed, processed, failed,
                       restarts>>
    BY <1>3 DEF CancelWorkers, queue
  <2>2. /\ hand' \in [Workers -> Messages \union {None}]
        /\ Busy' = {} /\ InHand' = {}
        /\ Queued' = Queued /\ ~WorkersRun'
        /\ InHand \subseteq Messages
    BY <2>1, HandsAreEmpty DEF Queued, WorkersRun, ConsumerInv, TypeOK, InHand, Busy
  <2>3. TypeOK'
    BY <2>1, <2>2 DEF ConsumerInv, TypeOK
  <2>4. AtMostOnce'
    BY <2>1, <2>2 DEF ConsumerInv, AtMostOnce, InMemory
  <2>5. ShutdownKeepsOwed'
    BY <2>1 DEF ConsumerInv, ShutdownKeepsOwed, OwedIsSomewhere, WorkersRun
  <2>. QED
    BY <2>1, <2>2, <2>3, <2>4, <2>5 DEF ConsumerInv, Accounting, OwedIsSomewhere
<1>4. CASE Close
  <2>1. /\ stop = "closing" /\ stop' = "closed" /\ listener' = "dead" /\ inner' = <<>>
        /\ lost' = lost \union delivered \union Queued /\ delivered' = {}
        /\ UNCHANGED <<ready, unfinished, hand, timedOut, owed, processed, failed, restarts>>
    BY <1>4 DEF Close
  <2>2. /\ inner' \in Seq(Messages) /\ Len(inner') = 0 /\ Queued' = {}
        /\ UNCHANGED <<Busy, InHand>> /\ ~WorkersRun'
        /\ Queued \subseteq Messages
    BY <2>1 DEF Queued, InHand, Busy, WorkersRun, ConsumerInv, TypeOK
  <2>3. TypeOK'
    BY <2>1, <2>2, ConsumerAssumption DEF ConsumerInv, TypeOK
  <2>4. AtMostOnce'
    BY <2>1, <2>2 DEF ConsumerInv, AtMostOnce, InMemory
  <2>. QED
    BY <2>1, <2>2, <2>3, <2>4 DEF ConsumerInv, Accounting, OwedIsSomewhere, ShutdownKeepsOwed
<1>. QED
  BY <1>1, <1>2, <1>3, <1>4 DEF Stop

\* A restart loses what was in memory, and forgets what had failed (Restart).
LEMMA RestartKeepsInv ==
    ASSUME ConsumerInv, Restart
    PROVE  ConsumerInv'
<1>1. /\ restarts < MaxRestarts /\ restarts' = restarts + 1
      /\ lost' = lost \union delivered \union Queued \union InHand \union failed
      /\ failed' = {} /\ delivered' = {} /\ listener' = "polling" /\ inner' = <<>>
      /\ unfinished' = 0 /\ hand' = [w \in Workers |-> None] /\ stop' = "no"
      /\ timedOut' = FALSE /\ owed' = {} /\ UNCHANGED <<ready, processed>>
  BY DEF Restart
<1>2. /\ inner' \in Seq(Messages) /\ Len(inner') = 0 /\ Queued' = {} /\ DOMAIN inner' = {}
      /\ hand' \in [Workers -> Messages \union {None}]
      /\ Busy' = {} /\ InHand' = {} /\ Cardinality(Busy') = 0 /\ Cardinality(failed') = 0
  BY <1>1, HandsAreEmpty, FS_EmptySet DEF Queued
<1>3. Queued \union InHand \subseteq Messages
  BY DEF ConsumerInv, TypeOK, Queued, InHand, Busy
<1>4. TypeOK'
  <2>1. restarts' \in 0..MaxRestarts /\ Len(inner') <= QueueLength
    BY <1>1, <1>2, ConsumerAssumption DEF ConsumerInv, TypeOK
  <2>2. /\ lost' \subseteq Messages /\ failed' \subseteq Messages
        /\ ready' \subseteq Messages /\ processed' \subseteq Messages
    BY <1>1, <1>3 DEF ConsumerInv, TypeOK
  <2>. QED
    BY <1>1, <1>2, <2>1, <2>2 DEF TypeOK
<1>5. AtMostOnce'
  BY <1>1, <1>2 DEF ConsumerInv, AtMostOnce, InMemory
<1>. QED
  BY <1>1, <1>2, <1>4, <1>5 DEF ConsumerInv, Accounting, OwedIsSomewhere, ShutdownKeepsOwed

-----------------------------------------------------------------------------
(* The theorems                                                            *)

\* A process that starts has nothing in memory (Init).
LEMMA ConsumerStarts == Init => ConsumerInv
<1>. SUFFICES ASSUME Init PROVE ConsumerInv
  OBVIOUS
<1>1. /\ Queued = {} /\ Busy = {} /\ InHand = {} /\ DOMAIN inner = {} /\ Len(inner) = 0
      /\ hand \in [Workers -> Messages \union {None}] /\ inner \in Seq(Messages)
  BY DEF Init, Queued, Busy, InHand
<1>2. Cardinality(Busy) = 0 /\ Cardinality(failed) = 0
  BY <1>1, FS_EmptySet DEF Init
<1>3. TypeOK
  <2>1. restarts \in 0..MaxRestarts /\ Len(inner) <= QueueLength /\ unfinished \in Nat
    BY <1>1, ConsumerAssumption DEF Init
  <2>. QED
    BY <1>1, <2>1 DEF Init, TypeOK
<1>4. AtMostOnce
  BY <1>1 DEF Init, AtMostOnce, InMemory
<1>. QED
  BY <1>1, <1>2, <1>3, <1>4 DEF Init, ConsumerInv, Accounting, OwedIsSomewhere, ShutdownKeepsOwed

\* Every step of the listener, the workers, the shutdown and the restart (Next).
LEMMA ConsumerGoesOn == ConsumerInv /\ [Next]_vars => ConsumerInv'
<1>. SUFFICES ASSUME ConsumerInv, [Next]_vars PROVE ConsumerInv'
  OBVIOUS
<1>1. CASE Next
  BY <1>1, ListenerKeepsInv, WorkersKeepInv, ShutdownKeepsInv, RestartKeepsInv DEF Next
<1>2. CASE UNCHANGED vars
  BY <1>2 DEF vars, queue, shutdown, fates, ConsumerInv, TypeOK, AtMostOnce, Accounting,
     OwedIsSomewhere, ShutdownKeepsOwed, InMemory, Queued, InHand, Busy, WorkersRun
<1>. QED
  BY <1>1, <1>2

(* The counter of the queue is exactly what is queued, in hand and failed, *)
(* which is why a failure makes the join time out; the other theorems      *)
(* follow from this invariant (AMQPInterface, AMQPMessageProcessor).       *)
THEOREM ConsumerInvariance == Spec => []ConsumerInv
BY ConsumerStarts, ConsumerGoesOn, PTL DEF Spec

\* Every variable keeps its shape; the counter never goes below zero.
THEOREM ConsumerTypes == Spec => []TypeOK
<1>1. ConsumerInv => TypeOK
  BY DEF ConsumerInv
<1>. QED
  BY <1>1, ConsumerInvariance, PTL

\* No request is processed twice, whatever the timeouts, failures and restarts.
THEOREM NoRequestTwice == Spec => []AtMostOnce
<1>1. ConsumerInv => AtMostOnce
  BY DEF ConsumerInv
<1>. QED
  BY <1>1, ConsumerInvariance, PTL

\* A shutdown that does not time out has processed what it owed (stop_listening).
THEOREM CleanShutdownOwesNothing == Spec => []ShutdownKeepsOwed
<1>1. ConsumerInv => ShutdownKeepsOwed
  BY DEF ConsumerInv
<1>. QED
  BY <1>1, ConsumerInvariance, PTL

=============================================================================
