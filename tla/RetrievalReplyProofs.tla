------------------------ MODULE RetrievalReplyProofs ------------------------
(***************************************************************************)
(* Proofs about RetrievalReply, for any number of harvesters, of messages  *)
(* of each, and any capacity of the queue.                                 *)
(***************************************************************************)
EXTENDS RetrievalReply, TLAPS, SequenceTheorems

\* Where a harvester stands, and what it has said and stored by then.
HarvesterStands(h) ==
    /\ h \in toLaunch => task[h] = "none"
    /\ task[h] \in {"none", "launched", "ended"} => pending[h] = None
    /\ task[h] = "none" => said[h] = 0 /\ state[h] = "none"
    /\ task[h] = "launched" => said[h] = 0 /\ state[h] = "running"
    /\ task[h] = "working" => said[h] < MaxSaid[h] /\ state[h] \in {"running", "failed"}
    /\ pending[h] # None => pending[h].of = h

\* The two tasks the worker waits for, and what ends them.
TasksEnd ==
    /\ listener = "resuming" <=> item # None
    /\ listener = "ended" => warned \/ worker = "done"
    /\ launcher = "ended" => launchFailed \/ (toLaunch = {} /\ Unfinished = {})

\* No message is numbered beyond what its harvester has said.
Numbered ==
    \A i \in DOMAIN Places : \A m \in Places[i] : m \in Message /\ m.n <= said[m.of]

\* The database is at least as far as the messages not yet published.
StateIsAhead ==
    \A i \in 1..4 : \A m \in Places[i] :
        m.kind = "state" => Rank[m.state] <= Rank[state[m.of]]

ReplyInv ==
    /\ TypeOK
    /\ \A h \in Harvesters : HarvesterStands(h)
    /\ TasksEnd /\ Numbered /\ StateIsAhead
    /\ EachMessageOnce /\ NewsIsNotOlder /\ DoneMeansEnded

-----------------------------------------------------------------------------
(* Messages and places                                                     *)

\* The conjuncts of EachMessageOnce.
EachSomewhere ==
    \A h \in Harvesters : \A n \in 1..said[h] :
         \E i \in DOMAIN Places : \E m \in Places[i] : m.of = h /\ m.n = n

OnePlace == \A i, j \in DOMAIN Places : Places[i] \cap Places[j] # {} => i = j

QueuedOnce == \A i, j \in DOMAIN results : results[i] = results[j] => i = j

\* The six places of a message.
LEMMA PlacesAre ==
    /\ DOMAIN Places = 1..6
    /\ Places[1] = {pending[h] : h \in Harvesters} \ {None}
    /\ Places[2] = ToSet(results) /\ Places[3] = {item} \ {None}
    /\ Places[4] = publishing /\ Places[5] = {b.msg : b \in published}
    /\ Places[6] = dropped
BY DEF Places

\* A message that goes to a later place is still in one place (Put, Get, Resume, Publish).
LEMMA MessageMoves ==
    ASSUME EachSomewhere, OnePlace, Numbered, StateIsAhead,
           NEW i \in 1..6, NEW j \in 1..6, i < j, NEW m \in Places[i],
           Places'[i] = Places[i] \ {m}, Places'[j] = Places[j] \union {m},
           \A k \in (1..6) \ {i, j} : Places'[k] = Places[k],
           said' = said, state' = state
    PROVE  EachSomewhere' /\ OnePlace' /\ Numbered' /\ StateIsAhead'
<1>1. DOMAIN Places = 1..6 /\ DOMAIN Places' = 1..6
  BY PlacesAre DEF Places
<1>2. \A k \in 1..6 : \A o \in Places'[k] : o \in Places[k] \/ (k = j /\ o = m)
  OBVIOUS
<1>3. \A k \in 1..6 : \A o \in Places[k] : o \in Places'[k] \/ (k = i /\ o = m)
  OBVIOUS
<1>4. EachSomewhere'
  <2>1. SUFFICES ASSUME NEW h \in Harvesters, NEW n \in 1..said[h]
                 PROVE  \E k \in 1..6 : \E o \in Places'[k] : o.of = h /\ o.n = n
    BY <1>1 DEF EachSomewhere
  <2>2. PICK k \in 1..6 : \E o \in Places[k] : o.of = h /\ o.n = n
    BY <1>1 DEF EachSomewhere
  <2>3. PICK o \in Places[k] : o.of = h /\ o.n = n
    BY <2>2
  <2>4. o \in Places'[k] \/ (o = m /\ m \in Places'[j])
    BY <1>3
  <2>. QED
    BY <2>3, <2>4
<1>5. OnePlace'
  <2>1. SUFFICES ASSUME NEW k \in 1..6, NEW l \in 1..6, NEW o, o \in Places'[k], o \in Places'[l]
                 PROVE  k = l
    BY <1>1 DEF OnePlace
  <2>2. \A q, r \in 1..6 : \A p : p \in Places[q] /\ p \in Places[r] => q = r
    BY <1>1 DEF OnePlace
  <2>3. CASE o = m
    <3>1. \A q \in 1..6 : m \in Places'[q] => q = j
      BY <2>2
    <3>. QED
      BY <2>1, <2>3, <3>1
  <2>4. CASE o # m
    BY <1>2, <2>1, <2>2, <2>4
  <2>. QED
    BY <2>3, <2>4
<1>6. Numbered'
  BY <1>1, <1>2 DEF Numbered
<1>7. StateIsAhead'
  BY <1>2 DEF StateIsAhead
<1>. QED
  BY <1>4, <1>5, <1>6, <1>7

\* The states of a harvesting are ordered as they follow each other.
LEMMA Ranks ==
    /\ Rank["none"] = 0 /\ Rank["running"] = 1 /\ Rank["failed"] = 2 /\ Rank["completed"] = 3
    /\ \A s \in States : Rank[s] \in Nat
<1>1. Rank["none"] = 0 /\ Rank["running"] = 1 /\ Rank["failed"] = 2 /\ Rank["completed"] = 3
  BY DEF Rank, States
<1>. QED
  BY <1>1 DEF States

(* Messages stay where they are, while the database goes on (Launch, Die   *)
(* and the steps of the listener without a result).                        *)
LEMMA MessagesStay ==
    ASSUME ReplyInv, UNCHANGED <<said, pending, results, item, publishing, published, dropped>>,
           state' \in [Harvesters -> States],
           \A h \in Harvesters : Rank[state[h]] <= Rank[state'[h]]
    PROVE  EachMessageOnce' /\ Numbered' /\ StateIsAhead' /\ NewsIsNotOlder'
<1>1. Places' = Places
  BY DEF Places
<1>2. \A m \in Message : m.of \in Harvesters /\ m.state \in States
  BY DEF Message
<1>3. StateIsAhead'
  <2>1. SUFFICES ASSUME NEW i \in 1..4, NEW m \in Places[i], m.kind = "state"
                 PROVE  Rank[m.state] <= Rank[state'[m.of]]
    BY <1>1 DEF StateIsAhead
  <2>2. m \in Message /\ Rank[m.state] <= Rank[state[m.of]]
    BY <2>1, PlacesAre DEF ReplyInv, Numbered, StateIsAhead
  <2>3. /\ Rank[m.state] \in Nat /\ Rank[state[m.of]] \in Nat /\ Rank[state'[m.of]] \in Nat
        /\ Rank[state[m.of]] <= Rank[state'[m.of]]
    BY <1>2, <2>2, Ranks DEF ReplyInv, TypeOK
  <2>. QED
    BY <2>2, <2>3
<1>. QED
  BY <1>1, <1>3 DEF ReplyInv, EachMessageOnce, Numbered, NewsIsNotOlder

\* A new message has a number of its own, hence is nowhere else (Say).
LEMMA MessageIsNew ==
    ASSUME ReplyInv, NEW h \in Harvesters, pending[h] = None, NEW kind \in {"state", "event"},
           NEW s \in States, Say(h, kind, s), Rank[state[h]] <= Rank[s], said[h] < MaxSaid[h],
           UNCHANGED <<results, item, publishing, published, dropped>>
    PROVE  /\ EachMessageOnce' /\ Numbered' /\ StateIsAhead' /\ NewsIsNotOlder'
           /\ pending' \in [Harvesters -> Message \union {None}]
           /\ said' \in [Harvesters -> Nat] /\ \A g \in Harvesters : said'[g] <= MaxSaid[g]
           /\ state' \in [Harvesters -> States]
           /\ pending'[h] # None /\ pending'[h].of = h
<1>. DEFINE m == [of |-> h, n |-> said[h] + 1, kind |-> kind, state |-> s]
<1>1. /\ pending' = [pending EXCEPT ![h] = m] /\ state' = [state EXCEPT ![h] = s]
      /\ said' = [said EXCEPT ![h] = @ + 1]
      /\ pending \in [Harvesters -> Message \union {None}]
      /\ said \in [Harvesters -> Nat] /\ state \in [Harvesters -> States]
      /\ \A g \in Harvesters : said[g] <= MaxSaid[g] /\ MaxSaid[g] \in Nat
  BY ReplyAssumption DEF Say, ReplyInv, TypeOK
<1>2. m \in Message /\ m # None
  <2>1. said[h] + 1 \in Nat \ {0}
    BY <1>1
  <2>. QED
    BY <2>1, ReplyAssumption DEF Message
<1>3. /\ pending' \in [Harvesters -> Message \union {None}]
      /\ said' \in [Harvesters -> Nat] /\ state' \in [Harvesters -> States]
      /\ pending'[h] = m /\ said'[h] = said[h] + 1
      /\ \A g \in Harvesters \ {h} :
           pending'[g] = pending[g] /\ said'[g] = said[g] /\ state'[g] = state[g]
      /\ state'[h] = s
  BY <1>1, <1>2
<1>4. Places'[1] = Places[1] \union {m} /\ \A k \in 2..6 : Places'[k] = Places[k]
  <2>1. Places'[1] = {pending'[g] : g \in Harvesters} \ {None}
    BY DEF Places
  <2>2. Places'[1] = Places[1] \union {m}
    BY <1>2, <1>3, <2>1, PlacesAre
  <2>3. /\ Places'[2] = Places[2] /\ Places'[3] = Places[3] /\ Places'[4] = Places[4]
        /\ Places'[5] = Places[5] /\ Places'[6] = Places[6]
    BY DEF Places
  <2>. QED
    BY <2>2, <2>3
<1>5. DOMAIN Places = 1..6 /\ DOMAIN Places' = 1..6
  BY PlacesAre DEF Places
<1>6. \A k \in 1..6 : \A o \in Places[k] : o \in Message /\ o.n <= said[o.of]
  BY <1>5 DEF ReplyInv, Numbered
<1>7. \A o \in Message : o.of \in Harvesters /\ o.n \in Nat /\ o.state \in States
  BY DEF Message
<1>8. \A k \in 1..6 : m \notin Places[k]
  <2>1. m.n = said[h] + 1 /\ m.of = h /\ said[h] \in Nat
    BY <1>1
  <2>. QED
    BY <1>6, <2>1
<1>9. \A k \in 1..6 : \A o \in Places'[k] : o \in Places[k] \/ (k = 1 /\ o = m)
  BY <1>4
<1>10. EachSomewhere'
  <2>1. SUFFICES ASSUME NEW g \in Harvesters, NEW n \in 1..said'[g]
                 PROVE  \E k \in 1..6 : \E o \in Places'[k] : o.of = g /\ o.n = n
    BY <1>5 DEF EachSomewhere
  <2>2. CASE g = h /\ n = said[h] + 1
    <3>1. m \in Places'[1] /\ m.of = g /\ m.n = n
      BY <1>4, <2>2
    <3>. QED
      BY <3>1
  <2>3. CASE ~(g = h /\ n = said[h] + 1)
    <3>1. n \in 1..said[g]
      BY <1>1, <1>3, <2>1, <2>3
    <3>2. PICK k \in 1..6 : \E o \in Places[k] : o.of = g /\ o.n = n
      BY <1>5, <3>1 DEF ReplyInv, EachMessageOnce
    <3>3. Places[k] \subseteq Places'[k]
      BY <1>4
    <3>. QED
      BY <3>2, <3>3
  <2>. QED
    BY <2>2, <2>3
<1>11. OnePlace'
  <2>1. SUFFICES ASSUME NEW k \in 1..6, NEW l \in 1..6, NEW o, o \in Places'[k], o \in Places'[l]
                 PROVE  k = l
    BY <1>5 DEF OnePlace
  <2>2. \A q, r \in 1..6 : \A p : p \in Places[q] /\ p \in Places[r] => q = r
    BY <1>5 DEF ReplyInv, EachMessageOnce
  <2>. QED
    BY <1>8, <1>9, <2>1, <2>2
<1>12. Numbered'
  <2>1. SUFFICES ASSUME NEW k \in 1..6, NEW o \in Places'[k]
                 PROVE  o \in Message /\ o.n <= said'[o.of]
    BY <1>5 DEF Numbered
  <2>2. CASE o = m
    BY <1>1, <1>2, <1>3, <2>2
  <2>3. CASE o # m
    <3>1. o \in Message /\ o.n <= said[o.of] /\ o.of \in Harvesters /\ o.n \in Nat
      BY <1>6, <1>7, <1>9, <2>1, <2>3
    <3>2. said[o.of] <= said'[o.of] /\ said[o.of] \in Nat /\ said'[o.of] \in Nat
      BY <1>1, <1>3, <3>1
    <3>. QED
      BY <3>1, <3>2
  <2>. QED
    BY <2>2, <2>3
<1>13. StateIsAhead'
  <2>1. SUFFICES ASSUME NEW k \in 1..4, NEW o \in Places'[k], o.kind = "state"
                 PROVE  Rank[o.state] <= Rank[state'[o.of]]
    BY DEF StateIsAhead
  <2>2. CASE o = m
    BY <1>3, <2>2, Ranks
  <2>3. CASE o # m
    <3>1. /\ o \in Message /\ o.of \in Harvesters /\ o.state \in States
          /\ Rank[o.state] <= Rank[state[o.of]]
      BY <1>6, <1>7, <1>9, <2>1, <2>3 DEF ReplyInv, StateIsAhead
    <3>2. /\ Rank[state[o.of]] <= Rank[state'[o.of]] /\ Rank[o.state] \in Nat
          /\ Rank[state[o.of]] \in Nat /\ Rank[state'[o.of]] \in Nat
      BY <1>1, <1>3, <3>1, Ranks
    <3>. QED
      BY <3>1, <3>2
  <2>. QED
    BY <2>2, <2>3
<1>14. \A g \in Harvesters : said'[g] <= MaxSaid[g]
  BY <1>1, <1>3
<1>15. EachMessageOnce'
  BY <1>10, <1>11 DEF EachMessageOnce, EachSomewhere, OnePlace, ReplyInv
<1>16. NewsIsNotOlder'
  BY DEF NewsIsNotOlder, ReplyInv
<1>. QED
  BY <1>2, <1>3, <1>12, <1>13, <1>14, <1>15, <1>16

-----------------------------------------------------------------------------
(* The queue of results                                                    *)

\* A message that is not queued is added once (put).
LEMMA QueueGrows ==
    ASSUME NEW S, NEW s \in Seq(S), NEW m \in S, m \notin ToSet(s),
           \A i, j \in DOMAIN s : s[i] = s[j] => i = j
    PROVE  /\ Append(s, m) \in Seq(S) /\ Len(Append(s, m)) = Len(s) + 1
           /\ ToSet(Append(s, m)) = ToSet(s) \union {m}
           /\ \A i, j \in DOMAIN Append(s, m) : Append(s, m)[i] = Append(s, m)[j] => i = j
<1>. DEFINE t == Append(s, m)
<1>1. DOMAIN s = 1..Len(s) /\ Len(s) \in Nat
  OBVIOUS
<1>2. /\ t \in Seq(S) /\ Len(t) = Len(s) + 1 /\ DOMAIN t = 1..(Len(s) + 1)
      /\ \A i \in 1..Len(s) : t[i] = s[i]
      /\ t[Len(s) + 1] = m
  BY <1>1
<1>. HIDE DEF t
<1>3. ToSet(t) = ToSet(s) \union {m}
  BY <1>1, <1>2 DEF ToSet
<1>4. \A i \in 1..Len(s) : t[i] # m
  BY <1>1, <1>2 DEF ToSet
<1>5. \A i, j \in DOMAIN t : t[i] = t[j] => i = j
  BY <1>1, <1>2, <1>4
<1>. QED
  BY <1>2, <1>3, <1>5 DEF t

\* The oldest message leaves the others (get).
LEMMA QueueShrinks ==
    ASSUME NEW S, NEW s \in Seq(S), s # <<>>, \A i, j \in DOMAIN s : s[i] = s[j] => i = j
    PROVE  /\ Tail(s) \in Seq(S) /\ Len(Tail(s)) = Len(s) - 1
           /\ Head(s) \in S /\ Head(s) \in ToSet(s)
           /\ ToSet(Tail(s)) = ToSet(s) \ {Head(s)}
           /\ \A i, j \in DOMAIN Tail(s) : Tail(s)[i] = Tail(s)[j] => i = j
<1>. DEFINE t == Tail(s)
<1>1. DOMAIN s = 1..Len(s) /\ Len(s) \in Nat \ {0} /\ Head(s) = s[1] /\ Head(s) \in S
  BY EmptySeq
<1>2. /\ t \in Seq(S) /\ Len(t) = Len(s) - 1 /\ DOMAIN t = 1..(Len(s) - 1)
      /\ \A i \in 1..(Len(s) - 1) : t[i] = s[i + 1]
  BY <1>1
<1>. HIDE DEF t
<1>3. \A i \in 1..Len(s) : i = 1 \/ (i - 1 \in 1..(Len(s) - 1) /\ t[i - 1] = s[i])
  BY <1>1, <1>2
<1>4. \A i \in 1..(Len(s) - 1) : t[i] # s[1]
  BY <1>1, <1>2
<1>5. \A i \in 1..(Len(s) - 1) : t[i] \in ToSet(s) \ {Head(s)}
  BY <1>1, <1>2, <1>4 DEF ToSet
<1>6. \A k \in 1..(Len(s) - 1) : t[k] \in ToSet(t)
  BY <1>2 DEF ToSet
<1>7. \A i \in 1..Len(s) : s[i] = Head(s) \/ s[i] \in ToSet(t)
  BY <1>1, <1>3, <1>6
<1>8. ToSet(t) = ToSet(s) \ {Head(s)} /\ Head(s) \in ToSet(s)
  <2>1. ToSet(t) \subseteq ToSet(s) \ {Head(s)}
    BY <1>2, <1>5 DEF ToSet
  <2>2. ToSet(s) \subseteq ToSet(t) \union {Head(s)}
    BY <1>1, <1>7 DEF ToSet
  <2>3. Head(s) \in ToSet(s)
    BY <1>1 DEF ToSet
  <2>. QED
    BY <2>1, <2>2, <2>3
<1>9. ASSUME NEW i \in DOMAIN t, NEW j \in DOMAIN t, t[i] = t[j]
      PROVE  i = j
  <2>1. /\ i \in Int /\ j \in Int /\ i + 1 \in DOMAIN s /\ j + 1 \in DOMAIN s
        /\ t[i] = s[i + 1] /\ t[j] = s[j + 1]
    BY <1>1, <1>2
  <2>2. i + 1 = j + 1
    BY <1>9, <2>1
  <2>. QED
    BY <2>1, <2>2
<1>. QED
  BY <1>1, <1>2, <1>8, <1>9 DEF t

-----------------------------------------------------------------------------
(* The launcher                                                            *)

\* A harvesting starts in the database before its task runs (_launch_harvesters).
LEMMA LauncherKeepsInv ==
    ASSUME ReplyInv, LaunchAll \/ LaunchFails
    PROVE  ReplyInv'
<1>1. ASSUME NEW h \in Harvesters, Launch(h)
      PROVE  ReplyInv'
  <2>1. /\ launcher = "launching" /\ h \in toLaunch /\ toLaunch' = toLaunch \ {h}
        /\ state' = [state EXCEPT ![h] = "running"] /\ task' = [task EXCEPT ![h] = "launched"]
        /\ UNCHANGED <<launcher, launchFailed, said, pending, results, listener, item, warned,
                       worker, publishing, published, dropped>>
    BY <1>1 DEF Launch, listening, publication
  <2>2. task[h] = "none" /\ state[h] = "none" /\ said[h] = 0 /\ pending[h] = None
    BY <2>1 DEF ReplyInv, HarvesterStands
  <2>3. /\ state' \in [Harvesters -> States]
        /\ \A g \in Harvesters : Rank[state[g]] <= Rank[state'[g]]
    <3>1. state \in [Harvesters -> States] /\ "running" \in States
      BY DEF ReplyInv, TypeOK, States
    <3>2. state' \in [Harvesters -> States]
      BY <2>1, <3>1
    <3>3. ASSUME NEW g \in Harvesters PROVE Rank[state[g]] <= Rank[state'[g]]
      <4>1. CASE g = h
        <5>1. state'[g] = "running" /\ state[g] = "none"
          BY <2>1, <2>2, <3>1, <4>1
        <5>. QED
          BY <5>1, Ranks
      <4>2. CASE g # h
        <5>1. state'[g] = state[g] /\ state[g] \in States
          BY <2>1, <3>1, <4>2
        <5>. QED
          BY <5>1, Ranks
      <4>. QED
        BY <4>1, <4>2
    <3>. QED
      BY <3>2, <3>3
  <2>4. EachMessageOnce' /\ Numbered' /\ StateIsAhead' /\ NewsIsNotOlder'
    BY <2>1, <2>3, MessagesStay
  <2>5. TypeOK'
    BY <2>1, <2>3 DEF ReplyInv, TypeOK
  <2>6. ASSUME NEW g \in Harvesters PROVE HarvesterStands(g)'
    <3>1. HarvesterStands(g)
      BY DEF ReplyInv
    <3>. QED
      BY <2>1, <2>2, <3>1 DEF ReplyInv, HarvesterStands, TypeOK
  <2>7. TasksEnd'
    BY <2>1 DEF ReplyInv, TasksEnd
  <2>8. DoneMeansEnded'
    BY <2>1 DEF ReplyInv, DoneMeansEnded
  <2>. QED
    BY <2>4, <2>5, <2>6, <2>7, <2>8 DEF ReplyInv
<1>2. CASE LauncherEnds \/ LaunchFails
  <2>1. /\ launcher' = "ended"
        /\ \/ launchFailed' = launchFailed /\ toLaunch = {} /\ Unfinished = {}
           \/ launchFailed' = TRUE
        /\ UNCHANGED <<toLaunch, state, task, said, pending, results, listener, item, warned,
                       worker, publishing, published, dropped>>
    BY <1>2 DEF LauncherEnds, LaunchFails, harvesting, listening, publication
  <2>2. launchFailed' \in BOOLEAN /\ (launchFailed => launchFailed')
    BY <2>1 DEF ReplyInv, TypeOK
  <2>3. Places' = Places /\ Unfinished' = Unfinished
    BY <2>1 DEF Places, Unfinished
  <2>. QED
    BY <2>1, <2>2, <2>3 DEF ReplyInv, TypeOK, HarvesterStands, TasksEnd, Numbered, StateIsAhead,
       EachMessageOnce, NewsIsNotOlder, DoneMeansEnded
<1>. QED
  BY <1>1, <1>2 DEF LaunchAll

-----------------------------------------------------------------------------
(* The harvesters                                                          *)

(* What a harvester says, it says in the state it announces, and goes on   *)
(* when it has something left to say (Start, Report, Signal, Complete).    *)
LEMMA SayingKeepsInv ==
    ASSUME ReplyInv, NEW h \in Harvesters, NEW kind \in {"state", "event"}, NEW s \in States,
           NEW t \in {"working", "ending"},
           Say(h, kind, s), task' = [task EXCEPT ![h] = t],
           task[h] \in {"launched", "working"}, pending[h] = None,
           Rank[state[h]] <= Rank[s], said[h] < MaxSaid[h],
           t = "working" => said[h] + 1 < MaxSaid[h] /\ s \in {"running", "failed"},
           UNCHANGED <<launching, results, listening, worker, publication>>
    PROVE  ReplyInv'
<1>1. /\ said' = [said EXCEPT ![h] = @ + 1] /\ state' = [state EXCEPT ![h] = s]
      /\ \A g \in Harvesters \ {h} : pending'[g] = pending[g]
      /\ UNCHANGED <<toLaunch, launcher, launchFailed, results, listener, item, warned, worker,
                     publishing, published, dropped>>
      /\ task \in [Harvesters -> {"none", "launched", "working", "ending", "ended"}]
      /\ said \in [Harvesters -> Nat] /\ state \in [Harvesters -> States]
  BY DEF Say, launching, listening, publication, ReplyInv, TypeOK
<1>2. /\ EachMessageOnce' /\ Numbered' /\ StateIsAhead' /\ NewsIsNotOlder'
      /\ pending' \in [Harvesters -> Message \union {None}]
      /\ said' \in [Harvesters -> Nat] /\ \A g \in Harvesters : said'[g] <= MaxSaid[g]
      /\ state' \in [Harvesters -> States]
      /\ pending'[h] # None /\ pending'[h].of = h
  BY <1>1, MessageIsNew
<1>3. TypeOK'
  BY <1>1, <1>2 DEF ReplyInv, TypeOK
<1>4. ASSUME NEW g \in Harvesters PROVE HarvesterStands(g)'
  <2>1. HarvesterStands(g)
    BY DEF ReplyInv
  <2>2. CASE g = h
    BY <1>1, <1>2, <2>1, <2>2 DEF HarvesterStands
  <2>3. CASE g # h
    BY <1>1, <2>1, <2>3 DEF HarvesterStands
  <2>. QED
    BY <2>2, <2>3
<1>5. Unfinished' = Unfinished
  BY <1>1 DEF Unfinished
<1>6. TasksEnd' /\ DoneMeansEnded'
  BY <1>1, <1>5 DEF ReplyInv, TasksEnd, DoneMeansEnded
<1>. QED
  BY <1>2, <1>3, <1>4, <1>6 DEF ReplyInv

\* The actions of a harvester that say something.
LEMMA HarvesterSays ==
    ASSUME ReplyInv, NEW h \in Harvesters,
           \/ Start(h) \/ Report(h) \/ Complete(h)
           \/ \E next \in {"working", "ending"} : Signal(h, next)
    PROVE  ReplyInv'
<1>1. /\ HarvesterStands(h)
      /\ MaxSaid[h] \in Nat \ {0, 1} /\ said[h] \in Nat /\ said[h] <= MaxSaid[h]
      /\ task \in [Harvesters -> {"none", "launched", "working", "ending", "ended"}]
  BY ReplyAssumption DEF ReplyInv, TypeOK
<1>2. CASE Start(h)
  <2>1. /\ task[h] = "launched" /\ pending[h] = None /\ said[h] = 0 /\ state[h] = "running"
        /\ Say(h, "state", "running") /\ task' = [task EXCEPT ![h] = "working"]
        /\ UNCHANGED <<launching, results, listening, worker, publication>>
    BY <1>1, <1>2 DEF Start, HarvesterStands
  <2>2. /\ Rank[state[h]] <= Rank["running"] /\ "running" \in States
        /\ said[h] < MaxSaid[h] /\ said[h] + 1 < MaxSaid[h]
    BY <1>1, <2>1, Ranks DEF States
  <2>. QED
    BY <2>1, <2>2, SayingKeepsInv
<1>3. CASE Report(h)
  <2>1. /\ task[h] = "working" /\ pending[h] = None /\ said[h] < MaxSaid[h] - 1
        /\ state[h] \in {"running", "failed"}
        /\ Say(h, "event", state[h]) /\ task' = [task EXCEPT ![h] = "working"]
        /\ UNCHANGED <<launching, results, listening, worker, publication>>
    BY <1>1, <1>3 DEF Report, Working, HarvesterStands
  <2>2. Rank[state[h]] <= Rank[state[h]] /\ said[h] < MaxSaid[h] /\ said[h] + 1 < MaxSaid[h]
        /\ state[h] \in States
    BY <1>1, <2>1, Ranks DEF States
  <2>. QED
    BY <2>1, <2>2, SayingKeepsInv
<1>4. CASE Complete(h)
  <2>1. /\ task[h] = "working" /\ pending[h] = None /\ said[h] < MaxSaid[h]
        /\ state[h] \in {"running", "failed"}
        /\ Say(h, "state", "completed") /\ task' = [task EXCEPT ![h] = "ending"]
        /\ UNCHANGED <<launching, results, listening, worker, publication>>
    BY <1>1, <1>4 DEF Complete, Working, HarvesterStands
  <2>2. Rank[state[h]] <= Rank["completed"] /\ "completed" \in States
    BY <2>1, Ranks DEF States
  <2>. QED
    BY <2>1, <2>2, SayingKeepsInv
<1>5. ASSUME NEW next \in {"working", "ending"}, Signal(h, next)
      PROVE  ReplyInv'
  <2>1. /\ task[h] = "working" /\ pending[h] = None /\ state[h] \in {"running", "failed"}
        /\ said[h] < MaxSaid[h] /\ (next = "working" => said[h] + 1 < MaxSaid[h])
        /\ Say(h, "state", "failed") /\ task' = [task EXCEPT ![h] = next]
        /\ UNCHANGED <<launching, results, listening, worker, publication>>
    BY <1>1, <1>5 DEF Signal, Working, HarvesterStands
  <2>2. Rank[state[h]] <= Rank["failed"] /\ "failed" \in States
    BY <2>1, Ranks DEF States
  <2>. QED
    BY <2>1, <2>2, SayingKeepsInv
<1>. QED
  BY <1>2, <1>3, <1>4, <1>5

\* A message that is put in the queue leaves its harvester (Put).
LEMMA PutKeepsInv ==
    ASSUME ReplyInv, NEW h \in Harvesters, Put(h)
    PROVE  ReplyInv'
<1>. DEFINE m == pending[h]
<1>1. /\ m # None /\ Len(results) < Capacity /\ results' = Append(results, m)
      /\ pending' = [pending EXCEPT ![h] = None]
      /\ task' = [task EXCEPT ![h] = IF @ = "ending" THEN "ended" ELSE @]
      /\ UNCHANGED <<toLaunch, launcher, launchFailed, state, said, listener, item, warned,
                     worker, publishing, published, dropped>>
      /\ pending \in [Harvesters -> Message \union {None}] /\ results \in Seq(Message)
      /\ Len(results) \in Nat /\ Capacity \in Nat
      /\ task \in [Harvesters -> {"none", "launched", "working", "ending", "ended"}]
  BY ReplyAssumption DEF Put, launching, listening, publication, ReplyInv, TypeOK
<1>2. m \in Message /\ task[h] \in {"working", "ending"} /\ m.of = h
  BY <1>1 DEF ReplyInv, HarvesterStands
<1>3. m \in Places[1] /\ m \notin ToSet(results)
  <2>1. m \in Places[1]
    BY <1>1, PlacesAre
  <2>. QED
    BY <2>1, PlacesAre DEF ReplyInv, EachMessageOnce
<1>4. /\ results' \in Seq(Message) /\ Len(results') = Len(results) + 1
      /\ ToSet(results') = ToSet(results) \union {m} /\ QueuedOnce'
  <2>1. \A i, j \in DOMAIN results : results[i] = results[j] => i = j
    BY DEF ReplyInv, EachMessageOnce
  <2>. QED
    BY <1>1, <1>2, <1>3, <2>1, QueueGrows DEF QueuedOnce
<1>5. \A g \in Harvesters \ {h} : pending[g] # m
  BY <1>1, <1>2 DEF ReplyInv, HarvesterStands
<1>6. {pending'[g] : g \in Harvesters} \ {None} = ({pending[g] : g \in Harvesters} \ {None}) \ {m}
  <2>1. \A g \in Harvesters : pending'[g] = IF g = h THEN None ELSE pending[g]
    BY <1>1
  <2>. HIDE DEF m
  <2>. QED
    BY <1>5, <2>1 DEF m
<1>7. /\ Places'[1] = Places[1] \ {m} /\ Places'[2] = Places[2] \union {m}
      /\ Places'[3] = Places[3] /\ Places'[4] = Places[4]
      /\ Places'[5] = Places[5] /\ Places'[6] = Places[6]
  BY <1>1, <1>4, <1>6 DEF Places
<1>8. \A k \in (1..6) \ {1, 2} : Places'[k] = Places[k]
  BY <1>7
<1>9. EachSomewhere /\ OnePlace
  BY DEF ReplyInv, EachMessageOnce, EachSomewhere, OnePlace
<1>10. EachSomewhere' /\ OnePlace' /\ Numbered' /\ StateIsAhead'
  <2>1. said' = said /\ state' = state
    BY <1>1
  <2>. QED
    BY <1>3, <1>7, <1>8, <1>9, <2>1, MessageMoves DEF ReplyInv
<1>11. EachMessageOnce'
  BY <1>4, <1>10 DEF EachMessageOnce, EachSomewhere, OnePlace, QueuedOnce
<1>12. TypeOK'
  BY <1>1, <1>4 DEF ReplyInv, TypeOK
<1>13. ASSUME NEW g \in Harvesters PROVE HarvesterStands(g)'
  <2>1. HarvesterStands(g)
    BY DEF ReplyInv
  <2>. QED
    BY <1>1, <1>2, <2>1 DEF HarvesterStands
<1>14. Unfinished' \subseteq Unfinished
  BY <1>1 DEF Unfinished
<1>15. TasksEnd' /\ DoneMeansEnded' /\ NewsIsNotOlder'
  BY <1>1, <1>14 DEF ReplyInv, TasksEnd, DoneMeansEnded, NewsIsNotOlder
<1>. QED
  BY <1>10, <1>11, <1>12, <1>13, <1>15 DEF ReplyInv

\* A harvester that dies has nothing to put, and has not completed (Die).
LEMMA DyingKeepsInv ==
    ASSUME ReplyInv, NEW h \in Harvesters, Die(h)
    PROVE  ReplyInv'
<1>1. PICK s \in {state[h], "failed"} : state' = [state EXCEPT ![h] = s]
  BY DEF Die
<1>2. /\ task[h] \in {"launched", "working"} /\ pending[h] = None
      /\ task' = [task EXCEPT ![h] = "ended"]
      /\ UNCHANGED <<toLaunch, launcher, launchFailed, said, pending, results, listener, item,
                     warned, worker, publishing, published, dropped>>
      /\ task \in [Harvesters -> {"none", "launched", "working", "ending", "ended"}]
      /\ state \in [Harvesters -> States]
  BY DEF Die, Working, launching, listening, publication, ReplyInv, TypeOK, HarvesterStands
<1>3. state[h] \in {"running", "failed"}
  BY <1>2 DEF ReplyInv, HarvesterStands
<1>4. /\ state' \in [Harvesters -> States]
      /\ \A g \in Harvesters : Rank[state[g]] <= Rank[state'[g]]
  BY <1>1, <1>2, <1>3, Ranks DEF States
<1>5. EachMessageOnce' /\ Numbered' /\ StateIsAhead' /\ NewsIsNotOlder'
  BY <1>2, <1>4, MessagesStay
<1>6. TypeOK'
  BY <1>2, <1>4 DEF ReplyInv, TypeOK
<1>7. ASSUME NEW g \in Harvesters PROVE HarvesterStands(g)'
  <2>1. HarvesterStands(g)
    BY DEF ReplyInv
  <2>2. CASE g = h
    BY <1>2, <2>1, <2>2 DEF HarvesterStands
  <2>3. CASE g # h
    BY <1>1, <1>2, <2>1, <2>3 DEF HarvesterStands
  <2>. QED
    BY <2>2, <2>3
<1>8. Unfinished' \subseteq Unfinished
  BY <1>2 DEF Unfinished
<1>9. TasksEnd' /\ DoneMeansEnded'
  BY <1>2, <1>8 DEF ReplyInv, TasksEnd, DoneMeansEnded
<1>. QED
  BY <1>5, <1>6, <1>7, <1>9 DEF ReplyInv

-----------------------------------------------------------------------------
(* The listener and the worker                                             *)

\* The oldest result leaves the queue for wait_for (Get).
LEMMA GetKeepsInv ==
    ASSUME ReplyInv, Get
    PROVE  ReplyInv'
<1>. DEFINE m == Head(results)
<1>1. /\ listener = "waiting" /\ results # <<>> /\ item' = m /\ results' = Tail(results)
      /\ listener' = "resuming"
      /\ UNCHANGED <<toLaunch, launcher, launchFailed, state, task, said, pending, warned,
                     worker, publishing, published, dropped>>
      /\ results \in Seq(Message) /\ Len(results) \in Nat /\ Capacity \in Nat
      /\ Len(results) <= Capacity
  BY ReplyAssumption DEF Get, launching, harvesting, publication, ReplyInv, TypeOK
<1>2. item = None
  BY <1>1 DEF ReplyInv, TasksEnd
<1>3. /\ results' \in Seq(Message) /\ Len(results') = Len(results) - 1
      /\ m \in Message /\ m \in ToSet(results)
      /\ ToSet(results') = ToSet(results) \ {m} /\ QueuedOnce'
  <2>1. \A i, j \in DOMAIN results : results[i] = results[j] => i = j
    BY DEF ReplyInv, EachMessageOnce
  <2>. QED
    BY <1>1, <2>1, QueueShrinks DEF QueuedOnce
<1>. HIDE DEF m
<1>4. m # None
  BY <1>3, ReplyAssumption
<1>5. /\ m \in Places[2]
      /\ Places'[1] = Places[1] /\ Places'[2] = Places[2] \ {m}
      /\ Places'[3] = Places[3] \union {m} /\ Places'[4] = Places[4]
      /\ Places'[5] = Places[5] /\ Places'[6] = Places[6]
  BY <1>1, <1>2, <1>3, <1>4 DEF Places
<1>6. \A k \in (1..6) \ {2, 3} : Places'[k] = Places[k]
  BY <1>5
<1>7. EachSomewhere' /\ OnePlace' /\ Numbered' /\ StateIsAhead'
  <2>1. said' = said /\ state' = state /\ EachSomewhere /\ OnePlace
    BY <1>1 DEF ReplyInv, EachMessageOnce, EachSomewhere, OnePlace
  <2>. QED
    BY <1>5, <1>6, <2>1, MessageMoves DEF ReplyInv
<1>8. EachMessageOnce'
  BY <1>3, <1>7 DEF EachMessageOnce, EachSomewhere, OnePlace, QueuedOnce
<1>9. TypeOK'
  BY <1>1, <1>3 DEF ReplyInv, TypeOK
<1>10. \A h \in Harvesters : HarvesterStands(h)'
  BY <1>1 DEF ReplyInv, HarvesterStands
<1>11. Unfinished' = Unfinished
  BY <1>1 DEF Unfinished
<1>12. TasksEnd' /\ DoneMeansEnded' /\ NewsIsNotOlder'
  BY <1>1, <1>4, <1>11 DEF ReplyInv, TasksEnd, DoneMeansEnded, NewsIsNotOlder
<1>. QED
  BY <1>7, <1>8, <1>9, <1>10, <1>12 DEF ReplyInv

\* A result that wait_for returns is published, even if the worker has gone (Resume).
LEMMA ResumeKeepsInv ==
    ASSUME ReplyInv, Resume
    PROVE  ReplyInv'
<1>1. /\ listener = "resuming" /\ publishing' = publishing \union {item} /\ item' = None
      /\ listener' = "waiting"
      /\ UNCHANGED <<toLaunch, launcher, launchFailed, state, task, said, pending, results,
                     warned, worker, published, dropped>>
      /\ item \in Message
  BY DEF Resume, launching, harvesting, ReplyInv, TasksEnd, TypeOK
<1>2. /\ item \in Places[3]
      /\ Places'[1] = Places[1] /\ Places'[2] = Places[2]
      /\ Places'[3] = Places[3] \ {item} /\ Places'[4] = Places[4] \union {item}
      /\ Places'[5] = Places[5] /\ Places'[6] = Places[6]
  BY <1>1, ReplyAssumption DEF Places
<1>3. \A k \in (1..6) \ {3, 4} : Places'[k] = Places[k]
  BY <1>2
<1>4. EachSomewhere' /\ OnePlace' /\ Numbered' /\ StateIsAhead'
  <2>1. said' = said /\ state' = state /\ EachSomewhere /\ OnePlace
    BY <1>1 DEF ReplyInv, EachMessageOnce, EachSomewhere, OnePlace
  <2>. QED
    BY <1>2, <1>3, <2>1, MessageMoves DEF ReplyInv
<1>5. EachMessageOnce'
  BY <1>1, <1>4 DEF EachMessageOnce, EachSomewhere, OnePlace, ReplyInv
<1>6. TypeOK'
  BY <1>1 DEF ReplyInv, TypeOK
<1>7. \A h \in Harvesters : HarvesterStands(h)'
  BY <1>1 DEF ReplyInv, HarvesterStands
<1>8. Unfinished' = Unfinished
  BY <1>1 DEF Unfinished
<1>9. TasksEnd' /\ DoneMeansEnded' /\ NewsIsNotOlder'
  BY <1>1, <1>8 DEF ReplyInv, TasksEnd, DoneMeansEnded, NewsIsNotOlder
<1>. QED
  BY <1>4, <1>5, <1>6, <1>7, <1>9 DEF ReplyInv

(* A listener that gives up or is cancelled moves no message; the worker   *)
(* is done when a task has ended, for one of the reasons TasksEnd gives.   *)
LEMMA EndingKeepsInv ==
    ASSUME ReplyInv, Silence \/ Warn \/ Return
    PROVE  ReplyInv'
<1>1. /\ UNCHANGED <<toLaunch, launcher, launchFailed, state, task, said, pending, results, item,
                     publishing, published, dropped>>
      /\ listener' \in {"waiting", "resuming", "warning", "ended"}
      /\ listener' = "resuming" <=> listener = "resuming"
      /\ warned' \in BOOLEAN /\ (warned => warned')
      /\ worker' \in {"waiting", "done"} /\ (worker = "done" => worker' = "done")
      /\ listener' = "ended" => warned' \/ worker' = "done"
      /\ worker' = "done" => worker = "done" \/ launcher = "ended" \/ listener = "ended"
  BY DEF Silence, Warn, Return, launching, harvesting, listening, publication, ReplyInv, TypeOK
<1>2. Places' = Places /\ Unfinished' = Unfinished
  BY <1>1 DEF Places, Unfinished
<1>3. TypeOK'
  BY <1>1 DEF ReplyInv, TypeOK
<1>4. \A h \in Harvesters : HarvesterStands(h)'
  BY <1>1 DEF ReplyInv, HarvesterStands
<1>5. EachMessageOnce' /\ Numbered' /\ StateIsAhead' /\ NewsIsNotOlder'
  BY <1>1, <1>2 DEF ReplyInv, EachMessageOnce, Numbered, StateIsAhead, NewsIsNotOlder
<1>6. TasksEnd'
  BY <1>1, <1>2 DEF ReplyInv, TasksEnd
<1>7. DoneMeansEnded'
  BY <1>1, <1>2 DEF ReplyInv, TasksEnd, DoneMeansEnded
<1>. QED
  BY <1>3, <1>4, <1>5, <1>6, <1>7 DEF ReplyInv

-----------------------------------------------------------------------------
(* The publications                                                        *)

\* A message leaves with the state its harvesting has by then (Publish).
LEMMA PublishKeepsInv ==
    ASSUME ReplyInv, NEW m \in publishing, Publish(m)
    PROVE  ReplyInv'
<1>. DEFINE b == [msg |-> m, told |-> state[m.of]]
<1>1. /\ publishing' = publishing \ {m} /\ published' = published \union {b}
      /\ UNCHANGED <<toLaunch, launcher, launchFailed, state, task, said, pending, results,
                     listener, item, warned, worker, dropped>>
      /\ m \in Message /\ state \in [Harvesters -> States]
      /\ published \subseteq Published
  BY DEF Publish, launching, harvesting, listening, ReplyInv, TypeOK
<1>2. b \in Published /\ b.msg = m /\ b.told = state[m.of]
  BY <1>1 DEF Published, Message
<1>. HIDE DEF b
<1>3. /\ m \in Places[4]
      /\ Places'[1] = Places[1] /\ Places'[2] = Places[2] /\ Places'[3] = Places[3]
      /\ Places'[4] = Places[4] \ {m}
      /\ Places'[5] = Places[5] \union {m} /\ Places'[6] = Places[6]
  <2>1. {c.msg : c \in published'} = {c.msg : c \in published} \union {m}
    BY <1>1, <1>2
  <2>. QED
    BY <1>1, <2>1 DEF Places
<1>4. \A k \in (1..6) \ {4, 5} : Places'[k] = Places[k]
  BY <1>3
<1>5. EachSomewhere' /\ OnePlace' /\ Numbered' /\ StateIsAhead'
  <2>1. said' = said /\ state' = state /\ EachSomewhere /\ OnePlace
    BY <1>1 DEF ReplyInv, EachMessageOnce, EachSomewhere, OnePlace
  <2>. QED
    BY <1>3, <1>4, <2>1, MessageMoves DEF ReplyInv
<1>6. EachMessageOnce'
  BY <1>1, <1>5 DEF EachMessageOnce, EachSomewhere, OnePlace, ReplyInv
<1>7. NewsIsNotOlder'
  <2>1. m.kind = "state" => Rank[m.state] <= Rank[state[m.of]]
    BY <1>3 DEF ReplyInv, StateIsAhead
  <2>. QED
    BY <1>1, <1>2, <2>1 DEF ReplyInv, NewsIsNotOlder
<1>8. TypeOK'
  BY <1>1, <1>2 DEF ReplyInv, TypeOK
<1>9. \A h \in Harvesters : HarvesterStands(h)'
  BY <1>1 DEF ReplyInv, HarvesterStands
<1>10. Unfinished' = Unfinished
  BY <1>1 DEF Unfinished
<1>11. TasksEnd' /\ DoneMeansEnded'
  BY <1>1, <1>10 DEF ReplyInv, TasksEnd, DoneMeansEnded
<1>. QED
  BY <1>5, <1>6, <1>7, <1>8, <1>9, <1>11 DEF ReplyInv

\* A message whose publication fails is given up (PublicationFails).
LEMMA DroppingKeepsInv ==
    ASSUME ReplyInv, NEW m \in publishing, PublicationFails(m)
    PROVE  ReplyInv'
<1>1. /\ publishing' = publishing \ {m} /\ dropped' = dropped \union {m}
      /\ UNCHANGED <<toLaunch, launcher, launchFailed, state, task, said, pending, results,
                     listener, item, warned, worker, published>>
      /\ m \in Message
  BY DEF PublicationFails, launching, harvesting, listening, ReplyInv, TypeOK
<1>2. /\ m \in Places[4]
      /\ Places'[1] = Places[1] /\ Places'[2] = Places[2] /\ Places'[3] = Places[3]
      /\ Places'[4] = Places[4] \ {m}
      /\ Places'[5] = Places[5] /\ Places'[6] = Places[6] \union {m}
  BY <1>1 DEF Places
<1>3. \A k \in (1..6) \ {4, 6} : Places'[k] = Places[k]
  BY <1>2
<1>4. EachSomewhere' /\ OnePlace' /\ Numbered' /\ StateIsAhead'
  <2>1. said' = said /\ state' = state /\ EachSomewhere /\ OnePlace
    BY <1>1 DEF ReplyInv, EachMessageOnce, EachSomewhere, OnePlace
  <2>. QED
    BY <1>2, <1>3, <2>1, MessageMoves DEF ReplyInv
<1>5. EachMessageOnce'
  BY <1>1, <1>4 DEF EachMessageOnce, EachSomewhere, OnePlace, ReplyInv
<1>6. TypeOK'
  BY <1>1 DEF ReplyInv, TypeOK
<1>7. \A h \in Harvesters : HarvesterStands(h)'
  BY <1>1 DEF ReplyInv, HarvesterStands
<1>8. Unfinished' = Unfinished
  BY <1>1 DEF Unfinished
<1>9. TasksEnd' /\ DoneMeansEnded' /\ NewsIsNotOlder'
  BY <1>1, <1>8 DEF ReplyInv, TasksEnd, DoneMeansEnded, NewsIsNotOlder
<1>. QED
  BY <1>4, <1>5, <1>6, <1>7, <1>9 DEF ReplyInv

-----------------------------------------------------------------------------
(* The theorems                                                            *)

\* Nothing is launched, said or queued at first.
LEMMA ReplyStarts ==
    ASSUME Init
    PROVE  ReplyInv
<1>1. /\ Places[1] = {} /\ Places[2] = {} /\ Places[3] = {} /\ Places[4] = {} /\ Places[5] = {}
      /\ Places[6] = {} /\ results = <<>>
  BY DEF Init, Places, ToSet
<1>2. \A i \in 1..6 : Places[i] = {}
  BY <1>1
<1>3. DOMAIN Places = 1..6
  BY PlacesAre
<1>4. EachMessageOnce
  <2>1. EachSomewhere
    BY DEF Init, EachSomewhere
  <2>. QED
    BY <1>1, <1>2, <1>3, <2>1 DEF EachMessageOnce, EachSomewhere
<1>5. Numbered /\ StateIsAhead
  BY <1>2, <1>3 DEF Numbered, StateIsAhead
<1>6. TypeOK
  <2>1. results \in Seq(Message) /\ Len(results) <= Capacity
    BY <1>1, ReplyAssumption
  <2>2. \A h \in Harvesters : said[h] <= MaxSaid[h]
    BY ReplyAssumption DEF Init
  <2>. QED
    BY <2>1, <2>2 DEF Init, TypeOK, States
<1>7. \A h \in Harvesters : HarvesterStands(h)
  BY DEF Init, HarvesterStands
<1>8. TasksEnd /\ NewsIsNotOlder /\ DoneMeansEnded
  BY DEF Init, TasksEnd, NewsIsNotOlder, DoneMeansEnded
<1>. QED
  BY <1>4, <1>5, <1>6, <1>7, <1>8 DEF ReplyInv

\* Every step of the launcher, a harvester, the listener, the worker or a publication.
LEMMA ReplyGoesOn ==
    ASSUME ReplyInv, [Next]_vars
    PROVE  ReplyInv'
<1>1. CASE LaunchAll \/ LaunchFails
  BY <1>1, LauncherKeepsInv
<1>2. ASSUME NEW h \in Harvesters, Run(h) \/ Die(h)
      PROVE  ReplyInv'
  BY <1>2, HarvesterSays, PutKeepsInv, DyingKeepsInv DEF Run
<1>3. CASE Listen \/ Silence \/ Return
  BY <1>3, GetKeepsInv, ResumeKeepsInv, EndingKeepsInv DEF Listen
<1>4. CASE Deliver
  BY <1>4, PublishKeepsInv DEF Deliver
<1>5. ASSUME NEW m \in publishing, PublicationFails(m)
      PROVE  ReplyInv'
  BY <1>5, DroppingKeepsInv
<1>6. CASE UNCHANGED vars
  <2>1. UNCHANGED <<toLaunch, launcher, launchFailed, state, task, said, pending, results,
                    listener, item, warned, worker, publishing, published, dropped>>
    BY <1>6 DEF vars, launching, harvesting, listening, publication
  <2>2. Places' = Places /\ Unfinished' = Unfinished
    BY <2>1 DEF Places, Unfinished
  <2>. QED
    BY <2>1, <2>2 DEF ReplyInv, TypeOK, HarvesterStands, TasksEnd, Numbered, StateIsAhead,
       EachMessageOnce, NewsIsNotOlder, DoneMeansEnded
<1>. QED
  BY <1>1, <1>2, <1>3, <1>4, <1>5, <1>6 DEF Next

\* The invariant the other theorems rest on.
THEOREM ReplyInvariance == Spec => []ReplyInv
<1>1. Init => ReplyInv
  BY ReplyStarts
<1>2. ReplyInv /\ [Next]_vars => ReplyInv'
  BY ReplyGoesOn
<1>. QED
  BY <1>1, <1>2, PTL DEF Spec

\* The state of the reply is well typed: the queue never exceeds its capacity.
THEOREM ReplyTypes == Spec => []TypeOK
<1>1. ReplyInv => TypeOK
  BY DEF ReplyInv
<1>. QED
  BY <1>1, ReplyInvariance, PTL

(* Every message a harvester had to report is in exactly one place, however *)
(* the cancellation of the listener and the publications interleave: it is *)
(* published at most once, and lost only with its publication              *)
(* (_wait_for_retrieval_result, _publish_message).                         *)
THEOREM MessagesOnce == Spec => []EachMessageOnce
<1>1. ReplyInv => EachMessageOnce
  BY DEF ReplyInv
<1>. QED
  BY <1>1, ReplyInvariance, PTL

(* A message about the state of a harvesting never tells a state older     *)
(* than the one it was queued for (AMQPHarvestingMessageFactory).          *)
THEOREM NewsIsRecent == Spec => []NewsIsNotOlder
<1>1. ReplyInv => NewsIsNotOlder
  BY DEF ReplyInv
<1>. QED
  BY <1>1, ReplyInvariance, PTL

(* The worker leaves a retrieval whose harvesters have all ended, unless a *)
(* timeout was published or a launch failed (_process_message).            *)
THEOREM DoneIsDone == Spec => []DoneMeansEnded
<1>1. ReplyInv => DoneMeansEnded
  BY DEF ReplyInv
<1>. QED
  BY <1>1, ReplyInvariance, PTL

=============================================================================
