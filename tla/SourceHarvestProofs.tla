------------------------ MODULE SourceHarvestProofs ------------------------
(***************************************************************************)
(* Proofs about SourceHarvest, for any publications, any source, any       *)
(* number of changes and failures, and any sizes of pages and batches.     *)
(***************************************************************************)
EXTENDS SourceHarvest, TLAPS, FiniteSetTheorems, SequenceTheorems

Results == {"fresh", "stale", "nothing", "external", "format", "other"}

TaskStates == {"none", "new", "asking", "writing", "taken"} \cup Results

\* Before and beside the dispatching no task of SUDOC runs.
Idle == {"looking", "asking", "giving", "listing"}

(* A batch begins with no more than MaxSudoc tasks of SUDOC; while a       *)
(* result is in hand, and may be converted, one request is left for that.  *)
LoadInv ==
    /\ task \in [Publications -> TaskStates]
    /\ waiting \in 0..(MaxSudoc - 1)
    /\ at = "converting" => hand # <<>>
    /\ \A p \in done : p \in Publications /\ task[p] \in Results
    /\ fetch = "listing" => hand = <<>>
    /\ fetch \in Idle \ {"listing"} => source \in Paged
    /\ fetch \in Idle => AskingSudoc = {} /\ done = {}
    /\ fetch = "dispatching" =>
          hand = <<>> /\ done = {} /\ Cardinality(AskingSudoc) <= waiting
    /\ fetch = "batch" /\ (done # {} \/ hand # <<>>) => AskingSudoc = {}
    /\ fetch = "draining" => Cardinality(AskingSudoc) <= MaxSudoc - 1
    /\ Cardinality(AskingSudoc) <= MaxSudoc
    /\ hand # <<>> => Cardinality(AskingSudoc) <= MaxSudoc - 1

-----------------------------------------------------------------------------
(* The requests to SUDOC                                                   *)

\* There are finitely many requests, and fewer when some of them end.
LEMMA FewerRequests ==
    /\ IsFiniteSet(AskingSudoc) /\ Cardinality(AskingSudoc) \in Nat
    /\ \A S : S \subseteq AskingSudoc => Cardinality(S) <= Cardinality(AskingSudoc)
<1>1. IsFiniteSet(AskingSudoc)
  BY SecondaryAssumption, FS_Subset DEF AskingSudoc, Unfinished
<1>. QED
  BY <1>1, FS_Subset, FS_CardinalityType

\* No task, no request (the tasks before the list is read).
LEMMA NoTaskNoRequest ==
    ASSUME \A p \in Publications : task[p] = "none"
    PROVE  AskingSudoc = {}
BY DEF AskingSudoc, Unfinished

\* A step of a task only ends requests, and leaves the harvester where it is (RunTask).
LEMMA TaskStep ==
    ASSUME LoadInv, NEW p \in Publications, TaskGoesOn(p)
    PROVE  /\ task' \in [Publications -> TaskStates]
           /\ AskingSudoc' \subseteq AskingSudoc
           /\ \A q \in done : q \in Publications /\ task'[q] \in Results
           /\ UNCHANGED <<source, kind, waiting, done, fetch, hand, at>>
<1>1. UNCHANGED <<source, kind, waiting, done, fetch, hand, at>>
  BY DEF TaskGoesOn, RunTask, StartTask, StartTaskBadly, Answered, NotAnswered, Write,
         WriteFails, harvest, content
<1>2. \E r \in TaskStates : task' = [task EXCEPT ![p] = r]
  BY DEF TaskGoesOn, RunTask, StartTask, StartTaskBadly, Answered, NotAnswered, Write,
         WriteFails, TaskEnds, TaskStates, Results
<1>3. task[p] \in {"new", "asking", "writing"}
  BY DEF TaskGoesOn, RunTask, StartTask, StartTaskBadly, Answered, NotAnswered, Write, WriteFails
<1>. QED
  BY <1>1, <1>2, <1>3 DEF LoadInv, AskingSudoc, Unfinished, Sudoc, Results

\* Requests that only end keep the invariant of a harvester that does not move.
LEMMA StepOfATaskKeepsLoad ==
    ASSUME LoadInv, NEW p \in Publications, TaskGoesOn(p)
    PROVE  LoadInv'
<1>1. Cardinality(AskingSudoc') <= Cardinality(AskingSudoc)
  BY TaskStep, FewerRequests
<1>2. Cardinality(AskingSudoc) \in Nat /\ Cardinality(AskingSudoc') \in Nat
  <2>1. IsFiniteSet(AskingSudoc')
    BY TaskStep, FewerRequests, FS_Subset
  <2>. QED
    BY <2>1, FewerRequests, FS_CardinalityType
<1>. QED
  BY <1>1, <1>2, TaskStep, SecondaryAssumption DEF LoadInv

\* What a step asks is told by the tasks and the kinds of their publications.
LEMMA SameTasksSameRequests ==
    ASSUME UNCHANGED <<task, kind>>
    PROVE  AskingSudoc' = AskingSudoc
BY DEF AskingSudoc, Unfinished, Sudoc

\* The clients of the paged sources create no task (FetchPages).
LEMMA PagesKeepLoad ==
    ASSUME LoadInv, PagesGoOn
    PROVE  LoadInv'
<1>1. UNCHANGED <<source, task, kind, waiting, done, at>>
  BY DEF PagesGoOn, FetchPages, LookUp, Ask, AskFails, Give, LastGiven, secondary, harvest, content
<1>2. AskingSudoc' = AskingSudoc
  BY <1>1, SameTasksSameRequests
<1>3. fetch \in {"looking", "asking", "giving"}
  BY DEF PagesGoOn, FetchPages, LookUp, Ask, AskFails, Give, LastGiven
<1>4. AskingSudoc = {} /\ Cardinality(AskingSudoc) = 0
  BY <1>3, FS_EmptySet DEF LoadInv, Idle
<1>5. fetch' \in {"looking", "asking", "giving", "ended"} \cup Failures
  BY <1>3 DEF PagesGoOn, FetchPages, LookUp, Ask, AskFails, FetchFails, PagingFailures, Give,
              LastGiven, Failures, LoadInv, Idle, Paged
<1>6. at' = "converting" => hand' # <<>>
  BY <1>1 DEF LoadInv, PagesGoOn, FetchPages, LookUp, Ask, AskFails, Give, LastGiven, Yield
<1>7. Cardinality(AskingSudoc') = 0 /\ AskingSudoc' = {} /\ done' = {} /\ source' \in Paged
  BY <1>1, <1>2, <1>3, <1>4 DEF LoadInv, Idle
<1>8. fetch' \notin {"dispatching", "batch", "draining"}
  BY <1>5 DEF Failures
<1>9. \A p \in done' : p \in Publications /\ task'[p] \in Results
  BY <1>7
<1>10. /\ task' \in [Publications -> TaskStates] /\ waiting' \in 0..(MaxSudoc - 1)
       /\ fetch' # "listing"
  BY <1>1, <1>5 DEF LoadInv, Failures
<1>. QED
  BY <1>1, <1>6, <1>7, <1>8, <1>9, <1>10, SecondaryAssumption DEF LoadInv

\* One more task is one more request at most.
LEMMA OneMoreRequest ==
    ASSUME LoadInv, NEW p, task' = [task EXCEPT ![p] = "new"], UNCHANGED kind
    PROVE  /\ task' \in [Publications -> TaskStates]
           /\ p \notin Sudoc => AskingSudoc' \subseteq AskingSudoc
           /\ Cardinality(AskingSudoc') \in Nat
           /\ Cardinality(AskingSudoc') <=
                 Cardinality(AskingSudoc) + (IF p \in Sudoc THEN 1 ELSE 0)
<1>1. task' \in [Publications -> TaskStates]
  BY DEF LoadInv, TaskStates
<1>2. AskingSudoc' \subseteq AskingSudoc \cup {p}
  BY DEF LoadInv, AskingSudoc, Unfinished, Sudoc
<1>3. p \notin Sudoc => AskingSudoc' \subseteq AskingSudoc
  BY <1>2 DEF AskingSudoc, Sudoc
<1>4. /\ IsFiniteSet(AskingSudoc \cup {p})
      /\ Cardinality(AskingSudoc \cup {p}) <= Cardinality(AskingSudoc) + 1
  <2>1. IsFiniteSet(AskingSudoc) /\ Cardinality(AskingSudoc) \in Nat
    BY FewerRequests
  <2>2. Cardinality(AskingSudoc \cup {p})
          = IF p \in AskingSudoc THEN Cardinality(AskingSudoc) ELSE Cardinality(AskingSudoc) + 1
    BY <2>1, FS_AddElement
  <2>3. IsFiniteSet(AskingSudoc \cup {p})
    BY <2>1, FS_AddElement
  <2>. QED
    BY <2>1, <2>2, <2>3
<1>5. IsFiniteSet(AskingSudoc') /\ Cardinality(AskingSudoc') \in Nat
  BY <1>2, <1>4, FS_Subset, FS_CardinalityType
<1>6. Cardinality(AskingSudoc') <= Cardinality(AskingSudoc \cup {p})
  BY <1>2, <1>4, FS_Subset
<1>7. p \notin Sudoc => Cardinality(AskingSudoc') <= Cardinality(AskingSudoc)
  BY <1>3, FewerRequests
<1>8. Cardinality(AskingSudoc \cup {p}) \in Nat
  BY <1>4, FS_CardinalityType
<1>. QED
  BY <1>1, <1>3, <1>4, <1>5, <1>6, <1>7, <1>8, FewerRequests

(* A publication of SUDOC is counted before the next one is dispatched,    *)
(* and with MaxSudoc of them the harvester waits (Dispatch).               *)
LEMMA DispatchKeepsLoad ==
    ASSUME LoadInv, Dispatch, UNCHANGED at
    PROVE  LoadInv'
<1>. DEFINE p == Head(todo)
            w == waiting + (IF p \in Sudoc THEN 1 ELSE 0)
<1>1. UNCHANGED <<source, kind, hand, done, at>> /\ fetch = "dispatching" /\ hand = <<>>
  BY DEF Dispatch, content, LoadInv
<1>2. at # "converting"
  BY <1>1 DEF LoadInv
<1>3. CASE kind[p] = "unknown"
  <2>1. fetch' = "external" /\ UNCHANGED <<task, waiting>>
    BY <1>3 DEF Dispatch
  <2>2. AskingSudoc' = AskingSudoc
    BY <1>1, <2>1, SameTasksSameRequests
  <2>. QED
    BY <1>1, <1>2, <2>1, <2>2 DEF LoadInv, Idle
<1>4. CASE kind[p] # "unknown"
  <2>1. /\ task' = [task EXCEPT ![p] = "new"]
        /\ waiting' = IF Enough(w) THEN 0 ELSE w
        /\ fetch' = IF Enough(w) THEN "batch" ELSE fetch
    BY <1>4 DEF Dispatch
  <2>2. /\ task' \in [Publications -> TaskStates]
        /\ Cardinality(AskingSudoc') \in Nat
        /\ Cardinality(AskingSudoc') <= Cardinality(AskingSudoc) + (IF p \in Sudoc THEN 1 ELSE 0)
    BY <1>1, <2>1, OneMoreRequest
  <2>3. Cardinality(AskingSudoc') <= w /\ w \in 0..MaxSudoc
    BY <1>1, <2>2, FewerRequests, SecondaryAssumption DEF LoadInv
  <2>4. done = {} /\ done' = {}
    BY <1>1 DEF LoadInv
  <2>. QED
    BY <1>1, <1>2, <2>1, <2>2, <2>3, <2>4, SecondaryAssumption DEF LoadInv, Idle, Enough
<1>. QED
  BY <1>3, <1>4

\* The result of a task is one request less, and leaves room for its conversion (TakeResult).
LEMMA TakeResultKeepsLoad ==
    ASSUME LoadInv, NEW p \in Publications, TakeResult(p), UNCHANGED at
    PROVE  LoadInv'
<1>1. /\ UNCHANGED <<source, kind, waiting>> /\ hand = <<>> /\ done # {}
      /\ fetch \in {"batch", "draining"}
      /\ task' = [task EXCEPT ![p] = "taken"]
  BY DEF TakeResult, content
<1>2. fetch' \in {fetch, "other"}
  BY <1>1 DEF TakeResult, LoadInv, Results
<1>3. task' \in [Publications -> TaskStates] /\ AskingSudoc' \subseteq AskingSudoc
  BY <1>1 DEF LoadInv, TaskStates, AskingSudoc, Unfinished, Sudoc
<1>4. /\ Cardinality(AskingSudoc') \in Nat /\ Cardinality(AskingSudoc) \in Nat
      /\ Cardinality(AskingSudoc') <= Cardinality(AskingSudoc)
  BY <1>3, FewerRequests, FS_Subset, FS_CardinalityType
<1>5. at' # "converting"
  BY <1>1 DEF LoadInv
<1>6. Cardinality(AskingSudoc) <= MaxSudoc - 1
  <2>1. CASE fetch = "batch"
    <3>1. AskingSudoc = {}
      BY <1>1, <2>1 DEF LoadInv
    <3>. QED
      BY <3>1, FS_EmptySet, SecondaryAssumption
  <2>2. CASE fetch = "draining"
    BY <2>2 DEF LoadInv
  <2>. QED
    BY <1>1, <2>1, <2>2
<1>7. fetch = "batch" => AskingSudoc' = {}
  BY <1>1, <1>3 DEF LoadInv
<1>8. \A q \in done' : q \in Publications /\ task'[q] \in Results
  BY <1>1 DEF TakeResult, LoadInv
<1>. QED
  BY <1>1, <1>2, <1>3, <1>4, <1>5, <1>6, <1>7, <1>8, SecondaryAssumption DEF LoadInv, Idle

\* Waiting for the tasks, and the end of the list (FetchSecondary but Dispatch, TakeResult).
LEMMA WaitingKeepsLoad ==
    ASSUME LoadInv, List \/ ListFails \/ EndOfList \/ WaitForAll \/ WaitForSome, UNCHANGED at
    PROVE  LoadInv'
<1>1. UNCHANGED <<source, kind, task, waiting, hand>>
  BY DEF List, ListFails, EndOfList, WaitForAll, WaitForSome, content, secondary
<1>2. AskingSudoc' = AskingSudoc /\ Cardinality(AskingSudoc) \in Nat
  BY <1>1, SameTasksSameRequests, FewerRequests
<1>3. AskingSudoc \subseteq Pending /\ AskingSudoc \subseteq Unfinished
  BY DEF AskingSudoc, Unfinished, Pending
<1>4. \A p \in done' : p \in Publications /\ task[p] \in Results
  BY DEF List, ListFails, EndOfList, WaitForAll, WaitForSome, secondary, LoadInv, Pending,
         Unfinished, TaskStates
<1>5. CASE List
  <2>1. AskingSudoc = {} /\ done = {} /\ done' = done /\ fetch' = "dispatching"
    BY <1>5 DEF List, LoadInv, Idle
  <2>2. hand = <<>>
    BY <1>5 DEF List, LoadInv
  <2>. QED
    BY <1>1, <1>2, <1>4, <2>1, <2>2, FS_EmptySet, SecondaryAssumption DEF LoadInv, Idle
<1>6. CASE ListFails
  <2>1. fetch' = "external" /\ done' = done
    BY <1>6 DEF ListFails, FetchFails, secondary
  <2>. QED
    BY <1>1, <1>2, <1>4, <2>1 DEF LoadInv, Idle
<1>7. CASE EndOfList
  <2>1. fetch = "dispatching" /\ fetch' = "draining" /\ done' = done
    BY <1>7 DEF EndOfList, secondary
  <2>. QED
    BY <1>1, <1>2, <1>4, <2>1, SecondaryAssumption DEF LoadInv, Idle
<1>8. CASE WaitForAll
  <2>1. fetch = "batch" /\ hand = <<>> /\ done = {}
    BY <1>8 DEF WaitForAll
  <2>2. AskingSudoc = {} /\ fetch' \in {"dispatching", "batch"}
    BY <1>3, <1>8, <2>1 DEF WaitForAll
  <2>3. fetch' = "dispatching" => done' = {}
    BY <1>8, <2>1 DEF WaitForAll
  <2>. QED
    BY <1>1, <1>2, <1>4, <2>1, <2>2, <2>3, FS_EmptySet, SecondaryAssumption DEF LoadInv, Idle
<1>9. CASE WaitForSome
  <2>1. fetch = "draining" /\ fetch' \in {"ended", "draining"}
    BY <1>9 DEF WaitForSome
  <2>. QED
    BY <1>1, <1>2, <1>4, <2>1 DEF LoadInv, Idle
<1>. QED
  BY <1>5, <1>6, <1>7, <1>8, <1>9

\* The loop of run takes, converts and puts down what it has in hand (Take, EndConversion).
LEMMA HarvestKeepsLoad ==
    ASSUME LoadInv, Take \/ EndConversion \/ EndRun
    PROVE  LoadInv'
<1>1. UNCHANGED <<source, kind, task, waiting, done, fetch>>
  BY DEF Take, EndConversion, EndRun, fetching, content, secondary
<1>2. AskingSudoc' = AskingSudoc /\ Cardinality(AskingSudoc) \in Nat
  BY <1>1, SameTasksSameRequests, FewerRequests
<1>3. hand' \in {hand, <<>>} /\ (at' = "converting" => hand' # <<>>)
  BY DEF Take, EndConversion, EndRun, LoadInv
<1>. QED
  BY <1>1, <1>2, <1>3 DEF LoadInv

\* The source touches neither the tasks nor the harvester (Meanwhile).
LEMMA SourceKeepsLoad ==
    ASSUME LoadInv, SourceChanges \/ UNCHANGED vars
    PROVE  LoadInv'
<1>1. UNCHANGED <<source, kind, task, waiting, done, fetch, hand, at>>
  BY DEF SourceChanges, Meanwhile, Withdraw, Publish, Reorder, Disturbed, vars, content,
         secondary, harvest
<1>2. AskingSudoc' = AskingSudoc
  BY <1>1, SameTasksSameRequests
<1>. QED
  BY <1>1, <1>2 DEF LoadInv

LEMMA InitLoad == Init => LoadInv
<1>. SUFFICES ASSUME Init PROVE LoadInv
  OBVIOUS
<1>1. PICK s \in Starts : Begin(s, FirstFetch(s)) /\ BeginSecondary(s) /\ at = "taking"
  BY DEF Init
<1>2. task = [p \in Publications |-> "none"] /\ waiting = 0 /\ done = {} /\ hand = <<>>
  BY <1>1 DEF BeginSecondary, Begin
<1>3. AskingSudoc = {} /\ Cardinality(AskingSudoc) = 0
  BY <1>2, NoTaskNoRequest, FS_EmptySet
<1>4. /\ source \in Paged \cup {"idref"}
      /\ fetch = "listing" \/ (fetch \in {"looking", "asking"} /\ source # "idref")
  BY <1>1, StartsAssumption DEF Begin, FirstFetch
<1>. QED
  BY <1>1, <1>2, <1>3, <1>4, SecondaryAssumption DEF LoadInv, TaskStates, Idle

\* The inductive invariant, step by step.
LEMMA LoadStep == LoadInv /\ [Next]_vars => LoadInv'
<1>. SUFFICES ASSUME LoadInv, [Next]_vars PROVE LoadInv'
  OBVIOUS
<1>1. CASE PagesGoOn
  BY <1>1, PagesKeepLoad
<1>2. CASE SecondaryGoesOn
  <2>1. UNCHANGED at /\ FetchSecondary
    BY <1>2 DEF SecondaryGoesOn, harvest
  <2>. QED
    BY <2>1, WaitingKeepsLoad, DispatchKeepsLoad, TakeResultKeepsLoad DEF FetchSecondary
<1>3. CASE Take \/ EndConversion \/ EndRun
  BY <1>3, HarvestKeepsLoad
<1>4. CASE \E p \in Publications : TaskGoesOn(p)
  BY <1>4, StepOfATaskKeepsLoad
<1>5. CASE SourceChanges \/ UNCHANGED vars
  BY <1>5, SourceKeepsLoad
<1>. QED
  BY <1>1, <1>2, <1>3, <1>4, <1>5 DEF Next

(* Whatever the list holds and whatever fails, no more than MaxSudoc       *)
(* requests are made to SUDOC at once, the conversions included            *)
(* (IdrefHarvester.fetch_results, MAX_SUDOC_PARALLELISM).                  *)
THEOREM SudocIsSpared == Spec => []SudocLoadIsBounded
<1>1. LoadInv => SudocLoadIsBounded
  <2>. SUFFICES ASSUME LoadInv PROVE SudocLoadIsBounded
    OBVIOUS
  <2>1. Cardinality(AskingSudoc) \in Nat
    BY FewerRequests
  <2>. QED
    BY <2>1, SecondaryAssumption DEF LoadInv, SudocLoadIsBounded, SudocLoad
<1>. QED
  BY <1>1, InitLoad, LoadStep, PTL DEF Spec

-----------------------------------------------------------------------------
(* What is deleted: the harvesting takes what its source goes on listing   *)
(* and lets it get.                                                        *)

\* The publications the harvesting still has to take.
InHand == IF hand # <<>> THEN {Pub} ELSE {}

Untaken == {p \in Publications : handed[p] = 0}

Owed == Untaken \ (absent \cup unheard \cup InHand)

Shapes ==
    /\ before \subseteq Publications
    /\ handed \in [Publications -> Nat] /\ InHand \subseteq Publications
    /\ last # None => last.pub \in Publications
    /\ \A p \in Publications : changed[p] # None
    /\ Publications \ Listed \subseteq absent
    /\ quiet => absent \cap Listed = {}
    /\ index \in Seq(Publications) /\ page \in Seq(Publications) /\ todo \in Seq(Publications)
    /\ asked \in Nat /\ given \in Nat
    /\ source = "idref" => fetch \in {"listing", "dispatching", "batch", "draining"} \cup Over
    /\ source # "idref" => source \in Paged /\ fetch \in {"looking", "asking", "giving"} \cup Over

\* What had a reference keeps one, and is among the existing ones once it was taken.
Met ==
    /\ at = "converting" => hand # <<>> /\ Pub \notin Untaken
    /\ DOMAIN known = Publications
    /\ \A p \in before : known[p] # None /\ (p \in Untaken \/ p \in existing)

\* IdRef: a reference to find is on the list to read, to dispatch, or has a task.
OwedByIdref ==
    source = "idref" =>
        /\ \A p \in Owed :
              \/ fetch = "listing" \/ fetch \in Failures
              \/ p \in ToSet(todo) \/ p \in Pending
        /\ fetch \in {"draining", "ended"} => todo = <<>>
        /\ fetch = "ended" => Pending = {}

\* HAL: it is in the response.
OwedByHal ==
    source = "hal" =>
        \A p \in Owed :
           \/ fetch \in {"looking", "asking"} \cup Failures
           \/ fetch = "giving" /\ p \in ToSet(page)

ByPages == source \in {"scanr", "open_alex", "scopus"}

(* The others: it is after those given, the page continues them, and for   *)
(* pages by number or offset they end where the pages asked for end.       *)
Continued ==
    /\ given + Len(page) <= Len(index)
    /\ \A j \in 1..Len(page) : page[j] = index[given + j]
    /\ \A p \in Owed : \E i \in (given + 1)..Len(index) : index[i] = p

PagesEnd ==
    source # "scanr" =>
        given + Len(page)
          = IF asked * PageSize < Len(index) THEN asked * PageSize ELSE Len(index)

Announced ==
    CASE source = "scanr" -> count \in Nat /\ (fetch = "giving" => count >= Len(index))
      [] source = "scopus" -> fetch = "giving" => count = Len(index)
      [] OTHER -> fetch = "giving" => count \in {None, Len(index)}

OwedByPages ==
    ByPages /\ quiet /\ fetch \notin Failures =>
        /\ fetch \in {"looking", "asking"} => page = <<>>
        /\ fetch = "ended" => Owed = {}
        /\ fetch # "ended" => Continued /\ PagesEnd /\ Announced

FoundInv ==
    /\ Shapes /\ Met
    /\ OwedByIdref /\ OwedByHal /\ OwedByPages
    /\ DeletionsAreTrue

-----------------------------------------------------------------------------
(* What the steps have in common                                           *)

\* The next element and those after it make up a sequence.
LEMMA NextAndRest ==
    ASSUME NEW S, NEW s \in Seq(S), s # <<>>
    PROVE  /\ Head(s) \in S /\ Head(s) = s[1] /\ Len(s) \in Nat \ {0}
           /\ Tail(s) \in Seq(S) /\ Len(Tail(s)) = Len(s) - 1
           /\ \A j \in 1..Len(Tail(s)) : Tail(s)[j] = s[j + 1]
           /\ ToSet(s) = {Head(s)} \cup ToSet(Tail(s))
<1>1. /\ Head(s) \in S /\ Head(s) = s[1] /\ Len(s) \in Nat \ {0}
      /\ Tail(s) \in Seq(S) /\ Len(Tail(s)) = Len(s) - 1
      /\ \A j \in 1..Len(Tail(s)) : Tail(s)[j] = s[j + 1]
  BY HeadTailProperties, EmptySeq, LenProperties
<1>2. DOMAIN s = 1..Len(s) /\ DOMAIN Tail(s) = 1..Len(Tail(s))
  BY <1>1, LenProperties
<1>3. \A i \in 1..Len(s) : i = 1 \/ i - 1 \in 1..Len(Tail(s))
  BY <1>1
<1>4. \A j \in 1..Len(Tail(s)) : j + 1 \in 1..Len(s)
  BY <1>1
<1>5. ToSet(s) \subseteq {Head(s)} \cup ToSet(Tail(s))
  <2>1. \A i \in 1..Len(s) : s[i] = Head(s) \/ \E j \in 1..Len(Tail(s)) : s[i] = Tail(s)[j]
    BY <1>1, <1>3
  <2>. QED
    BY <1>2, <2>1 DEF ToSet
<1>6. {Head(s)} \cup ToSet(Tail(s)) \subseteq ToSet(s)
  BY <1>1, <1>2, <1>4 DEF ToSet
<1>. QED
  BY <1>1, <1>5, <1>6

\* A publication once taken, or excused, stays so.
LEMMA OwedShrinks ==
    ASSUME absent \subseteq absent', unheard \subseteq unheard',
           Untaken' \subseteq Untaken, InHand \cap Untaken' \subseteq InHand'
    PROVE  Owed' \subseteq Owed
BY DEF Owed

\* What excuses a deletion goes on to excuse it.
LEMMA DeletionsStayTrue ==
    ASSUME DeletionsAreTrue, UNCHANGED <<source, deleted>>, absent \subseteq absent',
           unheard \subseteq unheard', quiet' => quiet
    PROVE  DeletionsAreTrue'
BY DEF DeletionsAreTrue, PagesMoved

-----------------------------------------------------------------------------
(* The tasks, the source, the harvester                                    *)

LEMMA TaskKeepsFound ==
    ASSUME LoadInv, FoundInv, NEW p \in Publications, TaskGoesOn(p)
    PROVE  FoundInv'
<1>1. UNCHANGED <<content, index, fetch, hand, history, paging, todo, harvest>>
  BY DEF TaskGoesOn, RunTask, StartTask, StartTaskBadly, Answered, NotAnswered, Write, WriteFails
<1>2. \E r \in {"asking", "writing"} \cup Results : task' = [task EXCEPT ![p] = r]
  BY DEF TaskGoesOn, RunTask, StartTask, StartTaskBadly, Answered, NotAnswered, Write,
         WriteFails, TaskEnds, Results
<1>3. task[p] \in {"new", "asking", "writing"}
  BY DEF TaskGoesOn, RunTask, StartTask, StartTaskBadly, Answered, NotAnswered, Write, WriteFails
<1>4. Pending' = Pending
  BY <1>2, <1>3 DEF LoadInv, Pending, Results
<1>5. Owed' = Owed
  BY <1>1 DEF Owed, Untaken, InHand, Pub, history, harvest
<1>6. UNCHANGED last
  BY DEF TaskGoesOn, RunTask, StartTask, StartTaskBadly, Answered, NotAnswered, Write, WriteFails
<1>7. Shapes' /\ Met'
  BY <1>1, <1>6 DEF FoundInv, Shapes, Met, Untaken, InHand, Pub, Listed, content, history, harvest,
                    paging
<1>8. OwedByIdref' /\ OwedByHal'
  BY <1>1, <1>4, <1>5 DEF FoundInv, OwedByIdref, OwedByHal, content, paging
<1>9. OwedByPages'
  BY <1>1, <1>5 DEF FoundInv, OwedByPages, ByPages, Continued, PagesEnd, Announced, content,
                    history, paging
<1>10. DeletionsAreTrue'
  BY <1>1, DeletionsStayTrue DEF FoundInv, content, history, harvest
<1>. QED
  BY <1>7, <1>8, <1>9, <1>10 DEF FoundInv

\* A list that lost, gained or exchanged publications is a list of publications.
LEMMA ListStaysAList ==
    ASSUME index \in Seq(Publications), Meanwhile
    PROVE  index' \in Seq(Publications)
<1>1. Len(index) \in Nat /\ DOMAIN index = 1..Len(index)
  BY LenProperties
<1>2. ASSUME NEW i \in 1..Len(index)
      PROVE  RemoveAt(index, i) \in Seq(Publications)
  <2>1. SubSeq(index, 1, i - 1) \in Seq(Publications)
    BY <1>1, SubSeqProperties
  <2>2. SubSeq(index, i + 1, Len(index)) \in Seq(Publications)
    BY <1>1, SubSeqProperties
  <2>. QED
    BY <2>1, <2>2, ConcatProperties DEF RemoveAt
<1>3. ASSUME NEW p \in Publications, NEW i \in 1..(Len(index) + 1)
      PROVE  InsertAt(index, i, p) \in Seq(Publications)
  <2>1. SubSeq(index, 1, i - 1) \in Seq(Publications)
    BY <1>1, SubSeqProperties
  <2>2. SubSeq(index, i, Len(index)) \in Seq(Publications)
    BY <1>1, SubSeqProperties
  <2>3. <<p>> \in Seq(Publications)
    OBVIOUS
  <2>4. SubSeq(index, 1, i - 1) \o <<p>> \in Seq(Publications)
    BY <2>1, <2>3, ConcatProperties
  <2>. QED
    BY <2>2, <2>4, ConcatProperties DEF InsertAt
<1>4. ASSUME NEW i \in 1..(Len(index) - 1)
      PROVE  [index EXCEPT ![i] = index[i + 1], ![i + 1] = index[i]] \in Seq(Publications)
  <2>1. i \in 1..Len(index) /\ i + 1 \in 1..Len(index)
    BY <1>1
  <2>2. index[i] \in Publications /\ index[i + 1] \in Publications
    BY <2>1, ElementOfSeq
  <2>. QED
    BY <1>1, <2>1, <2>2, ExceptSeq
<1>. QED
  BY <1>1, <1>2, <1>3, <1>4 DEF Meanwhile, Withdraw, Publish, Reorder

LEMMA SourceKeepsFound ==
    ASSUME FoundInv, SourceChanges
    PROVE  FoundInv'
<1>1. /\ UNCHANGED <<content, fetch, hand, unheard, paging, secondary, harvest>>
      /\ ~quiet' /\ absent' = absent \cup {p \in Publications : p \notin Listed'}
  BY DEF SourceChanges, Meanwhile, Withdraw, Publish, Reorder, Disturbed
<1>2. index' \in Seq(Publications)
  BY ListStaysAList DEF SourceChanges, FoundInv, Shapes
<1>3. Owed' \subseteq Owed
  BY <1>1 DEF Owed, Untaken, InHand, Pub, harvest
<1>4. Shapes'
  BY <1>1, <1>2 DEF FoundInv, Shapes, InHand, Pub, content, paging, secondary, harvest
<1>5. Met' /\ OwedByPages'
  BY <1>1 DEF FoundInv, Met, Untaken, OwedByPages, Pub, harvest
<1>6. OwedByIdref' /\ OwedByHal'
  BY <1>1, <1>3 DEF FoundInv, OwedByIdref, OwedByHal, Pending, content, secondary, paging
<1>7. DeletionsAreTrue'
  BY <1>1, DeletionsStayTrue DEF FoundInv, content, harvest
<1>. QED
  BY <1>4, <1>5, <1>6, <1>7 DEF FoundInv

\* A payload is converted only after its reference, if any, was put among the existing ones.
LEMMA TakeKeepsFound ==
    ASSUME FoundInv, Take
    PROVE  FoundInv'
<1>1. /\ UNCHANGED <<content, index, fetch, history, paging, secondary>>
      /\ UNCHANGED <<known, before, deleted>>
      /\ hand # <<>> /\ hand' \in {hand, <<>>}
      /\ existing' = IF known[Pub] # None THEN existing \cup {Pub} ELSE existing
      /\ at' = "converting" => hand' = hand
      /\ handed' = [handed EXCEPT ![Pub] = @ + 1]
  BY DEF Take, fetching, FoundInv, Met
<1>2. /\ Pub \in before => Pub \in existing'
      /\ Pub \in Publications /\ handed' \in [Publications -> Nat]
      /\ Untaken' = Untaken \ {Pub}
  BY <1>1 DEF FoundInv, Shapes, Met, InHand, Untaken
<1>3. Owed' \subseteq Owed
  BY <1>1, <1>2, OwedShrinks DEF InHand, history
<1>4. Shapes'
  BY <1>1, <1>2 DEF FoundInv, Shapes, Listed, InHand, Pub, content, paging, secondary, history
<1>5. Met'
  BY <1>1, <1>2 DEF FoundInv, Met, Pub
<1>6. OwedByIdref' /\ OwedByHal'
  BY <1>1, <1>3 DEF FoundInv, OwedByIdref, OwedByHal, Pending, content, secondary, paging
<1>7. OwedByPages'
  BY <1>1, <1>3 DEF FoundInv, OwedByPages, ByPages, Continued, PagesEnd, Announced, content,
                    paging, history
<1>8. DeletionsAreTrue'
  BY <1>1, DeletionsStayTrue DEF FoundInv, content, history
<1>. QED
  BY <1>4, <1>5, <1>6, <1>7, <1>8 DEF FoundInv

LEMMA ConversionKeepsFound ==
    ASSUME FoundInv, EndConversion
    PROVE  FoundInv'
<1>1. /\ UNCHANGED <<content, index, fetch, history, paging, secondary>>
      /\ UNCHANGED <<before, existing, deleted, handed>>
      /\ hand' = <<>> /\ at = "converting" /\ at' = "taking"
      /\ known' = known \/ known' = [known EXCEPT ![Pub] = Payload]
  BY DEF EndConversion
<1>2. Untaken' = Untaken /\ Pub \notin Untaken /\ Payload # None
  BY <1>1, StartsAssumption DEF FoundInv, Shapes, Met, InHand, Untaken, Payload
<1>3. Owed' \subseteq Owed
  BY <1>1, <1>2, OwedShrinks DEF InHand, history
<1>4. Shapes'
  BY <1>1 DEF FoundInv, Shapes, Listed, InHand, content, paging, secondary, history
<1>5. Met'
  BY <1>1, <1>2 DEF FoundInv, Shapes, Met
<1>6. OwedByIdref' /\ OwedByHal'
  BY <1>1, <1>3 DEF FoundInv, OwedByIdref, OwedByHal, Pending, content, secondary, paging
<1>7. OwedByPages'
  BY <1>1, <1>3 DEF FoundInv, OwedByPages, ByPages, Continued, PagesEnd, Announced, content,
                    paging, history
<1>8. DeletionsAreTrue'
  BY <1>1, DeletionsStayTrue DEF FoundInv, content, history
<1>. QED
  BY <1>4, <1>5, <1>6, <1>7, <1>8 DEF FoundInv

\* At the end of the results nothing is owed, unless pages moved.
LEMMA NothingOwed ==
    ASSUME FoundInv, fetch = "ended", quiet \/ ~ByPages
    PROVE  Owed = {}
<1>1. CASE source = "idref" \/ source = "hal"
  BY <1>1 DEF FoundInv, OwedByIdref, OwedByHal, Failures, ToSet
<1>2. CASE ByPages
  BY <1>2 DEF FoundInv, OwedByPages, Failures
<1>. QED
  BY <1>1, <1>2 DEF FoundInv, Shapes, Paged, ByPages

\* What was not taken by then is declared deleted (_register_deleted_references).
LEMMA EndKeepsFound ==
    ASSUME FoundInv, EndRun
    PROVE  FoundInv'
<1>1. /\ UNCHANGED <<content, index, fetch, history, paging, secondary>>
      /\ UNCHANGED <<hand, at, known, before, existing, handed>>
      /\ hand = <<>> /\ fetch \in Over
      /\ deleted' = deleted \/ (fetch = "ended" /\ deleted' = before \ existing)
  BY DEF EndRun, fetching
<1>2. Owed' = Owed
  BY <1>1 DEF Owed, Untaken, InHand, Pub, history
<1>3. ASSUME deleted' = deleted
      PROVE  DeletionsAreTrue'
  BY <1>1, <1>3, DeletionsStayTrue DEF FoundInv, content, history
<1>4. ASSUME fetch = "ended", deleted' = before \ existing
      PROVE  DeletionsAreTrue'
  <2>. SUFFICES ASSUME ~PagesMoved PROVE deleted' \subseteq absent \cup unheard
    BY <1>1 DEF DeletionsAreTrue, PagesMoved, content, history
  <2>1. Owed = {}
    BY <1>4, NothingOwed DEF PagesMoved, ByPages
  <2>2. \A p \in deleted' : p \in Untaken
    BY <1>4 DEF FoundInv, Shapes, Met
  <2>. QED
    BY <1>1, <2>1, <2>2 DEF Owed, InHand
<1>5. DeletionsAreTrue'
  BY <1>1, <1>3, <1>4
<1>6. Shapes' /\ Met'
  BY <1>1 DEF FoundInv, Shapes, Met, Untaken, Listed, InHand, Pub, content, paging, secondary,
              history
<1>7. OwedByIdref' /\ OwedByHal'
  BY <1>1, <1>2 DEF FoundInv, OwedByIdref, OwedByHal, Pending, content, secondary, paging
<1>8. OwedByPages'
  BY <1>1, <1>2 DEF FoundInv, OwedByPages, ByPages, Continued, PagesEnd, Announced, content,
                    paging, history
<1>. QED
  BY <1>5, <1>6, <1>7, <1>8 DEF FoundInv

-----------------------------------------------------------------------------
(* The results of IdRef                                                    *)

(* What a step of the secondary queries has to keep, when it leaves the    *)
(* rest of the harvesting alone.                                           *)
LEMMA IdrefSteps ==
    ASSUME FoundInv, SecondaryGoesOn,
           fetch' \in {"listing", "dispatching", "batch", "draining"} \cup Over,
           todo' \in Seq(Publications), unheard \subseteq unheard',
           OwedByIdref',
           hand' = hand \/ (hand = <<>> /\ InHand' \subseteq Publications),
           last' \in {last, None} \/ last'.pub \in Publications
    PROVE  FoundInv'
<1>1. /\ UNCHANGED <<content, index, quiet, absent, paging, harvest>>
      /\ fetch \in {"listing", "dispatching", "batch", "draining"}
  BY DEF SecondaryGoesOn, FetchSecondary, List, ListFails, Dispatch, EndOfList, WaitForAll,
         WaitForSome, TakeResult, history
<1>2. source = "idref" /\ source' = "idref"
  BY <1>1 DEF FoundInv, Shapes, Over, Failures, content
<1>3. Shapes'
  BY <1>1, <1>2 DEF FoundInv, Shapes, InHand, Pub, Listed, content, paging, harvest
<1>4. Met'
  BY <1>1 DEF FoundInv, Met, Untaken, Pub, harvest
<1>5. OwedByHal' /\ OwedByPages'
  BY <1>2 DEF OwedByHal, OwedByPages, ByPages
<1>6. DeletionsAreTrue'
  BY <1>1, DeletionsStayTrue DEF FoundInv, content, harvest
<1>. QED
  BY <1>3, <1>4, <1>5, <1>6 DEF FoundInv

LEMMA DispatchKeepsFound ==
    ASSUME FoundInv, LoadInv, SecondaryGoesOn, Dispatch
    PROVE  FoundInv'
<1>. DEFINE p == Head(todo)
<1>1. /\ fetch = "dispatching" /\ todo # <<>> /\ todo' = Tail(todo)
      /\ UNCHANGED <<source, hand, absent, unheard, handed, last>>
      /\ \/ fetch' = "external"
         \/ fetch' \in {"dispatching", "batch"} /\ task' = [task EXCEPT ![p] = "new"]
  BY DEF Dispatch, SecondaryGoesOn, content, history, harvest
<1>2. p \in Publications /\ Tail(todo) \in Seq(Publications) /\ ToSet(todo) = {p} \cup ToSet(Tail(todo))
  BY <1>1, NextAndRest DEF FoundInv, Shapes
<1>3. Owed' = Owed
  BY <1>1 DEF Owed, Untaken, InHand, Pub
<1>4. fetch' # "external" => Pending' = Pending \cup {p}
  BY <1>1, <1>2 DEF LoadInv, Pending
<1>5. OwedByIdref'
  BY <1>1, <1>2, <1>3, <1>4 DEF FoundInv, OwedByIdref, Failures
<1>. QED
  BY <1>1, <1>2, <1>5, IdrefSteps DEF Over, Failures

\* What IdRef lists of the publications is a list of some of them, each once (Answer).
LEMMA AnswerIsAList ==
    ASSUME index \in Seq(Publications), NEW list \in Answer
    PROVE  list \in Seq(Publications) /\ (IsInjective(index) => IsInjective(list))
<1>1. Listed \subseteq Publications
  BY LenProperties, ElementOfSeq DEF Listed, ToSet
<1>2. CASE Len(index) > SparqlRows
  <2>1. list \in [1..SparqlRows -> Listed] /\ IsInjective(list)
    BY <1>2, LenProperties, SecondaryAssumption DEF Answer
  <2>2. list \in [1..SparqlRows -> Publications]
    BY <1>1, <2>1
  <2>3. list \in Seq(Publications)
    BY <2>2, SecondaryAssumption, SeqDef
  <2>. QED
    BY <2>1, <2>3
<1>3. CASE ~(Len(index) > SparqlRows)
  BY <1>3, LenProperties, SecondaryAssumption DEF Answer
<1>. QED
  BY <1>2, <1>3

LEMMA ListKeepsFound ==
    ASSUME FoundInv, SecondaryGoesOn, List \/ ListFails \/ EndOfList
    PROVE  FoundInv'
<1>1. /\ UNCHANGED <<source, index, hand, absent, handed, task, last>>
      /\ \/ /\ fetch' = "dispatching" /\ todo' \in Answer
            /\ unheard' = unheard \cup (Listed \ ToSet(todo'))
         \/ fetch' = "external" /\ UNCHANGED <<todo, unheard>>
         \/ fetch' = "draining" /\ fetch = "dispatching" /\ todo = <<>> /\ UNCHANGED <<todo, unheard>>
  <2>1. UNCHANGED handed
    BY DEF SecondaryGoesOn, harvest
  <2>. QED
    BY <2>1 DEF List, ListFails, EndOfList, FetchFails, content, history, secondary
<1>2. Owed' = Owed \ unheard' /\ Pending' = Pending /\ unheard \subseteq unheard'
  BY <1>1 DEF Owed, Untaken, InHand, Pub, Pending
<1>3. Owed \subseteq Listed
  BY DEF FoundInv, Shapes, Owed, Untaken
<1>4. todo' \in Seq(Publications)
  BY <1>1, AnswerIsAList DEF FoundInv, Shapes
<1>5. OwedByIdref'
  BY <1>1, <1>2, <1>3 DEF FoundInv, OwedByIdref, Failures
<1>. QED
  BY <1>1, <1>2, <1>4, <1>5, IdrefSteps DEF FoundInv, Shapes, Over, Failures

LEMMA WaitKeepsFound ==
    ASSUME FoundInv, SecondaryGoesOn, WaitForAll \/ WaitForSome
    PROVE  FoundInv'
<1>1. /\ UNCHANGED <<source, hand, absent, unheard, handed, task, todo>> /\ last' \in {last, None}
      /\ \/ fetch = "batch" /\ fetch' \in {"batch", "dispatching"}
         \/ fetch = "draining" /\ fetch' = "draining"
         \/ fetch = "draining" /\ fetch' = "ended" /\ Pending = {}
  BY DEF WaitForAll, WaitForSome, SecondaryGoesOn, content, history, harvest
<1>2. Owed' = Owed /\ Pending' = Pending
  BY <1>1 DEF Owed, Untaken, InHand, Pub, Pending
<1>3. OwedByIdref'
  BY <1>1, <1>2 DEF FoundInv, OwedByIdref, Failures
<1>. QED
  BY <1>1, <1>3, IdrefSteps DEF FoundInv, Shapes, Over, Failures

\* A task gives its publication, or the publication is not heard of, or the fetch fails.
LEMMA ResultKeepsFound ==
    ASSUME FoundInv, LoadInv, SecondaryGoesOn, NEW p \in Publications, TakeResult(p)
    PROVE  FoundInv'
<1>1. /\ UNCHANGED <<source, absent, handed, todo>>
      /\ hand = <<>> /\ fetch \in {"batch", "draining"}
      /\ task' = [task EXCEPT ![p] = "taken"]
  BY DEF TakeResult, SecondaryGoesOn, content, history, harvest
<1>2. task[p] \in Results
  BY DEF TakeResult, LoadInv
<1>3. /\ fetch' \in {fetch, "other"} /\ unheard \subseteq unheard'
      /\ \/ fetch' = "other"
         \/ fetch' = fetch /\ hand' # <<>> /\ Pub' = p
         \/ fetch' = fetch /\ p \in unheard'
      /\ InHand' \subseteq Publications /\ (last' \in {last, None} \/ last'.pub \in Publications)
  <2>1. CASE task[p] \in {"fresh", "stale"}
    <3>1. /\ hand' = <<[pub |-> p, stale |-> task[p] = "stale"]>>
          /\ last' = [pub |-> p, stale |-> task[p] = "stale"]
          /\ UNCHANGED <<fetch, unheard>>
      BY <2>1 DEF TakeResult, Yield
    <3>. QED
      BY <3>1 DEF Pub, InHand
  <2>2. CASE task[p] \in {"nothing", "external", "format"}
    <3>1. /\ fetch' = fetch /\ unheard' = unheard \cup {p} /\ last' \in {last, None}
          /\ hand' = <<>> \/ (last # None /\ hand' = <<last>>)
      BY <1>1, <2>2 DEF TakeResult
    <3>2. InHand' \subseteq Publications
      BY <3>1 DEF InHand, Pub, FoundInv, Shapes
    <3>. QED
      BY <3>1, <3>2
  <2>3. CASE task[p] = "other"
    BY <1>1, <2>3 DEF TakeResult, InHand
  <2>. QED
    BY <1>2, <2>1, <2>2, <2>3 DEF Results
<1>4. Owed' \subseteq Owed /\ (fetch' = fetch => p \notin Owed')
  BY <1>1, <1>3 DEF Owed, Untaken, InHand
<1>5. Pending' = Pending \ {p}
  BY <1>1 DEF LoadInv, Pending
<1>6. OwedByIdref'
  BY <1>1, <1>3, <1>4, <1>5 DEF FoundInv, OwedByIdref, Failures
<1>. QED
  BY <1>1, <1>3, <1>6, IdrefSteps DEF FoundInv, Shapes, Over, Failures

-----------------------------------------------------------------------------
(* The pages                                                               *)

\* The rows of the list that a request returns.
LEMMA RowsOfTheList ==
    ASSUME index \in Seq(Publications), NEW offset \in Nat, NEW size \in Nat \ {0}
    PROVE  /\ Rows(offset, size) \in Seq(Publications)
           /\ Len(Rows(offset, size)) =
                 IF offset >= Len(index) THEN 0
                 ELSE IF offset + size < Len(index) THEN size ELSE Len(index) - offset
           /\ \A j \in 1..Len(Rows(offset, size)) : Rows(offset, size)[j] = index[offset + j]
<1>1. Len(index) \in Nat
  BY LenProperties
<1>2. CASE offset >= Len(index)
  <2>1. Rows(offset, size) = <<>>
    BY <1>2 DEF Rows
  <2>. QED
    BY <1>2, <2>1, EmptySeq
<1>3. CASE ~(offset >= Len(index))
  <2>. DEFINE m == IF offset + size < Len(index) THEN offset + size ELSE Len(index)
  <2>1. Rows(offset, size) = SubSeq(index, offset + 1, m)
    BY <1>3 DEF Rows
  <2>2. m \in Int /\ offset + 1 \in Int /\ offset + 1 <= m /\ m <= Len(index)
    BY <1>1, <1>3
  <2>3. \A i \in (offset + 1)..m : i \in 1..Len(index)
    BY <1>1, <2>2
  <2>4. \A i \in (offset + 1)..m : index[i] \in Publications
    BY <2>3, ElementOfSeq
  <2>5. /\ SubSeq(index, offset + 1, m) \in Seq(Publications)
        /\ Len(SubSeq(index, offset + 1, m)) = m - offset
        /\ \A j \in 1..(m - offset) : SubSeq(index, offset + 1, m)[j] = index[offset + j]
    <3>. HIDE DEF m
    <3>1. /\ SubSeq(index, offset + 1, m) \in Seq(Publications)
          /\ Len(SubSeq(index, offset + 1, m))
               = IF offset + 1 <= m THEN m - (offset + 1) + 1 ELSE 0
          /\ \A j \in 1..(m - (offset + 1) + 1) :
                SubSeq(index, offset + 1, m)[j] = index[offset + 1 + j - 1]
      BY <2>2, <2>4, SubSeqProperties
    <3>2. m - (offset + 1) + 1 = m - offset /\ \A j \in 1..(m - offset) : offset + 1 + j - 1 = offset + j
      BY <2>2
    <3>. QED
      BY <2>2, <3>1, <3>2
  <2>6. m - offset = IF offset + size < Len(index) THEN size ELSE Len(index) - offset
    BY <1>1
  <2>. QED
    BY <1>3, <2>1, <2>5, <2>6
<1>. QED
  BY <1>2, <1>3

(* What a step of a client has to keep, when it leaves the rest of the     *)
(* harvesting alone.                                                       *)
LEMMA PagedSteps ==
    ASSUME FoundInv, PagesGoOn,
           fetch' \in {"looking", "asking", "giving"} \cup Over,
           page' \in Seq(Publications), asked' \in Nat, given' \in Nat,
           unheard \subseteq unheard', OwedByHal', OwedByPages',
           hand' = hand \/ (hand = <<>> /\ InHand' \subseteq Publications)
    PROVE  FoundInv'
<1>1. /\ UNCHANGED <<content, index, quiet, absent, secondary, harvest>>
      /\ fetch \in {"looking", "asking", "giving"}
  BY DEF PagesGoOn, FetchPages, LookUp, Ask, AskFails, Give, LastGiven, history
<1>2. source # "idref" /\ source' # "idref"
  BY <1>1 DEF FoundInv, Shapes, Over, Failures, content
<1>3. Shapes'
  BY <1>1, <1>2 DEF FoundInv, Shapes, InHand, Pub, Listed, content, secondary, harvest
<1>4. Met'
  BY <1>1 DEF FoundInv, Met, Untaken, Pub, harvest
<1>5. OwedByIdref'
  BY <1>2 DEF OwedByIdref
<1>6. DeletionsAreTrue'
  BY <1>1, DeletionsStayTrue DEF FoundInv, content, harvest
<1>. QED
  BY <1>3, <1>4, <1>5, <1>6 DEF FoundInv

\* The person is found, or not yet, or ScanR does not know it (LookUp).
LEMMA LookUpKeepsFound ==
    ASSUME FoundInv, PagesGoOn, LookUp
    PROVE  FoundInv'
<1>1. /\ UNCHANGED <<source, index, hand, quiet, absent, handed, page, asked, given, count>>
      /\ fetch = "looking" /\ unheard \subseteq unheard'
      /\ \/ fetch' \in {"asking", "looking"}
         \/ fetch' = "ended" /\ Listed \subseteq unheard'
  BY DEF LookUp, PagesGoOn, content, harvest
<1>2. Owed' \subseteq Owed /\ (fetch' = "ended" => Owed' = {})
  BY <1>1 DEF Owed, Untaken, InHand, Pub, FoundInv, Shapes
<1>3. OwedByHal'
  BY <1>1, <1>2 DEF FoundInv, OwedByHal
<1>4. OwedByPages'
  BY <1>1, <1>2 DEF FoundInv, OwedByPages, ByPages, Continued, PagesEnd, Announced, Failures
<1>. QED
  BY <1>1, <1>3, <1>4, PagedSteps DEF FoundInv, Shapes, Over

LEMMA FailureKeepsFound ==
    ASSUME FoundInv, PagesGoOn, AskFails
    PROVE  FoundInv'
<1>1. UNCHANGED <<source, hand, page, asked, given, unheard>>
  BY DEF AskFails, PagesGoOn, content, history, paging
<1>2. fetch' \in Failures
  BY DEF AskFails, FetchFails, PagingFailures, Failures, FoundInv, Shapes, Paged, Over
<1>3. OwedByHal' /\ OwedByPages'
  BY <1>2 DEF OwedByHal, OwedByPages
<1>. QED
  BY <1>1, <1>2, <1>3, PagedSteps DEF FoundInv, Shapes, Over

\* A page is at its end, and the last one when no more is announced than was given (LastGiven).
LEMMA LastKeepsFound ==
    ASSUME FoundInv, PagesGoOn, LastGiven
    PROVE  FoundInv'
<1>1. /\ UNCHANGED <<source, index, hand, quiet, absent, unheard, handed>>
      /\ UNCHANGED <<page, asked, given, count>>
      /\ fetch = "giving" /\ page = <<>> /\ Len(page) = 0
      /\ fetch' = IF More THEN "asking" ELSE "ended"
  BY EmptySeq DEF LastGiven, PagesGoOn, content, history, paging, harvest
<1>2. Owed' = Owed
  BY <1>1 DEF Owed, Untaken, InHand, Pub
<1>3. source = "hal" => Owed = {}
  <2>1. ToSet(page) = {}
    BY <1>1 DEF ToSet
  <2>. QED
    BY <1>1, <2>1 DEF FoundInv, OwedByHal, Failures
<1>4. OwedByHal'
  BY <1>1, <1>2, <1>3 DEF OwedByHal
<1>5. ASSUME ByPages, quiet, ~More
      PROVE  Owed = {}
  <2>1. Continued /\ PagesEnd /\ Announced
    BY <1>1, <1>5 DEF FoundInv, OwedByPages, Failures
  <2>2. Len(index) \in Nat /\ given \in Nat /\ asked * PageSize \in Nat
    BY LenProperties, PagingAssumption DEF FoundInv, Shapes
  <2>3. given >= Len(index)
    <3>. DEFINE offset == asked * PageSize
    <3>1. CASE source = "scanr"
      BY <1>1, <1>5, <2>1, <2>2, <3>1 DEF Announced, More, ScanrMore
    <3>2. CASE source = "scopus"
      <4>1. count = Len(index) /\ ~(count > offset)
        BY <1>1, <1>5, <2>1, <3>2 DEF Announced, More, ScopusMore
      <4>2. given + 0 = IF offset < Len(index) THEN offset ELSE Len(index)
        BY <1>1, <2>1, <3>2 DEF PagesEnd
      <4>. QED
        BY <2>2, <4>1, <4>2
    <3>3. CASE source = "open_alex"
      <4>1. count = Len(index) /\ ~(count >= offset)
        BY <1>1, <1>5, <2>1, <3>3 DEF Announced, More, OpenAlexMore
      <4>2. given + 0 = IF offset < Len(index) THEN offset ELSE Len(index)
        BY <1>1, <2>1, <3>3 DEF PagesEnd
      <4>. QED
        BY <2>2, <4>1, <4>2
    <3>. QED
      BY <1>5, <3>1, <3>2, <3>3 DEF ByPages
  <2>. QED
    BY <2>1, <2>2, <2>3 DEF Continued
<1>6. OwedByPages'
  <2>. SUFFICES ASSUME ByPages, quiet PROVE OwedByPages'
    BY <1>1 DEF OwedByPages, ByPages
  <2>1. Continued /\ PagesEnd /\ Announced
    BY <1>1 DEF FoundInv, OwedByPages, Failures
  <2>2. CASE More
    BY <1>1, <1>2, <2>1, <2>2 DEF OwedByPages, Continued, PagesEnd, Announced
  <2>3. CASE ~More
    BY <1>1, <1>2, <1>5, <2>3 DEF OwedByPages
  <2>. QED
    BY <2>2, <2>3
<1>. QED
  BY <1>1, <1>4, <1>6, PagedSteps DEF FoundInv, Shapes, Over

(* What HAL does not return is not heard of; the pages of the others       *)
(* continue what was given (Ask).                                          *)
LEMMA AskKeepsFound ==
    ASSUME FoundInv, PagesGoOn, Ask
    PROVE  FoundInv'
<1>. DEFINE offset == asked * PageSize
<1>1. /\ UNCHANGED <<source, index, hand, quiet, absent, handed, given>>
      /\ fetch = "asking" /\ fetch' = "giving" /\ page' = Page /\ asked' = asked + 1
      /\ unheard' = IF source = "hal" THEN unheard \cup (Listed \ ToSet(HalPage)) ELSE unheard
  BY DEF Ask, PagesGoOn, content, harvest
<1>2. /\ index \in Seq(Publications) /\ Len(index) \in Nat
      /\ given \in Nat /\ asked \in Nat /\ offset \in Nat /\ asked' * PageSize = offset + PageSize
      /\ PageSize \in Nat \ {0} /\ HalRows \in Nat \ {0}
  <2>1. index \in Seq(Publications) /\ given \in Nat /\ asked \in Nat
    BY DEF FoundInv, Shapes
  <2>. QED
    BY <1>1, <2>1, LenProperties, PagingAssumption
<1>3. source \in Paged
  <2>1. fetch \notin {"listing", "dispatching", "batch", "draining"} \cup Over
    BY <1>1 DEF Over, Failures
  <2>. QED
    BY <2>1 DEF FoundInv, Shapes
<1>4. page' \in Seq(Publications)
  <2>1. /\ Rows(0, HalRows) \in Seq(Publications) /\ Rows(offset, PageSize) \in Seq(Publications)
        /\ Rows(given, PageSize) \in Seq(Publications)
    BY <1>2, RowsOfTheList
  <2>2. Page \in {Rows(0, HalRows), Rows(offset, PageSize), Rows(given, PageSize)}
    BY <1>3 DEF Page, Paged, HalPage, OpenAlexPage, ScopusPage, ScanrPage
  <2>. QED
    BY <1>1, <2>1, <2>2
<1>5. Owed' \subseteq Owed
  BY <1>1 DEF Owed, Untaken, InHand, Pub
<1>6. OwedByHal'
  <2>. SUFFICES ASSUME source = "hal" PROVE \A p \in Owed' : p \in ToSet(page')
    BY <1>1 DEF OwedByHal
  <2>1. page' = HalPage
    BY <1>1 DEF Page
  <2>2. ASSUME NEW q \in Owed' PROVE q \in Listed /\ q \notin unheard'
    BY <1>1 DEF Owed, Untaken, FoundInv, Shapes
  <2>3. unheard' = unheard \cup (Listed \ ToSet(page'))
    BY <1>1, <2>1
  <2>. QED
    BY <2>2, <2>3
<1>7. ASSUME ByPages, quiet
      PROVE  Continued' /\ PagesEnd' /\ Announced'
  <2>1. page = <<>> /\ Len(page) = 0 /\ Continued /\ PagesEnd /\ Announced
    BY <1>1, <1>7, EmptySeq DEF FoundInv, OwedByPages, Failures
  <2>2. source # "hal"
    BY <1>7 DEF ByPages
  <2>3. given <= Len(index)
    BY <1>2, <2>1 DEF Continued
  <2>4. source = "scanr" => page' = Rows(given, PageSize)
    BY <1>1 DEF Page, ScanrPage
  <2>5. source # "scanr" => /\ page' = Rows(offset, PageSize)
                            /\ given = IF offset < Len(index) THEN offset ELSE Len(index)
    <3>. SUFFICES ASSUME source # "scanr"
                  PROVE  /\ page' = Rows(offset, PageSize)
                         /\ given = IF offset < Len(index) THEN offset ELSE Len(index)
      OBVIOUS
    <3>1. page' = Rows(offset, PageSize)
      BY <1>1, <1>7 DEF Page, OpenAlexPage, ScopusPage, ByPages
    <3>2. given + Len(page) = IF offset < Len(index) THEN offset ELSE Len(index)
      BY <2>1 DEF PagesEnd
    <3>3. given + Len(page) = given
      BY <1>2, <2>1
    <3>. QED
      BY <3>1, <3>2, <3>3
  <2>6. page' = Rows(given, PageSize)
    <3>1. CASE source # "scanr" /\ offset >= Len(index)
      BY <1>2, <2>5, <3>1 DEF Rows
    <3>2. CASE source # "scanr" /\ ~(offset >= Len(index))
      BY <1>2, <2>5, <3>2
    <3>. QED
      BY <2>4, <3>1, <3>2
  <2>7. /\ Len(page') = IF given >= Len(index) THEN 0
                        ELSE IF given + PageSize < Len(index) THEN PageSize ELSE Len(index) - given
        /\ \A j \in 1..Len(page') : page'[j] = index[given + j]
    BY <1>2, <2>6, RowsOfTheList
  <2>8. Continued'
    <3>1. given + Len(page') <= Len(index)
      BY <1>2, <2>3, <2>7
    <3>. QED
      BY <1>1, <1>5, <2>1, <2>7, <3>1 DEF Continued
  <2>9. PagesEnd'
    <3>. SUFFICES ASSUME source # "scanr"
                  PROVE  given + Len(page')
                           = IF offset + PageSize < Len(index) THEN offset + PageSize ELSE Len(index)
      BY <1>1, <1>2 DEF PagesEnd
    <3>. QED
      BY <1>2, <2>5, <2>7
  <2>10. Announced'
    <3>1. \/ count' = IF source = "scanr" /\ count > Len(index) THEN count ELSE Len(index)
          \/ source = "open_alex" /\ count' = None
      BY DEF Ask
    <3>. QED
      BY <1>1, <1>2, <1>7, <2>1, <3>1 DEF Announced, ByPages
  <2>. QED
    BY <2>8, <2>9, <2>10
<1>8. OwedByPages'
  BY <1>1, <1>7 DEF OwedByPages, ByPages
<1>. QED
  BY <1>1, <1>2, <1>4, <1>6, <1>8, PagedSteps DEF FoundInv, Shapes

\* The next document is in hand, or is not heard of, or the fetch fails (Give).
LEMMA GiveKeepsFound ==
    ASSUME FoundInv, PagesGoOn, Give
    PROVE  FoundInv'
<1>. DEFINE p == Head(page)
<1>1. /\ UNCHANGED <<source, index, quiet, absent, handed, asked, count>>
      /\ fetch = "giving" /\ hand = <<>> /\ page # <<>>
      /\ page' = Tail(page) /\ given' = given + 1
  BY DEF Give, PagesGoOn, content, harvest
<1>2. /\ p \in Publications /\ p = page[1] /\ Len(page) \in Nat \ {0}
      /\ page' \in Seq(Publications) /\ Len(page') = Len(page) - 1
      /\ \A j \in 1..Len(page') : page'[j] = page[j + 1]
      /\ ToSet(page) = {p} \cup ToSet(page')
  BY <1>1, NextAndRest DEF FoundInv, Shapes
<1>3. /\ unheard \subseteq unheard' /\ fetch' \in {"giving", "other"}
      /\ fetch' = "other" => source = "scopus"
      /\ fetch' = "giving" => p \in unheard' \/ (hand' # <<>> /\ Pub' = p)
      /\ InHand' \subseteq Publications
  <2>1. \/ unheard' = unheard \cup {p} /\ UNCHANGED <<fetch, hand>>
        \/ source = "scopus" /\ fetch' = "other" /\ UNCHANGED <<unheard, hand>>
        \/ Yield(p, FALSE) /\ UNCHANGED <<fetch, unheard>>
    BY DEF Give
  <2>. QED
    BY <1>1, <1>2, <2>1 DEF Yield, Pub, InHand
<1>4. Owed' \subseteq Owed /\ (fetch' = "giving" => p \notin Owed')
  BY <1>1, <1>3 DEF Owed, Untaken, InHand
<1>5. OwedByHal'
  BY <1>1, <1>2, <1>3, <1>4 DEF FoundInv, OwedByHal, Failures
<1>6. OwedByPages'
  <2>. SUFFICES ASSUME ByPages, quiet, fetch' = "giving"
                PROVE  Continued' /\ PagesEnd' /\ Announced'
    BY <1>1, <1>3 DEF OwedByPages, ByPages, Failures
  <2>1. Continued /\ PagesEnd /\ Announced
    BY <1>1 DEF FoundInv, OwedByPages, Failures
  <2>2. given \in Nat /\ Len(page') \in Nat /\ Len(index) \in Nat
    BY <1>2, LenProperties DEF FoundInv, Shapes
  <2>3. given' + Len(page') = given + Len(page)
    BY <1>1, <1>2, <2>2
  <2>4. index[given + 1] = p
    BY <1>2, <2>1 DEF Continued
  <2>5. \A j \in 1..Len(page') : page'[j] = index[given' + j]
    <3>. SUFFICES ASSUME NEW j \in 1..Len(page') PROVE page'[j] = index[given' + j]
      OBVIOUS
    <3>1. j + 1 \in 1..Len(page) /\ given + (j + 1) = given' + j
      BY <1>1, <1>2, <2>2
    <3>. QED
      BY <1>2, <2>1, <3>1 DEF Continued
  <2>6. \A q \in Owed' : \E i \in (given' + 1)..Len(index) : index[i] = q
    <3>. SUFFICES ASSUME NEW q \in Owed'
                  PROVE  \E i \in (given' + 1)..Len(index) : index[i] = q
      OBVIOUS
    <3>1. PICK i \in (given + 1)..Len(index) : index[i] = q
      BY <1>4, <2>1 DEF Continued
    <3>2. i # given + 1
      BY <1>4, <2>4, <3>1
    <3>. QED
      BY <1>1, <2>2, <3>1, <3>2
  <2>7. Continued'
    BY <1>1, <2>1, <2>3, <2>5, <2>6 DEF Continued
  <2>8. PagesEnd' /\ Announced'
    BY <1>1, <2>1, <2>3 DEF PagesEnd, Announced
  <2>. QED
    BY <2>7, <2>8
<1>. QED
  BY <1>1, <1>2, <1>3, <1>5, <1>6, PagedSteps DEF FoundInv, Shapes, Over, Failures

-----------------------------------------------------------------------------

LEMMA InitFound == Init => FoundInv
<1>. SUFFICES ASSUME Init PROVE FoundInv
  OBVIOUS
<1>1. PICK s \in Starts :
         /\ Begin(s, FirstFetch(s)) /\ BeginPaging(s) /\ BeginSecondary(s)
         /\ at = "taking" /\ known = s.known
         /\ before = {p \in Publications : s.known[p] # None}
         /\ existing = {} /\ deleted = {} /\ handed = [p \in Publications |-> 0]
  BY DEF Init
<1>2. /\ source = s.source /\ index = s.index /\ hand = <<>> /\ page = <<>> /\ todo = <<>>
      /\ asked = 0 /\ given = 0 /\ count = 0 /\ unheard = {} /\ last = None
      /\ absent = {p \in Publications : p \notin Listed}
  BY <1>1 DEF Begin, BeginPaging, BeginSecondary, Listed
<1>3. /\ source \in Paged \cup {"idref"} /\ index \in Seq(Publications)
      /\ DOMAIN known = Publications
      /\ fetch = IF source = "idref" THEN "listing" ELSE fetch
      /\ source # "idref" => fetch \in {"looking", "asking"}
  BY <1>1, <1>2, StartsAssumption DEF Begin, FirstFetch
<1>4. Shapes
  <2>1. \A p \in Publications : changed[p] # None
    BY <1>1, StartsAssumption DEF Begin
  <2>. QED
    BY <1>1, <1>2, <1>3, <2>1, EmptySeq DEF Shapes, Paged, InHand
<1>5. Met
  BY <1>1, <1>3 DEF Met, Untaken
<1>6. OwedByIdref /\ OwedByHal
  BY <1>3 DEF OwedByIdref, OwedByHal
<1>7. OwedByPages
  <2>. SUFFICES ASSUME ByPages PROVE Continued /\ PagesEnd /\ Announced /\ fetch \in {"looking", "asking"}
    BY <1>2 DEF OwedByPages
  <2>1. fetch \in {"looking", "asking"}
    BY <1>3 DEF ByPages
  <2>2. Len(index) \in Nat /\ Len(page) = 0 /\ DOMAIN index = 1..Len(index)
    BY <1>2, <1>3, LenProperties, EmptySeq
  <2>3. Owed \subseteq {index[i] : i \in 1..Len(index)}
    BY <1>1, <1>2, <2>2 DEF Owed, Untaken, Listed, ToSet
  <2>4. Continued
    BY <1>2, <2>2, <2>3 DEF Continued
  <2>5. PagesEnd
    BY <1>2, <2>2, PagingAssumption DEF PagesEnd
  <2>6. Announced
    BY <1>2, <2>1 DEF Announced, ByPages
  <2>. QED
    BY <2>1, <2>4, <2>5, <2>6
<1>8. DeletionsAreTrue
  BY <1>1 DEF DeletionsAreTrue
<1>. QED
  BY <1>4, <1>5, <1>6, <1>7, <1>8 DEF FoundInv

LEMMA StutterKeepsFound == FoundInv /\ UNCHANGED vars => FoundInv'
<1>. SUFFICES ASSUME FoundInv, UNCHANGED vars PROVE FoundInv'
  OBVIOUS
<1>. USE DEF vars, paging, secondary, harvest
<1>1. Shapes' /\ Met'
  BY DEF FoundInv, Shapes, Met, Untaken, InHand, Pub, Listed
<1>2. Owed' = Owed /\ Pending' = Pending
  BY DEF Owed, Untaken, InHand, Pub, Pending
<1>3. OwedByIdref' /\ OwedByHal'
  BY <1>2 DEF FoundInv, OwedByIdref, OwedByHal
<1>4. OwedByPages'
  BY <1>2 DEF FoundInv, OwedByPages, ByPages, Continued, PagesEnd, Announced
<1>5. DeletionsAreTrue'
  BY DEF FoundInv, DeletionsAreTrue, PagesMoved
<1>. QED
  BY <1>1, <1>3, <1>4, <1>5 DEF FoundInv

\* The inductive invariant, step by step, on top of the one about the tasks.
LEMMA FoundStep == LoadInv /\ FoundInv /\ [Next]_vars => FoundInv'
<1>. SUFFICES ASSUME LoadInv, FoundInv, [Next]_vars PROVE FoundInv'
  OBVIOUS
<1>1. CASE PagesGoOn
  BY <1>1, LookUpKeepsFound, AskKeepsFound, FailureKeepsFound, GiveKeepsFound, LastKeepsFound
     DEF PagesGoOn, FetchPages
<1>2. CASE SecondaryGoesOn
  BY <1>2, ListKeepsFound, DispatchKeepsFound, WaitKeepsFound, ResultKeepsFound
     DEF SecondaryGoesOn, FetchSecondary
<1>3. CASE Take \/ EndConversion \/ EndRun
  BY <1>3, TakeKeepsFound, ConversionKeepsFound, EndKeepsFound
<1>4. CASE \E p \in Publications : TaskGoesOn(p)
  BY <1>4, TaskKeepsFound
<1>5. CASE SourceChanges \/ UNCHANGED vars
  BY <1>5, SourceKeepsFound, StutterKeepsFound
<1>. QED
  BY <1>1, <1>2, <1>3, <1>4, <1>5 DEF Next

(* Whatever the source lists, whatever changes or fails meanwhile, a       *)
(* harvesting only declares deleted what its source did not list at some   *)
(* time, what it could not get, or what pages that moved may have hidden   *)
(* from it (AbstractHarvester._register_deleted_references).               *)
THEOREM DeletionsFollowTheSource == Spec => []DeletionsAreTrue
<1>1. Init => LoadInv /\ FoundInv
  BY InitLoad, InitFound
<1>2. LoadInv /\ FoundInv /\ [Next]_vars => (LoadInv /\ FoundInv)'
  BY LoadStep, FoundStep
<1>3. FoundInv => DeletionsAreTrue
  BY DEF FoundInv
<1>. QED
  BY <1>1, <1>2, <1>3, PTL DEF Spec

-----------------------------------------------------------------------------
(* Each publication once                                                   *)

\* What can be in hand has a converter.
KindInv ==
    /\ unheard \subseteq Publications
    /\ \A p \in Publications :
          /\ kind[p] \in Formatters \cup {"unknown", "HAL_JSON"}
          /\ source \in Paged => kind[p] \in Formatters
          /\ kind[p] = "unknown" => task[p] = "none"
          /\ kind[p] = "HAL_JSON" => task[p] \in {"none", "new", "nothing", "taken"}
    /\ \A p \in InHand : kind[p] \in Formatters
    /\ last # None => kind[last.pub] \in Formatters

\* The number of times p was given to the harvester.
Times(p) == handed[p] + (IF p \in InHand /\ at = "taking" THEN 1 ELSE 0)

(* IdRef: not before its task has ended; again only after a query failed.  *)
OnceByIdref ==
    source = "idref" =>
        /\ IsInjective(todo)
        /\ fetch = "listing" => \A p \in Publications : task[p] = "none"
        /\ \A p \in ToSet(todo) : task[p] = "none"
        /\ \A p \in Publications :
              /\ task[p] # "taken" => Times(p) = 0
              /\ Times(p) <= 1 + Cardinality(FailedQueries)
        /\ last # None => task[last.pub] = "taken"

\* HAL: its only page begins the list.
HalFromTheStart ==
    source = "hal" =>
        /\ fetch \in {"looking", "asking"} => given = 0 /\ page = <<>>
        /\ given + Len(page) <= Len(index)
        /\ \A j \in 1..Len(page) : page[j] = index[given + j]

\* The others: what follows those given was not given.
OnceByPages ==
    source # "idref" /\ fetch \notin Failures =>
        /\ HalFromTheStart
        /\ \A p \in Publications : Times(p) <= 1
        /\ fetch # "ended" => \A i \in (given + 1)..Len(index) : Times(index[i]) = 0

OnceInv == quiet => IsInjective(index) /\ OnceByIdref /\ OnceByPages

-----------------------------------------------------------------------------
(* What is stored                                                          *)

\* The stored reference of p has what is hashed of it in the source.
Agrees(p) ==
    /\ known[p] # None
    /\ kind[p] # "SCANR" =>
         /\ changed[p] \cap HashKeys(kind[p]) \subseteq known[p]
         /\ known[p] \cap HashKeys(kind[p]) \subseteq changed[p]

StoredInv ==
    /\ run # "failed" =>
          \A p \in Publications \ (Untaken \cup InHand \cup outdated \cup refused) : Agrees(p)
    /\ at = "converting" /\ hand[1].stale => Pub \in outdated
    /\ run = "completed" => fetch = "ended" /\ hand = <<>>

-----------------------------------------------------------------------------
(* Formats                                                                 *)

LEMMA KindStays ==
    ASSUME KindInv, UNCHANGED <<source, kind>>, unheard' \subseteq Publications,
           \A p \in InHand' : p \in InHand \/ kind[p] \in Formatters,
           last' \in {last, None} \/ kind[last'.pub] \in Formatters,
           \A p \in Publications :
              \/ task'[p] = task[p] \/ kind[p] \in Formatters
              \/ kind[p] = "HAL_JSON" /\ task'[p] \in {"none", "new", "nothing", "taken"}
    PROVE  KindInv'
BY DEF KindInv, Formatters

\* What a client gives is of the one format it reads.
LEMMA PagesKeepKinds ==
    ASSUME FoundInv, KindInv, PagesGoOn
    PROVE  KindInv'
<1>1. UNCHANGED <<source, kind, index, task, last>> /\ fetch \in {"looking", "asking", "giving"}
  BY DEF PagesGoOn, FetchPages, LookUp, Ask, AskFails, Give, LastGiven, content, secondary
<1>2. source \in Paged /\ Listed \subseteq Publications
  <2>1. fetch \notin {"listing", "dispatching", "batch", "draining"} \cup Over
    BY <1>1 DEF Over, Failures
  <2>2. source # "idref" => source \in Paged
    BY DEF FoundInv, Shapes
  <2>3. index \in Seq(Publications)
    BY DEF FoundInv, Shapes
  <2>4. Listed \subseteq Publications
    BY <2>3, LenProperties, ElementOfSeq DEF Listed, ToSet
  <2>. QED
    BY <2>1, <2>2, <2>4 DEF FoundInv, Shapes
<1>3. ASSUME Give
      PROVE  unheard' \subseteq Publications /\ \A p \in InHand' : p \in InHand \/ p \in Publications
  <2>1. page # <<>> /\ page \in Seq(Publications)
    BY <1>3 DEF Give, FoundInv, Shapes
  <2>2. Head(page) \in Publications
    BY <2>1, NextAndRest
  <2>3. \/ unheard' = unheard \cup {Head(page)} /\ UNCHANGED hand
        \/ UNCHANGED <<unheard, hand>>
        \/ hand' = <<[pub |-> Head(page), stale |-> FALSE]>> /\ UNCHANGED unheard
    BY <1>3 DEF Give, Yield
  <2>. QED
    BY <2>2, <2>3 DEF InHand, Pub, KindInv
<1>4. ASSUME LookUp \/ Ask \/ AskFails \/ LastGiven
      PROVE  unheard' \subseteq Publications /\ UNCHANGED hand
  BY <1>2, <1>4 DEF LookUp, Ask, AskFails, LastGiven, history, KindInv
<1>5. unheard' \subseteq Publications /\ \A p \in InHand' : p \in InHand \/ p \in Publications
  BY <1>3, <1>4 DEF PagesGoOn, FetchPages, InHand, Pub
<1>6. \A p \in Publications : kind[p] \in Formatters
  BY <1>2 DEF KindInv
<1>. QED
  BY <1>1, <1>5, <1>6, KindStays

\* No task for an unknown source, and nothing from those for HAL.
LEMMA SecondaryKeepsKinds ==
    ASSUME LoadInv, FoundInv, KindInv, SecondaryGoesOn
    PROVE  KindInv'
<1>1. UNCHANGED <<source, kind>>
  BY DEF SecondaryGoesOn, FetchSecondary, List, ListFails, Dispatch, EndOfList, WaitForAll,
         WaitForSome, TakeResult, content
<1>2. CASE List \/ ListFails \/ EndOfList \/ WaitForAll \/ WaitForSome
  <2>1. UNCHANGED <<task, hand>> /\ last' \in {last, None} /\ unheard' \subseteq unheard \cup Listed
    BY <1>2 DEF List, ListFails, EndOfList, WaitForAll, WaitForSome, history, secondary
  <2>2. Listed \subseteq Publications
    BY LenProperties, ElementOfSeq DEF FoundInv, Shapes, Listed, ToSet
  <2>. QED
    BY <1>1, <2>1, <2>2, KindStays DEF KindInv, InHand, Pub
<1>3. CASE Dispatch
  <2>1. todo # <<>> /\ todo \in Seq(Publications)
    BY <1>3 DEF Dispatch, FoundInv, Shapes
  <2>2. Head(todo) \in Publications
    BY <2>1, NextAndRest
  <2>3. /\ UNCHANGED <<hand, unheard, last>>
        /\ \/ UNCHANGED task
           \/ kind[Head(todo)] # "unknown" /\ task' = [task EXCEPT ![Head(todo)] = "new"]
    BY <1>3 DEF Dispatch, history
  <2>4. \A p \in Publications :
           \/ task'[p] = task[p] \/ kind[p] \in Formatters
           \/ kind[p] = "HAL_JSON" /\ task'[p] \in {"none", "new", "nothing", "taken"}
    BY <2>2, <2>3 DEF LoadInv, KindInv
  <2>. QED
    BY <1>1, <2>3, <2>4, KindStays DEF KindInv, InHand, Pub
<1>4. ASSUME NEW p \in Publications, TakeResult(p)
      PROVE  KindInv'
  <2>1. task[p] \in Results /\ task' = [task EXCEPT ![p] = "taken"] /\ hand = <<>>
    BY <1>4 DEF TakeResult, LoadInv
  <2>2. kind[p] \in Formatters \/ task[p] = "nothing"
    BY <2>1 DEF KindInv, Results
  <2>3. \A q \in Publications :
           \/ task'[q] = task[q] \/ kind[q] \in Formatters
           \/ kind[q] = "HAL_JSON" /\ task'[q] \in {"none", "new", "nothing", "taken"}
    BY <2>1 DEF LoadInv, KindInv, Results
  <2>4. CASE task[p] \in {"fresh", "stale"}
    <3>1. /\ hand' = <<[pub |-> p, stale |-> task[p] = "stale"]>>
          /\ last' = [pub |-> p, stale |-> task[p] = "stale"] /\ UNCHANGED unheard
      BY <1>4, <2>4 DEF TakeResult, Yield
    <3>. QED
      BY <1>1, <2>2, <2>3, <2>4, <3>1, KindStays DEF KindInv, InHand, Pub
  <2>5. CASE task[p] \in {"nothing", "external", "format"}
    <3>1. /\ unheard' = unheard \cup {p} /\ last' \in {last, None}
          /\ hand' = <<>> \/ (last # None /\ hand' = <<last>>)
      BY <1>4, <2>1, <2>5 DEF TakeResult
    <3>2. \A q \in InHand' : kind[q] \in Formatters
      BY <3>1 DEF InHand, Pub, KindInv
    <3>. QED
      BY <1>1, <2>3, <3>1, <3>2, KindStays DEF KindInv
  <2>6. CASE task[p] = "other"
    <3>1. UNCHANGED <<hand, last, unheard>>
      BY <1>4, <2>6 DEF TakeResult
    <3>. QED
      BY <1>1, <2>3, <3>1, KindStays DEF KindInv, InHand, Pub
  <2>. QED
    BY <2>1, <2>4, <2>5, <2>6 DEF Results
<1>. QED
  BY <1>2, <1>3, <1>4 DEF SecondaryGoesOn, FetchSecondary

LEMMA TaskKeepsKinds ==
    ASSUME LoadInv, KindInv, NEW p \in Publications, TaskGoesOn(p)
    PROVE  KindInv'
<1>1. UNCHANGED <<source, kind, unheard, hand, last>>
  BY DEF TaskGoesOn, RunTask, StartTask, StartTaskBadly, Answered, NotAnswered, Write, WriteFails,
         content, history
<1>2. \E r : task' = [task EXCEPT ![p] = r]
  BY DEF TaskGoesOn, RunTask, StartTask, StartTaskBadly, Answered, NotAnswered, Write,
         WriteFails, TaskEnds
<1>3. task[p] \in {"new", "asking", "writing"}
  BY DEF TaskGoesOn, RunTask, StartTask, StartTaskBadly, Answered, NotAnswered, Write, WriteFails
<1>4. kind[p] = "HAL_JSON" => task' = [task EXCEPT ![p] = "nothing"]
  <2>. SUFFICES ASSUME kind[p] = "HAL_JSON" PROVE task' = [task EXCEPT ![p] = "nothing"]
    OBVIOUS
  <2>1. task[p] = "new" /\ kind[p] \notin Cached
    BY <1>3 DEF KindInv, Cached
  <2>2. StartTask(p)
    BY <2>1 DEF TaskGoesOn, RunTask, StartTaskBadly, Answered, NotAnswered, Write, WriteFails
  <2>. QED
    BY <2>2 DEF StartTask, TaskEnds
<1>5. \A q \in Publications :
         \/ task'[q] = task[q] \/ kind[q] \in Formatters
         \/ kind[q] = "HAL_JSON" /\ task'[q] \in {"none", "new", "nothing", "taken"}
  BY <1>2, <1>3, <1>4 DEF LoadInv, KindInv
<1>. QED
  BY <1>1, <1>5, KindStays DEF KindInv, InHand, Pub

LEMMA KindStep == LoadInv /\ FoundInv /\ KindInv /\ [Next]_vars => KindInv'
<1>. SUFFICES ASSUME LoadInv, FoundInv, KindInv, [Next]_vars PROVE KindInv'
  OBVIOUS
<1>1. ASSUME Take \/ EndConversion \/ EndRun \/ SourceChanges \/ UNCHANGED vars
      PROVE  KindInv'
  <2>1. UNCHANGED <<source, kind, unheard, task, last>> /\ hand' \in {hand, <<>>}
    BY <1>1 DEF Take, EndConversion, EndRun, fetching, SourceChanges, Meanwhile, Withdraw, Publish,
                Reorder, Disturbed, vars, content, history, secondary
  <2>. QED
    BY <2>1, KindStays DEF KindInv, InHand, Pub
<1>. QED
  BY <1>1, PagesKeepKinds, SecondaryKeepsKinds, TaskKeepsKinds DEF Next

-----------------------------------------------------------------------------
(* How often each is given                                                 *)

\* Taking what is in hand, and converting it, gives nothing anew.
LEMMA HarvestKeepsTimes ==
    ASSUME FoundInv, Take \/ EndConversion \/ EndRun, NEW p \in Publications
    PROVE  Times(p)' = Times(p)
<1>1. handed[p] \in Nat
  BY DEF FoundInv, Shapes
<1>2. CASE Take
  <2>1. /\ at = "taking" /\ hand # <<>> /\ handed' = [handed EXCEPT ![Pub] = @ + 1]
        /\ (at' = "converting" /\ hand' = hand) \/ hand' = <<>>
    BY <1>2 DEF Take
  <2>2. handed \in [Publications -> Nat]
    BY DEF FoundInv, Shapes
  <2>3. CASE p = Pub
    BY <1>1, <2>1, <2>2, <2>3 DEF Times, InHand, Pub
  <2>4. CASE p # Pub
    BY <1>1, <2>1, <2>2, <2>4 DEF Times, InHand, Pub
  <2>. QED
    BY <2>3, <2>4
<1>3. CASE EndConversion
  <2>1. at = "converting" /\ hand' = <<>> /\ UNCHANGED handed
    BY <1>3 DEF EndConversion
  <2>. QED
    BY <1>1, <2>1 DEF Times, InHand
<1>4. CASE EndRun
  BY <1>4 DEF EndRun, Times, InHand, Pub
<1>. QED
  BY <1>2, <1>3, <1>4

\* Steps that give nothing, fetch nothing and leave finished tasks alone.
LEMMA OnceStays ==
    ASSUME OnceInv, UNCHANGED <<source, kind, index, fetch, quiet, unheard, page, given, todo, last>>,
           \A p \in Publications : Times(p)' = Times(p),
           last # None => last.pub \in Publications,
           index \in Seq(Publications), todo \in Seq(Publications), given \in Nat,
           \A p \in Publications : task'[p] = "taken" <=> task[p] = "taken",
           \A p \in Publications : task[p] = "none" => task'[p] = "none"
    PROVE  OnceInv'
<1>. SUFFICES ASSUME quiet PROVE IsInjective(index) /\ OnceByIdref' /\ OnceByPages'
  BY DEF OnceInv
<1>1. IsInjective(index) /\ OnceByIdref /\ OnceByPages
  BY DEF OnceInv
<1>2. /\ Len(index) \in Nat /\ \A i \in 1..Len(index) : index[i] \in Publications
      /\ \A p \in ToSet(todo) : p \in Publications
  BY LenProperties, ElementOfSeq DEF ToSet
<1>3. FailedQueries' = FailedQueries
  BY DEF FailedQueries
<1>4. OnceByIdref'
  BY <1>1, <1>2, <1>3 DEF OnceByIdref
<1>5. \A i \in (given + 1)..Len(index) : i \in 1..Len(index)
  BY <1>2
<1>6. OnceByPages'
  BY <1>1, <1>2, <1>5 DEF OnceByPages, HalFromTheStart
<1>. QED
  BY <1>1, <1>4, <1>6

LEMMA HarvestKeepsOnce ==
    ASSUME FoundInv, OnceInv, Take \/ EndConversion \/ EndRun
    PROVE  OnceInv'
<1>1. UNCHANGED <<source, kind, index, fetch, quiet, unheard, page, given, todo, last, task>>
  BY DEF Take, EndConversion, EndRun, fetching, content, history, paging, secondary
<1>. QED
  BY <1>1, HarvestKeepsTimes, OnceStays DEF FoundInv, Shapes

LEMMA TaskKeepsOnce ==
    ASSUME LoadInv, FoundInv, OnceInv, NEW p \in Publications, TaskGoesOn(p)
    PROVE  OnceInv'
<1>1. UNCHANGED <<content, index, fetch, hand, history, paging, todo, last, harvest>>
  BY DEF TaskGoesOn, RunTask, StartTask, StartTaskBadly, Answered, NotAnswered, Write, WriteFails
<1>2. \E r \in {"asking", "writing"} \cup Results : task' = [task EXCEPT ![p] = r]
  BY DEF TaskGoesOn, RunTask, StartTask, StartTaskBadly, Answered, NotAnswered, Write,
         WriteFails, TaskEnds, Results
<1>3. task[p] \in {"new", "asking", "writing"}
  BY DEF TaskGoesOn, RunTask, StartTask, StartTaskBadly, Answered, NotAnswered, Write, WriteFails
<1>4. \A q \in Publications : (task'[q] = "taken" <=> task[q] = "taken")
                              /\ (task[q] = "none" => task'[q] = "none")
  BY <1>2, <1>3 DEF LoadInv, Results
<1>5. \A q \in Publications : Times(q)' = Times(q)
  BY <1>1 DEF Times, InHand, Pub, harvest
<1>. QED
  BY <1>1, <1>4, <1>5, OnceStays DEF FoundInv, Shapes, content, history, paging

-----------------------------------------------------------------------------
(* The pages give each once                                                *)

\* The page continues those given, whatever the client.
LEMMA PageContinues ==
    ASSUME FoundInv, OnceInv, quiet, source # "idref", fetch = "giving"
    PROVE  /\ given + Len(page) <= Len(index)
           /\ \A j \in 1..Len(page) : page[j] = index[given + j]
<1>1. CASE source = "hal"
  BY <1>1 DEF OnceInv, OnceByPages, HalFromTheStart, Failures
<1>2. CASE ByPages
  BY <1>2 DEF FoundInv, OwedByPages, Continued, Failures
<1>. QED
  BY <1>1, <1>2 DEF FoundInv, Shapes, Paged, ByPages

\* The next document was not given before, and is not given again.
LEMMA GiveKeepsOnce ==
    ASSUME LoadInv, FoundInv, OnceInv, quiet, source # "idref", PagesGoOn, Give
    PROVE  OnceByPages'
<1>. DEFINE p == Head(page)
<1>1. /\ UNCHANGED <<source, index, handed, at>> /\ fetch = "giving" /\ hand = <<>> /\ page # <<>>
      /\ page' = Tail(page) /\ given' = given + 1
      /\ fetch' \in {"giving", "other"}
      /\ hand' \in {<<>>, <<[pub |-> p, stale |-> FALSE]>>}
  BY DEF Give, PagesGoOn, content, harvest, Yield
<1>2. /\ p = page[1] /\ Len(page) \in Nat \ {0} /\ Len(page') = Len(page) - 1
      /\ \A j \in 1..Len(page') : page'[j] = page[j + 1]
  BY <1>1, NextAndRest DEF FoundInv, Shapes
<1>3. /\ given + Len(page) <= Len(index) /\ \A j \in 1..Len(page) : page[j] = index[given + j]
      /\ IsInjective(index)
      /\ \A q \in Publications : Times(q) <= 1
      /\ \A i \in (given + 1)..Len(index) : Times(index[i]) = 0
  BY <1>1, PageContinues DEF OnceInv, OnceByPages, Failures
<1>4. /\ given \in Nat /\ Len(index) \in Nat /\ DOMAIN index = 1..Len(index)
      /\ \A i \in 1..Len(index) : index[i] \in Publications
      /\ \A q \in Publications : handed[q] \in Nat
  <2>1. index \in Seq(Publications) /\ given \in Nat /\ handed \in [Publications -> Nat]
    BY DEF FoundInv, Shapes
  <2>. QED
    BY <2>1, LenProperties, ElementOfSeq
<1>5. given + 1 \in 1..Len(index) /\ p = index[given + 1] /\ Times(p) = 0
  <2>1. given + 1 \in (given + 1)..Len(index) /\ given + 1 \in 1..Len(index)
    BY <1>2, <1>3, <1>4
  <2>2. p = index[given + 1]
    BY <1>2, <1>3
  <2>. QED
    BY <1>3, <2>1, <2>2
<1>6. \A q \in Publications : Times(q)' <= Times(q) + (IF q = p THEN 1 ELSE 0) /\ Times(q)' \in Nat
  BY <1>1, <1>4 DEF Times, InHand, Pub
<1>7. \A q \in Publications : Times(q) \in Nat
  BY <1>4 DEF Times
<1>8. \A q \in Publications : Times(q)' <= 1
  BY <1>3, <1>5, <1>6, <1>7
<1>9. \A i \in (given' + 1)..Len(index) : Times(index[i])' = 0
  <2>. SUFFICES ASSUME NEW i \in (given + 2)..Len(index), NEW q \in Publications, q = index[i]
                PROVE  Times(q)' = 0
    BY <1>1, <1>4
  <2>1. i \in (given + 1)..Len(index) /\ i \in 1..Len(index) /\ i # given + 1
    BY <1>4
  <2>2. Times(q) = 0 /\ q # p
    BY <1>3, <1>4, <1>5, <2>1 DEF IsInjective
  <2>. QED
    BY <1>6, <2>2
<1>10. HalFromTheStart'
  <2>. SUFFICES ASSUME source = "hal"
                PROVE  /\ given' + Len(page') <= Len(index)
                       /\ \A j \in 1..Len(page') : page'[j] = index[given' + j]
    BY <1>1 DEF HalFromTheStart
  <2>1. given' + Len(page') = given + Len(page)
    BY <1>1, <1>2, <1>4
  <2>2. ASSUME NEW j \in 1..Len(page') PROVE page'[j] = index[given' + j]
    <3>1. j + 1 \in 1..Len(page) /\ given + (j + 1) = given' + j
      BY <1>1, <1>2, <1>4
    <3>. QED
      BY <1>2, <1>3, <3>1
  <2>. QED
    BY <1>3, <2>1, <2>2
<1>. QED
  BY <1>1, <1>8, <1>9, <1>10 DEF OnceByPages

\* The other steps of a client give nothing; HAL is asked once (Ask, LastGiven).
LEMMA AskKeepsOnce ==
    ASSUME FoundInv, OnceInv, quiet, source # "idref", PagesGoOn,
           LookUp \/ Ask \/ AskFails \/ LastGiven
    PROVE  OnceByPages'
<1>1. /\ UNCHANGED <<source, index, hand, handed, at, given>>
      /\ fetch \in {"looking", "asking", "giving"}
  BY DEF LookUp, Ask, AskFails, LastGiven, PagesGoOn, content, harvest, paging
<1>2. /\ OnceByPages /\ fetch \notin Failures \cup {"ended"}
      /\ index \in Seq(Publications) /\ given \in Nat
  BY <1>1 DEF OnceInv, Failures, FoundInv, Shapes
<1>3. /\ Len(index) \in Nat /\ \A i \in (given + 1)..Len(index) : index[i] \in Publications
  BY <1>2, LenProperties, ElementOfSeq
<1>4. \A p \in Publications : Times(p)' = Times(p)
  BY <1>1 DEF Times, InHand, Pub
<1>5. ASSUME source = "hal", fetch' \notin Failures
      PROVE  HalFromTheStart'
  <2>1. CASE LookUp
    BY <1>1, <1>2, <2>1 DEF LookUp, OnceByPages, HalFromTheStart
  <2>2. CASE Ask
    <3>1. /\ fetch = "asking" /\ fetch' = "giving" /\ page' = HalPage
      BY <1>5, <2>2 DEF Ask, Page
    <3>2. given = 0 /\ Len(index) \in Nat
      BY <1>2, <1>3, <1>5, <3>1 DEF OnceByPages, HalFromTheStart
    <3>3. /\ Len(page') = IF 0 >= Len(index) THEN 0
                          ELSE IF 0 + HalRows < Len(index) THEN HalRows ELSE Len(index) - 0
          /\ \A j \in 1..Len(page') : page'[j] = index[0 + j]
      BY <1>2, <3>1, RowsOfTheList, PagingAssumption DEF HalPage
    <3>4. given' + Len(page') <= Len(index')
      BY <1>1, <3>2, <3>3, PagingAssumption
    <3>. QED
      BY <1>1, <3>1, <3>2, <3>3, <3>4 DEF HalFromTheStart
  <2>3. CASE AskFails
    <3>1. fetch' \in Failures
      BY <1>5, <2>3 DEF AskFails, FetchFails, PagingFailures
    <3>. QED
      BY <1>5, <3>1
  <2>4. CASE LastGiven
    <3>1. fetch' = "ended" /\ page' = page
      BY <1>5, <2>4 DEF LastGiven, More, HalMore, paging
    <3>. QED
      BY <1>1, <1>2, <1>5, <3>1 DEF OnceByPages, HalFromTheStart
  <2>. QED
    BY <2>1, <2>2, <2>3, <2>4
<1>6. fetch' \notin Failures => HalFromTheStart'
  BY <1>1, <1>5 DEF HalFromTheStart
<1>. QED
  BY <1>1, <1>2, <1>3, <1>4, <1>6 DEF OnceByPages

LEMMA PagesKeepOnce ==
    ASSUME LoadInv, FoundInv, OnceInv, PagesGoOn
    PROVE  OnceInv'
<1>1. UNCHANGED <<source, index, quiet>> /\ fetch \in {"looking", "asking", "giving"}
  BY DEF PagesGoOn, FetchPages, LookUp, Ask, AskFails, Give, LastGiven, content, history
<1>2. source # "idref"
  BY <1>1 DEF FoundInv, Shapes, Over, Failures
<1>3. quiet => OnceByPages'
  BY <1>2, GiveKeepsOnce, AskKeepsOnce DEF PagesGoOn, FetchPages
<1>. QED
  BY <1>1, <1>2, <1>3 DEF OnceInv, OnceByIdref

-----------------------------------------------------------------------------
(* The tasks give each once                                                *)

\* The tail of a list without repetitions has none, and not its head.
LEMMA RestIsOther ==
    ASSUME NEW S, NEW s \in Seq(S), s # <<>>, IsInjective(s)
    PROVE  IsInjective(Tail(s)) /\ Head(s) \notin ToSet(Tail(s))
<1>1. /\ Head(s) = s[1] /\ Len(s) \in Nat \ {0} /\ Len(Tail(s)) = Len(s) - 1
      /\ \A j \in 1..Len(Tail(s)) : Tail(s)[j] = s[j + 1]
      /\ DOMAIN s = 1..Len(s) /\ Tail(s) \in Seq(S)
  BY NextAndRest, LenProperties
<1>2. DOMAIN Tail(s) = 1..Len(Tail(s))
  BY <1>1, LenProperties
<1>3. \A i, j \in 1..Len(s) : s[i] = s[j] => i = j
  BY <1>1 DEF IsInjective
<1>4. \A j \in 1..Len(Tail(s)) : j + 1 \in 1..Len(s) /\ j + 1 # 1
  BY <1>1
<1>5. IsInjective(Tail(s))
  <2>. SUFFICES ASSUME NEW i \in 1..Len(Tail(s)), NEW j \in 1..Len(Tail(s)), Tail(s)[i] = Tail(s)[j]
                PROVE  i = j
    BY <1>2 DEF IsInjective
  <2>1. i + 1 = j + 1
    BY <1>1, <1>3, <1>4
  <2>. QED
    BY <2>1
<1>6. Head(s) \notin ToSet(Tail(s))
  <2>. SUFFICES ASSUME NEW j \in 1..Len(Tail(s)), Head(s) = Tail(s)[j] PROVE FALSE
    BY <1>2 DEF ToSet
  <2>1. s[1] = s[j + 1] /\ 1 \in 1..Len(s)
    BY <1>1
  <2>. QED
    BY <1>3, <1>4, <2>1
<1>. QED
  BY <1>5, <1>6

\* Failed queries are counted.
LEMMA QueriesFailed ==
    ASSUME KindInv
    PROVE  IsFiniteSet(FailedQueries) /\ Cardinality(FailedQueries) \in Nat
<1>1. FailedQueries \subseteq Publications
  BY DEF KindInv, FailedQueries
<1>. QED
  BY <1>1, SecondaryAssumption, FS_Subset, FS_CardinalityType

\* Before its results, the fetch of IdRef gives nothing.
LEMMA ListKeepsOnce ==
    ASSUME LoadInv, FoundInv, OnceInv, quiet, source = "idref", SecondaryGoesOn,
           List \/ ListFails \/ EndOfList \/ WaitForAll \/ WaitForSome \/ Dispatch
    PROVE  OnceByIdref'
<1>1. UNCHANGED <<source, kind, index, hand, handed, at>> /\ last' \in {last, None}
  BY DEF List, ListFails, EndOfList, WaitForAll, WaitForSome, Dispatch, SecondaryGoesOn, content,
         harvest, secondary
<1>2. /\ OnceByIdref /\ IsInjective(index)
      /\ index \in Seq(Publications) /\ todo \in Seq(Publications)
  BY DEF OnceInv, FoundInv, Shapes
<1>3. \A p \in Publications : Times(p)' = Times(p)
  BY <1>1 DEF Times, InHand, Pub
<1>4. CASE List
  <2>1. UNCHANGED <<task, last>> /\ fetch = "listing" /\ fetch' = "dispatching" /\ todo' \in Answer
    BY <1>4 DEF List
  <2>2. /\ IsInjective(todo') /\ todo' \in Seq(Publications)
        /\ \A p \in ToSet(todo') : p \in Publications
    <3>1. IsInjective(todo') /\ todo' \in Seq(Publications)
      BY <1>2, <2>1, AnswerIsAList
    <3>. QED
      BY <3>1, LenProperties, ElementOfSeq DEF ToSet
  <2>3. \A p \in Publications : task'[p] = "none" /\ task[p] = "none"
    BY <1>2, <2>1 DEF OnceByIdref
  <2>4. FailedQueries' = FailedQueries
    BY <2>3 DEF FailedQueries
  <2>. QED
    BY <1>1, <1>2, <1>3, <2>1, <2>2, <2>3, <2>4 DEF OnceByIdref
<1>5. CASE ListFails \/ EndOfList \/ WaitForAll \/ WaitForSome
  <2>1. UNCHANGED <<task, todo, unheard>> /\ fetch' # "listing"
    BY <1>5 DEF ListFails, FetchFails, EndOfList, WaitForAll, WaitForSome, history, secondary
  <2>2. FailedQueries' = FailedQueries
    BY <1>1, <2>1 DEF FailedQueries
  <2>. QED
    BY <1>1, <1>2, <1>3, <2>1, <2>2 DEF OnceByIdref
<1>6. CASE Dispatch
  <2>. DEFINE p == Head(todo)
  <2>1. /\ todo # <<>> /\ todo' = Tail(todo) /\ fetch' # "listing" /\ UNCHANGED <<last, unheard>>
        /\ UNCHANGED task \/ task' = [task EXCEPT ![p] = "new"]
    BY <1>6 DEF Dispatch, history
  <2>2. IsInjective(todo') /\ p \notin ToSet(todo') /\ ToSet(todo) = {p} \cup ToSet(todo')
        /\ p \in Publications
    BY <1>2, <2>1, RestIsOther, NextAndRest DEF OnceByIdref
  <2>3. task[p] = "none" /\ \A q \in ToSet(todo') : task'[q] = "none"
    <3>1. \A q \in ToSet(todo) : task[q] = "none" /\ q \in Publications
      BY <1>2, LenProperties, ElementOfSeq DEF OnceByIdref, ToSet
    <3>. QED
      BY <2>1, <2>2, <3>1 DEF LoadInv
  <2>4. \A q \in Publications : task'[q] # "taken" => task[q] # "taken"
    BY <2>1, <2>2, <2>3 DEF LoadInv
  <2>5. last' # None => task'[last'.pub] = "taken"
    <3>1. last # None => last.pub \in Publications /\ task[last.pub] = "taken"
      BY <1>2 DEF OnceByIdref, FoundInv, Shapes
    <3>. QED
      BY <2>1, <2>3, <3>1 DEF LoadInv
  <2>6. FailedQueries' = FailedQueries
    BY <1>1, <2>1, <2>2, <2>3 DEF FailedQueries, LoadInv
  <2>. QED
    BY <1>1, <1>2, <1>3, <2>1, <2>2, <2>3, <2>4, <2>5, <2>6 DEF OnceByIdref
<1>. QED
  BY <1>4, <1>5, <1>6

(* A result is given when its task ends; when a query failed, which is one *)
(* more, the result before it may be given again (fetch_results).          *)
LEMMA ResultKeepsOnce ==
    ASSUME LoadInv, FoundInv, KindInv, KindInv', OnceInv, quiet, source = "idref",
           SecondaryGoesOn, NEW p \in Publications, TakeResult(p)
    PROVE  OnceByIdref'
<1>1. /\ UNCHANGED <<source, kind, handed, at, todo>> /\ hand = <<>>
      /\ fetch' # "listing" /\ task[p] \in Results /\ task' = [task EXCEPT ![p] = "taken"]
  <2>1. /\ UNCHANGED <<source, kind, handed, at, todo>> /\ hand = <<>> /\ fetch # "listing"
        /\ task[p] \in Results /\ task' = [task EXCEPT ![p] = "taken"]
    BY DEF TakeResult, SecondaryGoesOn, content, harvest, LoadInv
  <2>2. fetch' \in {fetch, "other"}
    BY <2>1 DEF TakeResult, Results
  <2>. QED
    BY <2>1, <2>2
<1>2. /\ OnceByIdref /\ todo \in Seq(Publications)
      /\ task \in [Publications -> TaskStates] /\ handed \in [Publications -> Nat]
      /\ last # None => last.pub \in Publications /\ task[last.pub] = "taken"
  BY DEF OnceInv, OnceByIdref, LoadInv, FoundInv, Shapes
<1>3. \A q \in Publications : Times(q) = handed[q] /\ handed[q] \in Nat
  BY <1>1, <1>2 DEF Times, InHand
<1>4. /\ task[p] \notin {"none", "taken"} /\ handed[p] = 0
  BY <1>1, <1>2, <1>3 DEF OnceByIdref, Results
<1>5. \A q \in ToSet(todo) : task'[q] = "none"
  <2>1. \A q \in ToSet(todo) : task[q] = "none" /\ q \in Publications
    BY <1>2, LenProperties, ElementOfSeq DEF OnceByIdref, ToSet
  <2>. QED
    BY <1>1, <1>2, <1>4, <2>1
<1>6. /\ IsFiniteSet(FailedQueries) /\ Cardinality(FailedQueries) \in Nat
      /\ IsFiniteSet(FailedQueries') /\ Cardinality(FailedQueries)' \in Nat
  <2>1. (IsFiniteSet(FailedQueries) /\ Cardinality(FailedQueries) \in Nat)'
    <3>1. FailedQueries' \subseteq Publications
      BY DEF KindInv, FailedQueries
    <3>. QED
      BY <3>1, SecondaryAssumption, FS_Subset, FS_CardinalityType
  <2>. QED
    BY <2>1, QueriesFailed
<1>7. CASE task[p] \in {"fresh", "stale"}
  <2>1. /\ hand' = <<[pub |-> p, stale |-> task[p] = "stale"]>>
        /\ last' = [pub |-> p, stale |-> task[p] = "stale"] /\ UNCHANGED unheard
    BY <1>7 DEF TakeResult, Yield
  <2>2. InHand' = {p} /\ FailedQueries \subseteq FailedQueries'
    BY <1>1, <1>2, <2>1 DEF InHand, Pub, FailedQueries
  <2>3. ASSUME NEW q \in Publications
        PROVE  /\ task'[q] # "taken" => Times(q)' = 0
               /\ Times(q)' <= 1 + Cardinality(FailedQueries)'
    <3>1. CASE q = p
      <4>1. task'[q] = "taken" /\ Times(q)' <= 1
        BY <1>1, <1>2, <1>4, <2>2, <3>1 DEF Times
      <4>2. Times(q)' \in Nat
        BY <1>1, <1>3 DEF Times
      <4>. QED
        BY <1>6, <4>1, <4>2
    <3>2. CASE q # p
      <4>1. Times(q)' = Times(q) /\ task'[q] = task[q] /\ Times(q) \in Nat
        BY <1>1, <1>2, <1>3, <2>2, <3>2 DEF Times
      <4>2. Cardinality(FailedQueries) <= Cardinality(FailedQueries)'
        BY <1>6, <2>2, FS_Subset
      <4>3. Times(q) <= 1 + Cardinality(FailedQueries)
        BY <1>2 DEF OnceByIdref
      <4>4. task'[q] # "taken" => Times(q)' = 0
        BY <1>2, <4>1 DEF OnceByIdref
      <4>. QED
        BY <1>6, <4>1, <4>2, <4>3, <4>4
    <3>. QED
      BY <3>1, <3>2
  <2>4. last' # None => task'[last'.pub] = "taken"
    BY <1>1, <1>2, <2>1
  <2>. QED
    BY <1>1, <1>2, <1>5, <2>3, <2>4 DEF OnceByIdref
<1>8. CASE task[p] \in {"nothing", "other"}
  <2>1. /\ hand' = <<>> /\ last' \in {last, None} /\ unheard' \in {unheard, unheard \cup {p}}
    BY <1>1, <1>8 DEF TakeResult
  <2>2. FailedQueries' = FailedQueries \/ FailedQueries' = FailedQueries \cup {p}
    BY <1>1, <2>1 DEF FailedQueries
  <2>3. Cardinality(FailedQueries) <= Cardinality(FailedQueries)'
    BY <1>6, <2>2, FS_AddElement
  <2>4. ASSUME NEW q \in Publications
        PROVE  /\ task'[q] # "taken" => Times(q)' = 0
               /\ Times(q)' <= 1 + Cardinality(FailedQueries)'
    <3>1. Times(q)' = Times(q) /\ Times(q) \in Nat
      BY <1>1, <1>3, <2>1 DEF Times, InHand
    <3>2. Times(q) <= 1 + Cardinality(FailedQueries)
      BY <1>2 DEF OnceByIdref
    <3>3. task'[q] # "taken" => Times(q)' = 0
      BY <1>1, <1>2, <2>1, <3>1 DEF OnceByIdref
    <3>. QED
      BY <1>6, <2>3, <3>1, <3>2, <3>3
  <2>5. last' # None => task'[last'.pub] = "taken"
    BY <1>1, <1>2, <2>1
  <2>. QED
    BY <1>1, <1>2, <1>5, <2>4, <2>5 DEF OnceByIdref
<1>9. CASE task[p] \in {"external", "format"}
  <2>1. /\ hand' = <<>> \/ (last # None /\ hand' = <<last>>)
        /\ last' = last /\ unheard' = unheard \cup {p}
    BY <1>9 DEF TakeResult
  <2>2. FailedQueries' = FailedQueries \cup {p} /\ p \notin FailedQueries
    <3>1. kind[p] # "HAL_JSON"
      BY <1>9 DEF KindInv
    <3>. QED
      BY <1>1, <1>2, <1>4, <2>1, <3>1 DEF FailedQueries
  <2>3. Cardinality(FailedQueries)' = Cardinality(FailedQueries) + 1
    BY <1>6, <2>2, FS_AddElement
  <2>4. ASSUME NEW q \in Publications
        PROVE  /\ task'[q] # "taken" => Times(q)' = 0
               /\ Times(q)' <= 1 + Cardinality(FailedQueries)'
    <3>1. /\ Times(q)' <= Times(q) + 1 /\ Times(q) \in Nat /\ Times(q)' \in Nat
          /\ Times(q)' = Times(q) \/ (q = last.pub /\ last # None)
      BY <1>1, <1>3, <2>1 DEF Times, InHand, Pub
    <3>2. Times(q) <= 1 + Cardinality(FailedQueries)
      BY <1>2 DEF OnceByIdref
    <3>3. task'[q] # "taken" => task[q] # "taken" /\ q # p
      BY <1>1, <1>2
    <3>4. task'[q] # "taken" => Times(q)' = 0
      BY <1>2, <2>1, <3>1, <3>3 DEF OnceByIdref
    <3>. QED
      BY <1>6, <2>3, <3>1, <3>2, <3>4
  <2>5. last' # None => task'[last'.pub] = "taken"
    BY <1>1, <1>2, <2>1
  <2>. QED
    BY <1>1, <1>2, <1>5, <2>4, <2>5 DEF OnceByIdref
<1>. QED
  BY <1>1, <1>7, <1>8, <1>9 DEF Results

LEMMA SecondaryKeepsOnce ==
    ASSUME LoadInv, FoundInv, KindInv, KindInv', OnceInv, SecondaryGoesOn
    PROVE  OnceInv'
<1>1. UNCHANGED <<source, index, quiet>> /\ fetch \in {"listing", "dispatching", "batch", "draining"}
  BY DEF SecondaryGoesOn, FetchSecondary, List, ListFails, Dispatch, EndOfList, WaitForAll,
         WaitForSome, TakeResult, content, history
<1>2. source = "idref"
  BY <1>1 DEF FoundInv, Shapes, Over, Failures
<1>3. quiet => OnceByIdref'
  BY <1>2, ListKeepsOnce, ResultKeepsOnce DEF SecondaryGoesOn, FetchSecondary
<1>. QED
  BY <1>1, <1>2, <1>3 DEF OnceInv, OnceByPages

LEMMA InitOnce == Init => KindInv /\ OnceInv
<1>. SUFFICES ASSUME Init PROVE KindInv /\ OnceInv
  OBVIOUS
<1>1. PICK s \in Starts :
         /\ Begin(s, FirstFetch(s)) /\ BeginPaging(s) /\ BeginSecondary(s)
         /\ handed = [p \in Publications |-> 0]
  BY DEF Init
<1>2. /\ source = s.source /\ kind = s.kind /\ index = s.index /\ hand = <<>> /\ page = <<>>
      /\ todo = <<>> /\ given = 0 /\ unheard = {} /\ last = None
      /\ task = [p \in Publications |-> "none"]
  BY <1>1 DEF Begin, BeginPaging, BeginSecondary
<1>3. /\ index \in Seq(Publications) /\ IsInjective(index)
      /\ \A p \in Publications :
            /\ kind[p] \in Formatters \cup {"unknown", "HAL_JSON"}
            /\ source \in Paged => kind[p] \in Formatters
  BY <1>2, StartsAssumption
<1>4. KindInv
  BY <1>2, <1>3 DEF KindInv, InHand
<1>5. /\ Len(index) \in Nat /\ Len(page) = 0
      /\ \A i \in (given + 1)..Len(index) : index[i] \in Publications
  BY <1>2, <1>3, LenProperties, ElementOfSeq, EmptySeq
<1>6. \A p \in Publications : Times(p) = 0
  BY <1>1, <1>2 DEF Times, InHand
<1>7. OnceByIdref
  <2>1. IsInjective(todo) /\ ToSet(todo) = {}
    BY <1>2 DEF IsInjective, ToSet
  <2>2. Cardinality(FailedQueries) \in Nat
    BY <1>4, QueriesFailed
  <2>. QED
    BY <1>2, <1>6, <2>1, <2>2 DEF OnceByIdref
<1>8. OnceByPages
  BY <1>2, <1>5, <1>6 DEF OnceByPages, HalFromTheStart
<1>. QED
  BY <1>3, <1>4, <1>7, <1>8 DEF OnceInv

\* The inductive invariant of the results, step by step.
GivenInv == LoadInv /\ FoundInv /\ KindInv /\ OnceInv

LEMMA GivenStep == GivenInv /\ [Next]_vars => GivenInv'
<1>. SUFFICES ASSUME GivenInv, [Next]_vars PROVE OnceInv'
  BY LoadStep, FoundStep, KindStep DEF GivenInv
<1>. USE DEF GivenInv
<1>1. CASE PagesGoOn
  BY <1>1, PagesKeepOnce
<1>2. CASE SecondaryGoesOn
  BY <1>2, SecondaryKeepsOnce, KindStep
<1>3. CASE Take \/ EndConversion \/ EndRun
  BY <1>3, HarvestKeepsOnce
<1>4. CASE \E p \in Publications : TaskGoesOn(p)
  BY <1>4, TaskKeepsOnce
<1>5. CASE SourceChanges
  BY <1>5 DEF SourceChanges, Meanwhile, Withdraw, Publish, Reorder, Disturbed, OnceInv
<1>6. CASE UNCHANGED vars
  <2>1. \A p \in Publications : Times(p)' = Times(p)
    BY <1>6 DEF vars, harvest, Times, InHand, Pub
  <2>. QED
    BY <1>6, <2>1, OnceStays DEF vars, paging, secondary, FoundInv, Shapes
<1>. QED
  BY <1>1, <1>2, <1>3, <1>4, <1>5, <1>6 DEF Next

(* A list that did not change is read to its end, and each publication of  *)
(* it taken, but those that could not be got; none twice, but for failed   *)
(* queries of IdRef, after which a result is given again (fetch_results).  *)
THEOREM EachTakenOnce == Spec => []EachOnce
<1>1. Init => GivenInv
  BY InitLoad, InitFound, InitOnce DEF GivenInv
<1>2. GivenInv => EachOnce
  <2>. SUFFICES ASSUME GivenInv, fetch = "ended", hand = <<>>, quiet
                PROVE  /\ \A p \in Listed \ unheard : handed[p] > 0
                       /\ \A p \in Repeats : handed[p] - 1 <= Cardinality(FailedQueries)
    BY DEF EachOnce
  <2>1. handed \in [Publications -> Nat] /\ Listed \cap absent = {} /\ Listed \subseteq Publications
    <3>1. index \in Seq(Publications)
      BY DEF GivenInv, FoundInv, Shapes
    <3>2. Listed \subseteq Publications
      BY <3>1, LenProperties, ElementOfSeq DEF Listed, ToSet
    <3>. QED
      BY <3>2 DEF GivenInv, FoundInv, Shapes
  <2>2. Owed = {}
    BY NothingOwed DEF GivenInv
  <2>3. \A p \in Listed \ unheard : p \notin Untaken
    BY <2>1, <2>2 DEF Owed, InHand
  <2>4. \A p \in Listed \ unheard : handed[p] > 0
    BY <2>1, <2>3 DEF Untaken
  <2>5. ASSUME NEW p \in Repeats
        PROVE  handed[p] - 1 <= Cardinality(FailedQueries)
    <3>1. p \in Publications /\ handed[p] > 1 /\ Times(p) = handed[p] /\ handed[p] \in Nat
      BY <2>1 DEF Repeats, Times, InHand
    <3>2. CASE source = "idref"
      BY <3>1, <3>2, QueriesFailed DEF GivenInv, OnceInv, OnceByIdref
    <3>3. CASE source # "idref"
      BY <3>1, <3>3 DEF GivenInv, OnceInv, OnceByPages, Failures
    <3>. QED
      BY <3>2, <3>3
  <2>. QED
    BY <2>4, <2>5
<1>3. GivenInv /\ [Next]_vars => GivenInv'
  BY GivenStep
<1>. QED
  BY <1>1, <1>2, <1>3, PTL DEF Spec

-----------------------------------------------------------------------------
(* What is stored agrees with the source                                   *)

\* Payloads of one hash agree on what is hashed, but for ScanR (HashService.hash).
LEMMA DigestsAgree ==
    ASSUME NEW f \in Formatters, f # "SCANR", NEW S, NEW T, Digest(f, S) = Digest(f, T)
    PROVE  S \cap HashKeys(f) \subseteq T /\ T \cap HashKeys(f) \subseteq S
<1>1. HashKeys(f) \subseteq TopLevel(f)
  BY DEF TopLevel
<1>2. S \cap HashKeys(f) = T \cap HashKeys(f)
  <2>1. CASE f \in {"HAL", "OPEN_ALEX", "IDREF_SPARQL"}
    BY <1>1, <2>1 DEF Digest, JsonDigest
  <2>2. CASE f \in {"SCOPUS", "OPEN_EDITION"}
    BY <2>2 DEF Digest, XmlDigest
  <2>3. CASE f \in {"SUDOC_RDF", "SCIENCE_PLUS_RDF", "PERSEE_RDF"}
    BY <2>3 DEF Digest, RdfDigest
  <2>. QED
    BY <2>1, <2>2, <2>3 DEF Formatters
<1>. QED
  BY <1>2

\* What is not converted has the hash of the stored reference, or is outdated.
LEMMA TakeKeepsStored ==
    ASSUME FoundInv, KindInv, StoredInv, Take
    PROVE  StoredInv'
<1>1. /\ UNCHANGED <<kind, changed, run, known, refused>>
      /\ run = "running" /\ hand # <<>> /\ at = "taking"
      /\ handed' = [handed EXCEPT ![Pub] = @ + 1]
      /\ outdated' = IF hand[1].stale THEN outdated \cup {Pub} ELSE outdated
      /\ \/ at' = "converting" /\ hand' = hand
         \/ /\ hand' = <<>> /\ at' = "taking" /\ known[Pub] # None
            /\ Digest(kind[Pub], Payload) = Digest(kind[Pub], known[Pub])
  BY DEF Take, fetching, content
<1>2. Pub \in Publications /\ kind[Pub] \in Formatters /\ handed \in [Publications -> Nat]
  BY <1>1 DEF FoundInv, Shapes, KindInv, InHand
<1>3. Untaken' = Untaken \ {Pub} /\ InHand = {Pub} /\ outdated \subseteq outdated'
  BY <1>1, <1>2 DEF Untaken, InHand
<1>4. ASSUME NEW p \in Publications \ (Untaken \cup InHand \cup outdated \cup refused)'
      PROVE  Agrees(p)'
  <2>1. CASE p # Pub
    <3>1. p \in Publications \ (Untaken \cup InHand \cup outdated \cup refused)
      BY <1>1, <1>3, <1>4, <2>1
    <3>2. Agrees(p)
      BY <1>1, <3>1 DEF StoredInv
    <3>. QED
      BY <1>1, <3>2 DEF Agrees
  <2>2. CASE p = Pub
    <3>1. hand' # hand
      BY <1>1, <1>4, <2>2 DEF InHand, Pub
    <3>2. /\ known[p] # None /\ Payload = changed[p]
          /\ Digest(kind[p], Payload) = Digest(kind[p], known[p])
      BY <1>1, <1>4, <2>2, <3>1 DEF Payload
    <3>3. kind[p] # "SCANR" => /\ changed[p] \cap HashKeys(kind[p]) \subseteq known[p]
                               /\ known[p] \cap HashKeys(kind[p]) \subseteq changed[p]
      BY <1>2, <2>2, <3>2, DigestsAgree
    <3>. QED
      BY <1>1, <3>2, <3>3 DEF Agrees
  <2>. QED
    BY <2>1, <2>2
<1>5. at' = "converting" /\ hand'[1].stale => Pub' \in outdated'
  BY <1>1 DEF Pub
<1>. QED
  BY <1>1, <1>4, <1>5 DEF StoredInv

\* What is converted is stored as the payload says, or refused.
LEMMA ConversionKeepsStored ==
    ASSUME FoundInv, StoredInv, EndConversion
    PROVE  StoredInv'
<1>1. /\ UNCHANGED <<kind, changed, handed, outdated>>
      /\ run = "running" /\ at = "converting" /\ hand' = <<>> /\ at' = "taking"
      /\ \/ run' = run /\ known' = [known EXCEPT ![Pub] = Payload] /\ refused' = refused
         \/ run' = run /\ refused' = refused \cup {Pub} /\ known' = known
         \/ run' = "failed"
  BY DEF EndConversion, content
<1>2. /\ hand # <<>> /\ Pub \in Publications /\ DOMAIN known = Publications
      /\ \A p \in Publications : changed[p] # None
  BY <1>1 DEF FoundInv, Shapes, Met, InHand
<1>3. Untaken' = Untaken /\ InHand = {Pub} /\ InHand' = {}
  BY <1>1, <1>2 DEF Untaken, InHand
<1>4. ASSUME run' # "failed",
             NEW p \in Publications \ (Untaken \cup InHand \cup outdated \cup refused)'
      PROVE  Agrees(p)'
  <2>1. CASE p # Pub
    <3>1. p \in Publications \ (Untaken \cup InHand \cup outdated \cup refused)
      BY <1>1, <1>3, <1>4, <2>1
    <3>2. Agrees(p) /\ known'[p] = known[p]
      BY <1>1, <1>2, <1>4, <2>1, <3>1 DEF StoredInv
    <3>. QED
      BY <1>1, <3>2 DEF Agrees
  <2>2. CASE p = Pub
    <3>1. known'[p] = Payload
      BY <1>1, <1>2, <1>4, <2>2
    <3>2. ~hand[1].stale
      BY <1>1, <1>4, <2>2 DEF StoredInv
    <3>3. known'[p] = changed[p]
      BY <2>2, <3>1, <3>2 DEF Payload
    <3>. QED
      BY <1>1, <1>2, <2>2, <3>3 DEF Agrees
  <2>. QED
    BY <2>1, <2>2
<1>. QED
  BY <1>1, <1>4 DEF StoredInv

\* A harvesting completes at the end of its results only.
LEMMA EndKeepsStored ==
    ASSUME StoredInv, EndRun
    PROVE  StoredInv'
<1>1. /\ UNCHANGED <<kind, changed, hand, at, known, handed, outdated, refused, fetch>>
      /\ run = "running" /\ hand = <<>>
      /\ run' = "completed" => fetch = "ended"
  BY DEF EndRun, fetching, content
<1>2. Untaken' = Untaken /\ InHand' = InHand /\ Pub' = Pub
  BY <1>1 DEF Untaken, InHand, Pub
<1>3. \A p \in Publications : Agrees(p)' = Agrees(p)
  BY <1>1 DEF Agrees
<1>. QED
  BY <1>1, <1>2, <1>3 DEF StoredInv

\* The other steps store nothing, and give nothing while a result is in hand.
LEMMA FetchKeepsStored ==
    ASSUME LoadInv, StoredInv, UNCHANGED <<kind, changed, harvest>>,
           hand = <<>> \/ hand' = hand, run = "running" \/ UNCHANGED <<hand, fetch>>
    PROVE  StoredInv'
<1>1. UNCHANGED <<run, at, known, handed, outdated, refused>>
  BY DEF harvest
<1>2. Untaken' = Untaken /\ InHand \subseteq InHand'
  BY <1>1 DEF Untaken, InHand, Pub
<1>3. \A p \in Publications : Agrees(p)' = Agrees(p)
  BY <1>1 DEF Agrees
<1>4. at = "converting" => hand' = hand
  BY DEF LoadInv
<1>5. run' # "failed" =>
         \A p \in Publications \ (Untaken \cup InHand \cup outdated \cup refused)' : Agrees(p)'
  BY <1>1, <1>2, <1>3 DEF StoredInv
<1>6. at' = "converting" /\ hand'[1].stale => Pub' \in outdated'
  BY <1>1, <1>4 DEF StoredInv, Pub
<1>7. run' = "completed" => fetch' = "ended" /\ hand' = <<>>
  BY <1>1 DEF StoredInv
<1>. QED
  BY <1>5, <1>6, <1>7 DEF StoredInv

LEMMA StoredStep == GivenInv /\ StoredInv /\ [Next]_vars => StoredInv'
<1>. SUFFICES ASSUME GivenInv, StoredInv, [Next]_vars PROVE StoredInv'
  OBVIOUS
<1>. USE DEF GivenInv
<1>1. CASE Take \/ EndConversion \/ EndRun
  BY <1>1, TakeKeepsStored, ConversionKeepsStored, EndKeepsStored
<1>2. CASE PagesGoOn
  <2>1. UNCHANGED <<kind, changed, harvest>> /\ run = "running" /\ (hand = <<>> \/ hand' = hand)
    BY <1>2 DEF PagesGoOn, FetchPages, LookUp, Ask, AskFails, Give, LastGiven, content
  <2>. QED
    BY <2>1, FetchKeepsStored
<1>3. CASE SecondaryGoesOn
  <2>1. UNCHANGED <<kind, changed, harvest>> /\ run = "running" /\ (hand = <<>> \/ hand' = hand)
    BY <1>3 DEF SecondaryGoesOn, FetchSecondary, List, ListFails, Dispatch, EndOfList, WaitForAll,
                WaitForSome, TakeResult, content
  <2>. QED
    BY <2>1, FetchKeepsStored
<1>4. CASE \E p \in Publications : TaskGoesOn(p)
  <2>1. UNCHANGED <<kind, changed, harvest, hand, fetch>>
    BY <1>4 DEF TaskGoesOn, RunTask, StartTask, StartTaskBadly, Answered, NotAnswered, Write,
                WriteFails, content
  <2>. QED
    BY <2>1, FetchKeepsStored
<1>5. CASE SourceChanges \/ UNCHANGED vars
  <2>1. UNCHANGED <<kind, changed, harvest, hand, fetch>>
    BY <1>5 DEF SourceChanges, Meanwhile, Withdraw, Publish, Reorder, Disturbed, vars, content
  <2>. QED
    BY <2>1, FetchKeepsStored
<1>. QED
  BY <1>1, <1>2, <1>3, <1>4, <1>5 DEF Next

(* When the harvesting of a list that did not change has completed, what   *)
(* is stored of each publication agrees with the source on what is hashed, *)
(* but for what could not be got, came from an outdated cache, or was      *)
(* refused by its converter, and but for ScanR (exists, convert).          *)
THEOREM TheStoredFollowTheSource == Spec => []StoredFollowsSource
<1>1. Init => GivenInv /\ StoredInv
  <2>. SUFFICES ASSUME Init PROVE StoredInv
    BY InitLoad, InitFound, InitOnce DEF GivenInv
  <2>1. run = "running" /\ at = "taking" /\ Untaken = Publications
    BY DEF Init, Untaken
  <2>. QED
    BY <2>1 DEF StoredInv
<1>2. GivenInv /\ StoredInv => StoredFollowsSource
  <2>. SUFFICES ASSUME GivenInv, StoredInv, run = "completed", quiet,
                       NEW p \in Listed \ (unheard \cup outdated \cup refused)
                PROVE  Agrees(p)
    BY DEF StoredFollowsSource, Agrees
  <2>1. fetch = "ended" /\ hand = <<>>
    BY DEF StoredInv
  <2>2. Owed = {}
    BY <2>1, NothingOwed DEF GivenInv
  <2>3. p \in Publications /\ p \notin absent
    <3>1. index \in Seq(Publications) /\ absent \cap Listed = {}
      BY DEF GivenInv, FoundInv, Shapes
    <3>. QED
      BY <3>1, LenProperties, ElementOfSeq DEF Listed, ToSet
  <2>4. p \notin Untaken \cup InHand
    BY <2>1, <2>2, <2>3 DEF Owed, InHand
  <2>. QED
    BY <2>3, <2>4 DEF StoredInv
<1>3. GivenInv /\ StoredInv /\ [Next]_vars => (GivenInv /\ StoredInv)'
  BY GivenStep, StoredStep
<1>. QED
  BY <1>1, <1>2, <1>3, PTL DEF Spec

=============================================================================
