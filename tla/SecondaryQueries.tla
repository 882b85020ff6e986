-------------------------- MODULE SecondaryQueries --------------------------
(***************************************************************************)
(* The harvester of IdRef: one query to its SPARQL endpoint lists the      *)
(* publications, then a task per publication asks the secondary source     *)
(* that describes it, through a cache kept in Redis.                       *)
(*                                                                         *)
(* The tasks run while the list is read and while the harvester converts a *)
(* result.  After a number of SUDOC publications the harvester waits for   *)
(* all the tasks; once the list is read it takes the results as they come. *)
(***************************************************************************)
EXTENDS Sources, FiniteSets

CONSTANTS
    SparqlRows,    \* the publications whose rows fit in the LIMIT of the list (10000 rows)
    MaxSudoc       \* MAX_SUDOC_PARALLELISM (3)

ASSUME SecondaryAssumption ==
    /\ SparqlRows \in Nat \ {0} /\ MaxSudoc \in Nat \ {0}
    /\ IsFiniteSet(Publications)

VARIABLES
    todo,      \* the publications of the list not yet dispatched
    task,      \* the task of each publication
    waiting,   \* num_sudoc_waiting_queries
    done,      \* the tasks that asyncio.wait returned and that are not yet handled
    last,      \* pub, the last result in the loop that takes them as they come
    cache      \* the payload the cache holds for each publication: "old", "new", "none"

secondary == <<todo, task, waiting, done, last, cache>>

\* A task that was created and whose result was not taken.
Pending == {p \in Publications : task[p] \notin {"none", "taken"}}

Unfinished == {p \in Publications : task[p] \in {"new", "asking", "writing"}}

Sudoc == {p \in Publications : kind[p] = "SUDOC_RDF"}

\* The tasks that may be asking SUDOC.
AskingSudoc == Unfinished \cap Sudoc

\* Each has its own cache; what comes from the list itself needs none.
Cached == {"SUDOC_RDF", "SCIENCE_PLUS_RDF", "PERSEE_RDF", "OPEN_EDITION"}

(* The list is a dictionary by uri: each publication once.  The query has  *)
(* a LIMIT and no ORDER BY: when there are more rows, the list holds any   *)
(* of the publications, in any order.                                      *)
Answer ==
    IF Len(index) <= SparqlRows THEN {index}
    ELSE {list \in [1..SparqlRows -> Listed] : IsInjective(list)}

List ==
    /\ fetch = "listing"
    /\ fetch' = "dispatching"
    /\ todo' \in Answer
    /\ unheard' = unheard \cup (Listed \ ToSet(todo'))
    /\ UNCHANGED <<content, index, hand, trouble, quiet, absent,
                   task, waiting, done, last, cache>>

\* Every exception is turned into an ExternalEndpointFailure.
ListFails ==
    /\ fetch = "listing"
    /\ FetchFails({"external"})
    /\ UNCHANGED <<content, index, hand, history, secondary>>

\* Slip: one more than that.
EnoughLate(w) == w > MaxSudoc

\* With that many publications of SUDOC the harvester waits for all the tasks.
Enough(w) == w >= MaxSudoc

(* A task for the next publication.  The uri of a source that is not known *)
(* makes the client fail, and the tasks that run are left to themselves.   *)
Dispatch ==
    /\ fetch = "dispatching" /\ todo # <<>>
    /\ todo' = Tail(todo)
    /\ LET p == Head(todo)
           w == waiting + (IF p \in Sudoc THEN 1 ELSE 0)
       IN  IF kind[p] = "unknown"
           THEN fetch' = "external" /\ UNCHANGED <<task, waiting>>
           ELSE /\ task' = [task EXCEPT ![p] = "new"]
                /\ waiting' = IF Enough(w) THEN 0 ELSE w
                /\ fetch' = IF Enough(w) THEN "batch" ELSE fetch
    /\ UNCHANGED <<content, index, hand, trouble, history, done, last, cache>>

EndOfList ==
    /\ fetch = "dispatching" /\ todo = <<>>
    /\ fetch' = "draining"
    /\ UNCHANGED <<content, index, hand, trouble, history, secondary>>

-----------------------------------------------------------------------------
(* The tasks                                                               *)

TaskEnds(p, result) == task' = [task EXCEPT ![p] = result]

(* The coroutine up to its first answer.  What IdRef itself describes      *)
(* needs no request, HAL is asked nothing and gives nothing; the others    *)
(* look in the cache.  The cache of Persee is written by another key than  *)
(* it is read by.                                                          *)
StartTask(p) ==
    /\ task[p] = "new"
    /\ CASE kind[p] = "IDREF_SPARQL" -> TaskEnds(p, "fresh")
         [] kind[p] = "HAL_JSON" -> TaskEnds(p, "nothing")
         [] kind[p] = "PERSEE_RDF" -> TaskEnds(p, "asking")
         [] OTHER ->
              IF cache[p] = "none" THEN TaskEnds(p, "asking")
              ELSE TaskEnds(p, IF cache[p] = "old" THEN "stale" ELSE "fresh")
    /\ UNCHANGED <<content, index, fetch, hand, trouble, history, todo, waiting, done, last, cache>>

(* A uri the coroutine refuses, with an exception or with an assertion; or *)
(* Redis cannot be read, which is no failure: the source is asked.         *)
StartTaskBadly(p) ==
    /\ task[p] = "new" /\ kind[p] \in Cached /\ trouble < MaxTrouble
    /\ \E result \in {"format", "other", "asking"} : TaskEnds(p, result)
    /\ trouble' = trouble + 1
    /\ UNCHANGED <<content, index, fetch, hand, history, todo, waiting, done, last, cache>>

Answered(p) ==
    /\ task[p] = "asking"
    /\ TaskEnds(p, "writing")
    /\ UNCHANGED <<content, index, fetch, hand, trouble, history, todo, waiting, done, last, cache>>

\* No answer is an ExternalEndpointFailure, whatever the reason; or it cannot be parsed.
NotAnswered(p) ==
    /\ task[p] = "asking" /\ trouble < MaxTrouble
    /\ \E result \in {"external", "format"} : TaskEnds(p, result)
    /\ trouble' = trouble + 1
    /\ UNCHANGED <<content, index, fetch, hand, history, todo, waiting, done, last, cache>>

Write(p) ==
    /\ task[p] = "writing"
    /\ TaskEnds(p, "fresh")
    /\ cache' = [cache EXCEPT ![p] = "new"]
    /\ UNCHANGED <<content, index, fetch, hand, trouble, history, todo, waiting, done, last>>

(* Redis cannot be written, before the entry is there or between the entry *)
(* and its time to live: the exception goes through.                       *)
WriteFails(p) ==
    /\ task[p] = "writing" /\ trouble < MaxTrouble
    /\ TaskEnds(p, "other")
    /\ \E c \in {cache[p], "new"} : cache' = [cache EXCEPT ![p] = c]
    /\ trouble' = trouble + 1
    /\ UNCHANGED <<content, index, fetch, hand, history, todo, waiting, done, last>>

-----------------------------------------------------------------------------
(* The results                                                             *)

\* asyncio.wait with ALL_COMPLETED, until no task is pending.
WaitForAll ==
    /\ fetch = "batch" /\ hand = <<>> /\ done = {}
    /\ IF Pending = {}
       THEN fetch' = "dispatching" /\ UNCHANGED done
       ELSE Unfinished = {} /\ done' = Pending /\ UNCHANGED fetch
    /\ UNCHANGED <<content, index, hand, trouble, history, todo, task, waiting, last, cache>>

\* asyncio.wait with FIRST_COMPLETED, until no task is pending.
WaitForSome ==
    /\ fetch = "draining" /\ hand = <<>> /\ done = {}
    /\ IF Pending = {}
       THEN fetch' = "ended" /\ UNCHANGED <<done, last>>
       ELSE /\ Pending \ Unfinished # {}
            /\ done' = Pending \ Unfinished
            /\ last' = None
            /\ UNCHANGED fetch
    /\ UNCHANGED <<content, index, hand, trouble, history, todo, task, waiting, cache>>

(* The result of a task.  A payload is given.  A failed query is recorded  *)
(* as an error; in the loop that takes the results as they come pub still  *)
(* holds the result before it, which is then given again.  The empty       *)
(* result of HAL is not given.  Any other exception ends the fetch.        *)
TakeResult(p) ==
    /\ p \in done /\ hand = <<>> /\ fetch \in {"batch", "draining"}
    /\ task' = [task EXCEPT ![p] = "taken"]
    /\ done' = done \ {p}
    /\ CASE task[p] \in {"fresh", "stale"} ->
              /\ Yield(p, task[p] = "stale")
              /\ last' = [pub |-> p, stale |-> task[p] = "stale"]
              /\ UNCHANGED <<fetch, unheard>>
         [] task[p] = "nothing" ->
              /\ last' = None
              /\ unheard' = unheard \cup {p}
              /\ UNCHANGED <<fetch, hand>>
         [] task[p] \in {"external", "format"} ->
              /\ hand' = IF fetch = "draining" /\ last # None THEN <<last>> ELSE <<>>
              /\ unheard' = unheard \cup {p}
              /\ UNCHANGED <<fetch, last>>
         [] task[p] = "other" -> fetch' = "other" /\ UNCHANGED <<hand, last, unheard>>
    /\ UNCHANGED <<content, index, trouble, quiet, absent, todo, waiting, cache>>

-----------------------------------------------------------------------------

RunTask(p) ==
    StartTask(p) \/ StartTaskBadly(p) \/ Answered(p) \/ NotAnswered(p) \/ Write(p) \/ WriteFails(p)

FetchSecondary ==
    \/ List \/ ListFails \/ Dispatch \/ EndOfList \/ WaitForAll \/ WaitForSome
    \/ \E p \in Publications : TakeResult(p)

BeginSecondary(s) ==
    /\ todo = <<>> /\ waiting = 0 /\ done = {} /\ last = None
    /\ task = [p \in Publications |-> "none"]
    /\ cache = s.cache

=============================================================================
