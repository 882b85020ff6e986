---------------------------- MODULE SourceHarvest ---------------------------
(***************************************************************************)
(* A harvesting of a person's publications from one source: the results of *)
(* fetch_results, the loop of AbstractHarvester.run that takes them, hashes *)
(* and converts them, and the references it declares deleted at the end.   *)
(*                                                                         *)
(* What it stores of a publication is the payload it converted last.       *)
(* Versions and events of references are in ReferenceHistory, the shared   *)
(* records of a conversion in GetOrCreate.                                 *)
(***************************************************************************)
EXTENDS Paging, SecondaryQueries

(* A source lists a publication once and in the one format its harvester   *)
(* reads; IdRef lists those of other sources as well, some not known to it *)
(* and some, "HAL_JSON", left to the harvester of HAL.                     *)
ASSUME StartsAssumption ==
    /\ None # {}
    /\ \A s \in Starts :
         /\ s.source \in Paged \cup {"idref"}
         /\ s.index \in Seq(Publications) /\ IsInjective(s.index)
         /\ DOMAIN s.known = Publications
         /\ \A p \in Publications :
              /\ s.kind[p] \in Formatters \cup {"unknown", "HAL_JSON"}
              /\ s.source \in Paged => s.kind[p] \in Formatters
              /\ s.changed[p] # None

VARIABLES
    run,       \* "running", "completed" or "failed"
    at,        \* what the harvester does with its result: "taking" or "converting"
    known,     \* the changes in the payload converted last, None for no reference
    before,    \* previous_references: what had a reference when it began
    existing,  \* existing_references
    deleted,   \* the references declared deleted
    handed,    \* the number of times each publication was taken (history)
    outdated,  \* those taken from an outdated entry of a cache (history)
    refused    \* those that could not be converted (history)

harvest == <<run, at, known, before, existing, deleted, handed, outdated, refused>>

vars == <<source, kind, index, changed, flawed, fetch, hand, trouble, quiet, absent,
          unheard, paging, secondary, harvest>>

\* The result in hand: its publication, and what changed and is flawed in its payload.
Pub == hand[1].pub

Payload == IF hand[1].stale THEN {} ELSE changed[Pub]

Flawed == IF hand[1].stale THEN {} ELSE flawed[Pub]

fetching == <<content, index, fetch, trouble, history, paging, secondary>>

-----------------------------------------------------------------------------
(* The loop of run                                                         *)

\* Slip: a reference is found to exist only when its conversion succeeds.
TakeLate ==
    /\ run = "running" /\ hand # <<>> /\ at = "taking"
    /\ handed' = [handed EXCEPT ![Pub] = @ + 1]
    /\ outdated' = IF hand[1].stale THEN outdated \cup {Pub} ELSE outdated
    /\ IF known[Pub] = None \/ Digest(kind[Pub], Payload) # Digest(kind[Pub], known[Pub])
       THEN at' = "converting" /\ UNCHANGED <<hand, existing>>
       ELSE hand' = <<>> /\ existing' = existing \cup {Pub} /\ UNCHANGED at
    /\ UNCHANGED <<fetching, run, known, before, deleted, refused>>

(* build and exists: a known reference is put among the existing ones      *)
(* before anything can go wrong; it is converted when its hash differs.    *)
Take ==
    /\ run = "running" /\ hand # <<>> /\ at = "taking"
    /\ handed' = [handed EXCEPT ![Pub] = @ + 1]
    /\ outdated' = IF hand[1].stale THEN outdated \cup {Pub} ELSE outdated
    /\ existing' = IF known[Pub] # None THEN existing \cup {Pub} ELSE existing
    /\ IF known[Pub] = None \/ Digest(kind[Pub], Payload) # Digest(kind[Pub], known[Pub])
       THEN at' = "converting" /\ UNCHANGED hand
       ELSE hand' = <<>> /\ UNCHANGED at
    /\ UNCHANGED <<fetching, run, known, before, deleted, refused>>

(* convert, with an endpoint it depends on possibly down.  A reference is  *)
(* stored; a publication of an unexpected format is skipped; any other     *)
(* exception ends the harvesting.                                          *)
EndConversion ==
    /\ run = "running" /\ at = "converting"
    /\ \E down \in {{}} \cup {{e} : e \in Endpoints(kind[Pub])} :
         /\ down # {} => trouble < MaxTrouble
         /\ trouble' = trouble + Cardinality(down)
         /\ \E outcome \in Outcomes(kind[Pub], Flawed, down) :
              CASE outcome = "converted" ->
                     /\ known' = [known EXCEPT ![Pub] = Payload]
                     /\ UNCHANGED <<run, refused>>
                [] outcome = "format" ->
                     refused' = refused \cup {Pub} /\ UNCHANGED <<run, known>>
                [] OTHER -> run' = "failed" /\ UNCHANGED <<known, refused>>
    /\ hand' = <<>> /\ at' = "taking"
    /\ UNCHANGED <<content, index, fetch, history, paging, secondary,
                   before, existing, deleted, handed, outdated>>

(* The end of the results: what had a reference and was not seen is        *)
(* declared deleted.  An exception of fetch_results skips that.            *)
EndRun ==
    /\ run = "running" /\ hand = <<>> /\ fetch \in Over
    /\ IF fetch = "ended"
       THEN deleted' = before \ existing /\ run' = "completed"
       ELSE run' = "failed" /\ UNCHANGED deleted
    /\ UNCHANGED <<fetching, hand, at, known, before, existing, handed, outdated, refused>>

-----------------------------------------------------------------------------

FirstFetch(s) ==
    CASE s.source = "idref" -> "listing"
      [] s.source # "idref" /\ LooksUp(s.source, s.ids) -> "looking"
      [] OTHER -> "asking"

Init ==
    \E s \in Starts :
        /\ Begin(s, FirstFetch(s)) /\ BeginPaging(s) /\ BeginSecondary(s)
        /\ run = "running" /\ at = "taking"
        /\ known = s.known
        /\ before = {p \in Publications : s.known[p] # None}
        /\ existing = {} /\ deleted = {} /\ outdated = {} /\ refused = {}
        /\ handed = [p \in Publications |-> 0]

PagesGoOn == run = "running" /\ FetchPages /\ UNCHANGED <<secondary, harvest>>

SecondaryGoesOn == run = "running" /\ FetchSecondary /\ UNCHANGED <<paging, harvest>>

\* The tasks go on, even when the harvester has left them.
TaskGoesOn(p) == RunTask(p) /\ UNCHANGED <<paging, harvest>>

\* Nothing changes any more when the bound on the pages is reached.
SourceChanges ==
    /\ run = "running" /\ asked < MaxPages
    /\ Meanwhile
    /\ UNCHANGED <<paging, secondary, harvest>>

Fetch == PagesGoOn \/ SecondaryGoesOn

Harvest == Take \/ EndConversion \/ EndRun

Next ==
    \/ PagesGoOn \/ SecondaryGoesOn \/ Take \/ EndConversion \/ EndRun
    \/ \E p \in Publications : TaskGoesOn(p)
    \/ SourceChanges

Spec == Init /\ [][Next]_vars

\* One event loop runs every coroutine that can go on, and every request has its timeout.
FairSpec ==
    /\ Spec
    /\ WF_vars(Fetch) /\ WF_vars(Harvest)
    /\ \A p \in Publications : WF_vars(TaskGoesOn(p))

-----------------------------------------------------------------------------
(* Properties                                                              *)

\* The pages of a list that changed between two requests may skip what is on it.
PagesMoved == source \in {"scanr", "open_alex", "scopus"} /\ ~quiet

(* A reference is declared deleted only when the source did not list its   *)
(* publication at some time of the harvesting, or this harvesting could    *)
(* not get it (rows that HAL or IdRef cuts off, failed secondary queries, a *)
(* person ScanR does not know), or pages moved under it; never because it  *)
(* could not be converted (_register_deleted_references).                  *)
DeletionsAreTrue == PagesMoved \/ deleted \subseteq absent \cup unheard

Repeats == {p \in Publications : handed[p] > 1}

\* What a task asked for and did not get.
FailedQueries ==
    {p \in Publications : task[p] = "taken" /\ p \in unheard /\ kind[p] # "HAL_JSON"}

(* When a list that did not change has been read to its end, the harvester *)
(* has taken each publication of it, but those it could not get; and no    *)
(* publication twice, but one for a failed secondary query, after which    *)
(* the loop that drains the queries gives the result before it again.      *)
EachOnce ==
    fetch = "ended" /\ hand = <<>> /\ quiet =>
        /\ \A p \in Listed \ unheard : handed[p] > 0
        /\ \A p \in Repeats : handed[p] - 1 <= Cardinality(FailedQueries)

(* After a completed harvesting of a list that did not change, the stored  *)
(* reference of each publication agrees with the source on every hashed    *)
(* field, but those that were not heard of, came from an outdated cache or *)
(* were refused; and but those of ScanR, whose hash sees none of its       *)
(* fields.                                                                 *)
StoredFollowsSource ==
    run = "completed" /\ quiet =>
        \A p \in Listed \ (unheard \cup outdated \cup refused) :
            /\ known[p] # None
            /\ kind[p] # "SCANR" =>
                 /\ changed[p] \cap HashKeys(kind[p]) \subseteq known[p]
                 /\ known[p] \cap HashKeys(kind[p]) \subseteq changed[p]

(* A change of a field that a converter declares among its hash keys is    *)
(* stored by the next completed harvesting (hash_keys: "the keys of the    *)
(* dictionary to include in change detection").                            *)
ChangesAreDetected ==
    run = "completed" /\ quiet =>
        \A p \in Listed \ (unheard \cup outdated \cup refused) :
            known[p] # None => changed[p] \cap HashKeys(kind[p]) \subseteq known[p]

\* The requests to SUDOC: of the tasks, and of the conversion of a record in an article.
SudocLoad ==
    Cardinality(AskingSudoc)
      + (IF at = "converting" /\ kind[Pub] = "SUDOC_RDF" THEN 1 ELSE 0)

(* There are never more requests to SUDOC than MAX_SUDOC_PARALLELISM at    *)
(* once, those of the conversions included, although the converter asks    *)
(* SUDOC while the remaining tasks run.                                    *)
SudocLoadIsBounded == SudocLoad <= MaxSudoc

\* ScanR announced more hits than it has left, or OpenAlex announced nothing.
PagesWithoutEnd ==
    \/ source = "scanr" /\ fetch \in {"asking", "giving"} /\ given < count /\ given >= Len(index)
    \/ source = "open_alex" /\ count = None

(* Every harvesting ends, unless the source announces a total it does not  *)
(* deliver: then the client asks for empty pages for ever.                 *)
RunEnds == <>(run # "running") \/ <>[]PagesWithoutEnd

=============================================================================
