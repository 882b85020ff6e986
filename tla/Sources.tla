------------------------------ MODULE Sources -------------------------------
(***************************************************************************)
(* An external source, the identifiers a person is sought by in it, and    *)
(* the results of fetch_results, which a harvester takes one at a time.    *)
(*                                                                         *)
(* The source lists the publications of the person in the order of its     *)
(* answers; meanwhile publications come and go, or change places where     *)
(* the order is not fixed by the query.  fetch_results is an asynchronous  *)
(* generator: it stands still while the harvester has a result in hand.    *)
(***************************************************************************)
EXTENDS Integers, Sequences, SequencesExt, Conversion

CONSTANTS
    Publications,  \* the publications there may be
    Starts,        \* where a harvesting may start: see Begin
    MaxTrouble,    \* bound on the changes of the source and the failures, together
    None           \* nothing

VARIABLES
    source,    \* the harvester: "hal", "scanr", "open_alex", "scopus" or "idref"
    kind,      \* the formatter of each publication, or what else IdRef lists
    index,     \* what the source lists
    changed,   \* the fields of each publication that changed since it was last converted
    flawed,    \* the fields of each publication that are flawed
    fetch,     \* where fetch_results is, or how it has ended
    hand,      \* the result the harvester has in hand, if any
    trouble,   \* the number of changes and failures so far (bounded)
    quiet,     \* whether the list has not changed yet (history)
    absent,    \* the publications that were not listed at some time (history)
    unheard    \* the listed publications this harvesting cannot get (history)

content == <<source, kind, changed, flawed>>
history == <<quiet, absent, unheard>>

Listed == ToSet(index)

Failures == {"external", "format", "other"}

Over == Failures \cup {"ended"}

-----------------------------------------------------------------------------
(* The identifiers                                                         *)

\* The identifiers each harvester is written for, the preferred one first.
Identifiers(s) ==
    CASE s = "hal" -> <<"id_hal_i", "id_hal_s", "orcid">>
      [] s = "scanr" -> <<"idref", "orcid", "id_hal_s">>
      [] s = "open_alex" -> <<"orcid">>
      [] s = "scopus" -> <<"scopus_eid">>
      [] s = "idref" -> <<"idref", "orcid">>

\* is_relevant: without any of them the harvester does not run.
Relevant(s, ids) == ToSet(Identifiers(s)) \cap ids # {}

Known(s, ids) == SelectSeq(Identifiers(s), LAMBDA i : i \in ids)

(* The identifier the query is made of: the first one the person has.  The *)
(* query of IdRef takes the ORCID only without an IdRef number; ScanR      *)
(* looks for the person first, unless it has an IdRef number.              *)
Sought(s, ids) == Known(s, ids)[1]

LooksUp(s, ids) == s = "scanr" /\ Sought(s, ids) # "idref"

-----------------------------------------------------------------------------
(* The source meanwhile                                                    *)

\* The query fixes the order: HAL sorts by identifier, IdRef answers at once.
Ordered == source \in {"hal", "idref"}

CanHappen == trouble < MaxTrouble /\ fetch \notin Over

Disturbed ==
    /\ trouble' = trouble + 1
    /\ absent' = absent \cup {p \in Publications : p \notin Listed'}
    /\ quiet' = FALSE
    /\ UNCHANGED <<content, fetch, hand, unheard>>

Withdraw(p) ==
    /\ CanHappen
    /\ \E i \in DOMAIN index : index[i] = p /\ index' = RemoveAt(index, i)
    /\ Disturbed

Publish(p) ==
    /\ CanHappen /\ p \notin Listed
    /\ \E i \in 1..(Len(index) + 1) : index' = InsertAt(index, i, p)
    /\ Disturbed

Reorder ==
    /\ CanHappen /\ ~Ordered
    /\ \E i \in 1..(Len(index) - 1) :
         index' = [index EXCEPT ![i] = index[i + 1], ![i + 1] = index[i]]
    /\ Disturbed

Meanwhile == Reorder \/ \E p \in Publications : Withdraw(p) \/ Publish(p)

-----------------------------------------------------------------------------
(* The generator                                                           *)

\* It gives p; stale: from a payload that was cached before the changes.
Yield(p, stale) == hand' = <<[pub |-> p, stale |-> stale]>>

\* A request fails with one of the exceptions the client lets out.
FetchFails(exceptions) ==
    /\ trouble < MaxTrouble
    /\ trouble' = trouble + 1
    /\ fetch' \in exceptions

(* A start: a harvester, the identifiers of the person, what is listed and *)
(* of which kind, what changed, what is flawed, how much trouble there may *)
(* be.                                                                     *)
Begin(s, first) ==
    /\ Relevant(s.source, s.ids)
    /\ source = s.source /\ kind = s.kind /\ index = s.index
    /\ changed = s.changed /\ flawed = s.flawed
    /\ fetch = first /\ hand = <<>>
    /\ trouble = MaxTrouble - s.trouble /\ quiet = TRUE
    /\ absent = {p \in Publications : p \notin ToSet(s.index)}
    /\ unheard = {}

=============================================================================
