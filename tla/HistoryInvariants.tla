------------------------- MODULE HistoryInvariants -------------------------
(***************************************************************************)
(* What holds throughout a run of ReferenceHistory and makes its safety    *)
(* properties inductive: how the attributes of a task relate to the tables *)
(* at each point of the task.                                              *)
(***************************************************************************)
EXTENDS ReferenceHistory

\* The task of h is past the loop on the results, and will not go back to it.
PastResults(h) ==
    \/ pc[h] \in {"deleting", "notifying", "ended", "dead"}
    \/ pc[h] \in {"failing", "reporting"} /\ resume[h] = "ended"

\* A row of the baseline with source identifier s makes one of the existing
\* references have it.
Met(h, s) ==
    (\E i \in previous[h] : references[i].sid = s)
        => (\E j \in existing[h] : references[j].sid = s)

\* The attributes of the result at hand are set when they are used.
ResultAtHand ==
    \A h \in Harvestings :
        /\ pc[h] \in {"handling", "recording"} =>
              current[h] \in Result /\ current[h].type # "deleted"
        /\ pc[h] = "recording" => current[h].row # 0

\* The rows of the result at hand are rows of its reference, and the reference has
\* been compared with the baseline.
ResultIsMet ==
    \A h \in Harvestings :
        /\ pc[h] \in {"handling", "recording"} => Met(h, current[h].sid)
        /\ pc[h] = "handling" /\ current[h].old # 0 =>
              references[current[h].old].sid = current[h].sid
        /\ pc[h] = "recording" => references[current[h].row].sid = current[h].sid

\* A harvesting records nothing before it has read its baseline.
NothingBeforeBaseline ==
    \A h \in Harvestings : pc[h] \in {"absent", "launched"} => EventsOf(h) = {}

\* Whatever is found and was in the baseline is among the existing references.
FindingsAreMet ==
    \A h \in Harvestings : \A e \in Findings(h) : Met(h, references[e.row].sid)

NotMet(h, i) == \A j \in existing[h] : references[j].sid # references[i].sid

\* Deletions, done or to do, are rows of the baseline that were not met; they come
\* after the last result.
DeletionsAreNotMet ==
    \A h \in Harvestings :
        /\ toDelete[h] # {} \/ Deletions(h) # {} => PastResults(h)
        /\ \A i \in toDelete[h] : i \in previous[h] /\ NotMet(h, i)
        /\ \A d \in Deletions(h) : d.row \in previous[h] /\ NotMet(h, d.row)

\* The rows of a baseline were reported to the entity by another harvesting.
BaselineWasAnnounced ==
    \A h \in Harvestings : \A i \in previous[h] :
        \E g \in Harvestings \ {h} :
            /\ request[g].entity = request[h].entity
            /\ \E e \in Findings(g) : e.row = i

HistoryInv ==
    /\ TypeOK
    /\ ResultAtHand
    /\ ResultIsMet
    /\ NothingBeforeBaseline
    /\ FindingsAreMet
    /\ DeletionsAreNotMet
    /\ BaselineWasAnnounced
    /\ VersionsContiguous

-----------------------------------------------------------------------------
(* What holds of the result at hand and of the rows and events it leaves   *)

\* The result at hand is compared with a row of its reference by the harvester that runs.
IsJudged(h) ==
    /\ current[h].type = Kind(current[h].content, current[h].old)
    /\ current[h].enhanced = Enhanced(current[h].old)
    /\ current[h].old # 0 => references[current[h].old].sid = current[h].sid

\* The version stored for the result at hand succeeds the row it was compared with.
IsStored(h) ==
    LET r == references[current[h].row]
    IN  /\ r.version = NextVersion(current[h].old)
        /\ r.hver = deployed
        /\ r.content = current[h].content
        /\ StoresVersion(current[h].content, current[h].old)

ResultIsTrue ==
    \A h \in Harvestings :
        /\ pc[h] \in {"handling", "recording"} => IsJudged(h)
        /\ pc[h] = "recording" => IsStored(h)

TruthInv ==
    /\ ResultIsTrue
    /\ EventsMatchHistory
    /\ BlankRowsAreUnrequestedEnhancements

-----------------------------------------------------------------------------
(* What holds of harvestings that follow each other                        *)

\* A harvesting is launched after those before it, and beside those only that may
\* overlap it.
TurnsAreTaken ==
    \A g, h \in Harvestings : g < h /\ pc[h] # "absent" =>
        pc[g] # "absent" /\ (Live(g) => MayOverlap(g, h))

\* The row the result at hand is compared with is still the last of its reference.
ResultIsLast ==
    \A h \in Harvestings : pc[h] = "handling" =>
        \A i \in RowsOf(current[h].sid) :
            /\ current[h].old # 0
            /\ references[i].version <= references[current[h].old].version

UniqueInv ==
    /\ TurnsAreTaken
    /\ Overlap = "none" => ResultIsLast /\ VersionsUnique

-----------------------------------------------------------------------------
(* What holds of the verdicts                                              *)

\* The state of a harvesting is the one its task has last written.
StateFollowsTask ==
    \A h \in Harvestings :
        /\ pc[h] = "notifying" => dbState[h] = "completed"
        /\ pc[h] = "reporting" => dbState[h] = "failed"
        /\ dbState[h] = "completed" => PastResults(h) /\ pc[h] # "deleting"

\* The run of h is over or will be after its error, and it is not a completed one.
Aborted(h) ==
    /\ dbState[h] # "completed"
    /\ \/ pc[h] \in {"ended", "dead"}
       \/ pc[h] \in {"failing", "reporting"} /\ resume[h] = "ended"

\* A version is reported by the harvesting that stored it, now, next or never.
VersionsAreReported ==
    \A i \in RowIds :
        \/ \E e \in Findings(references[i].by) : e.row = i
        \/ pc[references[i].by] = "recording" /\ current[references[i].by].row = i
        \/ Aborted(references[i].by)

\* What an error has lost is not followed by deletions before the error is recorded.
LossesAreErrors ==
    \A h \in Harvestings : dropped[h] # {} =>
        errors[h] \/ (pc[h] \in {"failing", "reporting", "dead"} /\ Deletions(h) = {})

VerdictInv ==
    /\ StateFollowsTask
    /\ VerdictIsExplained
    /\ VersionsAreReported
    /\ LossesAreErrors

-----------------------------------------------------------------------------
(* What a harvesting accounts for                                          *)

\* Nothing is yielded before the baseline is read.
NothingYieldedYet ==
    \A h \in Harvestings : pc[h] \in {"absent", "launched"} => yielded[h] = {}

\* What is found was yielded, and all of what was yielded when all was asked for.
FindingsAreYielded ==
    \A h \in Harvestings :
        /\ SidsOf(Findings(h)) \subseteq yielded[h]
        /\ request[h].types = EventTypes => yielded[h] \subseteq SidsOf(Findings(h))

\* Whatever was yielded and was in the baseline is among the existing references.
YieldedAreMet ==
    \A h \in Harvestings : \A s \in yielded[h] : Met(h, s)

\* The run of h has met an error, recorded or about to be unless the task dies of it.
Marred(h) ==
    errors[h] \/ (pc[h] \in {"failing", "reporting", "dead"} /\ dbState[h] # "completed")

\* The existing references are those that were yielded, or are at hand.
ExistingIsYielded ==
    \A h \in Harvestings : \A i \in existing[h] :
        \/ Marred(h)
        \/ references[i].sid \in yielded[h]
        \/ pc[h] \in {"handling", "recording"} /\ references[i].sid = current[h].sid

\* Each row to report as deleted is reported once the harvesting has completed.
DeletionsAreDone ==
    \A h \in Harvestings :
        /\ "deleted" \in request[h].types /\ (pc[h] = "deleting" \/ dbState[h] = "completed") =>
              {d.row : d \in Deletions(h)} \union toDelete[h] = Gone(h)
        /\ dbState[h] = "completed" => toDelete[h] = {}

AccountInv ==
    /\ NothingYieldedYet
    /\ FindingsAreYielded
    /\ YieldedAreMet
    /\ ExistingIsYielded
    /\ DeletionsAreDone

\* A completed harvesting has only to return, unless the database fails it.
CompletedRunsReturn ==
    "database" \notin Faults => \A h \in Harvestings :
        dbState[h] = "completed" => pc[h] \in {"notifying", "ended", "dead"}

\* The baseline of a running harvesting is what the last completed one left, as
\* long as no other harvesting of its entity runs.
BaselineIsFresh ==
    Overlap # "any" => \A h \in Harvestings :
        Live(h) /\ pc[h] # "launched" => previous[h] = Baseline(h)

=============================================================================
