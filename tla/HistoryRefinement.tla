------------------------- MODULE HistoryRefinement -------------------------
(***************************************************************************)
(* ReferenceHistory implements Inventory: the inventory of an entity is    *)
(* what the last completed harvesting of the entity has put in the tables. *)
(***************************************************************************)
EXTENDS ReferenceHistory

CompletedOf(e) == {h \in Harvestings : dbState[h] = "completed" /\ request[h].entity = e}

LastOf(e) == {h \in CompletedOf(e) : \A g \in CompletedOf(e) : g <= h}

SeenBy(e) == UNION {yielded[h] : h \in LastOf(e)}

KnownTo(e) == UNION {SidsOf(Findings(h)) : h \in LastOf(e)}

GoneFor(e) == UNION {SidsOf(Deletions(h)) : h \in LastOf(e)}

ExactFor(e) == \A h \in LastOf(e) : ~errors[h]

Abstract == INSTANCE Inventory WITH
    seen <- [e \in Entities |-> SeenBy(e)],
    known <- [e \in Entities |-> KnownTo(e)],
    gone <- [e \in Entities |-> GoneFor(e)],
    exact <- [e \in Entities |-> ExactFor(e)]

(* When all types of events are requested and the harvestings of an entity *)
(* follow each other, each completed harvesting replaces the inventory of  *)
(* its entity in one step, whatever runs for other entities, is lost or    *)
(* restarts: baselines read before that step are those the step is         *)
(* computed from (run).  The database has to answer: when the read that    *)
(* tells of the completion fails, handle_error turns the completed         *)
(* harvesting into a failed one and so withdraws its inventory.            *)
ImplementsInventory == Abstract!Spec

=============================================================================
