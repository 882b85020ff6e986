----------------------------- MODULE Inventory -----------------------------
(***************************************************************************)
(* What the history of a harvester promises to its clients: an inventory   *)
(* of each entity's references, replaced as a whole by each completed      *)
(* harvesting of the entity.                                               *)
(***************************************************************************)
CONSTANTS Entities, Sources

VARIABLES
    seen,    \* what the source returned to the last completed harvesting
    known,   \* what that harvesting reported as created, updated or unchanged
    gone,    \* what it reported as deleted
    exact    \* whether it went through without an error

vars == <<seen, known, gone, exact>>

Init ==
    /\ seen = [e \in Entities |-> {}]
    /\ known = [e \in Entities |-> {}]
    /\ gone = [e \in Entities |-> {}]
    /\ exact = [e \in Entities |-> TRUE]

\* A harvesting completes.  It reports as known nothing the source did not
\* return, and as gone nothing the source returned or that was not known; when it
\* met no error it leaves nothing out.
Observe(e, S, K, G, x) ==
    /\ x => K = S /\ G = known[e] \ S
    /\ seen' = [seen EXCEPT ![e] = S]
    /\ known' = [known EXCEPT ![e] = K]
    /\ gone' = [gone EXCEPT ![e] = G]
    /\ exact' = [exact EXCEPT ![e] = x]

Next == \E e \in Entities, S \in SUBSET Sources, x \in BOOLEAN :
            \E K \in SUBSET S, G \in SUBSET (known[e] \ S) : Observe(e, S, K, G, x)

Spec == Init /\ [][Next]_vars

=============================================================================
