------------------------ MODULE MCReferenceHistory ------------------------
(* Instances of ReferenceHistory for TLC. *)
EXTENDS ReferenceHistory, TLC

CONSTANTS ann, bob, s1, s2, cA, cB, cC

\* A deployment that was upgraded from one version of the harvester to the next:
\* version 2 also hashes a field that tells cB from cC.
MCDigest == [v \in Versions |->
                IF v = 1 THEN (cA :> "x") @@ (cB :> "y") @@ (cC :> "y")
                         ELSE (cA :> "x1") @@ (cB :> "y1") @@ (cC :> "y2")]

\* Every version hashes the same fields, as the converters of this commit do.
SameDigest == [v \in Versions |-> (cA :> "x") @@ (cB :> "y") @@ (cC :> "z")]

SemverRank == [v \in Versions |-> v]

\* Versions 1.1.0, 1.9.0 and 1.10.0 stand as 1, 9 and 10: as strings, the last one
\* comes between the two others.
DecimalRank == [v \in Versions |-> IF v = 1 THEN 1 ELSE IF v = 10 THEN 2 ELSE 3]

DefaultTypes == {"created", "updated", "deleted"}

Asking(entities, types, fetch) ==
    [entity : entities, types : types, fetch : fetch]

TwoEntities == Asking({ann, bob}, {EventTypes}, {TRUE})
TwoEntitiesTwoTypes == Asking({ann, bob}, {EventTypes, DefaultTypes}, {TRUE})
Enhancements == Asking({ann}, {EventTypes, {"unchanged"}}, BOOLEAN)
OnlyDefault == Asking({ann}, {DefaultTypes}, {TRUE})
NoEnhancement == Asking({ann}, {EventTypes}, {FALSE})

Symmetry == Permutations({s1, s2}) \union Permutations({ann, bob})

=============================================================================
