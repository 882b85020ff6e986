------------------------ MODULE MCEntityResolution ------------------------
(* Instances of EntityResolution for TLC. *)
EXTENDS EntityResolution

CONSTANTS a1, a2, a3, b1, c1, e1, e2, e3, e4, r1, r2

\* The type of each value; the order of the names of the types.
TypeOf ==
    (a1 :> "idref" @@ a2 :> "idref" @@ a3 :> "idref" @@ b1 :> "orcid" @@ c1 :> "id_hal_i")
ByName == ("id_hal_i" :> 1 @@ "idref" :> 2 @@ "orcid" :> 3)

Alike ==
    Permutations({a1, a2, a3}) \union Permutations({r1, r2})
        \union Permutations({e1, e2}) \union Permutations({e3, e4})

=============================================================================
