-------------------------- MODULE MCSourceHarvest --------------------------
(* Instances of SourceHarvest for TLC. *)
EXTENDS SourceHarvest, TLC

CONSTANTS p1, p2, p3, p4

Order == <<p1, p2, p3, p4>>

Each(value) == [p \in Publications |-> value]

Kind == [hal |-> "HAL", scanr |-> "SCANR", open_alex |-> "OPEN_ALEX", scopus |-> "SCOPUS"]

Start(t, s, ids, kinds, n, change, flaw, stored, cached) ==
    [trouble |-> t, source |-> s, ids |-> ids, kind |-> kinds, index |-> SubSeq(Order, 1, n),
     changed |-> [Each({}) EXCEPT ![p1] = change],
     flawed |-> [Each({}) EXCEPT ![p2] = flaw],
     known |-> [p \in Publications |->
                  IF stored /\ p \in ToSet(SubSeq(Order, 1, n)) THEN {} ELSE None],
     cache |-> [Each("none") EXCEPT ![p1] = cached]]

Singletons(S) == {{}} \cup {{x} : x \in S}

Fields(formatters) == UNION {Reads(f) \cup HashKeys(f) : f \in formatters}

\* The lists of up to four publications, new or known.
PagedLists ==
    {Start(2, s, ids, Each(Kind[s]), n, {}, {}, stored, "none") :
       <<s, ids>> \in {<<"hal", {"id_hal_s"}>>, <<"scanr", {"idref"}>>,
                       <<"scanr", {"orcid", "id_hal_s"}>>, <<"open_alex", {"orcid"}>>,
                       <<"scopus", {"scopus_eid"}>>},
       n \in 0..3, stored \in BOOLEAN}

\* One field that changed, or one that is flawed.
PagedContents ==
    UNION {{Start(1, s, ids, Each(Kind[s]), 2, {f}, {}, TRUE, "none") : f \in Fields({Kind[s]})}
           \cup
           {Start(1, s, ids, Each(Kind[s]), 2, {}, {f}, FALSE, "none") :
              f \in Flaws(Kind[s]) \cup {"halId_s", "dc:identifier"}} :
             <<s, ids>> \in {<<"hal", {"orcid"}>>, <<"scanr", {"idref"}>>,
                             <<"open_alex", {"orcid"}>>, <<"scopus", {"scopus_eid"}>>}}

Four(a, b, c, d) == [Each(a) EXCEPT ![p2] = b, ![p3] = c, ![p4] = d]

SudocList == Four("SUDOC_RDF", "SUDOC_RDF", "SUDOC_RDF", "SUDOC_RDF")

MixedLists ==
    {Four("SUDOC_RDF", "PERSEE_RDF", "SUDOC_RDF", "SUDOC_RDF"),
     Four("OPEN_EDITION", "SUDOC_RDF", "HAL_JSON", "SUDOC_RDF"),
     Four("SCIENCE_PLUS_RDF", "IDREF_SPARQL", "unknown", "SUDOC_RDF")}

SecondaryLists ==
    {Start(2, "idref", {"idref"}, SudocList, 2, {}, {}, TRUE, "none")}
    \cup {Start(1, "idref", {"idref"}, SudocList, n, {}, {}, TRUE, "none") : n \in {0, 3, 4}}
    \cup {Start(1, "idref", {"orcid"}, kinds, 3, {}, {}, TRUE, "none") : kinds \in MixedLists}

SecondaryKinds == {"SUDOC_RDF", "SCIENCE_PLUS_RDF", "PERSEE_RDF", "OPEN_EDITION", "IDREF_SPARQL"}

SecondaryContents ==
    UNION {{Start(1, "idref", {"idref"}, Each(k), 1, {f}, {}, TRUE, c) :
              f \in Fields({k}), c \in {"none", "old", "new"}}
           \cup {Start(1, "idref", {"idref"}, Each(k), 2, {}, {f}, FALSE, "none") :
                   f \in Flaws(k)} : k \in SecondaryKinds}

MCStarts == PagedLists \cup PagedContents \cup SecondaryLists \cup SecondaryContents

\* What ScanR changes, field by field.
ScanrStarts == {s \in PagedContents : s.source = "scanr"}

=============================================================================
