--------------------------- MODULE MCGetOrCreate ---------------------------
(* Instances of GetOrCreate for TLC. *)
EXTENDS GetOrCreate, TLC

CONSTANTS t1, t2, t3, j1

Key(kind, ids, soft, name, says) ==
    [kind |-> kind, ids |-> ids, soft |-> soft, name |-> name, says |-> says]

Contributor(n, codes) ==
    Key("contributor", {"id"}, {}, None, [name |-> n, codes |-> codes])

Concept(uri, source, known, bulk) ==
    Key("concept", {uri}, {}, None, [source |-> source, known |-> known, bulk |-> bulk])

Organization(own, codes) ==
    Key("organization", {}, {}, own, [source |-> "hal", name |-> "n", codes |-> codes])

ScopusOrganization(n) ==
    Key("organization", {}, {}, "o3", [source |-> "scopus", name |-> n, codes |-> {}])

Journal(ids, soft, name) == Key("journal", ids, soft, name, <<>>)

LabelOf(value) == Key("label", {}, {}, value, <<>>)

Book(ids, name) == Key("book", ids, {}, name, <<>>)

Of(kind) == Key(kind, {"key"}, {}, None, [name |-> "n"])

ror == [type |-> "ror", value |-> "r"]
idref == [type |-> "idref", value |-> "i"]

\* Rows from before, and as many demands of each conversion as numbers says.
Lists(stored, S, numbers) ==
    {[rows |-> stored, todo |-> f,
      jobs |-> IF \E d \in S : d.kind = "concept" THEN {j1} ELSE {}] :
       f \in {g \in [{t1, t2, t3} -> {<<>>} \cup {<<d>> : d \in S} \cup {<<d, e>> : d, e \in S}] :
                <<Len(g[t1]), Len(g[t2]), Len(g[t3])>> \in numbers}}

Alone == {<<1, 0, 0>>, <<2, 0, 0>>}
TwoOfThem == {<<1, 1, 0>>, <<2, 1, 0>>}
ThreeOfThem == {<<1, 1, 1>>}

Row(d, content) == [kind |-> d.kind, ids |-> d.ids, soft |-> d.soft, name |-> d.name,
                    says |-> d.says, by |-> None, committed |-> TRUE, is |-> content]

Journals == {Journal({"p1"}, {}, "s"), Journal({"e1"}, {"l"}, "s"),
             Journal({"p1", "e1"}, {}, "u"), Journal({}, {"l"}, "s")}

Books == {Book({"x", "y"}, "b"), Book({"y"}, "c"), Book({}, "b")}

Organizations == {Organization("o1", {ror}), Organization("o2", {ror, idref})}

People == {Contributor("ann", {"c"}), Contributor("anna", {})}

IdrefConcepts == {Concept("u", "IDREF", {"uri"}, TRUE), Concept("u", "IDREF", {"uri"}, FALSE)}

UnsolvedConcept == Row(Concept("u", "IDREF", {"uri"}, FALSE), NewConcept(FALSE, None))

OtherConcept == Row(Concept("v", "WIKIDATA", {"uri"}, FALSE), NewConcept(FALSE, None))

\* Records without the value that their table asks for, and with it.
Lacking == {ScopusOrganization(None), ScopusOrganization("n"), LabelOf(None), LabelOf("l"),
            Contributor(None, {}), Contributor("ann", {}), Journal({"p1"}, {}, None)}

KnownPerson == Row(Contributor("ann", {"c"}), NewContributor(Contributor("ann", {})))

MCStarts ==
    Lists(<<>>, Journals, TwoOfThem)
    \cup Lists(<<>>, Books, TwoOfThem)
    \cup Lists(<<>>, Organizations, Alone \cup TwoOfThem)
    \cup Lists(<<>>, People, Alone \cup TwoOfThem)
    \cup Lists(<<KnownPerson>>, People \cup {Contributor(None, {})}, {<<1, 1, 0>>})
    \cup Lists(<<>>, Lacking, Alone \cup {<<1, 1, 0>>})
    \cup Lists(<<>>, {Concept("u", "JEL", {"code"}, FALSE)}, TwoOfThem)
    \cup Lists(<<>>, IdrefConcepts, Alone \cup {<<1, 1, 0>>})
    \cup Lists(<<UnsolvedConcept>>, IdrefConcepts, {<<1, 1, 0>>})
    \cup Lists(<<UnsolvedConcept, OtherConcept>>, IdrefConcepts, {<<0, 0, 0>>, <<1, 0, 0>>})
    \cup Lists(<<>>, {Of("named contributor")}, TwoOfThem)
    \cup Lists(<<>>, {Of("document type")}, TwoOfThem)
    \cup Lists(<<>>, {Of("issue")}, ThreeOfThem)
    \cup Lists(<<>>, {LabelOf("l")}, TwoOfThem)

=============================================================================
