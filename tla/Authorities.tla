---------------------------- MODULE Authorities ----------------------------
(***************************************************************************)
(* What the solvers of concepts and of organizations make of the answers   *)
(* of the authorities they ask: a record to store, the DereferencingError  *)
(* their callers are written for, or another exception.                    *)
(*                                                                         *)
(* A concept has labels; a label has a language, "none" when it has none.  *)
(* The searches of further identifiers of organizations in IdRef and ROR   *)
(* (solve_identities) are left out: IDENTITY_DEEP_SEARCH is empty in every *)
(* solver, so nothing calls them.                                          *)
(***************************************************************************)
EXTENDS FiniteSets

(* How a request to an authority ends: with the record, with another       *)
(* status than 2xx, with a failure of the connection, with a timeout, with *)
(* a body that cannot be read as expected, with a record that lacks what   *)
(* is sought.                                                              *)
Answers == {"record", "status", "connection", "timeout", "unreadable", "lacking"}

ConceptSources == {"IDREF", "WIKIDATA", "JEL", "ABES"}

\* The solver of a source; that of JEL depends on the settings.
Solver(source, jelProxy) ==
    CASE source = "IDREF" -> "SparqlIdRef"
      [] source = "WIKIDATA" -> "Wikidata"
      [] source = "JEL" -> IF jelProxy THEN "SparqlJel" ELSE "SkosmosJel"
      [] source = "ABES" -> "Abes"

(* What complete_information does with a concept of which the code, the    *)
(* uri or both are known ("odd": a uri of IdRef with no code in it): each  *)
(* solver completes them or raises.  Those of JEL, and they only, refuse a *)
(* concept whose code and uri are both known already.                      *)
JelCompletion(known) ==
    IF Cardinality(known) = 1 THEN "completed" ELSE "DereferencingError"

WikidataCompletion(known) == IF known = {} THEN "DereferencingError" ELSE "completed"

IdRefCompletion(known) ==
    IF known = {} THEN "AssertionError"
    ELSE IF known = {"odd"} THEN "DereferencingError" ELSE "completed"

AbesCompletion(known) == IF "uri" \in known THEN "completed" ELSE "DereferencingError"

\* _infer_source raises before any solver is chosen when the uri is of none of them.
Completion(source, known) ==
    CASE source = "JEL" -> JelCompletion(known)
      [] source = "WIKIDATA" -> WikidataCompletion(known)
      [] source = "IDREF" -> IdRefCompletion(known)
      [] source = "ABES" -> AbesCompletion(known)
      [] OTHER -> "UnknownAuthorityException"

\* What is known after complete_information has completed it: ABES has no code.
Known(source, known) == IF source = "ABES" THEN known ELSE {"code", "uri"}

(* solve of each solver.  RDF solvers, Wikidata and the SPARQL solver of   *)
(* JEL turn every exception into a DereferencingError; those of RDF and    *)
(* Wikidata accept a concept without label.                                *)
RdfOutcome(answer) ==
    IF answer \in {"record", "lacking"} THEN "concept" ELSE "DereferencingError"

WikidataOutcome(answer) ==
    IF answer \in {"record", "lacking"} THEN "concept" ELSE "DereferencingError"

\* Slip: the timeout of the client goes through.
SparqlJelOutcomeTimeout(answer) ==
    CASE answer = "record" -> "concept"
      [] answer = "timeout" -> "TimeoutError"
      [] OTHER -> "DereferencingError"

SparqlJelOutcome(answer) ==
    IF answer = "record" THEN "concept" ELSE "DereferencingError"

(* The SPARQL solver of IdRef lets the ExternalEndpointFailure of its      *)
(* client through.                                                         *)
SparqlIdRefOutcome(answer) ==
    IF answer \in {"record", "lacking"} THEN "concept" ELSE "ExternalEndpointFailure"

ConceptOutcome(solver, answer) ==
    CASE solver \in {"Abes", "SkosmosJel"} -> RdfOutcome(answer)
      [] solver = "Wikidata" -> WikidataOutcome(answer)
      [] solver = "SparqlJel" -> SparqlJelOutcome(answer)
      [] solver = "SparqlIdRef" -> SparqlIdRefOutcome(answer)

(* HalOrganizationSolver.solve turns a bad status, a failure of the        *)
(* connection, a timeout and a missing name into a DereferencingError; a   *)
(* body that is not the expected one (no document, a type of structure     *)
(* that is not in TYPE_MAPPING) raises another exception.                  *)
HalOutcome(answer) ==
    CASE answer = "record" -> "organization"
      [] answer = "unreadable" -> "LookupError"
      [] OTHER -> "DereferencingError"

\* The solver of Scopus asks nobody.
ScopusOutcome(answer) == "organization"

\* Those of IdRef and of ROR are not implemented.
OrganizationOutcome(source, answer) ==
    CASE source = "hal" -> HalOutcome(answer)
      [] source = "scopus" -> ScopusOutcome(answer)
      [] source \in {"idref", "ror"} -> "NotImplementedError"

(* The identifiers of an organization: its own, then for HAL one per key   *)
(* of IDENTITY_SAVE found in the document.                                 *)
OrganizationCodes(source, own, others) ==
    {[type |-> source, value |-> own]}
        \cup (IF source = "hal" THEN {c \in others : c.type # "hal"} ELSE {})

=============================================================================
