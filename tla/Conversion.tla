----------------------------- MODULE Conversion -----------------------------
(***************************************************************************)
(* What each references converter reads of a payload, what in it makes the *)
(* conversion fail, and what the hash that detects changes covers.         *)
(*                                                                         *)
(* A payload is a set of fields, named as in the source, and a value is    *)
(* only "as it was" or "changed", "as expected" or "flawed": absent, null  *)
(* or malformed, whichever the step that reads it cannot stand.  A step of *)
(* a conversion is what it reads; which flaws among these raise an         *)
(* UnexpectedFormatException and which another exception; which endpoints  *)
(* it asks whose failure raises an ExternalEndpointFailure.  Flaws and     *)
(* failures the step logs and lives with are in none of them.              *)
(***************************************************************************)
EXTENDS Naturals, Sequences

Step(reads, format, other, asks) ==
    [reads |-> reads, format |-> format, other |-> other, asks |-> asks]

Plain(reads) == Step(reads, {}, {}, {})

(* A date.  One that is malformed is logged; one that is well formed and   *)
(* in no calendar, as 2020-00-00, is a ValueError that nothing catches     *)
(* (check_valid_iso8601_date).                                             *)
Date(field) == Step({field}, {}, {field}, {})

(* The shared end of the conversions: a reference without title is         *)
(* rejected by an assertion of validate_reference.                         *)
Validated(titles) == Step({}, {}, titles, {})

-----------------------------------------------------------------------------
(* HAL.  A star stands for the languages other than English, or for the    *)
(* kinds of identifiers.                                                   *)

HalTei == Plain({"label_xml"})

HalIdentifiers == Plain({"*Id_s"})

HalTitles == Plain({"en_title_s", "*_title_s", "*_subTitle_s"})

HalAbstracts == Plain({"en_abstract_s", "*_abstract_s"})

HalDocumentType == Plain({"docType_s", "docSubType_s"})

\* A failed assertion on a JEL code is logged.
HalConcepts == Plain({"jel_s", "en_keyword_s", "*_keyword_s"})

(* As many qualities as contributors, each contributor in three parts; the *)
(* identifiers in the second part in two.  The pattern that is tested      *)
(* admits more parts than that, which then cannot be unpacked.             *)
HalContributions ==
    Step({"authFullNameFormIDPersonIDIDHal_fs", "authQuality_s", "authFirstName_s",
          "authLastName_s"},
         {"authFullNameFormIDPersonIDIDHal_fs", "authQuality_s"},
         {"authFullNameFormIDPersonIDIDHal_fs"}, {})

\* No uri, or a URL that is not valid.
HalManifestation ==
    LET urls == {"uri_s", "fileMain_s", "linkExtUrl_s", "files_s"} IN Step(urls, urls, {}, {})

\* The first is kept as it is, the second parsed.
HalIssuedDate ==
    Step({"publicationDate_s", "publicationDate_tdate"}, {}, {"publicationDate_tdate"}, {})

HalCreatedDate == Date("producedDate_tdate")

HalJournal ==
    Plain({"journalId_i", "journalIssn_s", "journalEissn_s", "journalPublisher_s"})

\* The identifier of the issue is made of the titles of the journal: no title, no string.
HalIssue == Step({"journalTitle_s", "volume_s", "issue_s", "page_s"}, {}, {"journalTitle_s"}, {})

HalBook == Plain({"bookTitle_s", "publisher_s", "isbn_s"})

HalOrganizations == Step({"authIdHasStructure_fs"}, {}, {"authIdHasStructure_fs"}, {})

HalSteps ==
    <<HalTei, HalIdentifiers, HalTitles, HalAbstracts, HalDocumentType, HalConcepts,
      HalContributions, HalManifestation, HalIssuedDate, HalCreatedDate, HalJournal,
      HalIssue, HalBook, HalOrganizations, Validated({"en_title_s"})>>

HalHashKeys ==
    {"docid", "citationRef_s", "citationFull_s", "en_title_s", "en_keyword_s",
     "en_abstract_s", "authIdForm_i", "authFullNameFormIDPersonIDIDHal_fs",
     "authFirstName_s", "authLastName_s", "authIdHasStructure_fs", "labStructId_i",
     "docType_s", "publicationDate_tdate", "publicationDate_s", "producedDate_tdate"}

-----------------------------------------------------------------------------
(* ScanR.  The document is under "_source" in the payload.                 *)

ScanrTitles == Plain({"title"})

ScanrAbstracts == Plain({"summary"})

ScanrDocumentType == Plain({"type"})

\* The domains of SUDOC are concepts of IdRef, asked from its SPARQL endpoint.
ScanrConcepts == Step({"domains"}, {}, {}, {"idref"})

ScanrContributions == Step({"authors"}, {}, {"authors"}, {})

ScanrIssuedDate == Date("publicationDate")

\* A document with no source at all, rather than an empty one.
ScanrJournal == Step({"source"}, {}, {"source"}, {})

ScanrBook == Plain({"source"})

ScanrIdentifiers == Plain({"externalIds"})

ScanrSteps ==
    <<ScanrTitles, ScanrAbstracts, ScanrDocumentType, ScanrConcepts, ScanrContributions,
      ScanrIssuedDate, ScanrJournal, ScanrBook, ScanrIdentifiers, Validated({"title"})>>

ScanrHashKeys ==
    {"id", "title", "summary", "type", "productionType", "publicationDate", "domains",
     "affiliations", "authors", "externalIds"}

-----------------------------------------------------------------------------
(* OpenAlex.  There is always a title, possibly empty.                     *)

OpenAlexTitle == Plain({"title", "language"})

OpenAlexAbstract == Plain({"abstract_inverted_index"})

OpenAlexDocumentType == Plain({"type"})

OpenAlexContributions == Step({"authorships"}, {}, {"authorships"}, {})

OpenAlexConcepts == Plain({"concepts"})

OpenAlexIdentifiers == Plain({"ids"})

OpenAlexManifestations == Plain({"locations"})

\* A journal without a name makes an issue without an identifier.
OpenAlexJournal == Step({"primary_location"}, {}, {"primary_location"}, {})

OpenAlexIssue == Step({"biblio"}, {}, {"biblio"}, {})

OpenAlexCreatedDate == Date("created_date")

OpenAlexIssuedDate == Date("publication_date")

\* HAL_ID_FROM_HAL_URL, from the pages of the manifestations.
OpenAlexInference == Plain({"locations"})

OpenAlexSteps ==
    <<OpenAlexTitle, OpenAlexAbstract, OpenAlexDocumentType, OpenAlexContributions,
      OpenAlexConcepts, OpenAlexIdentifiers, OpenAlexManifestations, OpenAlexJournal,
      OpenAlexIssue, OpenAlexCreatedDate, OpenAlexIssuedDate, OpenAlexInference>>

OpenAlexHashKeys ==
    {"id", "ids", "title", "type", "concepts", "authorships", "created_date",
     "publication_date"}

-----------------------------------------------------------------------------
(* Scopus                                                                  *)

ScopusTitle == Plain({"dc:title"})

ScopusAbstract == Plain({"dc:description"})

ScopusDocumentType == Plain({"subtype"})

ScopusIdentifiers == Plain({"prism:doi", "pubmed-id"})

\* The element is there and empty.
ScopusConcepts == Step({"authkeywords"}, {}, {"authkeywords"}, {})

\* An author without rank, identifier or name.
ScopusContributors == Step({"author"}, {}, {"author"}, {})

ScopusAffiliations == Step({"affiliation"}, {}, {"affiliation"}, {})

\* Or no date at all, which is no element to read.
ScopusIssuedDate == Date("prism:coverDate")

ScopusJournal == Plain({"prism:issn", "prism:eIssn", "prism:publicationName", "source-id"})

ScopusIssue == Plain({"prism:volume", "prism:issueIdentifier", "prism:pageRange"})

ScopusBook == Plain({"prism:publicationName", "prism:isbn"})

ScopusSteps ==
    <<ScopusTitle, ScopusAbstract, ScopusDocumentType, ScopusIdentifiers, ScopusConcepts,
      ScopusContributors, ScopusAffiliations, ScopusIssuedDate, ScopusJournal, ScopusIssue,
      ScopusBook, Validated({"dc:title"})>>

ScopusHashKeys ==
    {"prism:url", "dc:identifier", "dc:title", "dc:description", "subtype",
     "prism:coverDate", "prism:doi", "prism:issn", "authkeywords", "affiliation", "author"}

-----------------------------------------------------------------------------
(* IdRef: AbesRDFReferencesConverter, what its three subclasses share      *)

AbesAbstracts == Plain({"dcterms:abstract"})

(* Each contributor is a document to fetch; an identifier of no known kind *)
(* is logged.                                                              *)
AbesContributions == Step({"marcrel"}, {}, {}, {"contributor"})

(* The order of convert, for the steps of a subclass: resource leads from  *)
(* an article to its journal, container makes its issue, or the book.      *)
AbesSteps(titles, identifiers, types, contributions, resource, container) ==
    <<titles, AbesAbstracts, identifiers, types, contributions, resource, container>>

-----------------------------------------------------------------------------
(* IdRef: SUDOC                                                            *)

SudocTitles == Plain({"dc:title"})

SudocDocumentType == Plain({"rdf:type"})

\* From the graph at hand, without a request.
SudocContributions == Plain({"marcrel"})

\* The record of the journal is fetched from SUDOC: for the base class, then again.
SudocResource == Step({"dcterms:isPartOf"}, {}, {}, {"sudoc"})

\* What the journal says is in its own record, the issue has no more than that.
SudocJournal == Plain({})

\* Without publisher the variable is never assigned.
SudocBook == Step({"bibo:isbn10", "bibo:isbn13", "dc:publisher"}, {}, {"dc:publisher"}, {})

SudocUntitled == Step({}, {"dc:title"}, {}, {})

SudocCreatedDate == Date("dcterms:created")

SudocIssuedDate == Date("dc:date")

\* The subjects of which the record is the object: their URLs are not guarded, the others are.
SudocManifestations ==
    Step({"subject of", "bibo:uri", "rdam:P30135"}, {}, {"subject of"}, {})

\* An authority no solver is for, or the SPARQL endpoint of IdRef.
SudocSubjects == Step({"dcterms:subject"}, {}, {"dcterms:subject"}, {"idref"})

SudocSteps ==
    AbesSteps(SudocTitles, Plain({}), SudocDocumentType, SudocContributions,
              SudocResource, SudocBook)
    \o <<SudocUntitled, SudocCreatedDate, SudocIssuedDate, SudocManifestations,
         SudocSubjects, SudocResource, SudocJournal>>

\* The type of dc, where the conversion reads that of rdf.
SudocHashKeys == {"dc:title", "dc:type", "dcterms:abstract"}

-----------------------------------------------------------------------------
(* IdRef: Science Plus                                                     *)

SciencePlusTitles == Plain({"dcterms:title"})

SciencePlusDocumentType == Plain({"rdf:type"})

SciencePlusResource == Step({"isPartOfThisJournal"}, {}, {}, {"science plus"})

\* An article of a journal without an issue.
SciencePlusIssue == Step({"dcterms:isPartOf"}, {}, {"dcterms:isPartOf"}, {"science plus"})

SciencePlusUntitled == Step({}, {"dcterms:title"}, {}, {})

SciencePlusSubjects == Step({"dcterms:subject"}, {}, {"dcterms:subject"}, {"idref"})

SciencePlusDoi == Plain({"doi"})

SciencePlusSteps ==
    AbesSteps(SciencePlusTitles, Plain({}), SciencePlusDocumentType, AbesContributions,
              SciencePlusResource, SciencePlusIssue)
    \o <<SciencePlusUntitled, SciencePlusSubjects, SciencePlusDoi>>

SciencePlusHashKeys == {"dcterms:title", "dcterms:abstract", "rdf:type"}

-----------------------------------------------------------------------------
(* IdRef: Persee                                                           *)

PerseeTitles == Plain({"dcterms:title", "dcterms:language"})

PerseeIdentifiers == Plain({"bibo:doi"})

PerseeDocumentType == Plain({"rdf:type"})

PerseeResource == Step({"dcterms:isPartOf"}, {}, {}, {"persee"})

PerseeJournal == Plain({})

PerseeIssuedDate == Date("dateOfPrintPublication")

PerseeCreatedDate == Date("dateOfPublication")

PerseeConcepts == Plain({"dcterms:subject"})

\* A page that is not a string cannot be appended.
PerseePage == Step({"bibo:pageStart", "bibo:pageEnd"}, {}, {"bibo:pageStart", "bibo:pageEnd"}, {})

PerseeSteps ==
    AbesSteps(PerseeTitles, PerseeIdentifiers, PerseeDocumentType, AbesContributions,
              PerseeResource, PerseeJournal)
    \o <<PerseeIssuedDate, PerseeCreatedDate, PerseeConcepts, PerseePage,
         Validated({"dcterms:title"})>>

PerseeHashKeys ==
    {"rdf:type", "dcterms:title", "dcterms:abstract", "dateOfPublication",
     "dateOfPrintPublication"}

-----------------------------------------------------------------------------
(* IdRef: OpenEdition                                                      *)

\* The elements down to the record.
OpenEditionRoot == Step({"record"}, {"record"}, {}, {})

OpenEditionTitle == Plain({"title", "language"})

OpenEditionAbstracts == Plain({"abstract", "description", "language"})

OpenEditionSubjects == Plain({"subject"})

\* An identifier without its scheme.
OpenEditionIdentifiers == Step({"identifier"}, {}, {"identifier"}, {})

OpenEditionDocumentType == Plain({"type"})

OpenEditionIssuedDate == Date("issued")

OpenEditionCreatedDate == Date("created")

OpenEditionJournal == Plain({"publisher"})

OpenEditionIssue == Plain({"rights"})

OpenEditionContributions == Plain({"creator", "contributor"})

OpenEditionSteps ==
    <<OpenEditionRoot, OpenEditionTitle, OpenEditionAbstracts, OpenEditionSubjects,
      OpenEditionIdentifiers, OpenEditionDocumentType, OpenEditionIssuedDate,
      OpenEditionCreatedDate, OpenEditionJournal, OpenEditionIssue,
      OpenEditionContributions>>

OpenEditionHashKeys ==
    {"title", "abstract", "type", "language", "identifier", "subject", "issued", "created"}

-----------------------------------------------------------------------------
(* IdRef: what its own endpoint says of a publication                      *)

IdrefBasicIssuedDate == Date("date")

IdrefBasicTitles == Plain({"title", "altLabel", "note"})

IdrefBasicSubjects == Step({"subject"}, {}, {"subject"}, {"idref"})

IdrefBasicDocumentType == Plain({"type"})

IdrefBasicNames == Step({"contributors"}, {}, {}, {"contributor"})

IdrefBasicIdentifiers == Plain({"equivalent"})

IdrefBasicSteps ==
    <<IdrefBasicIssuedDate, IdrefBasicTitles, IdrefBasicSubjects, IdrefBasicDocumentType,
      IdrefBasicNames, IdrefBasicIdentifiers>>

IdrefBasicHashKeys == {"uri", "role", "title", "type", "altLabel", "subject"}

-----------------------------------------------------------------------------
(* The converter of a result, chosen by its formatter                      *)

Formatters == {"HAL", "SCANR", "OPEN_ALEX", "SCOPUS", "SUDOC_RDF", "SCIENCE_PLUS_RDF",
               "PERSEE_RDF", "OPEN_EDITION", "IDREF_SPARQL"}

Steps(formatter) ==
    CASE formatter = "HAL" -> HalSteps
      [] formatter = "SCANR" -> ScanrSteps
      [] formatter = "OPEN_ALEX" -> OpenAlexSteps
      [] formatter = "SCOPUS" -> ScopusSteps
      [] formatter = "SUDOC_RDF" -> SudocSteps
      [] formatter = "SCIENCE_PLUS_RDF" -> SciencePlusSteps
      [] formatter = "PERSEE_RDF" -> PerseeSteps
      [] formatter = "OPEN_EDITION" -> OpenEditionSteps
      [] formatter = "IDREF_SPARQL" -> IdrefBasicSteps

HashKeys(formatter) ==
    CASE formatter = "HAL" -> HalHashKeys
      [] formatter = "SCANR" -> ScanrHashKeys
      [] formatter = "OPEN_ALEX" -> OpenAlexHashKeys
      [] formatter = "SCOPUS" -> ScopusHashKeys
      [] formatter = "SUDOC_RDF" -> SudocHashKeys
      [] formatter = "SCIENCE_PLUS_RDF" -> SciencePlusHashKeys
      [] formatter = "PERSEE_RDF" -> PerseeHashKeys
      [] formatter = "OPEN_EDITION" -> OpenEditionHashKeys
      [] formatter = "IDREF_SPARQL" -> IdrefBasicHashKeys

\* The fields a conversion reads.
Reads(formatter) == UNION {Steps(formatter)[i].reads : i \in DOMAIN Steps(formatter)}

\* The flaws a conversion cannot stand, and the endpoints it depends on.
Flaws(formatter) ==
    UNION {Steps(formatter)[i].format \cup Steps(formatter)[i].other : i \in DOMAIN Steps(formatter)}

Endpoints(formatter) == UNION {Steps(formatter)[i].asks : i \in DOMAIN Steps(formatter)}

(* How a step may end, when the payload has these flaws and these          *)
(* endpoints are down.  Of a field with two kinds of flaws either may be   *)
(* the case.                                                               *)
StepOutcomes(step, flaws, down) ==
    LET raised == {e \in {"format", "other"} : step[e] \cap flaws # {}}
    IN  CASE raised # {} -> raised
          [] raised = {} /\ step.asks \cap down # {} -> {"external"}
          [] OTHER -> {"done"}

(* How convert may end: with the first exception its steps raise, or with  *)
(* a reference.                                                            *)
Outcomes(formatter, flaws, down) ==
    LET ends == [i \in DOMAIN Steps(formatter) |->
                   StepOutcomes(Steps(formatter)[i], flaws, down)]
        raising == {i \in DOMAIN ends : ends[i] # {"done"}}
    IN  IF raising = {} THEN {"converted"}
        ELSE ends[CHOOSE i \in raising : \A j \in raising : i <= j]

-----------------------------------------------------------------------------
(* The hash of a payload tells it from another by the hashed fields that   *)
(* changed between them.  A key of a dictionary is looked for at the top   *)
(* of the payload, an element of XML at any depth, a predicate on the      *)
(* subject of the record.                                                  *)

TopLevel(formatter) == IF formatter = "SCANR" THEN {} ELSE Reads(formatter) \cup HashKeys(formatter)

\* Slip: the values of the keys are taken once, whatever they become.
JsonDigestTitle(formatter, changed) == changed \cap {"title", "en_title_s"}

JsonDigest(formatter, changed) == changed \cap HashKeys(formatter) \cap TopLevel(formatter)

XmlDigest(formatter, changed) == changed \cap HashKeys(formatter)

RdfDigest(formatter, changed) == changed \cap HashKeys(formatter)

Digest(formatter, changed) ==
    CASE formatter \in {"HAL", "SCANR", "OPEN_ALEX", "IDREF_SPARQL"} -> JsonDigest(formatter, changed)
      [] formatter \in {"SCOPUS", "OPEN_EDITION"} -> XmlDigest(formatter, changed)
      [] formatter \in {"SUDOC_RDF", "SCIENCE_PLUS_RDF", "PERSEE_RDF"} -> RdfDigest(formatter, changed)

=============================================================================
