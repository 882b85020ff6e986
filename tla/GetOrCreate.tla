---------------------------- MODULE GetOrCreate ----------------------------
(***************************************************************************)
(* The records that references share: contributors, concepts, types of     *)
(* document, organizations, issues, journals, books.                       *)
(*                                                                         *)
(* Each conversion asks for the records of its reference one after the     *)
(* other: it looks for a row, and inserts one when there is none, in a     *)
(* transaction that other conversions overlap.  What keeps two rows apart  *)
(* is a unique index (contributors, concepts by uri, types of document,    *)
(* issues, ISBNs of books), a trigger (ISSNs of journals) or nothing       *)
(* (labels, organizations, titles of books, identifiers of journals in     *)
(* their source).  A violation is retried once, those of a column that     *)
(* must have a value included.  At the end the recorder merges the objects *)
(* that the conversion has held since it read them.                        *)
(*                                                                         *)
(* The dereferencing job rewrites the concepts meanwhile.  The rows are    *)
(* those of one source.  A transaction reads and writes in one step when   *)
(* it makes no other call; the INSERT and the COMMIT of a creation are two *)
(* steps, since that is where two creations meet.  The coroutines gathered *)
(* for the concepts of one reference are run one after the other.          *)
(***************************************************************************)
EXTENDS Integers, Sequences, SequencesExt, Bags, Authorities

CONSTANTS
    Conversions,   \* the conversions of references that may run
    Jobs,          \* the runs of the dereferencing job
    Starts,        \* the rows there may be, what the conversions may ask for and
                   \* the runs of the job that may be launched
    JelProxy,      \* whether JEL concepts are asked from a SPARQL proxy
    None           \* no key

ASSUME GetOrCreateAssumption ==
    /\ IsFiniteSet(Conversions) /\ IsFiniteSet(Jobs)
    /\ JelProxy \in BOOLEAN

(* A demand: its kind, the keys that a unique index or the trigger guards  *)
(* (ids), the keys of the first lookup nothing guards (soft: the issn_l of *)
(* a journal), the key of the last resort (name: the label of a concept,   *)
(* the identifier of an organization or of a journal in the source, the    *)
(* title of a book), and what the reference says of the record (says).     *)
(* A name it says may be None: none was given.                             *)

VARIABLES
    rows,       \* the rows, in the order of their insertion
    todo,       \* what each conversion still asks for, the current demand first
    at,         \* where each conversion is
    retried,    \* whether the current demand of a conversion is a new attempt
    looked,     \* what complete_information knows of the current concept
    made,       \* the content a conversion is about to insert
    held,       \* the objects a conversion holds for its reference
    why,        \* why a conversion failed
    beside,     \* the conversions each conversion overlapped (history)
    named,      \* the names that conversions recorded, by row (history)
    job         \* the state of each run of the job

demanding == <<todo, retried, looked, made>>
history == <<beside, named>>
vars == <<rows, demanding, at, held, why, history, job>>

Kinds == {"contributor", "named contributor", "label", "concept", "document type",
          "organization", "issue", "journal", "book"}

Running == {t \in Conversions : at[t] \notin {"waiting", "recorded", "failed"}}

Committed == {i \in DOMAIN rows : rows[i].committed}

Demand(t) == Head(todo[t])

-----------------------------------------------------------------------------
(* The lookups and the constraints                                         *)

\* By name or by identifier.
ContributorMatch(d, r) == r.ids = d.ids

\* By uri, or by label; a label sought is that of no concept with a uri.
ConceptMatch(d, r) == IF d.kind = "label" THEN r.name = d.name ELSE r.ids = d.ids

DocumentTypeMatch(d, r) == r.ids = d.ids

\* By identifier in the source.
OrganizationMatch(d, r) == r.name = d.name

IssueMatch(d, r) == r.ids = d.ids

\* Slip: the ISSN-L only.
JournalMatchSoft(d, r) == r.soft \cap d.soft # {}

\* By any ISSN, any eISSN or the ISSN-L.
JournalMatch(d, r) == r.ids \cap d.ids # {} \/ r.soft \cap d.soft # {}

\* By any ISBN.
BookMatch(d, r) == r.ids \cap d.ids # {}

\* The rows the first lookup of a demand finds.
FirstMatch(d, r) ==
    /\ r.kind = d.kind
    /\ CASE d.kind \in {"contributor", "named contributor"} -> ContributorMatch(d, r)
         [] d.kind \in {"label", "concept"} -> ConceptMatch(d, r)
         [] d.kind = "document type" -> DocumentTypeMatch(d, r)
         [] d.kind = "organization" -> OrganizationMatch(d, r)
         [] d.kind = "issue" -> IssueMatch(d, r)
         [] d.kind = "journal" -> JournalMatch(d, r)
         [] d.kind = "book" -> BookMatch(d, r)

\* Slip: journals are not looked for by their identifier in the source.
SecondMatchTitle(d, r) == d.kind = "book" /\ d.name # None /\ r.kind = "book" /\ r.name = d.name

\* A second lookup, for two kinds: by identifier in the source or by title.
SecondMatch(d, r) ==
    /\ d.kind \in {"journal", "book"} /\ d.name # None
    /\ r.kind = d.kind /\ r.name = d.name

\* What a unique index or the trigger on the ISSNs rejects.
Violates(d, r) == r.kind = d.kind /\ r.ids \cap d.ids # {}

(* A column that must have a value would have none: the name of a          *)
(* contributor or of an organization, the value of a label, the identifier *)
(* of a journal in the source.                                             *)
Lacks(d) ==
    \/ d.kind \in {"contributor", "organization"} /\ d.says.name = None
    \/ d.kind \in {"label", "journal"} /\ d.name = None

Found(d) == {i \in Committed : FirstMatch(d, rows[i])}

FoundByName(d) == {i \in Committed : SecondMatch(d, rows[i])}

(* An INSERT waits for the end of the transactions that inserted the same  *)
(* key of a unique index; the trigger does not see their rows, and a       *)
(* column without value is rejected before.                                *)
MustWait(d) ==
    /\ d.kind # "journal" /\ ~Lacks(d)
    /\ \E i \in DOMAIN rows \ Committed : Violates(d, rows[i])

\* A record under the same guarded or unguarded key.
SameRecord(r, s) ==
    /\ r.kind = s.kind
    /\ \/ r.ids \cap s.ids # {} \/ r.soft \cap s.soft # {}
       \/ r.name = s.name /\ r.name # None /\ r.kind \in {"label", "organization", "journal", "book"}

\* The keys that the records of a kind have, as the converters build them.
WellKeyed(d) ==
    /\ d.kind \in Kinds
    /\ d.kind \in {"contributor", "named contributor", "concept", "document type", "issue"} =>
         \E key \in d.ids : d.ids = {key}
    /\ d.kind \in {"label", "organization"} => d.ids = {}
    /\ d.kind = "organization" => d.name # None
    /\ d.kind # "journal" => d.soft = {}

-----------------------------------------------------------------------------
(* The contents of the rows                                                *)

\* A contributor: its name, the names it had, its external identifiers.
NewContributor(d) == [name |-> d.says.name, variants |-> {}, codes |-> {}]

(* A concept: whether it is flagged as dereferenced, and its labels: whose *)
(* words they are, and who inserted them.  Those of an authority stand for *)
(* whatever labels it gave, perhaps none.                                  *)
NewConcept(solved, writer) ==
    [flag |-> solved,
     labels |-> {<<IF solved THEN "authority" ELSE "reference", writer>>}]

\* Slip: the former name is dropped.
RenamedOver(c, name) == [c EXCEPT !.name = name]

(* _update_contributor_name, and likewise for the structured name: the     *)
(* name it had becomes a variant.                                          *)
Renamed(c, name) ==
    IF c.name = name THEN c
    ELSE [c EXCEPT !.name = name, !.variants = @ \cup {c.name}]

\* merge_organization: a set of objects, so equal identifiers add up.
Merged(codes, others) == codes (+) others

(* What a conversion inserts: the two kinds of contributors alike, a       *)
(* concept known by its label only, what solve made, or nothing more than  *)
(* the keys.                                                               *)
Content(t) ==
    LET d == Demand(t)
    IN  CASE d.kind \in {"contributor", "named contributor"} -> NewContributor(d)
          [] d.kind = "label" -> NewConcept(FALSE, t)
          [] d.kind \in {"concept", "organization"} -> made[t]
          [] OTHER -> <<>>

(* merge of a detached object: every attribute it has loaded replaces that *)
(* of the row, changed or not.  The collections (identifiers, labels) are  *)
(* not loaded when a contributor was created, or a concept was found in    *)
(* bulk or by its label.                                                   *)
Overwritten(kind, old, object) ==
    IF object.loaded THEN object.is
    ELSE CASE kind = "contributor" -> [object.is EXCEPT !.codes = old.codes]
           [] kind \in {"concept", "label"} -> [old EXCEPT !.flag = object.is.flag]
           [] OTHER -> object.is

ContentFits(kind, c) ==
    /\ kind = "contributor" => c = [name |-> c.name, variants |-> c.variants, codes |-> c.codes]
    /\ kind = "concept" => c = [flag |-> c.flag, labels |-> c.labels] /\ c.flag \in BOOLEAN

\* Whether a concept has labels that an authority gave.
HasAuthority(labels) == \E l \in labels : l[1] = "authority"

IsRow(r) ==
    /\ r = [kind |-> r.kind, ids |-> r.ids, soft |-> r.soft, name |-> r.name, says |-> r.says,
            by |-> r.by, committed |-> r.committed, is |-> r.is]
    /\ WellKeyed(r) /\ ~Lacks(r) /\ r.committed \in BOOLEAN
    /\ ContentFits(r.kind, r.is)

IsDemand(d) ==
    /\ WellKeyed(d)
    /\ d.kind = "organization" => /\ d.says.source \in {"hal", "scopus"}
                                  /\ d.says.name = None => d.says.source = "scopus"
    /\ d.kind = "concept" => Completion(d.says.source, d.says.known) = "completed"

IsSequence(s) == s \in Seq(Range(s))

(* The rows there may be are committed, and no two of them are the same    *)
(* record; the organizations come from HAL, which names them, and Scopus,  *)
(* and the concepts asked for can be completed.                            *)
ASSUME StartsAssumption ==
    \A s \in Starts :
        /\ IsSequence(s.rows)
        /\ \A i \in DOMAIN s.rows :
             /\ IsRow(s.rows[i]) /\ s.rows[i].committed
             /\ s.rows[i].kind = "concept" /\ s.rows[i].is.flag =>
                  HasAuthority(s.rows[i].is.labels)
        /\ \A i, j \in DOMAIN s.rows : SameRecord(s.rows[i], s.rows[j]) => i = j
        /\ DOMAIN s.todo = Conversions
        /\ \A t \in Conversions :
             /\ IsSequence(s.todo[t])
             /\ \A k \in DOMAIN s.todo[t] : IsDemand(s.todo[t][k])

-----------------------------------------------------------------------------
(* A conversion                                                            *)

FirstStep(d) == IF d.kind = "concept" /\ d.says.bulk THEN "in bulk" ELSE "looking"

Fail(t, reason) ==
    /\ at' = [at EXCEPT ![t] = "failed"]
    /\ why' = [why EXCEPT ![t] = reason]
    /\ UNCHANGED <<rows, demanding, held, history, job>>

Goto(t, place) ==
    /\ at' = [at EXCEPT ![t] = place]
    /\ UNCHANGED <<rows, todo, retried, held, why, history, job>>

\* On to the next demand, or to the recorder after the last one.
NextDemand(t) ==
    /\ todo' = [todo EXCEPT ![t] = Tail(@)]
    /\ retried' = [retried EXCEPT ![t] = FALSE]
    /\ looked' = [looked EXCEPT ![t] = {}]
    /\ made' = [made EXCEPT ![t] = <<>>]
    /\ at' = [at EXCEPT ![t] = IF Len(todo[t]) = 1 THEN "recording"
                               ELSE FirstStep(todo[t][2])]

(* The conversion keeps the object of row i.  A contributor with an        *)
(* identifier is renamed at once, in memory; its external identifiers come *)
(* next.                                                                   *)
Hold(t, i, content, loaded) ==
    LET d == Demand(t)
        object == [row |-> i, loaded |-> loaded, says |-> d.says,
                   is |-> IF d.kind = "contributor" THEN Renamed(content, d.says.name)
                          ELSE content]
    IN  /\ held' = [held EXCEPT ![t] = Append(@, object)]
        /\ IF d.kind = "contributor"
           THEN /\ at' = [at EXCEPT ![t] = "identifying"]
                /\ UNCHANGED demanding
           ELSE NextDemand(t)
        /\ UNCHANGED <<why, history, job>>

Begin(t) ==
    /\ at[t] = "waiting"
    /\ at' = [at EXCEPT ![t] = IF todo[t] = <<>> THEN "recording" ELSE FirstStep(Demand(t))]
    /\ beside' = [u \in Conversions |->
                    IF u = t THEN Running
                    ELSE IF u \in Running THEN beside[u] \cup {t} ELSE beside[u]]
    /\ UNCHANGED <<rows, demanding, held, why, named, job>>

\* The caches of _contributions: a contributor is looked for once per reference.
Cached(t) ==
    /\ Demand(t).kind \in {"contributor", "named contributor"}
    /\ \E k \in DOMAIN held[t] : FirstMatch(Demand(t), rows[held[t][k].row])

Reuse(t) ==
    /\ at[t] = "looking" /\ Cached(t)
    /\ NextDemand(t)
    /\ UNCHANGED <<rows, held, why, history, job>>

(* _get_or_create_concepts_by_uri asks for the concepts of a reference by  *)
(* one query, which does not load their labels.                            *)
LookInBulk(t) ==
    /\ at[t] = "in bulk"
    /\ \/ \E i \in Found(Demand(t)) :
            /\ Hold(t, i, rows[i].is, FALSE)
            /\ UNCHANGED rows
       \/ /\ Found(Demand(t)) = {}
          /\ Goto(t, "looking")
          /\ UNCHANGED <<looked, made>>

(* A new attempt at an issue does find the row, and then gives it the      *)
(* journal of the reference, which add() has put in the session of the     *)
(* first attempt with the issue that was rejected: it is still there.      *)
JournalIsTaken(t) == Demand(t).kind = "issue" /\ retried[t]

(* The first lookup.  For a concept, complete_information comes first, and *)
(* again at each new attempt, with what it has completed before.           *)
Look(t) ==
    LET d == Demand(t)
        known == IF d.kind # "concept" THEN {}
                 ELSE IF looked[t] = {} THEN d.says.known ELSE looked[t]
        completion == IF d.kind # "concept" THEN "completed"
                      ELSE Completion(d.says.source, known)
    IN  /\ at[t] = "looking" /\ ~Cached(t)
        /\ \/ completion # "completed" /\ Fail(t, completion)
           \/ /\ completion = "completed"
              /\ \E i \in Found(d) :
                   \/ JournalIsTaken(t) /\ Fail(t, "InvalidRequestError")
                   \/ /\ ~JournalIsTaken(t)
                      /\ Hold(t, i, rows[i].is, d.kind # "label")
                      /\ UNCHANGED rows
           \/ /\ completion = "completed" /\ Found(d) = {}
              /\ looked' = [looked EXCEPT ![t] = IF d.kind = "concept"
                              THEN Known(d.says.source, known) ELSE {}]
              /\ Goto(t, CASE d.kind \in {"journal", "book"} -> "looking again"
                           [] d.kind \in {"concept", "organization"} -> "solving"
                           [] OTHER -> "inserting")
              /\ UNCHANGED made

\* The second lookup, which raises when it finds two rows (one_or_none).
LookAgain(t) ==
    LET matches == FoundByName(Demand(t))
    IN  /\ at[t] = "looking again"
        /\ \/ Cardinality(matches) > 1 /\ Fail(t, "MultipleResultsFound")
           \/ \E i \in matches :
                /\ matches = {i}
                /\ Hold(t, i, rows[i].is, TRUE)
                /\ UNCHANGED rows
           \/ /\ matches = {}
              /\ Goto(t, "inserting")
              /\ UNCHANGED <<looked, made>>

(* The authority is asked: for a concept between two transactions, for an  *)
(* organization within one.                                                *)
Solve(t) ==
    LET d == Demand(t)
        source == d.says.source
    IN  /\ at[t] = "solving"
        /\ \E answer \in Answers :
             LET outcome == IF d.kind = "concept"
                            THEN ConceptOutcome(Solver(source, JelProxy), answer)
                            ELSE OrganizationOutcome(source, answer)
             IN  \/ /\ outcome = "concept"
                    /\ made' = [made EXCEPT ![t] = NewConcept(TRUE, t)]
                    /\ Goto(t, "inserting") /\ UNCHANGED looked
                 \/ /\ outcome = "organization"
                    /\ made' = [made EXCEPT ![t] = [codes |-> SetToBag(
                                  OrganizationCodes(source, d.name, d.says.codes))]]
                    /\ Goto(t, "matching") /\ UNCHANGED looked
                 \/ /\ outcome = "DereferencingError"
                    /\ made' = [made EXCEPT ![t] =
                                  IF d.kind = "concept" THEN NewConcept(FALSE, t)
                                  ELSE [codes |-> EmptyBag]]
                    /\ Goto(t, "inserting") /\ UNCHANGED looked
                 \/ /\ outcome \notin {"concept", "organization", "DereferencingError"}
                    /\ Fail(t, outcome)

\* An identifier of an organization with one of the types and one of the values.
Resembles(codes, others) ==
    \E c \in BagToSet(codes) :
      /\ c.type \in {o.type : o \in BagToSet(others)}
      /\ c.value \in {o.value : o \in BagToSet(others)}

(* An organization with other identifiers than those just solved, but one  *)
(* in common, takes them; with as many, it does not prevent the insertion. *)
Match(t) ==
    LET codes == made[t].codes
        similar == {i \in Committed : /\ rows[i].kind = "organization"
                                      /\ Resembles(rows[i].is.codes, codes)}
    IN  /\ at[t] = "matching"
        /\ \/ \E i \in similar :
                LET old == rows[i].is.codes
                    merged == [codes |-> Merged(old, codes)]
                IN  IF BagCardinality(old) # BagCardinality(codes)
                    THEN /\ rows' = [rows EXCEPT ![i].is = merged]
                         /\ Hold(t, i, merged, TRUE)
                    ELSE Goto(t, "inserting") /\ UNCHANGED <<looked, made>>
           \/ /\ similar = {}
              /\ Goto(t, "inserting")
              /\ UNCHANGED <<looked, made>>

\* Slip: an INSERT is retried whatever the attempt, and never given up.
InsertInVain(t) ==
    LET d == Demand(t)
    IN  /\ at[t] = "inserting" /\ ~MustWait(d)
        /\ IF Lacks(d) \/ \E i \in Committed : Violates(d, rows[i])
           THEN UNCHANGED vars
           ELSE /\ rows' = Append(rows, [kind |-> d.kind, ids |-> d.ids, soft |-> d.soft,
                      name |-> d.name, says |-> d.says, by |-> t, committed |-> FALSE,
                      is |-> Content(t)])
                /\ at' = [at EXCEPT ![t] = "committing"]
                /\ UNCHANGED <<demanding, held, why, history, job>>

(* The INSERT.  A violation, whatever it is of, is retried once from the   *)
(* lookup, in a new transaction; a second one is an AssertionError.        *)
Insert(t) ==
    LET d == Demand(t)
        violated == Lacks(d) \/ \E i \in Committed : Violates(d, rows[i])
    IN  /\ at[t] = "inserting" /\ ~MustWait(d)
        /\ \/ violated /\ retried[t] /\ Fail(t, "AssertionError")
           \/ /\ violated /\ ~retried[t]
              /\ retried' = [retried EXCEPT ![t] = TRUE]
              /\ at' = [at EXCEPT ![t] = "looking"]
              /\ UNCHANGED <<rows, todo, looked, made, held, why, history, job>>
           \/ /\ ~violated
              /\ rows' = Append(rows, [kind |-> d.kind, ids |-> d.ids, soft |-> d.soft,
                    name |-> d.name, says |-> d.says, by |-> t, committed |-> FALSE,
                    is |-> Content(t)])
              /\ at' = [at EXCEPT ![t] = "committing"]
              /\ UNCHANGED <<demanding, held, why, history, job>>

\* The COMMIT.  The object of a created row has its collections if it was given any.
Commit(t) ==
    /\ at[t] = "committing"
    /\ \E i \in DOMAIN rows \ Committed :
         /\ rows[i].by = t
         /\ rows' = [rows EXCEPT ![i].committed = TRUE]
         /\ Hold(t, i, rows[i].is, Demand(t).kind # "contributor")

(* update_external_identifiers, in a transaction of its own: the           *)
(* identifiers of the row become those the reference gives.                *)
Identify(t) ==
    /\ at[t] = "identifying"
    /\ rows' = [rows EXCEPT ![Last(held[t]).row].is.codes = Demand(t).says.codes]
    /\ NextDemand(t)
    /\ UNCHANGED <<held, why, history, job>>

(* A contributor that was found and lost its name, in memory.              *)
LosesAName(t) ==
    \E o \in Range(held[t]) : rows[o.row].kind = "contributor" /\ o.is.name = None

(* _create_reference: the objects of the reference are merged into their   *)
(* rows, and none of them is stored when the name of a contributor cannot  *)
(* be.  Identifiers and labels that other transactions have put there      *)
(* since the conversion read them are lost.                                *)
Record(t) ==
    LET Latest(i) == SelectLastInSeq(held[t], LAMBDA o : o.row = i)
    IN  /\ at[t] = "recording"
        /\ \/ LosesAName(t) /\ Fail(t, "IntegrityError")
           \/ /\ ~LosesAName(t)
              /\ rows' = [i \in DOMAIN rows |->
                            IF Latest(i) = 0 THEN rows[i]
                            ELSE [rows[i] EXCEPT !.is =
                                    Overwritten(rows[i].kind, @, held[t][Latest(i)])]]
              /\ named' = named \cup {<<o.row, o.says.name>> :
                            o \in {p \in Range(held[t]) : rows[p.row].kind = "contributor"}}
              /\ at' = [at EXCEPT ![t] = "recorded"]
              /\ UNCHANGED <<demanding, held, why, beside, job>>

-----------------------------------------------------------------------------
(* The dereferencing job                                                   *)

\* Concepts with a uri that have not been dereferenced.
ToDereference == {i \in Committed : rows[i].kind = "concept" /\ ~rows[i].is.flag}

\* A run of the job is launched by the scheduler or by a client.
Launch(j) ==
    /\ job[j].at = "idle"
    /\ job' = [job EXCEPT ![j].at = "picking"]
    /\ UNCHANGED <<rows, demanding, at, held, why, history>>

\* Slip: the concepts the run has tried are picked again.
PickAgain(j) ==
    /\ job[j].at = "picking"
    /\ \/ \E i \in ToDereference :
            job' = [job EXCEPT ![j] = [at |-> "solving", concept |-> i,
                       read |-> rows[i].is, seen |-> @.seen \cup {i}]]
       \/ /\ ToDereference = {}
          /\ job' = [job EXCEPT ![j].at = "ended"]
    /\ UNCHANGED <<rows, demanding, at, held, why, history>>

(* get_random_concept_not_dereferenced, except those already seen; the     *)
(* session keeps the concept with its labels as they are now.              *)
Pick(j) ==
    /\ job[j].at = "picking"
    /\ \/ \E i \in ToDereference \ job[j].seen :
            job' = [job EXCEPT ![j] = [at |-> "solving", concept |-> i,
                       read |-> rows[i].is, seen |-> @.seen \cup {i}]]
       \/ /\ ToDereference \subseteq job[j].seen
          /\ job' = [job EXCEPT ![j].at = "ended"]
    /\ UNCHANGED <<rows, demanding, at, held, why, history>>

(* Only a DereferencingError lets the run go on to another concept; any    *)
(* other exception ends it.                                                *)
Dereference(j) ==
    LET source == rows[job[j].concept].says.source
        completion == Completion(source, {"uri"})
    IN  /\ job[j].at = "solving"
        /\ \E answer \in Answers :
             LET outcome == IF completion # "completed" THEN completion
                            ELSE ConceptOutcome(Solver(source, JelProxy), answer)
             IN  job' = [job EXCEPT ![j].at =
                           CASE outcome = "concept" -> "merging"
                             [] outcome = "DereferencingError" -> "picking"
                             [] OTHER -> "aborted"]
        /\ UNCHANGED <<rows, demanding, at, held, why, history>>

\* Slip: the labels found are not stored.
DereferencedFlagOnly(old, read, j) == [old EXCEPT !.flag = TRUE]

\* The labels of the authority replace the labels that the run has read.
Dereferenced(old, read, j) ==
    [flag |-> TRUE, labels |-> (old.labels \ read.labels) \cup {<<"authority", j>>}]

\* merge and commit.
MergeConcept(j) ==
    LET i == job[j].concept
    IN  /\ job[j].at = "merging"
        /\ rows' = [rows EXCEPT ![i].is = Dereferenced(@, job[j].read, j)]
        /\ job' = [job EXCEPT ![j].at = "picking"]
        /\ UNCHANGED <<demanding, at, held, why, history>>

-----------------------------------------------------------------------------

Init ==
    /\ \E s \in Starts :
         /\ rows = s.rows /\ todo = s.todo
         /\ job = [j \in Jobs |-> [at |-> IF j \in s.jobs THEN "idle" ELSE "ended",
                                   concept |-> 0, read |-> <<>>, seen |-> {}]]
    /\ at = [t \in Conversions |-> "waiting"]
    /\ retried = [t \in Conversions |-> FALSE]
    /\ looked = [t \in Conversions |-> {}]
    /\ made = [t \in Conversions |-> <<>>]
    /\ held = [t \in Conversions |-> <<>>]
    /\ why = [t \in Conversions |-> "nothing"]
    /\ beside = [t \in Conversions |-> {}]
    /\ named = {}

Convert(t) ==
    \/ Reuse(t) \/ LookInBulk(t) \/ Look(t) \/ LookAgain(t) \/ Solve(t)
    \/ Match(t) \/ Insert(t) \/ Commit(t) \/ Identify(t) \/ Record(t)

RunJob(j) == Pick(j) \/ Dereference(j) \/ MergeConcept(j)

Next ==
    \/ \E t \in Conversions : Begin(t) \/ Convert(t)
    \/ \E j \in Jobs : Launch(j) \/ RunJob(j)

Spec == Init /\ [][Next]_vars

(* The event loop runs every task that is ready; the requests to the       *)
(* authorities have timeouts and the database answers.  Nothing says that  *)
(* a conversion or a run of the job begins.                                *)
FairSpec ==
    /\ Spec
    /\ \A t \in Conversions : WF_vars(Convert(t))
    /\ \A j \in Jobs : WF_vars(RunJob(j))


-----------------------------------------------------------------------------
(* Properties                                                              *)

\* The conversions that hold row i, and whether they ever overlapped.
Holders(i) == {t \in Conversions : \E k \in DOMAIN held[t] : held[t][k].row = i}

Apart(S) == \A t, u \in S : u \notin beside[t]

(* One retry is enough for what a unique index or the trigger rejects: the *)
(* next lookup finds the row that rejected the INSERT, whatever the kind   *)
(* of record and the keys it has.  The assertions "cannot occur twice"     *)
(* fail for a record that lacks a value, which is rejected both times, and *)
(* for no other.                                                           *)
RetryFinds == \A t \in Conversions : why[t] = "AssertionError" => Lacks(Demand(t))

(* Two rows for one record, where nothing or only the trigger keeps them   *)
(* apart, are left by two conversions that overlapped: the lookups of a    *)
(* conversion cover every key that makes two records the same.             *)
DuplicatesWereRaced ==
    \A i, j \in Committed :
      i < j /\ SameRecord(rows[i], rows[j]) => rows[j].by \in beside[rows[i].by]

(* A conversion that fails has met a race, a failing authority or a        *)
(* missing value.  Two rows where one was expected, a JEL concept that     *)
(* cannot be completed again and an issue that is found again need         *)
(* overlapping conversions; a record without its mandatory value or a      *)
(* contributor without name gives what the database rejects; the others    *)
(* are failures of an authority that are not turned into a                 *)
(* DereferencingError.                                                     *)
FailuresAreExplained ==
    \A t \in Conversions :
      CASE why[t] = "MultipleResultsFound" -> \E u \in Conversions : beside[u] # {}
        [] why[t] = "DereferencingError" -> beside[t] # {}
        [] why[t] = "InvalidRequestError" -> Demand(t).kind = "issue" /\ beside[t] # {}
        [] why[t] = "AssertionError" -> Lacks(Demand(t))
        [] why[t] = "IntegrityError" ->
             \E o \in Range(held[t]) : rows[o.row].kind = "contributor" /\ o.says.name = None
        [] OTHER -> why[t] \in {"nothing", "ExternalEndpointFailure", "LookupError"}

(* No name that was recorded for a contributor is forgotten, as long as    *)
(* the conversions of references it contributed to do not overlap: it is   *)
(* the name of the contributor or one of its variants.                     *)
NamesKeptApart ==
    \A n \in named :
      Apart(Holders(n[1])) =>
        n[2] \in {rows[n[1]].is.name} \cup rows[n[1]].is.variants

(* A concept flagged as dereferenced has labels of the authority, whatever *)
(* the runs of the job do while a conversion holds it; it takes two        *)
(* conversions that overlap to leave the flag without the labels, and the  *)
(* job will not pick this concept again.                                   *)
FlaggedHasLabels ==
    \A i \in Committed :
      rows[i].kind = "concept" /\ rows[i].is.flag /\ Apart(Holders(i)) =>
        HasAuthority(rows[i].is.labels)

(* Every conversion that begins ends, recorded or failed: an INSERT that   *)
(* waits for another transaction does not wait for ever.                   *)
ConversionsEnd ==
    \A t \in Conversions :
      at[t] # "waiting" ~> at[t] \in {"recorded", "failed"}

(* Every run of the job that is launched ends, though concepts it cannot   *)
(* dereference stay to be picked and conversions undo what it did.         *)
JobsEnd == \A j \in Jobs : job[j].at # "idle" ~> job[j].at \in {"ended", "aborted"}

=============================================================================
