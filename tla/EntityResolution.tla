------------------------- MODULE EntityResolution -------------------------
(***************************************************************************)
(* The registration of retrievals: each is asked for an entity given by    *)
(* identifiers, which may be known already, to one entity or to several.   *)
(*                                                                         *)
(* A registration has two transactions.  The first one looks for the       *)
(* entities that have one of the identifiers, elects one and gives it all  *)
(* of the identifiers; the second one stores the retrieval, and the entity *)
(* if none was found.  Each statement of a transaction reads what others   *)
(* have committed (READ COMMITTED); what the session has loaded is not     *)
(* loaded again, and what it has changed is written to the rows by their   *)
(* primary keys, whatever others have done to these rows meanwhile.  Here  *)
(* the writes of a transaction take place when it commits.                 *)
(*                                                                         *)
(* Values of different types of identifiers are supposed to differ, so     *)
(* that an identifier is its value and Type its type.                      *)
(***************************************************************************)
EXTENDS Integers, FiniteSets, Sequences, SequencesExt

CONSTANTS
    Identifiers,     \* values of identifiers
    Types,           \* types of identifiers
    Type,            \* the type of each identifier
    AlphabeticRank,  \* rank of each type in the order of strings
    Entities,        \* the entities there can be
    Known,           \* those registered before
    Registrations,   \* the registrations there can be
    RowIds,          \* the primary keys of identifiers there can be
    MaxKnown,        \* how many identifiers are registered before, at most
    MaxSubmitted,    \* how many identifiers a registration submits, at most
    None             \* no entity

ASSUME ResolutionAssumption ==
    /\ IsFiniteSet(Identifiers) /\ IsFiniteSet(Types) /\ IsFiniteSet(Entities)
    /\ Type \in [Identifiers -> Types]
    /\ AlphabeticRank \in [Types -> Nat]
    /\ RowIds \subseteq Nat /\ IsFiniteSet(RowIds)
    /\ MaxKnown \in Nat /\ 1..MaxKnown \subseteq RowIds
    /\ Known \subseteq Entities
    /\ None \notin Entities

VARIABLES
    rows,        \* table identifiers: an identifier and its entity by primary key
    entities,    \* table entities
    retrievals,  \* table retrievals: the registration and the entity of each
    pc,          \* where each registration stands
    request,     \* what each registration asks for
    elected,     \* elected_entity of each registration
    todo,        \* identifiers still to take
    mine,        \* identifiers of the elected entity in the session, by key
    loaded,      \* keys of the other identifiers the session has loaded
    renewed,     \* keys whose identifier the session has changed
    moved,       \* keys the session has given to the elected entity
    added,       \* identifiers the session has created for the elected entity
    dropped,     \* keys the session has removed
    before,      \* the entity of each identifier when the registration began (history)
    overlapped   \* registrations that ran while another one did (history)

tables == <<rows, entities, retrievals>>
session == <<elected, todo, mine, loaded, renewed, moved, added, dropped>>
history == <<before, overlapped>>
vars == <<tables, pc, request, session, history>>

\* What a client may submit: at most one identifier of a type (the validator of
\* Entity.identifiers), and none of a type to nullify.  In safe mode the types to
\* nullify are not looked at.
Request ==
    {q \in [fields : (SUBSET Identifiers) \ {{}}, nullify : SUBSET Types, safe : BOOLEAN] :
        /\ \A i, j \in q.fields : Type[i] = Type[j] => i = j
        /\ \A i \in q.fields : Type[i] \notin q.nullify
        /\ q.safe => q.nullify = {}
        /\ Cardinality(q.fields) <= MaxSubmitted}

Row == [what : Identifiers, owner : Entities]

KeysOf(e) == {k \in DOMAIN rows : rows[k].owner = e}

OwnerOf(table, i) ==
    IF \E k \in DOMAIN table : table[k].what = i
    THEN table[CHOOSE k \in DOMAIN table : table[k].what = i].owner
    ELSE None

Owners(table) == [i \in Identifiers |-> OwnerOf(table, i)]

Active == {r \in Registrations : pc[r] \in {"taking", "saving"}}

\* A function without some elements of its domain.
Without(f, S) == [x \in DOMAIN f \ S |-> f[x]]

\* A function that takes one value more.
With(f, x, y) == [z \in DOMAIN f \union {x} |-> IF z = x THEN y ELSE f[z]]

\* A session keeps nothing when its transaction ends.
Forget(r) ==
    /\ mine' = [mine EXCEPT ![r] = <<>>]
    /\ todo' = [todo EXCEPT ![r] = {}]
    /\ loaded' = [loaded EXCEPT ![r] = {}]
    /\ renewed' = [renewed EXCEPT ![r] = {}]
    /\ moved' = [moved EXCEPT ![r] = {}]
    /\ added' = [added EXCEPT ![r] = {}]
    /\ dropped' = [dropped EXCEPT ![r] = {}]

\* The registration ends, and what it knew with it.
End(r, how) ==
    /\ pc' = [pc EXCEPT ![r] = how]
    /\ request' = [request EXCEPT ![r] = None]
    /\ elected' = [elected EXCEPT ![r] = None]
    /\ before' = [before EXCEPT ![r] = None]
    /\ Forget(r)
    /\ UNCHANGED overlapped

\* An exception: the transaction is rolled back and the registration fails.
Fail(r) == End(r, "failed") /\ UNCHANGED tables

-----------------------------------------------------------------------------
(* The resolution                                                          *)

Matching(q) == {e \in entities : \E k \in KeysOf(e) : rows[k].what \in q.fields}

\* The matching entities that may come first: they are sorted by the name of the
\* type of their first identifier, and identifiers are loaded in no order.
Electable(q) ==
    {e \in Matching(q) :
        \E k \in KeysOf(e) : \A f \in Matching(q) \ {e} : \E l \in KeysOf(f) :
            AlphabeticRank[Type[rows[k].what]] <= AlphabeticRank[Type[rows[l].what]]}

\* Removal of the types to nullify from the list that is iterated over: the
\* identifier that follows a removed one is skipped, so that of consecutive ones to
\* remove every second one stays.
Nullified(list, nullify) ==
    LET unwanted == {n \in DOMAIN list : Type[rows[list[n]].what] \in nullify}
    IN  {list[n] : n \in {m \in unwanted :
            \E l \in unwanted : (l - 1) \notin unwanted /\ l..m \subseteq unwanted
                                 /\ l <= m /\ (m - l) % 2 = 0}}

\* What a registration starts with.
Begin(r, q) ==
    /\ pc[r] = "new"
    /\ request' = [request EXCEPT ![r] = q]
    /\ before' = [before EXCEPT ![r] = Owners(rows)]
    /\ overlapped' = IF Active = {} THEN overlapped ELSE overlapped \union Active \union {r}

\* No entity matches: the submitted one will be saved.
FindNone(r, q) ==
    /\ Begin(r, q)
    /\ Matching(q) = {}
    /\ pc' = [pc EXCEPT ![r] = "saving"]
    /\ UNCHANGED <<tables, session>>

\* In safe mode the elected entity is returned as it is.
FindInSafeMode(r, q) ==
    /\ Begin(r, q)
    /\ q.safe
    /\ \E e \in Electable(q) : elected' = [elected EXCEPT ![r] = e]
    /\ pc' = [pc EXCEPT ![r] = "saving"]
    /\ UNCHANGED <<tables, todo, mine, loaded, renewed, moved, added, dropped>>

\* The elected entity loses the types to nullify, and will get the identifiers.
Elect(r, q) ==
    /\ Begin(r, q)
    /\ \E e \in Electable(q) : \E list \in SetToSeqs(KeysOf(e)) :
         LET gone == Nullified(list, q.nullify) IN
         /\ elected' = [elected EXCEPT ![r] = e]
         /\ dropped' = [dropped EXCEPT ![r] = gone]
         /\ mine' = [mine EXCEPT ![r] = [k \in KeysOf(e) \ gone |-> rows[k].what]]
         /\ loaded' = [loaded EXCEPT ![r] = UNION {KeysOf(f) : f \in Matching(q) \ {e}}]
    /\ todo' = [todo EXCEPT ![r] = q.fields]
    /\ pc' = [pc EXCEPT ![r] = "taking"]
    /\ UNCHANGED <<tables, renewed, moved, added>>

\* Outside safe mode.
Find(r, q) == ~q.safe /\ Elect(r, q)

-----------------------------------------------------------------------------
(* take_or_create_identifier, and the end of the transaction               *)

\* The table as the session sees it, and will leave it, its new rows apart.
View(r) ==
    [k \in DOMAIN rows \ dropped[r] |->
        [what |-> IF k \in renewed[r] THEN mine[r][k] ELSE rows[k].what,
         owner |-> IF k \in moved[r] THEN elected[r] ELSE rows[k].owner]]

\* The key of identifier i in the whole table.
Found(r, i) == {k \in DOMAIN View(r) : View(r)[k].what = i}

\* Slip: whoever has the identifier, it is left to him.
IsAnyones(r, k) == TRUE

\* Whether the row found belongs to the elected entity, as far as the session knows.
IsMine(r, k) ==
    k \in DOMAIN mine[r] \/ (k \notin loaded[r] /\ rows[k].owner = elected[r])

SameType(r, i) == {k \in DOMAIN mine[r] : Type[mine[r][k]] = Type[i]}

Taking(r, i) == pc[r] = "taking" /\ i \in todo[r]

Took(r, i) ==
    /\ todo' = [todo EXCEPT ![r] = @ \ {i}]
    /\ UNCHANGED <<tables, pc, request, elected, loaded, history>>

\* The entity has the identifier.
TakeOwn(r, i) ==
    /\ Taking(r, i)
    /\ \E k \in Found(r, i) : IsMine(r, k)
    /\ Took(r, i)
    /\ UNCHANGED <<mine, renewed, moved, added, dropped>>

\* Slip: the foreign key is set instead of the collection, which no validator sees.
TakeByKey(r, i) ==
    /\ Taking(r, i)
    /\ \E k \in Found(r, i) :
         /\ ~IsMine(r, k)
         /\ mine' = [mine EXCEPT ![r] = With(@, k, i)]
         /\ moved' = [moved EXCEPT ![r] = @ \union {k}]
    /\ Took(r, i)
    /\ UNCHANGED <<renewed, added, dropped>>

\* Another entity has it and gives it, for the one of its type that is removed.
TakeFromOther(r, i) ==
    /\ Taking(r, i)
    /\ Cardinality(SameType(r, i)) <= 1
    /\ \E k \in Found(r, i) :
         /\ ~IsMine(r, k)
         /\ mine' = [mine EXCEPT ![r] = With(Without(@, SameType(r, i)), k, i)]
         /\ moved' = [moved EXCEPT ![r] = @ \union {k}]
    /\ dropped' = [dropped EXCEPT ![r] = @ \union SameType(r, i)]
    /\ Took(r, i)
    /\ UNCHANGED <<renewed, added>>

\* Slip: the identifier is attached before the one of its type is removed.
RefuseSecond(r, i) ==
    /\ Taking(r, i)
    /\ SameType(r, i) # {}
    /\ \E k \in Found(r, i) : ~IsMine(r, k)
    /\ Fail(r)

\* The entity has had two identifiers of the type: the validator refuses a third
\* when only one of them has been removed, and the registration fails.
TakeRefused(r, i) ==
    /\ Taking(r, i)
    /\ Cardinality(SameType(r, i)) > 1
    /\ \E k \in Found(r, i) : ~IsMine(r, k)
    /\ Fail(r)

\* Nobody has it: it replaces the one of its type.
Renew(r, i) ==
    /\ Taking(r, i)
    /\ Found(r, i) = {}
    /\ \E k \in SameType(r, i) :
         /\ mine' = [mine EXCEPT ![r][k] = i]
         /\ renewed' = [renewed EXCEPT ![r] = @ \union {k}]
    /\ Took(r, i)
    /\ UNCHANGED <<moved, added, dropped>>

\* Nobody has it, and the entity has none of its type.
Create(r, i) ==
    /\ Taking(r, i)
    /\ Found(r, i) = {}
    /\ SameType(r, i) = {}
    /\ added' = [added EXCEPT ![r] = @ \union {i}]
    /\ Took(r, i)
    /\ UNCHANGED <<mine, renewed, moved, dropped>>

\* Keys no row or session uses, as many as there are identifiers in S.
NewKeys(S) ==
    LET free == RowIds \ (DOMAIN rows \union
                    UNION {DOMAIN mine[r] \union dropped[r] \union loaded[r] : r \in Registrations})
    IN  {k \in free : Cardinality({l \in free : l < k}) < Cardinality(S)}

\* There are keys for the identifiers of S: RowIds bounds the keys.
HasKeysFor(S) == Bijection(NewKeys(S), S) # {}

\* Table t with rows that give the identifiers of S to e.
Insert(t, S, e) ==
    LET value == CHOOSE f \in Bijection(NewKeys(S), S) : TRUE IN
    [k \in DOMAIN value \union DOMAIN t |->
        IF k \in DOMAIN value THEN [what |-> value[k], owner |-> e] ELSE t[k]]

\* (type, value) is unique.
IsUnique(t) == \A k, l \in DOMAIN t : t[k].what = t[l].what => k = l

Written(r) == renewed[r] \union moved[r] \union dropped[r]

\* The rows the session updates still exist, and it creates no duplicate.
CanCommit(r) ==
    /\ renewed[r] \union moved[r] \subseteq DOMAIN rows
    /\ IsUnique(View(r))
    /\ \A k \in DOMAIN View(r) : View(r)[k].what \notin added[r]

\* The end of the first transaction.
Commit(r) ==
    /\ pc[r] = "taking"
    /\ todo[r] = {}
    /\ CanCommit(r)
    /\ HasKeysFor(added[r])
    /\ rows' = Insert(View(r), added[r], elected[r])
    /\ pc' = [pc EXCEPT ![r] = "saving"]
    /\ Forget(r)
    /\ UNCHANGED <<entities, retrievals, request, elected, history>>

\* The transaction fails for what others have done, or for a deadlock with one of
\* them that writes the same row.
CommitFails(r) ==
    /\ pc[r] = "taking"
    /\ todo[r] = {}
    /\ \/ ~CanCommit(r)
       \/ \E s \in Active \ {r} : Written(r) \cap Written(s) # {}
    /\ Fail(r)

-----------------------------------------------------------------------------
(* The retrieval                                                           *)

\* create_retrieval for an entity that was found.
SaveRetrieval(r) ==
    /\ pc[r] = "saving"
    /\ elected[r] # None
    /\ retrievals' = retrievals \union {[by |-> r, entity |-> elected[r]]}
    /\ End(r, "done")
    /\ UNCHANGED <<rows, entities>>

\* Slip: nothing makes (type, value) unique.
SaveAnyway(r) ==
    /\ pc[r] = "saving"
    /\ elected[r] = None
    /\ \E e \in Entities \ entities :
         /\ entities' = entities \union {e}
         /\ rows' = Insert(rows, request[r].fields, e)
         /\ retrievals' = retrievals \union {[by |-> r, entity |-> e]}
    /\ End(r, "done")

\* create_retrieval for the submitted entity, which is saved with its identifiers.
SaveEntity(r) ==
    /\ pc[r] = "saving"
    /\ elected[r] = None
    /\ \A k \in DOMAIN rows : rows[k].what \notin request[r].fields
    /\ HasKeysFor(request[r].fields)
    /\ \E e \in Entities \ entities :
         /\ entities' = entities \union {e}
         /\ rows' = Insert(rows, request[r].fields, e)
         /\ retrievals' = retrievals \union {[by |-> r, entity |-> e]}
    /\ End(r, "done")

\* One of its identifiers has been registered meanwhile.
SaveFails(r) ==
    /\ pc[r] = "saving"
    /\ elected[r] = None
    /\ \E k \in DOMAIN rows : rows[k].what \in request[r].fields
    /\ Fail(r)

-----------------------------------------------------------------------------

Idle == [r \in Registrations |-> {}]

\* The tables of a service that has registered the entities of S: an entity has one
\* identifier of a type, or two that overlapping registrations have given to it.
Registered(S) ==
    {t \in [Identifiers -> S \union {None}] :
        /\ Cardinality({i \in Identifiers : t[i] # None}) <= MaxKnown
        /\ \A e \in S, y \in Types :
             Cardinality({i \in Identifiers : t[i] = e /\ Type[i] = y}) <= 2}

Init ==
    /\ entities = Known
    /\ \E t \in Registered(Known) :
         LET known == {i \in Identifiers : t[i] # None}
             keys == 1..Cardinality(known)
             value == CHOOSE f \in Bijection(keys, known) : TRUE
         IN  rows = [k \in keys |-> [what |-> value[k], owner |-> t[value[k]]]]
    /\ retrievals = {}
    /\ pc = [r \in Registrations |-> "new"]
    /\ request = [r \in Registrations |-> None]
    /\ elected = [r \in Registrations |-> None]
    /\ mine = [r \in Registrations |-> <<>>]
    /\ todo = Idle /\ loaded = Idle /\ renewed = Idle
    /\ moved = Idle /\ added = Idle /\ dropped = Idle
    /\ before = [r \in Registrations |-> None]
    /\ overlapped = {}

Next ==
    \E r \in Registrations :
        \/ \E q \in Request : FindNone(r, q) \/ FindInSafeMode(r, q) \/ Find(r, q)
        \/ \E i \in todo[r] :
              \/ TakeOwn(r, i) \/ TakeFromOther(r, i) \/ TakeRefused(r, i)
              \/ Renew(r, i) \/ Create(r, i)
        \/ Commit(r) \/ CommitFails(r)
        \/ SaveRetrieval(r) \/ SaveEntity(r) \/ SaveFails(r)

Spec == Init /\ [][Next]_vars

-----------------------------------------------------------------------------
(* Properties                                                              *)

TypeOK ==
    /\ DOMAIN rows \subseteq RowIds /\ \A k \in DOMAIN rows : rows[k] \in Row
    /\ IsUnique(rows)
    /\ entities \subseteq Entities
    /\ \A k \in DOMAIN rows : rows[k].owner \in entities
    /\ \A x \in retrievals : x.by \in Registrations /\ x.entity \in entities
    /\ pc \in [Registrations -> {"new", "taking", "saving", "done", "failed"}]
    /\ \A r \in Registrations : request[r] \in Request \union {None}
    /\ elected \in [Registrations -> Entities \union {None}]
    /\ \A r \in Registrations :
         /\ todo[r] \union added[r] \subseteq Identifiers
         /\ DOMAIN mine[r] \union loaded[r] \union Written(r) \subseteq RowIds
         /\ renewed[r] \union moved[r] \subseteq DOMAIN mine[r]

\* What a registration that was alone should have made of the entities t of the
\* identifiers: the elected one has those submitted, which replace its others of
\* the same types, and no other entity loses anything else.
Aligned(t, q, e) ==
    [i \in Identifiers |->
        IF i \in q.fields THEN e
        ELSE IF t[i] = e /\ Type[i] \in {Type[j] : j \in q.fields} \union q.nullify THEN None
        ELSE t[i]]

\* The entities with two identifiers of a type, and the types.
Doubles ==
    {<<rows[k].owner, Type[rows[k].what]>> :
        k \in {x \in DOMAIN rows : \E l \in DOMAIN rows \ {x} :
                rows[l].owner = rows[x].owner /\ Type[rows[l].what] = Type[rows[x].what]}}

\* Whether entity e had two identifiers of type y in the table t of owners.
WasDouble(t, e, y) == Cardinality({i \in Identifiers : t[i] = e /\ Type[i] = y}) > 1

\* A registration that runs alone aligns the identifiers as it was asked to, whether
\* they are new, its own or those of others, and in whatever order they are taken
\* (take_or_create_identifier).  Of several identifiers to nullify some may stay
\* (_remove_nullified_identifiers), and of two of one type only one is replaced.
AlignsAlone ==
    [][\A r \in Registrations : (Commit(r) /\ r \notin overlapped) =>
        \A i \in Identifiers :
            LET now == Owners(rows')[i]
                due == Aligned(before[r], request[r], elected[r])[i]
            IN  \/ now = due
                \/ /\ now = before[r][i]
                   /\ \/ WasDouble(before[r], elected[r], Type[i])
                      \/ /\ Type[i] \in request[r].nullify
                         /\ Cardinality(request[r].nullify) > 1]_vars

\* Unless two registrations overlap, no entity gets a second identifier of a type
\* (take_or_create_identifier, create_retrieval).
OnePerTypeAlone == [][overlapped' = {} => Doubles' \subseteq Doubles]_vars

\* A registration fails only for having overlapped another one, or because earlier
\* ones have left the entity with two identifiers of a type (the validator).
FailsOnlyOverlapped ==
    [][\A r \in Registrations : (pc[r] # "failed" /\ pc'[r] = "failed") =>
        \/ r \in overlapped
        \/ \E y \in Types : WasDouble(before[r], elected[r], y)]_vars

=============================================================================
