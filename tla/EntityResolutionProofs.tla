---------------------- MODULE EntityResolutionProofs ----------------------
(***************************************************************************)
(* Proofs about the registration of retrievals.                            *)
(*                                                                         *)
(* SessionInv says what a session may hold whatever others do; it makes    *)
(* the types inductive.  AloneInv says what the session of a registration  *)
(* that nobody disturbs knows of the tables.                               *)
(***************************************************************************)
EXTENDS EntityResolution, FiniteSetTheorems, TLAPS

\* Where a registration that is under way stands.
UnderWay == {"taking", "saving"}

\* The session of a registration that is not taking identifiers holds nothing.
Holding(r) ==
    \/ pc[r] = "taking"
    \/ /\ DOMAIN mine[r] = {} /\ todo[r] = {} /\ loaded[r] = {} /\ renewed[r] = {}
       /\ moved[r] = {} /\ added[r] = {} /\ dropped[r] = {}

\* What the session has given to the elected entity was submitted, and is not to be
\* taken again.
Taken(r) == request[r].fields \ todo[r]

Session(r) ==
    /\ pc[r] \in UnderWay => request[r] \in Request
    /\ pc[r] = "taking" => elected[r] # None
    /\ elected[r] # None => elected[r] \in entities
    /\ Holding(r)
    /\ mine[r] \in [DOMAIN mine[r] -> Identifiers]
    /\ pc[r] = "taking" =>
         /\ todo[r] \subseteq request[r].fields
         /\ added[r] \subseteq Taken(r)
         /\ \A k \in renewed[r] \union moved[r] : mine[r][k] \in Taken(r)

\* The variables are functions of the registrations, and the table one of the keys.
Shapes ==
    /\ rows \in [DOMAIN rows -> Row]
    /\ DOMAIN request = Registrations /\ DOMAIN todo = Registrations
    /\ DOMAIN mine = Registrations /\ DOMAIN loaded = Registrations
    /\ DOMAIN renewed = Registrations /\ DOMAIN moved = Registrations
    /\ DOMAIN added = Registrations /\ DOMAIN dropped = Registrations
    /\ DOMAIN before = Registrations

SessionInv == TypeOK /\ Shapes /\ \A r \in Registrations : Session(r)

\* What the session of a registration that nobody disturbs knows of the tables.
Knows(r) ==
    LET e == elected[r] IN
    /\ before[r] = Owners(rows)
    /\ \A k \in DOMAIN rows : rows[k].owner = e => k \in DOMAIN mine[r] \union dropped[r]
    /\ DOMAIN mine[r] \union dropped[r] \subseteq DOMAIN rows
    /\ DOMAIN mine[r] \cap dropped[r] = {}
    /\ \A k \in DOMAIN mine[r] :
         /\ k \notin renewed[r] => mine[r][k] = rows[k].what
         /\ k \notin moved[r] => rows[k].owner = e

\* What it will leave is unique.
Distinct(r) ==
    /\ IsUnique(View(r))
    /\ \A k \in DOMAIN View(r) : View(r)[k].what \notin added[r]

\* An identifier it has renewed keeps its type, one it has moved is the only one of its
\* type, and so is one it has created.
OnePerType(r) ==
    /\ \A k \in renewed[r] : k \notin moved[r] /\ Type[rows[k].what] = Type[mine[r][k]]
    /\ \A k \in moved[r], l \in DOMAIN mine[r] : Type[mine[r][l]] = Type[mine[r][k]] => l = k
    /\ \A i \in added[r], k \in DOMAIN mine[r] : Type[mine[r][k]] # Type[i]

\* The entity has what was taken for it, and lost only what it had to.
Progress(r) ==
    LET e == elected[r] IN
    /\ \A i \in Taken(r) : i \in added[r] \/ \E k \in DOMAIN mine[r] : mine[r][k] = i
    /\ \A k \in dropped[r] :
         /\ rows[k].owner = e
         /\ Type[rows[k].what] \in {Type[j] : j \in request[r].fields} \union request[r].nullify
    /\ \A k \in DOMAIN mine[r] : Type[rows[k].what] \in request[r].nullify =>
         Cardinality(request[r].nullify) > 1 \/ WasDouble(before[r], e, Type[rows[k].what])

Undisturbed(r) == pc[r] \in UnderWay /\ r \notin overlapped

Alone(r) ==
    /\ \A s \in Active : s = r
    /\ pc[r] = "taking" => Knows(r) /\ Distinct(r) /\ OnePerType(r) /\ Progress(r)
    /\ pc[r] = "saving" /\ elected[r] = None =>
         \A k \in DOMAIN rows : rows[k].what \notin request[r].fields

AloneInv == \A r \in Registrations : Undisturbed(r) => Alone(r)

-----------------------------------------------------------------------------
(* Tables                                                                   *)

Tables ==
    /\ DOMAIN rows \subseteq RowIds
    /\ rows \in [DOMAIN rows -> Row]
    /\ IsUnique(rows)
    /\ entities \subseteq Entities
    /\ \A k \in DOMAIN rows : rows[k].owner \in entities
    /\ \A x \in retrievals : x.by \in Registrations /\ x.entity \in entities

\* The types of one registration.
OfTypes(r) ==
    /\ request[r] \in Request \union {None}
    /\ todo[r] \union added[r] \subseteq Identifiers
    /\ DOMAIN mine[r] \union loaded[r] \union Written(r) \subseteq RowIds
    /\ renewed[r] \union moved[r] \subseteq DOMAIN mine[r]

\* The shapes that do not depend on the tables.
Functional ==
    /\ pc \in [Registrations -> {"new", "taking", "saving", "done", "failed"}]
    /\ elected \in [Registrations -> Entities \union {None}]
    /\ DOMAIN request = Registrations /\ DOMAIN todo = Registrations
    /\ DOMAIN mine = Registrations /\ DOMAIN loaded = Registrations
    /\ DOMAIN renewed = Registrations /\ DOMAIN moved = Registrations
    /\ DOMAIN added = Registrations /\ DOMAIN dropped = Registrations
    /\ DOMAIN before = Registrations

LEMMA SessionParts ==
    SessionInv <=> /\ Tables /\ Functional
                   /\ \A r \in Registrations : OfTypes(r) /\ Session(r)
BY DEF SessionInv, TypeOK, Shapes, Tables, Functional, OfTypes

\* What a table becomes by new rows for the identifiers of S, which it does not have.
LEMMA Inserted ==
    ASSUME NEW t, t \in [DOMAIN t -> Row], DOMAIN t \subseteq DOMAIN rows,
           NEW S \in SUBSET Identifiers, HasKeysFor(S), NEW e \in Entities
    PROVE  LET n == Insert(t, S, e) IN
           /\ n \in [DOMAIN n -> Row]
           /\ DOMAIN t \subseteq DOMAIN n
           /\ DOMAIN n \ DOMAIN t \subseteq RowIds
           /\ \A k \in DOMAIN t : n[k] = t[k]
           /\ \A k \in DOMAIN n \ DOMAIN t : n[k].what \in S /\ n[k].owner = e
           /\ \A k, l \in DOMAIN n \ DOMAIN t : n[k].what = n[l].what => k = l
           /\ \A i \in S : \E k \in DOMAIN n \ DOMAIN t : n[k].what = i
<1> DEFINE f == CHOOSE g \in Bijection(NewKeys(S), S) : TRUE
           n == Insert(t, S, e)
<1>1. f \in Bijection(NewKeys(S), S)
  BY DEF HasKeysFor
<1>2. /\ f \in [NewKeys(S) -> S]
      /\ \A k, l \in NewKeys(S) : f[k] = f[l] => k = l
      /\ \A i \in S : \E k \in NewKeys(S) : f[k] = i
  BY <1>1 DEF Bijection, Injection, Surjection, IsInjective
<1>3. NewKeys(S) \subseteq RowIds /\ NewKeys(S) \cap DOMAIN t = {}
  BY DEF NewKeys
<1>4. n = [k \in NewKeys(S) \union DOMAIN t |->
             IF k \in NewKeys(S) THEN [what |-> f[k], owner |-> e] ELSE t[k]]
  BY <1>2 DEF Insert
<1> HIDE DEF f, n
<1>5. DOMAIN n = NewKeys(S) \union DOMAIN t
  BY <1>4
<1>6. DOMAIN n \ DOMAIN t = NewKeys(S)
  BY <1>3, <1>5
<1>7. \A k \in DOMAIN t : n[k] = t[k]
  BY <1>3, <1>4
<1>8. \A k \in NewKeys(S) : n[k] = [what |-> f[k], owner |-> e]
  BY <1>4
<1>9. n \in [DOMAIN n -> Row]
  BY <1>2, <1>4, <1>5, <1>7, <1>8 DEF Row
<1> QED
  BY <1>2, <1>3, <1>5, <1>6, <1>7, <1>8, <1>9 DEF n

\* And it stays unique.
LEMMA InsertedUnique ==
    ASSUME NEW t, t \in [DOMAIN t -> Row], DOMAIN t \subseteq DOMAIN rows, IsUnique(t),
           NEW S \in SUBSET Identifiers, HasKeysFor(S), NEW e \in Entities,
           \A k \in DOMAIN t : t[k].what \notin S
    PROVE  IsUnique(Insert(t, S, e))
<1> DEFINE n == Insert(t, S, e)
<1>1. /\ DOMAIN t \subseteq DOMAIN n
      /\ \A k \in DOMAIN t : n[k] = t[k]
      /\ \A k \in DOMAIN n \ DOMAIN t : n[k].what \in S
      /\ \A k, l \in DOMAIN n \ DOMAIN t : n[k].what = n[l].what => k = l
  BY Inserted
<1> HIDE DEF n
<1>2. ASSUME NEW k \in DOMAIN n, NEW l \in DOMAIN n, n[k].what = n[l].what PROVE k = l
  BY <1>1, <1>2 DEF IsUnique
<1> QED
  BY <1>2 DEF IsUnique, n

\* The table a session sees has rows, some of those there are.
LEMMA Viewed ==
    ASSUME SessionInv, NEW r \in Registrations, pc[r] = "taking"
    PROVE  /\ DOMAIN View(r) = DOMAIN rows \ dropped[r]
           /\ View(r) \in [DOMAIN View(r) -> Row]
           /\ elected[r] \in entities /\ elected[r] \in Entities
           /\ \A k \in DOMAIN View(r) : View(r)[k].owner \in entities
<1>1. Tables /\ Functional /\ OfTypes(r) /\ Session(r)
  BY SessionParts
<1>2. elected[r] \in entities /\ elected[r] \in Entities
  BY <1>1 DEF Session, Tables
<1>3. DOMAIN View(r) = DOMAIN rows \ dropped[r]
  BY DEF View
<1>4. ASSUME NEW k \in DOMAIN rows \ dropped[r]
      PROVE  View(r)[k] \in Row /\ View(r)[k].owner \in entities
  <2>1. View(r)[k] = [what |-> IF k \in renewed[r] THEN mine[r][k] ELSE rows[k].what,
                      owner |-> IF k \in moved[r] THEN elected[r] ELSE rows[k].owner]
    BY <1>4 DEF View
  <2>2. rows[k].what \in Identifiers /\ rows[k].owner \in Entities /\ rows[k].owner \in entities
    BY <1>1, <1>4 DEF Tables, Row
  <2>3. k \in renewed[r] => mine[r][k] \in Identifiers
    BY <1>1 DEF OfTypes, Session
  <2> QED
    BY <1>2, <2>1, <2>2, <2>3 DEF Row
<1>5. View(r) \in [DOMAIN View(r) -> Row]
  BY <1>3, <1>4 DEF View
<1> QED
  BY <1>2, <1>3, <1>4, <1>5

-----------------------------------------------------------------------------
(* The initial states                                                       *)

LEMMA InitSession == Init => SessionInv
<1> SUFFICES ASSUME Init PROVE SessionInv
  OBVIOUS
<1>1. Functional
  BY DEF Init, Functional, Idle
<1>2. ASSUME NEW r \in Registrations PROVE OfTypes(r) /\ Session(r)
  <2>1. /\ pc[r] = "new" /\ request[r] = None /\ elected[r] = None /\ mine[r] = <<>>
        /\ todo[r] = {} /\ loaded[r] = {} /\ renewed[r] = {}
        /\ moved[r] = {} /\ added[r] = {} /\ dropped[r] = {}
    BY <1>2 DEF Init, Idle
  <2>2. DOMAIN mine[r] = {} /\ mine[r] \in [DOMAIN mine[r] -> Identifiers]
    BY <2>1
  <2> QED
    BY <2>1, <2>2 DEF OfTypes, Session, Holding, UnderWay, Written
<1>3. Tables
  <2>1. PICK t \in Registered(Known) :
          LET known == {i \in Identifiers : t[i] # None}
              keys == 1..Cardinality(known)
              value == CHOOSE f \in Bijection(keys, known) : TRUE
          IN  rows = [k \in keys |-> [what |-> value[k], owner |-> t[value[k]]]]
    BY DEF Init
  <2> DEFINE known == {i \in Identifiers : t[i] # None}
             keys == 1..Cardinality(known)
             value == CHOOSE f \in Bijection(keys, known) : TRUE
  <2>2. rows = [k \in keys |-> [what |-> value[k], owner |-> t[value[k]]]]
    BY <2>1
  <2>3. t \in [Identifiers -> Known \union {None}] /\ Cardinality(known) <= MaxKnown
    BY DEF Registered
  <2>4. IsFiniteSet(known)
    BY FS_Subset, ResolutionAssumption
  <2>5. Cardinality(known) \in Nat /\ ExistsBijection(keys, known)
    BY <2>4, FS_CardinalityType
  <2>6. value \in Bijection(keys, known)
    BY <2>5 DEF ExistsBijection
  <2>7. /\ value \in [keys -> known]
        /\ \A k, l \in keys : value[k] = value[l] => k = l
    BY <2>6 DEF Bijection, Injection, IsInjective
  <2>8. keys \subseteq RowIds
    <3>1. ASSUME NEW c \in Nat, c <= MaxKnown PROVE 1..c \subseteq 1..MaxKnown
      BY <3>1, ResolutionAssumption
    <3> HIDE DEF known
    <3> QED
      BY <2>3, <2>5, <3>1, ResolutionAssumption
  <2> HIDE DEF value, keys
  <2>9. \A k \in keys : value[k] \in Identifiers /\ t[value[k]] \in Known
    BY <2>3, <2>7
  <2>10. DOMAIN rows = keys /\ \A k \in keys : rows[k].what = value[k] /\ rows[k].owner \in Known
    BY <2>2, <2>9
  <2>11. rows \in [DOMAIN rows -> Row]
    BY <2>2, <2>9, <2>10, ResolutionAssumption DEF Row
  <2>12. IsUnique(rows)
    BY <2>7, <2>10 DEF IsUnique
  <2>13. entities = Known /\ retrievals = {}
    BY DEF Init
  <2> QED
    BY <2>8, <2>10, <2>11, <2>12, <2>13, ResolutionAssumption DEF Tables
<1> QED
  BY <1>1, <1>2, <1>3, SessionParts

-----------------------------------------------------------------------------
(* What a step leaves alone                                                 *)

\* A step of registration r.
Does(r) ==
    \/ \E q \in Request : FindNone(r, q) \/ FindInSafeMode(r, q) \/ Find(r, q)
    \/ \E i \in todo[r] :
          \/ TakeOwn(r, i) \/ TakeFromOther(r, i) \/ TakeRefused(r, i)
          \/ Renew(r, i) \/ Create(r, i)
    \/ Commit(r) \/ CommitFails(r)
    \/ SaveRetrieval(r) \/ SaveEntity(r) \/ SaveFails(r)

\* Registration s is where it was, and its session has what it had.
Untouched(s) ==
    /\ pc'[s] = pc[s] /\ request'[s] = request[s] /\ elected'[s] = elected[s]
    /\ todo'[s] = todo[s] /\ mine'[s] = mine[s] /\ loaded'[s] = loaded[s]
    /\ renewed'[s] = renewed[s] /\ moved'[s] = moved[s] /\ added'[s] = added[s]
    /\ dropped'[s] = dropped[s] /\ before'[s] = before[s]

LEMMA EndFrame ==
    ASSUME Functional, NEW r \in Registrations, NEW how \in {"done", "failed"}, End(r, how)
    PROVE  /\ Functional' /\ \A s \in Registrations \ {r} : Untouched(s)
           /\ pc'[r] = how /\ request'[r] = None /\ elected'[r] = None /\ mine'[r] = <<>>
           /\ todo'[r] = {} /\ loaded'[r] = {} /\ renewed'[r] = {} /\ moved'[r] = {}
           /\ added'[r] = {} /\ dropped'[r] = {} /\ overlapped' = overlapped
BY DEF End, Forget, Functional, Untouched

LEMMA FindFrame ==
    ASSUME Functional, Tables, NEW r \in Registrations, NEW q \in Request,
           FindNone(r, q) \/ FindInSafeMode(r, q) \/ Find(r, q)
    PROVE  Functional' /\ \A s \in Registrations \ {r} : Untouched(s)
<1>1. \A e \in Electable(q) : e \in Entities
  BY DEF Electable, Matching, Tables
<1>2. CASE FindNone(r, q)
  BY <1>2 DEF FindNone, Begin, Functional, Untouched, session
<1>3. CASE FindInSafeMode(r, q)
  BY <1>1, <1>3 DEF FindInSafeMode, Begin, Functional, Untouched
<1>4. CASE Find(r, q)
  BY <1>1, <1>4 DEF Find, Elect, Begin, Functional, Untouched
<1> QED
  BY <1>2, <1>3, <1>4

LEMMA TakeFrame ==
    ASSUME Functional, NEW r \in Registrations, NEW i \in todo[r],
           TakeOwn(r, i) \/ TakeFromOther(r, i) \/ Renew(r, i) \/ Create(r, i)
    PROVE  /\ Functional' /\ \A s \in Registrations \ {r} : Untouched(s)
           /\ pc' = pc /\ request' = request /\ elected' = elected /\ rows' = rows
           /\ entities' = entities /\ retrievals' = retrievals /\ loaded' = loaded
           /\ before' = before /\ overlapped' = overlapped /\ pc[r] = "taking"
           /\ todo'[r] = todo[r] \ {i}
<1>1. CASE TakeOwn(r, i)
  BY <1>1 DEF TakeOwn, Taking, Took, tables, history, Functional, Untouched
<1>2. CASE TakeFromOther(r, i)
  BY <1>2 DEF TakeFromOther, Taking, Took, tables, history, Functional, Untouched
<1>3. CASE Renew(r, i)
  BY <1>3 DEF Renew, Taking, Took, tables, history, Functional, Untouched
<1>4. CASE Create(r, i)
  BY <1>4 DEF Create, Taking, Took, tables, history, Functional, Untouched
<1> QED
  BY <1>1, <1>2, <1>3, <1>4

LEMMA CommitFrame ==
    ASSUME Functional, NEW r \in Registrations, Commit(r)
    PROVE  /\ Functional' /\ \A s \in Registrations \ {r} : Untouched(s)
           /\ pc[r] = "taking" /\ pc'[r] = "saving"
           /\ request' = request /\ elected' = elected /\ mine'[r] = <<>>
           /\ todo'[r] = {} /\ loaded'[r] = {} /\ renewed'[r] = {} /\ moved'[r] = {}
           /\ added'[r] = {} /\ dropped'[r] = {} /\ overlapped' = overlapped
BY DEF Commit, Forget, Functional, Untouched, history

\* Whatever happens to the others, an untouched session stays as it must be.
LEMMA UntouchedKeeps ==
    ASSUME NEW s \in Registrations, OfTypes(s), Session(s), Untouched(s),
           entities \subseteq entities'
    PROVE  OfTypes(s)' /\ Session(s)'
<1>1. OfTypes(s)'
  BY DEF OfTypes, Untouched, Written
<1>2. Session(s)'
  BY DEF Session, Untouched, Holding, Taken
<1> QED
  BY <1>1, <1>2

-----------------------------------------------------------------------------
(* The session after each step                                              *)

LEMMA FindKeepsSession ==
    ASSUME SessionInv, NEW r \in Registrations, NEW q \in Request,
           FindNone(r, q) \/ FindInSafeMode(r, q) \/ Find(r, q)
    PROVE  Tables' /\ OfTypes(r)' /\ Session(r)'
<1>1. Tables /\ Functional /\ OfTypes(r) /\ Session(r)
  BY SessionParts
<1>2. /\ pc[r] = "new" /\ Holding(r) /\ request' = [request EXCEPT ![r] = q]
      /\ rows' = rows /\ entities' = entities /\ retrievals' = retrievals
  BY <1>1 DEF FindNone, FindInSafeMode, Find, Elect, Begin, tables, Session
<1>3. Tables'
  BY <1>1, <1>2 DEF Tables, IsUnique
<1>4. \A e \in Electable(q) : e \in entities /\ e \in Entities /\ e # None
  BY <1>1, ResolutionAssumption DEF Electable, Matching, Tables
<1>5. request'[r] = q
  BY <1>1, <1>2 DEF Functional
<1>6. CASE FindNone(r, q)
  <2>1. pc'[r] = "saving" /\ UNCHANGED session
    BY <1>1, <1>6 DEF FindNone, Functional
  <2> QED
    BY <1>1, <1>2, <1>3, <1>5, <2>1 DEF OfTypes, Session, session, Holding, Written
<1>7. CASE FindInSafeMode(r, q)
  <2>1. /\ pc'[r] = "saving" /\ elected'[r] \in entities
        /\ UNCHANGED <<todo, mine, loaded, renewed, moved, added, dropped>>
    BY <1>1, <1>4, <1>7 DEF FindInSafeMode, Functional
  <2> QED
    BY <1>1, <1>2, <1>3, <1>5, <2>1 DEF OfTypes, Session, Holding, Written
<1>8. CASE Find(r, q)
  <2>e. PICK e \in Electable(q) : \E list \in SetToSeqs(KeysOf(e)) :
          LET gone == Nullified(list, q.nullify) IN
          /\ elected' = [elected EXCEPT ![r] = e]
          /\ dropped' = [dropped EXCEPT ![r] = gone]
          /\ mine' = [mine EXCEPT ![r] = [k \in KeysOf(e) \ gone |-> rows[k].what]]
          /\ loaded' = [loaded EXCEPT ![r] = UNION {KeysOf(f) : f \in Matching(q) \ {e}}]
    BY <1>8 DEF Find, Elect
  <2>1. PICK list \in SetToSeqs(KeysOf(e)) :
          LET gone == Nullified(list, q.nullify) IN
          /\ elected' = [elected EXCEPT ![r] = e]
          /\ dropped' = [dropped EXCEPT ![r] = gone]
          /\ mine' = [mine EXCEPT ![r] = [k \in KeysOf(e) \ gone |-> rows[k].what]]
          /\ loaded' = [loaded EXCEPT ![r] = UNION {KeysOf(f) : f \in Matching(q) \ {e}}]
    BY <2>e
  <2> DEFINE gone == Nullified(list, q.nullify)
  <2>2. gone \subseteq KeysOf(e)
    BY DEF Nullified, SetToSeqs
  <2>3. /\ pc'[r] = "taking" /\ todo'[r] = q.fields /\ elected'[r] = e /\ dropped'[r] = gone
        /\ mine'[r] = [k \in KeysOf(e) \ gone |-> rows[k].what]
        /\ loaded'[r] = UNION {KeysOf(f) : f \in Matching(q) \ {e}}
        /\ renewed' = renewed /\ moved' = moved /\ added' = added
    BY <1>1, <1>8, <2>1 DEF Find, Elect, Functional
  <2> HIDE DEF gone
  <2>4. renewed'[r] = {} /\ moved'[r] = {} /\ added'[r] = {}
    BY <1>2, <2>3 DEF Holding
  <2>5. \A f : KeysOf(f) \subseteq DOMAIN rows /\ KeysOf(f) \subseteq RowIds
    BY <1>1 DEF KeysOf, Tables
  <2>6. mine'[r] \in [DOMAIN mine'[r] -> Identifiers] /\ DOMAIN mine'[r] \subseteq RowIds
    BY <1>1, <2>3, <2>5 DEF Tables, Row
  <2>7. q.fields \subseteq Identifiers
    BY DEF Request
  <2>8. loaded'[r] \subseteq RowIds
    BY <2>3, <2>5
  <2>9. OfTypes(r)'
    BY <1>5, <2>2, <2>3, <2>4, <2>5, <2>6, <2>7, <2>8 DEF OfTypes, Written
  <2>10. Session(r)'
    BY <1>2, <1>4, <1>5, <2>3, <2>4, <2>6 DEF Session, Holding
  <2> QED
    BY <1>3, <2>9, <2>10
<1> QED
  BY <1>6, <1>7, <1>8

\* The identifiers submitted have different types.
LEMMA OneOfAType ==
    ASSUME NEW q \in Request, NEW i \in q.fields, NEW j \in q.fields, Type[i] = Type[j]
    PROVE  i = j
BY DEF Request

\* What the session has given to the elected entity is not of the type of one to take.
LEMMA GivenAreOfOtherTypes ==
    ASSUME SessionInv, NEW r \in Registrations, pc[r] = "taking", NEW i \in todo[r]
    PROVE  /\ i \in Identifiers /\ i \notin Taken(r) /\ i \in request[r].fields
           /\ \A k \in SameType(r, i) : k \notin renewed[r] /\ k \notin moved[r]
           /\ \A j \in Taken(r) : Type[j] # Type[i]
<1>1. OfTypes(r) /\ Session(r) /\ request[r] \in Request
  BY SessionParts DEF Session, UnderWay
<1>2. i \in request[r].fields /\ i \notin Taken(r)
  BY <1>1 DEF Session, Taken
<1>3. ASSUME NEW j \in Taken(r) PROVE Type[j] # Type[i]
  BY <1>1, <1>2, OneOfAType DEF Taken
<1>4. ASSUME NEW k \in SameType(r, i) PROVE k \notin renewed[r] /\ k \notin moved[r]
  BY <1>1, <1>3 DEF SameType, Session
<1> QED
  BY <1>1, <1>2, <1>3, <1>4 DEF OfTypes

LEMMA TakeKeepsSession ==
    ASSUME SessionInv, NEW r \in Registrations, NEW i \in todo[r],
           TakeOwn(r, i) \/ TakeFromOther(r, i) \/ Renew(r, i) \/ Create(r, i)
    PROVE  Tables' /\ OfTypes(r)' /\ Session(r)'
<1>1. Tables /\ Functional /\ OfTypes(r) /\ Session(r)
  BY SessionParts
<1>2. /\ pc' = pc /\ request' = request /\ elected' = elected /\ rows' = rows
      /\ entities' = entities /\ retrievals' = retrievals /\ loaded' = loaded
      /\ pc[r] = "taking" /\ todo'[r] = todo[r] \ {i}
  BY <1>1, TakeFrame
<1>3. Tables'
  BY <1>1, <1>2 DEF Tables, IsUnique
<1>4. /\ i \in Identifiers /\ i \in request[r].fields
      /\ \A k \in SameType(r, i) : k \notin renewed[r] /\ k \notin moved[r]
  BY <1>2, GivenAreOfOtherTypes
<1>5. Taken(r)' = Taken(r) \union {i}
  BY <1>1, <1>2, <1>4 DEF Taken
<1>6. SameType(r, i) \subseteq DOMAIN mine[r]
  BY DEF SameType
<1>7. CASE TakeOwn(r, i)
  <2>1. UNCHANGED <<mine, renewed, moved, added, dropped>>
    BY <1>7 DEF TakeOwn
  <2> QED
    BY <1>1, <1>2, <1>3, <1>5, <2>1 DEF OfTypes, Session, Holding, Written
<1>8. CASE TakeFromOther(r, i)
  <2>1. PICK k \in Found(r, i) :
          /\ ~IsMine(r, k)
          /\ mine' = [mine EXCEPT ![r] = With(Without(@, SameType(r, i)), k, i)]
          /\ moved' = [moved EXCEPT ![r] = @ \union {k}]
    BY <1>8 DEF TakeFromOther
  <2>2. /\ mine'[r] = With(Without(mine[r], SameType(r, i)), k, i)
        /\ moved'[r] = moved[r] \union {k}
        /\ dropped'[r] = dropped[r] \union SameType(r, i)
        /\ renewed' = renewed /\ added' = added
    BY <1>1, <1>8, <2>1 DEF TakeFromOther, Functional
  <2>3. /\ DOMAIN mine'[r] = (DOMAIN mine[r] \ SameType(r, i)) \union {k}
        /\ mine'[r][k] = i
        /\ \A l \in DOMAIN mine'[r] : l # k => mine'[r][l] = mine[r][l]
    BY <2>2 DEF With, Without
  <2>4. k \in DOMAIN rows /\ k \in RowIds /\ k \notin DOMAIN mine[r]
    BY <1>1, <2>1 DEF Found, View, IsMine, Tables
  <2>5. mine'[r] \in [DOMAIN mine'[r] -> Identifiers]
    <3>1. mine'[r] = [z \in DOMAIN mine'[r] |-> mine'[r][z]]
      BY <2>2 DEF With
    <3>2. \A z \in DOMAIN mine'[r] : mine'[r][z] \in Identifiers
      BY <1>1, <1>4, <2>3 DEF Session
    <3> QED
      BY <3>1, <3>2
  <2>6. OfTypes(r)'
    BY <1>1, <1>2, <1>4, <1>6, <2>2, <2>3, <2>4 DEF OfTypes, Written
  <2>7. \A l \in renewed'[r] \union moved'[r] : mine'[r][l] \in Taken(r)'
    BY <1>1, <1>2, <1>4, <1>5, <2>2, <2>3, <2>4 DEF Session, OfTypes
  <2> QED
    BY <1>1, <1>2, <1>3, <1>5, <2>2, <2>5, <2>6, <2>7 DEF Session, Holding
<1>9. CASE Renew(r, i)
  <2>1. PICK k \in SameType(r, i) :
          /\ mine' = [mine EXCEPT ![r][k] = i]
          /\ renewed' = [renewed EXCEPT ![r] = @ \union {k}]
    BY <1>9 DEF Renew
  <2>2. /\ mine'[r] = [mine[r] EXCEPT ![k] = i]
        /\ renewed'[r] = renewed[r] \union {k}
        /\ moved' = moved /\ added' = added /\ dropped' = dropped
    BY <1>1, <1>9, <2>1 DEF Renew, Functional
  <2>3. /\ DOMAIN mine'[r] = DOMAIN mine[r] /\ k \in DOMAIN mine[r] /\ mine'[r][k] = i
        /\ \A l \in DOMAIN mine[r] : l # k => mine'[r][l] = mine[r][l]
    BY <1>1, <1>6, <2>2 DEF Session
  <2>4. mine'[r] \in [DOMAIN mine'[r] -> Identifiers]
    BY <1>1, <1>4, <2>2, <2>3 DEF Session
  <2>5. OfTypes(r)'
    BY <1>1, <1>2, <2>2, <2>3 DEF OfTypes, Written
  <2>6. \A l \in renewed'[r] \union moved'[r] : mine'[r][l] \in Taken(r)'
    BY <1>1, <1>2, <1>5, <2>2, <2>3 DEF Session, OfTypes
  <2> QED
    BY <1>1, <1>2, <1>3, <1>5, <2>2, <2>4, <2>5, <2>6 DEF Session, Holding
<1>10. CASE Create(r, i)
  <2>1. added'[r] = added[r] \union {i} /\ UNCHANGED <<mine, renewed, moved, dropped>>
    BY <1>1, <1>10 DEF Create, Functional
  <2> QED
    BY <1>1, <1>2, <1>3, <1>4, <1>5, <2>1 DEF OfTypes, Session, Holding, Written
<1> QED
  BY <1>7, <1>8, <1>9, <1>10

\* The end of a registration leaves nothing to its session.
LEMMA EndKeepsSession ==
    ASSUME Functional, NEW r \in Registrations, NEW how \in {"done", "failed"}, End(r, how)
    PROVE  OfTypes(r)' /\ Session(r)'
<1>1. /\ pc'[r] = how /\ request'[r] = None /\ elected'[r] = None /\ mine'[r] = <<>>
      /\ todo'[r] = {} /\ loaded'[r] = {} /\ renewed'[r] = {} /\ moved'[r] = {}
      /\ added'[r] = {} /\ dropped'[r] = {}
  BY EndFrame
<1>2. DOMAIN mine'[r] = {} /\ mine'[r] \in [DOMAIN mine'[r] -> Identifiers]
  BY <1>1
<1> QED
  BY <1>1, <1>2 DEF OfTypes, Session, Holding, UnderWay, Written

\* The table after the first transaction.
LEMMA Committed ==
    ASSUME SessionInv, NEW r \in Registrations, Commit(r)
    PROVE  /\ rows' \in [DOMAIN rows' -> Row] /\ DOMAIN rows' \subseteq RowIds
           /\ IsUnique(rows')
           /\ DOMAIN View(r) \subseteq DOMAIN rows'
           /\ \A k \in DOMAIN View(r) : rows'[k] = View(r)[k]
           /\ \A k \in DOMAIN rows' \ DOMAIN View(r) :
                rows'[k].what \in added[r] /\ rows'[k].owner = elected[r]
           /\ \A i \in added[r] : \E k \in DOMAIN rows' \ DOMAIN View(r) : rows'[k].what = i
<1>1. /\ pc[r] = "taking" /\ CanCommit(r) /\ HasKeysFor(added[r])
      /\ rows' = Insert(View(r), added[r], elected[r])
  BY DEF Commit
<1>2. Tables /\ OfTypes(r) /\ added[r] \in SUBSET Identifiers
  BY SessionParts DEF OfTypes
<1>3. /\ DOMAIN View(r) = DOMAIN rows \ dropped[r] /\ elected[r] \in Entities
      /\ View(r) \in [DOMAIN View(r) -> Row]
  BY <1>1, Viewed
<1>4. IsUnique(rows')
  BY <1>1, <1>2, <1>3, InsertedUnique DEF CanCommit
<1>5. /\ rows' \in [DOMAIN rows' -> Row] /\ DOMAIN View(r) \subseteq DOMAIN rows'
      /\ DOMAIN rows' \ DOMAIN View(r) \subseteq RowIds
      /\ \A k \in DOMAIN View(r) : rows'[k] = View(r)[k]
      /\ \A k \in DOMAIN rows' \ DOMAIN View(r) :
           rows'[k].what \in added[r] /\ rows'[k].owner = elected[r]
      /\ \A i \in added[r] : \E k \in DOMAIN rows' \ DOMAIN View(r) : rows'[k].what = i
  BY <1>1, <1>2, <1>3, Inserted
<1> QED
  BY <1>2, <1>3, <1>4, <1>5 DEF Tables

LEMMA CommitKeepsSession ==
    ASSUME SessionInv, NEW r \in Registrations, Commit(r)
    PROVE  Tables' /\ OfTypes(r)' /\ Session(r)'
<1>1. Tables /\ Functional /\ OfTypes(r) /\ Session(r)
  BY SessionParts
<1>2. /\ pc[r] = "taking" /\ pc'[r] = "saving" /\ request' = request /\ elected' = elected
      /\ mine'[r] = <<>> /\ todo'[r] = {} /\ loaded'[r] = {} /\ renewed'[r] = {}
      /\ moved'[r] = {} /\ added'[r] = {} /\ dropped'[r] = {}
  BY <1>1, CommitFrame
<1>3. entities' = entities /\ retrievals' = retrievals
  BY DEF Commit
<1>4. elected[r] \in entities /\ \A k \in DOMAIN View(r) : View(r)[k].owner \in entities
  BY <1>2, Viewed
<1>5. \A k \in DOMAIN rows' : rows'[k].owner \in entities
  BY <1>4, Committed
<1>6. Tables'
  BY <1>1, <1>3, <1>5, Committed DEF Tables
<1>7. DOMAIN mine'[r] = {} /\ mine'[r] \in [DOMAIN mine'[r] -> Identifiers]
  BY <1>2
<1>8. OfTypes(r)'
  BY <1>1, <1>2, <1>7 DEF OfTypes, Written
<1>9. Session(r)'
  BY <1>1, <1>2, <1>3, <1>7 DEF Session, Holding, UnderWay
<1> QED
  BY <1>6, <1>8, <1>9

\* The tables after the second transaction, when it saves an entity.
LEMMA Saved ==
    ASSUME SessionInv, NEW r \in Registrations, SaveEntity(r)
    PROVE  \E e \in Entities \ entities :
             /\ entities' = entities \union {e}
             /\ retrievals' = retrievals \union {[by |-> r, entity |-> e]}
             /\ rows' \in [DOMAIN rows' -> Row] /\ DOMAIN rows' \subseteq RowIds
             /\ IsUnique(rows')
             /\ DOMAIN rows \subseteq DOMAIN rows'
             /\ \A k \in DOMAIN rows : rows'[k] = rows[k]
             /\ \A k \in DOMAIN rows' \ DOMAIN rows :
                  rows'[k].what \in request[r].fields /\ rows'[k].owner = e
<1>1. PICK e \in Entities \ entities :
        /\ entities' = entities \union {e}
        /\ rows' = Insert(rows, request[r].fields, e)
        /\ retrievals' = retrievals \union {[by |-> r, entity |-> e]}
  BY DEF SaveEntity
<1>2. /\ \A k \in DOMAIN rows : rows[k].what \notin request[r].fields
      /\ HasKeysFor(request[r].fields) /\ pc[r] = "saving"
  BY DEF SaveEntity
<1>3. Tables /\ Session(r)
  BY SessionParts
<1>4. request[r].fields \in SUBSET Identifiers
  BY <1>2, <1>3 DEF Session, UnderWay, Request
<1>5. rows \in [DOMAIN rows -> Row] /\ DOMAIN rows \subseteq DOMAIN rows /\ IsUnique(rows)
  BY <1>3 DEF Tables
<1>6. IsUnique(rows')
  BY <1>1, <1>2, <1>4, <1>5, InsertedUnique
<1>7. /\ rows' \in [DOMAIN rows' -> Row] /\ DOMAIN rows \subseteq DOMAIN rows'
      /\ DOMAIN rows' \ DOMAIN rows \subseteq RowIds
      /\ \A k \in DOMAIN rows : rows'[k] = rows[k]
      /\ \A k \in DOMAIN rows' \ DOMAIN rows :
           rows'[k].what \in request[r].fields /\ rows'[k].owner = e
  BY <1>1, <1>2, <1>4, <1>5, Inserted
<1>8. DOMAIN rows' \subseteq RowIds
  BY <1>3, <1>7 DEF Tables
<1> QED
  BY <1>1, <1>6, <1>7, <1>8

LEMMA SaveKeepsTables ==
    ASSUME SessionInv, NEW r \in Registrations, SaveRetrieval(r) \/ SaveEntity(r)
    PROVE  Tables' /\ entities \subseteq entities'
<1>1. Tables /\ Functional /\ Session(r)
  BY SessionParts
<1>2. CASE SaveRetrieval(r)
  <2>1. /\ rows' = rows /\ entities' = entities /\ elected[r] \in entities
        /\ retrievals' = retrievals \union {[by |-> r, entity |-> elected[r]]}
    BY <1>1, <1>2 DEF SaveRetrieval, Session
  <2> QED
    BY <1>1, <2>1 DEF Tables, IsUnique
<1>3. CASE SaveEntity(r)
  <2>1. PICK e \in Entities \ entities :
             /\ entities' = entities \union {e}
             /\ retrievals' = retrievals \union {[by |-> r, entity |-> e]}
             /\ rows' \in [DOMAIN rows' -> Row] /\ DOMAIN rows' \subseteq RowIds
             /\ IsUnique(rows')
             /\ DOMAIN rows \subseteq DOMAIN rows'
             /\ \A k \in DOMAIN rows : rows'[k] = rows[k]
             /\ \A k \in DOMAIN rows' \ DOMAIN rows :
                  rows'[k].what \in request[r].fields /\ rows'[k].owner = e
    BY <1>3, Saved
  <2>2. \A k \in DOMAIN rows' : rows'[k].owner \in entities'
    BY <1>1, <2>1 DEF Tables
  <2>3. \A x \in retrievals' : x.by \in Registrations /\ x.entity \in entities'
    BY <1>1, <2>1 DEF Tables
  <2> QED
    BY <1>1, <2>1, <2>2, <2>3 DEF Tables
<1> QED
  BY <1>2, <1>3

-----------------------------------------------------------------------------
(* Type correctness                                                         *)

LEMMA StepKeepsSession ==
    ASSUME SessionInv, NEW r \in Registrations, Does(r)
    PROVE  /\ SessionInv' /\ entities \subseteq entities'
           /\ \A s \in Registrations \ {r} : Untouched(s)
<1>1. Tables /\ Functional
  BY SessionParts
<1> SUFFICES /\ Tables' /\ Functional' /\ OfTypes(r)' /\ Session(r)'
             /\ \A s \in Registrations \ {r} : Untouched(s)
             /\ entities \subseteq entities'
  <2>1. ASSUME NEW s \in Registrations, Untouched(s), entities \subseteq entities'
        PROVE  OfTypes(s)' /\ Session(s)'
    BY <2>1, SessionParts, UntouchedKeeps
  <2>2. (Tables' /\ Functional' /\ \A s \in Registrations : OfTypes(s)' /\ Session(s)')
          => SessionInv'
    BY DEF SessionInv, TypeOK, Shapes, Tables, Functional, OfTypes
  <2> QED
    BY <2>1, <2>2
<1>2. ASSUME NEW q \in Request, FindNone(r, q) \/ FindInSafeMode(r, q) \/ Find(r, q)
      PROVE  /\ Tables' /\ Functional' /\ OfTypes(r)' /\ Session(r)'
             /\ \A s \in Registrations \ {r} : Untouched(s)
             /\ entities \subseteq entities'
  <2>1. entities' = entities
    BY <1>2 DEF FindNone, FindInSafeMode, Find, Elect, tables
  <2> QED
    BY <1>1, <1>2, <2>1, FindFrame, FindKeepsSession
<1>3. ASSUME NEW i \in todo[r],
             TakeOwn(r, i) \/ TakeFromOther(r, i) \/ Renew(r, i) \/ Create(r, i)
      PROVE  /\ Tables' /\ Functional' /\ OfTypes(r)' /\ Session(r)'
             /\ \A s \in Registrations \ {r} : Untouched(s)
             /\ entities \subseteq entities'
  <2>1. entities' = entities /\ Functional' /\ \A s \in Registrations \ {r} : Untouched(s)
    BY <1>1, <1>3, TakeFrame
  <2> QED
    BY <1>3, <2>1, TakeKeepsSession
<1>4. CASE Commit(r)
  <2>1. entities' = entities
    BY <1>4 DEF Commit
  <2> QED
    BY <1>1, <1>4, <2>1, CommitFrame, CommitKeepsSession
<1>5. CASE Fail(r)
  <2>1. End(r, "failed") /\ UNCHANGED tables
    BY <1>5 DEF Fail
  <2>2. Tables' /\ entities' = entities
    BY <1>1, <2>1 DEF tables, Tables, IsUnique
  <2> QED
    BY <1>1, <2>1, <2>2, EndFrame, EndKeepsSession
<1>6. CASE SaveRetrieval(r) \/ SaveEntity(r)
  <2>1. End(r, "done")
    BY <1>6 DEF SaveRetrieval, SaveEntity
  <2> QED
    BY <1>1, <1>6, <2>1, EndFrame, EndKeepsSession, SaveKeepsTables
<1>7. CASE \E i \in todo[r] : TakeRefused(r, i)
  BY <1>5, <1>7 DEF TakeRefused
<1>8. CASE CommitFails(r) \/ SaveFails(r)
  BY <1>5, <1>8 DEF CommitFails, SaveFails
<1> QED
  BY <1>2, <1>3, <1>4, <1>6, <1>7, <1>8 DEF Does

LEMMA StutterKeepsSession == SessionInv /\ UNCHANGED vars => SessionInv'
<1> SUFFICES ASSUME SessionInv, UNCHANGED vars PROVE SessionInv'
  OBVIOUS
<1>1. /\ rows' = rows /\ entities' = entities /\ retrievals' = retrievals /\ pc' = pc
      /\ request' = request /\ elected' = elected /\ todo' = todo /\ mine' = mine
      /\ loaded' = loaded /\ renewed' = renewed /\ moved' = moved /\ added' = added
      /\ dropped' = dropped /\ before' = before /\ overlapped' = overlapped
  BY DEF vars, tables, session, history
<1>2. TypeOK' /\ Shapes'
  BY <1>1 DEF SessionInv, TypeOK, IsUnique, Written, Shapes
<1>3. ASSUME NEW r \in Registrations PROVE Session(r)'
  BY <1>1 DEF SessionInv, Session, Holding, Taken
<1> QED
  BY <1>2, <1>3 DEF SessionInv

LEMMA NextIsAStep == Next <=> \E r \in Registrations : Does(r)
BY DEF Next, Does

\* Whatever registrations do at once, the tables stay well formed, and a session holds
\* what the inductive invariant says (EntityResolutionService.resolve,
\* EntityDAO.take_or_create_identifier, RetrievalService.register).
THEOREM SessionInvariance == Spec => []SessionInv
<1>1. Init => SessionInv
  BY InitSession
<1>2. SessionInv /\ [Next]_vars => SessionInv'
  BY NextIsAStep, StepKeepsSession, StutterKeepsSession
<1> QED
  BY <1>1, <1>2, PTL DEF Spec

\* Every variable keeps its type: identifiers are unique by type and value, they belong
\* to entities that are registered, and a session only writes rows it has in its
\* collection (Identifier.__table_args__, Entity.identifiers).
THEOREM ResolutionTypes == Spec => []TypeOK
<1>1. SessionInv => TypeOK
  BY DEF SessionInv
<1> QED
  BY <1>1, SessionInvariance, PTL

-----------------------------------------------------------------------------
(* Lemmas on owners and on cardinalities                                    *)

LEMMA TwoAreMore ==
    ASSUME NEW S, IsFiniteSet(S), NEW a \in S, NEW b \in S, a # b
    PROVE  Cardinality(S) > 1
<1>1. IsFiniteSet({a}) /\ Cardinality({a}) = 1
  BY FS_Singleton
<1>2. {a} \subseteq S /\ {a} # S
  OBVIOUS
<1>3. Cardinality({a}) < Cardinality(S) /\ Cardinality(S) \in Nat
  BY <1>2, FS_Subset, FS_CardinalityType
<1> QED
  BY <1>1, <1>3

LEMMA MoreAreTwo ==
    ASSUME NEW S, IsFiniteSet(S), Cardinality(S) > 1
    PROVE  \E a, b \in S : a # b
<1>1. SUFFICES ASSUME \A a, b \in S : a = b PROVE FALSE
  OBVIOUS
<1>2. CASE S = {}
  BY <1>2, FS_EmptySet
<1>3. CASE S # {}
  <2>1. PICK a \in S : S = {a}
    BY <1>1, <1>3
  <2>2. Cardinality({a}) = 1
    BY FS_Singleton
  <2> QED
    BY <2>1, <2>2
<1> QED
  BY <1>2, <1>3

LEMMA OwnerOfARow ==
    ASSUME NEW t, IsUnique(t), NEW k \in DOMAIN t, t[k].what \in Identifiers
    PROVE  OwnerOf(t, t[k].what) = t[k].owner /\ Owners(t)[t[k].what] = t[k].owner
<1>1. OwnerOf(t, t[k].what) = t[k].owner
  BY DEF OwnerOf, IsUnique
<1> QED
  BY <1>1 DEF Owners

LEMMA OwnerOfNoRow ==
    ASSUME NEW t, NEW i \in Identifiers, \A k \in DOMAIN t : t[k].what # i
    PROVE  Owners(t)[i] = None
BY DEF Owners, OwnerOf

\* An entity with two rows of a type had two identifiers of that type.
LEMMA TwoRowsAreDouble ==
    ASSUME Tables, NEW k \in DOMAIN rows, NEW l \in DOMAIN rows, k # l,
           rows[k].owner = rows[l].owner, Type[rows[k].what] = Type[rows[l].what]
    PROVE  WasDouble(Owners(rows), rows[k].owner, Type[rows[k].what])
<1> DEFINE S == {i \in Identifiers : Owners(rows)[i] = rows[k].owner /\ Type[i] = Type[rows[k].what]}
<1>1. rows[k].what \in Identifiers /\ rows[l].what \in Identifiers
  BY DEF Tables, Row
<1>2. rows[k].what # rows[l].what
  BY DEF Tables, IsUnique
<1>3. /\ Owners(rows)[rows[k].what] = rows[k].owner
      /\ Owners(rows)[rows[l].what] = rows[l].owner
  BY <1>1, OwnerOfARow DEF Tables
<1>4. rows[k].what \in S /\ rows[l].what \in S
  BY <1>1, <1>3
<1>5. IsFiniteSet(S)
  BY FS_Subset, ResolutionAssumption
<1> HIDE DEF S
<1>6. Cardinality(S) > 1
  BY <1>2, <1>4, <1>5, TwoAreMore
<1> QED
  BY <1>6 DEF S, WasDouble

\* Of one identifier of a type to remove alone, nothing stays.
LEMMA OneIsRemoved ==
    ASSUME Tables, NEW e, NEW nullify \in SUBSET Types, NEW list \in SetToSeqs(KeysOf(e)),
           NEW k \in KeysOf(e) \ Nullified(list, nullify), Type[rows[k].what] \in nullify
    PROVE  \/ Cardinality(nullify) > 1
           \/ WasDouble(Owners(rows), e, Type[rows[k].what])
<1> DEFINE unwanted == {n \in DOMAIN list : Type[rows[list[n]].what] \in nullify}
           N == Cardinality(KeysOf(e))
<1>1. IsFiniteSet(KeysOf(e)) /\ N \in Nat
  <2>1. KeysOf(e) \subseteq RowIds
    BY DEF Tables, KeysOf
  <2> QED
    BY <2>1, FS_Subset, FS_CardinalityType, ResolutionAssumption
<1>2. /\ list \in [1..N -> KeysOf(e)] /\ DOMAIN list = 1..N
      /\ \A m, n \in 1..N : m # n => list[m] # list[n]
  BY DEF SetToSeqs
<1>3. PICK m \in 1..N : list[m] = k
  <2>1. IsFiniteSet(1..N) /\ Cardinality(1..N) = N
    BY <1>1, FS_Interval
  <2>2. list \in Injection(1..N, KeysOf(e))
    BY <1>2 DEF Injection, IsInjective
  <2>3. list \in Surjection(1..N, KeysOf(e))
    BY <1>1, <2>1, <2>2, FS_Injection
  <2> QED
    BY <2>3 DEF Surjection
<1>4. m \in unwanted
  BY <1>2, <1>3
<1>5. (m - 1) \in unwanted
  <2>1. ASSUME (m - 1) \notin unwanted PROVE FALSE
    <3>1. m..m \subseteq unwanted /\ m <= m /\ (m - m) % 2 = 0
      BY <1>3, <1>4
    <3>2. list[m] \in Nullified(list, nullify)
      BY <1>4, <2>1, <3>1 DEF Nullified
    <3> QED
      BY <1>3, <3>2
  <2> QED
    BY <2>1
<1>6. /\ list[m - 1] \in KeysOf(e) /\ list[m - 1] # k
      /\ Type[rows[list[m - 1]].what] \in nullify
  BY <1>2, <1>3, <1>5
<1>7. CASE Type[rows[list[m - 1]].what] = Type[rows[k].what]
  BY <1>6, <1>7, TwoRowsAreDouble DEF KeysOf
<1>8. CASE Type[rows[list[m - 1]].what] # Type[rows[k].what]
  <2>1. IsFiniteSet(nullify)
    BY FS_Subset, ResolutionAssumption
  <2> QED
    BY <1>6, <1>8, <2>1, TwoAreMore
<1> QED
  BY <1>7, <1>8

-----------------------------------------------------------------------------
(* A registration nobody disturbs                                           *)

Aware(r) == Knows(r) /\ Distinct(r) /\ OnePerType(r) /\ Progress(r)

\* A session that knows the tables sees its own rows as it has them.
LEMMA SeesItsOwn ==
    ASSUME SessionInv, NEW r \in Registrations, Knows(r), NEW k \in DOMAIN mine[r]
    PROVE  /\ k \in DOMAIN View(r) /\ k \in DOMAIN rows /\ k \notin dropped[r]
           /\ View(r)[k].what = mine[r][k] /\ View(r)[k].owner = elected[r]
<1>1. k \in DOMAIN rows /\ k \notin dropped[r]
  BY DEF Knows
<1>2. /\ k \in DOMAIN View(r)
      /\ View(r)[k].what = IF k \in renewed[r] THEN mine[r][k] ELSE rows[k].what
      /\ View(r)[k].owner = IF k \in moved[r] THEN elected[r] ELSE rows[k].owner
  BY <1>1 DEF View
<1> QED
  BY <1>1, <1>2 DEF Knows

\* A row it does not have in its collection is another entity's.
LEMMA OthersAreOthers ==
    ASSUME SessionInv, NEW r \in Registrations, Knows(r), NEW i, NEW k \in Found(r, i),
           k \notin DOMAIN mine[r]
    PROVE  /\ k \in DOMAIN rows /\ k \notin dropped[r] /\ rows[k].owner # elected[r]
           /\ k \notin renewed[r] /\ rows[k].what = i /\ ~IsMine(r, k)
<1>1. k \in DOMAIN rows /\ k \notin dropped[r] /\ k \in DOMAIN View(r) /\ View(r)[k].what = i
  BY DEF Found, View
<1>2. renewed[r] \subseteq DOMAIN mine[r]
  BY SessionParts DEF OfTypes
<1>3. k \notin renewed[r] /\ rows[k].what = i
  BY <1>1, <1>2 DEF View
<1>4. rows[k].owner # elected[r]
  BY <1>1 DEF Knows
<1> QED
  BY <1>1, <1>3, <1>4 DEF IsMine

LEMMA ElectIsAware ==
    ASSUME SessionInv, NEW r \in Registrations, NEW q \in Request, Find(r, q)
    PROVE  Aware(r)'
<1>1. Tables /\ Functional /\ OfTypes(r) /\ Session(r)
  BY SessionParts
<1>2. /\ pc[r] = "new" /\ Holding(r) /\ rows' = rows
  BY <1>1 DEF Find, Elect, Begin, tables, Session
<1>e. PICK e \in Electable(q) : \E list \in SetToSeqs(KeysOf(e)) :
        LET gone == Nullified(list, q.nullify) IN
        /\ elected' = [elected EXCEPT ![r] = e]
        /\ dropped' = [dropped EXCEPT ![r] = gone]
        /\ mine' = [mine EXCEPT ![r] = [k \in KeysOf(e) \ gone |-> rows[k].what]]
  BY DEF Find, Elect
<1>3. PICK list \in SetToSeqs(KeysOf(e)) :
        LET gone == Nullified(list, q.nullify) IN
        /\ elected' = [elected EXCEPT ![r] = e]
        /\ dropped' = [dropped EXCEPT ![r] = gone]
        /\ mine' = [mine EXCEPT ![r] = [k \in KeysOf(e) \ gone |-> rows[k].what]]
  BY <1>e
<1> DEFINE gone == Nullified(list, q.nullify)
<1>4. gone \subseteq KeysOf(e) /\ \A k \in gone : Type[rows[k].what] \in q.nullify
  BY DEF Nullified, SetToSeqs
<1>5. \A k \in KeysOf(e) \ gone : Type[rows[k].what] \in q.nullify =>
        Cardinality(q.nullify) > 1 \/ WasDouble(Owners(rows), e, Type[rows[k].what])
  <2>1. q.nullify \in SUBSET Types
    BY DEF Request
  <2> QED
    BY <1>1, <2>1, OneIsRemoved
<1>6. /\ todo'[r] = q.fields /\ elected'[r] = e /\ dropped'[r] = gone
      /\ mine'[r] = [k \in KeysOf(e) \ gone |-> rows[k].what]
      /\ request'[r] = q /\ before'[r] = Owners(rows)
      /\ renewed' = renewed /\ moved' = moved /\ added' = added
  BY <1>1, <1>3 DEF Find, Elect, Begin, Functional
<1> HIDE DEF gone
<1>7. renewed'[r] = {} /\ moved'[r] = {} /\ added'[r] = {}
  BY <1>2, <1>6 DEF Holding
<1>8. /\ DOMAIN mine'[r] = KeysOf(e) \ gone
      /\ \A k \in DOMAIN mine'[r] : mine'[r][k] = rows[k].what
  BY <1>6
<1>9. KeysOf(e) = {k \in DOMAIN rows : rows[k].owner = e}
  BY DEF KeysOf
<1>10. Owners(rows)' = Owners(rows)
  BY <1>2 DEF Owners, OwnerOf
<1>11. Knows(r)'
  BY <1>2, <1>4, <1>6, <1>7, <1>8, <1>9, <1>10 DEF Knows
<1>12. Distinct(r)'
  <2>1. DOMAIN View(r)' = DOMAIN rows \ gone
    BY <1>2, <1>6 DEF View
  <2>2. \A k \in DOMAIN View(r)' : View(r)'[k].what = rows[k].what
    BY <1>2, <1>6, <1>7 DEF View
  <2> QED
    BY <1>1, <1>7, <2>1, <2>2 DEF Distinct, Tables, IsUnique
<1>13. OnePerType(r)'
  BY <1>7 DEF OnePerType
<1>14. Taken(r)' = {}
  BY <1>6 DEF Taken
<1>16. \A y : WasDouble(before'[r], e, y) <=> WasDouble(Owners(rows), e, y)
  BY <1>6 DEF WasDouble
<1>17. Progress(r)'
  BY <1>2, <1>4, <1>5, <1>6, <1>8, <1>9, <1>14, <1>16 DEF Progress, WasDouble
<1> QED
  BY <1>11, <1>12, <1>13, <1>17 DEF Aware

LEMMA TakeOwnIsAware ==
    ASSUME SessionInv, NEW r \in Registrations, NEW i \in todo[r], TakeOwn(r, i), Aware(r)
    PROVE  Aware(r)'
<1>1. Tables /\ Functional /\ OfTypes(r) /\ Session(r)
  BY SessionParts
<1>2. /\ request' = request /\ elected' = elected /\ rows' = rows /\ before' = before
      /\ pc[r] = "taking" /\ todo'[r] = todo[r] \ {i}
      /\ UNCHANGED <<mine, renewed, moved, added, dropped>>
  BY <1>1, TakeFrame DEF TakeOwn
<1>3. i \in request[r].fields
  BY <1>2, GivenAreOfOtherTypes
<1>4. Taken(r)' = Taken(r) \union {i}
  BY <1>1, <1>2, <1>3 DEF Taken
<1>5. PICK k \in Found(r, i) : IsMine(r, k)
  BY DEF TakeOwn
<1>6. k \in DOMAIN mine[r]
  BY <1>5, OthersAreOthers DEF Aware
<1>7. mine[r][k] = i
  BY <1>6, SeesItsOwn DEF Aware, Found
<1>8. Knows(r)' /\ OnePerType(r)'
  BY <1>2 DEF Aware, Knows, OnePerType, Owners, OwnerOf
<1>9. Distinct(r)'
  <2>1. View(r)' = View(r)
    BY <1>2 DEF View
  <2> QED
    BY <1>2, <2>1 DEF Aware, Distinct, IsUnique
<1>11. Progress(r)'
  BY <1>2, <1>4, <1>6, <1>7 DEF Aware, Progress, WasDouble
<1> QED
  BY <1>8, <1>9, <1>11 DEF Aware

LEMMA TakeFromOtherIsAware ==
    ASSUME SessionInv, NEW r \in Registrations, NEW i \in todo[r], TakeFromOther(r, i),
           Aware(r)
    PROVE  Aware(r)'
<1> DEFINE same == SameType(r, i)
           q == request[r]
           e == elected[r]
<1>1. Tables /\ Functional /\ OfTypes(r) /\ Session(r)
  BY SessionParts
<1>2. /\ request' = request /\ elected' = elected /\ rows' = rows /\ before' = before
      /\ pc[r] = "taking" /\ todo'[r] = todo[r] \ {i}
  BY <1>1, TakeFrame
<1>3. /\ i \in Identifiers /\ i \notin Taken(r) /\ i \in q.fields
      /\ \A k \in same : k \notin renewed[r] /\ k \notin moved[r]
      /\ \A j \in Taken(r) : Type[j] # Type[i]
  BY <1>2, GivenAreOfOtherTypes
<1>4. Taken(r)' = Taken(r) \union {i}
  BY <1>1, <1>2, <1>3 DEF Taken
<1>5. PICK k \in Found(r, i) :
        /\ ~IsMine(r, k)
        /\ mine' = [mine EXCEPT ![r] = With(Without(@, same), k, i)]
        /\ moved' = [moved EXCEPT ![r] = @ \union {k}]
  BY DEF TakeFromOther
<1>6. /\ mine'[r] = With(Without(mine[r], same), k, i)
      /\ moved'[r] = moved[r] \union {k}
      /\ dropped'[r] = dropped[r] \union same
      /\ renewed' = renewed /\ added' = added
  BY <1>1, <1>5 DEF TakeFromOther, Functional
<1>7. /\ DOMAIN mine'[r] = (DOMAIN mine[r] \ same) \union {k}
      /\ mine'[r][k] = i
      /\ \A l \in DOMAIN mine'[r] : l # k => mine'[r][l] = mine[r][l]
  BY <1>6 DEF With, Without
<1>8. k \notin DOMAIN mine[r]
  BY <1>5 DEF IsMine
<1>9. k \in DOMAIN rows /\ k \notin dropped[r] /\ k \notin renewed[r] /\ rows[k].what = i
  BY <1>8, OthersAreOthers DEF Aware
<1>10. same = {l \in DOMAIN mine[r] : Type[mine[r][l]] = Type[i]}
  BY DEF SameType
<1>11. /\ renewed[r] \subseteq DOMAIN mine[r] /\ moved[r] \subseteq DOMAIN mine[r]
       /\ added[r] \subseteq Taken(r) /\ q \in Request
       /\ \A l \in renewed[r] \union moved[r] : mine[r][l] \in Taken(r)
  BY <1>1, <1>2 DEF OfTypes, Session, UnderWay
<1> HIDE DEF same
<1>12. Owners(rows)' = Owners(rows)
  BY <1>2 DEF Owners, OwnerOf
<1>13. Knows(r)'
  BY <1>2, <1>6, <1>7, <1>8, <1>9, <1>10, <1>12 DEF Aware, Knows
<1>14. Distinct(r)'
  <2>1. DOMAIN View(r)' = DOMAIN rows \ (dropped[r] \union same)
    BY <1>2, <1>6 DEF View
  <2>2. ASSUME NEW l \in DOMAIN View(r)'
        PROVE  l \in DOMAIN View(r) /\ View(r)'[l].what = View(r)[l].what
    <3>1. l \in DOMAIN View(r) /\ l \in DOMAIN rows /\ l \notin same
      BY <2>1, <2>2 DEF View
    <3>2. /\ View(r)'[l].what = IF l \in renewed[r] THEN mine'[r][l] ELSE rows[l].what
          /\ View(r)[l].what = IF l \in renewed[r] THEN mine[r][l] ELSE rows[l].what
      BY <1>2, <1>6, <2>2, <3>1 DEF View
    <3>3. l \in renewed[r] => mine'[r][l] = mine[r][l]
      BY <1>7, <1>9, <1>11, <3>1
    <3> QED
      BY <3>1, <3>2, <3>3
  <2> QED
    BY <1>6, <2>2 DEF Aware, Distinct, IsUnique
<1>15. OnePerType(r)'
  <2>1. ASSUME NEW l \in renewed'[r]
        PROVE  l \notin moved'[r] /\ Type[rows'[l].what] = Type[mine'[r][l]]
    <3>1. l \in renewed[r] /\ l # k /\ l \in DOMAIN mine'[r]
      BY <1>3, <1>6, <1>7, <1>9, <1>11, <2>1
    <3> QED
      BY <1>2, <1>6, <1>7, <3>1 DEF Aware, OnePerType
  <2>2. ASSUME NEW m \in moved'[r], NEW l \in DOMAIN mine'[r],
               Type[mine'[r][l]] = Type[mine'[r][m]]
        PROVE  l = m
    <3>1. CASE m = k /\ l # k
      BY <1>7, <1>10, <2>2, <3>1
    <3>2. CASE m # k /\ l = k
      BY <1>3, <1>6, <1>7, <1>11, <2>2, <3>2
    <3>3. CASE m # k /\ l # k
      BY <1>3, <1>6, <1>7, <1>11, <2>2, <3>3 DEF Aware, OnePerType
    <3> QED
      BY <3>1, <3>2, <3>3
  <2>3. ASSUME NEW j \in added'[r], NEW l \in DOMAIN mine'[r]
        PROVE  Type[mine'[r][l]] # Type[j]
    BY <1>3, <1>6, <1>7, <1>11, <2>3 DEF Aware, OnePerType
  <2> QED
    BY <2>1, <2>2, <2>3 DEF OnePerType
<1>16. Progress(r)'
  <2>1. ASSUME NEW j \in Taken(r)'
        PROVE  j \in added'[r] \/ \E l \in DOMAIN mine'[r] : mine'[r][l] = j
    <3>1. CASE j = i
      BY <1>7, <3>1
    <3>2. CASE j # i
      <4>1. j \in Taken(r) /\ Type[j] # Type[i]
        BY <1>3, <1>4, <2>1, <3>2
      <4>2. CASE j \in added[r]
        BY <1>6, <4>2
      <4>3. CASE \E l \in DOMAIN mine[r] : mine[r][l] = j
        BY <1>7, <1>8, <1>10, <4>1, <4>3
      <4> QED
        BY <4>1, <4>2, <4>3 DEF Aware, Progress
    <3> QED
      BY <3>1, <3>2
  <2>2. ASSUME NEW l \in dropped'[r]
        PROVE  /\ rows[l].owner = e
               /\ Type[rows[l].what] \in {Type[j] : j \in q.fields} \union q.nullify
    <3>1. CASE l \in dropped[r]
      BY <3>1 DEF Aware, Progress
    <3>2. CASE l \in same
      BY <1>3, <1>10, <3>2 DEF Aware, Knows
    <3> QED
      BY <1>6, <2>2, <3>1, <3>2
  <2>3. ASSUME NEW l \in DOMAIN mine'[r], Type[rows[l].what] \in q.nullify
        PROVE  \/ Cardinality(q.nullify) > 1
               \/ WasDouble(before[r], e, Type[rows[l].what])
    <3>1. CASE l = k
      BY <1>3, <1>9, <1>11, <2>3, <3>1 DEF Request
    <3>2. CASE l # k
      BY <1>7, <2>3, <3>2 DEF Aware, Progress
    <3> QED
      BY <3>1, <3>2
  <2> QED
    BY <1>2, <2>1, <2>2, <2>3 DEF Progress, WasDouble
<1> QED
  BY <1>13, <1>14, <1>15, <1>16 DEF Aware

LEMMA RenewIsAware ==
    ASSUME SessionInv, NEW r \in Registrations, NEW i \in todo[r], Renew(r, i), Aware(r)
    PROVE  Aware(r)'
<1> DEFINE q == request[r]
           e == elected[r]
<1>1. Tables /\ Functional /\ OfTypes(r) /\ Session(r)
  BY SessionParts
<1>2. /\ request' = request /\ elected' = elected /\ rows' = rows /\ before' = before
      /\ pc[r] = "taking" /\ todo'[r] = todo[r] \ {i}
  BY <1>1, TakeFrame
<1>3. /\ i \in Identifiers /\ i \notin Taken(r) /\ i \in q.fields
      /\ \A k \in SameType(r, i) : k \notin renewed[r] /\ k \notin moved[r]
      /\ \A j \in Taken(r) : Type[j] # Type[i]
  BY <1>2, GivenAreOfOtherTypes
<1>4. Taken(r)' = Taken(r) \union {i}
  BY <1>1, <1>2, <1>3 DEF Taken
<1>5. PICK k \in SameType(r, i) :
        /\ mine' = [mine EXCEPT ![r][k] = i]
        /\ renewed' = [renewed EXCEPT ![r] = @ \union {k}]
  BY DEF Renew
<1>6. /\ mine'[r] = [mine[r] EXCEPT ![k] = i]
      /\ renewed'[r] = renewed[r] \union {k}
      /\ moved' = moved /\ added' = added /\ dropped' = dropped
  BY <1>1, <1>5 DEF Renew, Functional
<1>7. /\ DOMAIN mine'[r] = DOMAIN mine[r] /\ k \in DOMAIN mine[r] /\ mine'[r][k] = i
      /\ Type[mine[r][k]] = Type[i] /\ k \notin renewed[r] /\ k \notin moved[r]
      /\ \A l \in DOMAIN mine[r] : l # k => mine'[r][l] = mine[r][l]
  BY <1>1, <1>3, <1>5, <1>6 DEF Session, SameType
<1>8. /\ renewed[r] \subseteq DOMAIN mine[r] /\ moved[r] \subseteq DOMAIN mine[r]
      /\ added[r] \subseteq Taken(r) /\ q \in Request
  BY <1>1, <1>2 DEF OfTypes, Session, UnderWay
<1>9. \A l \in DOMAIN mine[r] : Type[mine'[r][l]] = Type[mine[r][l]]
  BY <1>7
<1>10. Owners(rows)' = Owners(rows)
  BY <1>2 DEF Owners, OwnerOf
<1>11. Knows(r)'
  BY <1>2, <1>6, <1>7, <1>10 DEF Aware, Knows
<1>12. Distinct(r)'
  <2>1. DOMAIN View(r)' = DOMAIN View(r) /\ k \in DOMAIN View(r)
    BY <1>2, <1>6, <1>7, SeesItsOwn DEF View, Aware
  <2>2. View(r)'[k].what = i
    BY <1>2, <1>6, <1>7, <2>1 DEF View
  <2>3. ASSUME NEW l \in DOMAIN View(r), l # k PROVE View(r)'[l].what = View(r)[l].what
    <3>1. /\ View(r)'[l].what = IF l \in renewed[r] THEN mine'[r][l] ELSE rows[l].what
          /\ View(r)[l].what = IF l \in renewed[r] THEN mine[r][l] ELSE rows[l].what
      BY <1>2, <1>6, <2>1, <2>3 DEF View
    <3> QED
      BY <1>7, <1>8, <2>3, <3>1
  <2>4. \A l \in DOMAIN View(r) : View(r)[l].what # i
    BY DEF Renew, Found
  <2>5. IsUnique(View(r)')
    BY <2>1, <2>2, <2>3, <2>4 DEF Aware, Distinct, IsUnique
  <2>6. \A l \in DOMAIN View(r)' : View(r)'[l].what \notin added'[r]
    BY <1>3, <1>6, <1>8, <2>1, <2>2, <2>3 DEF Aware, Distinct
  <2> QED
    BY <2>5, <2>6 DEF Distinct, IsUnique
<1>13. OnePerType(r)'
  <2>1. ASSUME NEW l \in renewed'[r]
        PROVE  l \notin moved'[r] /\ Type[rows'[l].what] = Type[mine'[r][l]]
    BY <1>2, <1>6, <1>7, <1>8, <1>9, <2>1 DEF Aware, OnePerType, Knows
  <2>2. ASSUME NEW m \in moved'[r], NEW l \in DOMAIN mine'[r],
               Type[mine'[r][l]] = Type[mine'[r][m]]
        PROVE  l = m
    BY <1>6, <1>7, <1>8, <1>9, <2>2 DEF Aware, OnePerType
  <2>3. ASSUME NEW j \in added'[r], NEW l \in DOMAIN mine'[r]
        PROVE  Type[mine'[r][l]] # Type[j]
    BY <1>6, <1>7, <1>9, <2>3 DEF Aware, OnePerType
  <2> QED
    BY <2>1, <2>2, <2>3 DEF OnePerType
<1>14. Progress(r)'
  <2>1. ASSUME NEW j \in Taken(r)'
        PROVE  j \in added'[r] \/ \E l \in DOMAIN mine'[r] : mine'[r][l] = j
    <3>1. CASE j = i
      BY <1>7, <3>1
    <3>2. CASE j # i
      <4>1. j \in Taken(r) /\ Type[j] # Type[i]
        BY <1>3, <1>4, <2>1, <3>2
      <4>2. CASE j \in added[r]
        BY <1>6, <4>2
      <4>3. CASE \E l \in DOMAIN mine[r] : mine[r][l] = j
        BY <1>7, <4>1, <4>3
      <4> QED
        BY <4>1, <4>2, <4>3 DEF Aware, Progress
    <3> QED
      BY <3>1, <3>2
  <2>2. \A l \in dropped'[r] :
          /\ rows[l].owner = e
          /\ Type[rows[l].what] \in {Type[j] : j \in q.fields} \union q.nullify
    BY <1>6 DEF Aware, Progress
  <2>3. \A l \in DOMAIN mine'[r] : Type[rows[l].what] \in q.nullify =>
          \/ Cardinality(q.nullify) > 1
          \/ WasDouble(before[r], e, Type[rows[l].what])
    BY <1>7 DEF Aware, Progress
  <2> QED
    BY <1>2, <2>1, <2>2, <2>3 DEF Progress, WasDouble
<1> QED
  BY <1>11, <1>12, <1>13, <1>14 DEF Aware

LEMMA CreateIsAware ==
    ASSUME SessionInv, NEW r \in Registrations, NEW i \in todo[r], Create(r, i), Aware(r)
    PROVE  Aware(r)'
<1>1. Tables /\ Functional /\ OfTypes(r) /\ Session(r)
  BY SessionParts
<1>2. /\ request' = request /\ elected' = elected /\ rows' = rows /\ before' = before
      /\ pc[r] = "taking" /\ todo'[r] = todo[r] \ {i}
      /\ UNCHANGED <<mine, renewed, moved, dropped>> /\ added'[r] = added[r] \union {i}
  BY <1>1, TakeFrame DEF Create, Functional
<1>3. i \in request[r].fields
  BY <1>2, GivenAreOfOtherTypes
<1>4. Taken(r)' = Taken(r) \union {i}
  BY <1>1, <1>2, <1>3 DEF Taken
<1>5. /\ \A k \in DOMAIN View(r) : View(r)[k].what # i
      /\ \A k \in DOMAIN mine[r] : Type[mine[r][k]] # Type[i]
  BY DEF Create, Found, SameType
<1>6. Knows(r)'
  BY <1>2 DEF Aware, Knows, Owners, OwnerOf
<1>7. OnePerType(r)'
  BY <1>2, <1>5 DEF Aware, OnePerType
<1>8. View(r)' = View(r)
  BY <1>2 DEF View
<1>9. Distinct(r)'
  BY <1>2, <1>5, <1>8 DEF Aware, Distinct, IsUnique
<1>10. Progress(r)'
  BY <1>2, <1>4 DEF Aware, Progress, WasDouble
<1> QED
  BY <1>6, <1>7, <1>9, <1>10 DEF Aware

-----------------------------------------------------------------------------
(* The invariant of registrations nobody disturbs                           *)

\* A registration that begins is undisturbed only when nobody else is under way.
LEMMA FindKeepsAlone ==
    ASSUME SessionInv, NEW r \in Registrations, NEW q \in Request,
           FindNone(r, q) \/ FindInSafeMode(r, q) \/ Find(r, q)
    PROVE  AloneInv'
<1>1. Tables /\ Functional
  BY SessionParts
<1>2. Functional' /\ \A s \in Registrations \ {r} : Untouched(s)
  BY <1>1, FindFrame
<1>3. /\ pc[r] = "new" /\ request'[r] = q
      /\ overlapped' = IF Active = {} THEN overlapped ELSE overlapped \union Active \union {r}
  BY <1>1 DEF FindNone, FindInSafeMode, Find, Elect, Begin, Functional
<1>4. ASSUME NEW s \in Registrations, Undisturbed(s)', s # r PROVE FALSE
  <2>1. s \in Active /\ Untouched(s)
    BY <1>2, <1>4 DEF Undisturbed, Untouched, Active, UnderWay
  <2>2. s \in overlapped'
    BY <1>3, <2>1
  <2> QED
    BY <1>4, <2>2 DEF Undisturbed
<1>5. ASSUME Undisturbed(r)' PROVE Alone(r)'
  <2>1. Active = {}
    BY <1>3, <1>5 DEF Undisturbed
  <2>2. \A s \in Active' : s = r
    BY <1>2, <2>1 DEF Active, Untouched
  <2>3. CASE FindNone(r, q)
    <3>1. /\ pc'[r] = "saving" /\ rows' = rows /\ Matching(q) = {}
      BY <1>1, <2>3 DEF FindNone, Functional, tables
    <3>2. \A k \in DOMAIN rows : rows[k].what \notin q.fields
      BY <1>1, <3>1 DEF Matching, KeysOf, Tables
    <3> QED
      BY <1>3, <2>2, <3>1, <3>2 DEF Alone
  <2>4. CASE FindInSafeMode(r, q)
    <3>1. \A e \in Electable(q) : e # None
      BY <1>1, ResolutionAssumption DEF Electable, Matching, Tables
    <3>2. pc'[r] = "saving" /\ elected'[r] # None
      BY <1>1, <2>4, <3>1 DEF FindInSafeMode, Functional
    <3> QED
      BY <2>2, <3>2 DEF Alone
  <2>5. CASE Find(r, q)
    <3>1. pc'[r] = "taking"
      BY <1>1, <2>5 DEF Find, Elect, Functional
    <3>2. Aware(r)'
      BY <2>5, ElectIsAware
    <3> QED
      BY <2>2, <3>1, <3>2 DEF Alone, Aware
  <2> QED
    BY <2>3, <2>4, <2>5
<1> QED
  BY <1>4, <1>5 DEF AloneInv

\* A step of a registration under way leaves no other one undisturbed.
LEMMA OnlyItsOwn ==
    ASSUME AloneInv, NEW r \in Registrations, pc[r] \in UnderWay, overlapped' = overlapped,
           \A s \in Registrations \ {r} : Untouched(s), Undisturbed(r)' => Alone(r)'
    PROVE  AloneInv'
<1>1. ASSUME NEW s \in Registrations, Undisturbed(s)', s # r PROVE FALSE
  <2>1. Undisturbed(s)
    BY <1>1 DEF Undisturbed, Untouched
  <2>2. r \in Active
    BY DEF Active, UnderWay
  <2> QED
    BY <1>1, <2>1, <2>2 DEF AloneInv, Alone
<1> QED
  BY <1>1 DEF AloneInv

LEMMA TakeKeepsAlone ==
    ASSUME SessionInv, AloneInv, NEW r \in Registrations, NEW i \in todo[r],
           TakeOwn(r, i) \/ TakeFromOther(r, i) \/ Renew(r, i) \/ Create(r, i)
    PROVE  AloneInv'
<1>1. Tables /\ Functional
  BY SessionParts
<1>2. /\ \A s \in Registrations \ {r} : Untouched(s)
      /\ pc' = pc /\ overlapped' = overlapped /\ pc[r] = "taking"
  BY <1>1, TakeFrame
<1>3. ASSUME Undisturbed(r)' PROVE Alone(r)'
  <2>1. Alone(r)
    BY <1>2, <1>3 DEF AloneInv, Undisturbed
  <2>2. Aware(r)
    BY <1>2, <2>1 DEF Alone, Aware
  <2>3. Aware(r)'
    BY <2>2, TakeOwnIsAware, TakeFromOtherIsAware, RenewIsAware, CreateIsAware
  <2> QED
    BY <1>2, <2>1, <2>3 DEF Alone, Aware, Active
<1> QED
  BY <1>2, <1>3, OnlyItsOwn DEF UnderWay

LEMMA EndKeepsAlone ==
    ASSUME SessionInv, AloneInv, NEW r \in Registrations, pc[r] \in UnderWay,
           NEW how \in {"done", "failed"}, End(r, how)
    PROVE  AloneInv'
<1>1. /\ \A s \in Registrations \ {r} : Untouched(s)
      /\ pc'[r] = how /\ overlapped' = overlapped
  BY SessionParts, EndFrame
<1> QED
  BY <1>1, OnlyItsOwn DEF Undisturbed, UnderWay

LEMMA StepKeepsAlone ==
    ASSUME SessionInv, AloneInv, NEW r \in Registrations, Does(r)
    PROVE  AloneInv'
<1>1. Tables /\ Functional
  BY SessionParts
<1>2. CASE Commit(r)
  <2>1. /\ \A s \in Registrations \ {r} : Untouched(s)
        /\ overlapped' = overlapped /\ pc[r] = "taking" /\ pc'[r] = "saving" /\ elected' = elected
    BY <1>1, <1>2, CommitFrame
  <2>2. elected[r] # None
    BY <2>1, SessionParts DEF Session
  <2>3. ASSUME Undisturbed(r)' PROVE Alone(r)'
    <3>1. Alone(r)
      BY <2>1, <2>3 DEF AloneInv, Undisturbed, UnderWay
    <3>2. \A s \in Active' : s = r
      BY <2>1, <3>1 DEF Alone, Active, Untouched
    <3> QED
      BY <2>1, <2>2, <3>2 DEF Alone
  <2> QED
    BY <1>2, <2>1, <2>3, OnlyItsOwn, CommitFrame, <1>1 DEF UnderWay
<1>3. CASE CommitFails(r) \/ SaveFails(r) \/ \E i \in todo[r] : TakeRefused(r, i)
  <2>1. pc[r] \in UnderWay /\ End(r, "failed")
    BY <1>3 DEF CommitFails, SaveFails, TakeRefused, Taking, Fail, UnderWay
  <2> QED
    BY <2>1, EndKeepsAlone
<1>4. CASE SaveRetrieval(r) \/ SaveEntity(r)
  <2>1. pc[r] \in UnderWay /\ End(r, "done")
    BY <1>4 DEF SaveRetrieval, SaveEntity, UnderWay
  <2> QED
    BY <2>1, EndKeepsAlone
<1> QED
  BY <1>2, <1>3, <1>4, FindKeepsAlone, TakeKeepsAlone DEF Does

LEMMA StutterKeepsAlone == AloneInv /\ UNCHANGED vars => AloneInv'
<1> SUFFICES ASSUME AloneInv, UNCHANGED vars, NEW r \in Registrations, Undisturbed(r)'
             PROVE  Alone(r)'
  BY DEF AloneInv
<1>1. /\ rows' = rows /\ entities' = entities /\ retrievals' = retrievals /\ pc' = pc
      /\ request' = request /\ elected' = elected /\ todo' = todo /\ mine' = mine
      /\ loaded' = loaded /\ renewed' = renewed /\ moved' = moved /\ added' = added
      /\ dropped' = dropped /\ before' = before /\ overlapped' = overlapped
  BY DEF vars, tables, session, history
<1>2. Alone(r)
  BY <1>1 DEF AloneInv, Undisturbed
<1>3. View(r)' = View(r)
  BY <1>1 DEF View
<1>4. Knows(r) => Knows(r)'
  BY <1>1 DEF Knows, Owners, OwnerOf
<1>5. Distinct(r) => Distinct(r)'
  BY <1>1, <1>3 DEF Distinct, IsUnique
<1>6. OnePerType(r) => OnePerType(r)'
  BY <1>1 DEF OnePerType
<1>7. Progress(r) => Progress(r)'
  BY <1>1 DEF Progress, Taken, WasDouble
<1> QED
  BY <1>1, <1>2, <1>4, <1>5, <1>6, <1>7 DEF Alone, Active

\* However registrations interleave, one that nobody disturbs knows what the tables are
\* and what it has done to them.
THEOREM AloneInvariance == Spec => [](SessionInv /\ AloneInv)
<1>1. Init => SessionInv /\ AloneInv
  <2>1. Init => AloneInv
    BY DEF Init, AloneInv, Undisturbed, UnderWay
  <2> QED
    BY <2>1, InitSession
<1>2. SessionInv /\ AloneInv /\ [Next]_vars => (SessionInv /\ AloneInv)'
  BY NextIsAStep, StepKeepsSession, StutterKeepsSession, StepKeepsAlone, StutterKeepsAlone
<1> QED
  BY <1>1, <1>2, PTL DEF Spec

-----------------------------------------------------------------------------
(* The promises of a registration                                           *)

\* What has two identifiers of a type in a session was so in the tables.
LEMMA MineTwiceIsDouble ==
    ASSUME SessionInv, NEW r \in Registrations, Aware(r), NEW k \in DOMAIN mine[r],
           NEW l \in DOMAIN mine[r], k # l, Type[mine[r][k]] = Type[mine[r][l]]
    PROVE  /\ k \in DOMAIN rows /\ l \in DOMAIN rows
           /\ rows[k].owner = elected[r] /\ rows[l].owner = elected[r]
           /\ Type[rows[k].what] = Type[mine[r][k]] /\ Type[rows[l].what] = Type[mine[r][k]]
           /\ WasDouble(before[r], elected[r], Type[mine[r][k]])
<1>1. Tables
  BY SessionParts
<1>2. k \notin moved[r] /\ l \notin moved[r]
  BY DEF Aware, OnePerType
<1>3. /\ k \in DOMAIN rows /\ l \in DOMAIN rows
      /\ rows[k].owner = elected[r] /\ rows[l].owner = elected[r]
      /\ k \notin renewed[r] => mine[r][k] = rows[k].what
      /\ l \notin renewed[r] => mine[r][l] = rows[l].what
      /\ before[r] = Owners(rows)
  BY <1>2 DEF Aware, Knows
<1>4. Type[rows[k].what] = Type[mine[r][k]] /\ Type[rows[l].what] = Type[mine[r][k]]
  BY <1>3 DEF Aware, OnePerType
<1>5. WasDouble(Owners(rows), rows[k].owner, Type[rows[k].what])
  BY <1>1, <1>3, <1>4, TwoRowsAreDouble
<1> QED
  BY <1>3, <1>4, <1>5

\* A registration nobody disturbs is never refused an identifier nor a commit, unless
\* its entity had two identifiers of a type.
LEMMA FailureIsExplained ==
    ASSUME SessionInv, AloneInv, NEW r \in Registrations, r \notin overlapped,
           CommitFails(r) \/ SaveFails(r) \/ \E i \in todo[r] : TakeRefused(r, i)
    PROVE  \E y \in Types : WasDouble(before[r], elected[r], y)
<1>1. Tables /\ OfTypes(r) /\ Session(r) /\ pc[r] \in UnderWay
  BY SessionParts DEF CommitFails, SaveFails, TakeRefused, Taking, UnderWay
<1>2. Alone(r)
  BY <1>1 DEF AloneInv, Undisturbed
<1>3. pc[r] = "taking" => Aware(r)
  BY <1>2 DEF Alone, Aware
<1>4. ~SaveFails(r)
  BY <1>2 DEF SaveFails, Alone
<1>5. ~CommitFails(r)
  <2>1. SUFFICES ASSUME CommitFails(r) PROVE FALSE
    OBVIOUS
  <2>2. Active \ {r} = {}
    BY <1>2 DEF Alone
  <2>3. ~CanCommit(r) /\ Aware(r)
    BY <1>3, <2>1, <2>2 DEF CommitFails
  <2>4. renewed[r] \union moved[r] \subseteq DOMAIN rows
    BY <1>1, <2>3 DEF OfTypes, Aware, Knows
  <2> QED
    BY <2>3, <2>4 DEF CanCommit, Aware, Distinct
<1>6. PICK i \in todo[r] : TakeRefused(r, i)
  BY <1>4, <1>5
<1>7. pc[r] = "taking" /\ Cardinality(SameType(r, i)) > 1
  BY <1>6 DEF TakeRefused, Taking
<1>8. SameType(r, i) \subseteq DOMAIN mine[r] /\ IsFiniteSet(SameType(r, i))
  <2>1. SameType(r, i) \subseteq DOMAIN mine[r]
    BY DEF SameType
  <2>2. DOMAIN mine[r] \subseteq RowIds
    BY <1>1 DEF OfTypes
  <2> QED
    BY <2>1, <2>2, FS_Subset, ResolutionAssumption
<1>9. PICK k \in SameType(r, i), l \in SameType(r, i) : k # l
  BY <1>7, <1>8, MoreAreTwo
<1>10. Type[mine[r][k]] = Type[i] /\ Type[mine[r][l]] = Type[i]
  BY <1>9 DEF SameType
<1>11. WasDouble(before[r], elected[r], Type[i])
  BY <1>3, <1>7, <1>8, <1>9, <1>10, MineTwiceIsDouble
<1>12. Type[i] \in Types
  BY <1>1, ResolutionAssumption DEF OfTypes
<1> QED
  BY <1>11, <1>12

LEMMA OnlyFailuresFail ==
    ASSUME SessionInv, NEW r \in Registrations, Does(r), NEW s \in Registrations,
           pc[s] # "failed", pc'[s] = "failed"
    PROVE  /\ s = r
           /\ CommitFails(r) \/ SaveFails(r) \/ \E i \in todo[r] : TakeRefused(r, i)
<1>1. Tables /\ Functional
  BY SessionParts
<1>2. s = r
  BY StepKeepsSession DEF Untouched
<1>3. ASSUME NEW q \in Request, FindNone(r, q) \/ FindInSafeMode(r, q) \/ Find(r, q)
      PROVE  pc'[r] # "failed"
  BY <1>1, <1>3 DEF FindNone, FindInSafeMode, Find, Elect, Functional
<1>4. ASSUME NEW i \in todo[r],
             TakeOwn(r, i) \/ TakeFromOther(r, i) \/ Renew(r, i) \/ Create(r, i)
      PROVE  pc' = pc
  BY <1>1, <1>4, TakeFrame
<1>5. CASE Commit(r)
  BY <1>1, <1>2, <1>5, CommitFrame
<1>6. CASE SaveRetrieval(r) \/ SaveEntity(r)
  <2>1. End(r, "done")
    BY <1>6 DEF SaveRetrieval, SaveEntity
  <2>2. pc'[r] = "done"
    BY <1>1, <2>1, EndFrame
  <2> QED
    BY <1>2, <2>2
<1> QED
  BY <1>2, <1>3, <1>4, <1>5, <1>6 DEF Does

\* A registration fails only for having overlapped another one, or because earlier ones
\* have left its entity with two identifiers of a type: resolve and the two transactions
\* of register take nothing into account that could refuse a lonely one otherwise.
THEOREM LonelyRegistrationsSucceed == Spec => FailsOnlyOverlapped
<1>1. ASSUME SessionInv, AloneInv, [Next]_vars
      PROVE  [\A r \in Registrations : (pc[r] # "failed" /\ pc'[r] = "failed") =>
                \/ r \in overlapped
                \/ \E y \in Types : WasDouble(before[r], elected[r], y)]_vars
  <2>1. ASSUME NEW r \in Registrations, Does(r), NEW s \in Registrations,
               pc[s] # "failed", pc'[s] = "failed"
        PROVE  \/ s \in overlapped
               \/ \E y \in Types : WasDouble(before[s], elected[s], y)
    BY <1>1, <2>1, OnlyFailuresFail, FailureIsExplained
  <2> QED
    BY <1>1, <2>1, NextIsAStep
<1> QED
  BY <1>1, AloneInvariance, PTL DEF Spec, FailsOnlyOverlapped

\* What the tables say of an identifier after the commit of a lonely registration.
LEMMA LonelyCommit ==
    ASSUME SessionInv, AloneInv, NEW r \in Registrations, Commit(r), r \notin overlapped,
           NEW i \in Identifiers
    PROVE  LET now == Owners(rows')[i]
               due == Aligned(before[r], request[r], elected[r])[i]
           IN  \/ now = due
               \/ /\ now = before[r][i]
                  /\ \/ WasDouble(before[r], elected[r], Type[i])
                     \/ /\ Type[i] \in request[r].nullify
                        /\ Cardinality(request[r].nullify) > 1
<1> DEFINE q == request[r]
           e == elected[r]
           now == Owners(rows')[i]
           due == Aligned(before[r], q, e)[i]
           types == {Type[j] : j \in q.fields} \union q.nullify
<1>1. pc[r] = "taking" /\ todo[r] = {}
  BY DEF Commit
<1>2. Tables /\ OfTypes(r) /\ Session(r)
  BY SessionParts
<1>3. Aware(r)
  BY <1>1 DEF AloneInv, Undisturbed, UnderWay, Alone, Aware
<1>4. Taken(r) = q.fields /\ added[r] \subseteq q.fields
  BY <1>1, <1>2 DEF Taken, Session
<1>5. /\ \A k \in DOMAIN rows' : rows'[k].what \in Identifiers
      /\ IsUnique(rows') /\ DOMAIN View(r) \subseteq DOMAIN rows'
      /\ \A k \in DOMAIN View(r) : rows'[k] = View(r)[k]
      /\ \A k \in DOMAIN rows' \ DOMAIN View(r) :
           rows'[k].what \in added[r] /\ rows'[k].owner = elected[r]
      /\ \A j \in added[r] : \E k \in DOMAIN rows' \ DOMAIN View(r) : rows'[k].what = j
  BY Committed DEF Row
<1>6. \A k \in DOMAIN rows' : Owners(rows')[rows'[k].what] = rows'[k].owner
  BY <1>5, OwnerOfARow
<1>7. (\A k \in DOMAIN rows' : rows'[k].what # i) => now = None
  BY OwnerOfNoRow
<1>8. due = IF i \in q.fields THEN e
            ELSE IF before[r][i] = e /\ Type[i] \in types THEN None ELSE before[r][i]
  BY DEF Aligned
<1>9. /\ renewed[r] \subseteq DOMAIN mine[r] /\ moved[r] \subseteq DOMAIN mine[r]
      /\ \A k \in renewed[r] \union moved[r] : mine[r][k] \in q.fields
  BY <1>1, <1>2, <1>4 DEF OfTypes, Session
<1>10. before[r] = Owners(rows)
  BY <1>3 DEF Aware, Knows
<1> HIDE DEF now, due
<1>11. CASE i \in q.fields
  <2>1. i \in added[r] \/ \E k \in DOMAIN mine[r] : mine[r][k] = i
    BY <1>3, <1>4, <1>11 DEF Aware, Progress
  <2>2. \E k \in DOMAIN rows' : rows'[k].what = i /\ rows'[k].owner = e
    BY <1>3, <1>5, <2>1, SeesItsOwn DEF Aware
  <2>3. now = e
    BY <1>6, <2>2 DEF now
  <2> QED
    BY <1>8, <1>11, <2>3 DEF due, now
<1>12. CASE i \notin q.fields /\ \A k \in DOMAIN rows : rows[k].what # i
  <2>1. before[r][i] = None
    BY <1>10, <1>12, OwnerOfNoRow
  <2>2. \A k \in DOMAIN rows' : rows'[k].what # i
    <3>1. ASSUME NEW k \in DOMAIN View(r) PROVE View(r)[k].what # i
      BY <1>9, <1>12, <3>1 DEF View
    <3> QED
      BY <1>4, <1>5, <1>12, <3>1
  <2>3. now = None /\ due = None
    BY <1>2, <1>7, <1>8, <1>12, <2>1, <2>2
  <2> QED
    BY <2>3 DEF due, now
<1>13. CASE i \notin q.fields /\ \E k \in DOMAIN rows : rows[k].what = i
  <2>1. PICK k \in DOMAIN rows : rows[k].what = i
    BY <1>13
  <2>2. before[r][i] = rows[k].owner /\ e \in Entities /\ rows[k].owner \in Entities
    BY <1>1, <1>2, <1>10, <2>1, OwnerOfARow, Viewed DEF Tables, Row
  <2>3. k \notin moved[r]
    <3>1. k \in moved[r] => k \notin renewed[r] /\ mine[r][k] = i
      BY <1>3, <1>9, <2>1 DEF Aware, OnePerType, Knows
    <3> QED
      BY <1>9, <1>13, <3>1
  <2>4. ASSUME NEW l \in DOMAIN rows', rows'[l].what = i PROVE l = k /\ k \notin renewed[r]
    <3>1. l \in DOMAIN View(r) /\ View(r)[l].what = i
      BY <1>4, <1>5, <1>13, <2>4
    <3>2. l \notin renewed[r] /\ rows[l].what = i /\ l \in DOMAIN rows
      BY <1>9, <1>13, <3>1 DEF View
    <3> QED
      BY <1>2, <2>1, <3>2 DEF Tables, IsUnique
  <2>5. CASE k \in dropped[r] \/ k \in renewed[r]
    <3>1. k \notin DOMAIN rows' \/ rows'[k].what # i
      BY <1>4, <1>5, <1>9, <1>13, <2>4, <2>5 DEF View
    <3>2. now = None
      BY <1>7, <2>4, <3>1
    <3>3. rows[k].owner = e
      BY <1>3, <1>9, <2>3, <2>5 DEF Aware, Progress, Knows
    <3>4. Type[i] \in types
      BY <1>3, <1>9, <2>1, <2>5 DEF Aware, Progress, OnePerType
    <3>5. due = None
      BY <1>8, <1>13, <2>2, <3>3, <3>4
    <3> QED
      BY <3>2, <3>5 DEF due, now
  <2>6. CASE k \notin dropped[r] /\ k \notin renewed[r]
    <3>1. k \in DOMAIN View(r) /\ View(r)[k].what = i /\ View(r)[k].owner = rows[k].owner
      BY <2>1, <2>3, <2>6 DEF View
    <3>2. now = rows[k].owner
      BY <1>5, <1>6, <3>1 DEF now
    <3>3. CASE rows[k].owner # e \/ Type[i] \notin types
      <4>1. due = before[r][i]
        BY <1>8, <1>13, <2>2, <3>3
      <4> QED
        BY <2>2, <3>2, <4>1 DEF due, now
    <3>4. CASE rows[k].owner = e /\ Type[i] \in q.nullify
      <4>1. k \in DOMAIN mine[r]
        BY <1>3, <2>6, <3>4 DEF Aware, Knows
      <4>2. Cardinality(q.nullify) > 1 \/ WasDouble(before[r], e, Type[i])
        BY <1>3, <2>1, <3>4, <4>1 DEF Aware, Progress
      <4> QED
        BY <2>2, <3>2, <3>4, <4>2 DEF due, now
    <3>5. CASE rows[k].owner = e /\ \E j \in q.fields : Type[i] = Type[j]
      <4>1. PICK j \in q.fields : Type[i] = Type[j]
        BY <3>5
      <4>2. k \in DOMAIN mine[r] /\ mine[r][k] = i
        BY <1>3, <2>1, <2>6, <3>5 DEF Aware, Knows
      <4>3. j \notin added[r]
        BY <1>3, <4>1, <4>2 DEF Aware, OnePerType
      <4>4. PICK l \in DOMAIN mine[r] : mine[r][l] = j
        BY <1>3, <1>4, <4>1, <4>3 DEF Aware, Progress
      <4>5. l # k
        BY <1>13, <4>1, <4>2, <4>4
      <4>6. WasDouble(before[r], e, Type[i])
        BY <1>3, <4>1, <4>2, <4>4, <4>5, MineTwiceIsDouble
      <4> QED
        BY <2>2, <3>2, <4>6 DEF due, now
    <3> QED
      BY <3>3, <3>4, <3>5
  <2> QED
    BY <2>5, <2>6
<1> QED
  BY <1>11, <1>12, <1>13

\* A registration nobody disturbs aligns the identifiers as it was asked to, in whatever
\* order they are loaded and taken and whoever had them, but for what the loop over a
\* list that shrinks and a second identifier of a type leave (take_or_create_identifier,
\* _remove_nullified_identifiers).
THEOREM LonelyRegistrationsAlign == Spec => AlignsAlone
<1>1. ASSUME SessionInv, AloneInv
      PROVE  [\A r \in Registrations : (Commit(r) /\ r \notin overlapped) =>
                \A i \in Identifiers :
                    LET now == Owners(rows')[i]
                        due == Aligned(before[r], request[r], elected[r])[i]
                    IN  \/ now = due
                        \/ /\ now = before[r][i]
                           /\ \/ WasDouble(before[r], elected[r], Type[i])
                              \/ /\ Type[i] \in request[r].nullify
                                 /\ Cardinality(request[r].nullify) > 1]_vars
  BY <1>1, LonelyCommit
<1> QED
  BY <1>1, AloneInvariance, PTL DEF Spec, AlignsAlone

LEMMA DoublesIff ==
    ASSUME NEW o, NEW y
    PROVE  <<o, y>> \in Doubles <=>
             \E k, l \in DOMAIN rows : /\ k # l /\ rows[k].owner = o /\ rows[l].owner = o
                                       /\ Type[rows[k].what] = y /\ Type[rows[l].what] = y
BY DEF Doubles

\* A lonely commit gives no entity a second identifier of a type.
LEMMA CommitDoublesNothing ==
    ASSUME SessionInv, AloneInv, NEW r \in Registrations, Commit(r), r \notin overlapped,
           NEW k \in DOMAIN rows', NEW l \in DOMAIN rows', k # l,
           rows'[k].owner = rows'[l].owner, Type[rows'[k].what] = Type[rows'[l].what]
    PROVE  \E m, n \in DOMAIN rows :
             /\ m # n /\ rows[m].owner = rows'[k].owner /\ rows[n].owner = rows'[k].owner
             /\ Type[rows[m].what] = Type[rows'[k].what]
             /\ Type[rows[n].what] = Type[rows'[k].what]
<1>1. pc[r] = "taking" /\ todo[r] = {}
  BY DEF Commit
<1>2. Tables /\ OfTypes(r) /\ Session(r)
  BY SessionParts
<1>3. Aware(r)
  BY <1>1 DEF AloneInv, Undisturbed, UnderWay, Alone, Aware
<1>4. added[r] \subseteq request[r].fields /\ request[r] \in Request
  BY <1>1, <1>2 DEF Taken, Session, UnderWay
<1>5. /\ IsUnique(rows') /\ DOMAIN View(r) \subseteq DOMAIN rows'
      /\ \A m \in DOMAIN View(r) : rows'[m] = View(r)[m]
      /\ \A m \in DOMAIN rows' \ DOMAIN View(r) :
           rows'[m].what \in added[r] /\ rows'[m].owner = elected[r]
  BY Committed
<1>6. /\ renewed[r] \subseteq DOMAIN mine[r] /\ moved[r] \subseteq DOMAIN mine[r]
  BY <1>2 DEF OfTypes
<1>7. ASSUME NEW m \in DOMAIN View(r)
      PROVE  /\ m \in DOMAIN rows /\ m \notin dropped[r]
             /\ rows'[m].what = IF m \in renewed[r] THEN mine[r][m] ELSE rows[m].what
             /\ rows'[m].owner = IF m \in moved[r] THEN elected[r] ELSE rows[m].owner
             /\ rows'[m] = [what |-> rows'[m].what, owner |-> rows'[m].owner]
  <2>1. m \in DOMAIN rows \ dropped[r]
    BY DEF View
  <2>2. View(r)[m] = [what |-> IF m \in renewed[r] THEN mine[r][m] ELSE rows[m].what,
                      owner |-> IF m \in moved[r] THEN elected[r] ELSE rows[m].owner]
    BY <2>1 DEF View
  <2> QED
    BY <1>5, <2>1, <2>2
<1>8. ASSUME NEW m \in DOMAIN View(r), rows'[m].owner = elected[r]
      PROVE  m \in DOMAIN mine[r] /\ rows'[m].what = mine[r][m]
  <2>1. m \in DOMAIN rows /\ m \notin dropped[r]
    BY <1>7
  <2>2. m \in DOMAIN mine[r]
    <3>1. m \in moved[r] \/ rows[m].owner = elected[r]
      BY <1>7, <1>8
    <3> QED
      BY <1>3, <1>6, <2>1, <3>1 DEF Aware, Knows
  <2> QED
    BY <1>3, <1>5, <1>8, <2>2, SeesItsOwn DEF Aware
<1>9. ASSUME NEW m \in DOMAIN View(r), rows'[m].owner # elected[r]
      PROVE  m \in DOMAIN rows /\ rows'[m] = rows[m]
  <2>1. m \in DOMAIN rows /\ m \notin moved[r]
    BY <1>7, <1>9
  <2>2. m \notin DOMAIN mine[r]
    BY <1>3, <1>5, <1>9, SeesItsOwn DEF Aware
  <2>3. rows'[m] = [what |-> rows[m].what, owner |-> rows[m].owner]
    BY <1>7, <1>6, <2>1, <2>2
  <2> QED
    BY <1>2, <2>1, <2>3 DEF Tables, Row
<1>10. CASE rows'[k].owner # elected[r]
  BY <1>5, <1>9, <1>10
<1>11. CASE rows'[k].owner = elected[r]
  <2>1. CASE k \in DOMAIN View(r) /\ l \in DOMAIN View(r)
    <3>1. /\ k \in DOMAIN mine[r] /\ rows'[k].what = mine[r][k]
          /\ l \in DOMAIN mine[r] /\ rows'[l].what = mine[r][l]
      BY <1>8, <1>11, <2>1
    <3>2. Type[mine[r][k]] = Type[mine[r][l]]
      BY <3>1
    <3> QED
      BY <1>3, <1>11, <3>1, <3>2, MineTwiceIsDouble
  <2>2. CASE k \notin DOMAIN View(r) /\ l \notin DOMAIN View(r)
    <3>1. rows'[k].what = rows'[l].what
      BY <1>4, <1>5, <2>2, OneOfAType
    <3> QED
      BY <1>5, <3>1 DEF IsUnique
  <2>3. CASE k \in DOMAIN View(r) /\ l \notin DOMAIN View(r)
    <3>1. k \in DOMAIN mine[r] /\ rows'[k].what = mine[r][k] /\ rows'[l].what \in added[r]
      BY <1>5, <1>8, <1>11, <2>3
    <3>2. Type[mine[r][k]] # Type[rows'[l].what]
      BY <1>3, <3>1 DEF Aware, OnePerType
    <3> QED
      BY <3>1, <3>2
  <2>4. CASE k \notin DOMAIN View(r) /\ l \in DOMAIN View(r)
    <3>1. l \in DOMAIN mine[r] /\ rows'[l].what = mine[r][l] /\ rows'[k].what \in added[r]
      BY <1>5, <1>8, <1>11, <2>4
    <3>2. Type[mine[r][l]] # Type[rows'[k].what]
      BY <1>3, <3>1 DEF Aware, OnePerType
    <3> QED
      BY <3>1, <3>2
  <2> QED
    BY <2>1, <2>2, <2>3, <2>4
<1> QED
  BY <1>10, <1>11

\* A new entity has one identifier of a type, as it was submitted.
LEMMA SaveDoublesNothing ==
    ASSUME SessionInv, NEW r \in Registrations, SaveEntity(r),
           NEW k \in DOMAIN rows', NEW l \in DOMAIN rows', k # l,
           rows'[k].owner = rows'[l].owner, Type[rows'[k].what] = Type[rows'[l].what]
    PROVE  /\ k \in DOMAIN rows /\ l \in DOMAIN rows
           /\ rows'[k] = rows[k] /\ rows'[l] = rows[l]
<1>1. Tables /\ request[r] \in Request
  BY SessionParts DEF SaveEntity, Session, UnderWay
<1>2. PICK e \in Entities \ entities :
             /\ IsUnique(rows')
             /\ DOMAIN rows \subseteq DOMAIN rows'
             /\ \A m \in DOMAIN rows : rows'[m] = rows[m]
             /\ \A m \in DOMAIN rows' \ DOMAIN rows :
                  rows'[m].what \in request[r].fields /\ rows'[m].owner = e
  BY Saved
<1>3. \A m \in DOMAIN rows : rows'[m].owner # e
  BY <1>1, <1>2 DEF Tables
<1>4. ASSUME k \notin DOMAIN rows, l \notin DOMAIN rows PROVE FALSE
  <2>1. rows'[k].what = rows'[l].what
    BY <1>1, <1>2, <1>4, OneOfAType
  <2> QED
    BY <1>2, <2>1 DEF IsUnique
<1> QED
  BY <1>2, <1>3, <1>4

LEMMA OnlyTwoStepsWrite ==
    ASSUME SessionInv, NEW r \in Registrations, Does(r)
    PROVE  Commit(r) \/ SaveEntity(r) \/ rows' = rows
<1>1. Tables /\ Functional
  BY SessionParts
<1>2. ASSUME NEW q \in Request, FindNone(r, q) \/ FindInSafeMode(r, q) \/ Find(r, q)
      PROVE  rows' = rows
  BY <1>2 DEF FindNone, FindInSafeMode, Find, Elect, tables
<1>3. ASSUME NEW i \in todo[r],
             TakeOwn(r, i) \/ TakeFromOther(r, i) \/ Renew(r, i) \/ Create(r, i)
      PROVE  rows' = rows
  BY <1>1, <1>3, TakeFrame
<1>4. CASE CommitFails(r) \/ SaveFails(r) \/ \E i \in todo[r] : TakeRefused(r, i)
  BY <1>4 DEF CommitFails, SaveFails, TakeRefused, Fail, tables
<1>5. CASE SaveRetrieval(r)
  BY <1>5 DEF SaveRetrieval
<1> QED
  BY <1>2, <1>3, <1>4, <1>5 DEF Does

\* While registrations do not overlap, no entity gets a second identifier of a type: what
\* take_or_create_identifier removes, replaces and creates, and what create_retrieval
\* saves, keeps to one.
THEOREM LonelyRegistrationsKeepOnePerType == Spec => OnePerTypeAlone
<1>1. ASSUME SessionInv, AloneInv, NEW r \in Registrations, Does(r), overlapped' = {},
             NEW o, NEW y, <<o, y>> \in Doubles'
      PROVE  <<o, y>> \in Doubles
  <2>1. PICK k \in DOMAIN rows', l \in DOMAIN rows' :
          /\ k # l /\ rows'[k].owner = o /\ rows'[l].owner = o
          /\ Type[rows'[k].what] = y /\ Type[rows'[l].what] = y
    BY <1>1 DEF Doubles
  <2>2. CASE Commit(r)
    <3>1. r \notin overlapped
      BY <1>1, <2>2, SessionParts, CommitFrame
    <3> QED
      <4>1. \E m, n \in DOMAIN rows :
              /\ m # n /\ rows[m].owner = rows'[k].owner /\ rows[n].owner = rows'[k].owner
              /\ Type[rows[m].what] = Type[rows'[k].what]
              /\ Type[rows[n].what] = Type[rows'[k].what]
        BY <1>1, <2>1, <2>2, <3>1, CommitDoublesNothing
      <4> QED
        BY <2>1, <4>1, DoublesIff
  <2>3. CASE SaveEntity(r)
    <3>1. /\ k \in DOMAIN rows /\ l \in DOMAIN rows
          /\ rows'[k] = rows[k] /\ rows'[l] = rows[l]
      BY <1>1, <2>1, <2>3, SaveDoublesNothing
    <3> QED
      BY <2>1, <3>1, DoublesIff
  <2>4. CASE rows' = rows
    BY <2>1, <2>4, DoublesIff
  <2> QED
    BY <1>1, <2>2, <2>3, <2>4, OnlyTwoStepsWrite
<1>2. ASSUME SessionInv, AloneInv, [Next]_vars
      PROVE  [overlapped' = {} => Doubles' \subseteq Doubles]_vars
  <2>1. SUFFICES ASSUME Next, overlapped' = {}, NEW d \in Doubles' PROVE d \in Doubles
    BY <1>2
  <2>2. PICK o, y : d = <<o, y>>
    BY <2>1 DEF Doubles
  <2> QED
    BY <1>1, <1>2, <2>1, <2>2, NextIsAStep
<1> QED
  BY <1>2, AloneInvariance, PTL DEF Spec, OnePerTypeAlone

=============================================================================
