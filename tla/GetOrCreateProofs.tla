-------------------------- MODULE GetOrCreateProofs --------------------------
(***************************************************************************)
(* Proofs about GetOrCreate, for any conversions, jobs, rows and demands   *)
(* that the assumption on Starts allows.                                   *)
(***************************************************************************)
EXTENDS GetOrCreate, TLAPS, FiniteSetTheorems, SequenceTheorems, WellFoundedInduction

Places == {"waiting", "in bulk", "looking", "looking again", "solving", "matching",
           "inserting", "committing", "identifying", "recording", "recorded", "failed"}

\* The places where a conversion has a current demand.
Demanding == Places \ {"waiting", "recording", "recorded", "failed"}

TodoShape(t) ==
    /\ IsSequence(todo[t]) /\ \A k \in DOMAIN todo[t] : IsDemand(todo[t][k])
    /\ at[t] \in Demanding => todo[t] # <<>>

\* What a conversion asks for and has found out, where it is.
PlaceShape(t) ==
    /\ at[t] = "in bulk" => Demand(t).kind = "concept"
    /\ at[t] = "looking again" => Demand(t).kind \in {"journal", "book"}
    /\ at[t] = "solving" => Demand(t).kind \in {"concept", "organization"}
    /\ at[t] = "matching" => Demand(t).kind = "organization"
    /\ at[t] = "identifying" =>
         /\ Demand(t).kind = "contributor" /\ held[t] # <<>>
         /\ rows[Last(held[t]).row].kind = "contributor"
    /\ at[t] = "inserting" /\ Demand(t).kind = "concept" =>
         /\ ContentFits("concept", made[t])
         /\ made[t].flag => HasAuthority(made[t].labels)

ObjectShape(o) ==
    /\ o.row \in DOMAIN rows
    /\ ContentFits(rows[o.row].kind, o.is)
    /\ rows[o.row].kind = "contributor" => o.is.name = o.says.name

HeldShape(t) ==
    IsSequence(held[t]) /\ \A k \in DOMAIN held[t] : ObjectShape(held[t][k])

\* A row that is not committed is the one its conversion has just inserted.
RowsShape ==
    /\ IsSequence(rows)
    /\ \A i \in DOMAIN rows : IsRow(rows[i])
    /\ \A i \in DOMAIN rows : ~rows[i].committed =>
         /\ rows[i].by \in Conversions /\ at[rows[i].by] = "committing"
         /\ rows[i].kind = Demand(rows[i].by).kind
    /\ \A i, j \in DOMAIN rows :
         ~rows[i].committed /\ ~rows[j].committed /\ rows[i].by = rows[j].by => i = j

JobShape(j) ==
    /\ job[j] = [at |-> job[j].at, concept |-> job[j].concept, read |-> job[j].read,
                 seen |-> job[j].seen]
    /\ job[j].at \in {"solving", "merging"} =>
         job[j].concept \in DOMAIN rows /\ rows[job[j].concept].kind = "concept"

Shape ==
    /\ DOMAIN todo = Conversions /\ DOMAIN retried = Conversions /\ DOMAIN looked = Conversions
    /\ DOMAIN made = Conversions /\ DOMAIN held = Conversions /\ DOMAIN why = Conversions
    /\ at \in [Conversions -> Places] /\ beside \in [Conversions -> SUBSET Conversions]
    /\ DOMAIN job = Jobs
    /\ RowsShape
    /\ \A t \in Conversions : TodoShape(t) /\ PlaceShape(t) /\ HeldShape(t)
    /\ \A j \in Jobs : JobShape(j)

-----------------------------------------------------------------------------

\* Overlapping is symmetric, and conversions that run together overlap.
Overlap ==
    /\ \A t \in Conversions : t \notin beside[t]
    /\ \A t, u \in Conversions : u \in beside[t] =>
         t \in beside[u] /\ at[t] # "waiting" /\ at[u] # "waiting"
    /\ \A t, u \in Running : t # u => u \in beside[t]

(* What a conversion has looked for and not found is either not there or   *)
(* was created by a conversion it overlaps.                                *)
Sought(t) ==
    /\ at[t] = "looking again" =>
         \A i \in DOMAIN rows : FirstMatch(Demand(t), rows[i]) => rows[i].by \in beside[t]
    /\ at[t] \in {"solving", "matching", "inserting"} =>
         \A i \in DOMAIN rows : SameRecord(rows[i], Demand(t)) => rows[i].by \in beside[t]

Raced ==
    \A i, j \in DOMAIN rows :
      i < j /\ SameRecord(rows[i], rows[j]) =>
        rows[i].by \in Conversions /\ rows[j].by \in beside[rows[i].by]

Races == Overlap /\ Raced /\ \A t \in Conversions : Sought(t)

-----------------------------------------------------------------------------

(* A new attempt finds the row that rejected the first, which another      *)
(* conversion inserted, unless a value is missing.                         *)
Retries(t) ==
    /\ retried[t] \in BOOLEAN
    /\ retried[t] /\ ~Lacks(Demand(t)) =>
         /\ at[t] \in {"looking", "identifying", "failed"}
         /\ at[t] = "looking" => Found(Demand(t)) # {} /\ beside[t] # {}

\* A concept is completed again only when an overlapping conversion inserted it.
Completions(t) ==
    /\ at[t] \in {"waiting", "in bulk"} => looked[t] = {}
    /\ at[t] = "looking" /\ looked[t] # {} /\ Demand(t).kind = "concept" =>
         /\ beside[t] # {}
         /\ Completion(Demand(t).says.source, looked[t]) \in {"completed", "DereferencingError"}
    /\ at[t] \in {"solving", "inserting"} /\ Demand(t).kind = "concept" =>
         Completion(Demand(t).says.source, looked[t]) \in {"completed", "DereferencingError"}

\* What explains each failure, of a conversion that has failed.
Reason(t) ==
    CASE why[t] = "MultipleResultsFound" -> \E u \in Conversions : beside[u] # {}
      [] why[t] = "DereferencingError" -> beside[t] # {}
      [] why[t] = "InvalidRequestError" -> Demand(t).kind = "issue" /\ beside[t] # {}
      [] why[t] = "AssertionError" -> Lacks(Demand(t))
      [] why[t] = "IntegrityError" ->
           \E o \in Range(held[t]) : rows[o.row].kind = "contributor" /\ o.says.name = None
      [] OTHER -> why[t] \in {"nothing", "ExternalEndpointFailure", "LookupError"}

Explained ==
    \A t \in Conversions : Reason(t) /\ (why[t] # "nothing" => at[t] = "failed")

Failing == \A t \in Conversions : Retries(t) /\ Completions(t)

-----------------------------------------------------------------------------

Names(c) == {c.name} \cup c.variants

\* A conversion holds nothing before it begins, then rows that are committed.
Holding ==
    \A t \in Conversions :
      /\ at[t] = "waiting" => held[t] = <<>>
      /\ \A k \in DOMAIN held[t] : rows[held[t][k].row].committed

(* A conversion holds a contributor once; the objects of conversions that  *)
(* run know every name of their row, as long as nobody else can write it.  *)
NamesFlow ==
    /\ \A t \in Conversions : \A k, l \in DOMAIN held[t] :
         held[t][k].row = held[t][l].row /\ rows[held[t][k].row].kind = "contributor" => k = l
    /\ \A t \in Running : \A k \in DOMAIN held[t] :
         rows[held[t][k].row].kind = "contributor" /\ Apart(Holders(held[t][k].row)) =>
           Names(rows[held[t][k].row].is) \subseteq Names(held[t][k].is)
    /\ \A n \in named : n[1] \in DOMAIN rows /\ rows[n[1]].kind = "contributor"
    /\ \A n \in named : Apart(Holders(n[1])) => n[2] \in Names(rows[n[1]].is)

\* The flag and the labels of an authority go together, in rows and in objects.
LabelsFlow ==
    /\ \A i \in DOMAIN rows :
         rows[i].kind = "concept" /\ rows[i].is.flag /\ Apart(Holders(i)) =>
           HasAuthority(rows[i].is.labels)
    /\ \A t \in Running : \A k \in DOMAIN held[t] :
         LET o == held[t][k]
         IN  rows[o.row].kind = "concept" /\ Apart(Holders(o.row)) /\ o.is.flag =>
               /\ HasAuthority(rows[o.row].is.labels)
               /\ HasAuthority(o.is.labels)

-----------------------------------------------------------------------------
(* Sequences                                                               *)

\* The indices of a sequence.
LEMMA SequenceIs ==
    ASSUME NEW s, IsSequence(s)
    PROVE  /\ DOMAIN s = 1..Len(s) /\ Len(s) \in Nat
           /\ s # <<>> => Len(s) >= 1 /\ Head(s) = s[1] /\ 1 \in DOMAIN s /\ Len(s) \in DOMAIN s
<1>1. s \in Seq(Range(s))
  BY DEF IsSequence
<1>2. DOMAIN s = 1..Len(s) /\ Len(s) \in Nat
  BY <1>1
<1>3. s # <<>> => Len(s) \in Nat \ {0} /\ Head(s) = s[1]
  BY <1>1, EmptySeq
<1>. QED
  BY <1>2, <1>3

\* A sequence of anything is a sequence of its own elements.
LEMMA AnySequence ==
    ASSUME NEW E, NEW s \in Seq(E)
    PROVE  IsSequence(s)
BY SeqOfRange DEF IsSequence

\* A sequence that takes one more element.
LEMMA AppendIs ==
    ASSUME NEW s, IsSequence(s), NEW e
    PROVE  /\ IsSequence(Append(s, e)) /\ Append(s, e) # <<>>
           /\ Len(Append(s, e)) = Len(s) + 1
           /\ DOMAIN Append(s, e) = DOMAIN s \union {Len(s) + 1}
           /\ \A k \in DOMAIN s : Append(s, e)[k] = s[k]
           /\ Append(s, e)[Len(s) + 1] = e /\ Last(Append(s, e)) = e
<1>. DEFINE E == Range(s) \union {e}
           a == Append(s, e)
<1>1. s \in Seq(E)
  <2>1. s \in Seq(Range(s)) /\ Range(s) \subseteq E
    BY DEF IsSequence
  <2>. HIDE DEF E
  <2>. QED
    BY <2>1, SeqMonotonic
<1>. HIDE DEF E
<1>2. e \in E
  BY DEF E
<1>3. /\ a \in Seq(E) /\ Len(a) = Len(s) + 1
      /\ \A k \in 1..Len(s) : a[k] = s[k]
      /\ a[Len(s) + 1] = e
  BY <1>1, <1>2, AppendProperties
<1>. HIDE DEF a
<1>4. IsSequence(a) /\ IsSequence(s)
  BY <1>3, AnySequence
<1>5. DOMAIN a = 1..Len(a) /\ DOMAIN s = 1..Len(s) /\ Len(s) \in Nat
  BY <1>4, SequenceIs
<1>6. DOMAIN a = DOMAIN s \union {Len(s) + 1}
  BY <1>3, <1>5
<1>7. a # <<>>
  BY <1>3, <1>5
<1>. QED
  BY <1>3, <1>4, <1>5, <1>6, <1>7 DEF a, Last

\* A sequence without its first element.
LEMMA TailIs ==
    ASSUME NEW s, IsSequence(s), s # <<>>
    PROVE  /\ IsSequence(Tail(s))
           /\ \A k \in DOMAIN Tail(s) : k + 1 \in DOMAIN s /\ Tail(s)[k] = s[k + 1]
           /\ Len(s) # 1 => Tail(s) # <<>> /\ Head(Tail(s)) = s[2]
<1>. DEFINE a == Tail(s)
<1>1. s \in Seq(Range(s)) /\ DOMAIN s = 1..Len(s) /\ Len(s) \in Nat /\ Len(s) >= 1
  BY SequenceIs DEF IsSequence
<1>2. /\ a \in Seq(Range(s)) /\ Len(a) = Len(s) - 1
      /\ \A k \in 1..Len(a) : a[k] = s[k + 1]
  BY <1>1, HeadTailProperties
<1>. HIDE DEF a
<1>3. IsSequence(a)
  BY <1>2, AnySequence
<1>4. DOMAIN a = 1..Len(a)
  BY <1>3, SequenceIs
<1>5. \A k \in DOMAIN a : k + 1 \in DOMAIN s /\ a[k] = s[k + 1]
  BY <1>1, <1>2, <1>4
<1>6. ASSUME Len(s) # 1 PROVE a # <<>> /\ Head(a) = s[2]
  <2>1. Len(a) >= 1 /\ 1 \in 1..Len(a) /\ a[1] = s[1 + 1]
    BY <1>1, <1>2, <1>6
  <2>2. a # <<>>
    BY <2>1
  <2>. QED
    BY <1>3, <2>1, <2>2, SequenceIs
<1>. QED
  BY <1>3, <1>5, <1>6 DEF a

\* A function with the indices of a sequence.
LEMMA SameLengthIs ==
    ASSUME NEW s, IsSequence(s), NEW f, f = [k \in DOMAIN s |-> f[k]]
    PROVE  IsSequence(f) /\ DOMAIN f = DOMAIN s
<1>1. DOMAIN s = 1..Len(s) /\ Len(s) \in Nat
  BY SequenceIs
<1>2. DOMAIN f = 1..Len(s)
  BY <1>1
<1>3. f \in [1..Len(s) -> Range(f)]
  BY <1>1, <1>2 DEF Range
<1>4. f \in Seq(Range(f))
  BY <1>1, <1>3, SeqDef
<1>. QED
  BY <1>1, <1>2, <1>4 DEF IsSequence

-----------------------------------------------------------------------------
(* What a step of a conversion leaves alone                                *)

OnlyMoves(t) ==
    /\ DOMAIN todo' = Conversions /\ DOMAIN retried' = Conversions
    /\ DOMAIN looked' = Conversions /\ DOMAIN made' = Conversions
    /\ DOMAIN held' = Conversions /\ DOMAIN why' = Conversions
    /\ at' \in [Conversions -> Places]
    /\ \A u \in Conversions \ {t} :
         /\ at'[u] = at[u] /\ todo'[u] = todo[u] /\ retried'[u] = retried[u]
         /\ looked'[u] = looked[u] /\ made'[u] = made[u] /\ held'[u] = held[u]
         /\ why'[u] = why[u]

\* The rows keep their keys and their creator, and stay committed.
KeepsRows ==
    /\ DOMAIN rows \subseteq DOMAIN rows'
    /\ \A i \in DOMAIN rows :
         /\ rows'[i].kind = rows[i].kind /\ rows'[i].ids = rows[i].ids
         /\ rows'[i].soft = rows[i].soft /\ rows'[i].name = rows[i].name
         /\ rows'[i].by = rows[i].by
         /\ rows[i].committed => rows'[i].committed

\* The steps of one conversion do not change what the others have at hand.
LEMMA MovesKeepShape ==
    ASSUME Shape, NEW t \in Conversions, OnlyMoves(t), KeepsRows, RowsShape',
           TodoShape(t)', PlaceShape(t)', HeldShape(t)',
           beside' \in [Conversions -> SUBSET Conversions], job' = job
    PROVE  Shape'
<1>1. ASSUME NEW u \in Conversions \ {t}
      PROVE  TodoShape(u)' /\ PlaceShape(u)' /\ HeldShape(u)'
  <2>1. /\ at'[u] = at[u] /\ todo'[u] = todo[u] /\ made'[u] = made[u] /\ held'[u] = held[u]
        /\ TodoShape(u) /\ PlaceShape(u) /\ HeldShape(u)
    BY DEF OnlyMoves, Shape
  <2>2. TodoShape(u)'
    BY <2>1 DEF TodoShape
  <2>3. ASSUME NEW o, ObjectShape(o)
        PROVE  ObjectShape(o)'
    <3>1. o.row \in DOMAIN rows'
      BY <2>3 DEF KeepsRows, ObjectShape
    <3>2. rows'[o.row].kind = rows[o.row].kind
      BY <2>3 DEF KeepsRows, ObjectShape
    <3>. QED
      BY <2>3, <3>1, <3>2 DEF ObjectShape
  <2>4. HeldShape(u)'
    BY <2>1, <2>3 DEF HeldShape
  <2>5. ASSUME at[u] = "identifying"
        PROVE  rows'[Last(held[u]).row].kind = rows[Last(held[u]).row].kind
    <3>1. Last(held[u]) = held[u][Len(held[u])] /\ Len(held[u]) \in DOMAIN held[u]
      BY <2>1, <2>5, SequenceIs DEF PlaceShape, HeldShape, Last
    <3>2. Last(held[u]).row \in DOMAIN rows
      BY <2>1, <3>1 DEF HeldShape, ObjectShape
    <3>. QED
      BY <3>2 DEF KeepsRows
  <2>6. PlaceShape(u)'
    BY <2>1, <2>5 DEF PlaceShape, Demand
  <2>. QED
    BY <2>2, <2>4, <2>6
<1>2. ASSUME NEW j \in Jobs
      PROVE  JobShape(j)'
  <2>1. JobShape(j) /\ job'[j] = job[j]
    BY DEF Shape
  <2>. QED
    BY <2>1 DEF JobShape, KeepsRows
<1>3. /\ DOMAIN todo' = Conversions /\ DOMAIN retried' = Conversions
      /\ DOMAIN looked' = Conversions /\ DOMAIN made' = Conversions
      /\ DOMAIN held' = Conversions /\ DOMAIN why' = Conversions
      /\ at' \in [Conversions -> Places] /\ DOMAIN job' = Jobs
  BY DEF OnlyMoves, Shape
<1>. QED
  BY <1>1, <1>2, <1>3 DEF Shape

\* A row that takes another content.
LEMMA RowWith ==
    ASSUME NEW r, IsRow(r), NEW x, ContentFits(r.kind, x)
    PROVE  LET q == [r EXCEPT !.is = x]
           IN  /\ IsRow(q) /\ q.is = x
               /\ q.kind = r.kind /\ q.ids = r.ids /\ q.soft = r.soft /\ q.name = r.name
               /\ q.by = r.by /\ q.committed = r.committed
<1>. DEFINE q == [r EXCEPT !.is = x]
<1>1. q = [kind |-> r.kind, ids |-> r.ids, soft |-> r.soft, name |-> r.name, says |-> r.says,
           by |-> r.by, committed |-> r.committed, is |-> x]
  BY DEF IsRow
<1>. HIDE DEF q
<1>2. /\ q.is = x /\ q.kind = r.kind /\ q.ids = r.ids /\ q.soft = r.soft /\ q.name = r.name
      /\ q.says = r.says /\ q.by = r.by /\ q.committed = r.committed
  BY <1>1
<1>3. IsRow(q)
  BY <1>1, <1>2 DEF IsRow, WellKeyed, Lacks
<1>. QED
  BY <1>2, <1>3 DEF q

\* Only the contents of rows change, and no conversion commits.
LEMMA RowsStay ==
    ASSUME Shape, NEW t \in Conversions, OnlyMoves(t), at[t] # "committing",
           IsSequence(rows'), DOMAIN rows' = DOMAIN rows,
           \A i \in DOMAIN rows :
             \/ rows'[i] = rows[i]
             \/ \E x : ContentFits(rows[i].kind, x) /\ rows'[i] = [rows[i] EXCEPT !.is = x]
    PROVE  RowsShape' /\ KeepsRows
<1>1. ASSUME NEW i \in DOMAIN rows
      PROVE  /\ IsRow(rows'[i])
             /\ rows'[i].kind = rows[i].kind /\ rows'[i].ids = rows[i].ids
             /\ rows'[i].soft = rows[i].soft /\ rows'[i].name = rows[i].name
             /\ rows'[i].by = rows[i].by /\ rows'[i].committed = rows[i].committed
  <2>1. IsRow(rows[i])
    BY DEF Shape, RowsShape
  <2>2. ASSUME NEW x, ContentFits(rows[i].kind, x), rows'[i] = [rows[i] EXCEPT !.is = x]
        PROVE  /\ IsRow(rows'[i])
               /\ rows'[i].kind = rows[i].kind /\ rows'[i].ids = rows[i].ids
               /\ rows'[i].soft = rows[i].soft /\ rows'[i].name = rows[i].name
               /\ rows'[i].by = rows[i].by /\ rows'[i].committed = rows[i].committed
    BY <2>1, <2>2, RowWith
  <2>. QED
    BY <2>1, <2>2
<1>2. KeepsRows
  BY <1>1 DEF KeepsRows
<1>3. ASSUME NEW i \in DOMAIN rows, ~rows[i].committed
      PROVE  /\ rows[i].by \in Conversions /\ at'[rows[i].by] = "committing"
             /\ rows[i].kind = Head(todo'[rows[i].by]).kind
  <2>1. /\ rows[i].by \in Conversions /\ at[rows[i].by] = "committing"
        /\ rows[i].kind = Demand(rows[i].by).kind
    BY <1>3 DEF Shape, RowsShape
  <2>2. at'[rows[i].by] = at[rows[i].by] /\ todo'[rows[i].by] = todo[rows[i].by]
    BY <2>1 DEF OnlyMoves
  <2>. QED
    BY <2>1, <2>2 DEF Demand
<1>4. \A i, j \in DOMAIN rows :
        ~rows[i].committed /\ ~rows[j].committed /\ rows[i].by = rows[j].by => i = j
  BY DEF Shape, RowsShape
<1>5. RowsShape'
  BY <1>1, <1>3, <1>4 DEF RowsShape, Demand
<1>. QED
  BY <1>2, <1>5

\* In particular when no row changes.
LEMMA RowsUnchanged ==
    ASSUME Shape, NEW t \in Conversions, OnlyMoves(t), at[t] # "committing", rows' = rows
    PROVE  RowsShape' /\ KeepsRows
<1>1. IsSequence(rows') /\ DOMAIN rows' = DOMAIN rows /\ \A i \in DOMAIN rows : rows'[i] = rows[i]
  BY DEF Shape, RowsShape
<1>. QED
  BY <1>1, RowsStay

-----------------------------------------------------------------------------
(* The parts of the steps of a conversion                                  *)

\* Where a conversion is when it goes on to its next demand.
Between == {"recording", "in bulk", "looking"}

NextDemandDone(t) ==
    /\ todo'[t] = Tail(todo[t]) /\ retried'[t] = FALSE /\ looked'[t] = {} /\ made'[t] = <<>>
    /\ at'[t] \in Between

\* The next demand is looked for, in bulk if it is a concept.
LEMMA NextDemandIs ==
    ASSUME Shape, NEW t \in Conversions, at[t] \in Demanding, NextDemand(t)
    PROVE  /\ NextDemandDone(t)
           /\ TodoShape(t)' /\ PlaceShape(t)'
           /\ DOMAIN todo' = Conversions /\ DOMAIN retried' = Conversions
           /\ DOMAIN looked' = Conversions /\ DOMAIN made' = Conversions
           /\ at' \in [Conversions -> Places]
           /\ \A u \in Conversions \ {t} :
                /\ at'[u] = at[u] /\ todo'[u] = todo[u] /\ retried'[u] = retried[u]
                /\ looked'[u] = looked[u] /\ made'[u] = made[u]
<1>1. TodoShape(t) /\ todo[t] # <<>>
  BY DEF Shape, TodoShape
<1>2. /\ IsSequence(Tail(todo[t])) /\ \A k \in DOMAIN Tail(todo[t]) : IsDemand(Tail(todo[t])[k])
      /\ Len(todo[t]) # 1 => Tail(todo[t]) # <<>> /\ Head(Tail(todo[t])) = todo[t][2]
  <2>1. IsSequence(todo[t]) /\ \A k \in DOMAIN todo[t] : IsDemand(todo[t][k])
    BY <1>1 DEF TodoShape
  <2>. QED
    BY <1>1, <2>1, TailIs
<1>3. /\ todo' = [todo EXCEPT ![t] = Tail(todo[t])] /\ retried' = [retried EXCEPT ![t] = FALSE]
      /\ looked' = [looked EXCEPT ![t] = {}] /\ made' = [made EXCEPT ![t] = <<>>]
      /\ at' = [at EXCEPT ![t] = IF Len(todo[t]) = 1 THEN "recording" ELSE FirstStep(todo[t][2])]
  BY DEF NextDemand
<1>4. FirstStep(todo[t][2]) \in {"in bulk", "looking"}
      /\ (FirstStep(todo[t][2]) = "in bulk" => todo[t][2].kind = "concept")
  BY DEF FirstStep
<1>5. /\ DOMAIN todo = Conversions /\ DOMAIN retried = Conversions
      /\ DOMAIN looked = Conversions /\ DOMAIN made = Conversions
      /\ at \in [Conversions -> Places]
  BY DEF Shape
<1>6. /\ todo'[t] = Tail(todo[t]) /\ retried'[t] = FALSE /\ looked'[t] = {} /\ made'[t] = <<>>
      /\ at'[t] = IF Len(todo[t]) = 1 THEN "recording" ELSE FirstStep(todo[t][2])
  BY <1>3, <1>5
<1>7. /\ at'[t] \in Between
      /\ at'[t] # "recording" => Len(todo[t]) # 1
      /\ at'[t] = "in bulk" => Len(todo[t]) # 1 /\ todo[t][2].kind = "concept"
  BY <1>4, <1>6 DEF Between
<1>8. TodoShape(t)'
  BY <1>2, <1>6, <1>7 DEF TodoShape, Demanding, Between
<1>9. PlaceShape(t)'
  BY <1>2, <1>6, <1>7 DEF PlaceShape, Between, Demand
<1>10. at' \in [Conversions -> Places]
  BY <1>3, <1>4, <1>5 DEF Places
<1>. QED
  BY <1>3, <1>5, <1>6, <1>7, <1>8, <1>9, <1>10 DEF NextDemandDone

\* A name that is taken does not lose the others.
LEMMA RenamedIs ==
    ASSUME NEW c, ContentFits("contributor", c), NEW name
    PROVE  /\ ContentFits("contributor", Renamed(c, name)) /\ Renamed(c, name).name = name
           /\ Names(c) \subseteq Names(Renamed(c, name))
<1>1. PICK a, b, e : c = [name |-> a, variants |-> b, codes |-> e]
  BY DEF ContentFits
<1>2. CASE c.name = name
  BY <1>2 DEF Renamed
<1>3. CASE c.name # name
  <2>. DEFINE v == b \cup {a}
              q == [c EXCEPT !.name = name]
              r == [q EXCEPT !.variants = v]
  <2>0. c.name = a /\ c.variants = b /\ c.variants \cup {c.name} = v
    BY <1>1
  <2>1. Renamed(c, name) = r
    <3>1. Renamed(c, name) = [c EXCEPT !.name = name, !.variants = v]
      BY <1>3, <2>0 DEF Renamed
    <3>. HIDE DEF v
    <3>. QED
      BY <3>1
  <2>. HIDE DEF v
  <2>2. r = [name |-> name, variants |-> v, codes |-> e]
    <3>1. q = [name |-> name, variants |-> b, codes |-> e]
      BY <1>1
    <3>. HIDE DEF q
    <3>. QED
      BY <3>1
  <2>. HIDE DEF r
  <2>3. r.name = name /\ r.variants = b \cup {a} /\ r.codes = e
    BY <2>2 DEF v
  <2>4. ContentFits("contributor", r)
    BY <2>2, <2>3 DEF ContentFits
  <2>5. Names(c) \subseteq Names(r)
    BY <1>1, <2>3 DEF Names
  <2>. QED
    BY <2>1, <2>3, <2>4, <2>5
<1>. QED
  BY <1>2, <1>3

\* The object that Hold keeps, and where the conversion goes.
HoldDone(t, i, content) ==
    /\ \E o : /\ held'[t] = Append(held[t], o) /\ o.row = i
              /\ Demand(t).kind = "contributor" =>
                   o.is = Renamed(content, Demand(t).says.name) /\ o.says = Demand(t).says
              /\ Demand(t).kind # "contributor" => o.is = content
    /\ \/ /\ Demand(t).kind = "contributor" /\ at'[t] = "identifying"
          /\ UNCHANGED demanding
       \/ Demand(t).kind # "contributor" /\ NextDemandDone(t)
    /\ UNCHANGED <<why, beside, named, job>>

\* A conversion that holds one more object goes on with it or without it.
LEMMA HoldIs ==
    ASSUME Shape, NEW t \in Conversions, at[t] \in Demanding, NEW i \in DOMAIN rows,
           NEW content, NEW loaded, Hold(t, i, content, loaded), KeepsRows,
           rows[i].kind = Demand(t).kind, ContentFits(rows[i].kind, content)
    PROVE  /\ HoldDone(t, i, content) /\ OnlyMoves(t)
           /\ TodoShape(t)' /\ PlaceShape(t)' /\ HeldShape(t)'
<1>. DEFINE d == Demand(t)
<1>0. PICK o :
        /\ held' = [held EXCEPT ![t] = Append(@, o)]
        /\ o = [row |-> i, loaded |-> loaded, says |-> d.says,
                is |-> IF d.kind = "contributor" THEN Renamed(content, d.says.name)
                       ELSE content]
  BY DEF Hold
<1>1. /\ held' = [held EXCEPT ![t] = Append(@, o)]
      /\ \/ /\ d.kind = "contributor" /\ at' = [at EXCEPT ![t] = "identifying"]
            /\ UNCHANGED demanding
         \/ d.kind # "contributor" /\ NextDemand(t)
      /\ UNCHANGED <<why, beside, named, job>>
  BY <1>0 DEF Hold, history
<1>2. /\ o.row = i /\ o.says = d.says
      /\ o.is = IF d.kind = "contributor" THEN Renamed(content, d.says.name) ELSE content
  BY <1>0
<1>3. DOMAIN held = Conversions /\ DOMAIN why = Conversions /\ at \in [Conversions -> Places]
      /\ HeldShape(t) /\ TodoShape(t) /\ PlaceShape(t)
      /\ DOMAIN todo = Conversions /\ DOMAIN retried = Conversions
      /\ DOMAIN looked = Conversions /\ DOMAIN made = Conversions
  BY DEF Shape
<1>4. /\ held'[t] = Append(held[t], o) /\ DOMAIN held' = Conversions
      /\ \A u \in Conversions \ {t} : held'[u] = held[u]
  BY <1>1, <1>3
<1>5. /\ IsSequence(held'[t]) /\ held'[t] # <<>>
      /\ DOMAIN held'[t] = DOMAIN held[t] \union {Len(held[t]) + 1}
      /\ \A k \in DOMAIN held[t] : held'[t][k] = held[t][k]
      /\ held'[t][Len(held[t]) + 1] = o /\ Last(held'[t]) = o
  BY <1>3, <1>4, AppendIs DEF HeldShape
<1>6. ObjectShape(o)'
  <2>1. i \in DOMAIN rows' /\ rows'[i].kind = d.kind
    BY DEF KeepsRows
  <2>2. d.kind = "contributor" => ContentFits("contributor", o.is) /\ o.is.name = o.says.name
    BY <1>2, RenamedIs
  <2>3. ContentFits(d.kind, o.is)
    BY <1>2, <2>2
  <2>. HIDE DEF d
  <2>. QED
    BY <1>2, <2>1, <2>2, <2>3 DEF ObjectShape
<1>7. ASSUME NEW k \in DOMAIN held[t]
      PROVE  ObjectShape(held[t][k])'
  <2>1. ObjectShape(held[t][k]) /\ held'[t][k] = held[t][k]
    BY <1>3, <1>5 DEF HeldShape
  <2>. QED
    BY <2>1, <1>6 DEF ObjectShape, KeepsRows
<1>8. HeldShape(t)'
  BY <1>5, <1>6, <1>7 DEF HeldShape
<1>9. CASE d.kind = "contributor"
  <2>1. /\ at' = [at EXCEPT ![t] = "identifying"]
        /\ UNCHANGED <<todo, retried, looked, made, why>>
    BY <1>1, <1>9 DEF demanding
  <2>2. at'[t] = "identifying" /\ at' \in [Conversions -> Places]
        /\ \A u \in Conversions \ {t} : at'[u] = at[u]
    BY <1>3, <2>1 DEF Places
  <2>3. OnlyMoves(t)
    BY <1>3, <1>4, <2>1, <2>2 DEF OnlyMoves
  <2>4. TodoShape(t)'
    BY <1>3, <2>1 DEF TodoShape
  <2>5. PlaceShape(t)'
    <3>1. Demand(t)' = d /\ rows'[i].kind = d.kind
      BY <2>1 DEF Demand, KeepsRows
    <3>. QED
      BY <1>2, <1>5, <1>9, <2>2, <3>1 DEF PlaceShape
  <2>6. HoldDone(t, i, content)
    BY <1>1, <1>2, <1>4, <1>9, <2>1, <2>2 DEF HoldDone, demanding
  <2>. QED
    BY <1>8, <2>3, <2>4, <2>5, <2>6
<1>10. CASE d.kind # "contributor"
  <2>1. NextDemand(t)
    BY <1>1, <1>10
  <2>2. HoldDone(t, i, content)
    BY <1>1, <1>2, <1>4, <1>10, <2>1, NextDemandIs DEF HoldDone
  <2>3. OnlyMoves(t) /\ TodoShape(t)' /\ PlaceShape(t)'
    BY <1>1, <1>3, <1>4, <2>1, NextDemandIs DEF OnlyMoves
  <2>. QED
    BY <1>8, <2>2, <2>3
<1>. QED
  BY <1>9, <1>10

\* What every step of a conversion keeps.
Fits(t) == Shape' /\ OnlyMoves(t) /\ KeepsRows

\* A conversion that goes to another place of the same demand, or fails.
LEMMA GotoIs ==
    ASSUME Shape, NEW t \in Conversions, OnlyMoves(t), UNCHANGED <<rows, todo, held, job>>,
           beside' \in [Conversions -> SUBSET Conversions],
           at[t] # "committing", at'[t] \in Demanding => todo[t] # <<>>, PlaceShape(t)'
    PROVE  Fits(t)
<1>1. RowsShape' /\ KeepsRows
  BY RowsUnchanged
<1>2. TodoShape(t)'
  BY DEF Shape, TodoShape
<1>3. HeldShape(t)'
  BY DEF Shape, HeldShape, ObjectShape
<1>. QED
  BY <1>1, <1>2, <1>3, MovesKeepShape DEF Fits

\* An exception, of any kind.
LEMMA FailIs ==
    ASSUME Shape, NEW t \in Conversions, at[t] # "committing", NEW reason, Fail(t, reason)
    PROVE  /\ Fits(t) /\ at'[t] = "failed" /\ why'[t] = reason
           /\ UNCHANGED <<rows, todo, retried, looked, made, held, beside, named, job>>
<1>1. /\ at' = [at EXCEPT ![t] = "failed"] /\ why' = [why EXCEPT ![t] = reason]
      /\ UNCHANGED <<rows, todo, retried, looked, made, held, beside, named, job>>
  BY DEF Fail, demanding, history
<1>2. /\ DOMAIN todo = Conversions /\ DOMAIN retried = Conversions /\ DOMAIN looked = Conversions
      /\ DOMAIN made = Conversions /\ DOMAIN held = Conversions /\ DOMAIN why = Conversions
      /\ at \in [Conversions -> Places] /\ beside \in [Conversions -> SUBSET Conversions]
  BY DEF Shape
<1>3. OnlyMoves(t) /\ at'[t] = "failed" /\ why'[t] = reason
  BY <1>1, <1>2 DEF OnlyMoves, Places
<1>4. PlaceShape(t)'
  BY <1>3 DEF PlaceShape
<1>. QED
  BY <1>1, <1>2, <1>3, <1>4, GotoIs DEF Demanding

\* Another place of the same demand, with something known or made.
LEMMA PlaceIs ==
    ASSUME Shape, NEW t \in Conversions, at[t] \in Demanding \ {"committing"},
           NEW place \in Places, Goto(t, place), PlaceShape(t)',
           DOMAIN looked' = Conversions, \A u \in Conversions \ {t} : looked'[u] = looked[u],
           DOMAIN made' = Conversions, \A u \in Conversions \ {t} : made'[u] = made[u]
    PROVE  /\ Fits(t) /\ at'[t] = place
           /\ UNCHANGED <<rows, todo, retried, held, why, beside, named, job>>
<1>1. /\ at' = [at EXCEPT ![t] = place]
      /\ UNCHANGED <<rows, todo, retried, held, why, beside, named, job>>
  BY DEF Goto, history
<1>2. /\ DOMAIN todo = Conversions /\ DOMAIN retried = Conversions
      /\ DOMAIN held = Conversions /\ DOMAIN why = Conversions
      /\ at \in [Conversions -> Places] /\ beside \in [Conversions -> SUBSET Conversions]
      /\ TodoShape(t)
  BY DEF Shape
<1>3. OnlyMoves(t) /\ at'[t] = place
  BY <1>1, <1>2 DEF OnlyMoves
<1>. QED
  BY <1>1, <1>2, <1>3, GotoIs DEF TodoShape

\* A row that a lookup finds is held.
LEMMA HoldFound ==
    ASSUME Shape, NEW t \in Conversions, at[t] \in Demanding \ {"committing"},
           NEW i \in DOMAIN rows, rows[i].kind = Demand(t).kind, NEW loaded,
           Hold(t, i, rows[i].is, loaded), UNCHANGED rows
    PROVE  Fits(t) /\ HoldDone(t, i, rows[i].is)
<1>1. KeepsRows /\ ContentFits(rows[i].kind, rows[i].is)
  BY DEF KeepsRows, Shape, RowsShape, IsRow
<1>2. /\ HoldDone(t, i, rows[i].is) /\ OnlyMoves(t)
      /\ TodoShape(t)' /\ PlaceShape(t)' /\ HeldShape(t)'
  BY <1>1, HoldIs
<1>3. RowsShape' /\ KeepsRows
  BY <1>2, RowsUnchanged
<1>4. beside' \in [Conversions -> SUBSET Conversions] /\ job' = job
  BY <1>2 DEF HoldDone, Shape
<1>. QED
  BY <1>2, <1>3, <1>4, MovesKeepShape DEF Fits

-----------------------------------------------------------------------------
(* The steps of a conversion                                               *)

\* A conversion begins, beside those that run (Begin).
LEMMA BeginFits ==
    ASSUME Shape, NEW t \in Conversions, Begin(t)
    PROVE  /\ Fits(t) /\ at'[t] \in Between
           /\ UNCHANGED <<rows, todo, retried, looked, made, held, why, named, job>>
<1>1. /\ at[t] = "waiting"
      /\ at' = [at EXCEPT ![t] = IF todo[t] = <<>> THEN "recording" ELSE FirstStep(Demand(t))]
      /\ UNCHANGED <<rows, todo, retried, looked, made, held, why, named, job>>
  BY DEF Begin, demanding
<1>2. /\ DOMAIN todo = Conversions /\ DOMAIN retried = Conversions /\ DOMAIN looked = Conversions
      /\ DOMAIN made = Conversions /\ DOMAIN held = Conversions /\ DOMAIN why = Conversions
      /\ at \in [Conversions -> Places] /\ beside \in [Conversions -> SUBSET Conversions]
  BY DEF Shape
<1>3. FirstStep(Demand(t)) \in {"in bulk", "looking"}
      /\ (FirstStep(Demand(t)) = "in bulk" => Demand(t).kind = "concept")
  BY DEF FirstStep
<1>4. /\ at'[t] \in Between /\ at' \in [Conversions -> Places]
      /\ \A u \in Conversions \ {t} : at'[u] = at[u]
      /\ at'[t] # "recording" => todo[t] # <<>>
      /\ at'[t] = "in bulk" => Demand(t).kind = "concept"
  BY <1>1, <1>2, <1>3 DEF Between, Places
<1>5. OnlyMoves(t)
  BY <1>1, <1>2, <1>4 DEF OnlyMoves
<1>6. PlaceShape(t)'
  BY <1>1, <1>4 DEF PlaceShape, Between, Demand
<1>7. beside' \in [Conversions -> SUBSET Conversions]
  BY <1>2 DEF Begin, Running
<1>. QED
  BY <1>1, <1>4, <1>5, <1>6, <1>7, GotoIs DEF Demanding

\* A contributor the conversion holds already is not looked for (Reuse).
LEMMA ReuseFits ==
    ASSUME Shape, NEW t \in Conversions, Reuse(t)
    PROVE  /\ Fits(t) /\ NextDemandDone(t)
           /\ UNCHANGED <<rows, held, why, beside, named, job>>
<1>1. /\ at[t] = "looking" /\ NextDemand(t)
      /\ UNCHANGED <<rows, held, why, beside, named, job>>
  BY DEF Reuse, history
<1>2. at[t] \in Demanding
  BY <1>1 DEF Demanding, Places
<1>3. OnlyMoves(t) /\ NextDemandDone(t) /\ TodoShape(t)' /\ PlaceShape(t)'
  BY <1>1, <1>2, NextDemandIs DEF OnlyMoves, Shape
<1>4. RowsShape' /\ KeepsRows
  BY <1>1, <1>3, RowsUnchanged
<1>5. HeldShape(t)' /\ beside' \in [Conversions -> SUBSET Conversions]
  BY <1>1 DEF Shape, HeldShape, ObjectShape
<1>. QED
  BY <1>1, <1>3, <1>4, <1>5, MovesKeepShape DEF Fits

\* The bulk lookup finds the concept, or leaves it to the next lookup (LookInBulk).
LEMMA LookInBulkFits ==
    ASSUME Shape, NEW t \in Conversions, LookInBulk(t)
    PROVE  /\ Fits(t) /\ UNCHANGED <<rows, why, beside, named, job>>
           /\ at[t] = "in bulk"
           /\ \/ \E i \in Found(Demand(t)) : HoldDone(t, i, rows[i].is)
              \/ /\ at'[t] = "looking"
                 /\ UNCHANGED <<todo, retried, looked, made, held>>
<1>1. at[t] = "in bulk" /\ at[t] \in Demanding \ {"committing"}
  BY DEF LookInBulk, Demanding, Places
<1>2. ASSUME NEW i \in Found(Demand(t)), Hold(t, i, rows[i].is, FALSE), UNCHANGED rows
      PROVE  Fits(t) /\ HoldDone(t, i, rows[i].is)
  <2>1. i \in DOMAIN rows /\ rows[i].kind = Demand(t).kind
    BY <1>2 DEF Found, Committed, FirstMatch
  <2>. QED
    BY <1>1, <1>2, <2>1, HoldFound
<1>3. ASSUME Goto(t, "looking"), UNCHANGED <<looked, made>>
      PROVE  /\ Fits(t) /\ at'[t] = "looking"
             /\ UNCHANGED <<rows, todo, retried, looked, made, held, why, beside, named, job>>
  <2>1. PlaceShape(t)'
    BY <1>3 DEF Goto, PlaceShape, Shape
  <2>2. DOMAIN looked' = Conversions /\ DOMAIN made' = Conversions /\ "looking" \in Places
    BY <1>3 DEF Shape, Places
  <2>. QED
    BY <1>1, <1>3, <2>1, <2>2, PlaceIs
<1>. QED
  BY <1>1, <1>2, <1>3 DEF LookInBulk, HoldDone

\* What is known of the current concept before complete_information.
KnownBefore(t) == IF looked[t] = {} THEN Demand(t).says.known ELSE looked[t]

(* The first lookup: the concept cannot be completed, a row is found, of   *)
(* which a new attempt at an issue makes nothing, or none is (Look).       *)
LEMMA LookFits ==
    ASSUME Shape, NEW t \in Conversions, Look(t)
    PROVE  /\ Fits(t) /\ UNCHANGED <<rows, beside, named, job>>
           /\ at[t] = "looking" /\ ~Cached(t)
           /\ \/ /\ at'[t] = "failed" /\ Demand(t).kind = "concept"
                 /\ why'[t] = Completion(Demand(t).says.source, KnownBefore(t))
                 /\ why'[t] # "completed"
                 /\ UNCHANGED <<todo, retried, looked, made, held>>
              \/ /\ at'[t] = "failed" /\ JournalIsTaken(t)
                 /\ why'[t] = "InvalidRequestError"
                 /\ UNCHANGED <<todo, retried, looked, made, held>>
              \/ \E i \in Found(Demand(t)) : HoldDone(t, i, rows[i].is)
              \/ /\ Found(Demand(t)) = {}
                 /\ at'[t] \in {"looking again", "solving", "inserting"}
                 /\ at'[t] \in {"solving", "inserting"} => Demand(t).kind \notin {"journal", "book"}
                 /\ Demand(t).kind = "concept" =>
                      /\ at'[t] = "solving"
                      /\ looked'[t] = Known(Demand(t).says.source, KnownBefore(t))
                      /\ Completion(Demand(t).says.source, KnownBefore(t)) = "completed"
                 /\ UNCHANGED <<todo, retried, made, held, why>>
<1>. DEFINE d == Demand(t)
            known == IF d.kind # "concept" THEN {}
                     ELSE IF looked[t] = {} THEN d.says.known ELSE looked[t]
            completion == IF d.kind # "concept" THEN "completed"
                          ELSE Completion(d.says.source, known)
            place == CASE d.kind \in {"journal", "book"} -> "looking again"
                       [] d.kind \in {"concept", "organization"} -> "solving"
                       [] OTHER -> "inserting"
            next == IF d.kind = "concept" THEN Known(d.says.source, known) ELSE {}
<1>1. at[t] = "looking" /\ ~Cached(t) /\ at[t] \in Demanding \ {"committing"}
  BY DEF Look, Demanding, Places
<1>2. d.kind = "concept" => known = KnownBefore(t)
  BY DEF KnownBefore
<1>3. \/ completion # "completed" /\ Fail(t, completion)
      \/ JournalIsTaken(t) /\ Fail(t, "InvalidRequestError")
      \/ \E i \in Found(d) : Hold(t, i, rows[i].is, d.kind # "label") /\ UNCHANGED rows
      \/ /\ completion = "completed" /\ Found(d) = {}
         /\ looked' = [looked EXCEPT ![t] = next]
         /\ Goto(t, place) /\ UNCHANGED made
  BY DEF Look
<1>4. /\ completion # "completed" => d.kind = "concept"
      /\ d.kind = "concept" =>
           /\ completion = Completion(d.says.source, KnownBefore(t))
           /\ next = Known(d.says.source, KnownBefore(t))
  BY <1>2
<1>5. /\ place \in {"looking again", "solving", "inserting"}
      /\ place = "looking again" => d.kind \in {"journal", "book"}
      /\ place = "solving" => d.kind \in {"concept", "organization"}
      /\ place = "inserting" => d.kind \notin {"concept", "organization"}
      /\ place \in {"solving", "inserting"} => d.kind \notin {"journal", "book"}
      /\ d.kind = "concept" => place = "solving"
  OBVIOUS
<1>. HIDE DEF completion, place, next, known
<1>6. ASSUME completion # "completed", Fail(t, completion)
      PROVE  /\ Fits(t) /\ UNCHANGED <<rows, beside, named, job, todo, retried, looked, made, held>>
             /\ at'[t] = "failed" /\ d.kind = "concept"
             /\ why'[t] = Completion(d.says.source, KnownBefore(t)) /\ why'[t] # "completed"
  BY <1>1, <1>4, <1>6, FailIs
<1>7. ASSUME NEW i \in Found(d), Hold(t, i, rows[i].is, d.kind # "label"), UNCHANGED rows
      PROVE  Fits(t) /\ HoldDone(t, i, rows[i].is)
  <2>1. i \in DOMAIN rows /\ rows[i].kind = d.kind
    BY <1>7 DEF Found, Committed, FirstMatch
  <2>. QED
    BY <1>1, <1>7, <2>1, HoldFound
<1>8. ASSUME looked' = [looked EXCEPT ![t] = next], Goto(t, place), UNCHANGED made
      PROVE  /\ Fits(t) /\ at'[t] = place /\ looked'[t] = next
             /\ UNCHANGED <<rows, todo, retried, made, held, why, beside, named, job>>
  <2>1. /\ DOMAIN looked = Conversions /\ DOMAIN made = Conversions /\ DOMAIN at = Conversions
        /\ place \in Places
    BY <1>5 DEF Shape, Places
  <2>2. at'[t] = place /\ todo' = todo
    BY <1>8, <2>1 DEF Goto
  <2>3. PlaceShape(t)'
    BY <1>5, <2>2 DEF PlaceShape, Demand
  <2>4. /\ looked'[t] = next
        /\ DOMAIN looked' = Conversions /\ \A u \in Conversions \ {t} : looked'[u] = looked[u]
        /\ DOMAIN made' = Conversions /\ \A u \in Conversions \ {t} : made'[u] = made[u]
    BY <1>8, <2>1
  <2>. QED
    BY <1>1, <1>8, <2>1, <2>3, <2>4, PlaceIs
<1>9. CASE completion # "completed" /\ Fail(t, completion)
  BY <1>1, <1>6, <1>9
<1>10. CASE \E i \in Found(d) : Hold(t, i, rows[i].is, d.kind # "label") /\ UNCHANGED rows
  BY <1>1, <1>7, <1>10 DEF HoldDone
<1>11. CASE /\ completion = "completed" /\ Found(d) = {}
            /\ looked' = [looked EXCEPT ![t] = next]
            /\ Goto(t, place) /\ UNCHANGED made
  BY <1>1, <1>4, <1>5, <1>8, <1>11
<1>12. CASE JournalIsTaken(t) /\ Fail(t, "InvalidRequestError")
  BY <1>1, <1>12, FailIs
<1>. QED
  BY <1>3, <1>9, <1>10, <1>11, <1>12

\* The second lookup, by title or by identifier in the source (LookAgain).
LEMMA LookAgainFits ==
    ASSUME Shape, NEW t \in Conversions, LookAgain(t)
    PROVE  /\ Fits(t) /\ UNCHANGED <<rows, beside, named, job>>
           /\ at[t] = "looking again"
           /\ \/ /\ at'[t] = "failed" /\ why'[t] = "MultipleResultsFound"
                 /\ Cardinality(FoundByName(Demand(t))) > 1
                 /\ UNCHANGED <<todo, retried, looked, made, held>>
              \/ \E i \in FoundByName(Demand(t)) : HoldDone(t, i, rows[i].is)
              \/ /\ at'[t] = "inserting" /\ FoundByName(Demand(t)) = {}
                 /\ UNCHANGED <<todo, retried, looked, made, held, why>>
<1>. DEFINE d == Demand(t)
<1>1. /\ at[t] = "looking again" /\ at[t] \in Demanding \ {"committing"}
      /\ d.kind \in {"journal", "book"}
  BY DEF LookAgain, Demanding, Places, Shape, PlaceShape
<1>2. \/ Cardinality(FoundByName(d)) > 1 /\ Fail(t, "MultipleResultsFound")
      \/ \E i \in FoundByName(d) : Hold(t, i, rows[i].is, TRUE) /\ UNCHANGED rows
      \/ FoundByName(d) = {} /\ Goto(t, "inserting") /\ UNCHANGED <<looked, made>>
  BY DEF LookAgain
<1>3. CASE Cardinality(FoundByName(d)) > 1 /\ Fail(t, "MultipleResultsFound")
  BY <1>1, <1>3, FailIs
<1>4. ASSUME NEW i \in FoundByName(d), Hold(t, i, rows[i].is, TRUE), UNCHANGED rows
      PROVE  Fits(t) /\ HoldDone(t, i, rows[i].is)
  <2>1. i \in DOMAIN rows /\ rows[i].kind = d.kind
    BY <1>4 DEF FoundByName, Committed, SecondMatch
  <2>. QED
    BY <1>1, <1>4, <2>1, HoldFound
<1>5. CASE FoundByName(d) = {} /\ Goto(t, "inserting") /\ UNCHANGED <<looked, made>>
  <2>1. /\ DOMAIN looked' = Conversions /\ DOMAIN made' = Conversions /\ DOMAIN at = Conversions
        /\ "inserting" \in Places
    BY <1>5 DEF Shape, Places
  <2>2. at'[t] = "inserting" /\ todo' = todo
    BY <1>5, <2>1 DEF Goto
  <2>3. PlaceShape(t)'
    BY <1>1, <2>2 DEF PlaceShape, Demand
  <2>. QED
    BY <1>1, <1>5, <2>1, <2>3, PlaceIs
<1>. QED
  BY <1>1, <1>2, <1>3, <1>4, <1>5 DEF HoldDone

\* How the authorities end what the demands ask them (solve).
LEMMA Outcomes ==
    ASSUME NEW d, IsDemand(d), NEW answer \in Answers
    PROVE  /\ d.kind = "concept" =>
                ConceptOutcome(Solver(d.says.source, JelProxy), answer) \in
                  {"concept", "DereferencingError", "ExternalEndpointFailure"}
           /\ d.kind = "organization" =>
                OrganizationOutcome(d.says.source, answer) \in
                  {"organization", "DereferencingError", "LookupError"}
<1>1. ASSUME d.kind = "concept"
      PROVE  d.says.source \in {"JEL", "WIKIDATA", "IDREF", "ABES"}
  BY <1>1 DEF IsDemand, Completion
<1>2. ASSUME d.kind = "concept"
      PROVE  Solver(d.says.source, JelProxy) \in
               {"Abes", "SkosmosJel", "Wikidata", "SparqlJel", "SparqlIdRef"}
  BY <1>1, <1>2 DEF Solver
<1>3. \A solver \in {"Abes", "SkosmosJel", "Wikidata", "SparqlJel", "SparqlIdRef"} :
        ConceptOutcome(solver, answer) \in
          {"concept", "DereferencingError", "ExternalEndpointFailure"}
  BY DEF ConceptOutcome, RdfOutcome, WikidataOutcome, SparqlJelOutcome, SparqlIdRefOutcome
<1>4. ASSUME d.kind = "organization"
      PROVE  OrganizationOutcome(d.says.source, answer) \in
               {"organization", "DereferencingError", "LookupError"}
  BY <1>4 DEF IsDemand, OrganizationOutcome, HalOutcome, ScopusOutcome
<1>. QED
  BY <1>2, <1>3, <1>4

\* A concept of an authority has its labels.
LEMMA NewConceptIs ==
    ASSUME NEW solved \in BOOLEAN, NEW writer
    PROVE  /\ ContentFits("concept", NewConcept(solved, writer))
           /\ NewConcept(solved, writer).flag = solved
           /\ solved => HasAuthority(NewConcept(solved, writer).labels)
<1>1. NewConcept(solved, writer) =
        [flag |-> solved,
         labels |-> {<<IF solved THEN "authority" ELSE "reference", writer>>}]
  BY DEF NewConcept
<1>2. /\ NewConcept(solved, writer).flag = solved
      /\ NewConcept(solved, writer).labels =
           {<<IF solved THEN "authority" ELSE "reference", writer>>}
  BY <1>1
<1>3. solved => HasAuthority(NewConcept(solved, writer).labels)
  BY <1>2 DEF HasAuthority
<1>4. ContentFits("concept", NewConcept(solved, writer))
  BY <1>1, <1>2 DEF ContentFits
<1>. QED
  BY <1>2, <1>3, <1>4

\* The authority answers, and the conversion fails or inserts what it has (Solve).
LEMMA SolveFits ==
    ASSUME Shape, NEW t \in Conversions, Solve(t)
    PROVE  /\ Fits(t) /\ UNCHANGED <<rows, todo, retried, looked, held, beside, named, job>>
           /\ at[t] = "solving"
           /\ \/ /\ at'[t] = "failed"
                 /\ why'[t] \in {"ExternalEndpointFailure", "LookupError"}
              \/ /\ at'[t] \in {"matching", "inserting"} /\ why' = why
                 /\ Demand(t).kind = "concept" => at'[t] = "inserting"
<1>. DEFINE d == Demand(t)
            source == d.says.source
<1>1. /\ at[t] = "solving" /\ at[t] \in Demanding \ {"committing"}
      /\ d.kind \in {"concept", "organization"} /\ IsDemand(d)
  <2>1. at[t] = "solving" /\ at[t] \in Demanding \ {"committing"}
    BY DEF Solve, Demanding, Places
  <2>2. d = todo[t][1] /\ 1 \in DOMAIN todo[t]
    BY <2>1, SequenceIs DEF Shape, TodoShape, Demand
  <2>. QED
    BY <2>1, <2>2 DEF Shape, TodoShape, PlaceShape
<1>2. PICK answer, outcome :
        /\ answer \in Answers
        /\ outcome = IF d.kind = "concept"
                     THEN ConceptOutcome(Solver(source, JelProxy), answer)
                     ELSE OrganizationOutcome(source, answer)
        /\ \/ /\ outcome = "concept" /\ made' = [made EXCEPT ![t] = NewConcept(TRUE, t)]
              /\ Goto(t, "inserting") /\ UNCHANGED looked
           \/ /\ outcome = "organization"
              /\ \E c : made' = [made EXCEPT ![t] = c]
              /\ Goto(t, "matching") /\ UNCHANGED looked
           \/ /\ outcome = "DereferencingError"
              /\ made' = [made EXCEPT ![t] = IF d.kind = "concept" THEN NewConcept(FALSE, t)
                                             ELSE [codes |-> EmptyBag]]
              /\ Goto(t, "inserting") /\ UNCHANGED looked
           \/ /\ outcome \notin {"concept", "organization", "DereferencingError"}
              /\ Fail(t, outcome)
  BY DEF Solve
<1>3. /\ d.kind = "concept" =>
           outcome \in {"concept", "DereferencingError", "ExternalEndpointFailure"}
      /\ d.kind = "organization" =>
           outcome \in {"organization", "DereferencingError", "LookupError"}
  BY <1>1, <1>2, Outcomes
<1>4. CASE outcome \notin {"concept", "organization", "DereferencingError"} /\ Fail(t, outcome)
  BY <1>1, <1>3, <1>4, FailIs
<1>5. ASSUME NEW place \in {"matching", "inserting"}, NEW c, made' = [made EXCEPT ![t] = c],
             Goto(t, place), UNCHANGED looked,
             place = "matching" => d.kind = "organization",
             d.kind = "concept" =>
               ContentFits("concept", c) /\ (c.flag => HasAuthority(c.labels))
      PROVE  /\ Fits(t) /\ UNCHANGED <<rows, todo, retried, looked, held, why, beside, named, job>>
             /\ at'[t] = place
  <2>1. /\ DOMAIN looked' = Conversions /\ DOMAIN made = Conversions /\ DOMAIN at = Conversions
        /\ place \in Places /\ place \in {"matching", "inserting"}
    BY <1>5 DEF Shape, Places
  <2>2. /\ at'[t] = place /\ todo' = todo /\ made'[t] = c /\ DOMAIN made' = Conversions
        /\ \A u \in Conversions \ {t} : made'[u] = made[u]
    BY <1>5, <2>1 DEF Goto
  <2>3. PlaceShape(t)'
    BY <1>5, <2>1, <2>2 DEF PlaceShape, Demand
  <2>. QED
    BY <1>1, <1>5, <2>1, <2>2, <2>3, PlaceIs
<1>6. CASE /\ outcome = "concept" /\ made' = [made EXCEPT ![t] = NewConcept(TRUE, t)]
           /\ Goto(t, "inserting") /\ UNCHANGED looked
  <2>1. /\ ContentFits("concept", NewConcept(TRUE, t))
        /\ NewConcept(TRUE, t).flag => HasAuthority(NewConcept(TRUE, t).labels)
    BY NewConceptIs
  <2>. QED
    BY <1>1, <1>5, <1>6, <2>1
<1>7. CASE /\ outcome = "organization" /\ \E c : made' = [made EXCEPT ![t] = c]
           /\ Goto(t, "matching") /\ UNCHANGED looked
  <2>1. d.kind = "organization"
    BY <1>1, <1>3, <1>7
  <2>2. PICK c : made' = [made EXCEPT ![t] = c]
    BY <1>7
  <2>. QED
    BY <1>1, <1>5, <1>7, <2>1, <2>2
<1>8. CASE /\ outcome = "DereferencingError"
           /\ made' = [made EXCEPT ![t] = IF d.kind = "concept" THEN NewConcept(FALSE, t)
                                          ELSE [codes |-> EmptyBag]]
           /\ Goto(t, "inserting") /\ UNCHANGED looked
  <2>1. /\ ContentFits("concept", NewConcept(FALSE, t))
        /\ ~NewConcept(FALSE, t).flag
    BY NewConceptIs
  <2>2. CASE d.kind = "concept"
    BY <1>1, <1>5, <1>8, <2>1, <2>2
  <2>3. CASE d.kind # "concept"
    BY <1>1, <1>5, <1>8, <2>3
  <2>. QED
    BY <2>2, <2>3
<1>. QED
  BY <1>1, <1>2, <1>4, <1>6, <1>7, <1>8

\* A sequence of rows where one takes another content.
LEMMA WrittenIs ==
    ASSUME NEW s, IsSequence(s), NEW i \in DOMAIN s, NEW x
    PROVE  LET q == [s EXCEPT ![i].is = x]
           IN  /\ IsSequence(q) /\ DOMAIN q = DOMAIN s
               /\ q[i] = [s[i] EXCEPT !.is = x]
               /\ \A k \in DOMAIN s \ {i} : q[k] = s[k]
<1>. DEFINE r == [s[i] EXCEPT !.is = x]
            q == [s EXCEPT ![i] = r]
<1>1. [s EXCEPT ![i].is = x] = q
  OBVIOUS
<1>. HIDE DEF r
<1>2. s \in Seq(Range(s)) /\ DOMAIN s = 1..Len(s) /\ Len(s) \in Nat
  BY SequenceIs DEF IsSequence
<1>3. DOMAIN q = DOMAIN s /\ q[i] = r /\ \A k \in DOMAIN s \ {i} : q[k] = s[k]
  BY <1>2
<1>4. q = [k \in DOMAIN s |-> q[k]]
  BY <1>2
<1>5. IsSequence(q)
  BY <1>4, SameLengthIs
<1>. HIDE DEF q
<1>. QED
  BY <1>1, <1>3, <1>5 DEF r

(* An organization takes the identifiers found of another one it           *)
(* resembles, or there is none to insert (Match).                          *)
LEMMA MatchFits ==
    ASSUME Shape, NEW t \in Conversions, Match(t)
    PROVE  /\ Fits(t) /\ UNCHANGED <<beside, named, job>>
           /\ at[t] = "matching" /\ Demand(t).kind = "organization"
           /\ \/ /\ at'[t] = "inserting"
                 /\ UNCHANGED <<rows, todo, retried, looked, made, held, why>>
              \/ \E i \in Committed : \E x :
                   /\ rows[i].kind = "organization" /\ HoldDone(t, i, x)
                   /\ DOMAIN rows' = DOMAIN rows
                   /\ \A k \in DOMAIN rows \ {i} : rows'[k] = rows[k]
<1>. DEFINE similar == {i \in Committed : /\ rows[i].kind = "organization"
                                          /\ Resembles(rows[i].is.codes, made[t].codes)}
<1>0. similar \subseteq {i \in Committed : rows[i].kind = "organization"}
  OBVIOUS
<1>1. /\ at[t] = "matching" /\ at[t] \in Demanding \ {"committing"}
      /\ Demand(t).kind = "organization"
  BY DEF Match, Demanding, Places, Shape, PlaceShape
<1>2. \/ \E i \in similar : \E x : rows' = [rows EXCEPT ![i].is = x] /\ Hold(t, i, x, TRUE)
      \/ Goto(t, "inserting") /\ UNCHANGED <<looked, made>>
  BY DEF Match
<1>. HIDE DEF similar
<1>3. CASE Goto(t, "inserting") /\ UNCHANGED <<looked, made>>
  <2>1. /\ DOMAIN looked' = Conversions /\ DOMAIN made' = Conversions /\ DOMAIN at = Conversions
        /\ "inserting" \in Places
    BY <1>3 DEF Shape, Places
  <2>2. at'[t] = "inserting" /\ todo' = todo
    BY <1>3, <2>1 DEF Goto
  <2>3. PlaceShape(t)'
    BY <1>1, <2>2 DEF PlaceShape, Demand
  <2>. QED
    BY <1>1, <1>3, <2>1, <2>3, PlaceIs
<1>4. ASSUME NEW i \in similar, NEW x, rows' = [rows EXCEPT ![i].is = x], Hold(t, i, x, TRUE)
      PROVE  /\ Fits(t) /\ HoldDone(t, i, x) /\ i \in Committed
             /\ rows[i].kind = "organization" /\ DOMAIN rows' = DOMAIN rows
             /\ \A k \in DOMAIN rows \ {i} : rows'[k] = rows[k]
  <2>1. i \in Committed /\ i \in DOMAIN rows /\ rows[i].kind = "organization"
    BY <1>0, <1>4 DEF Committed
  <2>2. ContentFits(rows[i].kind, x)
    BY <2>1 DEF ContentFits
  <2>3. /\ IsSequence(rows') /\ DOMAIN rows' = DOMAIN rows
        /\ rows'[i] = [rows[i] EXCEPT !.is = x]
        /\ \A k \in DOMAIN rows \ {i} : rows'[k] = rows[k]
    BY <1>4, <2>1, WrittenIs DEF Shape, RowsShape
  <2>4. KeepsRows
    <3>1. IsRow(rows[i])
      BY <2>1 DEF Shape, RowsShape
    <3>2. /\ rows'[i].kind = rows[i].kind /\ rows'[i].ids = rows[i].ids
          /\ rows'[i].soft = rows[i].soft /\ rows'[i].name = rows[i].name
          /\ rows'[i].by = rows[i].by /\ rows'[i].committed = rows[i].committed
      BY <2>2, <2>3, <3>1, RowWith
    <3>. QED
      BY <2>3, <3>2 DEF KeepsRows
  <2>5. /\ HoldDone(t, i, x) /\ OnlyMoves(t)
        /\ TodoShape(t)' /\ PlaceShape(t)' /\ HeldShape(t)'
    BY <1>1, <1>4, <2>1, <2>2, <2>4, HoldIs
  <2>6. RowsShape'
    BY <1>1, <2>2, <2>3, <2>5, RowsStay
  <2>7. beside' \in [Conversions -> SUBSET Conversions] /\ job' = job
    BY <2>5 DEF HoldDone, Shape
  <2>. QED
    BY <2>1, <2>3, <2>4, <2>5, <2>6, <2>7, MovesKeepShape DEF Fits
<1>5. CASE \E i \in similar : \E x : rows' = [rows EXCEPT ![i].is = x] /\ Hold(t, i, x, TRUE)
  <2>1. PICK i, x : i \in similar /\ rows' = [rows EXCEPT ![i].is = x] /\ Hold(t, i, x, TRUE)
    BY <1>5
  <2>2. /\ Fits(t) /\ HoldDone(t, i, x) /\ i \in Committed
        /\ rows[i].kind = "organization" /\ DOMAIN rows' = DOMAIN rows
        /\ \A k \in DOMAIN rows \ {i} : rows'[k] = rows[k]
    BY <1>4, <2>1
  <2>3. UNCHANGED <<beside, named, job>>
    BY <2>2 DEF HoldDone
  <2>. QED
    BY <1>1, <2>2, <2>3
<1>. QED
  BY <1>2, <1>3, <1>5

(* The INSERT: a second violation fails, a first one goes back to the      *)
(* lookup, or there is a new row to commit (Insert).                       *)
LEMMA InsertFits ==
    ASSUME Shape, NEW t \in Conversions, Insert(t)
    PROVE  /\ Fits(t) /\ UNCHANGED <<todo, looked, made, held, beside, named, job>>
           /\ at[t] = "inserting"
           /\ \/ /\ at'[t] = "failed" /\ retried[t] /\ why'[t] = "AssertionError"
                 /\ UNCHANGED <<rows, retried>>
              \/ /\ at'[t] = "looking" /\ retried' = [retried EXCEPT ![t] = TRUE]
                 /\ Lacks(Demand(t)) \/ \E i \in Committed : Violates(Demand(t), rows[i])
                 /\ UNCHANGED <<rows, why>>
              \/ /\ at'[t] = "committing" /\ UNCHANGED <<retried, why>>
                 /\ ~ \E i \in Committed : Violates(Demand(t), rows[i])
                 /\ rows' = Append(rows, rows'[Len(rows) + 1])
                 /\ LET r == rows'[Len(rows) + 1]
                    IN  /\ r.kind = Demand(t).kind /\ r.ids = Demand(t).ids
                        /\ r.soft = Demand(t).soft /\ r.name = Demand(t).name
                        /\ r.by = t /\ ~r.committed
                        /\ r.kind = "concept" /\ r.is.flag => HasAuthority(r.is.labels)
<1>. DEFINE d == Demand(t)
            r == [kind |-> d.kind, ids |-> d.ids, soft |-> d.soft, name |-> d.name,
                  says |-> d.says, by |-> t, committed |-> FALSE, is |-> Content(t)]
            violated == Lacks(d) \/ \E i \in Committed : Violates(d, rows[i])
<1>1. at[t] = "inserting" /\ at[t] # "committing" /\ todo[t] # <<>> /\ IsDemand(d)
  <2>1. at[t] = "inserting" /\ todo[t] # <<>>
    BY DEF Insert, Demanding, Places, Shape, TodoShape
  <2>2. d = todo[t][1] /\ 1 \in DOMAIN todo[t]
    BY <2>1, SequenceIs DEF Shape, TodoShape, Demand
  <2>. QED
    BY <2>1, <2>2 DEF Shape, TodoShape
<1>2. \/ violated /\ retried[t] /\ Fail(t, "AssertionError")
      \/ /\ violated /\ ~retried[t]
         /\ retried' = [retried EXCEPT ![t] = TRUE] /\ at' = [at EXCEPT ![t] = "looking"]
         /\ UNCHANGED <<rows, todo, looked, made, held, why, history, job>>
      \/ /\ ~violated /\ rows' = Append(rows, r) /\ at' = [at EXCEPT ![t] = "committing"]
         /\ UNCHANGED <<demanding, held, why, history, job>>
  BY DEF Insert
<1>3. /\ DOMAIN todo = Conversions /\ DOMAIN retried = Conversions /\ DOMAIN looked = Conversions
      /\ DOMAIN made = Conversions /\ DOMAIN held = Conversions /\ DOMAIN why = Conversions
      /\ at \in [Conversions -> Places] /\ beside \in [Conversions -> SUBSET Conversions]
  BY DEF Shape
<1>4. CASE violated /\ retried[t] /\ Fail(t, "AssertionError")
  BY <1>1, <1>4, FailIs
<1>5. CASE /\ violated /\ ~retried[t]
           /\ retried' = [retried EXCEPT ![t] = TRUE] /\ at' = [at EXCEPT ![t] = "looking"]
           /\ UNCHANGED <<rows, todo, looked, made, held, why, history, job>>
  <2>1. OnlyMoves(t) /\ at'[t] = "looking"
    BY <1>3, <1>5 DEF OnlyMoves, Places
  <2>2. PlaceShape(t)'
    BY <2>1 DEF PlaceShape
  <2>3. UNCHANGED <<rows, todo, looked, made, held, why, beside, named, job>>
    BY <1>5 DEF history
  <2>4. Fits(t)
    BY <1>1, <1>3, <2>1, <2>2, <2>3, GotoIs
  <2>. QED
    BY <1>1, <1>5, <2>1, <2>3, <2>4
<1>6. CASE /\ ~violated /\ rows' = Append(rows, r) /\ at' = [at EXCEPT ![t] = "committing"]
           /\ UNCHANGED <<demanding, held, why, history, job>>
  <2>1. UNCHANGED <<todo, retried, looked, made, held, why, beside, named, job>>
    BY <1>6 DEF history, demanding
  <2>2. OnlyMoves(t) /\ at'[t] = "committing"
    BY <1>3, <1>6, <2>1 DEF OnlyMoves, Places
  <2>3. /\ r.kind = d.kind /\ r.ids = d.ids /\ r.soft = d.soft /\ r.name = d.name
        /\ r.says = d.says /\ r.by = t /\ r.committed = FALSE /\ r.is = Content(t)
    OBVIOUS
  <2>4. /\ ContentFits(d.kind, Content(t))
        /\ d.kind = "concept" /\ Content(t).flag => HasAuthority(Content(t).labels)
    <3>1. CASE d.kind = "concept"
      <4>1. Content(t) = made[t]
        BY <3>1 DEF Content
      <4>2. PlaceShape(t)
        BY DEF Shape
      <4>. QED
        BY <1>1, <3>1, <4>1, <4>2 DEF PlaceShape
    <3>2. CASE d.kind = "contributor"
      <4>1. Content(t) = [name |-> d.says.name, variants |-> {}, codes |-> {}]
        BY <3>2 DEF Content, NewContributor
      <4>. QED
        BY <3>2, <4>1 DEF ContentFits
    <3>3. CASE d.kind \notin {"concept", "contributor"}
      BY <3>3 DEF ContentFits
    <3>. QED
      BY <3>1, <3>2, <3>3
  <2>5. IsRow(r)
    <3>1. WellKeyed(r)
      BY <1>1, <2>3 DEF IsDemand, WellKeyed
    <3>2. r = [kind |-> r.kind, ids |-> r.ids, soft |-> r.soft, name |-> r.name,
               says |-> r.says, by |-> r.by, committed |-> r.committed, is |-> r.is]
      OBVIOUS
    <3>3. ~Lacks(r)
      BY <1>6, <2>3 DEF Lacks
    <3>. QED
      BY <2>3, <2>4, <3>1, <3>2, <3>3 DEF IsRow
  <2>. HIDE DEF r, d
  <2>6. /\ IsSequence(rows') /\ DOMAIN rows' = DOMAIN rows \union {Len(rows) + 1}
        /\ \A k \in DOMAIN rows : rows'[k] = rows[k]
        /\ rows'[Len(rows) + 1] = r
    BY <1>6, AppendIs DEF Shape, RowsShape
  <2>7. KeepsRows
    BY <2>6 DEF KeepsRows
  <2>8. \A i \in DOMAIN rows : ~rows[i].committed => rows[i].by # t
    BY <1>1 DEF Shape, RowsShape
  <2>9. RowsShape'
    <3>1. \A i \in DOMAIN rows' : IsRow(rows'[i])
      BY <2>5, <2>6 DEF Shape, RowsShape
    <3>2. ASSUME NEW i \in DOMAIN rows', ~rows'[i].committed
          PROVE  /\ rows'[i].by \in Conversions /\ at'[rows'[i].by] = "committing"
                 /\ rows'[i].kind = Head(todo'[rows'[i].by]).kind
      <4>1. CASE i \in DOMAIN rows
        <5>1. /\ rows[i].by \in Conversions /\ at[rows[i].by] = "committing"
              /\ rows[i].kind = Demand(rows[i].by).kind /\ rows[i].by # t
          BY <2>6, <2>8, <3>2, <4>1 DEF Shape, RowsShape
        <5>2. at'[rows[i].by] = at[rows[i].by]
          BY <2>2, <5>1 DEF OnlyMoves
        <5>. QED
          BY <2>1, <2>6, <4>1, <5>1, <5>2 DEF Demand
      <4>2. CASE i = Len(rows) + 1
        BY <2>1, <2>2, <2>3, <2>6, <4>2 DEF Demand, d
      <4>. QED
        BY <2>6, <4>1, <4>2
    <3>3. ASSUME NEW i \in DOMAIN rows', NEW k \in DOMAIN rows',
                 ~rows'[i].committed, ~rows'[k].committed, rows'[i].by = rows'[k].by
          PROVE  i = k
      <4>1. CASE i \in DOMAIN rows /\ k \in DOMAIN rows
        BY <2>6, <3>3, <4>1 DEF Shape, RowsShape
      <4>2. CASE i = Len(rows) + 1 /\ k \in DOMAIN rows
        BY <2>3, <2>6, <2>8, <3>3, <4>2
      <4>3. CASE i \in DOMAIN rows /\ k = Len(rows) + 1
        BY <2>3, <2>6, <2>8, <3>3, <4>3
      <4>. QED
        BY <2>6, <4>1, <4>2, <4>3
    <3>. QED
      BY <2>6, <3>1, <3>2, <3>3 DEF RowsShape, Demand
  <2>10. TodoShape(t)'
    BY <1>1, <2>1 DEF Shape, TodoShape
  <2>11. PlaceShape(t)'
    BY <2>2 DEF PlaceShape
  <2>12. HeldShape(t)'
    <3>1. ASSUME NEW o, ObjectShape(o)
          PROVE  ObjectShape(o)'
      BY <2>7, <3>1 DEF ObjectShape, KeepsRows
    <3>. QED
      BY <2>1, <3>1 DEF Shape, HeldShape
  <2>13. Fits(t)
    BY <1>3, <2>1, <2>2, <2>7, <2>9, <2>10, <2>11, <2>12, MovesKeepShape DEF Fits
  <2>14. /\ r.kind = d.kind /\ r.ids = d.ids /\ r.soft = d.soft /\ r.name = d.name
         /\ r.by = t /\ ~r.committed
         /\ r.kind = "concept" /\ r.is.flag => HasAuthority(r.is.labels)
    BY <2>3, <2>4
  <2>. QED
    BY <1>1, <1>6, <2>1, <2>2, <2>6, <2>13, <2>14 DEF d
<1>. QED
  BY <1>2, <1>4, <1>5, <1>6

\* A row that is committed.
LEMMA CommittedIs ==
    ASSUME NEW r, IsRow(r)
    PROVE  LET q == [r EXCEPT !.committed = TRUE]
           IN  /\ IsRow(q) /\ q.committed = TRUE /\ q.is = r.is
               /\ q.kind = r.kind /\ q.ids = r.ids /\ q.soft = r.soft /\ q.name = r.name
               /\ q.by = r.by
<1>. DEFINE q == [r EXCEPT !.committed = TRUE]
<1>1. q = [kind |-> r.kind, ids |-> r.ids, soft |-> r.soft, name |-> r.name, says |-> r.says,
           by |-> r.by, committed |-> TRUE, is |-> r.is]
  <2>1. \A x : [r EXCEPT !.committed = x] =
                 [kind |-> r.kind, ids |-> r.ids, soft |-> r.soft, name |-> r.name,
                  says |-> r.says, by |-> r.by, committed |-> x, is |-> r.is]
    BY DEF IsRow
  <2>. QED
    BY <2>1
<1>. HIDE DEF q
<1>2. /\ q.is = r.is /\ q.kind = r.kind /\ q.ids = r.ids /\ q.soft = r.soft /\ q.name = r.name
      /\ q.says = r.says /\ q.by = r.by /\ q.committed = TRUE
  BY <1>1
<1>3. IsRow(q)
  BY <1>1, <1>2 DEF IsRow, WellKeyed, Lacks
<1>. QED
  BY <1>2, <1>3 DEF q

(* The COMMIT of the row that the conversion inserted (Commit).            *)
LEMMA CommitFits ==
    ASSUME Shape, NEW t \in Conversions, Commit(t)
    PROVE  /\ Fits(t) /\ UNCHANGED <<beside, named, job>>
           /\ at[t] = "committing" /\ DOMAIN rows' = DOMAIN rows
           /\ \E i \in DOMAIN rows :
                /\ ~rows[i].committed /\ rows[i].by = t /\ HoldDone(t, i, rows[i].is)
                /\ rows[i].kind = Demand(t).kind
                /\ rows'[i].is = rows[i].is
                /\ \A k \in DOMAIN rows \ {i} : rows'[k] = rows[k]
<1>. DEFINE d == Demand(t)
<1>1. at[t] = "committing" /\ at[t] \in Demanding
  BY DEF Commit, Demanding, Places
<1>2. PICK i \in DOMAIN rows \ Committed :
        /\ rows[i].by = t
        /\ rows' = [rows EXCEPT ![i].committed = TRUE]
        /\ Hold(t, i, rows[i].is, d.kind # "contributor")
  BY DEF Commit
<1>3. /\ i \in DOMAIN rows /\ ~rows[i].committed /\ rows[i].kind = d.kind /\ IsRow(rows[i])
      /\ IsSequence(rows)
  <2>1. i \in DOMAIN rows /\ ~rows[i].committed
    BY <1>2 DEF Committed
  <2>. QED
    BY <1>2, <2>1 DEF Shape, RowsShape
<1>. DEFINE r == [rows[i] EXCEPT !.committed = TRUE]
<1>4. /\ r.committed = TRUE /\ r.kind = rows[i].kind /\ r.ids = rows[i].ids
      /\ r.soft = rows[i].soft /\ r.name = rows[i].name /\ r.by = rows[i].by
      /\ r.is = rows[i].is /\ IsRow(r)
  BY <1>3, CommittedIs
<1>5. /\ IsSequence(rows') /\ DOMAIN rows' = DOMAIN rows /\ rows'[i] = r
      /\ \A k \in DOMAIN rows \ {i} : rows'[k] = rows[k]
  <2>1. rows' = [rows EXCEPT ![i] = r]
    BY <1>2
  <2>. HIDE DEF r
  <2>2. rows \in Seq(Range(rows)) /\ DOMAIN rows = 1..Len(rows)
    BY <1>3, SequenceIs DEF IsSequence
  <2>3. /\ DOMAIN rows' = DOMAIN rows /\ rows'[i] = r
        /\ \A k \in DOMAIN rows \ {i} : rows'[k] = rows[k]
        /\ rows' = [k \in DOMAIN rows |-> rows'[k]]
    BY <1>3, <2>1, <2>2
  <2>4. IsSequence(rows')
    BY <1>3, <2>3, SameLengthIs
  <2>. QED
    BY <2>3, <2>4
<1>. HIDE DEF r
<1>6. KeepsRows
  BY <1>4, <1>5 DEF KeepsRows
<1>7. /\ HoldDone(t, i, rows[i].is) /\ OnlyMoves(t)
      /\ TodoShape(t)' /\ PlaceShape(t)' /\ HeldShape(t)'
  <2>1. ContentFits(rows[i].kind, rows[i].is)
    BY <1>3 DEF IsRow
  <2>. QED
    BY <1>1, <1>2, <1>3, <1>6, <2>1, HoldIs
<1>8. RowsShape'
  <2>1. \A k \in DOMAIN rows' : IsRow(rows'[k])
    BY <1>4, <1>5 DEF Shape, RowsShape
  <2>2. \A k \in DOMAIN rows' : ~rows'[k].committed => k # i /\ rows'[k] = rows[k]
    BY <1>4, <1>5
  <2>3. ASSUME NEW k \in DOMAIN rows', ~rows'[k].committed
        PROVE  /\ rows'[k].by \in Conversions /\ at'[rows'[k].by] = "committing"
               /\ rows'[k].kind = Head(todo'[rows'[k].by]).kind
    <3>1. k # i /\ k \in DOMAIN rows /\ rows'[k] = rows[k] /\ ~rows[k].committed
      BY <1>5, <2>2, <2>3
    <3>2. /\ rows[k].by \in Conversions /\ at[rows[k].by] = "committing"
          /\ rows[k].kind = Demand(rows[k].by).kind /\ rows[k].by # t
      BY <1>2, <1>3, <3>1 DEF Shape, RowsShape
    <3>3. at'[rows[k].by] = at[rows[k].by] /\ todo'[rows[k].by] = todo[rows[k].by]
      BY <1>7, <3>2 DEF OnlyMoves
    <3>. QED
      BY <3>1, <3>2, <3>3 DEF Demand
  <2>4. \A k, l \in DOMAIN rows' :
          ~rows'[k].committed /\ ~rows'[l].committed /\ rows'[k].by = rows'[l].by => k = l
    BY <1>5, <2>2 DEF Shape, RowsShape
  <2>. QED
    BY <1>5, <2>1, <2>3, <2>4 DEF RowsShape, Demand
<1>9. beside' \in [Conversions -> SUBSET Conversions] /\ job' = job
  BY <1>7 DEF HoldDone, Shape
<1>10. Fits(t)
  BY <1>6, <1>7, <1>8, <1>9, MovesKeepShape DEF Fits
<1>11. UNCHANGED <<beside, named, job>>
  BY <1>7 DEF HoldDone
<1>. QED
  BY <1>1, <1>2, <1>3, <1>4, <1>5, <1>7, <1>10, <1>11

(* The external identifiers of the contributor held last are replaced, and *)
(* nothing else of it (Identify).                                          *)
LEMMA IdentifyFits ==
    ASSUME Shape, NEW t \in Conversions, Identify(t)
    PROVE  /\ Fits(t) /\ NextDemandDone(t) /\ UNCHANGED <<held, why, beside, named, job>>
           /\ at[t] = "identifying" /\ DOMAIN rows' = DOMAIN rows
           /\ \E i \in DOMAIN rows :
                /\ rows[i].kind = "contributor"
                /\ rows'[i].is.name = rows[i].is.name
                /\ rows'[i].is.variants = rows[i].is.variants
                /\ \A k \in DOMAIN rows \ {i} : rows'[k] = rows[k]
<1>. DEFINE i == Last(held[t]).row
            codes == Demand(t).says.codes
            x == [rows[i].is EXCEPT !.codes = codes]
<1>1. /\ at[t] = "identifying" /\ at[t] \in Demanding /\ at[t] # "committing"
      /\ rows' = [rows EXCEPT ![i].is.codes = codes] /\ NextDemand(t)
      /\ UNCHANGED <<held, why, beside, named, job>>
  BY DEF Identify, Demanding, Places, history
<1>2. i \in DOMAIN rows /\ rows[i].kind = "contributor" /\ IsRow(rows[i])
  <2>1. Last(held[t]) = held[t][Len(held[t])] /\ Len(held[t]) \in DOMAIN held[t]
    BY <1>1, SequenceIs DEF Shape, PlaceShape, HeldShape, Last
  <2>2. i \in DOMAIN rows
    BY <2>1 DEF Shape, HeldShape, ObjectShape
  <2>. QED
    BY <1>1, <2>2 DEF Shape, PlaceShape, RowsShape
<1>3. /\ ContentFits(rows[i].kind, x) /\ x.name = rows[i].is.name
      /\ x.variants = rows[i].is.variants
  <2>1. PICK a, b, e : rows[i].is = [name |-> a, variants |-> b, codes |-> e]
    BY <1>2 DEF IsRow, ContentFits
  <2>2. x = [name |-> a, variants |-> b, codes |-> codes]
    <3>. HIDE DEF codes
    <3>. QED
      BY <2>1
  <2>. HIDE DEF x
  <2>3. x.name = a /\ x.variants = b /\ x.codes = codes
    BY <2>2
  <2>. QED
    BY <1>2, <2>1, <2>2, <2>3 DEF ContentFits
<1>4. rows' = [rows EXCEPT ![i].is = x]
  BY <1>1
<1>. HIDE DEF i, x, codes
<1>5. /\ IsSequence(rows') /\ DOMAIN rows' = DOMAIN rows
      /\ rows'[i] = [rows[i] EXCEPT !.is = x]
      /\ \A k \in DOMAIN rows \ {i} : rows'[k] = rows[k]
  BY <1>2, <1>4, WrittenIs DEF Shape, RowsShape
<1>6. rows'[i].is = x
  BY <1>2, <1>3, <1>5, RowWith
<1>7. OnlyMoves(t) /\ NextDemandDone(t) /\ TodoShape(t)' /\ PlaceShape(t)'
  BY <1>1, NextDemandIs DEF OnlyMoves, Shape
<1>8. RowsShape' /\ KeepsRows
  BY <1>1, <1>3, <1>5, <1>7, RowsStay
<1>9. HeldShape(t)'
  <2>1. ASSUME NEW o, ObjectShape(o)
        PROVE  ObjectShape(o)'
    BY <1>8, <2>1 DEF ObjectShape, KeepsRows
  <2>. QED
    BY <1>1, <2>1 DEF Shape, HeldShape
<1>10. Fits(t)
  BY <1>1, <1>7, <1>8, <1>9, MovesKeepShape DEF Fits, Shape
<1>. QED
  BY <1>1, <1>2, <1>3, <1>5, <1>6, <1>7, <1>10

\* A set of naturals under a bound has a greatest element.
LEMMA GreatestExists ==
    ASSUME NEW b \in Nat, NEW U, U \subseteq 1..b, U # {}
    PROVE  \E g \in U : \A k \in U : k <= g
<1>. DEFINE Below == {ss \in Nat \X Nat : ss[1] < ss[2]}
            R == {b - k : k \in U}
<1>1. IsWellFoundedOn(Below, Nat)
  BY NatLessThanWellFounded DEF OpToRel
<1>2. R \subseteq Nat /\ R # {}
  <2>1. \A k \in U : k \in 1..b /\ b - k \in Nat
    OBVIOUS
  <2>2. \A n \in R : n \in Nat
    BY <2>1
  <2>3. PICK k \in U : TRUE
    OBVIOUS
  <2>4. b - k \in R
    BY <2>3
  <2>. QED
    BY <2>2, <2>4
<1>3. PICK m \in R : \A n \in R : ~(<<n, m>> \in Below)
  BY <1>1, <1>2, WFMin
<1>4. \A n \in R : m <= n
  <2>1. TAKE n \in R
  <2>2. n \in Nat /\ m \in Nat
    BY <1>2
  <2>3. <<n, m>> \in Nat \X Nat
    BY <2>2
  <2>. QED
    BY <1>3, <2>2, <2>3
<1>5. PICK g \in U : m = b - g
  OBVIOUS
<1>6. ASSUME NEW k \in U
      PROVE  k <= g
  <2>1. m <= b - k
    BY <1>4
  <2>. QED
    BY <1>5, <2>1
<1>. QED
  BY <1>6

\* What a row becomes when an object is merged into it (Overwritten).
LEMMA OverwrittenIs ==
    ASSUME NEW kind, NEW old, NEW o, ContentFits(kind, old), ContentFits(kind, o.is)
    PROVE  LET new == Overwritten(kind, old, o)
           IN  /\ ContentFits(kind, new)
               /\ kind = "contributor" => Names(new) = Names(o.is)
               /\ kind = "concept" =>
                    /\ new.flag = o.is.flag
                    /\ new.labels = IF o.loaded THEN o.is.labels ELSE old.labels
<1>. DEFINE new == Overwritten(kind, old, o)
<1>1. CASE o.loaded
  BY <1>1 DEF Overwritten
<1>2. CASE ~o.loaded /\ kind = "contributor"
  <2>1. new = [o.is EXCEPT !.codes = old.codes]
    BY <1>2 DEF Overwritten
  <2>. HIDE DEF new
  <2>2. PICK a, b, e : o.is = [name |-> a, variants |-> b, codes |-> e]
    BY <1>2 DEF ContentFits
  <2>3. new = [name |-> a, variants |-> b, codes |-> old.codes]
    BY <2>1, <2>2
  <2>4. new.name = a /\ new.variants = b /\ new.codes = old.codes
    BY <2>3
  <2>. QED
    BY <1>2, <2>2, <2>3, <2>4 DEF ContentFits, Names, new
<1>3. CASE ~o.loaded /\ kind = "concept"
  <2>1. new = [old EXCEPT !.flag = o.is.flag] /\ o.is.flag \in BOOLEAN
    BY <1>3 DEF Overwritten, ContentFits
  <2>. HIDE DEF new
  <2>2. PICK a, b : old = [flag |-> a, labels |-> b]
    BY <1>3 DEF ContentFits
  <2>3. new = [flag |-> o.is.flag, labels |-> b]
    BY <2>1, <2>2
  <2>4. new.flag = o.is.flag /\ new.labels = b
    BY <2>3
  <2>. QED
    BY <1>3, <2>1, <2>2, <2>3, <2>4 DEF ContentFits, new
<1>4. CASE ~o.loaded /\ kind \notin {"contributor", "concept"}
  BY <1>4 DEF ContentFits
<1>. QED
  BY <1>1, <1>2, <1>3, <1>4

\* The object of row i that conversion t has held last.
HeldLast(t, i, k) ==
    /\ k \in DOMAIN held[t] /\ held[t][k].row = i
    /\ \A l \in DOMAIN held[t] : held[t][l].row = i => l <= k

\* The last object a conversion holds of a row is the one it merges.
LEMMA LatestIs ==
    ASSUME Shape, NEW t \in Conversions, NEW i
    PROVE  LET k == SelectLastInSeq(held[t], LAMBDA o : o.row = i)
           IN  \/ k = 0 /\ \A l \in DOMAIN held[t] : held[t][l].row # i
               \/ k # 0 /\ HeldLast(t, i, k)
<1>. DEFINE I == {l \in 1..Len(held[t]) : held[t][l].row = i}
            k == SelectLastInSeq(held[t], LAMBDA o : o.row = i)
<1>1. DOMAIN held[t] = 1..Len(held[t]) /\ Len(held[t]) \in Nat
  BY SequenceIs DEF Shape, HeldShape
<1>2. k = IF I # {} THEN Max(I) ELSE 0
  BY DEF SelectLastInSeq
<1>3. CASE I = {}
  BY <1>1, <1>2, <1>3
<1>4. CASE I # {}
  <2>1. \E g \in I : \A l \in I : g >= l
    <3>1. I \subseteq 1..Len(held[t])
      OBVIOUS
    <3>2. PICK g \in I : \A l \in I : l <= g
      BY <1>1, <1>4, <3>1, GreatestExists
    <3>3. \A l \in I : l \in Nat
      BY <3>1
    <3>. QED
      BY <3>2, <3>3
  <2>2. k \in I /\ \A l \in I : k >= l
    BY <1>2, <1>4, <2>1 DEF Max
  <2>3. k \in Nat /\ k # 0 /\ k \in DOMAIN held[t] /\ held[t][k].row = i
    BY <1>1, <2>2
  <2>4. ASSUME NEW l \in DOMAIN held[t], held[t][l].row = i
        PROVE  l <= k
    <3>1. l \in I /\ l \in Nat
      BY <1>1, <2>4
    <3>. QED
      BY <2>2, <2>3, <3>1
  <2>. QED
    BY <2>3, <2>4 DEF HeldLast
<1>. QED
  BY <1>3, <1>4

(* The objects of the reference are merged into their rows, the last one   *)
(* of each, when none is a contributor that has lost its name.             *)
LEMMA MergeFits ==
    ASSUME Shape, NEW t \in Conversions, Record(t), ~LosesAName(t)
    PROVE  /\ Fits(t) /\ UNCHANGED <<todo, retried, looked, made, held, why, beside, job>>
           /\ at[t] = "recording" /\ at'[t] = "recorded" /\ DOMAIN rows' = DOMAIN rows
           /\ \A i \in DOMAIN rows :
                \/ /\ \A l \in DOMAIN held[t] : held[t][l].row # i
                   /\ rows'[i] = rows[i]
                \/ \E k \in DOMAIN held[t] :
                     /\ HeldLast(t, i, k)
                     /\ rows'[i].is = Overwritten(rows[i].kind, rows[i].is, held[t][k])
           /\ \A n \in named' : n \in named \/
                \E k \in DOMAIN held[t] :
                  /\ rows[held[t][k].row].kind = "contributor"
                  /\ n = <<held[t][k].row, held[t][k].says.name>>
<1>. DEFINE Latest(i) == SelectLastInSeq(held[t], LAMBDA o : o.row = i)
            New(i) == Overwritten(rows[i].kind, rows[i].is, held[t][Latest(i)])
<1>1. /\ at[t] = "recording" /\ at' = [at EXCEPT ![t] = "recorded"]
      /\ UNCHANGED <<todo, retried, looked, made, held, why, beside, job>>
      /\ named' = named \cup {<<o.row, o.says.name>> :
                      o \in {p \in Range(held[t]) : rows[p.row].kind = "contributor"}}
  BY DEF Record, demanding, Fail
<1>2. rows' = [i \in DOMAIN rows |-> IF Latest(i) = 0 THEN rows[i]
                                     ELSE [rows[i] EXCEPT !.is = New(i)]]
  BY DEF Record
<1>3. \A i : \/ Latest(i) = 0 /\ \A l \in DOMAIN held[t] : held[t][l].row # i
             \/ Latest(i) # 0 /\ HeldLast(t, i, Latest(i))
  BY LatestIs
<1>. HIDE DEF Latest
<1>4. OnlyMoves(t) /\ at'[t] = "recorded"
  BY <1>1 DEF OnlyMoves, Shape, Places
<1>5. ASSUME NEW i \in DOMAIN rows
      PROVE  \/ /\ \A l \in DOMAIN held[t] : held[t][l].row # i
                /\ rows'[i] = rows[i]
             \/ /\ HeldLast(t, i, Latest(i)) /\ ContentFits(rows[i].kind, New(i))
                /\ rows'[i] = [rows[i] EXCEPT !.is = New(i)] /\ rows'[i].is = New(i)
  <2>1. CASE Latest(i) = 0
    BY <1>2, <1>3, <2>1
  <2>2. CASE Latest(i) # 0
    <3>1. HeldLast(t, i, Latest(i)) /\ IsRow(rows[i])
      BY <1>3, <2>2 DEF Shape, RowsShape
    <3>2. ObjectShape(held[t][Latest(i)])
      BY <3>1 DEF HeldLast, Shape, HeldShape
    <3>3. ContentFits(rows[i].kind, rows[i].is) /\ ContentFits(rows[i].kind, held[t][Latest(i)].is)
      BY <3>1, <3>2 DEF HeldLast, ObjectShape, IsRow
    <3>4. ContentFits(rows[i].kind, New(i))
      BY <3>3, OverwrittenIs
    <3>5. rows'[i] = [rows[i] EXCEPT !.is = New(i)]
      BY <1>2, <2>2
    <3>. HIDE DEF New
    <3>. QED
      BY <3>1, <3>4, <3>5, RowWith
  <2>. QED
    BY <2>1, <2>2
<1>6. IsSequence(rows') /\ DOMAIN rows' = DOMAIN rows
  <2>1. IsSequence(rows) /\ DOMAIN rows' = DOMAIN rows /\ rows' = [i \in DOMAIN rows |-> rows'[i]]
    <3>. HIDE DEF New
    <3>. QED
      BY <1>2 DEF Shape, RowsShape
  <2>. QED
    BY <2>1, SameLengthIs
<1>7. RowsShape' /\ KeepsRows
  <2>1. \A i \in DOMAIN rows :
          \/ rows'[i] = rows[i]
          \/ \E x : ContentFits(rows[i].kind, x) /\ rows'[i] = [rows[i] EXCEPT !.is = x]
    BY <1>5
  <2>. QED
    BY <1>1, <1>4, <1>6, <2>1, RowsStay
<1>8. HeldShape(t)'
  <2>1. ASSUME NEW o, ObjectShape(o)
        PROVE  ObjectShape(o)'
    BY <1>7, <2>1 DEF ObjectShape, KeepsRows
  <2>. QED
    BY <1>1, <2>1 DEF Shape, HeldShape
<1>9. TodoShape(t)' /\ PlaceShape(t)'
  BY <1>1, <1>4 DEF Shape, TodoShape, PlaceShape, Demanding
<1>10. Fits(t)
  BY <1>1, <1>4, <1>7, <1>8, <1>9, MovesKeepShape DEF Fits, Shape
<1>11. ASSUME NEW n \in named', n \notin named
       PROVE  \E k \in DOMAIN held[t] :
                /\ rows[held[t][k].row].kind = "contributor"
                /\ n = <<held[t][k].row, held[t][k].says.name>>
  <2>1. PICK o \in Range(held[t]) :
          rows[o.row].kind = "contributor" /\ n = <<o.row, o.says.name>>
    BY <1>1, <1>11
  <2>2. PICK k \in DOMAIN held[t] : o = held[t][k]
    BY DEF Range
  <2>. QED
    BY <2>1, <2>2
<1>12. \A i \in DOMAIN rows :
         \/ /\ \A l \in DOMAIN held[t] : held[t][l].row # i
            /\ rows'[i] = rows[i]
         \/ \E k \in DOMAIN held[t] :
              /\ HeldLast(t, i, k)
              /\ rows'[i].is = Overwritten(rows[i].kind, rows[i].is, held[t][k])
  BY <1>5 DEF HeldLast
<1>. QED
  BY <1>1, <1>4, <1>6, <1>10, <1>11, <1>12

(* The objects are merged, or nothing is stored (Record).                  *)
LEMMA RecordFits ==
    ASSUME Shape, NEW t \in Conversions, Record(t)
    PROVE  /\ Fits(t) /\ UNCHANGED <<todo, retried, looked, made, held, beside, job>>
           /\ at[t] = "recording" /\ at'[t] \in {"recorded", "failed"}
           /\ DOMAIN rows' = DOMAIN rows
           /\ at'[t] = "failed" =>
                /\ why'[t] = "IntegrityError" /\ LosesAName(t)
                /\ UNCHANGED <<rows, named>>
           /\ at'[t] = "recorded" =>
                /\ why' = why
                /\ \A i \in DOMAIN rows :
                     \/ /\ \A l \in DOMAIN held[t] : held[t][l].row # i
                        /\ rows'[i] = rows[i]
                     \/ \E k \in DOMAIN held[t] :
                          /\ HeldLast(t, i, k)
                          /\ rows'[i].is = Overwritten(rows[i].kind, rows[i].is, held[t][k])
           /\ \A n \in named' : n \in named \/
                \E k \in DOMAIN held[t] :
                  /\ rows[held[t][k].row].kind = "contributor"
                  /\ n = <<held[t][k].row, held[t][k].says.name>>
<1>1. CASE LosesAName(t)
  <2>1. at[t] = "recording" /\ Fail(t, "IntegrityError")
    BY <1>1 DEF Record
  <2>. QED
    BY <1>1, <2>1, FailIs
<1>2. CASE ~LosesAName(t)
  BY <1>2, MergeFits
<1>. QED
  BY <1>1, <1>2

-----------------------------------------------------------------------------
(* The steps of the job                                                    *)

\* The steps of the job only write the contents of rows.
LEMMA JobsKeepShape ==
    ASSUME Shape, UNCHANGED <<todo, retried, looked, made, at, held, why, beside>>,
           DOMAIN job' = Jobs, \A j \in Jobs : JobShape(j)',
           IsSequence(rows'), DOMAIN rows' = DOMAIN rows,
           \A i \in DOMAIN rows :
             \/ rows'[i] = rows[i]
             \/ \E x : ContentFits(rows[i].kind, x) /\ rows'[i] = [rows[i] EXCEPT !.is = x]
    PROVE  Shape' /\ KeepsRows
<1>1. ASSUME NEW i \in DOMAIN rows
      PROVE  /\ IsRow(rows'[i])
             /\ rows'[i].kind = rows[i].kind /\ rows'[i].ids = rows[i].ids
             /\ rows'[i].soft = rows[i].soft /\ rows'[i].name = rows[i].name
             /\ rows'[i].by = rows[i].by /\ rows'[i].committed = rows[i].committed
  <2>1. IsRow(rows[i])
    BY DEF Shape, RowsShape
  <2>2. ASSUME NEW x, ContentFits(rows[i].kind, x), rows'[i] = [rows[i] EXCEPT !.is = x]
        PROVE  /\ IsRow(rows'[i])
               /\ rows'[i].kind = rows[i].kind /\ rows'[i].ids = rows[i].ids
               /\ rows'[i].soft = rows[i].soft /\ rows'[i].name = rows[i].name
               /\ rows'[i].by = rows[i].by /\ rows'[i].committed = rows[i].committed
    BY <2>1, <2>2, RowWith
  <2>. QED
    BY <2>1, <2>2
<1>2. KeepsRows
  BY <1>1 DEF KeepsRows
<1>3. RowsShape'
  <2>1. ASSUME NEW i \in DOMAIN rows, ~rows[i].committed
        PROVE  /\ rows[i].by \in Conversions /\ at'[rows[i].by] = "committing"
               /\ rows[i].kind = Head(todo'[rows[i].by]).kind
    BY <2>1 DEF Shape, RowsShape, Demand
  <2>2. \A i, k \in DOMAIN rows :
          ~rows[i].committed /\ ~rows[k].committed /\ rows[i].by = rows[k].by => i = k
    BY DEF Shape, RowsShape
  <2>. QED
    BY <1>1, <2>1, <2>2 DEF RowsShape, Demand
<1>4. ASSUME NEW t \in Conversions
      PROVE  TodoShape(t)' /\ PlaceShape(t)' /\ HeldShape(t)'
  <2>1. TodoShape(t) /\ PlaceShape(t) /\ HeldShape(t)
    BY DEF Shape
  <2>2. TodoShape(t)'
    BY <2>1 DEF TodoShape
  <2>3. ASSUME NEW o, ObjectShape(o)
        PROVE  ObjectShape(o)' /\ rows'[o.row].kind = rows[o.row].kind
    BY <1>2, <2>3 DEF ObjectShape, KeepsRows
  <2>4. HeldShape(t)'
    BY <2>1, <2>3 DEF HeldShape
  <2>5. ASSUME at[t] = "identifying"
        PROVE  rows'[Last(held[t]).row].kind = rows[Last(held[t]).row].kind
    <3>1. Last(held[t]) = held[t][Len(held[t])] /\ Len(held[t]) \in DOMAIN held[t]
      BY <2>1, <2>5, SequenceIs DEF PlaceShape, HeldShape, Last
    <3>. QED
      BY <2>1, <2>3, <3>1 DEF HeldShape
  <2>6. PlaceShape(t)'
    BY <2>1, <2>5 DEF PlaceShape, Demand
  <2>. QED
    BY <2>2, <2>4, <2>6
<1>5. /\ DOMAIN todo' = Conversions /\ DOMAIN retried' = Conversions
      /\ DOMAIN looked' = Conversions /\ DOMAIN made' = Conversions
      /\ DOMAIN held' = Conversions /\ DOMAIN why' = Conversions
      /\ at' \in [Conversions -> Places] /\ beside' \in [Conversions -> SUBSET Conversions]
  BY DEF Shape
<1>. QED
  BY <1>2, <1>3, <1>4, <1>5 DEF Shape

\* A run of the job picks a concept, asks for it and merges it (Launch, RunJob).
LEMMA JobFits ==
    ASSUME Shape, NEW j \in Jobs, Launch(j) \/ RunJob(j)
    PROVE  /\ Shape' /\ KeepsRows /\ DOMAIN rows' = DOMAIN rows
           /\ UNCHANGED <<todo, retried, looked, made, at, held, why, beside, named>>
           /\ \/ rows' = rows
              \/ \E i \in DOMAIN rows :
                   /\ rows[i].kind = "concept" /\ HasAuthority(rows'[i].is.labels)
                   /\ \A k \in DOMAIN rows \ {i} : rows'[k] = rows[k]
<1>1. UNCHANGED <<todo, retried, looked, made, at, held, why, beside, named>>
  BY DEF Launch, RunJob, Pick, Dereference, MergeConcept, demanding, history
<1>2. DOMAIN job = Jobs /\ \A k \in Jobs : JobShape(k)
  BY DEF Shape
<1>3. ASSUME rows' = rows, NEW f, job' = [job EXCEPT ![j] = f],
             f = [at |-> f.at, concept |-> f.concept, read |-> f.read, seen |-> f.seen],
             f.at \in {"solving", "merging"} =>
               f.concept \in DOMAIN rows /\ rows[f.concept].kind = "concept"
      PROVE  Shape' /\ KeepsRows
  <2>1. DOMAIN job' = Jobs /\ \A k \in Jobs : job'[k] = IF k = j THEN f ELSE job[k]
    BY <1>2, <1>3
  <2>2. \A k \in Jobs : JobShape(k)'
    <3>1. ASSUME NEW k \in Jobs
          PROVE  JobShape(k)'
      <4>1. CASE k = j
        BY <1>3, <2>1, <4>1 DEF JobShape
      <4>2. CASE k # j
        BY <1>2, <1>3, <2>1, <4>2 DEF JobShape
      <4>. QED
        BY <4>1, <4>2
    <3>. QED
      BY <3>1
  <2>3. IsSequence(rows') /\ DOMAIN rows' = DOMAIN rows /\ \A i \in DOMAIN rows : rows'[i] = rows[i]
    BY <1>3 DEF Shape, RowsShape
  <2>. QED
    BY <1>1, <2>1, <2>2, <2>3, JobsKeepShape
<1>4. PICK a, c, r, s : job[j] = [at |-> a, concept |-> c, read |-> r, seen |-> s]
  BY <1>2 DEF JobShape
<1>5. \A p : [job[j] EXCEPT !.at = p] = [at |-> p, concept |-> c, read |-> r, seen |-> s]
  BY <1>4
<1>6. job[j].at = a /\ job[j].concept = c /\ job[j].read = r /\ job[j].seen = s
  BY <1>4
<1>7. ASSUME rows' = rows, NEW p, job' = [job EXCEPT ![j].at = p],
             p = "merging" => a = "solving", p # "solving"
      PROVE  Shape' /\ KeepsRows
  <2>. DEFINE f == [at |-> p, concept |-> c, read |-> r, seen |-> s]
  <2>1. job' = [job EXCEPT ![j] = f]
    BY <1>5, <1>7
  <2>2. f.at = p /\ f.concept = c /\ f.read = r /\ f.seen = s
    OBVIOUS
  <2>3. f = [at |-> f.at, concept |-> f.concept, read |-> f.read, seen |-> f.seen]
    OBVIOUS
  <2>. HIDE DEF f
  <2>4. f.at \in {"solving", "merging"} =>
          f.concept \in DOMAIN rows /\ rows[f.concept].kind = "concept"
    BY <1>2, <1>6, <1>7, <2>2 DEF JobShape
  <2>. QED
    BY <1>3, <1>7, <2>1, <2>3, <2>4
<1>8. CASE Launch(j)
  <2>1. PICK p \in {"picking"} : rows' = rows /\ job' = [job EXCEPT ![j].at = p]
    BY <1>8 DEF Launch
  <2>2. Shape' /\ KeepsRows
    BY <1>7, <2>1
  <2>. QED
    BY <1>1, <2>1, <2>2
<1>9. CASE Pick(j)
  <2>1. rows' = rows
    BY <1>9 DEF Pick
  <2>2. CASE job' = [job EXCEPT ![j].at = "ended"]
    <3>0. PICK p \in {"ended"} : job' = [job EXCEPT ![j].at = p]
      BY <2>2
    <3>1. Shape' /\ KeepsRows
      BY <1>7, <2>1, <3>0
    <3>. QED
      BY <1>1, <2>1, <3>1
  <2>3. CASE \E i \in ToDereference \ job[j].seen :
               job' = [job EXCEPT ![j] = [at |-> "solving", concept |-> i,
                         read |-> rows[i].is, seen |-> @.seen \cup {i}]]
    <3>1. PICK i \in ToDereference :
            job' = [job EXCEPT ![j] = [at |-> "solving", concept |-> i,
                      read |-> rows[i].is, seen |-> @.seen \cup {i}]]
      BY <2>3
    <3>. DEFINE f == [at |-> "solving", concept |-> i, read |-> rows[i].is,
                      seen |-> job[j].seen \cup {i}]
    <3>2. job' = [job EXCEPT ![j] = f]
      BY <3>1
    <3>3. f.at = "solving" /\ f.concept = i
      OBVIOUS
    <3>4. f = [at |-> f.at, concept |-> f.concept, read |-> f.read, seen |-> f.seen]
      OBVIOUS
    <3>. HIDE DEF f
    <3>5. i \in DOMAIN rows /\ rows[i].kind = "concept"
      BY <3>1 DEF ToDereference, Committed
    <3>6. Shape' /\ KeepsRows
      BY <1>3, <2>1, <3>2, <3>3, <3>4, <3>5
    <3>. QED
      BY <1>1, <2>1, <3>6
  <2>. QED
    BY <1>9, <2>2, <2>3 DEF Pick
<1>10. CASE Dereference(j)
  <2>1. PICK p \in {"merging", "picking", "aborted"} : job' = [job EXCEPT ![j].at = p]
    BY <1>10 DEF Dereference
  <2>2. rows' = rows /\ a = "solving"
    BY <1>6, <1>10 DEF Dereference
  <2>. QED
    BY <1>1, <1>7, <2>1, <2>2
<1>11. CASE MergeConcept(j)
  <2>. DEFINE x == Dereferenced(rows[c].is, r, j)
  <2>1. /\ job[j].at = "merging" /\ rows' = [rows EXCEPT ![c].is = x]
        /\ job' = [job EXCEPT ![j].at = "picking"]
    BY <1>6, <1>11 DEF MergeConcept
  <2>2. c \in DOMAIN rows /\ rows[c].kind = "concept" /\ IsRow(rows[c])
    BY <1>2, <1>6, <2>1 DEF JobShape, Shape, RowsShape
  <2>3. ContentFits("concept", x) /\ HasAuthority(x.labels)
    <3>1. x = [flag |-> TRUE, labels |-> (rows[c].is.labels \ r.labels) \cup {<<"authority", j>>}]
      BY DEF Dereferenced
    <3>. HIDE DEF x
    <3>2. x.flag = TRUE /\ x.labels = (rows[c].is.labels \ r.labels) \cup {<<"authority", j>>}
      BY <3>1
    <3>3. <<"authority", j>> \in x.labels /\ <<"authority", j>>[1] = "authority"
      BY <3>2
    <3>4. HasAuthority(x.labels)
      BY <3>3 DEF HasAuthority
    <3>5. ContentFits("concept", x)
      BY <3>1, <3>2 DEF ContentFits
    <3>. QED
      BY <3>4, <3>5
  <2>. HIDE DEF x
  <2>4. /\ IsSequence(rows') /\ DOMAIN rows' = DOMAIN rows
        /\ rows'[c] = [rows[c] EXCEPT !.is = x]
        /\ \A k \in DOMAIN rows \ {c} : rows'[k] = rows[k]
    BY <2>1, <2>2, WrittenIs DEF Shape, RowsShape
  <2>5. rows'[c].is = x /\ rows'[c].kind = rows[c].kind
    BY <2>2, <2>3, <2>4, RowWith
  <2>6. DOMAIN job' = Jobs /\ \A k \in Jobs : JobShape(k)'
    <3>. DEFINE f == [at |-> "picking", concept |-> c, read |-> r, seen |-> s]
    <3>1. job' = [job EXCEPT ![j] = f]
      BY <1>5, <2>1
    <3>2. f.at = "picking" /\ f.concept = c /\ f.read = r /\ f.seen = s
      OBVIOUS
    <3>3. f = [at |-> f.at, concept |-> f.concept, read |-> f.read, seen |-> f.seen]
      OBVIOUS
    <3>. HIDE DEF f
    <3>4. DOMAIN job' = Jobs /\ \A k \in Jobs : job'[k] = IF k = j THEN f ELSE job[k]
      BY <1>2, <3>1
    <3>5. ASSUME NEW k \in Jobs
          PROVE  JobShape(k)'
      <4>1. CASE k = j
        BY <3>2, <3>3, <3>4, <4>1 DEF JobShape
      <4>2. CASE k # j
        <5>1. JobShape(k) /\ job'[k] = job[k]
          BY <1>2, <3>4, <4>2
        <5>2. \A i \in DOMAIN rows : rows'[i].kind = rows[i].kind
          BY <2>4, <2>5
        <5>. QED
          BY <2>4, <5>1, <5>2 DEF JobShape
      <4>. QED
        BY <4>1, <4>2
    <3>. QED
      BY <3>4, <3>5
  <2>7. Shape' /\ KeepsRows
    BY <1>1, <2>2, <2>3, <2>4, <2>6, JobsKeepShape
  <2>. QED
    BY <1>1, <2>2, <2>3, <2>4, <2>5, <2>7
<1>. QED
  BY <1>8, <1>9, <1>10, <1>11 DEF RunJob

-----------------------------------------------------------------------------

\* Shape holds at the start: nothing is held and every row is committed.
LEMMA InitShape ==
    ASSUME Init
    PROVE  Shape
<1>1. PICK s \in Starts :
        /\ rows = s.rows /\ todo = s.todo
        /\ job = [j \in Jobs |-> [at |-> IF j \in s.jobs THEN "idle" ELSE "ended",
                                  concept |-> 0, read |-> <<>>, seen |-> {}]]
  BY DEF Init
<1>2. /\ at = [t \in Conversions |-> "waiting"] /\ retried = [t \in Conversions |-> FALSE]
      /\ looked = [t \in Conversions |-> {}] /\ made = [t \in Conversions |-> <<>>]
      /\ held = [t \in Conversions |-> <<>>] /\ why = [t \in Conversions |-> "nothing"]
      /\ beside = [t \in Conversions |-> {}]
  BY DEF Init
<1>3. /\ IsSequence(rows)
      /\ \A i \in DOMAIN rows : IsRow(rows[i]) /\ rows[i].committed
      /\ DOMAIN todo = Conversions
      /\ \A t \in Conversions :
           IsSequence(todo[t]) /\ \A k \in DOMAIN todo[t] : IsDemand(todo[t][k])
  BY <1>1, StartsAssumption
<1>4. RowsShape
  BY <1>3 DEF RowsShape
<1>5. ASSUME NEW t \in Conversions
      PROVE  TodoShape(t) /\ PlaceShape(t) /\ HeldShape(t)
  <2>1. at[t] = "waiting" /\ held[t] = <<>>
    BY <1>2
  <2>2. IsSequence(<<>>) /\ DOMAIN <<>> = {}
    BY DEF IsSequence
  <2>. QED
    BY <1>3, <2>1, <2>2 DEF TodoShape, PlaceShape, HeldShape, Demanding
<1>6. ASSUME NEW j \in Jobs
      PROVE  JobShape(j)
  <2>1. PICK p \in {"idle", "ended"} :
          job[j] = [at |-> p, concept |-> 0, read |-> <<>>, seen |-> {}]
    BY <1>1
  <2>2. job[j].at = p /\ job[j].concept = 0 /\ job[j].read = <<>> /\ job[j].seen = {}
    BY <2>1
  <2>. QED
    BY <2>1, <2>2 DEF JobShape
<1>7. /\ at \in [Conversions -> Places] /\ beside \in [Conversions -> SUBSET Conversions]
      /\ DOMAIN job = Jobs
  BY <1>1, <1>2 DEF Places
<1>. QED
  BY <1>2, <1>3, <1>4, <1>5, <1>6, <1>7 DEF Shape

\* Every step keeps Shape.
LEMMA NextShape ==
    ASSUME Shape, [Next]_vars
    PROVE  Shape'
<1>1. ASSUME NEW t \in Conversions, Begin(t) \/ Convert(t)
      PROVE  Shape'
  BY <1>1, BeginFits, ReuseFits, LookInBulkFits, LookFits, LookAgainFits, SolveFits, MatchFits,
     InsertFits, CommitFits, IdentifyFits, RecordFits DEF Convert, Fits
<1>2. ASSUME NEW j \in Jobs, Launch(j) \/ RunJob(j)
      PROVE  Shape'
  BY <1>2, JobFits
<1>3. CASE UNCHANGED vars
  BY <1>3 DEF vars, demanding, history, Shape, RowsShape, TodoShape, PlaceShape, HeldShape,
     ObjectShape, JobShape, Demand
<1>. QED
  BY <1>1, <1>2, <1>3 DEF Next

(* In every reachable state the state of the conversions, of the job and   *)
(* of the rows fit together: a row that is not committed is that of a      *)
(* conversion at its COMMIT, every object is that of a row of its kind.    *)
THEOREM SharedShape == Spec => []Shape
BY InitShape, NextShape, PTL DEF Spec

-----------------------------------------------------------------------------
(* Who overlaps, and what the lookups have missed                          *)

\* Everything a conversion does keeps Shape; it begins, or it runs already.
LEMMA StepFits ==
    ASSUME Shape, NEW t \in Conversions, Begin(t) \/ Convert(t)
    PROVE  /\ Fits(t) /\ at'[t] # "waiting" /\ job' = job
           /\ Convert(t) => t \in Running /\ beside' = beside
           /\ Begin(t) => at[t] = "waiting" /\ rows' = rows
<1>1. CASE Begin(t)
  <2>1. at[t] = "waiting"
    BY <1>1 DEF Begin
  <2>2. ~Convert(t)
    BY <2>1 DEF Convert, Reuse, LookInBulk, Look, LookAgain, Solve, Match, Insert, Commit,
       Identify, Record
  <2>. QED
    BY <1>1, <2>1, <2>2, BeginFits DEF Between
<1>2. CASE Reuse(t)
  BY <1>2, ReuseFits DEF Reuse, Begin, NextDemandDone, Between, Running
<1>3. CASE LookInBulk(t)
  BY <1>3, LookInBulkFits DEF LookInBulk, Begin, HoldDone, NextDemandDone, Between, Running
<1>4. CASE Look(t)
  BY <1>4, LookFits DEF Look, Begin, HoldDone, NextDemandDone, Between, Running
<1>5. CASE LookAgain(t)
  BY <1>5, LookAgainFits DEF LookAgain, Begin, HoldDone, NextDemandDone, Between, Running
<1>6. CASE Solve(t)
  BY <1>6, SolveFits DEF Solve, Begin, Running
<1>7. CASE Match(t)
  BY <1>7, MatchFits DEF Begin, HoldDone, NextDemandDone, Between, Running
<1>8. CASE Insert(t)
  BY <1>8, InsertFits DEF Begin, Running
<1>9. CASE Commit(t)
  BY <1>9, CommitFits DEF Begin, HoldDone, NextDemandDone, Between, Running
<1>10. CASE Identify(t)
  BY <1>10, IdentifyFits DEF Begin, NextDemandDone, Between, Running
<1>11. CASE Record(t)
  BY <1>11, RecordFits DEF Begin, Running
<1>. QED
  BY <1>1, <1>2, <1>3, <1>4, <1>5, <1>6, <1>7, <1>8, <1>9, <1>10, <1>11 DEF Convert

\* A conversion that begins overlaps those that run, and they overlap it.
LEMMA BeginOverlaps ==
    ASSUME Shape, Overlap, NEW t \in Conversions, Begin(t)
    PROVE  Overlap' /\ \A u \in Conversions : beside[u] \subseteq beside'[u]
<1>1. /\ at[t] = "waiting" /\ at'[t] # "waiting"
      /\ \A u \in Conversions \ {t} : at'[u] = at[u]
  BY StepFits DEF Fits, OnlyMoves
<1>2. \A u \in Conversions :
        beside'[u] = IF u = t THEN Running
                     ELSE IF u \in Running THEN beside[u] \cup {t} ELSE beside[u]
  BY DEF Begin
<1>3. t \notin Running /\ Running \subseteq Conversions /\ Running' \subseteq Running \cup {t}
  BY <1>1 DEF Running
<1>4. \A u \in Conversions : u \notin beside[t] /\ t \notin beside[u]
  BY <1>1 DEF Overlap
<1>5. ASSUME NEW u \in Conversions
      PROVE  u \notin beside'[u]
  <2>1. u \notin beside[u]
    BY DEF Overlap
  <2>2. CASE u = t
    BY <1>2, <1>3, <2>2
  <2>3. CASE u # t
    BY <1>2, <2>1, <2>3
  <2>. QED
    BY <2>2, <2>3
<1>6. ASSUME NEW u \in Conversions, NEW v \in Conversions, v \in beside'[u]
      PROVE  u \in beside'[v] /\ at'[u] # "waiting" /\ at'[v] # "waiting"
  <2>1. CASE u = t
    BY <1>1, <1>2, <1>3, <1>6, <2>1 DEF Running
  <2>2. CASE u # t /\ v = t
    <3>1. u \in Running
      BY <1>2, <1>4, <1>6, <2>2
    <3>. QED
      BY <1>1, <1>2, <2>2, <3>1 DEF Running
  <2>3. CASE u # t /\ v # t
    <3>1. v \in beside[u]
      BY <1>2, <1>6, <2>3
    <3>2. u \in beside[v] /\ at[u] # "waiting" /\ at[v] # "waiting"
      BY <3>1 DEF Overlap
    <3>. QED
      BY <1>1, <1>2, <2>3, <3>2
  <2>. QED
    BY <2>1, <2>2, <2>3
<1>7. ASSUME NEW u \in Running', NEW v \in Running', u # v
      PROVE  v \in beside'[u]
  <2>1. u \in Conversions /\ v \in Conversions
    BY DEF Running
  <2>2. CASE u = t
    BY <1>2, <1>3, <1>7, <2>1, <2>2
  <2>3. CASE u # t /\ v = t
    BY <1>2, <1>3, <1>7, <2>1, <2>3
  <2>4. CASE u # t /\ v # t
    BY <1>2, <1>3, <1>7, <2>1, <2>4 DEF Overlap
  <2>. QED
    BY <2>2, <2>3, <2>4
<1>8. Overlap'
  BY <1>5, <1>6, <1>7 DEF Overlap
<1>9. \A u \in Conversions : beside[u] \subseteq beside'[u]
  <2>1. beside[t] = {}
    BY <1>4 DEF Shape
  <2>. QED
    BY <1>2, <2>1
<1>. QED
  BY <1>8, <1>9

\* A conversion that runs goes on or ends; the others stay as they are.
LEMMA RunOverlaps ==
    ASSUME Shape, Overlap, NEW t \in Conversions, Convert(t)
    PROVE  Overlap'
<1>1. /\ at'[t] # "waiting" /\ t \in Running /\ beside' = beside
      /\ \A u \in Conversions \ {t} : at'[u] = at[u]
  BY StepFits DEF Fits, OnlyMoves
<1>2. Running' \subseteq Running
  BY <1>1 DEF Running
<1>. QED
  BY <1>1, <1>2 DEF Overlap

\* The rows of before are found by the same demands.
LEMMA KeysStay ==
    ASSUME KeepsRows, NEW i \in DOMAIN rows
    PROVE  \A d : /\ FirstMatch(d, rows'[i]) <=> FirstMatch(d, rows[i])
                  /\ SecondMatch(d, rows'[i]) <=> SecondMatch(d, rows[i])
                  /\ Violates(d, rows'[i]) <=> Violates(d, rows[i])
                  /\ SameRecord(rows'[i], d) <=> SameRecord(rows[i], d)
                  /\ SameRecord(d, rows'[i]) <=> SameRecord(d, rows[i])
<1>1. /\ rows'[i].kind = rows[i].kind /\ rows'[i].ids = rows[i].ids
      /\ rows'[i].soft = rows[i].soft /\ rows'[i].name = rows[i].name
  BY DEF KeepsRows
<1>. TAKE d
<1>2. FirstMatch(d, rows'[i]) <=> FirstMatch(d, rows[i])
  BY <1>1 DEF FirstMatch, ContributorMatch, ConceptMatch, DocumentTypeMatch, OrganizationMatch,
     IssueMatch, JournalMatch, BookMatch
<1>. QED
  BY <1>1, <1>2 DEF SecondMatch, Violates, SameRecord

\* The lookups of a demand find every row that is the same record.
LEMMA LookupsCover ==
    ASSUME NEW d, NEW r, WellKeyed(d), WellKeyed(r), SameRecord(r, d)
    PROVE  /\ d.kind \notin {"journal", "book"} => FirstMatch(d, r)
           /\ d.kind \in {"journal", "book"} => FirstMatch(d, r) \/ SecondMatch(d, r)
<1>1. r.kind = d.kind
  BY DEF SameRecord
<1>2. CASE d.kind \in {"contributor", "named contributor", "concept", "document type", "issue"}
  <2>1. r.ids \cap d.ids # {}
    BY <1>1, <1>2 DEF SameRecord, WellKeyed
  <2>2. (\E key \in r.ids : r.ids = {key}) /\ (\E key \in d.ids : d.ids = {key})
    BY <1>1, <1>2 DEF WellKeyed
  <2>3. r.ids = d.ids
    BY <2>1, <2>2
  <2>. QED
    BY <1>1, <1>2, <2>3 DEF FirstMatch, ContributorMatch, ConceptMatch, DocumentTypeMatch,
       IssueMatch
<1>3. CASE d.kind \in {"label", "organization"}
  <2>1. r.name = d.name
    BY <1>1, <1>3 DEF SameRecord, WellKeyed
  <2>. QED
    BY <1>1, <1>3, <2>1 DEF FirstMatch, ConceptMatch, OrganizationMatch
<1>4. CASE d.kind = "journal"
  BY <1>1, <1>4 DEF SameRecord, FirstMatch, JournalMatch, SecondMatch
<1>5. CASE d.kind = "book"
  BY <1>1, <1>5 DEF SameRecord, WellKeyed, FirstMatch, BookMatch, SecondMatch
<1>. QED
  BY <1>2, <1>3, <1>4, <1>5 DEF WellKeyed, Kinds

\* The current demand has the keys of its kind.
LEMMA DemandIs ==
    ASSUME Shape, NEW t \in Conversions, at[t] \in Demanding
    PROVE  IsDemand(Demand(t)) /\ WellKeyed(Demand(t))
<1>1. Demand(t) = todo[t][1] /\ 1 \in DOMAIN todo[t]
  BY SequenceIs DEF Shape, TodoShape, Demand
<1>. QED
  BY <1>1 DEF Shape, TodoShape, IsDemand

\* A row that is not committed is that of another conversion that runs.
LEMMA UnseenRaced ==
    ASSUME Shape, Overlap, NEW t \in Running, at[t] # "committing",
           NEW i \in DOMAIN rows, i \notin Committed
    PROVE  rows[i].by \in beside[t]
<1>1. ~rows[i].committed
  BY DEF Committed
<1>2. rows[i].by \in Conversions /\ at[rows[i].by] = "committing"
  BY <1>1 DEF Shape, RowsShape
<1>3. rows[i].by \in Running /\ rows[i].by # t
  BY <1>2 DEF Running
<1>. QED
  BY <1>3 DEF Overlap

\* A row appears when a conversion inserts it, with the keys of its demand.
LEMMA NewRowIs ==
    ASSUME Shape, NEW t \in Conversions, Begin(t) \/ Convert(t),
           NEW i \in DOMAIN rows' \ DOMAIN rows
    PROVE  /\ Insert(t) /\ at[t] = "inserting" /\ at'[t] = "committing"
           /\ i = Len(rows) + 1 /\ DOMAIN rows' = DOMAIN rows \union {i}
           /\ rows'[i].by = t /\ ~rows'[i].committed
           /\ rows'[i].kind = Demand(t).kind /\ rows'[i].ids = Demand(t).ids
           /\ rows'[i].soft = Demand(t).soft /\ rows'[i].name = Demand(t).name
           /\ rows'[i].kind = "concept" /\ rows'[i].is.flag => HasAuthority(rows'[i].is.labels)
           /\ ~ \E k \in Committed : Violates(Demand(t), rows[k])
           /\ beside' = beside /\ todo' = todo /\ held' = held
           /\ \A k \in DOMAIN rows : rows'[k] = rows[k]
<1>1. DOMAIN rows' # DOMAIN rows /\ rows' # rows
  OBVIOUS
<1>2. Insert(t)
  BY <1>1, BeginFits, ReuseFits, LookInBulkFits, LookFits, LookAgainFits, SolveFits, MatchFits,
     CommitFits, IdentifyFits, RecordFits DEF Convert
<1>3. /\ at[t] = "inserting" /\ UNCHANGED <<todo, held, beside>>
      /\ at'[t] = "committing"
      /\ ~ \E k \in Committed : Violates(Demand(t), rows[k])
      /\ rows' = Append(rows, rows'[Len(rows) + 1])
  BY <1>1, <1>2, InsertFits
<1>4. LET r == rows'[Len(rows) + 1]
      IN  /\ r.kind = Demand(t).kind /\ r.ids = Demand(t).ids
          /\ r.soft = Demand(t).soft /\ r.name = Demand(t).name
          /\ r.by = t /\ ~r.committed
          /\ r.kind = "concept" /\ r.is.flag => HasAuthority(r.is.labels)
  BY <1>1, <1>2, InsertFits
<1>5. /\ DOMAIN rows' = DOMAIN rows \union {Len(rows) + 1}
      /\ \A k \in DOMAIN rows : rows'[k] = rows[k]
  <2>. DEFINE r == rows'[Len(rows) + 1]
  <2>1. rows' = Append(rows, r) /\ IsSequence(rows)
    BY <1>3 DEF Shape, RowsShape
  <2>. HIDE DEF r
  <2>. QED
    BY <2>1, AppendIs
<1>6. i = Len(rows) + 1
  BY <1>5
<1>. QED
  BY <1>2, <1>3, <1>4, <1>5, <1>6

\* How a conversion comes to ask an authority, look again or insert.
LEMMA SeekingIs ==
    ASSUME Shape, NEW t \in Conversions, Begin(t) \/ Convert(t)
    PROVE  /\ at'[t] = "looking again" =>
                /\ rows' = rows /\ todo' = todo
                /\ at[t] = "looking" /\ Found(Demand(t)) = {}
           /\ at'[t] \in {"solving", "matching", "inserting"} =>
                /\ rows' = rows /\ todo' = todo
                /\ \/ /\ at[t] = "looking" /\ Found(Demand(t)) = {}
                      /\ Demand(t).kind \notin {"journal", "book"}
                   \/ at[t] = "looking again" /\ FoundByName(Demand(t)) = {}
                   \/ at[t] \in {"solving", "matching"}
<1>1. CASE Begin(t)
  BY <1>1, BeginFits DEF Between
<1>2. CASE Reuse(t)
  BY <1>2, ReuseFits DEF NextDemandDone, Between
<1>3. CASE LookInBulk(t)
  BY <1>3, LookInBulkFits DEF HoldDone, NextDemandDone, Between
<1>4. CASE Look(t)
  BY <1>4, LookFits DEF HoldDone, NextDemandDone, Between
<1>5. CASE LookAgain(t)
  BY <1>5, LookAgainFits DEF HoldDone, NextDemandDone, Between
<1>6. CASE Solve(t)
  BY <1>6, SolveFits
<1>7. CASE Match(t)
  BY <1>7, MatchFits DEF HoldDone, NextDemandDone, Between
<1>8. CASE Insert(t)
  BY <1>8, InsertFits
<1>9. CASE Commit(t)
  BY <1>9, CommitFits DEF HoldDone, NextDemandDone, Between
<1>10. CASE Identify(t)
  BY <1>10, IdentifyFits DEF NextDemandDone, Between
<1>11. CASE Record(t)
  BY <1>11, RecordFits
<1>. QED
  BY <1>1, <1>2, <1>3, <1>4, <1>5, <1>6, <1>7, <1>8, <1>9, <1>10, <1>11 DEF Convert

\* What the conversion that takes a step has missed, it has missed by a race.
LEMMA OwnSought ==
    ASSUME Shape, Races, NEW t \in Conversions, Begin(t) \/ Convert(t)
    PROVE  Sought(t)'
<1>0. Begin(t) => at'[t] \in Between
  BY BeginFits
<1>1. ASSUME Convert(t), at'[t] = "looking again", NEW i \in DOMAIN rows',
             FirstMatch(Demand(t)', rows'[i])
      PROVE  rows'[i].by \in beside'[t]
  <2>1. /\ rows' = rows /\ Demand(t)' = Demand(t) /\ at[t] = "looking" /\ beside' = beside
        /\ Found(Demand(t)) = {} /\ t \in Running
    BY <1>1, SeekingIs, StepFits DEF Demand
  <2>2. i \in DOMAIN rows /\ i \notin Committed
    BY <1>1, <2>1 DEF Found
  <2>3. rows[i].by \in beside[t]
    BY <2>1, <2>2, UnseenRaced DEF Races
  <2>. QED
    BY <2>1, <2>3
<1>2. ASSUME Convert(t), at'[t] \in {"solving", "matching", "inserting"}, NEW i \in DOMAIN rows',
             SameRecord(rows'[i], Demand(t)')
      PROVE  rows'[i].by \in beside'[t]
  <2>1. /\ rows' = rows /\ Demand(t)' = Demand(t) /\ beside' = beside /\ t \in Running
        /\ \/ /\ at[t] = "looking" /\ Found(Demand(t)) = {}
              /\ Demand(t).kind \notin {"journal", "book"}
           \/ at[t] = "looking again" /\ FoundByName(Demand(t)) = {}
           \/ at[t] \in {"solving", "matching"}
    BY <1>2, SeekingIs, StepFits DEF Demand
  <2>2. i \in DOMAIN rows /\ SameRecord(rows[i], Demand(t))
    BY <1>2, <2>1
  <2>3. WellKeyed(rows[i]) /\ (at[t] \in {"looking", "looking again"} => WellKeyed(Demand(t)))
    BY <2>2, DemandIs DEF Shape, RowsShape, IsRow, Demanding, Places
  <2>4. i \notin Committed /\ at[t] \in {"looking", "looking again"} => rows[i].by \in beside[t]
    BY <2>1, <2>2, UnseenRaced DEF Races
  <2>5. CASE /\ at[t] = "looking" /\ Found(Demand(t)) = {}
             /\ Demand(t).kind \notin {"journal", "book"}
    <3>1. FirstMatch(Demand(t), rows[i])
      BY <2>2, <2>3, <2>5, LookupsCover
    <3>2. i \notin Committed
      BY <2>2, <2>5, <3>1 DEF Found
    <3>. QED
      BY <2>1, <2>4, <2>5, <3>2
  <2>6. CASE at[t] = "looking again" /\ FoundByName(Demand(t)) = {}
    <3>1. Demand(t).kind \in {"journal", "book"} /\ Sought(t)
      BY <2>6 DEF Shape, PlaceShape, Races
    <3>2. CASE FirstMatch(Demand(t), rows[i])
      BY <2>1, <2>2, <2>6, <3>1, <3>2 DEF Sought
    <3>3. CASE SecondMatch(Demand(t), rows[i])
      <4>1. i \notin Committed
        BY <2>2, <2>6, <3>3 DEF FoundByName
      <4>. QED
        BY <2>1, <2>4, <2>6, <4>1
    <3>. QED
      BY <2>2, <2>3, <2>6, <3>1, <3>2, <3>3, LookupsCover
  <2>7. CASE at[t] \in {"solving", "matching"}
    BY <2>1, <2>2, <2>7 DEF Races, Sought
  <2>. QED
    BY <2>1, <2>5, <2>6, <2>7
<1>. QED
  BY <1>0, <1>1, <1>2 DEF Sought, Between

\* A row that appears meanwhile is that of a conversion that runs too.
LEMMA OtherSought ==
    ASSUME Shape, Races, NEW t \in Conversions, Begin(t) \/ Convert(t),
           NEW u \in Conversions \ {t}
    PROVE  Sought(u)'
<1>1. /\ at'[u] = at[u] /\ todo'[u] = todo[u] /\ KeepsRows
      /\ \A v \in Conversions : beside[v] \subseteq beside'[v]
  BY StepFits, BeginOverlaps DEF Fits, OnlyMoves, Races
<1>2. Demand(u)' = Demand(u)
  BY <1>1 DEF Demand
<1>3. ASSUME NEW i \in DOMAIN rows' \ DOMAIN rows, u \in Running
      PROVE  rows'[i].by \in beside'[u]
  <2>1. rows'[i].by = t /\ at[t] = "inserting"
    BY NewRowIs
  <2>2. t \in Running
    BY <2>1 DEF Running
  <2>3. t \in beside[u]
    BY <1>3, <2>2 DEF Races, Overlap
  <2>. QED
    BY <1>1, <2>1, <2>3
<1>4. ASSUME NEW i \in DOMAIN rows
      PROVE  /\ rows'[i].by = rows[i].by
             /\ FirstMatch(Demand(u), rows'[i]) <=> FirstMatch(Demand(u), rows[i])
             /\ SameRecord(rows'[i], Demand(u)) <=> SameRecord(rows[i], Demand(u))
  BY <1>1, KeysStay DEF KeepsRows
<1>5. ASSUME at[u] = "looking again", NEW i \in DOMAIN rows', FirstMatch(Demand(u), rows'[i])
      PROVE  rows'[i].by \in beside'[u]
  <2>1. CASE i \in DOMAIN rows
    <3>1. rows[i].by \in beside[u]
      BY <1>4, <1>5, <2>1 DEF Races, Sought
    <3>. QED
      BY <1>1, <1>4, <2>1, <3>1
  <2>2. CASE i \notin DOMAIN rows
    BY <1>3, <1>5, <2>2 DEF Running
  <2>. QED
    BY <2>1, <2>2
<1>6. ASSUME at[u] \in {"solving", "matching", "inserting"}, NEW i \in DOMAIN rows',
             SameRecord(rows'[i], Demand(u))
      PROVE  rows'[i].by \in beside'[u]
  <2>1. CASE i \in DOMAIN rows
    <3>1. rows[i].by \in beside[u]
      BY <1>4, <1>6, <2>1 DEF Races, Sought
    <3>. QED
      BY <1>1, <1>4, <2>1, <3>1
  <2>2. CASE i \notin DOMAIN rows
    BY <1>3, <1>6, <2>2 DEF Running
  <2>. QED
    BY <2>1, <2>2
<1>. QED
  BY <1>1, <1>2, <1>5, <1>6 DEF Sought

\* A second row for a record is inserted by a conversion that raced with the first.
LEMMA StepRaced ==
    ASSUME Shape, Races, NEW t \in Conversions, Begin(t) \/ Convert(t)
    PROVE  Raced'
<1>1. KeepsRows /\ \A v \in Conversions : beside[v] \subseteq beside'[v]
  BY StepFits, BeginOverlaps DEF Fits, Races
<1>2. SUFFICES ASSUME NEW i \in DOMAIN rows', NEW j \in DOMAIN rows', i < j,
                      SameRecord(rows'[i], rows'[j])
               PROVE  rows'[i].by \in Conversions /\ rows'[j].by \in beside'[rows'[i].by]
  BY DEF Raced
<1>3. CASE i \in DOMAIN rows /\ j \in DOMAIN rows
  <2>1. SameRecord(rows[i], rows[j])
    <3>1. SameRecord(rows[i], rows'[j])
      BY <1>1, <1>2, <1>3, KeysStay
    <3>. QED
      BY <1>1, <1>3, <3>1, KeysStay
  <2>2. rows[i].by \in Conversions /\ rows[j].by \in beside[rows[i].by]
    BY <1>2, <1>3, <2>1 DEF Races, Raced
  <2>3. rows'[i].by = rows[i].by /\ rows'[j].by = rows[j].by
    BY <1>1, <1>3 DEF KeepsRows
  <2>. QED
    BY <1>1, <2>2, <2>3
<1>4. CASE j \notin DOMAIN rows
  <2>1. /\ at[t] = "inserting" /\ rows'[j].by = t /\ beside' = beside
        /\ j = Len(rows) + 1 /\ DOMAIN rows' = DOMAIN rows \union {j}
        /\ rows'[j].kind = Demand(t).kind /\ rows'[j].ids = Demand(t).ids
        /\ rows'[j].soft = Demand(t).soft /\ rows'[j].name = Demand(t).name
        /\ \A k \in DOMAIN rows : rows'[k] = rows[k]
    <3>1. j \in DOMAIN rows' \ DOMAIN rows
      BY <1>4
    <3>2. /\ at[t] = "inserting" /\ rows'[j].by = t /\ beside' = beside
          /\ j = Len(rows) + 1 /\ DOMAIN rows' = DOMAIN rows \union {j}
      BY <3>1, NewRowIs
    <3>3. /\ rows'[j].kind = Demand(t).kind /\ rows'[j].ids = Demand(t).ids
          /\ rows'[j].soft = Demand(t).soft /\ rows'[j].name = Demand(t).name
      BY <3>1, NewRowIs, ZenonT(60)
    <3>4. \A k \in DOMAIN rows : rows'[k] = rows[k]
      BY <3>1, NewRowIs
    <3>. QED
      BY <3>2, <3>3, <3>4
  <2>2. i \in DOMAIN rows
    BY <1>2, <2>1, SequenceIs DEF Shape, RowsShape
  <2>3. SameRecord(rows[i], Demand(t))
    BY <1>2, <2>1, <2>2 DEF SameRecord
  <2>4. rows[i].by \in beside[t]
    BY <2>1, <2>2, <2>3 DEF Races, Sought
  <2>5. rows[i].by \in Conversions /\ t \in beside[rows[i].by]
    BY <2>4 DEF Shape, Races, Overlap
  <2>. QED
    BY <2>1, <2>2, <2>5
<1>5. CASE i \notin DOMAIN rows /\ j \in DOMAIN rows
  <2>1. i = Len(rows) + 1
    BY <1>5, NewRowIs
  <2>. QED
    BY <1>2, <1>5, <2>1, SequenceIs DEF Shape, RowsShape
<1>. QED
  BY <1>3, <1>4, <1>5

\* Every step keeps Races.
LEMMA NextRaces ==
    ASSUME Shape, Races, [Next]_vars
    PROVE  Races'
<1>1. ASSUME NEW t \in Conversions, Begin(t) \/ Convert(t)
      PROVE  Races'
  <2>1. Overlap'
    BY <1>1, BeginOverlaps, RunOverlaps DEF Races
  <2>2. \A u \in Conversions : Sought(u)'
    BY <1>1, OwnSought, OtherSought
  <2>. QED
    BY <1>1, <2>1, <2>2, StepRaced DEF Races
<1>2. ASSUME NEW j \in Jobs, Launch(j) \/ RunJob(j)
      PROVE  Races'
  <2>1. KeepsRows /\ DOMAIN rows' = DOMAIN rows /\ UNCHANGED <<todo, at, beside>>
    BY <1>2, JobFits
  <2>2. Overlap'
    BY <2>1 DEF Races, Overlap, Running
  <2>3. ASSUME NEW u \in Conversions
        PROVE  Sought(u)'
    <3>1. Demand(u)' = Demand(u)
      BY <2>1 DEF Demand
    <3>2. \A i \in DOMAIN rows :
            /\ rows'[i].by = rows[i].by
            /\ FirstMatch(Demand(u), rows'[i]) <=> FirstMatch(Demand(u), rows[i])
            /\ SameRecord(rows'[i], Demand(u)) <=> SameRecord(rows[i], Demand(u))
      BY <2>1, KeysStay DEF KeepsRows
    <3>. QED
      BY <2>1, <3>1, <3>2 DEF Races, Sought
  <2>4. ASSUME NEW i \in DOMAIN rows', NEW k \in DOMAIN rows', i < k,
               SameRecord(rows'[i], rows'[k])
        PROVE  rows'[i].by \in Conversions /\ rows'[k].by \in beside'[rows'[i].by]
    <3>1. SameRecord(rows[i], rows'[k])
      BY <2>1, <2>4, KeysStay
    <3>2. SameRecord(rows[i], rows[k])
      BY <2>1, <3>1, KeysStay
    <3>3. rows'[i].by = rows[i].by /\ rows'[k].by = rows[k].by
      BY <2>1 DEF KeepsRows
    <3>. QED
      BY <2>1, <2>4, <3>2, <3>3 DEF Races, Raced
  <2>. QED
    BY <2>2, <2>3, <2>4 DEF Races, Raced
<1>3. CASE UNCHANGED vars
  BY <1>3 DEF vars, demanding, history, Races, Overlap, Raced, Sought, Running, Demand
<1>. QED
  BY <1>1, <1>2, <1>3 DEF Next

\* At the start nothing overlaps and no two rows are the same record.
LEMMA InitRaces ==
    ASSUME Init
    PROVE  Races
<1>1. PICK s \in Starts : rows = s.rows
  BY DEF Init
<1>2. \A t \in Conversions : at[t] = "waiting" /\ beside[t] = {}
  BY DEF Init
<1>3. ASSUME NEW i \in DOMAIN rows, NEW j \in DOMAIN rows, i < j, SameRecord(rows[i], rows[j])
      PROVE  FALSE
  <2>1. i = j
    BY <1>1, <1>3, StartsAssumption
  <2>2. i \in Nat
    BY <1>1, StartsAssumption, SequenceIs
  <2>. QED
    BY <1>3, <2>1, <2>2
<1>. QED
  BY <1>2, <1>3 DEF Races, Overlap, Raced, Sought, Running

(* Two rows for one record are left by two conversions that overlapped, in *)
(* every reachable state: the lookups cover every key that makes two       *)
(* records the same.                                                       *)
THEOREM DuplicatesRaced == Spec => []DuplicatesWereRaced
<1>1. Init => Shape /\ Races
  BY InitShape, InitRaces
<1>2. Shape /\ Races /\ [Next]_vars => (Shape /\ Races)'
  BY NextShape, NextRaces
<1>3. Shape /\ Races => DuplicatesWereRaced
  BY DEF Races, Raced, DuplicatesWereRaced, Committed
<1>. QED
  BY <1>1, <1>2, <1>3, PTL DEF Spec

-----------------------------------------------------------------------------
(* Why conversions fail                                                    *)

\* What rejects an INSERT is found by the first lookup.
LEMMA RejectedIsFound ==
    ASSUME NEW d, NEW r, WellKeyed(d), WellKeyed(r), Violates(d, r)
    PROVE  FirstMatch(d, r) /\ SameRecord(r, d)
<1>1. r.kind = d.kind /\ r.ids \cap d.ids # {}
  BY DEF Violates
<1>2. SameRecord(r, d)
  BY <1>1 DEF SameRecord
<1>3. CASE d.kind \notin {"journal", "book"}
  BY <1>2, <1>3, LookupsCover
<1>4. CASE d.kind \in {"journal", "book"}
  BY <1>1, <1>2, <1>4 DEF FirstMatch, JournalMatch, BookMatch
<1>. QED
  BY <1>2, <1>3, <1>4

\* A set of more than one element has two.
LEMMA TwoOfMany ==
    ASSUME NEW S, Cardinality(S) > 1
    PROVE  \E a, b \in S : a # b
<1>1. Cardinality({}) = 0 /\ \A a : Cardinality({a}) = 1
  BY FS_EmptySet, FS_Singleton
<1>2. S # {} /\ \A a : S # {a}
  BY <1>1
<1>. QED
  BY <1>2

\* A concept that has been completed can be completed again, but for JEL.
LEMMA CompletedAgain ==
    ASSUME NEW source, NEW known, Completion(source, known) = "completed"
    PROVE  Completion(source, Known(source, known)) \in {"completed", "DereferencingError"}
<1>1. source \in {"JEL", "WIKIDATA", "IDREF", "ABES"}
  BY DEF Completion
<1>2. CASE source = "JEL"
  BY <1>2 DEF Completion, JelCompletion
<1>3. CASE source = "WIKIDATA"
  BY <1>3 DEF Completion, WikidataCompletion
<1>4. CASE source = "IDREF"
  <2>1. Known(source, known) = {"code", "uri"}
    BY <1>4 DEF Known
  <2>. QED
    BY <1>4, <2>1 DEF Completion, IdRefCompletion
<1>5. CASE source = "ABES"
  <2>1. Known(source, known) = known
    BY <1>5 DEF Known
  <2>. QED
    BY <2>1
<1>. QED
  BY <1>1, <1>2, <1>3, <1>4, <1>5

\* A row that rejects an INSERT was inserted by an overlapping conversion.
LEMMA RejectionIs ==
    ASSUME Shape, Races, NEW t \in Conversions, at[t] = "inserting", NEW i \in Committed,
           Violates(Demand(t), rows[i])
    PROVE  i \in Found(Demand(t)) /\ beside[t] # {}
<1>1. i \in DOMAIN rows /\ WellKeyed(rows[i]) /\ WellKeyed(Demand(t))
  BY DemandIs DEF Committed, Shape, RowsShape, IsRow, Demanding, Places
<1>2. FirstMatch(Demand(t), rows[i]) /\ SameRecord(rows[i], Demand(t))
  BY <1>1, RejectedIsFound
<1>. QED
  BY <1>1, <1>2 DEF Found, Races, Sought

(* What is not a new attempt, or is one at a record that lacks a value,    *)
(* stays so; and the next demand is none.                                  *)
LEMMA RetriesStay ==
    ASSUME NEW t \in Conversions, Retries(t),
           \/ retried'[t] = FALSE
           \/ /\ todo'[t] = todo[t] /\ retried'[t] = retried[t]
              /\ \/ at'[t] \in {"identifying", "failed"}
                 \/ ~(retried[t] /\ ~Lacks(Demand(t)))
    PROVE  Retries(t)'
<1>1. CASE retried'[t] = FALSE
  BY <1>1 DEF Retries
<1>2. CASE todo'[t] = todo[t] /\ retried'[t] = retried[t]
  <2>1. Demand(t)' = Demand(t) /\ retried'[t] \in BOOLEAN
    BY <1>2 DEF Demand, Retries
  <2>2. CASE at'[t] \in {"identifying", "failed"}
    BY <2>1, <2>2 DEF Retries
  <2>3. CASE ~(retried[t] /\ ~Lacks(Demand(t)))
    <3>1. ~(retried'[t] /\ ~Lacks(Demand(t)'))
      BY <1>2, <2>1, <2>3
    <3>2. Lacks(Demand(t))' = Lacks(Demand(t)')
      BY DEF Lacks
    <3>. QED
      BY <2>1, <3>1, <3>2 DEF Retries
  <2>. QED
    BY <1>1, <1>2, <2>2, <2>3
<1>. QED
  BY <1>1, <1>2

\* A conversion that holds one more object has found what it sought.
LEMMA HoldingEndsRetries ==
    ASSUME NEW t \in Conversions, Retries(t), NEW i, NEW x, HoldDone(t, i, x)
    PROVE  Retries(t)'
<1>1. \/ retried'[t] = FALSE
      \/ todo'[t] = todo[t] /\ retried'[t] = retried[t] /\ at'[t] = "identifying"
  BY DEF HoldDone, NextDemandDone, demanding
<1>. QED
  BY <1>1, RetriesStay

(* A conversion retries only what the next lookup finds, or what lacks a   *)
(* value.                                                                  *)
LEMMA OwnRetries ==
    ASSUME Shape, Races, NEW t \in Conversions, Retries(t), Begin(t) \/ Convert(t)
    PROVE  Retries(t)'
<1>0. at[t] \notin {"looking", "identifying", "failed"} => ~(retried[t] /\ ~Lacks(Demand(t)))
  BY DEF Retries
<1>1. CASE Begin(t)
  <2>1. at[t] = "waiting"
    BY <1>1 DEF Begin
  <2>. QED
    BY <1>0, <1>1, <2>1, BeginFits, RetriesStay
<1>2. CASE Reuse(t)
  BY <1>2, ReuseFits, RetriesStay DEF NextDemandDone
<1>3. CASE LookInBulk(t)
  BY <1>0, <1>3, LookInBulkFits, HoldingEndsRetries, RetriesStay
<1>4. CASE Look(t)
  <2>1. at[t] = "looking" /\ (retried[t] /\ ~Lacks(Demand(t)) => Found(Demand(t)) # {})
    BY <1>4 DEF Look, Retries
  <2>. QED
    BY <1>4, <2>1, LookFits, HoldingEndsRetries, RetriesStay
<1>5. CASE LookAgain(t)
  BY <1>0, <1>5, LookAgainFits, HoldingEndsRetries, RetriesStay
<1>6. CASE Solve(t)
  BY <1>0, <1>6, SolveFits, RetriesStay
<1>7. CASE Match(t)
  BY <1>0, <1>7, MatchFits, HoldingEndsRetries, RetriesStay
<1>8. CASE Insert(t)
  <2>1. at[t] = "inserting" /\ UNCHANGED <<todo, beside>>
    BY <1>8, InsertFits
  <2>2. CASE /\ at'[t] = "looking" /\ retried' = [retried EXCEPT ![t] = TRUE]
             /\ Lacks(Demand(t)) \/ \E i \in Committed : Violates(Demand(t), rows[i])
             /\ rows' = rows
    <3>1. Demand(t)' = Demand(t)
      BY <2>1 DEF Demand
    <3>2. ~Lacks(Demand(t)) => Found(Demand(t)) # {} /\ beside[t] # {}
      BY <2>1, <2>2, RejectionIs
    <3>3. Found(Demand(t))' = Found(Demand(t)) /\ Lacks(Demand(t))' = Lacks(Demand(t))
      BY <2>1, <2>2 DEF Found, Committed, Demand, Lacks
    <3>4. retried'[t] = TRUE
      BY <2>2 DEF Shape
    <3>. QED
      BY <2>1, <2>2, <3>2, <3>3, <3>4 DEF Retries
  <2>3. CASE at'[t] \in {"committing", "failed"} /\ retried' = retried
    BY <1>0, <2>1, <2>3, RetriesStay
  <2>. QED
    BY <1>8, <2>2, <2>3, InsertFits
<1>9. CASE Commit(t)
  BY <1>9, CommitFits, HoldingEndsRetries
<1>10. CASE Identify(t)
  BY <1>10, IdentifyFits, RetriesStay DEF NextDemandDone
<1>11. CASE Record(t)
  BY <1>0, <1>11, RecordFits, RetriesStay
<1>. QED
  BY <1>1, <1>2, <1>3, <1>4, <1>5, <1>6, <1>7, <1>8, <1>9, <1>10, <1>11 DEF Convert

\* What a conversion knows of its concept when it completes it again.
LEMMA OwnCompletions ==
    ASSUME Shape, Races, NEW t \in Conversions, Completions(t), Begin(t) \/ Convert(t)
    PROVE  Completions(t)'
<1>1. CASE Begin(t)
  BY <1>1, BeginFits DEF Completions, Begin, Between
<1>2. CASE Reuse(t)
  BY <1>2, ReuseFits DEF Completions, NextDemandDone, Between
<1>3. CASE LookInBulk(t)
  BY <1>3, LookInBulkFits DEF Completions, HoldDone, NextDemandDone, Between
<1>4. CASE Look(t)
  <2>1. CASE /\ at'[t] \in {"looking again", "solving", "inserting"} /\ todo' = todo
             /\ Demand(t).kind = "concept" =>
                  /\ looked'[t] = Known(Demand(t).says.source, KnownBefore(t))
                  /\ Completion(Demand(t).says.source, KnownBefore(t)) = "completed"
    <3>1. Demand(t)' = Demand(t)
      BY <2>1 DEF Demand
    <3>2. Demand(t).kind = "concept" =>
            Completion(Demand(t).says.source, looked'[t]) \in {"completed", "DereferencingError"}
      BY <2>1, CompletedAgain
    <3>. QED
      BY <2>1, <3>1, <3>2 DEF Completions
  <2>2. CASE at'[t] = "failed"
    BY <2>2 DEF Completions
  <2>3. CASE \E i \in Found(Demand(t)) : HoldDone(t, i, rows[i].is)
    BY <2>3 DEF Completions, HoldDone, NextDemandDone, Between
  <2>. QED
    BY <1>4, <2>1, <2>2, <2>3, LookFits
<1>5. CASE LookAgain(t)
  <2>1. CASE at'[t] = "inserting" /\ todo' = todo
    <3>1. Demand(t)' = Demand(t) /\ Demand(t).kind \in {"journal", "book"}
      BY <1>5, <2>1 DEF Demand, LookAgain, Shape, PlaceShape
    <3>. QED
      BY <2>1, <3>1 DEF Completions
  <2>2. CASE at'[t] = "failed"
    BY <2>2 DEF Completions
  <2>3. CASE \E i \in FoundByName(Demand(t)) : HoldDone(t, i, rows[i].is)
    BY <2>3 DEF Completions, HoldDone, NextDemandDone, Between
  <2>. QED
    BY <1>5, <2>1, <2>2, <2>3, LookAgainFits
<1>6. CASE Solve(t)
  <2>1. /\ at[t] = "solving" /\ at'[t] \in {"failed", "matching", "inserting"}
        /\ todo' = todo /\ looked' = looked
    BY <1>6, SolveFits
  <2>2. Demand(t)' = Demand(t)
    BY <2>1 DEF Demand
  <2>. QED
    BY <2>1, <2>2 DEF Completions
<1>7. CASE Match(t)
  <2>1. CASE at'[t] = "inserting" /\ todo' = todo
    <3>1. Demand(t)' = Demand(t) /\ Demand(t).kind = "organization"
      BY <1>7, <2>1, MatchFits DEF Demand
    <3>. QED
      BY <2>1, <3>1 DEF Completions
  <2>2. CASE \E i \in Committed : \E x : HoldDone(t, i, x)
    BY <2>2 DEF Completions, HoldDone, NextDemandDone, Between
  <2>. QED
    BY <1>7, <2>1, <2>2, MatchFits
<1>8. CASE Insert(t)
  <2>1. at[t] = "inserting" /\ UNCHANGED <<todo, looked, beside>>
    BY <1>8, InsertFits
  <2>2. Demand(t)' = Demand(t)
    BY <2>1 DEF Demand
  <2>3. CASE /\ at'[t] = "looking"
             /\ Lacks(Demand(t)) \/ \E i \in Committed : Violates(Demand(t), rows[i])
    <3>1. Demand(t).kind = "concept" => beside[t] # {}
      BY <2>1, <2>3, RejectionIs DEF Lacks
    <3>. QED
      BY <2>1, <2>2, <2>3, <3>1 DEF Completions
  <2>4. CASE at'[t] \in {"failed", "committing"}
    BY <2>4 DEF Completions
  <2>. QED
    BY <1>8, <2>3, <2>4, InsertFits
<1>9. CASE Commit(t)
  BY <1>9, CommitFits DEF Completions, HoldDone, NextDemandDone, Between
<1>10. CASE Identify(t)
  BY <1>10, IdentifyFits DEF Completions, NextDemandDone, Between
<1>11. CASE Record(t)
  BY <1>11, RecordFits DEF Completions
<1>. QED
  BY <1>1, <1>2, <1>3, <1>4, <1>5, <1>6, <1>7, <1>8, <1>9, <1>10, <1>11 DEF Convert

\* The reasons there are for a conversion to fail now.
LEMMA FailsFor ==
    ASSUME Shape, Races, NEW t \in Conversions, Retries(t), Completions(t),
           Begin(t) \/ Convert(t)
    PROVE  \/ why'[t] = why[t]
           \/ /\ at'[t] = "failed" /\ UNCHANGED <<todo, rows, held, beside>>
              /\ \/ why'[t] = "DereferencingError" /\ beside[t] # {}
                 \/ why'[t] = "MultipleResultsFound" /\ \E u \in Conversions : beside[u] # {}
                 \/ why'[t] = "InvalidRequestError" /\ Demand(t).kind = "issue" /\ beside[t] # {}
                 \/ why'[t] = "AssertionError" /\ Lacks(Demand(t))
                 \/ /\ why'[t] = "IntegrityError"
                    /\ \E o \in Range(held[t]) : /\ rows[o.row].kind = "contributor"
                                                 /\ o.says.name = None
                 \/ why'[t] \in {"ExternalEndpointFailure", "LookupError"}
<1>1. CASE Look(t)
  <2>1. CASE /\ Demand(t).kind = "concept" /\ at[t] = "looking" /\ at'[t] = "failed"
             /\ why'[t] = Completion(Demand(t).says.source, KnownBefore(t))
             /\ why'[t] # "completed"
             /\ UNCHANGED <<todo, rows, held, beside>>
    <3>1. IsDemand(Demand(t))
      BY <2>1, DemandIs DEF Demanding, Places
    <3>2. looked[t] # {} /\ KnownBefore(t) = looked[t]
      BY <2>1, <3>1 DEF KnownBefore, IsDemand
    <3>. QED
      BY <2>1, <3>2 DEF Completions
  <2>2. CASE why' = why
    BY <2>2
  <2>3. CASE /\ at'[t] = "failed" /\ JournalIsTaken(t) /\ why'[t] = "InvalidRequestError"
             /\ at[t] = "looking" /\ UNCHANGED <<todo, rows, held, beside>>
    <3>1. Demand(t).kind = "issue" /\ retried[t] /\ ~Lacks(Demand(t))
      BY <2>3 DEF JournalIsTaken, Lacks
    <3>2. beside[t] # {}
      BY <2>3, <3>1 DEF Retries
    <3>. QED
      BY <2>3, <3>1, <3>2
  <2>. QED
    BY <1>1, <2>1, <2>2, <2>3, LookFits DEF HoldDone
<1>2. CASE LookAgain(t)
  <2>1. CASE /\ why'[t] = "MultipleResultsFound" /\ at'[t] = "failed"
             /\ Cardinality(FoundByName(Demand(t))) > 1
             /\ UNCHANGED <<todo, rows, held, beside>>
    <3>1. PICK i, j \in FoundByName(Demand(t)) : i # j
      BY <2>1, TwoOfMany
    <3>2. /\ i \in DOMAIN rows /\ j \in DOMAIN rows
          /\ SecondMatch(Demand(t), rows[i]) /\ SecondMatch(Demand(t), rows[j])
      BY <3>1 DEF FoundByName, Committed
    <3>3. SameRecord(rows[i], rows[j]) /\ SameRecord(rows[j], rows[i])
      BY <3>2 DEF SecondMatch, SameRecord
    <3>4. i < j \/ j < i
      BY <3>1, <3>2, SequenceIs DEF Shape, RowsShape
    <3>. QED
      BY <2>1, <3>2, <3>3, <3>4 DEF Races, Raced
  <2>2. CASE why' = why
    BY <2>2
  <2>. QED
    BY <1>2, <2>1, <2>2, LookAgainFits DEF HoldDone
<1>3. CASE Solve(t)
  BY <1>3, SolveFits
<1>4. CASE Insert(t)
  <2>1. at[t] = "inserting" /\ UNCHANGED <<todo, held, beside>>
    BY <1>4, InsertFits
  <2>2. retried[t] => Lacks(Demand(t))
    BY <2>1 DEF Retries
  <2>3. \/ why' = why
        \/ /\ at'[t] = "failed" /\ retried[t] /\ why'[t] = "AssertionError" /\ rows' = rows
    BY <1>4, InsertFits
  <2>. QED
    BY <2>1, <2>2, <2>3
<1>5. CASE Record(t)
  <2>1. CASE at'[t] = "failed"
    <3>1. /\ why'[t] = "IntegrityError" /\ LosesAName(t)
          /\ UNCHANGED <<todo, rows, held, beside>>
      BY <1>5, <2>1, RecordFits
    <3>2. PICK o \in Range(held[t]) : rows[o.row].kind = "contributor" /\ o.is.name = None
      BY <3>1 DEF LosesAName
    <3>3. ObjectShape(o)
      BY <3>2 DEF Range, Shape, HeldShape
    <3>4. o.says.name = None
      BY <3>2, <3>3 DEF ObjectShape
    <3>. QED
      BY <2>1, <3>1, <3>2, <3>4
  <2>. QED
    BY <1>5, <2>1, RecordFits
<1>6. CASE Begin(t) \/ Reuse(t) \/ LookInBulk(t) \/ Match(t) \/ Commit(t) \/ Identify(t)
  BY <1>6, BeginFits, ReuseFits, LookInBulkFits, MatchFits, CommitFits, IdentifyFits DEF HoldDone
<1>. QED
  BY <1>1, <1>2, <1>3, <1>4, <1>5, <1>6 DEF Convert

(* A reason why a conversion has failed stays one, since it does nothing   *)
(* more and the others leave its demands and the kinds of the rows alone.  *)
LEMMA ReasonStays ==
    ASSUME NEW u \in Conversions, Shape, Reason(u), why'[u] = why[u], KeepsRows,
           why[u] # "nothing" => todo'[u] = todo[u] /\ held'[u] = held[u],
           \A v \in Conversions : beside[v] \subseteq beside'[v]
    PROVE  Reason(u)'
<1>1. CASE why[u] = "nothing"
  BY <1>1 DEF Reason
<1>2. CASE why[u] # "nothing"
  <2>1. Demand(u)' = Demand(u) /\ held'[u] = held[u]
    BY <1>2 DEF Demand
  <2>2. Lacks(Demand(u))' = Lacks(Demand(u)')
    BY DEF Lacks
  <2>3. ASSUME NEW o \in Range(held[u]), rows[o.row].kind = "contributor", o.says.name = None
        PROVE  o \in Range(held'[u]) /\ rows'[o.row].kind = "contributor"
    <3>1. o.row \in DOMAIN rows
      BY DEF Range, Shape, HeldShape, ObjectShape
    <3>. QED
      BY <2>1, <2>3, <3>1 DEF KeepsRows
  <2>4. (\E v \in Conversions : beside[v] # {}) => \E v \in Conversions : beside'[v] # {}
    OBVIOUS
  <2>5. beside[u] # {} => beside'[u] # {}
    OBVIOUS
  <2>6. why[u] = "IntegrityError" =>
          \E o \in Range(held'[u]) : rows'[o.row].kind = "contributor" /\ o.says.name = None
    BY <2>3 DEF Reason
  <2>. QED
    BY <2>1, <2>2, <2>4, <2>5, <2>6 DEF Reason
<1>. QED
  BY <1>1, <1>2

\* A conversion that has failed does nothing more.
LEMMA NotFailed ==
    ASSUME NEW t \in Conversions, Begin(t) \/ Convert(t)
    PROVE  at[t] # "failed"
<1>1. CASE Begin(t) \/ Reuse(t) \/ LookInBulk(t)
  BY <1>1 DEF Begin, Reuse, LookInBulk
<1>2. CASE Look(t) \/ LookAgain(t) \/ Solve(t)
  BY <1>2 DEF Look, LookAgain, Solve
<1>3. CASE Match(t) \/ Insert(t) \/ Commit(t)
  BY <1>3 DEF Match, Insert, Commit
<1>4. CASE Identify(t) \/ Record(t)
  BY <1>4 DEF Identify, Record
<1>. QED
  BY <1>1, <1>2, <1>3, <1>4 DEF Convert

\* Every step keeps what explains the failures.
LEMMA NextFailing ==
    ASSUME Shape, Races, Failing, Explained, [Next]_vars
    PROVE  Failing' /\ Explained'
<1>1. ASSUME NEW t \in Conversions, Begin(t) \/ Convert(t)
      PROVE  Failing' /\ Explained'
  <2>1. KeepsRows /\ OnlyMoves(t) /\ \A v \in Conversions : beside[v] \subseteq beside'[v]
    BY <1>1, StepFits, BeginOverlaps DEF Fits, Races
  <2>2. ASSUME NEW u \in Conversions \ {t}
        PROVE  Retries(u)' /\ Completions(u)'
    <3>1. /\ at'[u] = at[u] /\ todo'[u] = todo[u] /\ retried'[u] = retried[u]
          /\ looked'[u] = looked[u] /\ beside[u] \subseteq beside'[u]
      BY <2>1 DEF OnlyMoves
    <3>2. Demand(u)' = Demand(u)
      BY <3>1 DEF Demand
    <3>3. ASSUME Found(Demand(u)) # {}
          PROVE  Found(Demand(u))' # {}
      <4>1. PICK i \in DOMAIN rows : rows[i].committed /\ FirstMatch(Demand(u), rows[i])
        BY <3>3 DEF Found, Committed
      <4>2. /\ i \in DOMAIN rows' /\ rows'[i].committed
            /\ FirstMatch(Demand(u), rows'[i])
        BY <2>1, <4>1, KeysStay DEF KeepsRows
      <4>. QED
        BY <3>2, <4>2 DEF Found, Committed
    <3>4. Retries(u)'
      <4>1. Lacks(Demand(u))' = Lacks(Demand(u))
        BY <3>2 DEF Lacks
      <4>. QED
        BY <3>1, <3>3, <4>1 DEF Failing, Retries
    <3>5. Completions(u)'
      BY <3>1, <3>2 DEF Failing, Completions
    <3>. QED
      BY <3>4, <3>5
  <2>3. Retries(t)' /\ Completions(t)'
    BY <1>1, OwnRetries, OwnCompletions DEF Failing
  <2>4. Failing'
    BY <2>2, <2>3 DEF Failing
  <2>5. ASSUME NEW u \in Conversions
        PROVE  Reason(u)' /\ (why'[u] # "nothing" => at'[u] = "failed")
    <3>0. Reason(u) /\ (why[u] # "nothing" => at[u] = "failed")
      BY DEF Explained
    <3>1. CASE u # t
      <4>1. why'[u] = why[u] /\ at'[u] = at[u] /\ todo'[u] = todo[u] /\ held'[u] = held[u]
        BY <2>1, <3>1 DEF OnlyMoves
      <4>. QED
        BY <2>1, <3>0, <4>1, ReasonStays
    <3>2. CASE u = t /\ why'[u] = why[u]
      <4>1. at[t] # "failed"
        BY <1>1, NotFailed
      <4>2. why[u] = "nothing"
        BY <3>0, <3>2, <4>1
      <4>. QED
        BY <2>1, <3>0, <3>2, <4>2, ReasonStays
    <3>3. CASE u = t /\ why'[u] # why[u]
      <4>1. Retries(t) /\ Completions(t)
        BY DEF Failing
      <4>2. /\ at'[t] = "failed" /\ UNCHANGED <<todo, rows, held, beside>>
            /\ \/ why'[t] = "DereferencingError" /\ beside[t] # {}
               \/ why'[t] = "MultipleResultsFound" /\ \E v \in Conversions : beside[v] # {}
               \/ why'[t] = "InvalidRequestError" /\ Demand(t).kind = "issue" /\ beside[t] # {}
               \/ why'[t] = "AssertionError" /\ Lacks(Demand(t))
               \/ /\ why'[t] = "IntegrityError"
                  /\ \E o \in Range(held[t]) : /\ rows[o.row].kind = "contributor"
                                               /\ o.says.name = None
               \/ why'[t] \in {"ExternalEndpointFailure", "LookupError"}
        BY <1>1, <3>3, <4>1, FailsFor
      <4>3. Demand(t)' = Demand(t) /\ Lacks(Demand(t))' = Lacks(Demand(t))
        BY <4>2 DEF Demand, Lacks
      <4>4. Reason(t)'
        BY <4>2, <4>3 DEF Reason
      <4>. QED
        BY <3>3, <4>2, <4>4
    <3>. QED
      BY <3>1, <3>2, <3>3
  <2>. QED
    BY <2>4, <2>5 DEF Explained
<1>2. ASSUME NEW j \in Jobs, Launch(j) \/ RunJob(j)
      PROVE  Failing' /\ Explained'
  <2>1. /\ KeepsRows
        /\ UNCHANGED <<todo, retried, looked, made, at, held, why, beside, named>>
    BY <1>2, JobFits
  <2>2. Explained'
    <3>1. ASSUME NEW u \in Conversions
          PROVE  Reason(u)' /\ (why'[u] # "nothing" => at'[u] = "failed")
      BY <2>1, ReasonStays DEF Explained
    <3>. QED
      BY <3>1 DEF Explained
  <2>3. ASSUME NEW u \in Conversions
        PROVE  Retries(u)' /\ Completions(u)'
    <3>1. Demand(u)' = Demand(u)
      BY <2>1 DEF Demand
    <3>2. ASSUME Found(Demand(u)) # {}
          PROVE  Found(Demand(u))' # {}
      <4>1. PICK i \in DOMAIN rows : rows[i].committed /\ FirstMatch(Demand(u), rows[i])
        BY <3>2 DEF Found, Committed
      <4>2. /\ i \in DOMAIN rows' /\ rows'[i].committed
            /\ FirstMatch(Demand(u), rows'[i])
        BY <2>1, <4>1, KeysStay DEF KeepsRows
      <4>. QED
        BY <3>1, <4>2 DEF Found, Committed
    <3>. QED
      BY <2>1, <3>1, <3>2 DEF Failing, Retries, Completions
  <2>. QED
    BY <2>2, <2>3 DEF Failing
<1>3. CASE UNCHANGED vars
  BY <1>3 DEF vars, demanding, history, Failing, Explained, Reason, Retries, Completions, Found,
     Committed, Demand, Lacks
<1>. QED
  BY <1>1, <1>2, <1>3 DEF Next

\* Nothing has failed at the start.
LEMMA InitFailing ==
    ASSUME Init
    PROVE  Failing /\ Explained
BY DEF Init, Failing, Explained, Reason, Retries, Completions

(* Every conversion that fails has met a race, a failing authority or a    *)
(* missing value, in every reachable state.                                *)
THEOREM FailuresExplained == Spec => []FailuresAreExplained
<1>1. Init => Shape /\ Races /\ Failing /\ Explained
  BY InitShape, InitRaces, InitFailing
<1>2. Shape /\ Races /\ Failing /\ Explained /\ [Next]_vars
        => (Shape /\ Races /\ Failing /\ Explained)'
  BY NextShape, NextRaces, NextFailing
<1>3. Explained => FailuresAreExplained
  BY DEF Explained, Reason, FailuresAreExplained
<1>. QED
  BY <1>1, <1>2, <1>3, PTL DEF Spec

(* One retry is enough: an INSERT is rejected twice only for a value that  *)
(* is missing.                                                             *)
THEOREM RetriesFind == Spec => []RetryFinds
<1>1. FailuresAreExplained => RetryFinds
  BY DEF FailuresAreExplained, RetryFinds
<1>. QED
  BY <1>1, FailuresExplained, PTL

-----------------------------------------------------------------------------
(* What conversions hold, and what they write                              *)

\* One more object for row i, which the conversion did not hold if it is a contributor.
HoldsMore(t, i) ==
    \E o :
      /\ held'[t] = Append(held[t], o) /\ o.row = i /\ rows'[i].committed
      /\ rows[i].kind = "contributor" =>
           /\ Names(rows[i].is) \subseteq Names(o.is)
           /\ \A k \in DOMAIN held[t] : held[t][k].row # i
      /\ rows[i].kind = "concept" => o.is = rows[i].is

\* A row that HoldDone takes is held once more.
LEMMA HoldMore ==
    ASSUME Shape, NEW t \in Conversions, NEW i \in DOMAIN rows, NEW x, HoldDone(t, i, x),
           rows[i].kind = Demand(t).kind, rows'[i].committed,
           rows[i].kind \in {"contributor", "concept"} => x = rows[i].is,
           rows[i].kind = "contributor" => \A k \in DOMAIN held[t] : held[t][k].row # i
    PROVE  HoldsMore(t, i)
<1>1. PICK o :
        /\ held'[t] = Append(held[t], o) /\ o.row = i
        /\ Demand(t).kind = "contributor" => o.is = Renamed(x, Demand(t).says.name)
        /\ Demand(t).kind # "contributor" => o.is = x
  BY DEF HoldDone
<1>2. ASSUME rows[i].kind = "contributor"
      PROVE  Names(rows[i].is) \subseteq Names(o.is)
  <2>1. ContentFits("contributor", rows[i].is)
    BY <1>2 DEF Shape, RowsShape, IsRow
  <2>2. o.is = Renamed(rows[i].is, Demand(t).says.name)
    BY <1>1, <1>2
  <2>. QED
    BY <2>1, <2>2, RenamedIs
<1>3. rows[i].kind = "concept" => o.is = rows[i].is
  BY <1>1
<1>. QED
  BY <1>1, <1>2, <1>3 DEF HoldsMore

\* What a step of a conversion adds to the objects it holds.
LEMMA HeldIs ==
    ASSUME Shape, Holding, NEW t \in Conversions, Begin(t) \/ Convert(t)
    PROVE  held'[t] = held[t] \/ \E i \in DOMAIN rows : HoldsMore(t, i)
<1>1. CASE LookInBulk(t)
  <2>1. CASE held' = held
    BY <2>1
  <2>2. CASE \E i \in Found(Demand(t)) : HoldDone(t, i, rows[i].is)
    <3>1. PICK i \in Found(Demand(t)) : HoldDone(t, i, rows[i].is)
      BY <2>2
    <3>2. /\ i \in DOMAIN rows /\ rows[i].committed /\ rows[i].kind = Demand(t).kind
          /\ Demand(t).kind = "concept" /\ rows' = rows
      BY <1>1, <3>1, LookInBulkFits DEF Found, Committed, FirstMatch, Shape, PlaceShape
    <3>. QED
      BY <3>1, <3>2, HoldMore
  <2>. QED
    BY <1>1, <2>1, <2>2, LookInBulkFits
<1>2. CASE Look(t)
  <2>1. CASE held' = held
    BY <2>1
  <2>2. CASE \E i \in Found(Demand(t)) : HoldDone(t, i, rows[i].is)
    <3>1. PICK i \in Found(Demand(t)) : HoldDone(t, i, rows[i].is)
      BY <2>2
    <3>2. /\ i \in DOMAIN rows /\ rows[i].committed /\ rows[i].kind = Demand(t).kind
          /\ FirstMatch(Demand(t), rows[i]) /\ rows' = rows /\ ~Cached(t)
      BY <1>2, <3>1, LookFits DEF Found, Committed, FirstMatch
    <3>3. rows[i].kind = "contributor" => \A k \in DOMAIN held[t] : held[t][k].row # i
      BY <3>2 DEF Cached
    <3>. QED
      BY <3>1, <3>2, <3>3, HoldMore
  <2>. QED
    BY <1>2, <2>1, <2>2, LookFits
<1>3. CASE LookAgain(t)
  <2>1. CASE held' = held
    BY <2>1
  <2>2. CASE \E i \in FoundByName(Demand(t)) : HoldDone(t, i, rows[i].is)
    <3>1. PICK i \in FoundByName(Demand(t)) : HoldDone(t, i, rows[i].is)
      BY <2>2
    <3>2. /\ i \in DOMAIN rows /\ rows[i].committed /\ rows[i].kind = Demand(t).kind
          /\ rows[i].kind \in {"journal", "book"} /\ rows' = rows
      BY <1>3, <3>1, LookAgainFits DEF FoundByName, Committed, SecondMatch
    <3>. QED
      BY <3>1, <3>2, HoldMore
  <2>. QED
    BY <1>3, <2>1, <2>2, LookAgainFits
<1>4. CASE Match(t)
  <2>1. CASE held' = held
    BY <2>1
  <2>2. CASE \E i \in Committed : \E x : /\ rows[i].kind = "organization" /\ HoldDone(t, i, x)
    <3>1. PICK i, x : i \in Committed /\ rows[i].kind = "organization" /\ HoldDone(t, i, x)
      BY <2>2
    <3>2. /\ i \in DOMAIN rows /\ rows[i].committed /\ rows[i].kind = Demand(t).kind
          /\ rows'[i].committed
      BY <1>4, <3>1, MatchFits DEF Committed, Fits, KeepsRows
    <3>. QED
      BY <3>1, <3>2, HoldMore
  <2>. QED
    BY <1>4, <2>1, <2>2, MatchFits
<1>5. CASE Commit(t)
  <2>1. PICK i \in DOMAIN rows :
          /\ ~rows[i].committed /\ rows[i].by = t /\ HoldDone(t, i, rows[i].is)
          /\ rows[i].kind = Demand(t).kind
    BY <1>5, CommitFits
  <2>2. Shape' /\ i \in DOMAIN rows' /\ rows'[i].by = t
    BY <1>5, <2>1, CommitFits DEF Fits, KeepsRows
  <2>3. at'[t] # "committing"
    BY <2>1 DEF HoldDone, NextDemandDone, Between
  <2>4. rows'[i].committed
    BY <2>2, <2>3 DEF Shape, RowsShape
  <2>5. \A k \in DOMAIN held[t] : held[t][k].row # i
    BY <2>1 DEF Holding
  <2>. QED
    BY <2>1, <2>4, <2>5, HoldMore
<1>6. CASE Begin(t) \/ Reuse(t) \/ Solve(t) \/ Insert(t) \/ Identify(t) \/ Record(t)
  BY <1>6, BeginFits, ReuseFits, SolveFits, InsertFits, IdentifyFits, RecordFits
<1>. QED
  BY <1>1, <1>2, <1>3, <1>4, <1>5, <1>6 DEF Convert

\* Conversions only hold more, and overlap more: who is apart was apart before.
LEMMA HeldStays ==
    ASSUME Shape, Races, Holding, NEW t \in Conversions, Begin(t) \/ Convert(t)
    PROVE  /\ \A u \in Conversions : \A k \in DOMAIN held[u] :
                k \in DOMAIN held'[u] /\ held'[u][k] = held[u][k]
           /\ \A i : Apart(Holders(i))' => Apart(Holders(i))
<1>1. \A u \in Conversions : beside[u] \subseteq beside'[u]
  BY StepFits, BeginOverlaps DEF Races
<1>2. ASSUME NEW u \in Conversions, NEW k \in DOMAIN held[u]
      PROVE  k \in DOMAIN held'[u] /\ held'[u][k] = held[u][k]
  <2>1. CASE held'[u] = held[u]
    BY <2>1
  <2>2. CASE held'[u] # held[u]
    <3>1. u = t
      BY <2>2, StepFits DEF Fits, OnlyMoves
    <3>2. PICK o : held'[t] = Append(held[t], o)
      BY <2>2, <3>1, HeldIs DEF HoldsMore
    <3>. QED
      BY <3>1, <3>2, AppendIs DEF Shape, HeldShape
  <2>. QED
    BY <2>1, <2>2
<1>3. ASSUME NEW i
      PROVE  Holders(i) \subseteq Holders(i)'
  BY <1>2 DEF Holders
<1>4. ASSUME NEW i, Apart(Holders(i))'
      PROVE  Apart(Holders(i))
  <2>1. \A v \in Holders(i) : v \in Conversions
    BY DEF Holders
  <2>. QED
    BY <1>1, <1>3, <1>4, <2>1 DEF Apart
<1>. QED
  BY <1>2, <1>4

\* Every conversion but one that records leaves names and labels as they are.
LEMMA WritesIs ==
    ASSUME Shape, NEW t \in Conversions, Begin(t) \/ Convert(t), ~Record(t)
    PROVE  /\ named' = named
           /\ \A i \in DOMAIN rows :
                /\ rows[i].kind = "contributor" => Names(rows'[i].is) = Names(rows[i].is)
                /\ rows[i].kind = "concept" => rows'[i].is = rows[i].is
<1>1. CASE Begin(t)
  BY <1>1, BeginFits
<1>2. CASE Reuse(t)
  BY <1>2, ReuseFits
<1>3. CASE LookInBulk(t)
  BY <1>3, LookInBulkFits
<1>4. CASE Look(t)
  BY <1>4, LookFits
<1>5. CASE LookAgain(t)
  BY <1>5, LookAgainFits
<1>6. CASE Solve(t)
  BY <1>6, SolveFits
<1>7. CASE Match(t)
  <2>1. named' = named
    BY <1>7, MatchFits
  <2>2. ASSUME NEW i \in DOMAIN rows, rows[i].kind # "organization"
        PROVE  rows'[i] = rows[i]
    BY <1>7, <2>2, MatchFits
  <2>. QED
    BY <2>1, <2>2
<1>8. CASE Insert(t)
  <2>1. named' = named
    BY <1>8, InsertFits
  <2>2. ASSUME NEW i \in DOMAIN rows
        PROVE  rows'[i] = rows[i]
    <3>1. CASE rows' = rows
      BY <3>1
    <3>2. CASE rows' = Append(rows, rows'[Len(rows) + 1])
      BY <3>2, AppendIs DEF Shape, RowsShape
    <3>. QED
      BY <1>8, <3>1, <3>2, InsertFits
  <2>. QED
    BY <2>1, <2>2
<1>9. CASE Commit(t)
  <2>1. named' = named
    BY <1>9, CommitFits
  <2>2. ASSUME NEW i \in DOMAIN rows
        PROVE  rows'[i].is = rows[i].is
    BY <1>9, CommitFits
  <2>. QED
    BY <2>1, <2>2
<1>10. CASE Identify(t)
  <2>1. named' = named
    BY <1>10, IdentifyFits
  <2>2. PICK i \in DOMAIN rows :
          /\ rows[i].kind = "contributor"
          /\ rows'[i].is.name = rows[i].is.name
          /\ rows'[i].is.variants = rows[i].is.variants
          /\ \A k \in DOMAIN rows \ {i} : rows'[k] = rows[k]
    BY <1>10, IdentifyFits
  <2>. QED
    BY <2>1, <2>2 DEF Names
<1>. QED
  BY <1>1, <1>2, <1>3, <1>4, <1>5, <1>6, <1>7, <1>8, <1>9, <1>10 DEF Convert

\* A conversion that records a row nobody else could write has it to itself.
LEMMA RecordsAlone ==
    ASSUME Shape, Races, NEW t \in Running, NEW u \in Running, t # u, NEW i,
           t \in Holders(i), u \in Holders(i)
    PROVE  ~Apart(Holders(i))
BY DEF Races, Overlap, Apart

\* An object is held already, or it is the one that HoldsMore describes.
LEMMA ObjectIs ==
    ASSUME Shape, Holding, NEW t \in Conversions, Begin(t) \/ Convert(t),
           NEW u \in Conversions, NEW k \in DOMAIN held'[u]
    PROVE  LET o == held'[u][k]
           IN  \/ k \in DOMAIN held[u] /\ o = held[u][k]
               \/ /\ u = t /\ k \notin DOMAIN held[t]
                  /\ DOMAIN held'[t] = DOMAIN held[t] \union {k}
                  /\ o.row \in DOMAIN rows /\ rows'[o.row].committed
                  /\ rows[o.row].kind = "contributor" =>
                       /\ Names(rows[o.row].is) \subseteq Names(o.is)
                       /\ \A l \in DOMAIN held[t] : held[t][l].row # o.row
                  /\ rows[o.row].kind = "concept" => o.is = rows[o.row].is
<1>1. CASE held'[u] = held[u]
  BY <1>1
<1>2. CASE held'[u] # held[u]
  <2>1. u = t
    BY <1>2, StepFits DEF Fits, OnlyMoves
  <2>2. PICK i \in DOMAIN rows : HoldsMore(t, i)
    BY <1>2, <2>1, HeldIs
  <2>3. PICK o :
          /\ held'[t] = Append(held[t], o) /\ o.row = i /\ rows'[i].committed
          /\ rows[i].kind = "contributor" =>
               /\ Names(rows[i].is) \subseteq Names(o.is)
               /\ \A l \in DOMAIN held[t] : held[t][l].row # i
          /\ rows[i].kind = "concept" => o.is = rows[i].is
    BY <2>2 DEF HoldsMore
  <2>4. IsSequence(held[t])
    BY DEF Shape, HeldShape
  <2>5. /\ DOMAIN held'[t] = DOMAIN held[t] \union {Len(held[t]) + 1}
        /\ \A l \in DOMAIN held[t] : held'[t][l] = held[t][l]
        /\ held'[t][Len(held[t]) + 1] = o
    BY <2>3, <2>4, AppendIs
  <2>6. Len(held[t]) + 1 \notin DOMAIN held[t]
    BY <2>4, SequenceIs
  <2>7. CASE k \in DOMAIN held[t]
    BY <2>1, <2>5, <2>7
  <2>8. CASE k = Len(held[t]) + 1
    BY <2>1, <2>3, <2>5, <2>6, <2>8
  <2>. QED
    BY <2>1, <2>5, <2>7, <2>8
<1>. QED
  BY <1>1, <1>2

\* The rows that conversions hold are committed.
LEMMA NextHolding ==
    ASSUME Shape, Holding, [Next]_vars
    PROVE  Holding'
<1>1. ASSUME NEW t \in Conversions, Begin(t) \/ Convert(t), NEW u \in Conversions
      PROVE  /\ at'[u] = "waiting" => held'[u] = <<>>
             /\ \A k \in DOMAIN held'[u] : rows'[held'[u][k].row].committed
  <2>1. KeepsRows /\ OnlyMoves(t) /\ at'[t] # "waiting"
    BY <1>1, StepFits DEF Fits
  <2>2. at'[u] = "waiting" => held'[u] = <<>>
    BY <2>1 DEF OnlyMoves, Holding
  <2>3. ASSUME NEW k \in DOMAIN held'[u]
        PROVE  rows'[held'[u][k].row].committed
    <3>1. CASE k \in DOMAIN held[u] /\ held'[u][k] = held[u][k]
      <4>1. held[u][k].row \in DOMAIN rows /\ rows[held[u][k].row].committed
        BY <3>1 DEF Holding, Shape, HeldShape, ObjectShape
      <4>. QED
        BY <2>1, <3>1, <4>1 DEF KeepsRows
    <3>. QED
      BY <1>1, <3>1, ObjectIs
  <2>. QED
    BY <2>2, <2>3
<1>2. ASSUME NEW j \in Jobs, Launch(j) \/ RunJob(j)
      PROVE  Holding'
  <2>1. KeepsRows /\ at' = at /\ held' = held
    BY <1>2, JobFits
  <2>2. \A t \in Conversions : \A k \in DOMAIN held[t] : held[t][k].row \in DOMAIN rows
    BY DEF Shape, HeldShape, ObjectShape
  <2>. QED
    BY <2>1, <2>2 DEF Holding, KeepsRows
<1>3. CASE UNCHANGED vars
  BY <1>3 DEF vars, Holding
<1>. QED
  BY <1>1, <1>2, <1>3 DEF Next, Holding

\* The names that a step of a conversion leaves in rows and objects.
LEMMA StepNames ==
    ASSUME Shape, Races, Holding, NamesFlow, NEW t \in Conversions, Begin(t) \/ Convert(t)
    PROVE  NamesFlow'
<1>1. /\ KeepsRows /\ DOMAIN rows \subseteq DOMAIN rows'
      /\ \A i \in DOMAIN rows : rows'[i].kind = rows[i].kind
  BY StepFits DEF Fits, KeepsRows
<1>2. \A i : Apart(Holders(i))' => Apart(Holders(i))
  BY HeldStays
<1>3. \A u \in Conversions : \A k \in DOMAIN held[u] : held[u][k].row \in DOMAIN rows
  BY DEF Shape, HeldShape, ObjectShape
<1>4. ASSUME NEW u \in Conversions, NEW k \in DOMAIN held'[u], NEW l \in DOMAIN held'[u],
             held'[u][k].row = held'[u][l].row, rows'[held'[u][k].row].kind = "contributor"
      PROVE  k = l
  <2>. DEFINE a == held'[u][k]
              b == held'[u][l]
  <2>1. CASE k \in DOMAIN held[u] /\ a = held[u][k] /\ l \in DOMAIN held[u] /\ b = held[u][l]
    BY <1>1, <1>3, <1>4, <2>1 DEF NamesFlow
  <2>2. ASSUME k \notin DOMAIN held[u]
        PROVE  /\ u = t /\ DOMAIN held'[t] = DOMAIN held[t] \union {k}
               /\ \A m \in DOMAIN held[t] : held[t][m].row # a.row
    <3>1. /\ u = t /\ DOMAIN held'[t] = DOMAIN held[t] \union {k}
          /\ a.row \in DOMAIN rows
          /\ rows[a.row].kind = "contributor" =>
               \A m \in DOMAIN held[t] : held[t][m].row # a.row
      BY <2>2, ObjectIs
    <3>. QED
      BY <1>1, <1>4, <3>1
  <2>3. ASSUME l \notin DOMAIN held[u]
        PROVE  /\ u = t /\ DOMAIN held'[t] = DOMAIN held[t] \union {l}
               /\ \A m \in DOMAIN held[t] : held[t][m].row # b.row
    <3>1. /\ u = t /\ DOMAIN held'[t] = DOMAIN held[t] \union {l}
          /\ b.row \in DOMAIN rows
          /\ rows[b.row].kind = "contributor" =>
               \A m \in DOMAIN held[t] : held[t][m].row # b.row
      BY <2>3, ObjectIs
    <3>. QED
      BY <1>1, <1>4, <3>1
  <2>4. /\ k \in DOMAIN held[u] => a = held[u][k]
        /\ l \in DOMAIN held[u] => b = held[u][l]
    BY HeldStays
  <2>. QED
    BY <1>4, <2>1, <2>2, <2>3, <2>4
<1>5. ASSUME NEW u \in Running', NEW k \in DOMAIN held'[u], NEW i, i = held'[u][k].row,
             rows'[i].kind = "contributor", Apart(Holders(i))'
      PROVE  Names(rows'[i].is) \subseteq Names(held'[u][k].is)
  <2>. DEFINE o == held'[u][k]
  <2>1. u \in Conversions
    BY DEF Running
  <2>2. i \in DOMAIN rows /\ rows[i].kind = "contributor" /\ Apart(Holders(i))
    <3>1. i \in DOMAIN rows
      BY <1>3, <1>5, <2>1, ObjectIs
    <3>. QED
      BY <1>1, <1>2, <1>5, <3>1
  <2>3. Names(rows'[i].is) = Names(rows[i].is)
    <3>1. CASE ~Record(t)
      BY <2>2, <3>1, WritesIs
    <3>2. CASE Record(t)
      <4>1. /\ at[t] = "recording" /\ at'[t] \in {"recorded", "failed"} /\ held' = held
            /\ u # t /\ at'[u] = at[u]
        BY <2>1, <3>2, RecordFits DEF Running, Fits, OnlyMoves
      <4>2. t \in Running /\ u \in Running
        BY <2>1, <4>1 DEF Running
      <4>3. u \in Holders(i)
        BY <1>5, <2>1, <4>1 DEF Holders
      <4>4. t \notin Holders(i)
        BY <2>2, <4>1, <4>2, <4>3, RecordsAlone
      <4>5. \A l \in DOMAIN held[t] : held[t][l].row # i
        BY <4>4 DEF Holders
      <4>. QED
        BY <2>2, <3>2, <4>5, RecordFits DEF HeldLast
    <3>. QED
      BY <3>1, <3>2
  <2>4. CASE k \in DOMAIN held[u] /\ o = held[u][k]
    <3>1. u \in Running
      <4>1. held[u] # <<>>
        BY <2>4
      <4>2. at[u] # "waiting"
        BY <2>1, <4>1 DEF Holding
      <4>3. CASE u = t
        <5>1. Convert(t)
          BY <4>2, <4>3 DEF Begin
        <5>. QED
          BY <4>3, <5>1, StepFits
      <4>4. CASE u # t
        BY <2>1, <4>4, StepFits DEF Fits, OnlyMoves, Running
      <4>. QED
        BY <4>3, <4>4
    <3>. QED
      BY <1>5, <2>2, <2>3, <2>4, <3>1 DEF NamesFlow
  <2>5. CASE k \notin DOMAIN held[u]
    <3>1. rows[i].kind = "contributor" => Names(rows[i].is) \subseteq Names(o.is)
      BY <1>5, <2>1, <2>5, ObjectIs
    <3>. QED
      BY <2>2, <2>3, <3>1
  <2>6. k \in DOMAIN held[u] => o = held[u][k]
    BY <2>1, HeldStays
  <2>. QED
    BY <2>4, <2>5, <2>6
<1>6. ASSUME NEW n \in named'
      PROVE  /\ n[1] \in DOMAIN rows' /\ rows'[n[1]].kind = "contributor"
             /\ Apart(Holders(n[1]))' => n[2] \in Names(rows'[n[1]].is)
  <2>1. CASE ~Record(t)
    <3>1. n \in named
      BY <2>1, WritesIs
    <3>2. n[1] \in DOMAIN rows /\ rows[n[1]].kind = "contributor"
      BY <3>1 DEF NamesFlow
    <3>3. Names(rows'[n[1]].is) = Names(rows[n[1]].is)
      BY <2>1, <3>2, WritesIs
    <3>. QED
      BY <1>1, <1>2, <3>1, <3>2, <3>3 DEF NamesFlow
  <2>2. CASE Record(t)
    <3>1. at[t] = "recording" /\ held' = held /\ t \in Running
      BY <2>2, RecordFits DEF Running
    <3>2. CASE /\ at'[t] = "recorded"
               /\ \E k \in DOMAIN held[t] :
                    /\ rows[held[t][k].row].kind = "contributor"
                    /\ n = <<held[t][k].row, held[t][k].says.name>>
      <4>1. PICK k \in DOMAIN held[t] :
              /\ rows[held[t][k].row].kind = "contributor"
              /\ n = <<held[t][k].row, held[t][k].says.name>>
        BY <3>2
      <4>. DEFINE i == held[t][k].row
      <4>2. n[1] = i /\ n[2] = held[t][k].says.name /\ i \in DOMAIN rows
        BY <1>3, <4>1
      <4>3. PICK l \in DOMAIN held[t] :
              /\ HeldLast(t, i, l)
              /\ rows'[i].is = Overwritten(rows[i].kind, rows[i].is, held[t][l])
        BY <2>2, <3>2, <4>1, <4>2, RecordFits
      <4>4. l = k
        BY <4>1, <4>3 DEF NamesFlow, HeldLast
      <4>5. ObjectShape(held[t][k]) /\ IsRow(rows[i])
        BY <4>2 DEF Shape, HeldShape, RowsShape
      <4>6. held[t][k].is.name = held[t][k].says.name
        BY <4>1, <4>5 DEF ObjectShape
      <4>7. Names(rows'[i].is) = Names(held[t][k].is)
        <5>1. /\ ContentFits("contributor", rows[i].is)
              /\ ContentFits("contributor", held[t][k].is)
          BY <4>1, <4>5 DEF ObjectShape, IsRow
        <5>. QED
          BY <4>1, <4>3, <4>4, <5>1, OverwrittenIs
      <4>. QED
        BY <1>1, <4>1, <4>2, <4>6, <4>7 DEF Names
    <3>3. CASE n \in named
      <4>1. n[1] \in DOMAIN rows /\ rows[n[1]].kind = "contributor"
        BY <3>3 DEF NamesFlow
      <4>2. ASSUME Apart(Holders(n[1]))'
            PROVE  n[2] \in Names(rows'[n[1]].is)
        <5>1. n[2] \in Names(rows[n[1]].is) /\ Apart(Holders(n[1]))
          BY <1>2, <3>3, <4>2 DEF NamesFlow
        <5>2. CASE rows'[n[1]] = rows[n[1]]
          BY <5>1, <5>2
        <5>3. ASSUME NEW k \in DOMAIN held[t], HeldLast(t, n[1], k),
                     rows'[n[1]].is = Overwritten(rows[n[1]].kind, rows[n[1]].is, held[t][k])
              PROVE  n[2] \in Names(rows'[n[1]].is)
          <6>1. held[t][k].row = n[1]
            BY <5>3 DEF HeldLast
          <6>2. Names(rows[n[1]].is) \subseteq Names(held[t][k].is)
            BY <3>1, <4>1, <5>1, <6>1 DEF NamesFlow
          <6>3. /\ ContentFits("contributor", rows[n[1]].is)
                /\ ContentFits("contributor", held[t][k].is)
            BY <4>1, <6>1 DEF Shape, HeldShape, ObjectShape, RowsShape, IsRow
          <6>4. Names(rows'[n[1]].is) = Names(held[t][k].is)
            BY <4>1, <5>3, <6>3, OverwrittenIs
          <6>. QED
            BY <5>1, <6>2, <6>4
        <5>. QED
          BY <2>2, <4>1, <5>2, <5>3, RecordFits
      <4>. QED
        BY <1>1, <4>1, <4>2
    <3>. QED
      BY <2>2, <3>2, <3>3, RecordFits
  <2>. QED
    BY <2>1, <2>2
<1>7. \A u \in Running' : \A k \in DOMAIN held'[u] :
        rows'[held'[u][k].row].kind = "contributor" /\ Apart(Holders(held[u][k].row))' =>
          Names(rows'[held'[u][k].row].is) \subseteq Names(held'[u][k].is)
  BY <1>5 DEF Apart, Holders
<1>. QED
  BY <1>4, <1>6, <1>7 DEF NamesFlow

\* The flags and labels that a step of a conversion leaves in rows and objects.
LEMMA StepLabels ==
    ASSUME Shape, Races, Holding, LabelsFlow, NEW t \in Conversions, Begin(t) \/ Convert(t)
    PROVE  LabelsFlow'
<1>1. /\ KeepsRows /\ DOMAIN rows \subseteq DOMAIN rows'
      /\ \A i \in DOMAIN rows : rows'[i].kind = rows[i].kind
  BY StepFits DEF Fits, KeepsRows
<1>2. \A i : Apart(Holders(i))' => Apart(Holders(i))
  BY HeldStays
<1>3. \A u \in Conversions : \A k \in DOMAIN held[u] : held[u][k].row \in DOMAIN rows
  BY DEF Shape, HeldShape, ObjectShape
<1>4. ASSUME NEW i \in DOMAIN rows', rows'[i].kind = "concept", rows'[i].is.flag,
             Apart(Holders(i))'
      PROVE  HasAuthority(rows'[i].is.labels)
  <2>1. CASE i \notin DOMAIN rows
    BY <1>4, <2>1, NewRowIs
  <2>2. CASE i \in DOMAIN rows /\ rows'[i].is = rows[i].is
    BY <1>1, <1>2, <1>4, <2>2 DEF LabelsFlow
  <2>3. CASE i \in DOMAIN rows /\ ~Record(t)
    <3>1. rows'[i].is = rows[i].is
      BY <1>1, <1>4, <2>3, WritesIs
    <3>. QED
      BY <2>2, <2>3, <3>1
  <2>4. CASE i \in DOMAIN rows /\ Record(t)
    <3>1. t \in Running
      BY <2>4, RecordFits DEF Running
    <3>2. ASSUME NEW k \in DOMAIN held[t], HeldLast(t, i, k),
                 rows'[i].is = Overwritten(rows[i].kind, rows[i].is, held[t][k])
          PROVE  HasAuthority(rows'[i].is.labels)
      <4>1. held[t][k].row = i /\ rows[i].kind = "concept" /\ Apart(Holders(i))
        BY <1>1, <1>2, <1>4, <2>4, <3>2 DEF HeldLast
      <4>2. /\ ContentFits("concept", rows[i].is)
            /\ ContentFits("concept", held[t][k].is)
        BY <2>4, <4>1 DEF Shape, HeldShape, ObjectShape, RowsShape, IsRow
      <4>3. /\ rows'[i].is.flag = held[t][k].is.flag
            /\ rows'[i].is.labels = IF held[t][k].loaded THEN held[t][k].is.labels
                                    ELSE rows[i].is.labels
        BY <3>2, <4>1, <4>2, OverwrittenIs
      <4>4. held[t][k].is.flag
        BY <1>4, <4>3
      <4>5. HasAuthority(rows[i].is.labels) /\ HasAuthority(held[t][k].is.labels)
        BY <3>1, <4>1, <4>4 DEF LabelsFlow
      <4>. QED
        BY <4>3, <4>5
    <3>3. CASE rows'[i] = rows[i]
      BY <2>2, <2>4, <3>3
    <3>. QED
      BY <2>4, <3>2, <3>3, RecordFits
  <2>. QED
    BY <2>1, <2>3, <2>4
<1>5. ASSUME NEW u \in Running', NEW k \in DOMAIN held'[u], NEW i, i = held'[u][k].row,
             rows'[i].kind = "concept", Apart(Holders(i))', held'[u][k].is.flag
      PROVE  HasAuthority(rows'[i].is.labels) /\ HasAuthority(held'[u][k].is.labels)
  <2>. DEFINE o == held'[u][k]
  <2>1. u \in Conversions
    BY DEF Running
  <2>2. i \in DOMAIN rows /\ rows[i].kind = "concept" /\ Apart(Holders(i))
    <3>1. i \in DOMAIN rows
      BY <1>3, <1>5, <2>1, ObjectIs
    <3>. QED
      BY <1>1, <1>2, <1>5, <3>1
  <2>3. rows'[i].is = rows[i].is
    <3>1. CASE ~Record(t)
      BY <2>2, <3>1, WritesIs
    <3>2. CASE Record(t)
      <4>1. /\ at[t] = "recording" /\ at'[t] \in {"recorded", "failed"} /\ held' = held
            /\ u # t /\ at'[u] = at[u]
        BY <2>1, <3>2, RecordFits DEF Running, Fits, OnlyMoves
      <4>2. t \in Running /\ u \in Running
        BY <2>1, <4>1 DEF Running
      <4>3. u \in Holders(i)
        BY <1>5, <2>1, <4>1 DEF Holders
      <4>4. t \notin Holders(i)
        BY <2>2, <4>1, <4>2, <4>3, RecordsAlone
      <4>5. \A l \in DOMAIN held[t] : held[t][l].row # i
        BY <4>4 DEF Holders
      <4>. QED
        BY <2>2, <3>2, <4>5, RecordFits DEF HeldLast
    <3>. QED
      BY <3>1, <3>2
  <2>4. CASE k \in DOMAIN held[u] /\ o = held[u][k]
    <3>1. u \in Running
      <4>1. held[u] # <<>>
        BY <2>4
      <4>2. at[u] # "waiting"
        BY <2>1, <4>1 DEF Holding
      <4>3. CASE u = t
        <5>1. Convert(t)
          BY <4>2, <4>3 DEF Begin
        <5>. QED
          BY <4>3, <5>1, StepFits
      <4>4. CASE u # t
        BY <2>1, <4>4, StepFits DEF Fits, OnlyMoves, Running
      <4>. QED
        BY <4>3, <4>4
    <3>. QED
      BY <1>5, <2>2, <2>3, <2>4, <3>1 DEF LabelsFlow
  <2>5. CASE k \notin DOMAIN held[u]
    <3>1. rows[i].kind = "concept" => o.is = rows[i].is
      BY <1>5, <2>1, <2>5, ObjectIs
    <3>. QED
      BY <1>5, <2>2, <2>3, <3>1 DEF LabelsFlow
  <2>6. k \in DOMAIN held[u] => o = held[u][k]
    BY <2>1, HeldStays
  <2>. QED
    BY <2>4, <2>5, <2>6
<1>6. ASSUME NEW u \in Running', NEW k \in DOMAIN held'[u],
             rows'[held'[u][k].row].kind = "concept", Apart(Holders(held[u][k].row))',
             held'[u][k].is.flag
      PROVE  /\ HasAuthority(rows'[held'[u][k].row].is.labels)
             /\ HasAuthority(held'[u][k].is.labels)
  <2>1. PICK i : i = held'[u][k].row
    OBVIOUS
  <2>2. Apart(Holders(i))'
    BY <1>6, <2>1 DEF Apart, Holders
  <2>. QED
    BY <1>5, <1>6, <2>1, <2>2
<1>. QED
  BY <1>4, <1>6 DEF LabelsFlow

\* The job writes labels of the authority, and only into concepts.
LEMMA JobFlows ==
    ASSUME Shape, NamesFlow, LabelsFlow, NEW j \in Jobs, Launch(j) \/ RunJob(j)
    PROVE  NamesFlow' /\ LabelsFlow'
<1>1. /\ KeepsRows /\ DOMAIN rows' = DOMAIN rows /\ UNCHANGED <<at, held, beside, named>>
      /\ \A i \in DOMAIN rows : rows'[i].kind = rows[i].kind
  BY JobFits DEF KeepsRows
<1>2. ASSUME NEW i \in DOMAIN rows
      PROVE  \/ rows'[i] = rows[i]
             \/ rows[i].kind = "concept" /\ HasAuthority(rows'[i].is.labels)
  BY JobFits
<1>3. \A u \in Conversions : \A k \in DOMAIN held[u] : held[u][k].row \in DOMAIN rows
  BY DEF Shape, HeldShape, ObjectShape
<1>4. Running' = Running /\ Running \subseteq Conversions
  BY <1>1 DEF Running
<1>5. \A i : Apart(Holders(i))' <=> Apart(Holders(i))
  BY <1>1 DEF Apart, Holders
<1>6. NamesFlow'
  <2>0. \A u \in Conversions : \A k, l \in DOMAIN held[u] :
          held[u][k].row = held[u][l].row /\ rows[held[u][k].row].kind = "contributor" => k = l
    BY DEF NamesFlow
  <2>1. \A u \in Conversions : \A k, l \in DOMAIN held'[u] :
          held'[u][k].row = held'[u][l].row /\ rows'[held'[u][k].row].kind = "contributor" =>
            k = l
    <3>1. ASSUME NEW u \in Conversions, NEW k \in DOMAIN held'[u], NEW l \in DOMAIN held'[u],
                 held'[u][k].row = held'[u][l].row, rows'[held'[u][k].row].kind = "contributor"
          PROVE  k = l
      <4>1. held'[u] = held[u]
        BY <1>1
      <4>2. held[u][k].row = held[u][l].row /\ rows[held[u][k].row].kind = "contributor"
        BY <1>1, <1>3, <3>1, <4>1
      <4>. QED
        BY <2>0, <4>1, <4>2
    <3>. QED
      BY <3>1
  <2>2. ASSUME NEW u \in Running, NEW k \in DOMAIN held[u],
               rows'[held[u][k].row].kind = "contributor", Apart(Holders(held[u][k].row))
        PROVE  Names(rows'[held[u][k].row].is) \subseteq Names(held[u][k].is)
    <3>1. held[u][k].row \in DOMAIN rows /\ rows[held[u][k].row].kind = "contributor"
      BY <1>1, <1>3, <1>4, <2>2
    <3>2. rows'[held[u][k].row] = rows[held[u][k].row]
      BY <1>2, <3>1
    <3>. QED
      BY <2>2, <3>1, <3>2 DEF NamesFlow
  <2>3. \A n \in named :
          /\ n[1] \in DOMAIN rows /\ rows'[n[1]].kind = "contributor"
          /\ Apart(Holders(n[1])) => n[2] \in Names(rows'[n[1]].is)
    BY <1>1, <1>2 DEF NamesFlow
  <2>4. \A u \in Running' : \A k \in DOMAIN held'[u] :
          rows'[held'[u][k].row].kind = "contributor" /\ Apart(Holders(held[u][k].row))' =>
            Names(rows'[held'[u][k].row].is) \subseteq Names(held'[u][k].is)
    BY <1>1, <1>4, <2>2 DEF Apart, Holders
  <2>5. \A n \in named' :
          /\ n[1] \in DOMAIN rows' /\ rows'[n[1]].kind = "contributor"
          /\ Apart(Holders(n[1]))' => n[2] \in Names(rows'[n[1]].is)
    BY <1>1, <1>5, <2>3
  <2>. QED
    BY <2>1, <2>4, <2>5 DEF NamesFlow
<1>7. LabelsFlow'
  <2>1. ASSUME NEW i \in DOMAIN rows, rows'[i].kind = "concept", rows'[i].is.flag,
               Apart(Holders(i))
        PROVE  HasAuthority(rows'[i].is.labels)
    BY <1>1, <1>2, <2>1 DEF LabelsFlow
  <2>2. ASSUME NEW u \in Running, NEW k \in DOMAIN held[u],
               rows'[held[u][k].row].kind = "concept", Apart(Holders(held[u][k].row)),
               held[u][k].is.flag
        PROVE  /\ HasAuthority(rows'[held[u][k].row].is.labels)
               /\ HasAuthority(held[u][k].is.labels)
    <3>1. held[u][k].row \in DOMAIN rows /\ rows[held[u][k].row].kind = "concept"
      BY <1>1, <1>3, <1>4, <2>2
    <3>2. HasAuthority(rows[held[u][k].row].is.labels) /\ HasAuthority(held[u][k].is.labels)
      BY <2>2, <3>1 DEF LabelsFlow
    <3>. QED
      BY <1>2, <3>1, <3>2
  <2>3. ASSUME NEW u \in Running', NEW k \in DOMAIN held'[u],
               rows'[held'[u][k].row].kind = "concept", Apart(Holders(held[u][k].row))',
               held'[u][k].is.flag
        PROVE  /\ HasAuthority(rows'[held'[u][k].row].is.labels)
               /\ HasAuthority(held'[u][k].is.labels)
    <3>1. u \in Running /\ held'[u] = held[u] /\ k \in DOMAIN held[u]
      BY <1>1, <1>4
    <3>2. Apart(Holders(held[u][k].row))
      BY <1>1, <2>3 DEF Apart, Holders
    <3>. QED
      BY <2>2, <2>3, <3>1, <3>2
  <2>4. \A i \in DOMAIN rows' :
          rows'[i].kind = "concept" /\ rows'[i].is.flag /\ Apart(Holders(i))' =>
            HasAuthority(rows'[i].is.labels)
    BY <1>1, <1>5, <2>1
  <2>. QED
    BY <2>3, <2>4 DEF LabelsFlow
<1>. QED
  BY <1>6, <1>7

\* Every step keeps what flows between rows and objects.
LEMMA NextFlows ==
    ASSUME Shape, Races, Holding, NamesFlow, LabelsFlow, [Next]_vars
    PROVE  NamesFlow' /\ LabelsFlow'
<1>1. ASSUME NEW t \in Conversions, Begin(t) \/ Convert(t)
      PROVE  NamesFlow' /\ LabelsFlow'
  BY <1>1, StepNames, StepLabels
<1>2. ASSUME NEW j \in Jobs, Launch(j) \/ RunJob(j)
      PROVE  NamesFlow' /\ LabelsFlow'
  BY <1>2, JobFlows
<1>3. CASE UNCHANGED vars
  <2>1. UNCHANGED <<rows, at, held, beside, named>>
    BY <1>3 DEF vars, history
  <2>2. NamesFlow'
    BY <2>1 DEF NamesFlow, Running, Apart, Holders
  <2>3. LabelsFlow'
    BY <2>1 DEF LabelsFlow, Running, Apart, Holders
  <2>. QED
    BY <2>2, <2>3
<1>. QED
  BY <1>1, <1>2, <1>3 DEF Next

\* At the start nothing is held or recorded, and flagged concepts have labels.
LEMMA InitFlows ==
    ASSUME Init
    PROVE  Holding /\ NamesFlow /\ LabelsFlow
<1>1. PICK s \in Starts : rows = s.rows
  BY DEF Init
<1>2. /\ named = {} /\ \A t \in Conversions : held[t] = <<>> /\ at[t] = "waiting"
  BY DEF Init
<1>3. \A i \in DOMAIN rows :
        rows[i].kind = "concept" /\ rows[i].is.flag => HasAuthority(rows[i].is.labels)
  BY <1>1, StartsAssumption
<1>4. \A t \in Conversions : DOMAIN held[t] = {}
  BY <1>2
<1>. QED
  BY <1>2, <1>3, <1>4 DEF Holding, NamesFlow, LabelsFlow, Running

\* What is true of every reachable state: the layers of the proofs together.
LEMMA Flows == Spec => [](Shape /\ Races /\ Holding /\ NamesFlow /\ LabelsFlow)
<1>1. Init => Shape /\ Races /\ Holding /\ NamesFlow /\ LabelsFlow
  BY InitShape, InitRaces, InitFlows
<1>2. Shape /\ Races /\ Holding /\ NamesFlow /\ LabelsFlow /\ [Next]_vars
        => (Shape /\ Races /\ Holding /\ NamesFlow /\ LabelsFlow)'
  BY NextShape, NextRaces, NextHolding, NextFlows
<1>. QED
  BY <1>1, <1>2, PTL DEF Spec

(* No recorded name of a contributor is forgotten as long as those who     *)
(* hold it do not overlap.                                                 *)
THEOREM NamesAreKept == Spec => []NamesKeptApart
<1>1. NamesFlow => NamesKeptApart
  BY DEF NamesFlow, NamesKeptApart, Names
<1>. QED
  BY <1>1, Flows, PTL

(* A concept flagged as dereferenced has labels of the authority as long   *)
(* as those who hold it do not overlap, whatever the job does.             *)
THEOREM FlaggedAreLabelled == Spec => []FlaggedHasLabels
<1>1. LabelsFlow => FlaggedHasLabels
  BY DEF LabelsFlow, FlaggedHasLabels, Committed
<1>. QED
  BY <1>1, Flows, PTL

=============================================================================
