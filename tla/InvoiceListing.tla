--------------------------- MODULE InvoiceListing ---------------------------
(***************************************************************************)
(* A merchant pages through GET /v1/invoices while requests create new     *)
(* invoices: the listing handler (internal/api/invoices.go), ListByMerchant*)
(* of the two repositories (internal/store/sqlite.go and                   *)
(* internal/invoice/memrepo.go) and the two steps of Service.Create that   *)
(* matter to a list, reading the clock and inserting the row.              *)
(*                                                                         *)
(* SQLite orders a list by the text of created_at, which formatTime writes *)
(* without the zeros at the end of the fraction; the memory repository     *)
(* compares times.  Both put rows of one moment in the order of insertion. *)
(* Every key belongs to the one merchant of internal/app, so the rows of   *)
(* other merchants are left out.                                           *)
(***************************************************************************)
EXTENDS Integers, FiniteSets

CONSTANTS
    Creators,     \* requests that create an invoice, one after the other
    Asked,        \* values of the limit parameter; below 0: absent, or refused
                  \* by strconv.Atoi, or negative
    DefaultLimit, MaxLimit, \* of the handler: 20 and 100
    SqliteLimit,  \* of the SQLite query when it is given no limit: 20
    Base, Width,  \* the fraction of a second has Width digits in base Base
    Place,        \* the value of each of these digits, most significant first
    PerSecond,    \* fractions in a second
    MaxTime, MaxRows, MaxRestarts \* bounds of the instance

ASSUME ListingAssumption ==
    /\ Asked \subseteq Int
    /\ DefaultLimit \in Nat \ {0} /\ MaxLimit \in Nat \ {0} /\ SqliteLimit \in 1..MaxLimit
    /\ Base \in Nat \ {0, 1} /\ Width \in Nat \ {0} /\ PerSecond \in Nat \ {0}
    /\ Place \in [1..Width -> Nat \ {0}]
    /\ MaxTime \in Nat /\ MaxRows \in Nat /\ MaxRestarts \in Nat

VARIABLES
    engine,   \* the store of this gateway: "sqlite" or "memory"
    clock,    \* what time.Now returns, in fractions of a second
    create,   \* the state of each creating request
    made,     \* how many rows were ever inserted; a row is named by its number
    rows,     \* the rows the store holds
    at,       \* CreatedAt of each row ever inserted
    walk,     \* the merchant's walk through the pages
    seen,     \* the rows it was given
    restarts, \* counter for the bound
    asOf      \* history: the rows, and how many were made, when it began

vars == <<engine, clock, create, made, rows, at, walk, seen, restarts, asOf>>

RowIds  == 1..MaxRows
Moments == 0..MaxTime
Request == [pc: {"idle", "insert"}, at: Moments]
Idle    == [pc |-> "idle", at |-> 0]
Walk    == [pc: {"none", "walking", "done"}, limit: Int, offset: Nat]

-----------------------------------------------------------------------------
(* The order of a list.                                                    *)

Second(t) == t \div PerSecond
Frac(t)   == t % PerSecond

(***************************************************************************)
(* formatTime: the date and time to the second, then ".", the digits of    *)
(* the fraction down to the last that is not 0, and "Z", or "Z" alone.  A  *)
(* text is a function over the cells, the seconds in the first; a          *)
(* character is its rank in ASCII, where "." < digits < "Z", and a cell    *)
(* behind the end is a Blank, as a text is less than its continuations.    *)
(***************************************************************************)
Blank  == -1
Dot    == 0
Zed    == Base + 1
Cells  == 0..(Width + 2)
Digit(f, p) == 1 + ((f \div Place[p]) % Base)
Shown(f, p) == p <= Width /\ f % (Place[p] * Base) # 0

formatTime(t) ==
    LET f == Frac(t) IN
    [k \in Cells |->
       CASE k = 0 -> Second(t)
         [] k = 1 -> IF f = 0 THEN Zed ELSE Dot
         [] k >= 2 -> IF f # 0 /\ k <= Width + 1 /\ Shown(f, k - 1) THEN Digit(f, k - 1)
                      ELSE IF f # 0 /\ (k = 2 \/ Shown(f, k - 2)) THEN Zed
                      ELSE Blank]

\* The order of texts, byte by byte.
TextBefore(s, t) ==
    \E k \in Cells : s[k] < t[k] /\ \A j \in 0..(k - 1) : s[j] = t[j]

\* The moments of the instance in the order of their texts.
TextOrder == {p \in Moments \X Moments : TextBefore(formatTime(p[1]), formatTime(p[2]))}

\* Mutant of Newer: the list begins with the oldest.
Older(t, u) == IF engine = "sqlite" THEN <<t, u>> \in TextOrder ELSE t < u

\* ORDER BY created_at DESC, and After in the memory repository.
Newer(t, u) == IF engine = "sqlite" THEN <<u, t>> \in TextOrder ELSE u < t

\* The same moment is the order of insertion: the index goes on to the rowid,
\* and SliceStable keeps what it finds.
Precedes(i, j) == Newer(at[i], at[j]) \/ (~Newer(at[j], at[i]) /\ i < j)

\* How many rows of the list come before row i.
Rank(i) == Cardinality({j \in rows : Precedes(j, i)})

-----------------------------------------------------------------------------
(* One page.                                                               *)

queryInt(v, def) == IF v < 0 THEN def ELSE v

\* Mutant of HandlerLimit: the cap is forgotten.
HandlerLimitUncapped(v) == queryInt(v, DefaultLimit)

HandlerLimit(v) ==
    LET n == queryInt(v, DefaultLimit) IN IF n > MaxLimit THEN MaxLimit ELSE n

\* A limit of 0 is twenty rows to SQLite, and all of them to the memory
\* repository.
RowLimit(n) ==
    IF n > 0 THEN n ELSE IF engine = "sqlite" THEN SqliteLimit ELSE Cardinality(rows)

\* Mutants of ListByMerchant: a later page begins one row too far on, or one
\* row too early.
ListSkipsOne(n, off) ==
    LET from == IF off = 0 THEN 0 ELSE off + 1
    IN {i \in rows : Rank(i) >= from /\ Rank(i) < from + RowLimit(n)}
ListRepeatsOne(n, off) ==
    LET from == IF off = 0 THEN 0 ELSE off - 1
    IN {i \in rows : Rank(i) >= from /\ Rank(i) < off + RowLimit(n)}

ListByMerchant(n, off) ==
    {i \in rows : Rank(i) >= off /\ Rank(i) < off + RowLimit(n)}

-----------------------------------------------------------------------------
Init ==
    /\ engine \in {"sqlite", "memory"}
    /\ clock = 0
    /\ create = [c \in Creators |-> Idle]
    /\ made = 0 /\ rows = {} /\ at = [i \in RowIds |-> 0]
    /\ walk = [pc |-> "none", limit |-> 0, offset |-> 0]
    /\ seen = {} /\ restarts = 0
    /\ asOf = [rows |-> {}, made |-> 0]

Tick ==
    /\ clock < MaxTime
    /\ clock' = clock + 1
    /\ UNCHANGED <<engine, create, made, rows, at, walk, seen, restarts, asOf>>

\* Service.Create: now is read before the row is inserted, and other requests
\* get in between.
ReadClock(c) ==
    /\ create[c] = Idle
    /\ create' = [create EXCEPT ![c] = [pc |-> "insert", at |-> clock]]
    /\ UNCHANGED <<engine, clock, made, rows, at, walk, seen, restarts, asOf>>

\* Mutant of Insert: the row takes the name of the last one.
InsertUncounted(c) ==
    /\ create[c].pc = "insert"
    /\ made < MaxRows
    /\ rows' = rows \cup {made + 1}
    /\ at' = [at EXCEPT ![made + 1] = create[c].at]
    /\ create' = [create EXCEPT ![c] = Idle]
    /\ UNCHANGED <<engine, clock, made, walk, seen, restarts, asOf>>

Insert(c) ==
    /\ create[c].pc = "insert"
    /\ made < MaxRows
    /\ made' = made + 1
    /\ rows' = rows \cup {made + 1}
    /\ at' = [at EXCEPT ![made + 1] = create[c].at]
    /\ create' = [create EXCEPT ![c] = Idle]
    /\ UNCHANGED <<engine, clock, walk, seen, restarts, asOf>>

InsertFails(c) ==
    /\ create[c].pc = "insert"
    /\ create' = [create EXCEPT ![c] = Idle]
    /\ UNCHANGED <<engine, clock, made, rows, at, walk, seen, restarts, asOf>>

\* The client asks for pages until one is empty, from where the last ended.
BeginWalk(v) ==
    /\ walk.pc = "none"
    /\ walk' = [pc |-> "walking", limit |-> v, offset |-> 0]
    /\ asOf' = [rows |-> rows, made |-> made]
    /\ UNCHANGED <<engine, clock, create, made, rows, at, seen, restarts>>

\* One GET: listInvoices, Service.List, and the answer.
Fetch ==
    /\ walk.pc = "walking"
    /\ LET page == ListByMerchant(HandlerLimit(walk.limit), walk.offset) IN
       /\ seen' = seen \cup page
       /\ walk' = [pc |-> IF page = {} THEN "done" ELSE "walking",
                   limit |-> walk.limit,
                   offset |-> walk.offset + Cardinality(page)]
    /\ UNCHANGED <<engine, clock, create, made, rows, at, restarts, asOf>>

\* The gateway starts again.  The memory repository starts empty.
Restart ==
    /\ restarts < MaxRestarts
    /\ restarts' = restarts + 1
    /\ create' = [c \in Creators |-> Idle]
    /\ rows' = IF engine = "memory" THEN {} ELSE rows
    /\ UNCHANGED <<engine, clock, made, at, walk, seen, asOf>>

Next ==
    \/ Tick
    \/ \E c \in Creators : ReadClock(c) \/ Insert(c) \/ InsertFails(c)
    \/ \E v \in Asked : BeginWalk(v)
    \/ Fetch
    \/ Restart

Spec == Init /\ [][Next]_vars

-----------------------------------------------------------------------------
(* Properties.                                                             *)

TypeOK ==
    /\ engine \in {"sqlite", "memory"}
    /\ clock \in Moments
    /\ create \in [Creators -> Request]
    /\ made \in 0..MaxRows /\ rows \subseteq 1..made
    /\ at \in [RowIds -> Moments]
    /\ walk \in Walk /\ seen \subseteq 1..made
    /\ restarts \in 0..MaxRestarts
    /\ asOf \in [rows: SUBSET (1..made), made: 0..made]

\* A walk loses nothing: the rows that were there when it began, and still
\* are, have all been given to the client when it ends, whatever was inserted
\* in between and wherever in the list it went (ListByMerchant's OFFSET).
WalkIsComplete == walk.pc = "done" => asOf.rows \cap rows \subseteq seen

\* A walk repeats a row only because a row was inserted while it went on, one
\* repetition for each such row at most.
RepeatsAreInserts ==
    walk.pc # "none" => walk.offset - Cardinality(seen) <= made - asOf.made

\* A request with a limit never gets more rows than openapi.yaml's maximum,
\* however long the list has grown.  To the memory repository a limit of 0 is
\* none.
PageIsBounded ==
    walk.pc = "walking" /\ (walk.limit # 0 \/ engine = "sqlite") =>
        Cardinality(ListByMerchant(HandlerLimit(walk.limit), walk.offset)) <= MaxLimit

\* Whatever order the requests inserted their rows in, a list goes back in
\* time: by the second in SQLite, exactly in the memory repository.
NewestSecondFirst ==
    \A i, j \in rows : Precedes(i, j) =>
        /\ Second(at[i]) >= Second(at[j])
        /\ engine = "memory" => at[i] >= at[j]

\* service.go List: "returns a merchant's invoices, newest first".
NewestFirst == \A i, j \in rows : Precedes(i, j) => at[i] >= at[j]
=============================================================================
