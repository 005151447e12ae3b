-------------------------- MODULE InvoiceCreation --------------------------
(***************************************************************************)
(* Service.Create under concurrent POST /v1/invoices requests: resolve the *)
(* amount, take the next derivation index, derive an address, insert the   *)
(* row, answer.  A request that exceeds the request timeout is answered    *)
(* with an error while its handler goes on; a crash ends every handler.    *)
(*                                                                         *)
(* There is one merchant (app.DefaultMerchantID), hence one counter, and   *)
(* it is shared by all chains and wallets.  Abstracted: identifiers (each  *)
(* request creates at most one invoice and names it), metadata, fiat       *)
(* display fields, the address encoding.                                   *)
(***************************************************************************)
EXTENDS Integers

CONSTANTS
    Requests,      \* requests to create an invoice
    Params,        \* what a request may ask for
    Prices,        \* what the pricer may convert a fiat price to
    IndexSpace,    \* 2^32: an index is a uint32
    HardenedStart, \* 2^31: an xpub derives no child from here on
    MaxIssued, MaxCrashes   \* bounds of the instance

\* The chains registered by app.Build; another chain is refused.
Bitcoin == {"bitcoin", "bitcoin-testnet"}
Sandbox == "mock"
Chains  == Bitcoin \cup {Sandbox}

NoXPub == "no xpub"

ASSUME CreationAssumption ==
    /\ \A p \in Params : /\ p.amount \in Int
                          /\ p.rightAsset \in BOOLEAN /\ p.fiat \in BOOLEAN /\ p.key \in BOOLEAN
    /\ Prices \subseteq Nat \ {0}
    /\ IndexSpace \in Nat \ {0} /\ HardenedStart \in Nat
    /\ MaxIssued \in Nat /\ MaxCrashes \in Nat
    /\ MaxIssued <= IndexSpace

VARIABLES
    engine,   \* the store of this gateway: "sqlite" or "memory"
    next,     \* the stored derivation counter
    rows,     \* the stored invoices, by the request that created them
    call,     \* the handler of each request
    answer,   \* what each client was told
    crashes,  \* counter for the bound
    handedOut \* history: every invoice ever inserted, stored or not by now

vars == <<engine, next, rows, call, answer, crashes, handedOut>>

\* SQLite keeps the counter and the rows over a restart.
Durable == engine = "sqlite"

NoRow   == [chain |-> "none", wallet |-> NoXPub, index |-> -1, amount |-> 0]
NoParam == [chain |-> "none", wallet |-> NoXPub, amount |-> 0,
            rightAsset |-> FALSE, fiat |-> FALSE, key |-> FALSE]

Handling(stage, p, amount, index) ==
    [pc |-> stage, param |-> p, amount |-> amount, index |-> index]
At(stage) == Handling(stage, NoParam, 0, -1)

\* The address of an index.  The sandbox address names the index alone.
Address(row) ==
    IF row.chain = Sandbox THEN <<Sandbox, NoXPub, row.index>>
    ELSE <<row.chain, row.wallet, row.index>>

-----------------------------------------------------------------------------
Init ==
    /\ engine \in {"sqlite", "memory"}
    /\ next = 0
    /\ rows = [r \in Requests |-> NoRow]
    /\ call = [r \in Requests |-> At("idle")]
    /\ answer = [r \in Requests |-> "none"]
    /\ crashes = 0
    /\ handedOut = [r \in Requests |-> NoRow]

\* The handler's last step: its answer is lost on a client that timed out.
Answer(r, a) ==
    /\ call' = [call EXCEPT ![r] = At("done")]
    /\ answer' = [answer EXCEPT ![r] = IF @ = "none" THEN a ELSE @]

Fail(r) == Answer(r, "error") /\ UNCHANGED <<rows, handedOut>>

\* A cancelled request context fails every later SQLite call; the in-memory
\* repository ignores it.
Cancelled(r) == Durable /\ answer[r] = "timeout"

\* The API key resolves to the merchant; the registry knows the chain.
Authenticated(p)  == p.key
Registered(chain) == chain \in Chains

Start(r, p) ==
    /\ call[r].pc = "idle"
    /\ IF Authenticated(p) /\ Registered(p.chain)
       THEN call' = [call EXCEPT ![r] = Handling("resolve", p, 0, -1)] /\ UNCHANGED answer
       ELSE Answer(r, "error")
    /\ UNCHANGED <<engine, next, rows, crashes, handedOut>>

\* Mutant of Resolved: the sign of a given amount is not looked at.
ResolvedSigned(p) ==
    IF p.amount # 0
    THEN IF p.rightAsset THEN {p.amount} ELSE {}
    ELSE IF p.fiat THEN Prices ELSE {}

\* resolveAmount: a given amount must be positive and in the chain's asset; a
\* zero or missing one is computed from the fiat price, if there is one.
Resolved(p) ==
    IF p.amount # 0
    THEN IF p.rightAsset /\ p.amount > 0 THEN {p.amount} ELSE {}
    ELSE IF p.fiat THEN Prices ELSE {}

Resolve(r) ==
    /\ call[r].pc = "resolve"
    /\ \E amount \in Resolved(call[r].param) :
          call' = [call EXCEPT ![r] = Handling("index", call[r].param, amount, -1)]
    /\ UNCHANGED <<engine, next, rows, answer, crashes, handedOut>>

\* A bad amount, or a pricer that has no rate; no index is taken.
ResolveFails(r) ==
    /\ call[r].pc = "resolve"
    /\ LET p == call[r].param IN Resolved(p) = {} \/ (p.amount = 0 /\ p.fiat)
    /\ Fail(r)
    /\ UNCHANGED <<engine, next, crashes>>

\* Mutant of TakeIndex: the counter is read after it was incremented.
TakeIndexAfter(r) ==
    /\ call[r].pc = "index"
    /\ ~Cancelled(r)
    /\ next < MaxIssued
    /\ next' = next + 1
    /\ call' = [call EXCEPT ![r] =
           Handling("derive", call[r].param, call[r].amount, next + 1)]
    /\ UNCHANGED <<engine, rows, answer, crashes, handedOut>>

\* NextDerivationIndex reads and increments in one statement (one lock).
TakeIndex(r) ==
    /\ call[r].pc = "index"
    /\ ~Cancelled(r)
    /\ next < MaxIssued
    /\ next' = next + 1
    /\ call' = [call EXCEPT ![r] =
           Handling("derive", call[r].param, call[r].amount, next % IndexSpace)]
    /\ UNCHANGED <<engine, rows, answer, crashes, handedOut>>

TakeIndexFails(r) ==
    /\ call[r].pc = "index"
    /\ Durable
    /\ Fail(r)
    /\ UNCHANGED <<engine, next, crashes>>

\* Only a Bitcoin adapter needs a wallet and refuses a hardened index; the
\* index of a refused derivation is not given back.
Derivable(p, index) ==
    p.chain \in Bitcoin => p.wallet # NoXPub /\ index < HardenedStart

Derive(r) ==
    /\ call[r].pc = "derive"
    /\ Derivable(call[r].param, call[r].index)
    /\ call' = [call EXCEPT ![r] =
           Handling("insert", call[r].param, call[r].amount, call[r].index)]
    /\ UNCHANGED <<engine, next, rows, answer, crashes, handedOut>>

\* Mutant of DeriveFails: the index is given back.
DeriveFailsGivesBack(r) ==
    /\ call[r].pc = "derive"
    /\ ~Derivable(call[r].param, call[r].index)
    /\ Fail(r)
    /\ next' = next - 1
    /\ UNCHANGED <<engine, crashes>>

DeriveFails(r) ==
    /\ call[r].pc = "derive"
    /\ ~Derivable(call[r].param, call[r].index)
    /\ Fail(r)
    /\ UNCHANGED <<engine, next, crashes>>

NewRow(c) == [chain |-> c.param.chain, wallet |-> c.param.wallet,
              index |-> c.index, amount |-> c.amount]

Insert(r) ==
    /\ call[r].pc = "insert"
    /\ ~Cancelled(r)
    /\ rows' = [rows EXCEPT ![r] = NewRow(call[r])]
    /\ handedOut' = [handedOut EXCEPT ![r] = NewRow(call[r])]
    /\ call' = [call EXCEPT ![r] = At("answer")]
    /\ UNCHANGED <<engine, next, answer, crashes>>

\* Mutant of InsertFails: the error is ignored.
InsertFailsUnnoticed(r) ==
    /\ call[r].pc = "insert"
    /\ Durable
    /\ call' = [call EXCEPT ![r] = At("answer")]
    /\ UNCHANGED <<engine, next, rows, answer, crashes, handedOut>>

InsertFails(r) ==
    /\ call[r].pc = "insert"
    /\ Durable
    /\ Fail(r)
    /\ UNCHANGED <<engine, next, crashes>>

Created(r) ==
    /\ call[r].pc = "answer"
    /\ Answer(r, "created")
    /\ UNCHANGED <<engine, next, rows, crashes, handedOut>>

\* http.TimeoutHandler answers in the handler's place; the handler goes on.
Timeout(r) ==
    /\ call[r].pc \notin {"idle", "done"}
    /\ answer[r] = "none"
    /\ answer' = [answer EXCEPT ![r] = "timeout"]
    /\ UNCHANGED <<engine, next, rows, call, crashes, handedOut>>

\* The clients of running handlers see their connections break.
Crash ==
    /\ crashes < MaxCrashes
    /\ crashes' = crashes + 1
    /\ call' = [r \in Requests |-> IF call[r].pc = "idle" THEN call[r] ELSE At("done")]
    /\ answer' = [r \in Requests |->
           IF call[r].pc \notin {"idle", "done"} /\ answer[r] = "none" THEN "error"
           ELSE answer[r]]
    /\ next' = IF Durable THEN next ELSE 0
    /\ rows' = IF Durable THEN rows ELSE [r \in Requests |-> NoRow]
    /\ UNCHANGED <<engine, handedOut>>

Step(r) ==
    \/ Resolve(r) \/ ResolveFails(r) \/ TakeIndex(r) \/ TakeIndexFails(r)
    \/ Derive(r) \/ DeriveFails(r) \/ Insert(r) \/ InsertFails(r) \/ Created(r)

Next ==
    \/ \E r \in Requests, p \in Params : Start(r, p)
    \/ \E r \in Requests : Step(r) \/ Timeout(r)
    \/ Crash

Spec == Init /\ [][Next]_vars

-----------------------------------------------------------------------------
(* Properties.                                                             *)

Stages  == {"idle", "resolve", "index", "derive", "insert", "answer", "done"}
Answers == {"none", "created", "error", "timeout"}
Indices == -1..(IndexSpace - 1)

Call == [pc: Stages, param: Params \cup {NoParam}, amount: Int, index: Indices]
Row  == [chain: {p.chain : p \in Params \cup {NoParam}},
         wallet: {p.wallet : p \in Params \cup {NoParam}}, index: Indices, amount: Int]

TypeOK ==
    /\ engine \in {"sqlite", "memory"}
    /\ next \in 0..MaxIssued
    /\ rows \in [Requests -> Row] /\ handedOut \in [Requests -> Row]
    /\ call \in [Requests -> Call]
    /\ answer \in [Requests -> Answers]
    /\ crashes \in 0..MaxCrashes

\* A restart has emptied the repository in memory, its counter too.
Forgotten == ~Durable /\ crashes > 0

\* chain.go, StrategyAddressPerInvoice: "derives a fresh address per invoice".
\* No address is given to two invoices, over concurrent requests, failed
\* derivations and restarts: a buyer who pays late to an old invoice is never
\* credited to a new one.  It is the counter that sees to it, before the
\* insert, and so an index may be lost but not used twice.  In memory it holds
\* until a restart, although a handler goes on after its timeout there.
FreshAddress ==
    ~Forgotten => \A r, s \in Requests :
        r # s /\ handedOut[r] # NoRow /\ handedOut[s] # NoRow =>
            Address(handedOut[r]) # Address(handedOut[s])

\* A client that was told "created" can rely on it: the invoice is stored, at
\* the address it was told, whatever crashed since (createInvoice answers 201
\* only after repo.Create returned, and SQLite keeps the row; memory keeps it
\* until a restart).
CreatedIsStored ==
    ~Forgotten => \A r \in Requests :
        answer[r] = "created" => rows[r] = handedOut[r] /\ rows[r] # NoRow

\* No invoice asks for nothing, or less, in either repository: resolveAmount
\* rejects or replaces every amount that is not positive.
StoredAmountsArePositive ==
    \A r \in Requests : handedOut[r] # NoRow => handedOut[r].amount > 0
=============================================================================
