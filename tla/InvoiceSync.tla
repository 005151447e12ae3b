---------------------------- MODULE InvoiceSync ----------------------------
(***************************************************************************)
(* Service.Sync and everything that calls it, over one repository.         *)
(*                                                                         *)
(* The watcher (internal/watcher) lists the open invoices once and then    *)
(* syncs the copies one by one; a sandbox payment handler                  *)
(* (internal/api/sandbox.go) reads one invoice, credits the simulator and  *)
(* syncs its own copy.  Sync works on the copy it was given: it reads the  *)
(* chain, decides, writes the copy back and emits a change.  Nothing       *)
(* serialises these steps, so each is an action.                           *)
(*                                                                         *)
(* The repository is the persistent one (SQLite) and survives a crash; the *)
(* simulator's ledger, the copies and the unsent events do not.            *)
(* Abstracted: transaction hashes, UpdatedAt, wallets, metadata.  The      *)
(* ledger of a Bitcoin invoice is what the backend would report of its     *)
(* address, and moves as the chain pleases.                                *)
(***************************************************************************)
EXTENDS InvoiceStatus, Sequences

CONSTANTS
    Ids,           \* identifiers of the invoices ever created
    Mock,          \* those on the sandbox chain
    Watcher,       \* the watcher goroutine
    Handlers,      \* sandbox payment requests, each served once
    Amount,        \* Invoice.Amount, by invoice
    Required,      \* Invoice.RequiredConfs, by invoice
    Window,        \* Service.expiry
    ChainReports,  \* what a Bitcoin backend may report
    Payments,      \* what a sandbox request may credit
    Reliable,      \* invoices whose checks and updates do not fail for ever
    MaxTime, MaxMoves, MaxCrashes  \* bounds of the instance

ASSUME SyncAssumption ==
    /\ Mock \subseteq Ids /\ Reliable \subseteq Ids
    /\ Watcher \notin Handlers
    /\ Amount \in [Ids -> Nat \ {0}]
    /\ Required \in [Ids -> Nat \ {0}]
    /\ Window \in Nat \ {0}
    /\ ChainReports \subseteq {o \in Observation : o.seen <=> o.received # 0}
    /\ Payments \subseteq {o \in Observation : o.seen}
    /\ MaxTime \in Nat /\ MaxMoves \in Nat /\ MaxCrashes \in Nat

VARIABLES
    now,       \* the clock every goroutine reads
    repo,      \* the stored invoices
    ledger,    \* the observation CheckPayment would make now
    queue,     \* the watcher's copies still to be synced in this pass
    proc,      \* the state of each goroutine that is in Sync
    events,    \* the changes handed to the emitter, by invoice
    moves, crashes,   \* counters for the bounds
    funded,    \* history: the payment was once complete and deep enough
    retracted  \* history: a payment that covered the amount stopped doing so

vars == <<now, repo, ledger, queue, proc, events, moves, crashes, funded, retracted>>
bounds == <<moves, crashes>>
history == <<funded, retracted>>

Procs  == Handlers \cup {Watcher}
Native == Ids \ Mock

NoTime == -1     \* a nil PaidAt
NoId   == "none"

Invoice == [status: Statuses \cup {NotCreated}, received: Int, confs: Int,
            paidAt: Nat \cup {NoTime}, expiresAt: Nat]
Absent  == [status |-> NotCreated, received |-> 0, confs |-> 0,
            paidAt |-> NoTime, expiresAt |-> 0]

Stages == {"idle", "pay", "check", "decide", "update", "emit", "done"}
Proc   == [pc: Stages, id: Ids \cup {NoId}, inv: Invoice, obs: Observation,
           prev: Statuses \cup {NotCreated}]
Doing(stage, i, inv, obs, prev) ==
    [pc |-> stage, id |-> i, inv |-> inv, obs |-> obs, prev |-> prev]
At(stage)             == Doing(stage, NoId, Absent, NothingSeen, NotCreated)
Syncing(stage, i, inv) == Doing(stage, i, inv, NothingSeen, NotCreated)

\* The watcher goes on to its next copy; a handler answers its request.
Returned(p) == At(IF p = Watcher THEN "idle" ELSE "done")
Return(p)   == proc' = [proc EXCEPT ![p] = Returned(p)]

\* One pass of ProcessOpen is over when no copy is left and none is in hand.
QueueEmpty == \A i \in Ids : queue[i] = Absent

-----------------------------------------------------------------------------
Init ==
    /\ now = 0
    /\ repo = [i \in Ids |-> Absent]
    /\ ledger = [i \in Ids |-> NothingSeen]
    /\ queue = [i \in Ids |-> Absent]
    /\ proc = [p \in Procs |-> At("idle")]
    /\ events = [i \in Ids |-> <<>>]
    /\ moves = 0 /\ crashes = 0
    /\ funded = [i \in Ids |-> FALSE]
    /\ retracted = [i \in Ids |-> FALSE]

Tick ==
    /\ now < MaxTime
    /\ now' = now + 1
    /\ UNCHANGED <<repo, ledger, queue, proc, events, bounds, history>>

\* Mutant of NewInvoice: the expiry is set in the past.
NewInvoiceBackdated == [status |-> "pending", received |-> 0, confs |-> 0,
                        paidAt |-> NoTime, expiresAt |-> now - Window]

\* Service.Create, whose own steps are in InvoiceCreation: the inserted row.
\* The bound leaves the clock room to pass the expiry.
NewInvoice == [status |-> "pending", received |-> 0, confs |-> 0,
               paidAt |-> NoTime, expiresAt |-> now + Window]

Create(i) ==
    /\ repo[i].status = NotCreated
    /\ now + Window < MaxTime
    /\ repo' = [repo EXCEPT ![i] = NewInvoice]
    /\ UNCHANGED <<now, ledger, queue, proc, events, bounds, history>>

\* A change of what the chain shows for an address, with its history.
Credit(i, obs) ==
    /\ ledger' = [ledger EXCEPT ![i] = obs]
    /\ funded' = [funded EXCEPT ![i] = @ \/ Deep(obs, Amount[i], Required[i])]
    /\ retracted' = [retracted EXCEPT
           ![i] = @ \/ (Covers(ledger[i], Amount[i]) /\ ~Covers(obs, Amount[i]))]

\* Payments, confirmations, replacements and reorganisations, in any order.
ChainMoves(i) ==
    /\ i \in Native
    /\ repo[i].status # NotCreated
    /\ moves < MaxMoves
    /\ moves' = moves + 1
    /\ \E obs \in ChainReports : obs # ledger[i] /\ Credit(i, obs)
    /\ UNCHANGED <<now, repo, queue, proc, events, crashes>>

-----------------------------------------------------------------------------
(* The watcher's pass and the sandbox handler, up to their calls of Sync.  *)

WatcherList ==
    /\ proc[Watcher].pc = "idle"
    /\ QueueEmpty
    /\ queue' = [i \in Ids |-> IF repo[i].status \in OpenStatuses THEN repo[i] ELSE Absent]
    /\ UNCHANGED <<now, repo, ledger, proc, events, bounds, history>>

\* Mutant of WatcherNext: the copy stays in the queue and is used again.
WatcherNextKeeps(i) ==
    /\ proc[Watcher].pc = "idle"
    /\ queue[i] # Absent
    /\ proc' = [proc EXCEPT ![Watcher] = Syncing("check", i, queue[i])]
    /\ UNCHANGED <<now, repo, ledger, queue, events, bounds, history>>

WatcherNext(i) ==
    /\ proc[Watcher].pc = "idle"
    /\ queue[i] # Absent
    /\ proc' = [proc EXCEPT ![Watcher] = Syncing("check", i, queue[i])]
    /\ queue' = [queue EXCEPT ![i] = Absent]
    /\ UNCHANGED <<now, repo, ledger, events, bounds, history>>

\* A request for an invoice of another chain is refused and changes nothing.
HandlerGet(h, i) ==
    /\ proc[h].pc = "idle"
    /\ i \in Mock
    /\ repo[i].status # NotCreated
    /\ proc' = [proc EXCEPT ![h] = Syncing("pay", i, repo[i])]
    /\ UNCHANGED <<now, repo, ledger, queue, events, bounds, history>>

\* The simulator is credited whatever the status of the copy; Sync returns
\* at once when that status is terminal.
HandlerPay(h, obs) ==
    /\ proc[h].pc = "pay"
    /\ Credit(proc[h].id, obs)
    /\ LET inv == proc[h].inv IN
       proc' = [proc EXCEPT ![h] = IF IsTerminal(inv.status) THEN Returned(h)
                                   ELSE Syncing("check", proc[h].id, inv)]
    /\ UNCHANGED <<now, repo, queue, events, bounds>>

\* A malformed body or amount: the request ends before it changes anything.
HandlerRefuse(h) ==
    /\ proc[h].pc = "pay"
    /\ Return(h)
    /\ UNCHANGED <<now, repo, ledger, queue, events, bounds, history>>

-----------------------------------------------------------------------------
(* Service.Sync, by goroutine p on the copy proc[p].inv.                   *)

CheckPayment(p) ==
    /\ proc[p].pc = "check"
    /\ LET i == proc[p].id IN
       proc' = [proc EXCEPT ![p] = Doing("decide", i, proc[p].inv, ledger[i], NotCreated)]
    /\ UNCHANGED <<now, repo, ledger, queue, events, bounds, history>>

\* Mutant of CheckFails: the error ends the whole pass.
CheckFailsEndsPass(p) ==
    /\ proc[p].pc = "check"
    /\ proc[p].id \in Native
    /\ Return(p)
    /\ queue' = [i \in Ids |-> Absent]
    /\ UNCHANGED <<now, repo, ledger, events, bounds, history>>

\* A backend error, or a cancelled context.  The simulator never fails.
CheckFails(p) ==
    /\ proc[p].pc = "check"
    /\ proc[p].id \in Native
    /\ Return(p)
    /\ UNCHANGED <<now, repo, ledger, queue, events, bounds, history>>

\* Mutant of Advance: every change is dated, not the settlement alone.
AdvanceDatesAll(i, inv, obs) ==
    LET next == Decide(obs, Amount[i], Required[i], now > inv.expiresAt)
    IN [inv EXCEPT
          !.received = IF obs.seen THEN obs.received ELSE @,
          !.confs    = IF obs.seen THEN obs.confs ELSE @,
          !.status   = next,
          !.paidAt   = IF next # inv.status /\ @ = NoTime THEN now ELSE @]

\* The copy after lines 208-229: the observation is recorded when something
\* was seen, the status is the decision, and the first settlement is dated.
Advance(i, inv, obs) ==
    LET next == Decide(obs, Amount[i], Required[i], now > inv.expiresAt)
    IN [inv EXCEPT
          !.received = IF obs.seen THEN obs.received ELSE @,
          !.confs    = IF obs.seen THEN obs.confs ELSE @,
          !.status   = next,
          !.paidAt   = IF next # inv.status /\ IsSettled(next) /\ @ = NoTime THEN now ELSE @]

DecideStep(p) ==
    /\ proc[p].pc = "decide"
    /\ LET i == proc[p].id  inv == proc[p].inv IN
       proc' = [proc EXCEPT ![p] = Doing("update", i, Advance(i, inv, proc[p].obs),
                                         NothingSeen, inv.status)]
    /\ UNCHANGED <<now, repo, ledger, queue, events, bounds, history>>

\* The columns the UPDATE statement sets, whatever the row holds by now.
Stored(row, inv) ==
    [row EXCEPT !.status = inv.status, !.received = inv.received,
                !.confs = inv.confs, !.paidAt = inv.paidAt]

Update(p) ==
    /\ proc[p].pc = "update"
    /\ LET i == proc[p].id  inv == proc[p].inv  prev == proc[p].prev IN
       /\ repo' = [repo EXCEPT ![i] = Stored(@, inv)]
       /\ proc' = [proc EXCEPT ![p] = IF inv.status # prev
                                      THEN Doing("emit", i, inv, NothingSeen, prev)
                                      ELSE Returned(p)]
    /\ UNCHANGED <<now, ledger, queue, events, bounds, history>>

\* Mutant of UpdateFails: the error is ignored and the change announced.
UpdateFailsUnnoticed(p) ==
    /\ proc[p].pc = "update"
    /\ LET i == proc[p].id  inv == proc[p].inv  prev == proc[p].prev IN
       proc' = [proc EXCEPT ![p] = IF inv.status # prev
                                   THEN Doing("emit", i, inv, NothingSeen, prev)
                                   ELSE Returned(p)]
    /\ UNCHANGED <<now, repo, ledger, queue, events, bounds, history>>

\* A database error, or a request whose context timed out: nothing is written.
UpdateFails(p) ==
    /\ proc[p].pc = "update"
    /\ Return(p)
    /\ UNCHANGED <<now, repo, ledger, queue, events, bounds, history>>

Emit(p) ==
    /\ proc[p].pc = "emit"
    /\ events' = [events EXCEPT ![proc[p].id] =
           Append(@, [prev |-> proc[p].prev, status |-> proc[p].inv.status])]
    /\ Return(p)
    /\ UNCHANGED <<now, repo, ledger, queue, bounds, history>>

-----------------------------------------------------------------------------
\* The process dies and is started again on the same database.
Crash ==
    /\ crashes < MaxCrashes
    /\ crashes' = crashes + 1
    /\ queue' = [i \in Ids |-> Absent]
    /\ ledger' = [i \in Ids |-> IF i \in Mock THEN NothingSeen ELSE ledger[i]]
    /\ retracted' = [i \in Ids |->
           retracted[i] \/ (i \in Mock /\ Covers(ledger[i], Amount[i]))]
    /\ proc' = [p \in Procs |-> IF proc[p].pc = "idle" THEN proc[p] ELSE Returned(p)]
    /\ UNCHANGED <<now, repo, events, moves, funded>>

SyncStep(p) ==
    \/ CheckPayment(p) \/ CheckFails(p) \/ DecideStep(p)
    \/ Update(p) \/ UpdateFails(p) \/ Emit(p)

Next ==
    \/ Tick
    \/ \E i \in Ids : Create(i) \/ ChainMoves(i)
    \/ WatcherList
    \/ \E i \in Ids : WatcherNext(i)
    \/ \E h \in Handlers, i \in Ids : HandlerGet(h, i)
    \/ \E h \in Handlers, obs \in Payments : HandlerPay(h, obs)
    \/ \E h \in Handlers : HandlerRefuse(h)
    \/ \E p \in Procs : SyncStep(p)
    \/ Crash

Spec == Init /\ [][Next]_vars

(***************************************************************************)
(* Fairness.  The ticker fires for ever and Run loops over ProcessOpen, so *)
(* every enabled step of the watcher is taken; time passes.  That a check  *)
(* or an update eventually succeeds is asked of the invoices in Reliable   *)
(* alone, again and again because a failure intervenes, and nothing at all *)
(* of a request: clients stop when they please, but a request that has     *)
(* reached Sync runs to its end.                                           *)
(***************************************************************************)
Fairness ==
    /\ WF_vars(Tick)
    /\ WF_vars(WatcherList)
    /\ \A i \in Ids : WF_vars(WatcherNext(i))
    /\ \A p \in Procs : WF_vars(SyncStep(p))
    /\ \A i \in Reliable :
          /\ SF_vars(proc[Watcher].id = i /\ CheckPayment(Watcher))
          /\ SF_vars(proc[Watcher].id = i /\ Update(Watcher))

FairSpec == Spec /\ Fairness

-----------------------------------------------------------------------------
(* Properties.                                                             *)

TypeOK ==
    /\ now \in 0..MaxTime
    /\ repo \in [Ids -> Invoice]
    /\ ledger \in [Ids -> Observation]
    /\ queue \in [Ids -> Invoice]
    /\ proc \in [Procs -> Proc]
    /\ events \in [Ids -> Seq([prev: Statuses \cup {NotCreated}, status: Statuses])]
    /\ moves \in 0..MaxMoves /\ crashes \in 0..MaxCrashes
    /\ funded \in [Ids -> BOOLEAN] /\ retracted \in [Ids -> BOOLEAN]

\* An invoice whose record is settled was funded at some moment by a payment
\* that met the amount with enough confirmations, and the record shows that
\* payment, not a mix of two observations.  It holds for every invoice, the
\* ones a stale copy overwrites included: a copy carries a decision and the
\* observation it was made from together (service.go decide, Sync).
SettledRecord(i, inv) ==
    IsSettled(inv.status) =>
        /\ funded[i]
        /\ inv.received >= Amount[i]
        /\ inv.confs >= Required[i]
        /\ inv.status = "overpaid" <=> inv.received > Amount[i]

NoFalsePaid == \A i \in Ids : SettledRecord(i, repo[i])

\* No settlement of an invoice is announced unless it was once funded in full
\* and deep enough, whatever goroutine called Emit and however stale its copy
\* (service.go Sync, emitter.Emit).
NoFalseReceipt ==
    \A i \in Ids : \A k \in 1..Len(events[i]) :
        IsSettled(events[i][k].status) => funded[i]

\* PaidAt dates exactly the settled records, and never a moment to come:
\* a copy written over a newer record takes its PaidAt along.
PaidAtDatesSettlement ==
    \A i \in Ids :
        /\ IsSettled(repo[i].status) <=> repo[i].paidAt # NoTime
        /\ repo[i].paidAt <= now

\* invoice.go IsTerminal: "will never change again", for the invoices only
\* the watcher syncs.  Nothing in Update checks the stored status; it is the
\* single watcher, its list of open invoices and the early return of Sync
\* that together keep a terminal record as it is.
TerminalIsFinal ==
    [][\A i \in Native : IsTerminal(repo[i].status) => repo'[i] = repo[i]]_vars

\* The same words, said of a sandbox invoice.
SandboxTerminalIsFinal ==
    [][\A i \in Mock : IsTerminal(repo[i].status) => repo'[i].status = repo[i].status]_vars

\* A watcher's invoice in "confirming" has its money: it is not expired, at
\* however late a look, unless the chain took a covering payment back.  Expiry
\* and observation are read at different moments, so this is not decide alone.
\* (On a sandbox invoice a stale "expired" can be written over "confirming".)
NoExpiryWhileCovered ==
    [][\A i \in Native :
         repo[i].status = "confirming" /\ repo'[i].status = "expired" => retracted[i]]_vars

\* As long as the process has not crashed, the events of a watcher's invoice
\* retell its life: each continues where the one before it stopped, and the
\* last one names the stored status unless it is being emitted right now.
Told(i) == IF events[i] = <<>> THEN "pending" ELSE events[i][Len(events[i])].status
Telling(i) == proc[Watcher].pc = "emit" /\ proc[Watcher].id = i

StoryIsComplete ==
    crashes = 0 => \A i \in Native :
        /\ \A k \in 1..Len(events[i]) :
              events[i][k].prev = IF k = 1 THEN "pending" ELSE events[i][k-1].status
        /\ repo[i].status # NotCreated =>
              Told(i) = IF Telling(i) THEN proc[Watcher].prev ELSE repo[i].status

\* The abstract lifecycle, for the invoices only the watcher touches: a change
\* is owed from the Update that stores it to the Emit that announces it.
aStatus == [i \in Native |-> repo[i].status]
aOwed   == [i \in Native |->
              IF Telling(i)
              THEN [prev |-> proc[Watcher].prev, status |-> proc[Watcher].inv.status]
              ELSE [prev |-> NotCreated, status |-> NotCreated]]
aLog    == [i \in Native |-> events[i]]

Lifecycle == INSTANCE InvoiceLifecycle WITH
    Invoices <- Native, status <- aStatus, owed <- aOwed, log <- aLog

ImplementsLifecycle == Lifecycle!Spec

\* "paid", "overpaid" or "expired" is the last change of a watcher's invoice
\* that is handed to the emitter, whatever copies and crashes came before, and
\* the store agrees with it (service.go Sync).
FinalWord == Lifecycle!FinalWord

\* An invoice whose payment is there for good, or has gone for good, reaches
\* a terminal status and keeps it, even if the check of every other invoice
\* fails for ever: service.go ProcessOpen, "one bad invoice must not stall
\* the rest".  A covering payment that never gets its confirmations is the
\* one case left out: such an invoice stays in "confirming".
PaidOrGone(i) ==
    \/ <>[](repo[i].status # NotCreated /\ Deep(ledger[i], Amount[i], Required[i]))
    \/ <>[](repo[i].status # NotCreated /\ ~Covers(ledger[i], Amount[i]))

Resolves == \A i \in Reliable : PaidOrGone(i) => <>[]IsTerminal(repo[i].status)
=============================================================================
