------------------------- MODULE InvoiceSync_proofs -------------------------
(***************************************************************************)
(* Proofs about InvoiceSync, for any number of invoices and goroutines.    *)
(*                                                                         *)
(* The inductive invariant says three things of every copy of an invoice,  *)
(* in the repository, in the watcher's queue or in a goroutine's hands:    *)
(* it is sound (Sound, Held), and if only the watcher touches the invoice  *)
(* it is fresh (Fresh), and its expiry can only follow a retraction        *)
(* (Tracks).                                                               *)
(*                                                                         *)
(* Every step is a step or a stutter of InvoiceLifecycle; what is proved   *)
(* of that module (LifeInv) is then carried over.                          *)
(***************************************************************************)
EXTENDS InvoiceSync, TLAPS

InSync   == {"check", "decide", "update", "emit"}
InFlight == InSync \cup {"pay"}

RecordSound(i, inv) ==
    /\ SettledRecord(i, inv)
    /\ IsSettled(inv.status) <=> inv.paidAt # NoTime
    /\ inv.paidAt <= now

Sound ==
    \A i \in Ids :
        /\ RecordSound(i, repo[i])
        /\ RecordSound(i, queue[i])
        /\ Deep(ledger[i], Amount[i], Required[i]) => funded[i]
        /\ \A k \in 1..Len(events[i]) : IsSettled(events[i][k].status) => funded[i]

Held(p) ==
    proc[p].pc \in InFlight =>
        /\ proc[p].id \in Ids
        /\ proc[p].inv.status \in Statuses
        /\ RecordSound(proc[p].id, proc[p].inv)
        /\ p # Watcher => proc[p].id \in Mock
        /\ proc[p].pc \in {"check", "decide"} => proc[p].inv.status \in OpenStatuses
        /\ proc[p].pc = "decide" /\ Deep(proc[p].obs, Amount[proc[p].id], Required[proc[p].id])
             => funded[proc[p].id]

\* The watcher's copy of an invoice no handler touches, at each stage.
Fresh ==
    LET w == proc[Watcher] IN
    /\ w.pc \in InSync \cup {"idle"}
    /\ \A i \in Native : queue[i] # Absent =>
           queue[i] = repo[i] /\ repo[i].status \in OpenStatuses
    /\ w.pc \in InSync /\ w.id \in Native =>
        /\ queue[w.id] = Absent
        /\ w.pc \in {"check", "decide"} => w.inv = repo[w.id]
        /\ w.pc = "update" => w.prev = repo[w.id].status /\ w.prev \in OpenStatuses
        /\ w.pc = "emit" => /\ w.inv.status = repo[w.id].status
                            /\ w.prev \in OpenStatuses
                            /\ w.prev # w.inv.status

\* ListOpen returns open invoices only, so the copies still queued are open.
ListedOpen ==
    \A i \in Ids : queue[i] # Absent => queue[i].status \in OpenStatuses

IInv == TypeOK /\ Sound /\ ListedOpen /\ (\A p \in Procs : Held(p)) /\ Fresh

-----------------------------------------------------------------------------
(* Facts about the definitions the model is built from.                    *)

\* decide never settles on less than the amount or too few confirmations,
\* and tells an overpayment from an exact one.
LEMMA DecideFailsClosed ==
  ASSUME NEW obs \in Observation, NEW amount \in Nat \ {0},
         NEW required \in Nat \ {0}, NEW expired \in BOOLEAN
  PROVE  LET s == Decide(obs, amount, required, expired) IN
         /\ s \in Statuses
         /\ IsSettled(s) => Deep(obs, amount, required)
         /\ s = "overpaid" => obs.received > amount
         /\ s = "paid" => obs.received = amount
         /\ s = "expired" => ~Covers(obs, amount) /\ expired
BY DEF Decide, Observation, Statuses, IsSettled, Deep, Covers, Unfunded

LEMMA StatusFacts ==
  /\ NotCreated \notin Statuses
  /\ OpenStatuses = {s \in Statuses : ~IsTerminal(s)}
  /\ \A s \in OpenStatuses : ~IsSettled(s)
  /\ ~IsSettled(NotCreated) /\ ~IsTerminal(NotCreated)
BY DEF NotCreated, Statuses, OpenStatuses, IsTerminal, IsSettled

LEMMA ConstantTypes ==
  ASSUME SyncAssumption
  PROVE  /\ MaxTime \in Nat /\ MaxMoves \in Nat /\ MaxCrashes \in Nat
         /\ Window \in Nat \ {0}
         /\ \A i \in Ids : Amount[i] \in Nat \ {0} /\ Required[i] \in Nat \ {0}
         /\ Mock \subseteq Ids
         /\ Watcher \in Procs /\ Watcher \notin Handlers
BY DEF SyncAssumption, Procs

\* The clock and every date compare as numbers.
LEMMA DatesAreNumbers ==
  ASSUME SyncAssumption, TypeOK
  PROVE  /\ now \in Nat
         /\ \A i \in Ids : repo[i].paidAt \in Int /\ queue[i].paidAt \in Int
         /\ \A p \in Procs : proc[p].inv.paidAt \in Int
<1>1. \A inv \in Invoice : inv.paidAt \in Int
  BY DEF Invoice, NoTime
<1>2. now \in Nat
  BY ConstantTypes DEF TypeOK
<1>3. \A i \in Ids : repo[i] \in Invoice /\ queue[i] \in Invoice
  BY DEF TypeOK
<1>4. \A p \in Procs : proc[p].inv \in Invoice
  BY DEF TypeOK, Proc
<1> QED BY <1>1, <1>2, <1>3, <1>4

LEMMA AbsentIsSound ==
  ASSUME TypeOK, NEW i \in Ids
  PROVE  Absent \in Invoice /\ RecordSound(i, Absent)
BY StatusFacts DEF TypeOK, Absent, Invoice, RecordSound, SettledRecord, NoTime

LEMMA AtFacts ==
  ASSUME NEW stage \in Stages
  PROVE  At(stage) \in Proc /\ At(stage).pc = stage
BY DEF At, Doing, Proc, Absent, Invoice, NothingSeen, Observation, NoTime

\* Whoever returns from Sync holds nothing, and the watcher is idle again.
LEMMA ReturnedFacts ==
  ASSUME NEW p \in Procs
  PROVE  /\ Returned(p) \in Proc
         /\ Returned(p).pc \notin InFlight
         /\ Returned(Watcher).pc = "idle"
BY AtFacts DEF Returned, Stages, InFlight, InSync

\* The record Sync makes of a sound, open copy and an observation it read.
LEMMA AdvanceIsSound ==
  ASSUME SyncAssumption, NEW i \in Ids, TypeOK,
         NEW inv \in Invoice, NEW obs \in Observation,
         RecordSound(i, inv), inv.status \in OpenStatuses,
         Deep(obs, Amount[i], Required[i]) => funded[i]
  PROVE  /\ Advance(i, inv, obs) \in Invoice
         /\ Advance(i, inv, obs).status \in Statuses
         /\ RecordSound(i, Advance(i, inv, obs))
<1> DEFINE next == Decide(obs, Amount[i], Required[i], now > inv.expiresAt)
           new == Advance(i, inv, obs)
<1>1. /\ Amount[i] \in Nat \ {0} /\ Required[i] \in Nat \ {0}
      /\ now \in Nat /\ (now > inv.expiresAt) \in BOOLEAN
  BY DEF SyncAssumption, TypeOK, Invoice
<1>2. /\ next \in Statuses
      /\ IsSettled(next) => Deep(obs, Amount[i], Required[i])
      /\ next = "overpaid" => obs.received > Amount[i]
      /\ next = "paid" => obs.received = Amount[i]
  BY <1>1, DecideFailsClosed
<1>3. inv.paidAt = NoTime /\ ~IsSettled(inv.status)
  BY StatusFacts DEF RecordSound
<1> HIDE DEF next
<1>4. /\ new.status = next
      /\ new.received = IF obs.seen THEN obs.received ELSE inv.received
      /\ new.confs = IF obs.seen THEN obs.confs ELSE inv.confs
      /\ new.paidAt = IF IsSettled(next) THEN now ELSE NoTime
      /\ new \in Invoice
  BY <1>1, <1>2, <1>3 DEF Advance, Invoice, Observation, NoTime, next
<1>5. RecordSound(i, new)
  BY <1>1, <1>2, <1>4 DEF RecordSound, SettledRecord, Deep, Covers, IsSettled, NoTime, Observation
<1> QED BY <1>2, <1>4, <1>5

-----------------------------------------------------------------------------
(* The invariant holds initially and every action preserves it.            *)

LEMMA InitIInv == SyncAssumption /\ Init => IInv
<1> SUFFICES ASSUME SyncAssumption, Init PROVE IInv
  OBVIOUS
<1>1. TypeOK
  BY AtFacts DEF SyncAssumption, Init, TypeOK, Absent, Invoice, NothingSeen,
     Observation, NoTime, Procs, Stages
<1>2. Sound
  BY <1>1, AbsentIsSound DEF Init, Sound, Deep, Covers, NothingSeen
<1>3. \A p \in Procs : Held(p)
  BY AtFacts DEF Init, Held, InFlight, InSync, Stages
<1>4. Fresh
  BY AtFacts DEF Init, Fresh, InSync, Stages, Native, Procs
<1> QED BY <1>1, <1>2, <1>3, <1>4 DEF IInv, Init, ListedOpen

LEMMA TickIInv ==
  ASSUME SyncAssumption, IInv, Tick
  PROVE  IInv'
<1> USE DEF IInv
<1>1. /\ now \in Nat /\ now < MaxTime /\ now' = now + 1
      /\ UNCHANGED <<repo, ledger, queue, proc, events, moves, crashes, funded, retracted>>
  BY DatesAreNumbers DEF Tick, bounds, history
<1>2. TypeOK'
  <2>1. now' \in 0..MaxTime
    BY <1>1, ConstantTypes
  <2> QED BY <1>1, <2>1 DEF TypeOK
<1>3. Sound'
  BY <1>1, DatesAreNumbers DEF Sound, RecordSound, SettledRecord
<1>4. \A p \in Procs : Held(p)'
  <2> SUFFICES ASSUME NEW p \in Procs PROVE Held(p)'
    OBVIOUS
  <2>1. Held(p)
    OBVIOUS
  <2> QED BY <1>1, <2>1, DatesAreNumbers DEF Held, RecordSound, SettledRecord
<1>5. Fresh'
  BY <1>1 DEF Fresh
<1> QED BY <1>1, <1>2, <1>3, <1>4, <1>5 DEF ListedOpen

LEMMA CreateIInv ==
  ASSUME SyncAssumption, IInv, NEW i \in Ids, Create(i)
  PROVE  IInv'
<1> USE DEF IInv
<1>1. /\ repo' = [repo EXCEPT ![i] = NewInvoice]
      /\ repo[i].status = NotCreated
      /\ UNCHANGED <<now, ledger, queue, proc, events, moves, crashes, funded, retracted>>
  BY DEF Create, bounds, history
<1>2. NewInvoice = [status |-> "pending", received |-> 0, confs |-> 0,
                    paidAt |-> NoTime, expiresAt |-> now + Window]
  BY DEF NewInvoice
<1>3. NewInvoice \in Invoice
  BY <1>2, DatesAreNumbers, ConstantTypes DEF Invoice, Statuses
<1>4. TypeOK'
  BY <1>1, <1>3 DEF TypeOK
<1>5. RecordSound(i, NewInvoice)
  BY <1>2, DatesAreNumbers DEF RecordSound, SettledRecord, IsSettled, NoTime
<1>6. Sound'
  BY <1>1, <1>5 DEF Sound, RecordSound, SettledRecord, TypeOK
<1>7. \A p \in Procs : Held(p)'
  BY <1>1 DEF Held, RecordSound, SettledRecord
<1>8. \A j \in Ids : j # i => repo'[j] = repo[j]
  BY <1>1 DEF TypeOK
<1>9. Fresh'
  <2>1. \A s \in Statuses : s # repo[i].status
    BY <1>1, StatusFacts
  <2>2. repo[i].status \notin OpenStatuses
    BY <2>1, StatusFacts
  <2>3. queue[i] = Absent \/ i \notin Native
    BY <2>2 DEF Fresh
  <2>4. Held(Watcher)
    BY ConstantTypes
  <2>5. ~(proc[Watcher].pc \in InSync /\ proc[Watcher].id = i /\ i \in Native)
    <3>1. proc[Watcher].pc \in InSync => proc[Watcher].inv.status \in Statuses
      BY <2>4 DEF Held, InFlight
    <3> QED BY <2>1, <2>2, <3>1 DEF Fresh, InSync
  <2> QED BY <1>1, <1>8, <2>3, <2>5 DEF Fresh, Native
<1> QED BY <1>1, <1>4, <1>6, <1>7, <1>9 DEF ListedOpen

\* Crediting an address keeps every record sound: funded only grows.
LEMMA CreditFacts ==
  ASSUME SyncAssumption, IInv, NEW i \in Ids, NEW obs \in Observation, Credit(i, obs)
  PROVE  /\ ledger' \in [Ids -> Observation]
         /\ funded' \in [Ids -> BOOLEAN] /\ retracted' \in [Ids -> BOOLEAN]
         /\ \A j \in Ids : funded[j] => funded'[j]
         /\ \A j \in Ids : Deep(ledger'[j], Amount[j], Required[j]) => funded'[j]
<1> USE DEF IInv, Credit
<1>1. Deep(obs, Amount[i], Required[i]) \in BOOLEAN
  BY DEF Deep, Covers, Observation, SyncAssumption
<1>2. (Covers(ledger[i], Amount[i]) /\ ~Covers(obs, Amount[i])) \in BOOLEAN
  BY DEF Covers, Observation, SyncAssumption, TypeOK
<1>3. /\ ledger' \in [Ids -> Observation]
      /\ funded' \in [Ids -> BOOLEAN] /\ retracted' \in [Ids -> BOOLEAN]
  BY <1>1, <1>2 DEF TypeOK
<1>4. \A j \in Ids : funded[j] => funded'[j]
  BY DEF TypeOK
<1>5. \A j \in Ids : Deep(ledger'[j], Amount[j], Required[j]) => funded'[j]
  BY <1>4 DEF TypeOK, Sound
<1> QED BY <1>3, <1>4, <1>5

LEMMA ChainMovesIInv ==
  ASSUME SyncAssumption, IInv, NEW i \in Ids, ChainMoves(i)
  PROVE  IInv'
<1>1. PICK obs \in ChainReports : Credit(i, obs)
  BY DEF ChainMoves
<1>2. obs \in Observation
  BY DEF SyncAssumption
<1>3. /\ ledger' \in [Ids -> Observation]
      /\ funded' \in [Ids -> BOOLEAN] /\ retracted' \in [Ids -> BOOLEAN]
      /\ \A j \in Ids : funded[j] => funded'[j]
      /\ \A j \in Ids : Deep(ledger'[j], Amount[j], Required[j]) => funded'[j]
  BY <1>1, <1>2, CreditFacts
<1>4. /\ UNCHANGED <<now, repo, queue, proc, events, crashes>>
      /\ moves' = moves + 1 /\ moves < MaxMoves
  BY DEF ChainMoves
<1> USE DEF IInv
<1>5. TypeOK'
  <2>1. moves \in 0..MaxMoves => moves' \in 0..MaxMoves
    BY <1>4, ConstantTypes
  <2> QED BY <1>3, <1>4, <2>1 DEF TypeOK
<1>6. Sound'
  BY <1>3, <1>4 DEF Sound, RecordSound, SettledRecord
<1>7. \A p \in Procs : Held(p)'
  BY <1>3, <1>4 DEF Held, RecordSound, SettledRecord
<1>8. Fresh'
  BY <1>4 DEF Fresh
<1> QED BY <1>4, <1>5, <1>6, <1>7, <1>8 DEF ListedOpen

LEMMA WatcherListIInv ==
  ASSUME SyncAssumption, IInv, WatcherList
  PROVE  IInv'
<1> USE DEF IInv
<1>1. /\ proc[Watcher].pc = "idle"
      /\ queue' = [i \in Ids |-> IF repo[i].status \in OpenStatuses THEN repo[i] ELSE Absent]
      /\ UNCHANGED <<now, repo, ledger, proc, events, moves, crashes, funded, retracted>>
  BY DEF WatcherList, bounds, history
<1>2. \A i \in Ids : Absent \in Invoice /\ RecordSound(i, Absent)
  BY AbsentIsSound
<1>3. TypeOK'
  BY <1>1, <1>2 DEF TypeOK
<1>4. Sound'
  BY <1>1, <1>2 DEF Sound, RecordSound, SettledRecord
<1>5. \A p \in Procs : Held(p)'
  BY <1>1 DEF Held, RecordSound, SettledRecord
<1>6. Fresh'
  BY <1>1 DEF Fresh, InSync, Native
<1> QED BY <1>1, <1>3, <1>4, <1>5, <1>6 DEF ListedOpen

LEMMA WatcherNextIInv ==
  ASSUME SyncAssumption, IInv, NEW i \in Ids, WatcherNext(i)
  PROVE  IInv'
<1> USE DEF IInv
<1> DEFINE held == [pc |-> "check", id |-> i, inv |-> queue[i], obs |-> NothingSeen,
                    prev |-> NotCreated]
<1>1. /\ queue[i] # Absent
      /\ proc' = [proc EXCEPT ![Watcher] = held]
      /\ queue' = [queue EXCEPT ![i] = Absent]
      /\ UNCHANGED <<now, repo, ledger, events, moves, crashes, funded, retracted>>
  BY DEF WatcherNext, bounds, history, Syncing, Doing
<1>2. Absent \in Invoice /\ RecordSound(i, Absent)
  BY AbsentIsSound
<1>3. queue[i] \in Invoice /\ RecordSound(i, queue[i])
  BY DEF TypeOK, Sound
<1>4. held \in Proc
  BY <1>3 DEF Proc, Stages, Observation, NothingSeen
<1>5. TypeOK'
  BY <1>1, <1>2, <1>4 DEF TypeOK
<1>6. Sound'
  BY <1>1, <1>2 DEF Sound, RecordSound, SettledRecord, TypeOK
<1>7. queue[i].status \in OpenStatuses
  BY <1>1 DEF ListedOpen
<1>8. \A p \in Procs : Held(p)'
  BY <1>1, <1>3, <1>7, ConstantTypes, StatusFacts
  DEF Held, RecordSound, SettledRecord, TypeOK
<1>9. Fresh'
  BY <1>1, ConstantTypes DEF Fresh, InSync, TypeOK, Native
<1> QED BY <1>5, <1>6, <1>8, <1>9, <1>1 DEF ListedOpen, TypeOK

\* A goroutine that drops its copy takes nothing away from the invariant.
LEMMA ReturnIInv ==
  ASSUME SyncAssumption, IInv, NEW p \in Procs, Return(p),
         UNCHANGED <<now, repo, ledger, queue, events, moves, crashes, funded, retracted>>
  PROVE  IInv'
<1> USE DEF IInv
<1>1. /\ proc' = [proc EXCEPT ![p] = Returned(p)]
      /\ Returned(p) \in Proc
      /\ Returned(p).pc \notin InFlight
      /\ p = Watcher => Returned(p).pc = "idle"
  BY ReturnedFacts DEF Return
<1>2. TypeOK'
  BY <1>1 DEF TypeOK
<1>3. Sound' /\ ListedOpen'
  BY DEF Sound, RecordSound, SettledRecord, ListedOpen
<1>4. \A q \in Procs : Held(q)'
  BY <1>1 DEF Held, RecordSound, SettledRecord, TypeOK
<1>5. Fresh'
  BY <1>1, ConstantTypes DEF Fresh, InSync, TypeOK
<1> QED BY <1>2, <1>3, <1>4, <1>5

LEMMA HandlerGetIInv ==
  ASSUME SyncAssumption, IInv, NEW h \in Handlers, NEW i \in Ids, HandlerGet(h, i)
  PROVE  IInv'
<1> USE DEF IInv
<1> DEFINE held == [pc |-> "pay", id |-> i, inv |-> repo[i], obs |-> NothingSeen,
                    prev |-> NotCreated]
<1>1. /\ i \in Mock /\ repo[i].status # NotCreated
      /\ proc' = [proc EXCEPT ![h] = held]
      /\ UNCHANGED <<now, repo, ledger, queue, events, moves, crashes, funded, retracted>>
  BY DEF HandlerGet, bounds, history, Syncing, Doing
<1>2. repo[i] \in Invoice /\ RecordSound(i, repo[i]) /\ repo[i].status \in Statuses
  BY <1>1 DEF TypeOK, Sound, Invoice
<1>3. held \in Proc
  BY <1>2 DEF Proc, Stages, Observation, NothingSeen
<1>4. h \in Procs /\ h # Watcher
  BY ConstantTypes DEF Procs
<1>5. TypeOK'
  BY <1>1, <1>3, <1>4 DEF TypeOK
<1>6. Sound' /\ ListedOpen'
  BY <1>1 DEF Sound, RecordSound, SettledRecord, ListedOpen
<1>7. \A p \in Procs : Held(p)'
  BY <1>1, <1>2, <1>4 DEF Held, RecordSound, SettledRecord, TypeOK
<1>8. Fresh'
  BY <1>1, <1>4 DEF Fresh, TypeOK
<1> QED BY <1>5, <1>6, <1>7, <1>8

LEMMA HandlerPayIInv ==
  ASSUME SyncAssumption, IInv, NEW h \in Handlers, NEW obs \in Payments, HandlerPay(h, obs)
  PROVE  IInv'
<1> USE DEF IInv
<1> DEFINE i == proc[h].id
           inv == proc[h].inv
           held == [pc |-> "check", id |-> i, inv |-> inv, obs |-> NothingSeen,
                    prev |-> NotCreated]
<1>1. h \in Procs /\ h # Watcher /\ obs \in Observation
  BY ConstantTypes DEF Procs, SyncAssumption
<1>2. /\ proc[h].pc = "pay"
      /\ Credit(i, obs)
      /\ proc' = [proc EXCEPT ![h] = IF IsTerminal(inv.status) THEN Returned(h) ELSE held]
      /\ UNCHANGED <<now, repo, queue, events, moves, crashes>>
  BY DEF HandlerPay, bounds, Syncing, Doing
<1>3. i \in Ids /\ i \in Mock /\ inv.status \in Statuses /\ RecordSound(i, inv) /\ inv \in Invoice
  BY <1>1, <1>2 DEF Held, InFlight, TypeOK, Proc
<1>4. /\ ledger' \in [Ids -> Observation]
      /\ funded' \in [Ids -> BOOLEAN] /\ retracted' \in [Ids -> BOOLEAN]
      /\ \A j \in Ids : funded[j] => funded'[j]
      /\ \A j \in Ids : Deep(ledger'[j], Amount[j], Required[j]) => funded'[j]
  BY <1>1, <1>2, <1>3, CreditFacts
<1>5. Returned(h) \in Proc /\ Returned(h).pc \notin InFlight
  BY <1>1, ReturnedFacts
<1>6. held \in Proc
  BY <1>3 DEF Proc, Stages, Observation, NothingSeen
<1>7. TypeOK'
  BY <1>1, <1>2, <1>4, <1>5, <1>6 DEF TypeOK
<1>8. Sound' /\ ListedOpen'
  BY <1>2, <1>4 DEF Sound, RecordSound, SettledRecord, ListedOpen
<1>9. ~IsTerminal(inv.status) => inv.status \in OpenStatuses
  BY <1>3, StatusFacts
<1>10. Held(h)'
  <2>1. CASE IsTerminal(inv.status)
    BY <2>1, <1>1, <1>2, <1>5 DEF Held, TypeOK
  <2>2. CASE ~IsTerminal(inv.status)
    <3>1. proc'[h] = held
      BY <2>2, <1>1, <1>2 DEF TypeOK
    <3> QED BY <3>1, <2>2, <1>1, <1>2, <1>3, <1>4, <1>9 DEF Held, RecordSound, SettledRecord
  <2> QED BY <2>1, <2>2
<1>11. ASSUME NEW p \in Procs, p # h PROVE Held(p)'
  <2>1. Held(p) /\ proc'[p] = proc[p]
    BY <1>2, <1>11 DEF TypeOK
  <2> QED BY <1>2, <1>4, <2>1 DEF Held, RecordSound, SettledRecord
<1>12. Fresh'
  BY <1>1, <1>2, ConstantTypes DEF Fresh, TypeOK
<1> QED BY <1>7, <1>8, <1>10, <1>11, <1>12

LEMMA CheckPaymentIInv ==
  ASSUME SyncAssumption, IInv, NEW p \in Procs, CheckPayment(p)
  PROVE  IInv'
<1> USE DEF IInv
<1> DEFINE i == proc[p].id
           inv == proc[p].inv
           held == [pc |-> "decide", id |-> i, inv |-> inv, obs |-> ledger[i],
                    prev |-> NotCreated]
<1>1. /\ proc[p].pc = "check"
      /\ proc' = [proc EXCEPT ![p] = held]
      /\ UNCHANGED <<now, repo, ledger, queue, events, moves, crashes, funded, retracted>>
  BY DEF CheckPayment, bounds, history, Doing
<1>2. /\ i \in Ids /\ RecordSound(i, inv) /\ inv \in Invoice
      /\ inv.status \in OpenStatuses /\ inv.status \in Statuses
      /\ p # Watcher => i \in Mock
  BY <1>1 DEF Held, InFlight, InSync, TypeOK, Proc
<1>3. ledger[i] \in Observation /\ (Deep(ledger[i], Amount[i], Required[i]) => funded[i])
  BY <1>2 DEF TypeOK, Sound
<1>4. held \in Proc
  BY <1>2, <1>3 DEF Proc, Stages
<1>5. proc'[p] = held /\ \A q \in Procs : q # p => proc'[q] = proc[q]
  BY <1>1 DEF TypeOK
<1>6. TypeOK'
  BY <1>1, <1>4 DEF TypeOK
<1>7. Sound' /\ ListedOpen'
  BY <1>1 DEF Sound, RecordSound, SettledRecord, ListedOpen
<1>8. \A q \in Procs : Held(q)'
  BY <1>1, <1>2, <1>3, <1>5 DEF Held, RecordSound, SettledRecord
<1>9. Fresh'
  BY <1>1, <1>5, ConstantTypes DEF Fresh, InSync
<1> QED BY <1>6, <1>7, <1>8, <1>9

LEMMA DecideStepIInv ==
  ASSUME SyncAssumption, IInv, NEW p \in Procs, DecideStep(p)
  PROVE  IInv'
<1> USE DEF IInv
<1> DEFINE i == proc[p].id
           inv == proc[p].inv
           new == Advance(i, inv, proc[p].obs)
           held == [pc |-> "update", id |-> i, inv |-> new, obs |-> NothingSeen,
                    prev |-> inv.status]
<1>1. /\ proc[p].pc = "decide"
      /\ proc' = [proc EXCEPT ![p] = held]
      /\ UNCHANGED <<now, repo, ledger, queue, events, moves, crashes, funded, retracted>>
  BY DEF DecideStep, bounds, history, Doing
<1>2. /\ i \in Ids /\ RecordSound(i, inv) /\ inv \in Invoice
      /\ inv.status \in OpenStatuses /\ inv.status \in Statuses
      /\ proc[p].obs \in Observation
      /\ Deep(proc[p].obs, Amount[i], Required[i]) => funded[i]
      /\ p # Watcher => i \in Mock
  BY <1>1 DEF Held, InFlight, InSync, TypeOK, Proc
<1>3. new \in Invoice /\ new.status \in Statuses /\ RecordSound(i, new)
  BY <1>2, AdvanceIsSound
<1> HIDE DEF new
<1>4. held \in Proc
  BY <1>2, <1>3 DEF Proc, Stages, Observation, NothingSeen
<1>5. proc'[p] = held /\ \A q \in Procs : q # p => proc'[q] = proc[q]
  BY <1>1 DEF TypeOK
<1>6. TypeOK'
  BY <1>1, <1>4 DEF TypeOK
<1>7. Sound' /\ ListedOpen'
  BY <1>1 DEF Sound, RecordSound, SettledRecord, ListedOpen
<1>8. \A q \in Procs : Held(q)'
  BY <1>1, <1>2, <1>3, <1>5 DEF Held, RecordSound, SettledRecord
<1>9. Fresh'
  BY <1>1, <1>2, <1>5, ConstantTypes DEF Fresh, InSync
<1> QED BY <1>6, <1>7, <1>8, <1>9

LEMMA UpdateIInv ==
  ASSUME SyncAssumption, IInv, NEW p \in Procs, Update(p)
  PROVE  IInv'
<1> USE DEF IInv
<1> DEFINE i == proc[p].id
           inv == proc[p].inv
           prev == proc[p].prev
           held == [pc |-> "emit", id |-> i, inv |-> inv, obs |-> NothingSeen,
                    prev |-> prev]
           after == IF inv.status # prev THEN held ELSE Returned(p)
           row == Stored(repo[i], inv)
<1>1. /\ proc[p].pc = "update"
      /\ repo' = [repo EXCEPT ![i] = row]
      /\ proc' = [proc EXCEPT ![p] = after]
      /\ UNCHANGED <<now, ledger, queue, events, moves, crashes, funded, retracted>>
  BY DEF Update, bounds, history, Doing
<1>2. /\ i \in Ids /\ RecordSound(i, inv) /\ inv \in Invoice
      /\ inv.status \in Statuses /\ prev \in Statuses \cup {NotCreated}
      /\ p # Watcher => i \in Mock
  BY <1>1 DEF Held, InFlight, InSync, TypeOK, Proc
<1>3. /\ row \in Invoice
      /\ row.status = inv.status /\ row.received = inv.received
      /\ row.confs = inv.confs /\ row.paidAt = inv.paidAt
  BY <1>2 DEF Stored, TypeOK, Invoice
<1>4. held \in Proc /\ Returned(p) \in Proc /\ Returned(p).pc \notin InFlight
  BY <1>2, ReturnedFacts DEF Proc, Stages, Observation, NothingSeen
<1>5. /\ proc'[p] = after /\ \A q \in Procs : q # p => proc'[q] = proc[q]
      /\ repo'[i] = row /\ \A j \in Ids : j # i => repo'[j] = repo[j]
  BY <1>1, <1>2 DEF TypeOK
<1>6. TypeOK'
  BY <1>1, <1>2, <1>3, <1>4 DEF TypeOK
<1>7. RecordSound(i, row)
  BY <1>2, <1>3 DEF RecordSound, SettledRecord
<1> HIDE DEF row
<1>8. Sound' /\ ListedOpen'
  BY <1>1, <1>2, <1>5, <1>7 DEF Sound, RecordSound, SettledRecord, ListedOpen
<1>9. Held(p)'
  <2>1. CASE inv.status # prev
    <3>1. proc'[p] = held
      BY <2>1, <1>5
    <3> QED BY <3>1, <1>1, <1>2 DEF Held, RecordSound, SettledRecord
  <2>2. CASE inv.status = prev
    BY <2>2, <1>4, <1>5 DEF Held
  <2> QED BY <2>1, <2>2
<1>10. ASSUME NEW q \in Procs, q # p PROVE Held(q)'
  <2>1. Held(q) /\ proc'[q] = proc[q]
    BY <1>5, <1>10
  <2> QED BY <1>1, <2>1 DEF Held, RecordSound, SettledRecord
<1>11. Fresh'
  <2>1. CASE p # Watcher
    <3>1. i \notin Native /\ proc'[Watcher] = proc[Watcher]
      BY <2>1, <1>2, <1>5, ConstantTypes DEF Native
    <3> QED BY <3>1, <1>1, <1>5 DEF Fresh, Native
  <2>2. CASE p = Watcher /\ i \notin Native
    <3>1. proc'[Watcher].pc = "idle" \/ proc'[Watcher] = held
      BY <2>2, <1>5, ReturnedFacts
    <3> QED BY <3>1, <2>2, <1>1, <1>5 DEF Fresh, Native, InSync
  <2>3. CASE p = Watcher /\ i \in Native
    <3>1. queue[i] = Absent /\ prev \in OpenStatuses
      BY <2>3, <1>1 DEF Fresh, InSync
    <3>2. \/ proc'[Watcher].pc = "idle"
          \/ proc'[Watcher] = held /\ inv.status # prev
      BY <2>3, <1>5, ReturnedFacts
    <3> QED BY <3>1, <3>2, <2>3, <1>1, <1>3, <1>5 DEF Fresh, InSync
  <2> QED BY <2>1, <2>2, <2>3
<1> QED BY <1>6, <1>8, <1>9, <1>10, <1>11

LEMMA EmitIInv ==
  ASSUME SyncAssumption, IInv, NEW p \in Procs, Emit(p)
  PROVE  IInv'
<1> USE DEF IInv
<1> DEFINE i == proc[p].id
           e == [prev |-> proc[p].prev, status |-> proc[p].inv.status]
<1>1. /\ proc[p].pc = "emit"
      /\ events' = [events EXCEPT ![i] = Append(events[i], e)]
      /\ proc' = [proc EXCEPT ![p] = Returned(p)]
      /\ UNCHANGED <<now, repo, ledger, queue, moves, crashes, funded, retracted>>
  BY DEF Emit, Return, bounds, history
<1>2. /\ i \in Ids /\ e.status \in Statuses
      /\ IsSettled(e.status) => funded[i]
      /\ e \in [prev: Statuses \cup {NotCreated}, status: Statuses]
  BY <1>1 DEF Held, InFlight, InSync, RecordSound, SettledRecord, TypeOK, Proc
<1> HIDE DEF e
<1>3. /\ Returned(p) \in Proc /\ Returned(p).pc \notin InFlight
      /\ p = Watcher => Returned(p).pc = "idle"
  BY ReturnedFacts
<1>4. /\ proc'[p] = Returned(p) /\ \A q \in Procs : q # p => proc'[q] = proc[q]
      /\ events'[i] = Append(events[i], e) /\ \A j \in Ids : j # i => events'[j] = events[j]
  BY <1>1, <1>2 DEF TypeOK
<1>5. TypeOK'
  <2> DEFINE Event == [prev: Statuses \cup {NotCreated}, status: Statuses]
  <2>1. events[i] \in Seq(Event) /\ e \in Event
    BY <1>2 DEF TypeOK
  <2> HIDE DEF Event
  <2>2. Append(events[i], e) \in Seq(Event)
    BY <2>1
  <2>3. Append(events[i], e) \in Seq([prev: Statuses \cup {NotCreated}, status: Statuses])
    BY <2>2 DEF Event
  <2> QED BY <1>1, <1>2, <1>3, <2>3 DEF TypeOK
<1>6. \A k \in 1..Len(events'[i]) : IsSettled(events'[i][k].status) => funded[i]
  BY <1>2, <1>4 DEF Sound, TypeOK
<1>7. \A j \in Ids : \A k \in 1..Len(events'[j]) :
         IsSettled(events'[j][k].status) => funded[j]
  BY <1>4, <1>6 DEF Sound
<1>8. Sound' /\ ListedOpen'
  BY <1>1, <1>7 DEF Sound, RecordSound, SettledRecord, ListedOpen
<1>9. \A q \in Procs : Held(q)'
  BY <1>1, <1>3, <1>4 DEF Held, RecordSound, SettledRecord
<1>10. Fresh'
  BY <1>1, <1>3, <1>4, ConstantTypes DEF Fresh, InSync
<1> QED BY <1>5, <1>8, <1>9, <1>10

LEMMA CrashIInv ==
  ASSUME SyncAssumption, IInv, Crash
  PROVE  IInv'
<1> USE DEF IInv
<1>1. /\ crashes < MaxCrashes /\ crashes' = crashes + 1
      /\ queue' = [i \in Ids |-> Absent]
      /\ ledger' = [i \in Ids |-> IF i \in Mock THEN NothingSeen ELSE ledger[i]]
      /\ retracted' = [i \in Ids |->
             retracted[i] \/ (i \in Mock /\ Covers(ledger[i], Amount[i]))]
      /\ proc' = [p \in Procs |-> IF proc[p].pc = "idle" THEN proc[p] ELSE Returned(p)]
      /\ UNCHANGED <<now, repo, events, moves, funded>>
  BY DEF Crash
<1>2. \A i \in Ids : Absent \in Invoice /\ RecordSound(i, Absent)
  BY AbsentIsSound
<1>3. \A p \in Procs : proc'[p] \in Proc /\ proc'[p].pc \notin InFlight
  BY <1>1, ReturnedFacts DEF TypeOK, InFlight, InSync
<1>4. proc' \in [Procs -> Proc]
  BY <1>1, <1>3
<1>5. \A i \in Ids : /\ ledger'[i] \in Observation
                     /\ Deep(ledger'[i], Amount[i], Required[i]) => funded[i]
  BY <1>1 DEF TypeOK, Sound, NothingSeen, Observation, Deep, Covers
<1>6. crashes' \in 0..MaxCrashes
  BY <1>1, ConstantTypes DEF TypeOK
<1>7. retracted' \in [Ids -> BOOLEAN]
  <2>1. \A i \in Ids : (retracted[i] \/ (i \in Mock /\ Covers(ledger[i], Amount[i]))) \in BOOLEAN
    OBVIOUS
  <2> QED BY <1>1, <2>1
<1>8. TypeOK'
  BY <1>1, <1>2, <1>4, <1>5, <1>6, <1>7 DEF TypeOK
<1>9. Sound' /\ ListedOpen'
  BY <1>1, <1>2, <1>5 DEF Sound, RecordSound, SettledRecord, ListedOpen
<1>10. \A p \in Procs : Held(p)'
  BY <1>3 DEF Held
<1>11. Fresh'
  <2>1. proc'[Watcher].pc = "idle"
    BY <1>1, ReturnedFacts, ConstantTypes
  <2> QED BY <1>1, <2>1 DEF Fresh, InSync, Native
<1> QED BY <1>8, <1>9, <1>10, <1>11

LEMMA NextIInv == SyncAssumption /\ IInv /\ [Next]_vars => IInv'
<1> SUFFICES ASSUME SyncAssumption, IInv, [Next]_vars PROVE IInv'
  OBVIOUS
<1>1. CASE Tick
  BY <1>1, TickIInv
<1>2. CASE \E i \in Ids : Create(i) \/ ChainMoves(i)
  BY <1>2, CreateIInv, ChainMovesIInv
<1>3. CASE WatcherList
  BY <1>3, WatcherListIInv
<1>4. CASE \E i \in Ids : WatcherNext(i)
  BY <1>4, WatcherNextIInv
<1>5. CASE \E h \in Handlers, i \in Ids : HandlerGet(h, i)
  BY <1>5, HandlerGetIInv
<1>6. CASE \E h \in Handlers, obs \in Payments : HandlerPay(h, obs)
  BY <1>6, HandlerPayIInv
<1>7. CASE \E p \in Procs : SyncStep(p)
  <2>1. PICK p \in Procs : SyncStep(p)
    BY <1>7
  <2>2. CASE CheckFails(p)
    BY <2>2, ReturnIInv DEF CheckFails, bounds, history
  <2>3. CASE UpdateFails(p)
    BY <2>3, ReturnIInv DEF UpdateFails, bounds, history
  <2> QED BY <2>1, <2>2, <2>3, CheckPaymentIInv, DecideStepIInv, UpdateIInv, EmitIInv
          DEF SyncStep
<1>8. CASE Crash
  BY <1>8, CrashIInv
<1>9. CASE UNCHANGED vars
  <2>1. UNCHANGED <<now, repo, ledger, queue, proc, events, moves, crashes, funded, retracted>>
    BY <1>9 DEF vars, bounds, history
  <2>2. TypeOK' /\ Sound' /\ ListedOpen' /\ Fresh'
    BY <2>1 DEF IInv, TypeOK, Sound, RecordSound, SettledRecord, ListedOpen, Fresh
  <2>3. \A p \in Procs : Held(p)'
    BY <2>1 DEF IInv, Held, RecordSound, SettledRecord
  <2> QED BY <2>2, <2>3 DEF IInv
<1>10. CASE \E h \in Handlers : HandlerRefuse(h)
  BY <1>10, ReturnIInv DEF HandlerRefuse, bounds, history, Procs
<1> QED BY <1>1, <1>2, <1>3, <1>4, <1>5, <1>6, <1>7, <1>8, <1>9, <1>10 DEF Next

THEOREM Invariance == Spec => []IInv
<1>1. Init => IInv
  BY InitIInv, SyncAssumption
<1>2. IInv /\ [Next]_vars => IInv'
  BY NextIInv, SyncAssumption
<1> QED BY <1>1, <1>2, PTL DEF Spec

-----------------------------------------------------------------------------
(* The theorems.                                                           *)

\* The declared types hold for any number of invoices, requests and crashes.
THEOREM TypeCorrect == Spec => []TypeOK
<1>1. IInv => TypeOK
  BY DEF IInv
<1> QED BY <1>1, Invariance, PTL

\* decide fails closed and no interleaving of Sync undoes it: whatever copy is
\* written over whatever record, a settled record shows a payment that met the
\* amount with enough confirmations and that the chain really reported.
THEOREM NeverFalselyPaid == Spec => []NoFalsePaid
<1>1. IInv => NoFalsePaid
  BY DEF IInv, Sound, RecordSound, NoFalsePaid
<1> QED BY <1>1, Invariance, PTL

\* Nor is a settlement announced of a payment the chain never reported (Sync).
THEOREM NeverFalselyAnnounced == Spec => []NoFalseReceipt
<1>1. IInv => NoFalseReceipt
  BY DEF IInv, Sound, NoFalseReceipt
<1> QED BY <1>1, Invariance, PTL

\* PaidAt is set on the settled records and on no other, and is in the past.
THEOREM PaidAtIsSettlement == Spec => []PaidAtDatesSettlement
<1>1. IInv => PaidAtDatesSettlement
  BY DEF IInv, Sound, RecordSound, PaidAtDatesSettlement
<1> QED BY <1>1, Invariance, PTL

\* One watcher and no handler: only the watcher's Update writes a Native
\* record, and its copy was open and equal to the record it overwrites.
LEMMA OnlyFreshCopiesAreWritten ==
  ASSUME IInv, [Next]_vars, NEW i \in Native, repo[i].status # NotCreated,
         repo'[i] # repo[i]
  PROVE  /\ proc[Watcher].id = i
         /\ Update(Watcher)
         /\ repo[i].status \in OpenStatuses
<1> USE DEF IInv
<1>1. i \in Ids /\ i \notin Mock
  BY DEF Native
<1>2. CASE \E j \in Ids : Create(j) \/ ChainMoves(j)
  BY <1>1, <1>2 DEF Create, ChainMoves, TypeOK
<1>3. CASE \E p \in Procs : SyncStep(p)
  <2>1. PICK p \in Procs : SyncStep(p)
    BY <1>3
  <2>2. Update(p)
    BY <2>1 DEF SyncStep, CheckPayment, CheckFails, DecideStep, UpdateFails, Emit
  <2>3. proc[p].id = i /\ proc[p].pc = "update"
    BY <2>2 DEF Update, TypeOK
  <2>4. p = Watcher
    BY <1>1, <2>3 DEF Held, InFlight, InSync
  <2> QED BY <2>2, <2>3, <2>4 DEF Fresh, InSync
<1> QED BY <1>2, <1>3 DEF Next, vars, Tick, WatcherList, WatcherNext, HandlerGet, HandlerPay,
        HandlerRefuse, Crash

\* A terminal record of an invoice no request touches is never written again,
\* although Update looks at no stored status: the watcher's copies are fresh.
THEOREM TerminalRecordsAreFinal == Spec => TerminalIsFinal
<1>1. IInv /\ [Next]_vars =>
        \A i \in Native : IsTerminal(repo[i].status) => repo'[i] = repo[i]
  BY OnlyFreshCopiesAreWritten, StatusFacts
<1> QED BY <1>1, Invariance, PTL DEF Spec, TerminalIsFinal

-----------------------------------------------------------------------------
(***************************************************************************)
(* Refinement.  For the invoices only the watcher touches, Update is the   *)
(* abstract Move, Emit is Announce, a crash loses what is owed, and every  *)
(* other action stutters.                                                  *)
(***************************************************************************)
LEMMA RefinesInit == Init => Lifecycle!Init
<1> SUFFICES ASSUME Init PROVE Lifecycle!Init
  OBVIOUS
<1>1. proc[Watcher].pc = "idle"
  BY AtFacts, ConstantTypes, SyncAssumption DEF Init, Stages
<1>2. \A i \in Native : ~Telling(i) /\ repo[i].status = NotCreated /\ events[i] = <<>>
  BY <1>1 DEF Init, Telling, Absent, Native
<1> QED BY <1>2 DEF Lifecycle!Init, Lifecycle!NothingOwed, Lifecycle!NotCreated, NotCreated,
   aStatus, aOwed, aLog

\* An abstract step of an invoice; the crash is told apart below.
LifeStep ==
    \/ \E i \in Native : Lifecycle!Create(i) \/ Lifecycle!Announce(i)
    \/ \E i \in Native, s \in Statuses : Lifecycle!Move(i, s)

\* A step of a handler, or of the watcher on a sandbox invoice, is not seen.
LEMMA UnseenStutters ==
  ASSUME UNCHANGED <<aStatus, aOwed, aLog>>
  PROVE  UNCHANGED Lifecycle!vars
BY DEF aStatus, aOwed, aLog, Lifecycle!vars

LEMMA RefinesUpdate ==
  ASSUME IInv, NEW p \in Procs, Update(p)
  PROVE  LifeStep \/ UNCHANGED Lifecycle!vars
<1> USE DEF IInv
<1> DEFINE i == proc[p].id
           inv == proc[p].inv
           prev == proc[p].prev
<1>1. /\ proc[p].pc = "update" /\ i \in Ids /\ inv.status \in Statuses
      /\ p # Watcher => i \in Mock
  BY DEF Update, Held, InFlight, InSync
<1>2. /\ repo'[i].status = inv.status
      /\ \A j \in Ids : j # i => repo'[j] = repo[j]
      /\ events' = events
      /\ \A q \in Procs : q # p => proc'[q] = proc[q]
      /\ proc'[p] = IF inv.status # prev THEN Doing("emit", i, inv, NothingSeen, prev)
                    ELSE Returned(p)
  BY <1>1 DEF Update, Stored, TypeOK, Invoice
<1>3. CASE i \notin Native
  <2>1. \A j \in Native : repo'[j].status = repo[j].status
    BY <1>2, <1>3 DEF Native
  <2>2. CASE p # Watcher
    <3>1. proc'[Watcher] = proc[Watcher]
      BY <1>2, <2>2, ConstantTypes, SyncAssumption
    <3> QED BY <1>2, <2>1, <3>1, UnseenStutters DEF aStatus, aOwed, aLog, Telling
  <2>3. CASE p = Watcher
    <3>1. \A j \in Native : ~Telling(j)
      BY <1>1, <2>3 DEF Telling
    <3>2. \A j \in Native : ~Telling(j)'
      BY <1>2, <1>3, <2>3, ReturnedFacts DEF Telling, Doing
    <3> QED BY <1>2, <2>1, <3>1, <3>2, UnseenStutters DEF aStatus, aOwed, aLog
  <2> QED BY <2>2, <2>3
<1>4. CASE i \in Native
  <2>1. p = Watcher /\ prev = repo[i].status /\ prev \in OpenStatuses
    BY <1>1, <1>4 DEF Native, Fresh, InSync
  <2>2. \A j \in Native : ~Telling(j)
    BY <1>1, <2>1 DEF Telling
  <2>3. CASE inv.status = prev
    <3>1. \A j \in Native : ~Telling(j)'
      BY <1>2, <2>1, <2>3, ReturnedFacts DEF Telling
    <3>2. \A j \in Native : repo'[j].status = repo[j].status
      BY <1>2, <2>1, <2>3 DEF Native
    <3> QED BY <1>2, <2>2, <3>1, <3>2, UnseenStutters DEF aStatus, aOwed, aLog
  <2>4. CASE inv.status # prev
    <3>1. proc'[Watcher] = Doing("emit", i, inv, NothingSeen, prev)
      BY <1>2, <2>1, <2>4
    <3>2. \A j \in Native : Telling(j)' <=> j = i
      BY <3>1 DEF Telling, Doing
    <3>3. aStatus' = [aStatus EXCEPT ![i] = inv.status]
      BY <1>2, <1>4 DEF aStatus, Native
    <3>4. aOwed' = [aOwed EXCEPT ![i] = [prev |-> aStatus[i], status |-> inv.status]]
      <4>1. \A j \in Native : aOwed[j] = [prev |-> NotCreated, status |-> NotCreated]
        BY <2>2 DEF aOwed
      <4>2. \A j \in Native : aOwed'[j] =
              IF j = i THEN [prev |-> prev, status |-> inv.status] ELSE aOwed[j]
        BY <4>1, <3>1, <3>2 DEF aOwed, Doing
      <4>3. aStatus[i] = prev
        BY <1>4, <2>1 DEF aStatus
      <4> QED BY <4>2, <4>3 DEF aOwed
    <3>5. aLog' = aLog
      BY <1>2 DEF aLog
    <3>6. /\ aStatus[i] # NotCreated /\ ~IsTerminal(aStatus[i]) /\ inv.status # aStatus[i]
          /\ aOwed[i] = [prev |-> NotCreated, status |-> NotCreated]
      BY <1>4, <2>1, <2>2, <2>4, StatusFacts DEF aStatus, aOwed
    <3>7. PICK j \in Native, s \in Statuses : j = i /\ s = inv.status
      BY <1>1, <1>4
    <3>8. Lifecycle!Move(j, s)
      BY <3>3, <3>4, <3>5, <3>6, <3>7
      DEF Lifecycle!Move, Lifecycle!NothingOwed, Lifecycle!NotCreated, Lifecycle!IsTerminal,
          NotCreated, IsTerminal, aStatus, aOwed, aLog
    <3> QED BY <3>8 DEF LifeStep
  <2> QED BY <2>3, <2>4
<1> QED BY <1>3, <1>4

LEMMA RefinesEmit ==
  ASSUME IInv, NEW p \in Procs, Emit(p)
  PROVE  LifeStep \/ UNCHANGED Lifecycle!vars
<1> USE DEF IInv
<1> DEFINE i == proc[p].id
           e == [prev |-> proc[p].prev, status |-> proc[p].inv.status]
<1>1. /\ proc[p].pc = "emit" /\ i \in Ids
      /\ p # Watcher => i \in Mock
  BY DEF Emit, Held, InFlight, InSync
<1>2. /\ repo' = repo
      /\ events'[i] = Append(events[i], e)
      /\ \A j \in Ids : j # i => events'[j] = events[j]
      /\ \A q \in Procs : q # p => proc'[q] = proc[q]
      /\ proc'[p].pc \notin InFlight
  BY <1>1, ReturnedFacts DEF Emit, Return, TypeOK
<1>3. CASE p # Watcher
  <2>1. i \notin Native /\ proc'[Watcher] = proc[Watcher]
    BY <1>1, <1>2, <1>3, ConstantTypes, SyncAssumption DEF Native
  <2>2. \A j \in Native : events'[j] = events[j]
    BY <1>2, <2>1 DEF Native
  <2> QED BY <1>2, <2>1, <2>2, UnseenStutters DEF aStatus, aOwed, aLog, Telling
<1>4. CASE p = Watcher
  <2>1. \A j \in Native : ~Telling(j)'
    BY <1>2, <1>4 DEF Telling, InFlight, InSync
  <2>2. \A j \in Native : Telling(j) <=> j = i
    BY <1>1, <1>4 DEF Telling
  <2>3. CASE i \notin Native
    <3>1. \A j \in Native : events'[j] = events[j] /\ ~Telling(j)
      BY <1>2, <2>2, <2>3 DEF Native
    <3> QED BY <1>2, <2>1, <3>1, UnseenStutters DEF aStatus, aOwed, aLog
  <2>4. CASE i \in Native
    <3>1. aStatus' = aStatus
      BY <1>2 DEF aStatus
    <3>2. aOwed[i] = e /\ e # [prev |-> NotCreated, status |-> NotCreated]
      BY <1>1, <1>4, <2>2, <2>4, StatusFacts DEF aOwed, Fresh, InSync
    <3>3. aOwed' = [aOwed EXCEPT ![i] = [prev |-> NotCreated, status |-> NotCreated]]
      <4>1. \A j \in Native : j # i => aOwed[j] = [prev |-> NotCreated, status |-> NotCreated]
        BY <2>2 DEF aOwed
      <4>2. \A j \in Native : aOwed'[j] = [prev |-> NotCreated, status |-> NotCreated]
        BY <2>1 DEF aOwed
      <4> QED BY <4>1, <4>2 DEF aOwed
    <3>4. aLog' = [aLog EXCEPT ![i] = Append(aLog[i], aOwed[i])]
      BY <1>2, <2>4, <3>2 DEF aLog, Native
    <3>5. PICK j \in Native : j = i
      BY <2>4
    <3>6. Lifecycle!Announce(j)
      BY <3>1, <3>2, <3>3, <3>4, <3>5
      DEF Lifecycle!Announce, Lifecycle!NothingOwed, Lifecycle!NotCreated, NotCreated,
          aStatus, aOwed, aLog
    <3> QED BY <3>6 DEF LifeStep
  <2> QED BY <2>3, <2>4
<1> QED BY <1>3, <1>4

LEMMA RefinesCreate ==
  ASSUME IInv, NEW i \in Ids, Create(i)
  PROVE  LifeStep \/ UNCHANGED Lifecycle!vars
<1> USE DEF IInv
<1>1. /\ repo[i].status = NotCreated /\ repo'[i].status = "pending"
      /\ \A j \in Ids : j # i => repo'[j] = repo[j]
      /\ proc' = proc /\ events' = events
  BY DEF Create, NewInvoice, TypeOK
<1>2. aOwed' = aOwed /\ aLog' = aLog
  BY <1>1 DEF aOwed, aLog, Telling
<1>3. CASE i \in Native
  <2>1. aStatus[i] = NotCreated /\ aStatus' = [aStatus EXCEPT ![i] = "pending"]
    BY <1>1, <1>3 DEF aStatus, Native
  <2>2. Lifecycle!Create(i)
    BY <1>2, <2>1 DEF Lifecycle!Create, Lifecycle!NotCreated, NotCreated, aStatus, aOwed, aLog
  <2> QED BY <1>3, <2>2 DEF LifeStep
<1>4. CASE i \notin Native
  <2>1. aStatus' = aStatus
    BY <1>1, <1>4 DEF aStatus, Native
  <2> QED BY <1>2, <2>1, UnseenStutters
<1> QED BY <1>3, <1>4

LEMMA RefinesCrash ==
  ASSUME Crash
  PROVE  Lifecycle!Next
<1>1. proc'[Watcher].pc = "idle"
  BY ReturnedFacts, ConstantTypes, SyncAssumption DEF Crash
<1>2. \A i \in Native : ~Telling(i)'
  BY <1>1 DEF Telling
<1>3. aOwed' = [i \in Native |-> [prev |-> NotCreated, status |-> NotCreated]]
  BY <1>2 DEF aOwed
<1>4. aStatus' = aStatus /\ aLog' = aLog
  BY DEF Crash, aStatus, aLog
<1>5. Lifecycle!Crash
  BY <1>3, <1>4 DEF Lifecycle!Crash, Lifecycle!NothingOwed, Lifecycle!NotCreated, NotCreated,
     aStatus, aOwed, aLog
<1> QED BY <1>5 DEF Lifecycle!Next

\* The steps that write neither the repository nor an event, and leave what
\* the watcher is about to emit as it is.
LEMMA RefinesOther ==
  ASSUME IInv, UNCHANGED <<repo, events>>,
         proc[Watcher].pc # "emit" \/ proc'[Watcher] = proc[Watcher],
         proc'[Watcher].pc # "emit" \/ proc'[Watcher] = proc[Watcher]
  PROVE  LifeStep \/ UNCHANGED Lifecycle!vars
<1>1. aStatus' = aStatus /\ aLog' = aLog
  BY DEF aStatus, aLog
<1>2. aOwed' = aOwed
  BY DEF aOwed, Telling
<1> QED BY <1>1, <1>2, UnseenStutters

LEMMA StepsAreLifeSteps ==
  IInv /\ [Next]_vars => LifeStep \/ Crash \/ UNCHANGED Lifecycle!vars
<1> SUFFICES ASSUME IInv, [Next]_vars PROVE LifeStep \/ Crash \/ UNCHANGED Lifecycle!vars
  OBVIOUS
<1> USE DEF IInv
<1>1. Watcher \in Procs /\ Watcher \notin Handlers
  BY ConstantTypes, SyncAssumption
<1>2. CASE Tick \/ WatcherList \/ UNCHANGED vars
  BY <1>2, RefinesOther DEF Tick, WatcherList, vars
<1>3. CASE \E i \in Ids : Create(i) \/ ChainMoves(i)
  BY <1>3, RefinesCreate, RefinesOther DEF ChainMoves
<1>4. CASE \E i \in Ids : WatcherNext(i)
  <2>1. proc[Watcher].pc # "emit" /\ proc'[Watcher].pc # "emit" /\ UNCHANGED <<repo, events>>
    BY <1>1, <1>4 DEF WatcherNext, Syncing, Doing, TypeOK
  <2> QED BY <2>1, RefinesOther
<1>5. CASE \E h \in Handlers : \/ \E i \in Ids : HandlerGet(h, i)
                               \/ \E obs \in Payments : HandlerPay(h, obs)
                               \/ HandlerRefuse(h)
  <2>1. proc'[Watcher] = proc[Watcher] /\ UNCHANGED <<repo, events>>
    BY <1>1, <1>5 DEF HandlerGet, HandlerPay, HandlerRefuse, Return, TypeOK
  <2> QED BY <2>1, RefinesOther
<1>6. CASE \E p \in Procs : SyncStep(p)
  <2>1. PICK p \in Procs : SyncStep(p)
    BY <1>6
  <2>2. CASE Update(p)
    BY <2>2, RefinesUpdate
  <2>3. CASE Emit(p)
    BY <2>3, RefinesEmit
  <2>4. CASE CheckPayment(p) \/ CheckFails(p) \/ DecideStep(p) \/ UpdateFails(p)
    <3>1. /\ UNCHANGED <<repo, events>>
          /\ p # Watcher => proc'[Watcher] = proc[Watcher]
          /\ proc[p].pc # "emit" /\ proc'[p].pc # "emit"
      BY <1>1, <2>4, ReturnedFacts
      DEF CheckPayment, CheckFails, DecideStep, UpdateFails, Return, Doing, TypeOK, InFlight, InSync
    <3> QED BY <1>1, <3>1, RefinesOther
  <2> QED BY <2>1, <2>2, <2>3, <2>4 DEF SyncStep
<1> QED BY <1>2, <1>3, <1>4, <1>5, <1>6 DEF Next

LEMMA RefinesNext == IInv /\ [Next]_vars => [Lifecycle!Next]_(Lifecycle!vars)
<1>1. LifeStep => Lifecycle!Next
  BY DEF LifeStep, Lifecycle!Next, Statuses, Lifecycle!Statuses
<1> QED BY <1>1, StepsAreLifeSteps, RefinesCrash

\* Sync, as the watcher runs it, implements the abstract lifecycle: changes
\* are made from open statuses only, and announced in order and once.
THEOREM SyncImplementsLifecycle == Spec => ImplementsLifecycle
<1>1. Init => Lifecycle!Init
  BY RefinesInit
<1>2. IInv /\ [Next]_vars => [Lifecycle!Next]_(Lifecycle!vars)
  BY RefinesNext
<1> QED BY <1>1, <1>2, Invariance, PTL DEF Spec, ImplementsLifecycle, Lifecycle!Spec

-----------------------------------------------------------------------------
(* The abstract lifecycle: nothing below uses what its variables stand for. *)

LifeInv == Lifecycle!TypeOK /\ Lifecycle!FinalWord /\ Lifecycle!OwedIsStored

LEMMA NoStatusYet ==
  /\ Lifecycle!NotCreated \notin Lifecycle!Statuses
  /\ ~Lifecycle!IsTerminal(Lifecycle!NotCreated)
BY DEF Lifecycle!NotCreated, Lifecycle!Statuses, Lifecycle!IsTerminal

LEMMA ChangeIsOwed == \A c \in Lifecycle!Change : c # Lifecycle!NothingOwed
BY NoStatusYet DEF Lifecycle!Change, Lifecycle!NothingOwed

LEMMA InitLife == Lifecycle!Init => LifeInv
BY DEF Lifecycle!Init, LifeInv, Lifecycle!TypeOK, Lifecycle!FinalWord, Lifecycle!OwedIsStored,
       Lifecycle!NothingOwed

LEMMA CreateKeepsLife ==
  ASSUME LifeInv, NEW i \in Native, Lifecycle!Create(i)
  PROVE  LifeInv'
<1> USE DEF LifeInv
<1>1. Lifecycle!TypeOK'
  BY DEF Lifecycle!TypeOK, Lifecycle!Create, Lifecycle!Statuses
<1>2. Lifecycle!FinalWord'
  BY NoStatusYet DEF Lifecycle!FinalWord, Lifecycle!TypeOK, Lifecycle!Create
<1>3. Lifecycle!OwedIsStored'
  BY NoStatusYet, ChangeIsOwed
  DEF Lifecycle!OwedIsStored, Lifecycle!TypeOK, Lifecycle!Create, Lifecycle!Change
<1> QED BY <1>1, <1>2, <1>3

LEMMA MoveKeepsLife ==
  ASSUME LifeInv, NEW i \in Native, NEW s \in Lifecycle!Statuses, Lifecycle!Move(i, s)
  PROVE  LifeInv'
<1> USE DEF LifeInv
<1>1. aStatus[i] \in Lifecycle!Statuses
  BY DEF Lifecycle!TypeOK, Lifecycle!Move
<1>2. \A k \in 1..Len(aLog[i]) : ~Lifecycle!IsTerminal(aLog[i][k].status)
  BY DEF Lifecycle!FinalWord, Lifecycle!Move
<1>3. Lifecycle!TypeOK'
  BY <1>1 DEF Lifecycle!TypeOK, Lifecycle!Move, Lifecycle!Change
<1>4. Lifecycle!FinalWord'
  BY <1>2 DEF Lifecycle!FinalWord, Lifecycle!TypeOK, Lifecycle!Move
<1>5. Lifecycle!OwedIsStored'
  BY <1>2 DEF Lifecycle!OwedIsStored, Lifecycle!TypeOK, Lifecycle!Move
<1> QED BY <1>3, <1>4, <1>5

LEMMA AnnounceKeepsLife ==
  ASSUME LifeInv, NEW i \in Native, Lifecycle!Announce(i)
  PROVE  LifeInv'
<1> USE DEF LifeInv
<1>1. aOwed[i] \in Lifecycle!Change /\ aLog[i] \in Seq(Lifecycle!Change)
  BY DEF Lifecycle!TypeOK, Lifecycle!Announce
<1>2. Lifecycle!TypeOK'
  BY <1>1 DEF Lifecycle!TypeOK, Lifecycle!Announce
<1>3. /\ aLog'[i] = Append(aLog[i], aOwed[i])
      /\ \A j \in Native \ {i} : aLog'[j] = aLog[j] /\ aOwed'[j] = aOwed[j]
      /\ aOwed'[i] = Lifecycle!NothingOwed
      /\ aStatus' = aStatus
  BY DEF Lifecycle!TypeOK, Lifecycle!Announce
<1>4. \A k \in 1..Len(aLog'[i]) :
         Lifecycle!IsTerminal(aLog'[i][k].status) => k = Len(aLog'[i]) /\ aLog'[i][k] = aOwed[i]
  <2>1. \A k \in 1..Len(aLog[i]) : ~Lifecycle!IsTerminal(aLog[i][k].status)
    BY DEF Lifecycle!OwedIsStored, Lifecycle!Announce
  <2> QED BY <1>1, <1>3, <2>1
<1>5. aOwed[i].status = aStatus[i]
  BY DEF Lifecycle!OwedIsStored, Lifecycle!Announce
<1>6. Lifecycle!FinalWord'
  <2> SUFFICES ASSUME NEW j \in Native, NEW k \in 1..Len(aLog'[j]),
                      Lifecycle!IsTerminal(aLog'[j][k].status)
               PROVE  /\ k = Len(aLog'[j])
                      /\ aStatus'[j] = aLog'[j][k].status
                      /\ aOwed'[j] = Lifecycle!NothingOwed
    BY DEF Lifecycle!FinalWord
  <2>1. CASE j = i
    BY <2>1, <1>3, <1>4, <1>5
  <2>2. CASE j # i
    BY <2>2, <1>3 DEF Lifecycle!FinalWord
  <2> QED BY <2>1, <2>2
<1>7. Lifecycle!OwedIsStored'
  BY <1>3 DEF Lifecycle!OwedIsStored
<1> QED BY <1>2, <1>6, <1>7

LEMMA CrashKeepsLife ==
  ASSUME LifeInv, Lifecycle!Crash
  PROVE  LifeInv'
BY DEF LifeInv, Lifecycle!TypeOK, Lifecycle!FinalWord, Lifecycle!OwedIsStored, Lifecycle!Crash

LEMMA NextKeepsLife == LifeInv /\ [Lifecycle!Next]_(Lifecycle!vars) => LifeInv'
<1> SUFFICES ASSUME LifeInv, [Lifecycle!Next]_(Lifecycle!vars) PROVE LifeInv'
  OBVIOUS
<1>1. CASE \E i \in Native : Lifecycle!Create(i) \/ Lifecycle!Announce(i)
  BY <1>1, CreateKeepsLife, AnnounceKeepsLife
<1>2. CASE \E i \in Native, s \in Lifecycle!Statuses : Lifecycle!Move(i, s)
  BY <1>2, MoveKeepsLife
<1>3. CASE Lifecycle!Crash
  BY <1>3, CrashKeepsLife
<1>4. CASE UNCHANGED Lifecycle!vars
  BY <1>4 DEF LifeInv, Lifecycle!TypeOK, Lifecycle!FinalWord, Lifecycle!OwedIsStored, Lifecycle!vars
<1> QED BY <1>1, <1>2, <1>3, <1>4 DEF Lifecycle!Next

\* A terminal change is the last one handed to the emitter and names the stored
\* status, for any number of invoices and however often the process crashes.
THEOREM LifecycleFinalWord == Lifecycle!Spec => []Lifecycle!FinalWord
<1>1. Lifecycle!Spec => []LifeInv
  BY InitLife, NextKeepsLife, PTL DEF Lifecycle!Spec
<1>2. LifeInv => Lifecycle!FinalWord
  BY DEF LifeInv
<1> QED BY <1>1, <1>2, PTL

\* A terminal status of a watcher's invoice is handed to the emitter once, after
\* every other change, and the store agrees: by refinement, from the abstract
\* theorem.
THEOREM FinalWordIsFinal == Spec => []FinalWord
BY SyncImplementsLifecycle, LifecycleFinalWord, PTL DEF ImplementsLifecycle, FinalWord

-----------------------------------------------------------------------------
(***************************************************************************)
(* The story told to the emitter, while no crash has lost a change: it      *)
(* begins with "pending", and ends where the stored status is, or where    *)
(* the change that is being emitted began.                                 *)
(***************************************************************************)
Nothing == [prev |-> NotCreated, status |-> NotCreated]

StoryOf(i) ==
    LET log == aLog[i]  owes == aOwed[i] # Nothing IN
    /\ \A k \in 1..Len(log) :
          log[k].prev = IF k = 1 THEN "pending" ELSE log[k - 1].status
    /\ aStatus[i] = NotCreated => log = <<>> /\ ~owes
    /\ aStatus[i] # NotCreated =>
          (IF log = <<>> THEN "pending" ELSE log[Len(log)].status)
            = IF owes THEN aOwed[i].prev ELSE aStatus[i]
    /\ owes => aOwed[i].status = aStatus[i]

Story == crashes = 0 => \A i \in Native : StoryOf(i)

LEMMA StoryTypes ==
  ASSUME TypeOK, NEW i \in Native
  PROVE  aLog[i] \in Seq([prev: Statuses \cup {NotCreated}, status: Statuses])
BY DEF TypeOK, aLog, Native

LEMMA CreateTellsStory ==
  ASSUME TypeOK, NEW i \in Native, Lifecycle!Create(i), NEW j \in Native, StoryOf(j)
  PROVE  StoryOf(j)'
<1>1. /\ aStatus[i] = NotCreated /\ aLog' = aLog /\ aOwed' = aOwed
      /\ aStatus' = [aStatus EXCEPT ![i] = "pending"]
  BY DEF Lifecycle!Create, Lifecycle!NotCreated, NotCreated
<1>2. aStatus'[j] = IF j = i THEN "pending" ELSE aStatus[j]
  BY <1>1 DEF aStatus
<1> QED BY <1>1, <1>2 DEF StoryOf, NotCreated

LEMMA MoveTellsStory ==
  ASSUME TypeOK, NEW i \in Native, NEW s \in Statuses, Lifecycle!Move(i, s),
         NEW j \in Native, StoryOf(j)
  PROVE  StoryOf(j)'
<1>1. /\ aStatus[i] # NotCreated /\ aOwed[i] = Nothing /\ aLog' = aLog
      /\ aStatus' = [aStatus EXCEPT ![i] = s]
      /\ aOwed' = [aOwed EXCEPT ![i] = [prev |-> aStatus[i], status |-> s]]
  BY DEF Lifecycle!Move, Lifecycle!NothingOwed, Lifecycle!NotCreated, NotCreated, Nothing
<1>2. /\ aStatus'[j] = IF j = i THEN s ELSE aStatus[j]
      /\ aOwed'[j] = IF j = i THEN [prev |-> aStatus[i], status |-> s] ELSE aOwed[j]
  BY <1>1 DEF aStatus, aOwed
<1>3. s # NotCreated
  BY StatusFacts
<1> QED BY <1>1, <1>2, <1>3 DEF StoryOf, Nothing

LEMMA AnnounceTellsStory ==
  ASSUME TypeOK, NEW i \in Native, Lifecycle!Announce(i), NEW j \in Native, StoryOf(j)
  PROVE  StoryOf(j)'
<1>1. /\ aOwed[i] # Nothing /\ aStatus' = aStatus
      /\ aLog' = [aLog EXCEPT ![i] = Append(@, aOwed[i])]
      /\ aOwed' = [aOwed EXCEPT ![i] = Nothing]
  BY DEF Lifecycle!Announce, Lifecycle!NothingOwed, Lifecycle!NotCreated, NotCreated, Nothing
<1>2. /\ aLog'[j] = IF j = i THEN Append(aLog[i], aOwed[i]) ELSE aLog[j]
      /\ aOwed'[j] = IF j = i THEN Nothing ELSE aOwed[j]
  BY <1>1 DEF aLog, aOwed
<1>3. CASE j # i
  BY <1>1, <1>2, <1>3 DEF StoryOf
<1>4. CASE j = i
  <2> DEFINE log == aLog[i]  new == aLog'[i]  e == aOwed[i]
  <2>1. log \in Seq([prev: Statuses \cup {NotCreated}, status: Statuses])
    BY StoryTypes
  <2>2. aStatus[i] # NotCreated /\ e.status = aStatus[i]
    BY <1>1, <1>4 DEF StoryOf
  <2>3. e.prev = IF log = <<>> THEN "pending" ELSE log[Len(log)].status
    BY <1>1, <1>4, <2>2 DEF StoryOf
  <2>4. \A k \in 1..Len(log) : log[k].prev = IF k = 1 THEN "pending" ELSE log[k - 1].status
    BY <1>4 DEF StoryOf
  <2>5. /\ new = Append(log, e) /\ Len(new) = Len(log) + 1 /\ new[Len(new)] = e
        /\ \A k \in 1..Len(log) : new[k] = log[k]
        /\ new # <<>> /\ Len(log) \in Nat /\ (log = <<>> <=> Len(log) = 0)
    BY <1>2, <1>4, <2>1
  <2>6. \A k \in 1..Len(new) : new[k].prev = IF k = 1 THEN "pending" ELSE new[k - 1].status
    BY <2>3, <2>4, <2>5
  <2>7. aOwed'[i] = Nothing /\ aStatus'[i] = aStatus[i]
    BY <1>1, <1>2, <1>4
  <2> HIDE DEF new, e
  <2> QED BY <1>4, <2>2, <2>5, <2>6, <2>7 DEF StoryOf, new
<1> QED BY <1>3, <1>4

LEMMA NextStory == IInv /\ Story /\ [Next]_vars => Story'
<1> SUFFICES ASSUME IInv, Story, [Next]_vars, crashes' = 0, NEW j \in Native
             PROVE  StoryOf(j)'
  BY DEF Story
<1>1. TypeOK
  BY DEF IInv
<1>2. ~Crash /\ crashes = 0
  <2>1. crashes \in Nat
    BY <1>1, ConstantTypes, SyncAssumption DEF TypeOK
  <2>2. ~Crash
    BY <2>1 DEF Crash
  <2>3. CASE UNCHANGED vars
    BY <2>2, <2>3 DEF vars, bounds
  <2>4. CASE Tick \/ WatcherList \/ \E i \in Ids : Create(i) \/ ChainMoves(i) \/ WatcherNext(i)
    BY <2>2, <2>4 DEF bounds, Tick, WatcherList, Create, ChainMoves, WatcherNext
  <2>5. CASE \E h \in Handlers : \/ \E i \in Ids : HandlerGet(h, i)
                                 \/ \E obs \in Payments : HandlerPay(h, obs)
                                 \/ HandlerRefuse(h)
    BY <2>2, <2>5 DEF bounds, HandlerGet, HandlerPay, HandlerRefuse
  <2>6. CASE \E p \in Procs : SyncStep(p)
    BY <2>2, <2>6 DEF bounds, SyncStep, CheckPayment, CheckFails, DecideStep, Update, UpdateFails, Emit
  <2> QED BY <2>2, <2>3, <2>4, <2>5, <2>6 DEF Next
<1>3. StoryOf(j)
  BY <1>2 DEF Story
<1>4. CASE LifeStep
  BY <1>1, <1>3, <1>4, CreateTellsStory, MoveTellsStory, AnnounceTellsStory DEF LifeStep
<1>5. CASE UNCHANGED Lifecycle!vars
  BY <1>3, <1>5 DEF StoryOf, Lifecycle!vars
<1> QED BY <1>2, <1>4, <1>5, StepsAreLifeSteps

\* A merchant can retell the life of a watcher's invoice from what it was
\* sent, as long as the process has not crashed (service.go Sync, Emit).
THEOREM TheStoryIsComplete == Spec => []StoryIsComplete
<1>1. Init => Story
  <2> SUFFICES ASSUME Init, NEW i \in Native PROVE StoryOf(i)
    BY DEF Story
  <2>1. proc[Watcher].pc = "idle" /\ repo[i].status = NotCreated /\ events[i] = <<>>
    BY AtFacts, ConstantTypes, SyncAssumption DEF Init, Stages, Absent, Native
  <2> QED BY <2>1 DEF StoryOf, aStatus, aOwed, aLog, Telling, Nothing
<1>2. IInv /\ Story => StoryIsComplete
  <2> SUFFICES ASSUME IInv, crashes = 0, NEW i \in Native, StoryOf(i)
               PROVE  /\ \A k \in 1..Len(events[i]) :
                            events[i][k].prev = IF k = 1 THEN "pending" ELSE events[i][k-1].status
                      /\ repo[i].status # NotCreated =>
                            Told(i) = IF Telling(i) THEN proc[Watcher].prev ELSE repo[i].status
    BY DEF Story, StoryIsComplete
  <2>1. aLog[i] = events[i] /\ aStatus[i] = repo[i].status
    BY DEF aLog, aStatus
  <2>2. CASE Telling(i)
    <3>1. proc[Watcher].prev # NotCreated
      BY <2>2, StatusFacts DEF IInv, Fresh, Telling, InSync
    <3>2. aOwed[i] # Nothing /\ aOwed[i].prev = proc[Watcher].prev
      BY <2>2, <3>1 DEF aOwed, Nothing
    <3> QED BY <2>1, <2>2, <3>2 DEF StoryOf, Told
  <2>3. CASE ~Telling(i)
    <3>1. aOwed[i] = Nothing
      BY <2>3 DEF aOwed, Nothing
    <3> QED BY <2>1, <2>3, <3>1 DEF StoryOf, Told
  <2> QED BY <2>2, <2>3
<1> QED BY <1>1, <1>2, NextStory, Invariance, PTL DEF Spec

-----------------------------------------------------------------------------
(***************************************************************************)
(* Expiry.  Once a payment covering an invoice was on the chain, it is     *)
(* there still or it was retracted; what the watcher read and what it      *)
(* stored follow.                                                          *)
(***************************************************************************)
Kept(i) == Covers(ledger[i], Amount[i]) \/ retracted[i]

Tracks ==
    LET w == proc[Watcher]
        seen == Covers(w.obs, Amount[w.id])
    IN
    /\ \A i \in Native : repo[i].status = "confirming" => Kept(i)
    /\ w.id \in Native =>
        /\ w.pc = "decide" => /\ seen => Kept(w.id)
                              /\ w.inv.status = "confirming" => seen \/ retracted[w.id]
        /\ w.pc = "update" => /\ w.inv.status = "confirming" => Kept(w.id)
                              /\ w.inv.status = "expired" /\ w.prev = "confirming"
                                   => retracted[w.id]

LEMMA KeptIsKept ==
  ASSUME IInv, [Next]_vars, NEW i \in Native
  PROVE  /\ Kept(i) => Kept(i)'
         /\ retracted[i] => retracted'[i]
<1> USE DEF IInv
<1>1. i \in Ids /\ i \notin Mock
  BY DEF Native
<1>2. ASSUME NEW j \in Ids, NEW obs \in Observation, Credit(j, obs)
      PROVE  (Kept(i) => Kept(i)') /\ (retracted[i] => retracted'[i])
  BY <1>1, <1>2 DEF Credit, Kept, TypeOK
<1>3. CASE \E j \in Ids : ChainMoves(j)
  BY <1>2, <1>3, SyncAssumption DEF ChainMoves, SyncAssumption
<1>4. CASE \E h \in Handlers, obs \in Payments : HandlerPay(h, obs)
  <2>1. PICK h \in Handlers, obs \in Payments : HandlerPay(h, obs)
    BY <1>4
  <2>2. proc[h].id \in Ids /\ obs \in Observation /\ Credit(proc[h].id, obs)
    BY <2>1, SyncAssumption DEF HandlerPay, Held, InFlight, Procs, SyncAssumption
  <2> QED BY <1>2, <2>2
<1>5. CASE Crash
  BY <1>1, <1>5 DEF Crash, Kept, TypeOK
<1>6. CASE UNCHANGED <<ledger, retracted>>
  BY <1>6 DEF Kept
<1>7. UNCHANGED <<ledger, retracted>> \/ Crash
      \/ (\E j \in Ids : ChainMoves(j))
      \/ \E h \in Handlers, obs \in Payments : HandlerPay(h, obs)
  BY DEF Next, vars, history, Tick, Create, WatcherList, WatcherNext, HandlerGet, HandlerRefuse, SyncStep,
     CheckPayment, CheckFails, DecideStep, Update, UpdateFails, Emit
<1> QED BY <1>3, <1>4, <1>5, <1>6, <1>7

\* Tracks is kept by every step that leaves the stored records alone and the
\* watcher where it is, and by every step that sets the watcher free.
LEMMA TracksFrame ==
  ASSUME IInv, Tracks, [Next]_vars,
         \A i \in Native : repo'[i] = repo[i] \/ repo'[i].status = "pending",
         proc'[Watcher] = proc[Watcher] \/ proc'[Watcher].pc \notin {"decide", "update"}
  PROVE  Tracks'
BY KeptIsKept DEF Tracks

LEMMA TracksSyncStep ==
  ASSUME IInv, Tracks, [Next]_vars, SyncStep(Watcher)
  PROVE  Tracks'
<1> USE DEF IInv
<1> DEFINE w == proc[Watcher]
           i == w.id
<1>1. Watcher \in Procs
  BY ConstantTypes, SyncAssumption
<1>2. CASE CheckPayment(Watcher)
  <2>1. /\ w.pc = "check" /\ repo' = repo /\ ledger' = ledger /\ retracted' = retracted
        /\ proc'[Watcher] = Doing("decide", i, w.inv, ledger[i], NotCreated)
    BY <1>1, <1>2 DEF CheckPayment, history, TypeOK
  <2>2. i \in Native => w.inv = repo[i]
    BY <2>1 DEF Fresh, InSync
  <2> QED BY <2>1, <2>2 DEF Tracks, Kept, Doing
<1>3. CASE DecideStep(Watcher)
  <2> DEFINE new == Advance(i, w.inv, w.obs)
  <2>1. /\ w.pc = "decide" /\ repo' = repo /\ ledger' = ledger /\ retracted' = retracted
        /\ proc'[Watcher] = Doing("update", i, new, NothingSeen, w.inv.status)
    BY <1>1, <1>3 DEF DecideStep, history, TypeOK
  <2>2. /\ i \in Ids /\ w.inv \in Invoice /\ w.obs \in Observation
    BY <1>1, <2>1 DEF Held, InFlight, InSync, TypeOK, Proc
  <2>3. /\ Amount[i] \in Nat \ {0} /\ Required[i] \in Nat \ {0}
        /\ (now > w.inv.expiresAt) \in BOOLEAN
    BY <2>2, ConstantTypes, SyncAssumption
  <2>4. /\ new.status = Decide(w.obs, Amount[i], Required[i], now > w.inv.expiresAt)
    BY <2>2 DEF Advance, Invoice
  <2>5. new.status = "expired" => ~Covers(w.obs, Amount[i])
    BY <2>2, <2>3, <2>4, DecideFailsClosed
  <2>6. new.status = "confirming" => Covers(w.obs, Amount[i])
    BY <2>2, <2>3, <2>4 DEF Decide, Observation, Covers, Unfunded
  <2> HIDE DEF new
  <2> QED BY <2>1, <2>5, <2>6 DEF Tracks, Kept, Doing
<1>4. CASE Update(Watcher)
  <2>1. /\ w.pc = "update" /\ i \in Ids
        /\ repo'[i].status = w.inv.status
        /\ \A j \in Ids : j # i => repo'[j] = repo[j]
        /\ proc'[Watcher].pc \notin {"decide", "update"}
        /\ ledger' = ledger /\ retracted' = retracted
    BY <1>1, <1>4, ReturnedFacts
    DEF Update, Stored, Held, InFlight, InSync, Doing, history, TypeOK, Proc, Invoice
  <2> QED BY <2>1 DEF Tracks, Kept, Native
<1>5. CASE CheckFails(Watcher) \/ UpdateFails(Watcher) \/ Emit(Watcher)
  <2>1. repo' = repo /\ proc'[Watcher].pc \notin {"decide", "update"}
    BY <1>1, <1>5, ReturnedFacts
    DEF CheckFails, UpdateFails, Emit, Return, InFlight, InSync, TypeOK
  <2> QED BY <2>1, TracksFrame
<1> QED BY <1>2, <1>3, <1>4, <1>5 DEF SyncStep

LEMMA NextTracks == IInv /\ Tracks /\ [Next]_vars => Tracks'
<1> SUFFICES ASSUME IInv, Tracks, [Next]_vars PROVE Tracks'
  OBVIOUS
<1> USE DEF IInv
<1>1. Watcher \in Procs /\ Watcher \notin Handlers
  BY ConstantTypes, SyncAssumption
<1>2. CASE Tick \/ WatcherList \/ UNCHANGED vars
  BY <1>2, TracksFrame DEF Tick, WatcherList, vars
<1>3. CASE \E i \in Ids : Create(i) \/ ChainMoves(i)
  <2>1. proc' = proc /\ \A i \in Native : repo'[i] = repo[i] \/ repo'[i].status = "pending"
    BY <1>3 DEF Create, NewInvoice, ChainMoves, TypeOK, Native
  <2> QED BY <2>1, TracksFrame
<1>4. CASE \E i \in Ids : WatcherNext(i)
  <2>1. repo' = repo /\ proc'[Watcher].pc = "check"
    BY <1>1, <1>4 DEF WatcherNext, Syncing, Doing, TypeOK
  <2> QED BY <2>1, TracksFrame
<1>5. CASE \E h \in Handlers : \/ \E i \in Ids : HandlerGet(h, i)
                               \/ \E obs \in Payments : HandlerPay(h, obs)
                               \/ HandlerRefuse(h)
  <2>1. repo' = repo /\ proc'[Watcher] = proc[Watcher]
    BY <1>1, <1>5 DEF HandlerGet, HandlerPay, HandlerRefuse, Return, TypeOK
  <2> QED BY <2>1, TracksFrame
<1>6. CASE \E p \in Procs : SyncStep(p)
  <2>1. PICK p \in Procs : SyncStep(p)
    BY <1>6
  <2>2. CASE p # Watcher
    <3>1. /\ proc'[Watcher] = proc[Watcher]
          /\ \A i \in Native : repo'[i] = repo[i]
      BY <1>1, <2>1, <2>2
      DEF SyncStep, CheckPayment, CheckFails, DecideStep, Update, UpdateFails, Emit, Return,
          Held, InFlight, InSync, TypeOK, Native
    <3> QED BY <3>1, TracksFrame
  <2> QED BY <2>1, <2>2, TracksSyncStep
<1>7. CASE Crash
  <2>1. repo' = repo /\ proc'[Watcher].pc = "idle"
    BY <1>1, <1>7, ReturnedFacts DEF Crash
  <2> QED BY <2>1, TracksFrame
<1> QED BY <1>2, <1>3, <1>4, <1>5, <1>6, <1>7 DEF Next

\* However late the watcher looks, an invoice that it alone syncs and whose
\* covering payment was stored as "confirming" expires only if the chain took
\* the payment back.
THEOREM NeverExpiredWhileCovered == Spec => NoExpiryWhileCovered
<1>1. Init => Tracks
  <2> SUFFICES ASSUME Init PROVE Tracks
    OBVIOUS
  <2>1. proc[Watcher].pc = "idle"
    BY AtFacts, ConstantTypes, SyncAssumption DEF Init, Stages
  <2> QED BY <2>1 DEF Init, Tracks, Absent, NotCreated, Native
<1>2. IInv /\ Tracks /\ [Next]_vars =>
        \A i \in Native :
          repo[i].status = "confirming" /\ repo'[i].status = "expired" => retracted[i]
  <2> SUFFICES ASSUME IInv, Tracks, [Next]_vars, NEW i \in Native,
                      repo[i].status = "confirming", repo'[i].status = "expired"
               PROVE  retracted[i]
    OBVIOUS
  <2>1. proc[Watcher].id = i /\ Update(Watcher)
    BY OnlyFreshCopiesAreWritten DEF NotCreated
  <2>2. /\ proc[Watcher].pc = "update" /\ repo'[i].status = proc[Watcher].inv.status
        /\ proc[Watcher].prev = repo[i].status
    BY <2>1 DEF Update, Stored, IInv, TypeOK, Native, Proc, Invoice, Fresh, InSync
  <2> QED BY <2>1, <2>2 DEF Tracks
<1> QED BY <1>1, <1>2, NextTracks, Invariance, PTL DEF Spec, NoExpiryWhileCovered
=============================================================================
