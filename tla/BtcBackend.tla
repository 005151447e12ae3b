----------------------------- MODULE BtcBackend -----------------------------
(***************************************************************************)
(* MempoolBackend.AddressStatus (internal/chain/btc/backend.go) against a  *)
(* chain that moves between its three requests: the funded total of the    *)
(* address, the height of the tip, the transactions of the address.        *)
(* BtcBackend is one address and the transactions that pay it; its report  *)
(* is the observation InvoiceSync takes from the ledger.                   *)
(*                                                                         *)
(* Each request is answered from one state of the explorer.  Abstracted:   *)
(* the transaction hash, the paging of the transaction list, the spending  *)
(* of the received funds (the funded total counts spent outputs too).      *)
(***************************************************************************)
EXTENDS InvoiceStatus, FiniteSets, FiniteSetsExt

CONSTANTS
    Txs,       \* transactions that pay the address
    Value,     \* what each pays, in satoshi
    Amount, Required,   \* of the invoice
    MaxTip     \* bound of the instance: the greatest height

ASSUME BackendAssumption ==
    /\ IsFiniteSet(Txs)
    /\ Value \in [Txs -> Nat \ {0}]
    /\ Amount \in Nat \ {0} /\ Required \in Nat \ {0}
    /\ MaxTip \in Nat

Gone == -1      \* never broadcast, or replaced by a conflicting one
Mempool == 0    \* any other place is the height of its block

VARIABLES
    tip,      \* external: the height of the best chain
    place,    \* external: where each transaction is
    pc,       \* the next request of the call
    total,    \* the funded total it has read
    height,   \* the tip it has read
    report,   \* what the last call returned
    counted,  \* history: the transactions in that total
    lost      \* history: one of them vanished while the call went on

vars == <<tip, place, pc, total, height, report, counted, lost>>
chain == <<tip, place>>

Present  == {t \in Txs : place[t] # Gone}
Depth(t) == IF place[t] > 0 THEN tip - place[t] + 1 ELSE 0
Sum(S)   == MapThenSumSet(LAMBDA t : Value[t], S)

Failed == [seen |-> FALSE, received |-> -1, confs |-> 0]
Report(received, confs) == [seen |-> received # 0, received |-> received, confs |-> confs]

-----------------------------------------------------------------------------
Init ==
    /\ tip = 0
    /\ place = [t \in Txs |-> Gone]
    /\ pc = "address"
    /\ total = 0 /\ height = 0
    /\ report = NothingSeen
    /\ counted = {} /\ lost = FALSE

(* The chain. *)

Broadcast(t) ==
    /\ place[t] = Gone
    /\ place' = [place EXCEPT ![t] = Mempool]
    /\ UNCHANGED <<tip, pc, total, height, report, counted, lost>>

\* An unconfirmed transaction is replaced by its fee, double-spent or evicted.
Vanish(t) ==
    /\ place[t] = Mempool
    /\ place' = [place EXCEPT ![t] = Gone]
    /\ lost' = (lost \/ (pc # "address" /\ t \in counted))
    /\ UNCHANGED <<tip, pc, total, height, report, counted>>

\* Blocks h..top replace the ones from h on; a reorganisation when h <= tip.
\* The chain that wins is longer.
Blocks(h, top) ==
    LET affected == {t \in Txs : place[t] = Mempool \/ place[t] >= h} IN
    /\ tip' = top
    /\ \E put \in [affected -> {Mempool} \cup h..top] :
          place' = [t \in Txs |-> IF t \in affected THEN put[t] ELSE place[t]]
    /\ UNCHANGED <<pc, total, height, report, counted, lost>>

(* AddressStatus, called again and again by the watcher. *)

\* No funds: the zero status is returned and nothing more is asked.
ReadAddress ==
    /\ pc = "address"
    /\ total' = Sum(Present)
    /\ counted' = Present
    /\ lost' = FALSE
    /\ IF Present = {} THEN report' = Report(0, 0) /\ UNCHANGED pc
       ELSE pc' = "tip" /\ UNCHANGED report
    /\ UNCHANGED <<chain, height>>

\* Mutant of ReadTip: the number of blocks, not the height of the last.
ReadTipCount ==
    /\ pc = "tip"
    /\ height' = tip + 1
    /\ pc' = "txs"
    /\ UNCHANGED <<chain, total, report, counted, lost>>

ReadTip ==
    /\ pc = "tip"
    /\ height' = tip
    /\ pc' = "txs"
    /\ UNCHANGED <<chain, total, report, counted, lost>>

\* Mutant of Newest: the list is read from the wrong end.
Oldest(t) ==
    place[t] # Mempool /\ \A u \in Present : place[u] = Mempool \/ place[u] >= place[t]

\* The explorer lists unconfirmed transactions first, then by falling height.
Newest(t) ==
    place[t] = Mempool \/ \A u \in Present : place[u] # Mempool /\ place[u] <= place[t]

\* Mutant of Confirmations: the block above the tip counts as well.
ConfirmationsOneMore(t) ==
    IF place[t] = Mempool \/ place[t] > height THEN 0 ELSE height - place[t] + 2

\* Counted from the tip that was read; clamped at zero for a newer block.
Confirmations(t) ==
    IF place[t] = Mempool \/ place[t] > height THEN 0 ELSE height - place[t] + 1

ReadTxs ==
    /\ pc = "txs"
    /\ \/ Present = {} /\ report' = Report(total, 0)
       \/ \E t \in Present : Newest(t) /\ report' = Report(total, Confirmations(t))
    /\ pc' = "address"
    /\ UNCHANGED <<chain, total, height, counted, lost>>

\* Any request may fail: the adapter returns the error, not the status.
Fails ==
    /\ report' = Failed
    /\ pc' = "address"
    /\ UNCHANGED <<chain, total, height, counted, lost>>

Next ==
    \/ \E t \in Txs : Broadcast(t) \/ Vanish(t)
    \/ \E h \in 1..(tip + 1), top \in (tip + 1)..MaxTip : Blocks(h, top)
    \/ ReadAddress \/ ReadTip \/ ReadTxs \/ Fails

Spec == Init /\ [][Next]_vars

-----------------------------------------------------------------------------
(* Properties.  A report is judged against the chain at its last request.  *)

TypeOK ==
    /\ tip \in 0..MaxTip
    /\ place \in [Txs -> Gone..MaxTip]
    /\ pc \in {"address", "tip", "txs"}
    /\ total \in Nat /\ height \in 0..MaxTip
    /\ report \in Observation
    /\ counted \subseteq Txs /\ lost \in BOOLEAN

Pays(obs) == Deep(obs, Amount, Required)
FundedNow == Sum({t \in Txs : Depth(t) >= Required}) >= Amount
Returns   == pc = "txs" /\ pc' = "address" /\ report' # Failed

\* What the steps of a call preserve: no block is above the tip, the tip that
\* was read is not above the tip, and what the total counted is still there
\* unless it vanished.
Ranges ==
    /\ tip \in Nat /\ height \in Nat
    /\ place \in [Txs -> Int] /\ \A t \in Txs : place[t] \in Gone..tip
    /\ pc \in {"address", "tip", "txs"}
    /\ counted \subseteq Txs /\ lost \in BOOLEAN
OldTip     == pc = "txs" => height <= tip
StillThere == pc # "address" /\ ~lost => counted \subseteq Present
CallInv    == Ranges /\ OldTip /\ StillThere

\* Whatever blocks come, go and are replaced during the call, the reported
\* confirmations hold for every transaction in the reported total, not for
\* the newest alone, unless one of them vanished: the total is read before
\* the list, the list is sorted, the tip is older than both the list and
\* never falls (backend.go AddressStatus).
ConfirmationsCoverTheTotal ==
    [][Returns /\ ~lost =>
         \A t \in counted : Depth(t) >= report'.confs]_vars

\* And so a report that makes decide settle the invoice is backed by that
\* much money, that deep, at the same moment.
SettledReportIsFunded ==
    [][Returns /\ ~lost /\ Pays(report') => FundedNow]_vars

\* service.go decide: "It fails closed: uncertainty never yields a paid
\* state", said of a transaction that vanishes between two requests.
FailsClosed == [][Returns /\ Pays(report') => FundedNow]_vars
=============================================================================
