-------------------------- MODULE InvoiceLifecycle --------------------------
(***************************************************************************)
(* What the invoice service promises its emitter, with no watcher, copies  *)
(* or chain: an invoice moves until it reaches a terminal status, every    *)
(* move is announced before the next one, and only a crash of the process  *)
(* loses an announcement.  To announce is to call Emit: in which order the *)
(* dispatcher's deliveries reach the merchant is another matter.           *)
(* InvoiceSync is shown to implement this module for the invoices only the *)
(* watcher touches.                                                        *)
(***************************************************************************)
EXTENDS InvoiceStatus, Sequences

CONSTANT Invoices

VARIABLES status,  \* the stored status of each invoice
          owed,    \* a change that is stored and not announced yet
          log      \* the announced changes, oldest first

vars == <<status, owed, log>>

Change      == [prev: Statuses, status: Statuses]
NothingOwed == [prev |-> NotCreated, status |-> NotCreated]

Init ==
    /\ status = [i \in Invoices |-> NotCreated]
    /\ owed = [i \in Invoices |-> NothingOwed]
    /\ log = [i \in Invoices |-> <<>>]

Create(i) ==
    /\ status[i] = NotCreated
    /\ status' = [status EXCEPT ![i] = "pending"]
    /\ UNCHANGED <<owed, log>>

Move(i, s) ==
    /\ status[i] # NotCreated
    /\ ~IsTerminal(status[i])
    /\ owed[i] = NothingOwed
    /\ s # status[i]
    /\ status' = [status EXCEPT ![i] = s]
    /\ owed' = [owed EXCEPT ![i] = [prev |-> status[i], status |-> s]]
    /\ UNCHANGED log

Announce(i) ==
    /\ owed[i] # NothingOwed
    /\ log' = [log EXCEPT ![i] = Append(@, owed[i])]
    /\ owed' = [owed EXCEPT ![i] = NothingOwed]
    /\ UNCHANGED status

Crash ==
    /\ owed' = [i \in Invoices |-> NothingOwed]
    /\ UNCHANGED <<status, log>>

Next ==
    \/ \E i \in Invoices : Create(i) \/ Announce(i)
    \/ \E i \in Invoices, s \in Statuses : Move(i, s)
    \/ Crash

Spec == Init /\ [][Next]_vars

-----------------------------------------------------------------------------
TypeOK ==
    /\ status \in [Invoices -> Statuses \cup {NotCreated}]
    /\ owed \in [Invoices -> Change \cup {NothingOwed}]
    /\ log \in [Invoices -> Seq(Change)]

\* Whatever is announced after a change, and whether or not announcements
\* were lost, a change into a terminal status is the last one handed to the
\* emitter, is handed over at most once, and names the status the store holds:
\* no later change is made after "paid" or "expired" (service.go Sync).  An
\* earlier change may still reach the merchant after it, by its own retries.
FinalWord ==
    \A i \in Invoices : \A k \in 1..Len(log[i]) :
        IsTerminal(log[i][k].status) =>
            /\ k = Len(log[i])
            /\ status[i] = log[i][k].status
            /\ owed[i] = NothingOwed

\* The strengthening of FinalWord that a step preserves: an owed change ends
\* in the stored status, and was made from a status that was not terminal,
\* so nothing terminal has been announced while a change is owed.
OwedIsStored ==
    \A i \in Invoices :
        owed[i] # NothingOwed =>
            /\ owed[i].status = status[i]
            /\ \A k \in 1..Len(log[i]) : ~IsTerminal(log[i][k].status)
=============================================================================
