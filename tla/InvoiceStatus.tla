--------------------------- MODULE InvoiceStatus ---------------------------
(***************************************************************************)
(* The invoice states of internal/invoice/invoice.go and the pure decision *)
(* function of internal/invoice/service.go that picks the next one.  The   *)
(* module has no variables: the lifecycle modules share these definitions. *)
(***************************************************************************)
EXTENDS Integers

Statuses == {"pending", "underpaid", "confirming", "paid", "overpaid", "expired"}

\* The status of an identifier no row has been inserted for.
NotCreated == "none"

IsTerminal(s) == s \in {"paid", "overpaid", "expired"}
IsSettled(s)  == s \in {"paid", "overpaid"}

\* The statuses named by the WHERE clause of the SQLite ListOpen.
OpenStatuses == {"pending", "underpaid", "confirming"}

(***************************************************************************)
(* What Adapter.CheckPayment reports of one address.  The received amount  *)
(* is an integer and not a natural: the sandbox simulator credits whatever *)
(* decimal the request carries.                                            *)
(***************************************************************************)
Observation == [seen: BOOLEAN, received: Int, confs: Int]
NothingSeen == [seen |-> FALSE, received |-> 0, confs |-> 0]

Unfunded(obs)              == ~obs.seen \/ obs.received = 0
Covers(obs, amount)        == obs.seen /\ obs.received >= amount
Deep(obs, amount, required) == Covers(obs, amount) /\ obs.confs >= required

\* Mutants of Decide, to show what the properties depend on: one confirmation
\* too few, and the expiry looked at before the money.
DecideOneTooFew(obs, amount, required, expired) ==
    CASE Unfunded(obs) -> IF expired THEN "expired" ELSE "pending"
      [] ~Unfunded(obs) /\ obs.received < amount -> IF expired THEN "expired" ELSE "underpaid"
      [] ~Unfunded(obs) /\ obs.received >= amount ->
            IF obs.confs + 1 < required THEN "confirming"
            ELSE IF obs.received > amount THEN "overpaid" ELSE "paid"
DecideExpiryFirst(obs, amount, required, expired) ==
    CASE expired -> "expired"
      [] ~expired /\ Unfunded(obs) -> "pending"
      [] ~expired /\ ~Unfunded(obs) ->
            IF obs.received < amount THEN "underpaid"
            ELSE IF obs.confs < required THEN "confirming"
            ELSE IF obs.received > amount THEN "overpaid" ELSE "paid"

(***************************************************************************)
(* Service.decide.  The requested amount is positive (resolveAmount).      *)
(***************************************************************************)
Decide(obs, amount, required, expired) ==
    CASE Unfunded(obs)         -> IF expired THEN "expired" ELSE "pending"
      [] ~Unfunded(obs) /\ obs.received < amount
                               -> IF expired THEN "expired" ELSE "underpaid"
      [] ~Unfunded(obs) /\ obs.received >= amount
                               -> IF obs.confs < required THEN "confirming"
                                  ELSE IF obs.received > amount THEN "overpaid" ELSE "paid"
=============================================================================
