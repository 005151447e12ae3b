--------------------------- MODULE MCInvoiceSync ---------------------------
(* Small instances of InvoiceSync: one Bitcoin and one sandbox invoice.    *)
EXTENDS InvoiceSync

CONSTANTS btc1, sbx1

MCAmount   == [i \in Ids |-> 2]
MCRequired == [i \in Ids |-> 1]

Seen(amount, confs) == [seen |-> TRUE, received |-> amount, confs |-> confs]

\* Nothing, too little, enough and too much, unconfirmed and confirmed.
MCChainReports == {NothingSeen, Seen(1, 1), Seen(2, 0), Seen(2, 1), Seen(3, 1)}
FewReports     == {NothingSeen, Seen(2, 0), Seen(2, 1)}
MCPayments     == {Seen(-1, 1), Seen(0, 1), Seen(2, 0), Seen(2, 1), Seen(3, 1)}
FewPayments    == {Seen(2, 0), Seen(3, 1)}
FullPayment    == {Seen(2, 1)}
=============================================================================
