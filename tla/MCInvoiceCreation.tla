------------------------- MODULE MCInvoiceCreation -------------------------
(* Three concurrent requests for one wallet, on Bitcoin and the sandbox.   *)
EXTENDS InvoiceCreation

Asking(chain, wallet, amount, rightAsset, fiat) ==
    [chain |-> chain, wallet |-> wallet, amount |-> amount,
     rightAsset |-> rightAsset, fiat |-> fiat, key |-> TRUE]

MCParams == {
    Asking("bitcoin", "xpub", 2, TRUE, FALSE),    \* crypto-priced
    Asking("bitcoin", "xpub", 0, TRUE, TRUE),     \* fiat-priced
    Asking("bitcoin", NoXPub, 2, TRUE, FALSE),    \* no wallet
    Asking("bitcoin", "xpub", 2, FALSE, FALSE),   \* the wrong asset
    Asking("mock", NoXPub, 2, TRUE, FALSE),
    Asking("mock", NoXPub, -1, TRUE, FALSE),      \* a negative amount
    Asking("monero", NoXPub, 2, TRUE, FALSE),     \* not registered
    [Asking("bitcoin", "xpub", 2, TRUE, FALSE) EXCEPT !.key = FALSE] }
=============================================================================
