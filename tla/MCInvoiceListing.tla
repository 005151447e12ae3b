-------------------------- MODULE MCInvoiceListing --------------------------
(* Seconds of four fractions, two binary digits each: .00, .01, .10, .11.  *)
EXTENDS InvoiceListing, TLC

CONSTANTS c1, c2

MCPlace == <<2, 1>>
Exchangeable == Permutations({c1, c2})
MCAsked == {-1, 0, 5}
=============================================================================
