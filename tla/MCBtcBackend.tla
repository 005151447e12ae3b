---------------------------- MODULE MCBtcBackend ----------------------------
(* Three payments of different size to one address.                        *)
EXTENDS BtcBackend

CONSTANTS dust, half, full

MCValue == [t \in Txs |-> CASE t = dust -> 1 [] t = half -> 2 [] t = full -> 4]
=============================================================================
