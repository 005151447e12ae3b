------------------------- MODULE MCWebhookDelivery -------------------------
(* Two changes the watcher makes and one of a request.                     *)
EXTENDS WebhookDelivery
CONSTANTS w1, w2, r1
=============================================================================
