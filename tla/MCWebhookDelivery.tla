------------------------- MODULE MCWebhookDelivery --------------------------
(* Instances of WebhookDelivery for TLC: one webhook replaces another.     *)
EXTENDS WebhookDelivery

CONSTANTS h1, h2, p1, p2
=============================================================================
