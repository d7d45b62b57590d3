------------------------- MODULE MCWebhookDelivery -------------------------
(* Instances of WebhookDelivery for TLC. *)
EXTENDS WebhookDelivery

AllPairs == Hooks \X Events
OneRetry == <<1>>
=============================================================================
