--------------------------- MODULE MCWebhookDelivery ---------------------------
(* Small instances of WebhookDelivery. *)
EXTENDS WebhookDelivery, TLC

EventsAndWorkers == Permutations(Events) \union Permutations(Workers)
=============================================================================
