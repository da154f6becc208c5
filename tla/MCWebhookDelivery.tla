------------------------- MODULE MCWebhookDelivery --------------------------
(***************************************************************************)
(* One delivery, whose first attempt and two overlapping calls of          *)
(* retryPending compete for its record, and three attempts, the fewest     *)
(* with a count that an outdated copy can lower twice.                     *)
(***************************************************************************)
EXTENDS WebhookDelivery
=============================================================================
