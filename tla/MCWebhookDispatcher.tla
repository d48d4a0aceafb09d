------------------------- MODULE MCWebhookDispatcher -------------------------
(* Small instances of WebhookDispatcher for TLC. *)
EXTENDS WebhookDispatcher, TLC

CONSTANTS dev

MCRecipient == [n \in Notices |-> dev]

MCSymmetry == Permutations(Dispatchers)

=============================================================================
