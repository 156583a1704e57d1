------------------------- MODULE MCWebhookDispatcher -------------------------
(* Instances of WebhookDispatcher for TLC.                                  *)
EXTENDS WebhookDispatcher, TLC

\* Drain promises have no identity of their own.
Sym == Permutations(Drainers)
=============================================================================
