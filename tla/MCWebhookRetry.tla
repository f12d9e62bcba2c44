--------------------------- MODULE MCWebhookRetry ---------------------------
(* Instance of WebhookRetry for TLC: two events, delivered twice in all, and *)
(* one of another provider with which they contend for a cache of one entry. *)
(* As with ops/env.prod.example, SeenTTL is twice Drift, and the last retry  *)
(* of a hook comes no earlier than SeenTTL after its timestamp.              *)
EXTENDS WebhookRetry

CONSTANTS h1, h2, o1

MCHooks == {h1, h2}
MCOthers == {o1}

=============================================================================
