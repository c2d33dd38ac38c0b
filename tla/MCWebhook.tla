----------------------------- MODULE MCWebhook -----------------------------
(***************************************************************************)
(* TLC instances of Webhook.                                               *)
(***************************************************************************)
EXTENDS Webhook, TLC

CONSTANTS c1, c2, e1

\* Calls are told apart by nothing but their name.
Symmetry == Permutations(Calls)
=============================================================================
