----------------------------- MODULE MCLifecycle -----------------------------
(* A pod with its intake and two clients. *)
EXTENDS Lifecycle

CONSTANTS c1, c2

MCClients == {c1, c2}

=============================================================================
