----------------------------- MODULE MCLifetime -----------------------------
(* Instances of Lifetime for TLC. *)
EXTENDS Lifetime

=============================================================================
