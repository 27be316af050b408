----------------------------- MODULE MCSessions -----------------------------
(* Instances of Sessions for TLC. *)
EXTENDS Sessions, TLC

Symmetry == Permutations(Clients) \cup Permutations(MySessions) \cup Permutations(Writes)

=============================================================================
