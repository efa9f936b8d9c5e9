----------------------------- MODULE MCFederation -----------------------------
(* Small instances of Federation for TLC. *)
EXTENDS Federation, TLC

(* Nothing but their names tells the members of these sets apart. *)
Symmetry ==
  Permutations(Providers) \cup Permutations(Requests) \cup Permutations(Clients)
    \cup Permutations(Secrets)
    \cup Permutations(Tenants) \cup Permutations(Origins)
=============================================================================
