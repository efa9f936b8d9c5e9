------------------------------- MODULE MCBackoff -------------------------------
(* Small instances of Backoff for TLC. *)
EXTENDS Backoff, TLC

Doubling[i \in 0..MaxAttempts] == IF i = 0 THEN 1 ELSE 2 * Doubling[i - 1]
Tampered == {-1, 0}

Symmetry == Permutations(Workers)
=============================================================================
