---------------------------- MODULE MCAccessReview ----------------------------
(* Small instances of AccessReview for TLC. *)
EXTENDS AccessReview, TLC

CONSTANTS c1, c2, ada, bob, admin, clerk, read, write, r1, r2

(* Three app codes; the first, read as a LIKE pattern, matches the second. *)
Underscored == <<"a", "_", "b">>
Lookalike == <<"a", "x", "b">>
Plain == <<"h", "r">>

OneApp == {Plain}
TwoApps == {Underscored, Lookalike}
OfOneApp == read :> Plain
OfTwoApps == read :> Underscored @@ write :> Lookalike

ReviewerSymmetry == Permutations(Reviewers)
=============================================================================
