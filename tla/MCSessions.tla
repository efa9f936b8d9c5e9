------------------------------ MODULE MCSessions ------------------------------
(* Small instances of Sessions for TLC. *)
EXTENDS Sessions, TLC

CONSTANTS a1, a2, ada, r1, r2

OneHolder == a1 :> ada @@ a2 :> ada
=============================================================================
