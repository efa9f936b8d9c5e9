---------------------------- MODULE MCProvisioning ----------------------------
(* Small instances of Provisioning for TLC. *)
EXTENDS Provisioning, TLC

CONSTANTS o1, t1, u1, u2, s1, s2, w1, w2

OneTarget == t1 :> o1
=============================================================================
