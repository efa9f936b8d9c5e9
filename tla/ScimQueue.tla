------------------------------ MODULE ScimQueue ------------------------------
(***************************************************************************)
(* What the provisioning queue promises, without workers, transactions or  *)
(* locks.  A job offered by a resynchronisation is pending until it is     *)
(* delivered or has failed MaxAttempts times; every failure is counted;    *)
(* a delivered job has reached a server at least once, and a job that      *)
(* never was delivered may have reached one as well (at-least-once).       *)
(* Deleting the target is the only other way a job ends.                   *)
(***************************************************************************)
EXTENDS Naturals

CONSTANTS
  Job,          \* the identities of the queue's rows
  MaxAttempts   \* failures after which a job is abandoned

VARIABLES
  state,        \* what has become of each job
  tries,        \* the attempts that failed, as the history shows them
  reached       \* the jobs whose content some server has processed

vars == <<state, tries, reached>>

States == {"none", "pending", "delivered", "abandoned", "dropped"}

TypeOK ==
  /\ state \in [Job -> States]
  /\ tries \in [Job -> Nat]
  /\ reached \in SUBSET Job

Init ==
  /\ state = [j \in Job |-> "none"]
  /\ tries = [j \in Job |-> 0]
  /\ reached = {}

In(s) == {j \in Job : state[j] = s}

(* A resynchronisation puts a set of rows on the queue. *)
Offer(S) ==
  /\ S \subseteq In("none")
  /\ state' = [j \in Job |-> IF j \in S THEN "pending" ELSE state[j]]
  /\ UNCHANGED <<tries, reached>>

(* A server processes the content of a job, at any time after it was offered. *)
Reach(j) ==
  /\ state[j] # "none"
  /\ reached' = reached \cup {j}
  /\ UNCHANGED <<state, tries>>

(* The outcomes of a batch become visible together: D was delivered, F failed. *)
Settle(D, F) ==
  /\ D \subseteq In("pending") \cap reached
  /\ F \subseteq In("pending") \ D
  /\ state' = [j \in Job |->
       IF j \in D THEN "delivered"
       ELSE IF j \in F /\ tries[j] + 1 = MaxAttempts THEN "abandoned"
       ELSE state[j]]
  /\ tries' = [j \in Job |-> IF j \in F THEN tries[j] + 1 ELSE tries[j]]
  /\ UNCHANGED reached

(* Deleting a target takes its queue and its history with it. *)
Drop(S) ==
  /\ S \cap In("none") = {}
  /\ state' = [j \in Job |-> IF j \in S THEN "dropped" ELSE state[j]]
  /\ tries' = [j \in Job |-> IF j \in S THEN 0 ELSE tries[j]]
  /\ UNCHANGED reached

Next ==
  \/ \E S \in SUBSET Job : Offer(S) \/ Drop(S)
  \/ \E j \in Job : Reach(j)
  \/ \E D, F \in SUBSET Job : Settle(D, F)

Spec == Init /\ [][Next]_vars
=============================================================================
