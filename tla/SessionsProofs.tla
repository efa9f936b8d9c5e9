---------------------------- MODULE SessionsProofs ----------------------------
(***************************************************************************)
(* Sessions, proved for any number of sessions, people and concurrent      *)
(* revocations: every ending is recorded once by who ordered it, nothing   *)
(* that was asked for is missed, and the counts are true.                  *)
(***************************************************************************)
EXTENDS Sessions, FiniteSetTheorems, TLAPS

USE HolderAssumption, NobodyAssumption, FiniteAssumption
USE DEF coreVars, askVars, workVars

(* How many sessions a set of them holds is a number. *)
LEMMA SizeOfSessions ==
  ASSUME NEW S \in SUBSET Sessions
  PROVE  Cardinality(S) \in Nat
  BY FS_Subset, FS_CardinalityType

(***************************************************************************)
(* The core's own steps                                                    *)
(***************************************************************************)
LEMMA CoreStep ==
  ASSUME IInv, NEW s \in Sessions,
         Login(s) \/ Expire(s) \/ Logout(s) \/ CoreDeletes(s)
  PROVE  IInv'
<1>1. /\ UNCHANGED <<step, askVars, workVars, count, events>>
      /\ \A r \in Requests : \A x \in mine[r] : row'[x] = row[x]
      /\ \A x \in Sessions : row[x] # "none" => row'[x] # "none" /\ (Active(x)' => Active(x))
      /\ \A x \in Sessions : \A r \in Requests : by'[x] = r <=> by[x] = r
  BY DEF IInv, TypeOK, OneWriter, Traceable, Login, Expire, Logout, CoreDeletes,
         Locked, Active, Running
<1>2. TypeOK'
  BY DEF IInv, TypeOK, Login, Expire, Logout, CoreDeletes
<1>3. RecordedExactly'
  BY <1>1 DEF IInv, TypeOK, RecordedExactly
<1>4. CountIsTrue'
  <2>1. ASSUME NEW r \in Requests
        PROVE  {x \in Sessions : by'[x] = r} = {x \in Sessions : by[x] = r}
    BY <1>1
  <2> QED BY <1>1, <2>1 DEF IInv, CountIsTrue
<1>5. OneWriter'
  BY <1>1 DEF IInv, OneWriter, Running, TypeOK
<1>6. Traceable'
  BY DEF IInv, TypeOK, Traceable, Login, Expire, Logout, CoreDeletes, Running, Active
<1>7. expired \subseteq expired'
  BY DEF Login, Expire, Logout, CoreDeletes
<1>8. InHand' /\ NoneMissed'
  BY <1>1, <1>7 DEF IInv, TypeOK, InHand, NoneMissed, Listed
<1> QED BY <1>2, <1>3, <1>4, <1>5, <1>6, <1>8 DEF IInv

(***************************************************************************)
(* The steps of a revocation that write nothing                            *)
(***************************************************************************)
LEMMA QuietParts ==
  ASSUME IInv, UNCHANGED <<coreVars, count>>,
         \A r \in Requests : step'[r] = "done" <=> step[r] = "done"
  PROVE  RecordedExactly' /\ CountIsTrue' /\ Traceable'
<1>1. RecordedExactly'
  BY DEF IInv, RecordedExactly
<1>2. CountIsTrue'
  BY DEF IInv, CountIsTrue
<1>3. Traceable'
  BY DEF IInv, Traceable
<1> QED BY <1>1, <1>2, <1>3

LEMMA BeginStep ==
  ASSUME IInv, NEW r \in Requests, NEW S \in SUBSET Sessions, Begin(r, S),
         single' \in [Requests -> BOOLEAN]
  PROVE  IInv'
<1>1. TypeOK'
  BY DEF IInv, TypeOK, Begin, Steps
<1>2. RecordedExactly' /\ CountIsTrue' /\ Traceable'
  BY QuietParts DEF Begin, IInv, TypeOK
<1>3. OneWriter'
  BY DEF IInv, OneWriter, Begin, Running
<1>4. NoneMissed'
  BY DEF IInv, TypeOK, NoneMissed, Listed, Begin, Active, Running
<1>5. InHand'
  BY DEF IInv, TypeOK, InHand, Begin, Active, Running
<1> QED BY <1>1, <1>2, <1>3, <1>4, <1>5 DEF IInv

LEMMA UpdateStep ==
  ASSUME IInv, NEW r \in Requests, Update(r)
  PROVE  IInv'
<1>1. TypeOK'
  BY DEF IInv, TypeOK, Update, Found, Listed, Steps
<1>2. RecordedExactly' /\ CountIsTrue' /\ Traceable'
  BY QuietParts DEF Update, IInv, TypeOK
<1>3. OneWriter'
  BY DEF IInv, OneWriter, Update, Running
<1>4. NoneMissed'
  BY DEF IInv, TypeOK, NoneMissed, Listed, Update, Active, Running
<1>5. InHand'
  BY DEF IInv, TypeOK, InHand, Update, Found, Listed, IsLive, Active, Running
<1> QED BY <1>1, <1>2, <1>3, <1>4, <1>5 DEF IInv

LEMMA ReachStep ==
  ASSUME IInv, NEW r \in Requests, NEW s \in todo[r], Reach(r, s)
  PROVE  IInv'
<1>1. TypeOK'
  BY DEF IInv, TypeOK, Reach
<1>2. RecordedExactly' /\ CountIsTrue' /\ Traceable'
  BY QuietParts DEF Reach
<1>3. OneWriter'
  BY DEF IInv, OneWriter, Reach, Running
<1>4. NoneMissed'
  BY DEF IInv, NoneMissed, Listed, Reach, Active, Running
<1>5. InHand'
  BY DEF IInv, TypeOK, InHand, Reach, Active, Running
<1> QED BY <1>1, <1>2, <1>3, <1>4, <1>5 DEF IInv

LEMMA TakeStep ==
  ASSUME IInv, NEW r \in Requests, Take(r)
  PROVE  IInv'
<1>1. /\ next[r] \in todo[r] /\ next[r] \in Sessions /\ step[r] = "updating"
      /\ \A q \in Requests : next[r] \notin mine[q]
  BY DEF IInv, TypeOK, InHand, Take, CanLock, Locked
<1>2. \/ StillLive(r) /\ mine' = [mine EXCEPT ![r] = @ \cup {next[r]}]
      \/ ~StillLive(r) /\ mine' = mine
  BY DEF Take
<1>3. TypeOK'
  BY <1>1, <1>2 DEF IInv, TypeOK, Take
<1>4. RecordedExactly' /\ CountIsTrue' /\ Traceable'
  BY QuietParts DEF Take
<1>5. OneWriter'
  BY <1>1, <1>2 DEF IInv, TypeOK, OneWriter, Take, Running, StillLive, IsLive
<1>6. NoneMissed'
  BY DEF IInv, NoneMissed, Listed, Take, Active, Running
<1>7. InHand'
  <2>1. ASSUME NEW x \in known[r], Active(x), x \in todo[r] \cup mine[r]
        PROVE  x \in todo'[r] \cup mine'[r]
    BY <1>1, <1>2, <2>1 DEF IInv, TypeOK, InHand, Take, StillLive, IsLive, Active
  <2>2. \A q \in Requests : q # r => todo'[q] = todo[q] /\ mine'[q] = mine[q] /\ next'[q] = next[q]
    BY <1>2 DEF IInv, TypeOK, Take
  <2>3. next'[r] = None
    BY DEF IInv, TypeOK, Take
  <2> QED BY <1>1, <2>1, <2>2, <2>3 DEF IInv, InHand, Take, Active, Running
<1> QED BY <1>3, <1>4, <1>5, <1>6, <1>7 DEF IInv

LEMMA NotFoundStep ==
  ASSUME IInv, NEW r \in Requests, NotFound(r)
  PROVE  IInv'
<1>1. TypeOK'
  BY DEF IInv, TypeOK, NotFound, Steps
<1>2. RecordedExactly' /\ CountIsTrue' /\ Traceable'
  BY QuietParts DEF NotFound, Finished, IInv, TypeOK
<1>3. OneWriter'
  BY DEF IInv, OneWriter, NotFound, Running
<1>4. NoneMissed'
  BY DEF IInv, TypeOK, NoneMissed, Listed, InHand, NotFound, Finished, Active, Running
<1>5. InHand'
  BY DEF IInv, TypeOK, InHand, NotFound, Finished, Active, Running
<1> QED BY <1>1, <1>2, <1>3, <1>4, <1>5 DEF IInv

LEMMA RollbackStep ==
  ASSUME IInv, NEW r \in Requests, step[r] \in {"begun", "updating"}, Rollback(r)
  PROVE  IInv'
<1>1. TypeOK'
  BY DEF IInv, TypeOK, Rollback, Released, Steps
<1>2. RecordedExactly' /\ CountIsTrue' /\ Traceable'
  BY QuietParts DEF Rollback, IInv, TypeOK
<1>3. OneWriter'
  BY DEF IInv, TypeOK, OneWriter, Rollback, Released, Running
<1>4. NoneMissed'
  BY DEF IInv, TypeOK, NoneMissed, Listed, Rollback, Active, Running
<1>5. InHand'
  BY DEF IInv, TypeOK, InHand, Rollback, Released, Active, Running
<1> QED BY <1>1, <1>2, <1>3, <1>4, <1>5 DEF IInv

(***************************************************************************)
(* The commit                                                              *)
(***************************************************************************)
LEMMA CommitStep ==
  ASSUME IInv, NEW r \in Requests, Commit(r)
  PROVE  IInv'
<1>1. /\ step[r] = "updating" /\ mine[r] \in SUBSET Sessions
      /\ \A s \in mine[r] : Running(s) /\ by[s] = None
      /\ \A s \in Sessions : by[s] # r
  BY DEF IInv, TypeOK, OneWriter, Traceable, Commit, Finished, Running
<1>2. TypeOK'
  BY <1>1, SizeOfSessions DEF IInv, TypeOK, Commit, Finished, Recorded, Ended, Steps
<1>3. RecordedExactly'
  BY <1>1 DEF IInv, TypeOK, RecordedExactly, Commit, Recorded
<1>4. CountIsTrue'
  <2>1. {s \in Sessions : by'[s] = r} = mine[r]
    BY <1>1 DEF Commit
  <2>2. ASSUME NEW q \in Requests, q # r
        PROVE  {s \in Sessions : by'[s] = q} = {s \in Sessions : by[s] = q}
    BY <1>1, <2>2 DEF Commit
  <2>3. ASSUME NEW q \in Requests, step'[q] = "done"
        PROVE  count'[q] = Cardinality({s \in Sessions : by'[s] = q})
    <3>1. CASE q = r
      BY <2>1, <3>1 DEF IInv, TypeOK, Commit, Ended
    <3>2. CASE q # r
      BY <2>2, <2>3, <3>2 DEF IInv, TypeOK, CountIsTrue, Commit
    <3> QED BY <3>1, <3>2
  <2> QED BY <2>3 DEF CountIsTrue
<1>5. OneWriter'
  BY <1>1 DEF IInv, TypeOK, OneWriter, Commit, Running
<1>6. Traceable'
  BY <1>1 DEF IInv, TypeOK, Traceable, Commit, Running
<1>7. NoneMissed'
  BY <1>1 DEF IInv, TypeOK, NoneMissed, Listed, InHand, Commit, Finished, Active, Running
<1>8. InHand'
  BY <1>1 DEF IInv, TypeOK, InHand, Commit, Finished, Active, Running, OneWriter
<1> QED BY <1>2, <1>3, <1>4, <1>5, <1>6, <1>7, <1>8 DEF IInv

(***************************************************************************)
(* The inductive invariant, and what follows from it                       *)
(***************************************************************************)
LEMMA InitIInv == Init => IInv
  BY FS_EmptySet DEF Init, IInv, TypeOK, RecordedExactly, NoneMissed, CountIsTrue, OneWriter, InHand,
                     Traceable, Steps

LEMMA NextIInv == IInv /\ [Next]_vars => IInv'
<1> SUFFICES ASSUME IInv, [Next]_vars PROVE IInv'
  OBVIOUS
<1>1. CASE UNCHANGED vars
  BY <1>1 DEF vars, IInv, TypeOK, RecordedExactly, NoneMissed, CountIsTrue, OneWriter, InHand,
              Traceable, Listed, Active, Running
<1>2. CASE Core
  BY <1>2, CoreStep DEF Core
<1>3. ASSUME NEW r \in Requests, Ask(r) PROVE IInv'
  <2>1. ASSUME NEW s \in Sessions, Revoke(r, s) PROVE IInv'
    <3>1. single' \in [Requests -> BOOLEAN]
      BY <2>1 DEF IInv, TypeOK, Revoke
    <3> QED BY <2>1, <3>1, BeginStep DEF Revoke
  <2>2. ASSUME NEW h \in Holders, RevokeAllFor(r, h) PROVE IInv'
    <3>1. single' \in [Requests -> BOOLEAN] /\ HeldBy(h) \in SUBSET Sessions
      BY <2>2 DEF IInv, TypeOK, RevokeAllFor, HeldBy
    <3> QED BY <2>2, <3>1, BeginStep DEF RevokeAllFor
  <2> QED BY <1>3, <2>1, <2>2 DEF Ask
<1>4. ASSUME NEW r \in Requests, Work(r) PROVE IInv'
  <2>1. CASE DeadlockVictim(r)
    <3>1. step[r] \in {"begun", "updating"}
      BY <2>1 DEF DeadlockVictim, Deadlocked, IInv, InHand
    <3> QED BY <2>1, <3>1, RollbackStep DEF DeadlockVictim
  <2> QED BY <1>4, <2>1, UpdateStep, ReachStep, TakeStep, NotFoundStep, CommitStep DEF Work
<1>5. ASSUME NEW r \in Requests, Fails(r) PROVE IInv'
  BY <1>5, RollbackStep DEF Fails
<1> QED BY <1>1, <1>2, <1>3, <1>4, <1>5 DEF Next

(* Every reachable state satisfies the inductive invariant.                 *)
THEOREM Invariance == Spec => []IInv
BY InitIInv, NextIInv, PTL DEF Spec

(* Every reachable state is well typed.                                     *)
THEOREM TypeCorrect == Spec => []TypeOK
<1>1. IInv => TypeOK
  BY DEF IInv
<1> QED BY <1>1, Invariance, PTL

(* A session this module ended has one record, by who ended it; no other    *)
(* session has any.                                                         *)
THEOREM EndingsRecorded == Spec => []RecordedExactly
<1>1. IInv => RecordedExactly
  BY DEF IInv
<1> QED BY <1>1, Invariance, PTL

(* An answered revocation missed no session a listing taken at its UPDATE shows. *)
THEOREM NothingMissed == Spec => []NoneMissed
<1>1. IInv => NoneMissed
  BY DEF IInv
<1> QED BY <1>1, Invariance, PTL

(* The count RevokeAllFor answers is the number of sessions it ended.       *)
THEOREM CountTrue == Spec => []CountIsTrue
<1>1. IInv => CountIsTrue
  BY DEF IInv
<1> QED BY <1>1, Invariance, PTL
=============================================================================
