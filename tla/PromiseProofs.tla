----------------------------- MODULE PromiseProofs -----------------------------
(***************************************************************************)
(* Provisioning implements ScimQueue: under the mapping of Provisioning    *)
(* (JobState, Failures), its initial states are initial states of the      *)
(* promise, and each of its steps is a step of the promise or changes      *)
(* nothing there.                                                          *)
(***************************************************************************)
EXTENDS ProvisioningProofs

USE TargetAssumption, BatchAssumption, AttemptsAssumption, ServerAssumption, BoundsAssumption
USE DEF targetVars, resyncVars, queueVars, coreVars, serverVars, workerVars

(***************************************************************************)
(* The mapping                                                             *)
(***************************************************************************)
LEMMA JobStateIs ==
  ASSUME NEW j \in Job
  PROVE  /\ JobState(j) = "none" <=> ~Offered(j)
         /\ JobState(j) = "dropped" <=> Offered(j) /\ ~Live(TargetOf(j))
         /\ JobState(j) = "pending" <=> Offered(j) /\ Live(TargetOf(j)) /\ j \in queue
         /\ JobState(j) = "delivered" <=>
              Offered(j) /\ Live(TargetOf(j)) /\ j \notin queue /\ Delivered(j)
         /\ JobState(j) = "abandoned" <=>
              Offered(j) /\ Live(TargetOf(j)) /\ j \notin queue /\ ~Delivered(j)
  BY DEF JobState

LEMMA JobStateWillBe ==
  ASSUME NEW j \in Job
  PROVE  /\ JobState(j)' = "none" <=> ~Offered(j)'
         /\ JobState(j)' = "dropped" <=> Offered(j)' /\ ~Live(TargetOf(j))'
         /\ JobState(j)' = "pending" <=> Offered(j)' /\ Live(TargetOf(j))' /\ j \in queue'
         /\ JobState(j)' = "delivered" <=>
              Offered(j)' /\ Live(TargetOf(j))' /\ j \notin queue' /\ Delivered(j)'
         /\ JobState(j)' = "abandoned" <=>
              Offered(j)' /\ Live(TargetOf(j))' /\ j \notin queue' /\ ~Delivered(j)'
  BY DEF JobState

(* What the promise does not see. *)
LEMMA PromiseFrame ==
  ASSUME UNCHANGED <<payload, status, queue, log>>
  PROVE  /\ \A j \in Job : JobState(j)' = JobState(j) /\ Failures(j)' = Failures(j)
         /\ reached' = reached => UNCHANGED Promise!vars
<1>1. \A j \in Job : JobState(j)' = JobState(j)
  BY DEF JobState, Offered, Live, Delivered
<1>2. \A j \in Job : Failures(j)' = Failures(j)
  BY DEF Failures, Delivered
<1> QED BY <1>1, <1>2 DEF Promise!vars

(***************************************************************************)
(* Late requests carry what was offered                                    *)
(***************************************************************************)
(* A worker sends only what is queued. *)
LEMMA SentWasOffered ==
  ASSUME IInv, NEW w \in Workers, Pushing(w)
  PROVE  cur[w] \in Job /\ cur[w] \in queue /\ Offered(cur[w])
  BY DEF IInv, TypeOK, Locks, BatchInHand, HeldRowsStay, Records, RowsKnown, Pushing, Unsettled

LEMMA OfferedStays ==
  ASSUME IInv, [Next]_vars
  PROVE  \A j \in Job : Offered(j) => Offered(j)'
<1>1. ASSUME NEW t \in Targets, NEW r \in 1..MaxResyncs, EnqueueAll(r, t)
      PROVE  \A j \in Job : Offered(j) => Offered(j)'
  BY <1>1 DEF EnqueueAll, Drafted, Offered
<1>2. ASSUME ~\E t \in Targets, r \in 1..MaxResyncs : EnqueueAll(r, t) PROVE payload' = payload
  <2>1. ASSUME NEW t \in Targets, Console(t) PROVE payload' = payload
    BY <1>2, <2>1
    DEF Console, HandleCreate, HandleUpdate, OperatorToggle, DeleteBegin, DeleteCommit, DeleteFails,
        HandleResync, InsertRows, EnqueueRefused, EnqueueFails, Withdraw
  <2>2. ASSUME NEW w \in Workers, Drain(w) \/ Crash(w) PROVE payload' = payload
    BY <2>2
    DEF Drain, Claim, ClaimNothing, Lookup, LookupFails, Push, PushFails, PushTimesOut, Record,
        Commit, DeadlockVictim, Crash, vars
  <2>3. ASSUME Core \/ Remote PROVE payload' = payload
    BY <2>3 DEF Core, Join, Leave, Rename, Remote, ApplyLate, DropLate, RemoteDelete
  <2> QED BY <2>1, <2>2, <2>3 DEF Next, CascadeRow, BackoffElapses, vars
<1> QED BY <1>1, <1>2 DEF Offered

LEMMA LateKnownStep ==
  ASSUME IInv, LateKnown, [Next]_vars
  PROVE  LateKnown'
<1>1. ASSUME NEW w \in Workers, PushTimesOut(w) PROVE LateKnown'
  <2>1. late' = late \cup {RequestOf(w)} /\ RequestOf(w).job = cur[w]
    BY <1>1 DEF PushTimesOut, RequestOf
  <2>2. cur[w] \in Job /\ Offered(cur[w])
    BY <1>1, SentWasOffered DEF PushTimesOut
  <2>3. \A r \in late : r.job \in Job
    BY DEF IInv, TypeOK, Request
  <2> QED BY <2>1, <2>2, <2>3, OfferedStays DEF LateKnown
<1>2. ASSUME ~\E w \in Workers : PushTimesOut(w) PROVE late' \subseteq late
  <2>1. ASSUME NEW t \in Targets, Console(t) PROVE late' = late
    BY <2>1
    DEF Console, HandleCreate, HandleUpdate, OperatorToggle, DeleteBegin, DeleteCommit, DeleteFails,
        HandleResync, InsertRows, EnqueueAll, EnqueueRefused, EnqueueFails, Withdraw
  <2>2. ASSUME NEW w \in Workers, Drain(w) \/ Crash(w) PROVE late' = late
    BY <1>2, <2>2
    DEF Drain, Claim, ClaimNothing, Lookup, LookupFails, Push, PushFails, Record, Commit,
        DeadlockVictim, Crash, vars
  <2>3. ASSUME Core \/ Remote PROVE late' \subseteq late
    BY <2>3 DEF Core, Join, Leave, Rename, Remote, ApplyLate, DropLate, RemoteDelete
  <2>4. ASSUME NEW j \in Job, CascadeRow(j) \/ BackoffElapses(j) PROVE late' = late
    BY <2>4 DEF CascadeRow, BackoffElapses
  <2>5. CASE UNCHANGED vars
    BY <2>5 DEF vars
  <2>6. queue \subseteq Job /\ waiting \subseteq Job
    BY DEF IInv, TypeOK
  <2> QED BY <2>1, <2>2, <2>3, <2>4, <2>5, <2>6 DEF Next
<1> QED BY <1>1, <1>2, OfferedStays DEF LateKnown, IInv, TypeOK, Request

(***************************************************************************)
(* The initial states                                                      *)
(***************************************************************************)
LEMMA InitPromise == Init => Promise!Init
<1> SUFFICES ASSUME Init PROVE Promise!Init
  OBVIOUS
<1>1. \A j \in Job : JobState(j) = "none"
  BY JobStateIs DEF Init, Offered
<1>2. \A j \in Job : Failures(j) = 0
  BY DEF Init, Failures, Delivered, EndsOk
<1> QED BY <1>1, <1>2 DEF Promise!Init, Init

(***************************************************************************)
(* The steps the promise sees                                              *)
(***************************************************************************)
(* A target that is not there yet has no jobs to lose. *)
LEMMA CreateIsUnseen ==
  ASSUME IInv, NEW t \in Targets, NEW s \in Servers, HandleCreate(t, s)
  PROVE  UNCHANGED Promise!vars
<1>1. \A j \in Job : TargetOf(j) = t => ~Offered(j)
  BY DEF HandleCreate, IInv, Records, RowsKnown
<1>2. \A j \in Job : TargetOf(j) # t => (Live(TargetOf(j))' <=> Live(TargetOf(j)))
  BY JobParts DEF HandleCreate, Live, IInv, TypeOK
<1>3. UNCHANGED <<payload, queue, log, reached>>
  BY DEF HandleCreate
<1>4. \A j \in Job : JobState(j)' = JobState(j)
  BY <1>1, <1>2, <1>3, JobStateIs, JobStateWillBe DEF JobState, Offered, Delivered
<1>5. \A j \in Job : Failures(j)' = Failures(j)
  BY <1>3 DEF Failures, Delivered
<1> QED BY <1>3, <1>4, <1>5 DEF Promise!vars

LEMMA EnqueueIsOffer ==
  ASSUME IInv, NEW t \in Targets, NEW r \in 1..MaxResyncs, EnqueueAll(r, t)
  PROVE  Promise!Offer(Drafted(r, t)) /\ Drafted(r, t) \in SUBSET Job
<1> DEFINE R == Drafted(r, t)
<1>1. \A j \in R : j \in Job /\ TargetOf(j) = t /\ ResyncOf(j) = <<r, t>>
  BY RowsOfIs DEF Drafted
<1>2. /\ queue' = queue \cup R /\ Live(t) /\ UNCHANGED <<log, reached, status>>
      /\ \A j \in Job : j \notin R => payload'[j] = payload[j]
  BY DEF EnqueueAll, Reachable
<1>3. \A j \in R : ~Offered(j) /\ payload'[j] # 0
  <2>1. \A j \in R : ~Offered(j)
    BY <1>1 DEF EnqueueAll, IInv, Records, RowsKnown
  <2>2. \A j \in R : payload'[j] # 0
    BY <1>1 DEF EnqueueAll, Drafted
  <2> QED BY <2>1, <2>2
<1>4. \A j \in R : JobState(j) = "none" /\ JobState(j)' = "pending"
  BY <1>1, <1>2, <1>3, JobStateIs, JobStateWillBe DEF Offered, Live
<1>5. \A j \in Job : j \notin R => JobState(j)' = JobState(j)
  BY <1>2 DEF JobState, Offered, Live, Delivered
<1>6. \A j \in Job : Failures(j)' = Failures(j)
  BY <1>2 DEF Failures, Delivered
<1>7. R \subseteq Promise!In("none") /\ R \in SUBSET Job
  BY <1>1, <1>4 DEF Promise!In
<1> QED BY <1>2, <1>4, <1>5, <1>6, <1>7 DEF Promise!Offer

LEMMA DeleteIsDrop ==
  ASSUME IInv, NEW t \in Targets, DeleteCommit(t)
  PROVE  Promise!Drop({j \in JobsOf(t) : Offered(j)})
<1> DEFINE D == {j \in JobsOf(t) : Offered(j)}
<1>1. UNCHANGED <<payload, reached>> /\ ~Live(t)'
  BY DEF DeleteCommit, Live, IInv, TypeOK
<1>2. \A j \in JobsOf(t) : j \in Job /\ TargetOf(j) = t /\ log'[j] = <<>>
  BY DEF DeleteCommit, Cascade, JobsOf
<1>3. \A j \in Job : j \notin JobsOf(t) =>
        /\ log'[j] = log[j] /\ (j \in queue' <=> j \in queue)
        /\ Live(TargetOf(j))' <=> Live(TargetOf(j))
  BY JobParts DEF DeleteCommit, Cascade, JobsOf, Live, IInv, TypeOK
<1>4. \A j \in D : JobState(j) # "none" /\ JobState(j)' = "dropped" /\ Failures(j)' = 0
  <2>1. \A j \in D : JobState(j) # "none" /\ JobState(j)' = "dropped"
    BY <1>1, <1>2, JobStateIs, JobStateWillBe DEF Offered
  <2>2. \A j \in D : Failures(j)' = 0
    BY <1>2 DEF Failures, Delivered, EndsOk
  <2> QED BY <2>1, <2>2
<1>5. \A j \in Job : j \notin D => JobState(j)' = JobState(j)
  <2>1. \A j \in JobsOf(t) : j \notin D => JobState(j) = "none" /\ JobState(j)' = "none"
    BY <1>1, <1>2, JobStateIs, JobStateWillBe DEF Offered
  <2>2. \A j \in Job : j \notin JobsOf(t) => JobState(j)' = JobState(j)
    BY <1>1, <1>3 DEF JobState, Offered, Delivered
  <2> QED BY <2>1, <2>2
<1>6. \A j \in Job : j \notin D => Failures(j)' = Failures(j)
  <2>1. \A j \in JobsOf(t) : j \notin D => log[j] = <<>> /\ log'[j] = <<>>
    BY <1>2 DEF IInv, Records, RowsKnown
  <2> QED BY <1>3, <2>1 DEF Failures, Delivered
<1>7. D \cap Promise!In("none") = {}
  BY <1>4 DEF Promise!In
<1> QED BY <1>1, <1>2, <1>4, <1>5, <1>6, <1>7 DEF Promise!Drop

LEMMA ProcessIsReach ==
  ASSUME IInv, NEW r, r.job \in Job, Offered(r.job), Process(r),
         UNCHANGED <<payload, status, queue, log>>
  PROVE  Promise!Reach(r.job)
<1>1. reached' = reached \cup {r.job}
  BY DEF Process
<1>2. JobState(r.job) # "none"
  BY JobStateIs
<1> QED BY <1>1, <1>2, PromiseFrame DEF Promise!Reach

(* The outcomes of a batch show all at once. *)
LEMMA CommitIsSettle ==
  ASSUME IInv, NEW w \in Workers, Commit(w)
  PROVE  Promise!Settle(done[w], failed[w]) /\ done[w] \in SUBSET Job /\ failed[w] \in SUBSET Job
<1>1. UNCHANGED <<payload, status, reached>>
  BY DEF Commit
<1>2. /\ done[w] \cup failed[w] \subseteq held[w]
      /\ done[w] \cap failed[w] = {} /\ done[w] \subseteq reached
  BY DEF IInv, Locks, BatchInHand, Settled
<1>3. \A j \in done[w] \cup failed[w] :
        /\ j \in Job /\ j \in queue /\ Offered(j) /\ Live(TargetOf(j))
        /\ AllFailed(log[j]) /\ Len(log[j]) = attempts[j] /\ attempts[j] < MaxAttempts
        /\ attempts[j] \in Nat /\ log[j] \in Seq({"ok", "failed"})
  BY <1>2 DEF IInv, TypeOK, Locks, HeldRowsStay, Records, RowsKnown, HistoryTellsAll, TellsPending
<1>4. \A j \in Job : j \notin done[w] \cup failed[w] =>
        log'[j] = log[j] /\ (j \in queue' <=> j \in queue)
  BY DEF Commit, Removed
<1>5. \A j \in done[w] \cup failed[w] :
        JobState(j) = "pending" /\ ~Delivered(j) /\ Failures(j) = attempts[j]
  <2>1. \A j \in done[w] \cup failed[w] : ~EndsOk(log[j])
    BY <1>3 DEF AllFailed, EndsOk
  <2> QED BY <1>3, <2>1, JobStateIs DEF Failures, Delivered
<1>6. \A j \in done[w] : JobState(j)' = "delivered" /\ Failures(j)' = Failures(j)
  <2>1. ASSUME NEW j \in done[w]
        PROVE  j \notin queue' /\ Delivered(j)' /\ Len(log'[j]) = Len(log[j]) + 1
    <3>1. log'[j] = Append(log[j], "ok") /\ j \notin queue'
      BY <1>3 DEF Commit, Removed
    <3> QED BY <1>3, <3>1, OneMoreOutcome DEF Delivered
  <2> QED BY <1>1, <1>3, <1>5, <2>1, JobStateWillBe DEF Failures, Offered, Live
<1>7. ASSUME NEW j \in failed[w]
      PROVE  /\ Failures(j)' = Failures(j) + 1
             /\ JobState(j)' = IF Failures(j) + 1 = MaxAttempts THEN "abandoned" ELSE JobState(j)
  <2>1. log'[j] = Append(log[j], "failed")
    BY <1>2, <1>3 DEF Commit
  <2>2. Len(log'[j]) = Len(log[j]) + 1 /\ ~Delivered(j)'
    BY <1>3, <2>1, OneMoreOutcome DEF Delivered
  <2>3. GivesUp(j) <=> Failures(j) + 1 = MaxAttempts
    BY <1>3, <1>5 DEF GivesUp
  <2>4. j \in queue' <=> ~GivesUp(j)
    BY <1>2, <1>3 DEF Commit, Removed
  <2>5. Failures(j)' = Failures(j) + 1
    BY <1>3, <1>5, <2>2 DEF Failures
  <2>6. Offered(j)' /\ Live(TargetOf(j))'
    BY <1>1, <1>3 DEF Offered, Live
  <2> QED BY <1>5, <2>2, <2>3, <2>4, <2>5, <2>6, JobStateWillBe, <1>3
<1>8. \A j \in Job : j \notin done[w] \cup failed[w] =>
        JobState(j)' = JobState(j) /\ Failures(j)' = Failures(j)
  <2>1. \A j \in Job : j \notin done[w] \cup failed[w] => JobState(j)' = JobState(j)
    BY <1>1, <1>4 DEF JobState, Offered, Live, Delivered
  <2>2. \A j \in Job : j \notin done[w] \cup failed[w] => Failures(j)' = Failures(j)
    BY <1>4 DEF Failures, Delivered
  <2> QED BY <2>1, <2>2
<1>9. /\ done[w] \subseteq Promise!In("pending") \cap reached
      /\ failed[w] \subseteq Promise!In("pending") \ done[w]
  BY <1>2, <1>3, <1>5 DEF Promise!In
<1>10. \A j \in Job :
         JobState(j)' = IF j \in done[w] THEN "delivered"
                        ELSE IF j \in failed[w] /\ Failures(j) + 1 = MaxAttempts THEN "abandoned"
                        ELSE JobState(j)
  BY <1>6, <1>7, <1>8
<1>11. \A j \in Job : Failures(j)' = IF j \in failed[w] THEN Failures(j) + 1 ELSE Failures(j)
  BY <1>2, <1>6, <1>7, <1>8
<1> QED BY <1>1, <1>3, <1>9, <1>10, <1>11 DEF Promise!Settle

(***************************************************************************)
(* Every step                                                              *)
(***************************************************************************)
LEMMA ConsoleStep ==
  ASSUME IInv, NEW t \in Targets, Console(t)
  PROVE  [Promise!Next]_Promise!vars
<1>1. CASE \E s \in Servers : HandleCreate(t, s)
  BY <1>1, CreateIsUnseen
<1>2. ASSUME NEW r \in 1..MaxResyncs, EnqueueAll(r, t) PROVE Promise!Next
  BY <1>2, EnqueueIsOffer DEF Promise!Next
<1>3. CASE DeleteCommit(t)
  <2>1. {j \in JobsOf(t) : Offered(j)} \in SUBSET Job
    BY DEF JobsOf
  <2> QED BY <1>3, <2>1, DeleteIsDrop DEF Promise!Next
<1>4. CASE \/ \E s \in Servers : HandleUpdate(t, s)
           \/ OperatorToggle(t) \/ DeleteBegin(t) \/ DeleteFails(t) \/ HandleResync(t)
           \/ \E r \in 1..MaxResyncs :
                InsertRows(r, t) \/ EnqueueRefused(r, t) \/ EnqueueFails(r, t)
  <2>1. UNCHANGED <<payload, status, queue, log, reached>>
    BY <1>4 DEF HandleUpdate, OperatorToggle, DeleteBegin, DeleteFails, HandleResync, InsertRows,
                EnqueueRefused, EnqueueFails, Withdraw
  <2> QED BY <2>1, PromiseFrame
<1> QED BY <1>1, <1>2, <1>3, <1>4 DEF Console

LEMMA WorkerStep ==
  ASSUME IInv, NEW w \in Workers, Drain(w) \/ Crash(w)
  PROVE  [Promise!Next]_Promise!vars
<1>1. ASSUME NEW p \in {"accepted", "refused"}, Push(w, p) PROVE Promise!Next
  <2>1. cur[w] \in Job /\ Offered(cur[w]) /\ RequestOf(w).job = cur[w]
    BY <1>1, SentWasOffered DEF Push, RequestOf
  <2>2. Process(RequestOf(w)) /\ UNCHANGED <<payload, status, queue, log>>
    BY <1>1 DEF Push
  <2>3. Promise!Reach(cur[w])
    BY <2>1, <2>2, ProcessIsReach
  <2> QED BY <2>1, <2>3 DEF Promise!Next
<1>2. CASE Commit(w)
  BY <1>2, CommitIsSettle DEF Promise!Next
<1>3. CASE \/ \E B \in SUBSET Claimable : Claim(w, B)
           \/ ClaimNothing(w)
           \/ \E j \in Unsettled(w) : Lookup(w, j) \/ LookupFails(w, j)
           \/ PushFails(w) \/ PushTimesOut(w) \/ Record(w) \/ DeadlockVictim(w) \/ Crash(w)
  <2>1. UNCHANGED <<payload, status, queue, log, reached>>
    BY <1>3 DEF Claim, ClaimNothing, Lookup, LookupFails, PushFails, PushTimesOut, Record,
                DeadlockVictim, Crash, vars
  <2> QED BY <2>1, PromiseFrame
<1> QED BY <1>1, <1>2, <1>3 DEF Drain

LEMMA WorldStep ==
  ASSUME IInv, LateKnown, Core \/ Remote \/ (\E j \in waiting : BackoffElapses(j))
                               \/ (\E j \in queue : CascadeRow(j))
  PROVE  [Promise!Next]_Promise!vars
<1>1. ASSUME NEW r \in late, ApplyLate(r) PROVE Promise!Next
  <2>1. r.job \in Job /\ Offered(r.job)
    BY DEF LateKnown, IInv, TypeOK, Request
  <2>2. Process(r) /\ UNCHANGED <<payload, status, queue, log>>
    BY <1>1 DEF ApplyLate
  <2>3. Promise!Reach(r.job)
    BY <2>1, <2>2, ProcessIsReach
  <2> QED BY <2>1, <2>3 DEF Promise!Next
<1>2. ASSUME ~\E r \in late : ApplyLate(r)
      PROVE  UNCHANGED <<payload, status, queue, log, reached>>
  BY <1>2 DEF Core, Join, Leave, Rename, Remote, DropLate, RemoteDelete, BackoffElapses, CascadeRow
<1> QED BY <1>1, <1>2, PromiseFrame

LEMMA StepIsPromised ==
  ASSUME IInv, LateKnown, [Next]_vars
  PROVE  [Promise!Next]_Promise!vars
<1>1. CASE UNCHANGED vars
  <2>1. UNCHANGED <<payload, status, queue, log, reached>>
    BY <1>1 DEF vars
  <2> QED BY <2>1, PromiseFrame
<1>2. CASE Next
  BY <1>2, ConsoleStep, WorkerStep, WorldStep DEF Next
<1> QED BY <1>1, <1>2

(* Provisioning keeps the promise of ScimQueue: however many replicas drain  *)
(* the queue, whatever crashes, times out, arrives late, deadlocks or is     *)
(* deleted, what the queue and its history show is a queue that counts every *)
(* failure, calls nothing delivered that no server processed, and gives up   *)
(* after MaxAttempts failures and not before (drain, finish and retry).      *)
THEOREM PromiseKept == Spec => QueuePromise
<1>1. Init => LateKnown
  BY DEF Init, LateKnown
<1>2. IInv /\ LateKnown /\ [Next]_vars => LateKnown'
  BY LateKnownStep
<1>3. IInv /\ LateKnown /\ [Next]_vars => [Promise!Next]_Promise!vars
  BY StepIsPromised
<1> QED BY <1>1, <1>2, <1>3, InitPromise, Invariance, PTL DEF Spec, QueuePromise, Promise!Spec
=============================================================================
