--------------------------- MODULE ProvisioningProofs ---------------------------
(***************************************************************************)
(* Provisioning, proved for every value of its constants: every variable   *)
(* keeps its type, no row is in two batches, a row in hand stays, and the  *)
(* history tells the truth about every job.                                *)
(***************************************************************************)
EXTENDS Provisioning, SequenceTheorems, TLAPS

USE TargetAssumption, BatchAssumption, AttemptsAssumption, ServerAssumption, BoundsAssumption
USE DEF targetVars, resyncVars, queueVars, coreVars, serverVars, workerVars

LEMMA JobParts ==
  ASSUME NEW j \in Job
  PROVE  /\ Created(j) \in 1..MaxResyncs /\ TargetOf(j) \in Targets /\ UserOf(j) \in Users
         /\ ResyncOf(j) \in Resync
  BY DEF Job, Created, TargetOf, UserOf, ResyncOf, Resync

(* The rows of one resynchronisation of one target. *)
LEMMA RowsOfIs ==
  ASSUME NEW r, NEW t, NEW j \in RowsOf(r, t)
  PROVE  j \in Job /\ Created(j) = r /\ TargetOf(j) = t /\ ResyncOf(j) = <<r, t>>
  BY DEF RowsOf, JobsOf, ResyncOf

LEMMA ProcessType ==
  ASSUME TypeOK, NEW r \in Request, Process(r)
  PROVE  /\ remote' \in [Servers -> [Users -> Seq(0..MaxVersion)]]
         /\ reached' \in SUBSET Job
<1> DEFINE s == r.server
           u == UserOf(r.job)
           V == 0..MaxVersion
<1>1. r.server \in Servers /\ r.job \in Job /\ u \in Users /\ payload[r.job] \in V
  BY JobParts DEF Request, TypeOK
<1>2. remote[s][u] \in Seq(V)
  BY <1>1 DEF TypeOK
<1>3. Append(remote[s][u], payload[r.job]) \in Seq(V)
  BY <1>1, <1>2
<1>4. CASE r.verb = "POST"
  BY <1>1, <1>3, <1>4 DEF Process, TypeOK
<1>5. CASE r.verb # "POST"
  <2>1. remote[s][u] # <<>>
    BY <1>5 DEF Process, Accepts, Known
  <2>2. [remote[s][u] EXCEPT ![1] = payload[r.job]] \in Seq(V)
    BY <1>1, <1>2, <2>1, ExceptSeq
  <2> QED BY <1>1, <1>5, <2>2 DEF Process, TypeOK
<1> QED BY <1>4, <1>5

(***************************************************************************)
(* Types                                                                   *)
(***************************************************************************)
LEMMA ConsoleType ==
  ASSUME TypeOK, NEW t \in Targets, Console(t)
  PROVE  TypeOK'
<1>1. ASSUME NEW s \in Servers, HandleCreate(t, s) PROVE TypeOK'
  BY <1>1 DEF TypeOK, HandleCreate
<1>2. ASSUME NEW s \in Servers, HandleUpdate(t, s) PROVE TypeOK'
  BY <1>2 DEF TypeOK, HandleUpdate, Bounded
<1>3. CASE OperatorToggle(t)
  BY <1>3 DEF TypeOK, OperatorToggle, Bounded
<1>4. CASE DeleteBegin(t)
  BY <1>4 DEF TypeOK, DeleteBegin, Bounded
<1>5. CASE DeleteCommit(t)
  <2>1. log' \in [Job -> Seq({"ok", "failed"})] /\ attempts' \in [Job -> Nat]
    BY <1>5 DEF TypeOK, DeleteCommit
  <2> QED BY <1>5, <2>1 DEF TypeOK, DeleteCommit
<1>6. CASE DeleteFails(t)
  BY <1>6 DEF TypeOK, DeleteFails
<1>7. CASE HandleResync(t)
  <2>1. resyncs' \in 0..MaxResyncs /\ resyncing' \in SUBSET Resync
    BY <1>7 DEF TypeOK, HandleResync, Resync
  <2> QED BY <1>7, <2>1 DEF TypeOK, HandleResync
<1>8. ASSUME NEW r \in 1..MaxResyncs, InsertRows(r, t) PROVE TypeOK'
  <2>1. draft' \in [Job -> 0..MaxVersion]
    BY <1>8, JobParts DEF TypeOK, InsertRows, Versions
  <2>2. resyncing' \in SUBSET Resync /\ inserting' \in SUBSET Resync
    BY <1>8 DEF TypeOK, InsertRows, Resync
  <2> QED BY <1>8, <2>1, <2>2 DEF TypeOK, InsertRows
<1>9. ASSUME NEW r \in 1..MaxResyncs, EnqueueAll(r, t) PROVE TypeOK'
  <2>1. payload' \in [Job -> 0..MaxVersion] /\ draft' \in [Job -> 0..MaxVersion]
    BY <1>9 DEF TypeOK, EnqueueAll
  <2>2. queue' \in SUBSET Job /\ inserting' \in SUBSET Resync
    BY <1>9, RowsOfIs DEF TypeOK, EnqueueAll, Drafted
  <2>3. over' \in [1..MaxResyncs -> 0..MaxResyncs]
    BY <1>9 DEF TypeOK, EnqueueAll
  <2> QED BY <1>9, <2>1, <2>2, <2>3 DEF TypeOK, EnqueueAll
<1>10. ASSUME NEW r \in 1..MaxResyncs, EnqueueRefused(r, t) \/ EnqueueFails(r, t) PROVE TypeOK'
  <2>1. draft' \in [Job -> 0..MaxVersion] /\ spent' \in 0..Budget
    BY <1>10 DEF TypeOK, EnqueueRefused, EnqueueFails, Withdraw, Bounded
  <2>2. resyncing' \in SUBSET Resync /\ inserting' \in SUBSET Resync
    BY <1>10 DEF TypeOK, EnqueueRefused, EnqueueFails, Withdraw
  <2>3. UNCHANGED <<resyncs, over, targetVars, queueVars, coreVars, serverVars, workerVars>>
    BY <1>10 DEF EnqueueRefused, EnqueueFails, Withdraw
  <2> QED BY <2>1, <2>2, <2>3 DEF TypeOK
<1> QED BY <1>1, <1>2, <1>3, <1>4, <1>5, <1>6, <1>7, <1>8, <1>9, <1>10 DEF Console

(* A worker with a request to make names a job, its server and a verb. *)
LEMMA RequestType ==
  ASSUME TypeOK, BatchInHand, NEW w \in Workers, Pushing(w)
  PROVE  RequestOf(w) \in Request /\ cur[w] \in Job
<1>1. cur[w] \in Job
  BY DEF TypeOK, BatchInHand, Pushing, Unsettled
<1>2. creds[w][TargetOf(cur[w])] \in Servers
  BY <1>1, JobParts DEF BatchInHand, Pushing
<1> QED BY <1>1, <1>2 DEF RequestOf, Request, Verb

LEMMA DrainType ==
  ASSUME TypeOK, BatchInHand, NEW w \in Workers, Drain(w) \/ Crash(w)
  PROVE  TypeOK'
<1> USE DEF Phases
<1>1. ASSUME NEW B \in SUBSET Claimable, Claim(w, B) PROVE TypeOK'
  <2>1. B \in SUBSET Job
    BY DEF Claimable, Unlocked, TypeOK
  <2>2. /\ phase' \in [Workers -> Phases] /\ held' \in [Workers -> SUBSET Job]
        /\ done' \in [Workers -> SUBSET Job] /\ failed' \in [Workers -> SUBSET Job]
        /\ cur' \in [Workers -> Job \cup {None}]
    BY <1>1, <2>1 DEF TypeOK, Claim
  <2>3. creds' \in [Workers -> [Targets -> Servers] \cup {None}]
    BY <1>1 DEF TypeOK, Claim
  <2>4. UNCHANGED <<targetVars, resyncVars, queueVars, coreVars, serverVars, spent>>
    BY <1>1 DEF Claim
  <2> QED BY <2>2, <2>3, <2>4 DEF TypeOK
<1>2. CASE ClaimNothing(w)
  BY <1>2 DEF TypeOK, ClaimNothing, vars
<1>3. ASSUME NEW j \in Unsettled(w), Lookup(w, j) \/ LookupFails(w, j) PROVE TypeOK'
  <2>1. j \in Job
    BY DEF Unsettled, TypeOK
  <2>2. phase' \in [Workers -> Phases] /\ cur' \in [Workers -> Job \cup {None}]
    <3>1. \/ phase' = [phase EXCEPT ![w] = "present"] \/ phase' = [phase EXCEPT ![w] = "absent"]
          \/ phase' = [phase EXCEPT ![w] = "refused"]
      BY <1>3 DEF Lookup, LookupFails, Send
    <3>2. cur' = [cur EXCEPT ![w] = j]
      BY <1>3 DEF Lookup, LookupFails, Send
    <3> QED BY <2>1, <3>1, <3>2 DEF TypeOK
  <2>3. UNCHANGED <<targetVars, resyncVars, queueVars, coreVars, serverVars, spent,
                    held, creds, done, failed>>
    BY <1>3 DEF Lookup, LookupFails, Send
  <2> QED BY <2>2, <2>3 DEF TypeOK
<1>4. ASSUME NEW p \in {"accepted", "refused"}, Push(w, p) PROVE TypeOK'
  <2>1. RequestOf(w) \in Request /\ Process(RequestOf(w))
    BY <1>4, RequestType DEF Push
  <2>2. /\ remote' \in [Servers -> [Users -> Seq(0..MaxVersion)]]
        /\ reached' \in SUBSET Job
    BY <2>1, ProcessType
  <2>3. phase' \in [Workers -> Phases]
    BY <1>4 DEF TypeOK, Push, Answer
  <2>4. UNCHANGED <<late, targetVars, resyncVars, queueVars, coreVars, spent,
                    held, creds, cur, done, failed>>
    BY <1>4 DEF Push, Answer
  <2> QED BY <2>2, <2>3, <2>4 DEF TypeOK
<1>5. CASE PushFails(w)
  BY <1>5 DEF TypeOK, PushFails, Answer
<1>6. CASE PushTimesOut(w)
  <2>1. RequestOf(w) \in Request
    BY <1>6, RequestType DEF PushTimesOut
  <2> QED BY <1>6, <2>1 DEF TypeOK, PushTimesOut, Answer, Bounded
<1>7. CASE Record(w)
  <2>1. cur[w] \in Job
    BY <1>7 DEF TypeOK, BatchInHand, Record, Unsettled
  <2>2. /\ \/ done' = [done EXCEPT ![w] = @ \cup {cur[w]}] /\ failed' = failed
           \/ failed' = [failed EXCEPT ![w] = @ \cup {cur[w]}] /\ done' = done
        /\ phase' \in [Workers -> Phases] /\ cur' \in [Workers -> Job \cup {None}]
    BY <1>7 DEF TypeOK, Record
  <2>3. done' \in [Workers -> SUBSET Job] /\ failed' \in [Workers -> SUBSET Job]
    <3>1. done[w] \cup {cur[w]} \in SUBSET Job /\ failed[w] \cup {cur[w]} \in SUBSET Job
      BY <2>1 DEF TypeOK
    <3>2. done \in [Workers -> SUBSET Job] /\ failed \in [Workers -> SUBSET Job]
      BY DEF TypeOK
    <3> QED BY <2>2, <3>1, <3>2
  <2>4. UNCHANGED <<held, creds, targetVars, resyncVars, queueVars, coreVars, serverVars, spent>>
    BY <1>7 DEF Record
  <2> QED BY <2>2, <2>3, <2>4 DEF TypeOK
<1>8. CASE Commit(w)
  <2>1. log' \in [Job -> Seq({"ok", "failed"})] /\ attempts' \in [Job -> Nat]
    BY <1>8 DEF TypeOK, Commit
  <2>2. waiting' \in SUBSET Job
    BY <1>8 DEF TypeOK, Commit, Kept
  <2> QED BY <1>8, <2>1, <2>2 DEF TypeOK, Commit, Release
<1>9. CASE DeadlockVictim(w)
  BY <1>9 DEF TypeOK, DeadlockVictim, Release
<1>10. CASE Crash(w)
  BY <1>10 DEF TypeOK, Crash, Release, Bounded
<1> QED BY <1>1, <1>2, <1>3, <1>4, <1>5, <1>6, <1>7, <1>8, <1>9, <1>10 DEF Drain

LEMMA WorldType ==
  ASSUME TypeOK, Core \/ Remote \/ (\E j \in waiting : BackoffElapses(j))
                      \/ (\E j \in queue : CascadeRow(j))
  PROVE  TypeOK'
<1>1. CASE Core
  <2>1. ASSUME NEW o \in Tenants, NEW u \in Users, Join(o, u) PROVE TypeOK'
    BY <2>1 DEF TypeOK, Join, Bounded
  <2>2. ASSUME NEW o \in Tenants, NEW u \in Users, Leave(o, u) PROVE TypeOK'
    BY <2>2 DEF TypeOK, Leave, Bounded
  <2>3. ASSUME NEW u \in Users, Rename(u) PROVE TypeOK'
    <3>1. profile' \in [Users -> Versions]
      BY <2>3 DEF TypeOK, Rename, Versions
    <3> QED BY <2>3, <3>1 DEF TypeOK, Rename
  <2> QED BY <1>1, <2>1, <2>2, <2>3 DEF Core
<1>2. ASSUME NEW r \in late, ApplyLate(r) PROVE TypeOK'
  <2>1. /\ remote' \in [Servers -> [Users -> Seq(0..MaxVersion)]]
        /\ reached' \in SUBSET Job
    BY <1>2, ProcessType DEF ApplyLate, TypeOK
  <2>2. late' \in SUBSET Request
    BY <1>2 DEF TypeOK, ApplyLate
  <2>3. UNCHANGED <<targetVars, resyncVars, queueVars, coreVars, workerVars, spent>>
    BY <1>2 DEF ApplyLate
  <2> QED BY <2>1, <2>2, <2>3 DEF TypeOK
<1>3. ASSUME NEW r \in late, DropLate(r) PROVE TypeOK'
  BY <1>3 DEF TypeOK, DropLate
<1>4. ASSUME NEW s \in Servers, NEW u \in Users, RemoteDelete(s, u) PROVE TypeOK'
  <2>1. remote' \in [Servers -> [Users -> Seq(0..MaxVersion)]]
    <3>1. remote[s] \in [Users -> Seq(0..MaxVersion)] /\ <<>> \in Seq(0..MaxVersion)
      BY DEF TypeOK
    <3>2. [remote[s] EXCEPT ![u] = <<>>] \in [Users -> Seq(0..MaxVersion)]
      BY <3>1
    <3>3. remote' = [remote EXCEPT ![s] = [remote[s] EXCEPT ![u] = <<>>]]
      BY <1>4 DEF RemoteDelete
    <3> QED BY <3>2, <3>3 DEF TypeOK
  <2>2. spent' \in 0..Budget
    BY <1>4 DEF TypeOK, RemoteDelete, Bounded
  <2>3. UNCHANGED <<late, reached, targetVars, resyncVars, queueVars, coreVars, workerVars>>
    BY <1>4 DEF RemoteDelete
  <2> QED BY <2>1, <2>2, <2>3 DEF TypeOK
<1>5. ASSUME NEW j \in waiting, BackoffElapses(j) PROVE TypeOK'
  BY <1>5 DEF TypeOK, BackoffElapses
<1>6. ASSUME NEW j \in queue, CascadeRow(j) PROVE TypeOK'
  BY <1>6 DEF TypeOK, CascadeRow
<1> QED BY <1>1, <1>2, <1>3, <1>4, <1>5, <1>6 DEF Remote

(***************************************************************************)
(* What a step leaves alone                                                *)
(***************************************************************************)
LEMMA LocksFrame ==
  ASSUME Locks, reached \subseteq reached', doomed' \subseteq doomed,
         UNCHANGED <<held, status, queue, phase, creds, cur, done, failed>>
  PROVE  Locks'
<1>1. OneHolder' /\ HeldRowsStay'
  BY DEF Locks, OneHolder, HeldRowsStay, Live
<1>2. BatchInHand'
  BY DEF Locks, BatchInHand, Settled, Unsettled
<1> QED BY <1>1, <1>2 DEF Locks

LEMMA RecordsFrame ==
  ASSUME Records, reached \subseteq reached', deleting' \subseteq deleting,
         UNCHANGED <<queue, payload, attempts, log, status, resyncs, resyncing, inserting, over>>
  PROVE  Records'
<1>1. RowsKnown'
  BY DEF Records, RowsKnown, Live, Offered
<1>2. HistoryTellsAll'
  BY DEF Records, HistoryTellsAll, TellsPending, TellsAbandoned, TellsDelivered, Live, Offered, Delivered
<1>3. DoneWasProcessed' /\ NothingOrphaned'
  BY DEF Records, DoneWasProcessed, NothingOrphaned, Live, Delivered
<1> QED BY <1>1, <1>2, <1>3 DEF Records

(***************************************************************************)
(* Console                                                                 *)
(***************************************************************************)
LEMMA HandleCreateSafe ==
  ASSUME IInv, NEW t \in Targets, NEW s \in Servers, HandleCreate(t, s)
  PROVE  Locks' /\ Records'
<1>1. \A u \in Targets : Live(u) => Live(u)'
  BY DEF HandleCreate, Live, IInv, TypeOK
<1>2. \A u \in Targets : Live(u)' => Live(u) \/ u = t
  BY DEF HandleCreate, Live, IInv, TypeOK
<1>3. Locks'
  <2>1. OneHolder' /\ HeldRowsStay'
    BY <1>1, JobParts DEF IInv, TypeOK, Locks, OneHolder, HeldRowsStay, HandleCreate
  <2>2. BatchInHand'
    BY DEF IInv, Locks, BatchInHand, Settled, Unsettled, HandleCreate
  <2> QED BY <2>1, <2>2 DEF Locks
<1>4. RowsKnown' /\ DoneWasProcessed' /\ NothingOrphaned'
  BY <1>1, JobParts
  DEF IInv, TypeOK, Records, RowsKnown, Offered, DoneWasProcessed, NothingOrphaned, Delivered,
      HandleCreate
<1>5. HistoryTellsAll'
  BY <1>2, JobParts
  DEF IInv, TypeOK, Records, RowsKnown, HistoryTellsAll, TellsPending, TellsAbandoned, TellsDelivered, Offered, Delivered, HandleCreate
<1> QED BY <1>3, <1>4, <1>5 DEF Records

LEMMA DeleteBeginSafe ==
  ASSUME IInv, NEW t \in Targets, DeleteBegin(t)
  PROVE  Locks' /\ Records'
<1>1. Locks'
  BY LocksFrame DEF IInv, DeleteBegin
<1>2. RowsKnown'
  BY DEF IInv, Records, RowsKnown, DeleteBegin, Reachable, Live, Offered
<1>3. HistoryTellsAll'
  BY DEF IInv, Records, HistoryTellsAll, TellsPending, TellsAbandoned, TellsDelivered, Live, Offered, Delivered, DeleteBegin
<1>4. DoneWasProcessed' /\ NothingOrphaned'
  BY DEF IInv, Records, DoneWasProcessed, NothingOrphaned, Live, Delivered, DeleteBegin
<1> QED BY <1>1, <1>2, <1>3, <1>4 DEF Records

LEMMA CascadeRowSafe ==
  ASSUME IInv, NEW j \in queue, CascadeRow(j)
  PROVE  Locks' /\ Records'
<1>1. Records'
  BY RecordsFrame DEF IInv, CascadeRow
<1>2. OneHolder' /\ HeldRowsStay'
  BY DEF IInv, Locks, OneHolder, HeldRowsStay, Live, CascadeRow, Unlocked
<1>3. BatchInHand'
  BY DEF IInv, Locks, BatchInHand, Settled, Unsettled, CascadeRow
<1> QED BY <1>1, <1>2, <1>3 DEF Locks

(* The DELETE commits only when it holds every queued row of the target, so *)
(* no batch loses one.                                                      *)
LEMMA DeleteCommitSafe ==
  ASSUME IInv, NEW t \in Targets, DeleteCommit(t)
  PROVE  Locks' /\ Records'
<1>1. \A w \in Workers : \A j \in held[w] : j \in Job /\ TargetOf(j) # t
  BY DEF IInv, TypeOK, Locks, HeldRowsStay, DeleteCommit, JobsOf
<1>2. \A u \in Targets : u # t => (Live(u)' <=> Live(u))
  BY DEF IInv, TypeOK, Live, DeleteCommit
<1>3. ~Live(t)' /\ status'[t] = "gone"
  BY DEF IInv, TypeOK, Live, DeleteCommit
<1>4. Locks'
  <2>1. OneHolder'
    BY DEF IInv, Locks, OneHolder, DeleteCommit
  <2>2. HeldRowsStay'
    BY <1>1, <1>2, JobParts DEF IInv, Locks, HeldRowsStay, DeleteCommit, Cascade, JobsOf
  <2>3. BatchInHand'
    BY DEF IInv, Locks, BatchInHand, Settled, Unsettled, DeleteCommit
  <2> QED BY <2>1, <2>2, <2>3 DEF Locks
<1>5. \A j \in Job : TargetOf(j) # t => log'[j] = log[j] /\ attempts'[j] = attempts[j]
  BY DEF DeleteCommit, Cascade, JobsOf
<1>6. \A j \in Job : TargetOf(j) = t => log'[j] = <<>> /\ attempts'[j] = 0 /\ j \notin queue'
  BY DEF DeleteCommit, Cascade, JobsOf
<1>7. \A j \in Job : TargetOf(j) # t => (j \in queue' <=> j \in queue)
  BY DEF DeleteCommit, Cascade, JobsOf
<1>8. UNCHANGED <<payload, resyncVars, reached>> /\ queue' \subseteq Job
  BY DEF DeleteCommit, IInv, TypeOK
<1>9. RowsKnown'
  <2>1. \A j \in Job : TargetOf(j) # t => status'[TargetOf(j)] = status[TargetOf(j)]
    BY JobParts DEF DeleteCommit, IInv, TypeOK
  <2>2. \A u \in deleting' : Live(u)'
    BY <1>2 DEF DeleteCommit, IInv, TypeOK, Records, RowsKnown
  <2>3. \A j \in queue' : Offered(j)' /\ Live(TargetOf(j))'
    BY <1>2, <1>6, <1>7, <1>8, JobParts DEF IInv, Records, RowsKnown, Offered
  <2> QED BY <1>3, <1>5, <1>6, <1>8, <2>1, <2>2, <2>3, JobParts
      DEF IInv, Records, RowsKnown, Offered
<1>10. HistoryTellsAll'
  BY <1>2, <1>3, <1>5, <1>7, <1>8, JobParts DEF IInv, Records, HistoryTellsAll, TellsPending, TellsAbandoned, TellsDelivered, Offered, Delivered
<1>11. DoneWasProcessed' /\ NothingOrphaned'
  BY <1>2, <1>5, <1>6, <1>7, <1>8, JobParts
  DEF IInv, Records, DoneWasProcessed, NothingOrphaned, Delivered, EndsOk
<1> QED BY <1>4, <1>9, <1>10, <1>11 DEF Records

(* A resynchronisation that starts, reads or fails leaves the queue as it is. *)
LEMMA ResyncSafe ==
  ASSUME IInv, NEW t \in Targets, NEW r \in 1..MaxResyncs,
         HandleResync(t) \/ InsertRows(r, t) \/ EnqueueRefused(r, t) \/ EnqueueFails(r, t)
  PROVE  Locks' /\ Records'
<1>1. UNCHANGED <<targetVars, queueVars, serverVars, workerVars, over>>
  BY DEF HandleResync, InsertRows, EnqueueRefused, EnqueueFails, Withdraw
<1>2. Locks'
  BY <1>1, LocksFrame DEF IInv
<1>3. resyncs \in Nat /\ resyncing \subseteq Resync /\ inserting \subseteq Resync
  BY DEF IInv, TypeOK
<1>4. \/ /\ resyncs' = resyncs + 1
         /\ resyncing' = resyncing \cup {<<resyncs', t>>} /\ inserting' = inserting
      \/ /\ resyncs' = resyncs
         /\ resyncing' \cup inserting' \subseteq resyncing \cup inserting
         /\ resyncing' \cap inserting' = {}
  BY DEF HandleResync, InsertRows, EnqueueRefused, EnqueueFails, Withdraw, IInv, Records, RowsKnown
<1>5. /\ \A x \in resyncing' \cup inserting' : x[1] <= resyncs'
      /\ resyncing' \cap inserting' = {}
  <2>1. \A x \in resyncing \cup inserting : x[1] \in Nat /\ x[1] <= resyncs
    BY <1>3 DEF Resync, IInv, Records, RowsKnown
  <2>2. resyncing \cap inserting = {}
    BY DEF IInv, Records, RowsKnown
  <2> QED BY <1>3, <1>4, <2>1, <2>2
<1>6. \A j \in Job : \/ Created(j) > resyncs'
                     \/ ResyncOf(j) \in resyncing' \cup inserting'
                     \/ status'[TargetOf(j)] = "absent"
                     => ~Offered(j)'
  <2> SUFFICES ASSUME NEW j \in Job, Offered(j)
               PROVE  /\ Created(j) <= resyncs' /\ ResyncOf(j) \notin resyncing' \cup inserting'
                      /\ status[TargetOf(j)] # "absent"
    BY <1>1, <1>3, <1>4, JobParts DEF Offered
  <2>1. /\ Created(j) <= resyncs /\ ResyncOf(j) \notin resyncing \cup inserting
        /\ status[TargetOf(j)] # "absent" /\ Created(j) \in Nat
    BY <1>3, JobParts DEF IInv, Records, RowsKnown
  <2>2. ResyncOf(j)[1] = Created(j)
    BY DEF ResyncOf
  <2> QED BY <1>3, <1>4, <2>1, <2>2
<1>7. RowsKnown'
  BY <1>1, <1>5, <1>6 DEF IInv, Records, RowsKnown, Offered, Live
<1>8. HistoryTellsAll' /\ DoneWasProcessed' /\ NothingOrphaned'
  BY <1>1 DEF IInv, Records, HistoryTellsAll, TellsPending, TellsAbandoned, TellsDelivered, Live,
              Offered, Delivered, DoneWasProcessed, NothingOrphaned
<1> QED BY <1>2, <1>7, <1>8 DEF Records

LEMMA EnqueueAllSafe ==
  ASSUME IInv, NEW t \in Targets, NEW r \in 1..MaxResyncs, EnqueueAll(r, t)
  PROVE  Locks' /\ Records'
<1> DEFINE R == Drafted(r, t)
<1>1. /\ \A j \in R : j \in Job /\ TargetOf(j) = t /\ Created(j) = r /\ ResyncOf(j) = <<r, t>>
      /\ queue' = queue \cup R
  BY RowsOfIs DEF EnqueueAll, Drafted
<1>2. \A j \in R : ~Offered(j) /\ attempts[j] = 0 /\ log[j] = <<>> /\ j \notin queue
  BY <1>1 DEF EnqueueAll, IInv, Records, RowsKnown
<1>3. \A j \in R : payload'[j] # 0
  BY <1>1 DEF EnqueueAll, Drafted
<1>4. \A j \in Job : j \notin R => payload'[j] = payload[j]
  BY DEF EnqueueAll
<1>5. Live(t) /\ UNCHANGED <<log, attempts, reached, status, deleting, resyncs, resyncing>>
  BY DEF EnqueueAll, Reachable
<1>6. Locks'
  <2>1. OneHolder' /\ HeldRowsStay'
    BY <1>1, <1>5 DEF EnqueueAll, IInv, Locks, OneHolder, HeldRowsStay, Live
  <2>2. BatchInHand'
    BY DEF EnqueueAll, IInv, Locks, BatchInHand, Settled, Unsettled
  <2> QED BY <2>1, <2>2 DEF Locks
<1>7. RowsKnown'
  <2>1. \A j \in queue' : Offered(j)' /\ Live(TargetOf(j))'
    BY <1>1, <1>3, <1>4, <1>5 DEF IInv, TypeOK, Records, RowsKnown, Offered, Live
  <2>2. \A j \in Job : ~Offered(j)' => attempts'[j] = 0 /\ log'[j] = <<>>
    BY <1>2, <1>4, <1>5 DEF IInv, Records, RowsKnown, Offered
  <2>3. inserting' = inserting \ {<<r, t>>} /\ <<r, t>> \in inserting /\ r \in Nat /\ resyncs \in Nat
    BY DEF EnqueueAll, IInv, TypeOK
  <2>4. r <= resyncs /\ <<r, t>> \notin resyncing' \cup inserting'
    <3>1. <<r, t>>[1] <= resyncs /\ <<r, t>> \notin resyncing
      BY <2>3 DEF IInv, Records, RowsKnown
    <3> QED BY <1>5, <2>3, <3>1
  <2>5. \A j \in Job : \/ Created(j) > resyncs'
                       \/ ResyncOf(j) \in resyncing' \cup inserting'
                       \/ status'[TargetOf(j)] = "absent"
                       => ~Offered(j)'
    <3>1. \A j \in R : ~(\/ Created(j) > resyncs'
                         \/ ResyncOf(j) \in resyncing' \cup inserting'
                         \/ status'[TargetOf(j)] = "absent")
      BY <1>1, <1>5, <2>3, <2>4 DEF Live
    <3> QED BY <1>4, <1>5, <2>3, <3>1 DEF IInv, Records, RowsKnown, Offered
  <2>6. \A j \in Job : Offered(j)' => Created(j) <= over'[Created(j)]
    <3> SUFFICES ASSUME NEW j \in Job, Offered(j)' PROVE Created(j) <= over'[Created(j)]
      OBVIOUS
    <3>1. Created(j) \in 1..MaxResyncs
      BY JobParts
    <3>2. Created(j) = r => over'[Created(j)] = resyncs
      BY DEF EnqueueAll, IInv, TypeOK
    <3>3. Created(j) # r => over'[Created(j)] = over[Created(j)]
      BY <3>1 DEF EnqueueAll, IInv, TypeOK
    <3>4. j \notin R => Offered(j)
      BY <1>4 DEF Offered
    <3> QED BY <1>1, <2>4, <3>2, <3>3, <3>4 DEF IInv, Records, RowsKnown
  <2>7. /\ \A x \in resyncing' \cup inserting' : x[1] <= resyncs'
        /\ resyncing' \cap inserting' = {}
    BY <1>5, <2>3 DEF IInv, Records, RowsKnown
  <2> QED BY <1>5, <2>1, <2>2, <2>5, <2>6, <2>7 DEF IInv, Records, RowsKnown, Live
<1>8. HistoryTellsAll'
  <2>1. \A j \in R : TellsPending(j)' /\ j \in queue'
    BY <1>1, <1>2, <1>5 DEF TellsPending, AllFailed
  <2>2. \A j \in Job : j \notin R => (j \in queue' <=> j \in queue)
    BY <1>1
  <2> QED BY <1>4, <1>5, <2>1, <2>2
      DEF IInv, Records, HistoryTellsAll, TellsPending, TellsAbandoned, TellsDelivered, Offered,
          Delivered, Live
<1>9. DoneWasProcessed' /\ NothingOrphaned'
  BY <1>1, <1>5 DEF IInv, Records, DoneWasProcessed, NothingOrphaned, Delivered, Live
<1> QED BY <1>6, <1>7, <1>8, <1>9 DEF Records

(***************************************************************************)
(* Worker                                                                  *)
(***************************************************************************)

(* SKIP LOCKED: a claim takes no row that a worker or a DELETE holds. *)
LEMMA ClaimSafe ==
  ASSUME IInv, NEW w \in Workers, NEW B \in SUBSET Claimable, Claim(w, B)
  PROVE  Locks' /\ Records'
<1>1. Records'
  BY RecordsFrame DEF IInv, Claim
<1>2. \A j \in B : j \in queue /\ j \notin doomed /\ Live(TargetOf(j))
                   /\ \A v \in Workers : j \notin held[v]
  BY DEF Claimable, Unlocked
<1>3. held'[w] = B /\ \A v \in Workers : v # w => held'[v] = held[v]
  BY DEF Claim, IInv, TypeOK
<1>4. OneHolder'
  BY <1>2, <1>3 DEF IInv, Locks, OneHolder
<1>5. HeldRowsStay'
  BY <1>2, <1>3 DEF IInv, Locks, HeldRowsStay, Claim, Live
<1>6. held[w] = {} /\ done[w] = {} /\ failed[w] = {}
  BY DEF IInv, Locks, BatchInHand, Claim, Settled
<1>7. BatchInHand'
  BY <1>3, <1>6 DEF IInv, TypeOK, Locks, BatchInHand, Claim, Settled, Unsettled
<1> QED BY <1>1, <1>4, <1>5, <1>7 DEF Locks

LEMMA SendSafe ==
  ASSUME IInv, NEW w \in Workers, NEW j \in Unsettled(w), Lookup(w, j) \/ LookupFails(w, j)
  PROVE  Locks' /\ Records'
<1>1. Records'
  BY RecordsFrame DEF IInv, Lookup, LookupFails, Send
<1>2. OneHolder' /\ HeldRowsStay'
  BY DEF IInv, Locks, OneHolder, HeldRowsStay, Live, Lookup, LookupFails, Send
<1>3. /\ cur' = [cur EXCEPT ![w] = j]
      /\ \E p \in {"absent", "present", "refused"} : phase' = [phase EXCEPT ![w] = p]
      /\ phase[w] = "next" /\ UNCHANGED <<held, creds, done, failed, reached>>
  BY DEF Lookup, LookupFails, Send
<1>4. BatchInHand'
  BY <1>3 DEF IInv, TypeOK, Locks, BatchInHand, Settled, Unsettled
<1> QED BY <1>1, <1>2, <1>4 DEF Locks

LEMMA PushSafe ==
  ASSUME IInv, NEW w \in Workers,
         PushFails(w) \/ PushTimesOut(w) \/ \E p \in {"accepted", "refused"} : Push(w, p)
  PROVE  Locks' /\ Records'
<1>1. /\ \E p \in {"accepted", "refused"} :
           phase' = [phase EXCEPT ![w] = p] /\ (p = "accepted" => cur[w] \in reached')
      /\ UNCHANGED <<held, creds, cur, done, failed, targetVars, resyncVars, queueVars>>
      /\ reached \subseteq reached'
      /\ Pushing(w)
  BY DEF PushFails, PushTimesOut, Push, Answer, Process, RequestOf
<1>2. Records'
  BY <1>1, RecordsFrame DEF IInv
<1>3. OneHolder' /\ HeldRowsStay'
  BY <1>1 DEF IInv, Locks, OneHolder, HeldRowsStay, Live
<1>4. BatchInHand'
  BY <1>1 DEF IInv, TypeOK, Locks, BatchInHand, Settled, Unsettled, Pushing
<1> QED BY <1>2, <1>3, <1>4 DEF Locks

LEMMA RecordSafe ==
  ASSUME IInv, NEW w \in Workers, Record(w)
  PROVE  Locks' /\ Records'
<1>1. Records'
  BY RecordsFrame DEF IInv, Record
<1>2. OneHolder' /\ HeldRowsStay'
  BY DEF IInv, Locks, OneHolder, HeldRowsStay, Live, Record
<1>3. cur[w] \in Unsettled(w)
  BY DEF IInv, Locks, BatchInHand, Record
<1>4. \A v \in Workers : v # w =>
        done'[v] = done[v] /\ failed'[v] = failed[v] /\ phase'[v] = phase[v] /\ cur'[v] = cur[v]
  BY DEF IInv, TypeOK, Record
<1>5. /\ phase'[w] = "next"
      /\ \/ Succeeded(w) /\ done'[w] = done[w] \cup {cur[w]} /\ failed'[w] = failed[w]
         \/ failed'[w] = failed[w] \cup {cur[w]} /\ done'[w] = done[w]
      /\ phase[w] # "idle" /\ UNCHANGED <<held, creds, reached>>
  BY DEF IInv, TypeOK, Record
<1>6. BatchInHand'
  BY <1>3, <1>4, <1>5 DEF IInv, Locks, BatchInHand, Settled, Unsettled, Succeeded
<1> QED BY <1>1, <1>2, <1>6 DEF Locks

(* Letting go of a batch is always safe; the queue may lose rows that only *)
(* this worker held.                                                       *)
LEMMA ReleaseLocks ==
  ASSUME IInv, NEW w \in Workers, Release(w),
         UNCHANGED <<doomed, status, reached>>,
         queue' \subseteq queue, queue \ queue' \subseteq held[w]
  PROVE  Locks'
<1>1. held'[w] = {} /\ \A v \in Workers : v # w => held'[v] = held[v]
  BY DEF Release, IInv, TypeOK
<1>2. OneHolder'
  BY <1>1 DEF IInv, Locks, OneHolder
<1>3. HeldRowsStay'
  BY <1>1 DEF IInv, Locks, OneHolder, HeldRowsStay, Live
<1>4. BatchInHand'
  BY <1>1 DEF IInv, TypeOK, Locks, BatchInHand, Settled, Unsettled, Release
<1> QED BY <1>2, <1>3, <1>4 DEF Locks

LEMMA RollbackSafe ==
  ASSUME IInv, NEW w \in Workers, Crash(w) \/ DeadlockVictim(w)
  PROVE  Locks' /\ Records'
<1>1. Locks'
  BY ReleaseLocks DEF Crash, DeadlockVictim
<1>2. Records'
  BY RecordsFrame DEF IInv, Crash, DeadlockVictim
<1> QED BY <1>1, <1>2

LEMMA OneMoreOutcome ==
  ASSUME NEW h \in Seq({"ok", "failed"}), AllFailed(h), NEW x \in {"ok", "failed"}
  PROVE  /\ Len(Append(h, x)) = Len(h) + 1
         /\ \A i \in 1..(Len(Append(h, x)) - 1) : Append(h, x)[i] = "failed"
         /\ EndsOk(Append(h, x)) <=> x = "ok"
         /\ x = "failed" => AllFailed(Append(h, x))
<1>1. Len(Append(h, x)) = Len(h) + 1 /\ Len(h) \in Nat
  OBVIOUS
<1>2. \A i \in 1..Len(h) : Append(h, x)[i] = h[i]
  OBVIOUS
<1>3. Append(h, x)[Len(h) + 1] = x
  OBVIOUS
<1>4. \A i \in 1..Len(h) : Append(h, x)[i] = "failed"
  BY <1>2 DEF AllFailed
<1>5. x = "failed" => AllFailed(Append(h, x))
  BY <1>1, <1>3, <1>4 DEF AllFailed
<1> QED BY <1>1, <1>3, <1>4, <1>5 DEF EndsOk

(* One more outcome: a pending job becomes delivered, abandoned or pending *)
(* with one more failure, according to what is appended to its history.    *)
LEMMA CommitSafe ==
  ASSUME IInv, NEW w \in Workers, Commit(w)
  PROVE  Locks' /\ Records'
<1>1. UNCHANGED <<payload, resyncVars, status, deleting, doomed, reached>>
  BY DEF Commit
<1>2. Removed(w) \subseteq held[w] /\ done[w] \cup failed[w] \subseteq held[w]
      /\ done[w] \cap failed[w] = {} /\ done[w] \subseteq reached
  BY DEF IInv, Locks, BatchInHand, Removed, Settled
<1>3. Locks'
  <2>1. queue' \subseteq queue /\ queue \ queue' \subseteq held[w] /\ Release(w)
    BY <1>2 DEF Commit
  <2> QED BY <1>1, <2>1, ReleaseLocks
<1>4. \A j \in done[w] \cup failed[w] :
        j \in Job /\ j \in queue /\ Offered(j) /\ Live(TargetOf(j)) /\ TellsPending(j)
  BY <1>2 DEF IInv, TypeOK, Locks, HeldRowsStay, Records, RowsKnown, HistoryTellsAll
<1>5. \A j \in Job : j \notin done[w] \cup failed[w] =>
        log'[j] = log[j] /\ attempts'[j] = attempts[j] /\ (j \in queue' <=> j \in queue)
  BY DEF Commit, Kept, Removed
<1>6. \A j \in Job : log[j] \in Seq({"ok", "failed"}) /\ attempts[j] \in Nat
  BY DEF IInv, TypeOK
<1>7. ASSUME NEW j \in done[w]
      PROVE  j \notin queue' /\ TellsDelivered(j)'
  <2>1. log'[j] = Append(log[j], "ok") /\ j \notin queue'
    BY <1>4 DEF Commit, Removed
  <2>2. /\ Len(log'[j]) = Len(log[j]) + 1 /\ EndsOk(log'[j])
        /\ \A i \in 1..(Len(log'[j]) - 1) : log'[j][i] = "failed"
    BY <1>4, <1>6, <2>1, OneMoreOutcome DEF TellsPending
  <2>3. Len(log[j]) < MaxAttempts /\ Len(log[j]) \in Nat
    BY <1>4, <1>6 DEF TellsPending
  <2>4. Len(log'[j]) <= MaxAttempts
    BY <2>2, <2>3
  <2> QED BY <2>1, <2>2, <2>4 DEF TellsDelivered, Delivered
<1>8. ASSUME NEW j \in failed[w]
      PROVE  /\ ~Delivered(j)'
             /\ GivesUp(j) => j \notin queue' /\ TellsAbandoned(j)'
             /\ ~GivesUp(j) => j \in queue' /\ TellsPending(j)'
  <2>1. log'[j] = Append(log[j], "failed")
    BY <1>2, <1>4 DEF Commit
  <2>2. Len(log'[j]) = Len(log[j]) + 1 /\ ~EndsOk(log'[j]) /\ AllFailed(log'[j])
    BY <1>4, <1>6, <2>1, OneMoreOutcome DEF TellsPending
  <2>3. Len(log[j]) = attempts[j] /\ attempts[j] \in Nat /\ attempts[j] < MaxAttempts
    BY <1>4, <1>6 DEF TellsPending
  <2>4. CASE GivesUp(j)
    <3>1. j \notin queue'
      BY <2>4 DEF Commit, Removed
    <3>2. Len(log'[j]) = MaxAttempts
      BY <2>2, <2>3, <2>4 DEF GivesUp
    <3> QED BY <2>2, <2>4, <3>1, <3>2 DEF TellsAbandoned, Delivered
  <2>5. CASE ~GivesUp(j)
    <3>1. j \in queue' /\ attempts'[j] = attempts[j] + 1
      BY <1>2, <1>4, <2>5 DEF Commit, Removed, Kept
    <3>2. attempts'[j] < MaxAttempts /\ Len(log'[j]) = attempts'[j]
      BY <2>2, <2>3, <2>5, <3>1 DEF GivesUp
    <3> QED BY <2>2, <2>5, <3>1, <3>2 DEF TellsPending, Delivered
  <2> QED BY <2>4, <2>5
<1>9. RowsKnown'
  <2>1. \A j \in queue' : j \in queue
    BY DEF Commit
  <2>2. \A j \in Job : ~Offered(j) => j \notin done[w] \cup failed[w]
    BY <1>4
  <2> QED BY <1>1, <1>5, <2>1, <2>2 DEF IInv, Records, RowsKnown, Offered, Live
<1>10. HistoryTellsAll'
  BY <1>1, <1>5, <1>7, <1>8
  DEF IInv, Records, HistoryTellsAll, TellsPending, TellsAbandoned, TellsDelivered, Delivered,
      Offered, Live
<1>11. DoneWasProcessed'
  BY <1>1, <1>2, <1>5, <1>8 DEF IInv, Records, DoneWasProcessed, Delivered
<1>12. NothingOrphaned'
  <2>1. \A j \in queue' : j \in queue
    BY DEF Commit
  <2> QED BY <1>1, <1>4, <1>5, <2>1 DEF IInv, Records, NothingOrphaned, Live
<1> QED BY <1>3, <1>9, <1>10, <1>11, <1>12 DEF Records

(***************************************************************************)
(* The inductive invariant                                                 *)
(***************************************************************************)
LEMMA InitIInv == Init => IInv
<1> SUFFICES ASSUME Init PROVE IInv
  OBVIOUS
<1>1. TypeOK
  <2>1. log \in [Job -> Seq({"ok", "failed"})] /\ remote \in [Servers -> [Users -> Seq(0..MaxVersion)]]
    BY DEF Init
  <2>2. /\ status \in [Targets -> {"absent", "live", "gone"}]
        /\ enabled \in [Targets -> BOOLEAN] /\ site \in [Targets -> Servers]
        /\ creds \in [Workers -> [Targets -> Servers] \cup {None}]
    BY DEF Init
  <2>3. /\ resyncs \in 0..MaxResyncs /\ spent \in 0..Budget
        /\ payload \in [Job -> 0..MaxVersion] /\ attempts \in [Job -> Nat]
        /\ draft \in [Job -> 0..MaxVersion] /\ over \in [1..MaxResyncs -> 0..MaxResyncs]
        /\ profile \in [Users -> Versions]
    BY DEF Init, Versions
  <2>4. /\ members \in [Tenants -> SUBSET Users]
        /\ phase \in [Workers -> Phases] /\ cur \in [Workers -> Job \cup {None}]
        /\ held \in [Workers -> SUBSET Job] /\ done \in [Workers -> SUBSET Job]
        /\ failed \in [Workers -> SUBSET Job]
    BY DEF Init, Phases
  <2> QED BY <2>1, <2>2, <2>3, <2>4 DEF Init, TypeOK
<1>2. Locks
  BY DEF Init, Locks, OneHolder, HeldRowsStay, BatchInHand, Settled, Unsettled
<1>3. Records
  BY DEF Init, Records, RowsKnown, HistoryTellsAll, DoneWasProcessed, NothingOrphaned, Offered,
         Delivered, EndsOk
<1> QED BY <1>1, <1>2, <1>3 DEF IInv

LEMMA NextIInv == IInv /\ [Next]_vars => IInv'
<1> SUFFICES ASSUME IInv, [Next]_vars PROVE IInv'
  OBVIOUS
<1>1. CASE UNCHANGED vars
  BY <1>1, LocksFrame, RecordsFrame DEF IInv, TypeOK, vars
<1>2. CASE Next
  <2>1. TypeOK'
    BY <1>2, ConsoleType, DrainType, WorldType DEF Next, IInv, Locks
  <2>2. ASSUME NEW t \in Targets, Console(t) PROVE Locks' /\ Records'
    <3>1. CASE \E s \in Servers : HandleCreate(t, s)
      BY <3>1, HandleCreateSafe
    <3>2. CASE (\E s \in Servers : HandleUpdate(t, s)) \/ OperatorToggle(t)
      BY <3>2, LocksFrame, RecordsFrame DEF IInv, HandleUpdate, OperatorToggle
    <3>3. CASE DeleteFails(t)
      BY <3>3, LocksFrame, RecordsFrame DEF IInv, DeleteFails
    <3>4. CASE DeleteBegin(t) \/ DeleteCommit(t)
      BY <3>4, DeleteBeginSafe, DeleteCommitSafe
    <3>5. CASE HandleResync(t)
      <4>1. 1 \in 1..MaxResyncs
        BY <3>5 DEF HandleResync, IInv, TypeOK
      <4> QED BY <3>5, <4>1, ResyncSafe
    <3>6. ASSUME NEW r \in 1..MaxResyncs,
                 InsertRows(r, t) \/ EnqueueRefused(r, t) \/ EnqueueFails(r, t)
          PROVE  Locks' /\ Records'
      BY <3>6, ResyncSafe
    <3>7. ASSUME NEW r \in 1..MaxResyncs, EnqueueAll(r, t) PROVE Locks' /\ Records'
      BY <3>7, EnqueueAllSafe
    <3> QED BY <2>2, <3>1, <3>2, <3>3, <3>4, <3>5, <3>6, <3>7 DEF Console
  <2>3. ASSUME NEW w \in Workers, Drain(w) \/ Crash(w) PROVE Locks' /\ Records'
    <3>1. CASE ClaimNothing(w)
      BY <3>1, LocksFrame, RecordsFrame DEF IInv, ClaimNothing, vars
    <3> QED BY <2>3, <3>1, ClaimSafe, SendSafe, PushSafe, RecordSafe, CommitSafe, RollbackSafe
            DEF Drain
  <2>4. ASSUME NEW j \in queue, CascadeRow(j) PROVE Locks' /\ Records'
    BY <2>4, CascadeRowSafe
  <2>5. ASSUME Core \/ Remote \/ \E j \in waiting : BackoffElapses(j) PROVE Locks' /\ Records'
    <3> DEFINE Rest == /\ reached \subseteq reached'
                       /\ UNCHANGED <<status, deleting, doomed, resyncVars, queue, payload,
                                      attempts, log, workerVars>>
    <3>1. ASSUME Core PROVE Rest
      BY <3>1 DEF Core, Join, Leave, Rename
    <3>2. ASSUME NEW r \in late, ApplyLate(r) \/ DropLate(r) PROVE Rest
      BY <3>2 DEF ApplyLate, DropLate, Process
    <3>3. ASSUME NEW s \in Servers, NEW u \in Users, RemoteDelete(s, u) PROVE Rest
      BY <3>3 DEF RemoteDelete
    <3>4. ASSUME NEW j \in waiting, BackoffElapses(j) PROVE Rest
      BY <3>4 DEF BackoffElapses
    <3>5. Rest
      BY <2>5, <3>1, <3>2, <3>3, <3>4 DEF Remote
    <3> QED BY <3>5, LocksFrame, RecordsFrame DEF IInv
  <2> QED BY <1>2, <2>1, <2>2, <2>3, <2>4, <2>5 DEF Next, IInv
<1> QED BY <1>1, <1>2

(* Every reachable state satisfies the inductive invariant.                 *)
THEOREM Invariance == Spec => []IInv
  BY InitIInv, NextIInv, PTL DEF Spec

(* Every variable keeps its type, whatever the number of replicas, targets, *)
(* users and resynchronisations.                                            *)
THEOREM TypeCorrect == Spec => []TypeOK
<1>1. IInv => TypeOK
  BY DEF IInv
<1> QED BY <1>1, Invariance, PTL

(* However many replicas drain the queue, no row is in two batches at once: *)
(* what claim (store.go) promises of FOR UPDATE ... SKIP LOCKED.            *)
THEOREM Exclusive == Spec => []OneHolder
<1>1. IInv => OneHolder
  BY DEF IInv, Locks
<1> QED BY <1>1, Invariance, PTL

(* A row stays queued, and its target stays there, while a worker sends it. *)
THEOREM RowsStay == Spec => []HeldRowsStay
<1>1. IInv => HeldRowsStay
  BY DEF IInv, Locks
<1> QED BY <1>1, Invariance, PTL

(* No crash, replay, rollback or deletion makes the history disagree with   *)
(* the queue: each attempt that counted is logged once, a job ends with its *)
(* success or with its last permitted failure (finish and retry, store.go). *)
THEOREM HistoryComplete == Spec => []HistoryTellsAll
<1>1. IInv => HistoryTellsAll
  BY DEF IInv, Records
<1> QED BY <1>1, Invariance, PTL

(* At-least-once: what the history calls done has reached a server.         *)
THEOREM AtLeastOnce == Spec => []DoneWasProcessed
<1>1. IInv => DoneWasProcessed
  BY DEF IInv, Records
<1> QED BY <1>1, Invariance, PTL

(* A deleted target leaves no queued row and no history.                    *)
THEOREM DeletedLeavesNothing == Spec => []NothingOrphaned
<1>1. IInv => NothingOrphaned
  BY DEF IInv, Records
<1> QED BY <1>1, Invariance, PTL
=============================================================================
