----------------------------- MODULE Provisioning -----------------------------
(***************************************************************************)
(* modules/provisioning: the SCIM targets of an organisation, the queue of *)
(* user records waiting to be pushed to them, and the worker that drains   *)
(* it.  Several replicas of the product run the same worker on one         *)
(* database.                                                               *)
(*                                                                         *)
(* The unit of interleaving is what the database or the remote server      *)
(* makes visible: one statement, one commit, one HTTP exchange.  A claimed *)
(* batch is one open transaction, so its outcomes (done, failed) stay      *)
(* private to the worker until Commit, and vanish on a rollback.           *)
(*                                                                         *)
(* The requests of a console, the RBAC and member tables of the core, the  *)
(* remote SCIM servers and the operator's SQL are the environment.         *)
(***************************************************************************)
EXTENDS Naturals, Sequences, FiniteSets

CONSTANTS
  Tenants, Targets, Users, Servers, Workers,
  None,            \* no job, no batch in hand
  TenantOf,        \* the organisation a target is registered for
  Batch,           \* jobs one claim takes at most          (worker.go: batch)
  MaxAttempts,     \* failures after which a job is dropped (worker.go: maxAttempts)
  Stragglers,      \* TRUE: a server may process a request after its caller timed out
  UniqueAccounts,  \* TRUE: a server refuses a second account with one externalId
  Deletable,       \* bound: targets a console may try to delete
  MaxResyncs,      \* bound: resynchronisations in a behaviour
  MaxVersion,      \* bound: contents a user's record goes through
  Budget           \* bound: crashes, edits, deletes and other disturbances

ASSUME TargetAssumption == TenantOf \in [Targets -> Tenants] /\ Deletable \subseteq Targets
ASSUME BatchAssumption == Batch \in Nat \ {0}
ASSUME AttemptsAssumption == MaxAttempts \in Nat \ {0}
ASSUME ServerAssumption == UniqueAccounts \in BOOLEAN /\ Stragglers \in BOOLEAN
ASSUME BoundsAssumption == MaxResyncs \in Nat /\ MaxVersion \in Nat \ {0} /\ Budget \in Nat

(* A resynchronisation inserts one row per member, all with one created_at: *)
(* NOW(), the start of its transaction.  Resynchronisations are numbered in *)
(* the order in which their transactions start.                             *)
Resync == (1..MaxResyncs) \X Targets
Job == (1..MaxResyncs) \X Targets \X Users
Created(j) == j[1]
TargetOf(j) == j[2]
UserOf(j) == j[3]
ResyncOf(j) == <<Created(j), TargetOf(j)>>
JobsOf(t) == {j \in Job : TargetOf(j) = t}
RowsOf(r, t) == {j \in JobsOf(t) : Created(j) = r}

Versions == 1..MaxVersion
Phases == {"idle", "next", "absent", "present", "accepted", "refused"}

(* A write whose caller stopped waiting: the server may still process it. *)
Request == [verb : {"POST", "PUT"}, server : Servers, job : Job]

VARIABLES
  status,     \* a target's row: not yet inserted, there, or deleted
  enabled,    \* sso_scim_targets.enabled
  site,       \* sso_scim_targets.base_url: the server a target points at
  deleting,   \* targets whose DELETE holds the row lock and has not committed
  doomed,     \* queue rows the cascade of an uncommitted DELETE has locked
  resyncing,  \* resynchronisations whose transaction started, before their INSERT
  inserting,  \* resynchronisations whose INSERT has read, and not committed
  draft,      \* the content of the rows such an INSERT is writing; 0 for no row
  resyncs,    \* the resynchronisations started so far
  over,       \* history: how many had started when one committed
  queue,      \* rows of sso_scim_queue
  payload,    \* the content a committed row carries; 0 for a row never inserted
  attempts,   \* sso_scim_queue.attempts
  waiting,    \* rows whose next_attempt_at lies ahead
  log,        \* sso_scim_log, the outcomes recorded for each job
  members,    \* memberships: the users of an organisation
  profile,    \* users: the current content of a user's record
  remote,     \* the accounts a server holds for a user, oldest first
  late,       \* timed-out requests a server may still process
  reached,    \* history: jobs whose content some server processed
  phase,      \* where a worker stands in drain
  held,       \* the queue rows a worker's transaction has locked
  creds,      \* the base_urls the claim read, while its batch is open
  cur,        \* the job being sent
  done,       \* held rows finished, not committed
  failed,     \* held rows sent back or given up, not committed
  spent       \* disturbances so far, at most Budget

targetVars == <<status, enabled, site, deleting, doomed>>
queueVars  == <<queue, payload, attempts, waiting, log>>
resyncVars == <<resyncing, inserting, draft, resyncs, over>>
coreVars   == <<members, profile>>
serverVars == <<remote, late, reached>>
workerVars == <<phase, held, creds, cur, done, failed>>
vars == <<targetVars, resyncVars, queueVars, coreVars, serverVars, workerVars, spent>>

TypeOK ==
  /\ status \in [Targets -> {"absent", "live", "gone"}]
  /\ enabled \in [Targets -> BOOLEAN]
  /\ site \in [Targets -> Servers]
  /\ deleting \in SUBSET Targets
  /\ doomed \in SUBSET Job
  /\ resyncing \in SUBSET Resync
  /\ inserting \in SUBSET Resync
  /\ draft \in [Job -> 0..MaxVersion]
  /\ resyncs \in 0..MaxResyncs
  /\ over \in [1..MaxResyncs -> 0..MaxResyncs]
  /\ queue \in SUBSET Job
  /\ payload \in [Job -> 0..MaxVersion]
  /\ attempts \in [Job -> Nat]
  /\ waiting \in SUBSET Job
  /\ log \in [Job -> Seq({"ok", "failed"})]
  /\ members \in [Tenants -> SUBSET Users]
  /\ profile \in [Users -> Versions]
  /\ remote \in [Servers -> [Users -> Seq(0..MaxVersion)]]
  /\ late \in SUBSET Request
  /\ reached \in SUBSET Job
  /\ phase \in [Workers -> Phases]
  /\ held \in [Workers -> SUBSET Job]
  /\ creds \in [Workers -> [Targets -> Servers] \cup {None}]
  /\ cur \in [Workers -> Job \cup {None}]
  /\ done \in [Workers -> SUBSET Job]
  /\ failed \in [Workers -> SUBSET Job]
  /\ spent \in 0..Budget

Init ==
  /\ status = [t \in Targets |-> "absent"]
  /\ enabled = [t \in Targets |-> TRUE]
  /\ site \in [Targets -> Servers]
  /\ deleting = {}
  /\ doomed = {}
  /\ resyncing = {}
  /\ inserting = {}
  /\ draft = [j \in Job |-> 0]
  /\ resyncs = 0
  /\ over = [r \in 1..MaxResyncs |-> 0]
  /\ queue = {}
  /\ payload = [j \in Job |-> 0]
  /\ attempts = [j \in Job |-> 0]
  /\ waiting = {}
  /\ log = [j \in Job |-> <<>>]
  /\ members = [o \in Tenants |-> Users]
  /\ profile = [u \in Users |-> 1]
  /\ remote = [s \in Servers |-> [u \in Users |-> <<>>]]
  /\ late = {}
  /\ reached = {}
  /\ phase = [w \in Workers |-> "idle"]
  /\ held = [w \in Workers |-> {}]
  /\ creds = [w \in Workers |-> None]
  /\ cur = [w \in Workers |-> None]
  /\ done = [w \in Workers |-> {}]
  /\ failed = [w \in Workers |-> {}]
  /\ spent = 0

(***************************************************************************)
(* Shared notions                                                          *)
(***************************************************************************)
Bounded == spent < Budget /\ spent' = spent + 1

Live(t) == status[t] = "live"

Settled(w) == done[w] \cup failed[w]
Unsettled(w) == held[w] \ Settled(w)

(* Mutants: a claim without SKIP LOCKED; a batch whose locks are let go    *)
(* before it is sent.                                                      *)
ClaimsHeldRows == queue \ doomed
LocksLetGo == queue

(* The rows no worker and no DELETE has locked (SKIP LOCKED). *)
Unlocked == queue \ (doomed \cup UNION {held[w] : w \in Workers})

(* A worker that recorded an outcome for t holds a key-share lock on t's row, *)
(* taken by the foreign key of the history row it inserted.                   *)
Shares(w, t) == \E j \in Settled(w) : TargetOf(j) = t

(* An INSERT that references t, or an UPDATE of t, waits for the DELETE. *)
Reachable(t) == Live(t) /\ t \notin deleting

(***************************************************************************)
(* Console: targets                                                        *)
(***************************************************************************)
HandleCreate(t, s) ==
  /\ status[t] = "absent"
  /\ status' = [status EXCEPT ![t] = "live"]
  /\ enabled' = [enabled EXCEPT ![t] = TRUE]
  /\ site' = [site EXCEPT ![t] = s]
  /\ UNCHANGED <<deleting, doomed, resyncVars, queueVars, coreVars, serverVars, workerVars, spent>>

(* A new base_url leaves queued rows, and the batch in hand, as they are. *)
HandleUpdate(t, s) ==
  /\ Reachable(t)
  /\ s # site[t]
  /\ Bounded
  /\ site' = [site EXCEPT ![t] = s]
  /\ UNCHANGED <<status, enabled, deleting, doomed, resyncVars, queueVars, coreVars, serverVars,
                 workerVars>>

(* No handler writes this column; an operator does, in SQL. *)
OperatorToggle(t) ==
  /\ Reachable(t)
  /\ Bounded
  /\ enabled' = [enabled EXCEPT ![t] = ~enabled[t]]
  /\ UNCHANGED <<status, site, deleting, doomed, resyncVars, queueVars, coreVars, serverVars,
                 workerVars>>

(* DELETE FROM sso_scim_targets takes the lock of the target's row, then  *)
(* that of each queue row in the cascade, waiting where a worker holds it. *)
DeleteBegin(t) ==
  /\ t \in Deletable
  /\ Reachable(t)
  /\ \A w \in Workers : ~Shares(w, t)
  /\ Bounded
  /\ deleting' = deleting \cup {t}
  /\ UNCHANGED <<status, enabled, site, doomed, resyncVars, queueVars, coreVars, serverVars,
                 workerVars>>

CascadeRow(j) ==
  /\ j \in Unlocked
  /\ TargetOf(j) \in deleting
  /\ doomed' = doomed \cup {j}
  /\ UNCHANGED <<status, enabled, site, deleting, resyncVars, queueVars, coreVars, serverVars,
                 workerVars, spent>>

(* Mutant: foreign keys without ON DELETE CASCADE. *)
NoCascade(t) == {}

(* What ON DELETE CASCADE removes from the queue and from the history. *)
Cascade(t) == JobsOf(t)

DeleteCommit(t) ==
  /\ t \in deleting
  /\ queue \cap JobsOf(t) \subseteq doomed
  /\ deleting' = deleting \ {t}
  /\ doomed' = doomed \ JobsOf(t)
  /\ status' = [status EXCEPT ![t] = "gone"]
  /\ queue' = queue \ Cascade(t)
  /\ waiting' = waiting \ Cascade(t)
  /\ attempts' = [j \in Job |-> IF j \in Cascade(t) THEN 0 ELSE attempts[j]]
  /\ log' = [j \in Job |-> IF j \in Cascade(t) THEN <<>> ELSE log[j]]
  /\ UNCHANGED <<enabled, site, payload, resyncVars, coreVars, serverVars, workerVars, spent>>

(* The console disconnects, or the database picks the DELETE as a deadlock's *)
(* victim: the handler answers 500 and nothing was removed.                  *)
DeleteFails(t) ==
  /\ t \in deleting
  /\ deleting' = deleting \ {t}
  /\ doomed' = doomed \ JobsOf(t)
  /\ UNCHANGED <<status, enabled, site, resyncVars, queueVars, coreVars, serverVars,
                 workerVars, spent>>

(***************************************************************************)
(* Console: resynchronisation, a read and then one INSERT ... SELECT.  Any *)
(* number of requests may overlap.  The rows' created_at is the start of   *)
(* the transaction, their content what the INSERT's snapshot sees, and     *)
(* they are visible from the commit.                                       *)
(***************************************************************************)
HandleResync(t) ==
  /\ Live(t)
  /\ resyncs < MaxResyncs
  /\ resyncs' = resyncs + 1
  /\ resyncing' = resyncing \cup {<<resyncs', t>>}
  /\ UNCHANGED <<inserting, draft, over, targetVars, queueVars, coreVars, serverVars,
                 workerVars, spent>>

(* One row per member of the organisation, carrying the record the snapshot sees. *)
Rows(r, t) == {j \in RowsOf(r, t) : UserOf(j) \in members[TenantOf[t]]}

InsertRows(r, t) ==
  /\ <<r, t>> \in resyncing
  /\ resyncing' = resyncing \ {<<r, t>>}
  /\ inserting' = inserting \cup {<<r, t>>}
  /\ draft' = [j \in Job |-> IF j \in Rows(r, t) THEN profile[UserOf(j)] ELSE draft[j]]
  /\ UNCHANGED <<resyncs, over, targetVars, queueVars, coreVars, serverVars, workerVars, spent>>

Drafted(r, t) == {j \in RowsOf(r, t) : draft[j] # 0}

(* The foreign key finds the target there, waiting for a DELETE, and the rows *)
(* are committed.                                                             *)
EnqueueAll(r, t) ==
  /\ <<r, t>> \in inserting
  /\ Reachable(t)
  /\ inserting' = inserting \ {<<r, t>>}
  /\ queue' = queue \cup Drafted(r, t)
  /\ payload' = [j \in Job |-> IF j \in Drafted(r, t) THEN draft[j] ELSE payload[j]]
  /\ draft' = [j \in Job |-> IF j \in RowsOf(r, t) THEN 0 ELSE draft[j]]
  /\ over' = [over EXCEPT ![r] = resyncs]
  /\ UNCHANGED <<resyncing, resyncs, targetVars, attempts, waiting, log, coreVars, serverVars,
                 workerVars, spent>>

(* None of the rows was inserted. *)
Withdraw(r, t) ==
  /\ <<r, t>> \in resyncing \cup inserting
  /\ resyncing' = resyncing \ {<<r, t>>}
  /\ inserting' = inserting \ {<<r, t>>}
  /\ draft' = [j \in Job |-> IF j \in RowsOf(r, t) THEN 0 ELSE draft[j]]
  /\ UNCHANGED <<resyncs, over, targetVars, queueVars, coreVars, serverVars, workerVars>>

(* The target was deleted after Get: the foreign key refuses the rows. *)
EnqueueRefused(r, t) == status[t] = "gone" /\ Withdraw(r, t) /\ UNCHANGED spent

(* The statement fails, the console disconnects or the process dies. *)
EnqueueFails(r, t) == Live(t) /\ Bounded /\ Withdraw(r, t)

(***************************************************************************)
(* Worker: drain                                                           *)
(***************************************************************************)


(* Due rows of enabled targets that nobody holds. *)
Claimable == {j \in Unlocked \ waiting : Live(TargetOf(j)) /\ enabled[TargetOf(j)]}

(* ORDER BY created_at LIMIT batch: rows of one resynchronisation tie. *)
Oldest(S, n) ==
  {B \in SUBSET S :
     /\ Cardinality(B) <= n
     /\ Cardinality(B) < n => B = S
     /\ \A i \in B, k \in S \ B : Created(i) <= Created(k)}

Claim(w, B) ==
  /\ phase[w] = "idle"
  /\ Claimable # {}
  /\ B \in Oldest(Claimable, Batch)
  /\ held' = [held EXCEPT ![w] = B]
  /\ creds' = [creds EXCEPT ![w] = site]
  /\ phase' = [phase EXCEPT ![w] = "next"]
  /\ UNCHANGED <<cur, done, failed, targetVars, resyncVars, queueVars, coreVars,
                 serverVars, spent>>

(* A tick that finds nothing due commits an empty transaction. *)
ClaimNothing(w) ==
  /\ phase[w] = "idle"
  /\ Claimable = {}
  /\ UNCHANGED vars

Send(w, j, p) ==
  /\ cur' = [cur EXCEPT ![w] = j]
  /\ phase' = [phase EXCEPT ![w] = p]
  /\ UNCHANGED <<held, creds, done, failed>>

(* Mutant: newest first. *)
Hindmost(w) == {j \in Unsettled(w) : \A k \in Unsettled(w) : Created(k) <= Created(j)}

(* The batch is sent in the order the claim returned it. *)
Foremost(w) == {j \in Unsettled(w) : \A k \in Unsettled(w) : Created(j) <= Created(k)}

(* What the lookup by externalId answers. *)
Known(s, u) == remote[s][u] # <<>>

Lookup(w, j) ==
  /\ phase[w] = "next"
  /\ j \in Foremost(w)
  /\ Send(w, j, IF Known(creds[w][TargetOf(j)], UserOf(j)) THEN "present" ELSE "absent")
  /\ UNCHANGED <<targetVars, resyncVars, queueVars, coreVars, serverVars, spent>>

(* The token cannot be read, the request fails, the target refuses it, or *)
(* its answer does not parse: nothing is written over there.              *)
LookupFails(w, j) ==
  /\ phase[w] = "next"
  /\ j \in Foremost(w)
  /\ Send(w, j, "refused")
  /\ UNCHANGED <<targetVars, resyncVars, queueVars, coreVars, serverVars, spent>>

(* Mutants: the lookup's answer is not used; an update that is a PATCH. *)
BlindPost(w) == "POST"
PatchesPresent(w) == IF phase[w] = "absent" THEN "POST" ELSE "PATCH"

(* POST for a person the lookup did not find, PUT on the first it found. *)
Verb(w) == IF phase[w] = "absent" THEN "POST" ELSE "PUT"
RequestOf(w) == [verb |-> Verb(w), server |-> creds[w][TargetOf(cur[w])], job |-> cur[w]]

Pushing(w) == phase[w] \in {"absent", "present"}

(* The remote server: a PUT needs the account, a POST appends one. *)
Accepts(r) ==
  IF r.verb = "POST"
  THEN UniqueAccounts => ~Known(r.server, UserOf(r.job))
  ELSE Known(r.server, UserOf(r.job))

Process(r) ==
  /\ Accepts(r)
  /\ remote' = [remote EXCEPT ![r.server][UserOf(r.job)] =
                  IF r.verb = "POST" THEN Append(@, payload[r.job])
                  ELSE [@ EXCEPT ![1] = payload[r.job]]]
  /\ reached' = reached \cup {r.job}

Answer(w, p) ==
  /\ phase' = [phase EXCEPT ![w] = p]
  /\ UNCHANGED <<held, creds, cur, done, failed>>

(* The answer is 2xx, or it is lost and the exchange ends in an error. *)
Push(w, p) ==
  /\ Pushing(w)
  /\ Process(RequestOf(w))
  /\ p \in {"accepted", "refused"}
  /\ Answer(w, p)
  /\ UNCHANGED <<late, targetVars, resyncVars, queueVars, coreVars, spent>>

(* The server refuses the payload, or the request never gets there. *)
PushFails(w) ==
  /\ Pushing(w)
  /\ Answer(w, "refused")
  /\ UNCHANGED <<targetVars, resyncVars, queueVars, coreVars, serverVars, spent>>

(* The client's timeout fires with the request still on its way. *)
PushTimesOut(w) ==
  /\ Stragglers
  /\ Pushing(w)
  /\ Bounded
  /\ late' = late \cup {RequestOf(w)}
  /\ Answer(w, "refused")
  /\ UNCHANGED <<remote, reached, targetVars, resyncVars, queueVars, coreVars>>

(* Mutant: any answer finishes the job. *)
AnyAnswer(w) == phase[w] \in {"accepted", "refused"}

Succeeded(w) == phase[w] = "accepted"

(* finish or retry: the row is written and the history row inserted, whose *)
(* foreign key waits for a DELETE of the target.                           *)
Record(w) ==
  /\ phase[w] \in {"accepted", "refused"}
  /\ TargetOf(cur[w]) \notin deleting
  /\ \/ Succeeded(w) /\ done' = [done EXCEPT ![w] = @ \cup {cur[w]}] /\ UNCHANGED failed
     \/ ~Succeeded(w) /\ failed' = [failed EXCEPT ![w] = @ \cup {cur[w]}] /\ UNCHANGED done
  /\ phase' = [phase EXCEPT ![w] = "next"]
  /\ cur' = [cur EXCEPT ![w] = None]
  /\ UNCHANGED <<held, creds, targetVars, resyncVars, queueVars, coreVars, serverVars, spent>>

(* Mutant: one attempt too many. *)
GivesUpLate(j) == attempts[j] + 1 > MaxAttempts

GivesUp(j) == attempts[j] + 1 >= MaxAttempts

(* The transaction ends: every lock is released, the worker waits for its tick. *)
Release(w) ==
  /\ phase' = [phase EXCEPT ![w] = "idle"]
  /\ held' = [held EXCEPT ![w] = {}]
  /\ cur' = [cur EXCEPT ![w] = None]
  /\ done' = [done EXCEPT ![w] = {}]
  /\ failed' = [failed EXCEPT ![w] = {}]
  /\ creds' = [creds EXCEPT ![w] = None]

(* Mutant: a failure that could be retried removes the row. *)
RemovesFailures(w) == done[w] \cup failed[w]

(* The rows a batch removes and the rows it sends back. *)
Removed(w) == done[w] \cup {j \in failed[w] : GivesUp(j)}
Kept(w) == {j \in failed[w] : ~GivesUp(j)}

Commit(w) ==
  /\ phase[w] = "next"
  /\ Unsettled(w) = {}
  /\ queue' = queue \ Removed(w)
  /\ attempts' = [j \in Job |-> IF j \in Kept(w) THEN attempts[j] + 1 ELSE attempts[j]]
  /\ waiting' = waiting \cup Kept(w)
  /\ log' = [j \in Job |-> IF j \in done[w] THEN Append(log[j], "ok")
                           ELSE IF j \in failed[w] THEN Append(log[j], "failed")
                           ELSE log[j]]
  /\ Release(w)
  /\ UNCHANGED <<payload, targetVars, resyncVars, coreVars, serverVars, spent>>

(* The process dies, or a statement of the batch fails: nothing of the batch *)
(* is kept here, while whatever was sent stays sent.                         *)
Crash(w) ==
  /\ phase[w] # "idle"
  /\ Bounded
  /\ Release(w)
  /\ UNCHANGED <<targetVars, resyncVars, queueVars, coreVars, serverVars>>

(* The worker waits for the DELETE and the DELETE for the worker's rows: the *)
(* database ends one of the two transactions.                                *)
Deadlocked(w) == phase[w] \in {"accepted", "refused"} /\ TargetOf(cur[w]) \in deleting

DeadlockVictim(w) ==
  /\ Deadlocked(w)
  /\ Release(w)
  /\ UNCHANGED <<targetVars, resyncVars, queueVars, coreVars, serverVars, spent>>

(* next_attempt_at passes. *)
BackoffElapses(j) ==
  /\ j \in waiting
  /\ waiting' = waiting \ {j}
  /\ UNCHANGED <<queue, payload, attempts, log, targetVars, resyncVars, coreVars,
                 serverVars, workerVars, spent>>

(***************************************************************************)
(* The core platform and the remote servers                                *)
(***************************************************************************)
Join(o, u) ==
  /\ u \notin members[o] /\ Bounded
  /\ members' = [members EXCEPT ![o] = @ \cup {u}]
  /\ UNCHANGED <<profile, targetVars, resyncVars, queueVars, serverVars, workerVars>>

Leave(o, u) ==
  /\ u \in members[o] /\ Bounded
  /\ members' = [members EXCEPT ![o] = @ \ {u}]
  /\ UNCHANGED <<profile, targetVars, resyncVars, queueVars, serverVars, workerVars>>

Rename(u) ==
  /\ profile[u] < MaxVersion
  /\ profile' = [profile EXCEPT ![u] = @ + 1]
  /\ UNCHANGED <<members, targetVars, resyncVars, queueVars, serverVars, workerVars, spent>>

ApplyLate(r) ==
  /\ r \in late
  /\ Process(r)
  /\ late' = late \ {r}
  /\ UNCHANGED <<targetVars, resyncVars, queueVars, coreVars, workerVars, spent>>

DropLate(r) ==
  /\ r \in late
  /\ late' = late \ {r}
  /\ UNCHANGED <<remote, reached, targetVars, resyncVars, queueVars, coreVars, workerVars,
                 spent>>

(* Somebody deletes the user in the target's own console. *)
RemoteDelete(s, u) ==
  /\ Known(s, u)
  /\ Bounded
  /\ remote' = [remote EXCEPT ![s][u] = <<>>]
  /\ UNCHANGED <<late, reached, targetVars, resyncVars, queueVars, coreVars, workerVars>>

(***************************************************************************)
(* Specification                                                           *)
(***************************************************************************)
Console(t) ==
  \/ \E s \in Servers : HandleCreate(t, s) \/ HandleUpdate(t, s)
  \/ OperatorToggle(t)
  \/ DeleteBegin(t) \/ DeleteCommit(t) \/ DeleteFails(t)
  \/ HandleResync(t)
  \/ \E r \in 1..MaxResyncs :
       InsertRows(r, t) \/ EnqueueAll(r, t) \/ EnqueueRefused(r, t) \/ EnqueueFails(r, t)

Drain(w) ==
  \/ \E B \in SUBSET Claimable : Claim(w, B)
  \/ ClaimNothing(w)
  \/ \E j \in Unsettled(w) : Lookup(w, j) \/ LookupFails(w, j)
  \/ \E p \in {"accepted", "refused"} : Push(w, p)
  \/ PushFails(w) \/ PushTimesOut(w)
  \/ Record(w) \/ Commit(w)
  \/ DeadlockVictim(w)

Core ==
  \/ \E o \in Tenants, u \in Users : Join(o, u) \/ Leave(o, u)
  \/ \E u \in Users : Rename(u)

Remote ==
  \/ \E r \in late : ApplyLate(r) \/ DropLate(r)
  \/ \E s \in Servers, u \in Users : RemoteDelete(s, u)

Next ==
  \/ \E t \in Targets : Console(t)
  \/ \E j \in queue : CascadeRow(j)
  \/ \E w \in Workers : Drain(w) \/ Crash(w)
  \/ \E j \in waiting : BackoffElapses(j)
  \/ Core
  \/ Remote

Spec == Init /\ [][Next]_vars

(* The ticker keeps firing and every request ends, in an answer or in the     *)
(* client's timeout; time passes; a DELETE that waits for a row gets it when  *)
(* its holder lets go, before a claim, which skips what it cannot lock.       *)
Fairness ==
  /\ \A w \in Workers : WF_vars(Drain(w))
  /\ \A j \in Job : WF_vars(BackoffElapses(j))
  /\ \A t \in Targets : SF_vars(\E j \in JobsOf(t) : CascadeRow(j))
  /\ \A t \in Targets : WF_vars(DeleteCommit(t))

FairSpec == Spec /\ Fairness

(***************************************************************************)
(* Properties                                                              *)
(***************************************************************************)
Offered(j) == payload[j] # 0

(* No queue row is in two batches at once: two replicas drain one queue, and *)
(* claim (store.go) promises to hide what it takes from any other worker.    *)
OneHolder ==
  \A v, w \in Workers : v # w => held[v] \cap held[w] = {}

(* While a batch is open, its rows stay queued and their targets stay there: *)
(* neither another batch's finish nor a deleted target's cascade takes a row *)
(* from under the worker that is sending it.                                 *)
HeldRowsStay ==
  \A w \in Workers : \A j \in held[w] :
    j \in queue /\ j \notin doomed /\ Live(TargetOf(j))

AllFailed(h) == \A i \in 1..Len(h) : h[i] = "failed"
EndsOk(h) == Len(h) > 0 /\ h[Len(h)] = "ok"
Delivered(j) == EndsOk(log[j])

(* The failed attempts the history shows. *)
Failures(j) == IF Delivered(j) THEN Len(log[j]) - 1 ELSE Len(log[j])

TellsPending(j) == AllFailed(log[j]) /\ Len(log[j]) = attempts[j] /\ attempts[j] < MaxAttempts
TellsAbandoned(j) == AllFailed(log[j]) /\ Len(log[j]) = MaxAttempts
TellsDelivered(j) ==
  /\ Delivered(j)
  /\ Len(log[j]) <= MaxAttempts
  /\ \A i \in 1..(Len(log[j]) - 1) : log[j][i] = "failed"

(* The history of a job tells its whole story, whatever crashed or was       *)
(* replayed: a queued row shows exactly `attempts` failures, fewer than the  *)
(* limit; a row that left shows one success, last, or MaxAttempts failures.  *)
HistoryTellsAll ==
  \A j \in Job : Offered(j) /\ Live(TargetOf(j)) =>
    IF j \in queue THEN TellsPending(j) ELSE TellsAbandoned(j) \/ TellsDelivered(j)

(* A job the history calls done was processed by a server: at-least-once     *)
(* delivery survives crashes between sending, recording and committing.      *)
DoneWasProcessed ==
  \A j \in Job : Delivered(j) => j \in reached

(* Deleting a target leaves neither queued work nor history behind.          *)
NothingOrphaned ==
  \A j \in Job : j \in queue \/ log[j] # <<>> => Live(TargetOf(j))

(* What a worker has in hand: the job being sent is one of its rows without  *)
(* an outcome, an outcome is recorded once, and success has reached a server. *)
BatchInHand ==
  \A w \in Workers :
    /\ Settled(w) \subseteq held[w]
    /\ done[w] \cap failed[w] = {}
    /\ IF phase[w] = "idle" THEN held[w] = {} ELSE creds[w] \in [Targets -> Servers]
    /\ phase[w] \in {"absent", "present", "accepted", "refused"} => cur[w] \in Unsettled(w)
    /\ phase[w] = "accepted" => cur[w] \in reached
    /\ done[w] \subseteq reached

(* What a row of the queue stands on: a resynchronisation that committed,    *)
(* and a target that is there, even while its DELETE is waiting.             *)
RowsKnown ==
  /\ \A j \in queue : Offered(j) /\ Live(TargetOf(j))
  /\ \A t \in deleting : Live(t)
  /\ \A j \in Job : ~Offered(j) => attempts[j] = 0 /\ log[j] = <<>>
  /\ \A j \in Job :
       \/ Created(j) > resyncs
       \/ ResyncOf(j) \in resyncing \cup inserting
       \/ status[TargetOf(j)] = "absent"
       => ~Offered(j)
  /\ \A x \in resyncing \cup inserting : x[1] <= resyncs
  /\ resyncing \cap inserting = {}
  /\ \A j \in Job : Offered(j) => Created(j) <= over[Created(j)]

(* A request that is still on its way carries what a resynchronisation queued. *)
LateKnown == \A r \in late : Offered(r.job)

Locks == OneHolder /\ HeldRowsStay /\ BatchInHand
Records == RowsKnown /\ HistoryTellsAll /\ DoneWasProcessed /\ NothingOrphaned

(* The inductive invariant: what makes the properties above hold together.   *)
IInv == TypeOK /\ Locks /\ Records


(* Repeating an operation never makes a second account for one person, on a  *)
(* server that would accept it: create is a lookup and then a POST or a PUT  *)
(* (the comment on drain).                                                   *)
AtMostOneAccount ==
  \A s \in Servers, u \in Users : Len(remote[s][u]) <= 1

Enqueued(t, u) == {j \in JobsOf(t) : UserOf(j) = u /\ Offered(j)}
Quiet(t, u) == Live(t) /\ Enqueued(t, u) # {} /\ Enqueued(t, u) \cap queue = {}

(* The resynchronisation of i was over before that of j started. *)
Before(i, j) == over[Created(i)] < Created(j)

Latest(t, u) == {j \in Enqueued(t, u) : \A k \in Enqueued(t, u) : k # j => Before(k, j)}

(* Once the queue has nothing left for a user whose latest job was delivered, *)
(* the target holds the content of that job: a change reaches the target with *)
(* the next resynchronisation (the comment on EnqueueAll).                    *)
ResyncDelivers ==
  \A t \in Targets, u \in Users : Quiet(t, u) =>
    \A j \in Latest(t, u) :
      Delivered(j) /\ Known(site[t], u) => remote[site[t]][u][1] = payload[j]

(* What the target holds for u is the content of a job of u, and of none that *)
(* a later resynchronisation was to replace.                                  *)
NotReplaced(t, u) ==
  \E j \in Enqueued(t, u) :
    /\ remote[site[t]][u][1] = payload[j]
    /\ \A k \in Enqueued(t, u) : ~Before(j, k)

(* For a user whose every job was delivered at its first try, with one replica *)
(* and no DELETE that rolls back, what crashes or overlaps never leaves the    *)
(* content of a resynchronisation that was over before another started: the    *)
(* order of claim and of a replayed batch keep the newer content last.  Which  *)
(* of two that overlap comes last, nothing in the code decides.                *)
FirstTriesDeliver ==
  \A t \in Targets, u \in Users :
    /\ Quiet(t, u)
    /\ \A j \in Enqueued(t, u) : log[j] = <<"ok">>
    /\ Known(site[t], u)
    => NotReplaced(t, u)

(* A person who left before the last resynchronisation of a target, all of   *)
(* it delivered, is gone from the target.                                    *)
LeaversRemoved ==
  \A t \in Targets : \A r \in 1..MaxResyncs :
    LET rows == {j \in RowsOf(r, t) : Offered(j)}
        older == {j \in JobsOf(t) : Offered(j)} \ rows
        stayed == {UserOf(j) : j \in rows}
    IN  /\ Live(t) /\ rows # {}
        /\ JobsOf(t) \cap queue = {}
        /\ \A j \in rows : Delivered(j)
        /\ \A i \in older, j \in rows : Before(i, j)
        => \A j \in older : UserOf(j) \notin stayed => ~Known(site[t], UserOf(j))

(* Provisioning implements the queue it promises.                            *)
JobState(j) ==
  CASE ~Offered(j) -> "none"
    [] Offered(j) /\ ~Live(TargetOf(j)) -> "dropped"
    [] Offered(j) /\ Live(TargetOf(j)) /\ j \in queue -> "pending"
    [] Offered(j) /\ Live(TargetOf(j)) /\ j \notin queue /\ Delivered(j) -> "delivered"
    [] OTHER -> "abandoned"

Promise == INSTANCE ScimQueue WITH
  state <- [j \in Job |-> JobState(j)],
  tries <- [j \in Job |-> Failures(j)]

QueuePromise == Promise!Spec
=============================================================================
