-------------------------------- MODULE Backoff --------------------------------
(***************************************************************************)
(* modules/provisioning, by the clock: when the worker tries a job again,  *)
(* and when it stops.  Provisioning says what is sent and forgets how long *)
(* a row waits; this module keeps the minutes and forgets the targets.     *)
(*                                                                         *)
(* A batch is one transaction.  Its NOW() is its start, for the rows it    *)
(* claims and for the time of their next attempt, however long the sending *)
(* took; a transaction that dies leaves no trace and counts no attempt.    *)
(* Each job is a resynchronisation of its own: the rows of one INSERT      *)
(* share a created_at, and Provisioning takes them in any order.           *)
(***************************************************************************)
EXTENDS Integers, FiniteSets

CONSTANTS
  Jobs,         \* rows of sso_scim_queue, numbered as they were created
  Workers,
  Batch,        \* rows a worker claims at a time (20)
  MaxAttempts,  \* maxAttempts (6)
  Minutes,      \* the delay of each shift: 1 << shift minutes
  Counts,       \* what the column attempts may hold when a row is first claimed
  Horizon,      \* bound: the last minute
  Budget        \* bound: transactions that die

ASSUME JobAssumption == Jobs \subseteq Nat /\ IsFiniteSet(Jobs)
ASSUME AttemptAssumption == MaxAttempts \in Nat \ {0} /\ Batch \in Nat \ {0} /\ Counts \subseteq Int
ASSUME DoublingAssumption ==
  /\ Minutes \in [0..MaxAttempts -> Nat]
  /\ Minutes[0] = 1
  /\ \A i \in 1..MaxAttempts : Minutes[i] = 2 * Minutes[i - 1]
(* The column's default is 0; its type has a smallest number. *)
ASSUME CountAssumption == 0 \in Counts /\ \E a \in Counts : \A b \in Counts : a <= b
ASSUME BoundAssumption == Horizon \in Nat /\ Budget \in Nat

VARIABLES
  now,       \* the database's clock
  queue,     \* sso_scim_queue
  attempts,  \* sso_scim_queue.attempts
  due,       \* sso_scim_queue.next_attempt_at
  held,      \* the rows a worker's transaction has locked
  start,     \* the NOW() of that transaction, 0 without one
  seen,      \* history: the jobs that were ever queued
  born,      \* history: attempts of a job when it was queued
  gaveUp,    \* history: the jobs that were dropped after their last attempt
  tried,     \* history: attempts recorded as failed
  first,     \* history: the NOW() of the first of them
  last,      \* history: the NOW() of the latest
  passed,    \* history: claims that left a due row for older ones
  spent      \* transactions that died

rowVars == <<queue, attempts, due>>
workVars == <<held, start>>
historyVars == <<seen, born, gaveUp, tried, first, last, passed>>
vars == <<now, rowVars, workVars, historyVars, spent>>

TypeOK ==
  /\ now \in 0..Horizon
  /\ queue \in SUBSET Jobs
  /\ attempts \in [Jobs -> Int]
  /\ due \in [Jobs -> Nat]
  /\ held \in [Workers -> SUBSET Jobs]
  /\ start \in [Workers -> Nat]
  /\ seen \in SUBSET Jobs
  /\ born \in [Jobs -> Int]
  /\ gaveUp \in SUBSET Jobs
  /\ tried \in [Jobs -> Nat]
  /\ first \in [Jobs -> Nat]
  /\ last \in [Jobs -> Nat]
  /\ passed \in [Jobs -> Nat]
  /\ spent \in 0..Budget

Init ==
  /\ now = 0
  /\ queue = {}
  /\ attempts = [j \in Jobs |-> 0]
  /\ due = [j \in Jobs |-> 0]
  /\ held = [w \in Workers |-> {}]
  /\ start = [w \in Workers |-> 0]
  /\ seen = {}
  /\ born = [j \in Jobs |-> 0]
  /\ gaveUp = {}
  /\ tried = [j \in Jobs |-> 0]
  /\ first = [j \in Jobs |-> 0]
  /\ last = [j \in Jobs |-> 0]
  /\ passed = [j \in Jobs |-> 0]
  /\ spent = 0

Tick ==
  /\ now < Horizon
  /\ now' = now + 1
  /\ UNCHANGED <<rowVars, workVars, historyVars, spent>>

(* A resynchronisation queues a row: due at once, no attempt made, unless an *)
(* operator's SQL says otherwise before anybody claims it.                   *)
Enqueue(j, a) ==
  /\ j \notin seen
  /\ \A i \in Jobs : i < j => i \in seen
  /\ queue' = queue \cup {j}
  /\ attempts' = [attempts EXCEPT ![j] = a]
  /\ due' = [due EXCEPT ![j] = now]
  /\ seen' = seen \cup {j}
  /\ born' = [born EXCEPT ![j] = a]
  /\ UNCHANGED <<now, workVars, gaveUp, tried, first, last, passed, spent>>

(***************************************************************************)
(* claim                                                                   *)
(***************************************************************************)
Busy == UNION {held[w] : w \in Workers}

(* next_attempt_at <= NOW(), SKIP LOCKED *)
Claimable == {j \in queue \ Busy : due[j] <= now}

(* Mutant: newest first. *)
Latest(S) == {j \in S : Cardinality({i \in S : i > j}) < Batch}

(* ORDER BY created_at LIMIT batch *)
Oldest(S) == {j \in S : Cardinality({i \in S : i < j}) < Batch}

Claim(w) ==
  /\ held[w] = {}
  /\ Claimable # {}
  /\ held' = [held EXCEPT ![w] = Oldest(Claimable)]
  /\ start' = [start EXCEPT ![w] = now]
  /\ passed' = [j \in Jobs |-> IF j \in Claimable \ Oldest(Claimable) THEN passed[j] + 1 ELSE passed[j]]
  /\ UNCHANGED <<now, rowVars, seen, born, gaveUp, tried, first, last, spent>>

(***************************************************************************)
(* retry and finish, committed together                                    *)
(***************************************************************************)
(* Mutant: one attempt short. *)
GivesUpEarly(j) == attempts[j] + 2 >= MaxAttempts

GivesUp(j) == attempts[j] + 1 >= MaxAttempts

(* The shift is bounded before it is made. *)
Shift(a) == IF a < 0 THEN 0 ELSE IF a > MaxAttempts THEN MaxAttempts ELSE a

(* Mutants: a failed row is due again at once; the count is the delay. *)
AtOnce(w, j) == start[w]
CountOfMinutes(w, j) == start[w] + attempts[j]

(* NOW() + delay *)
NextAttempt(w, j) == start[w] + Minutes[Shift(attempts[j])]

(* D is what the targets answered with 2xx; the rest failed. *)
Failed(w, D) == held[w] \ D
Dropped(w, D) == {j \in Failed(w, D) : GivesUp(j)}
Postponed(w, D) == Failed(w, D) \ Dropped(w, D)

Commit(w, D) ==
  /\ held[w] # {}
  /\ queue' = queue \ (D \cup Dropped(w, D))
  /\ attempts' = [j \in Jobs |-> IF j \in Postponed(w, D) THEN attempts[j] + 1 ELSE attempts[j]]
  /\ due' = [j \in Jobs |-> IF j \in Postponed(w, D) THEN NextAttempt(w, j) ELSE due[j]]
  /\ held' = [held EXCEPT ![w] = {}]
  /\ start' = [start EXCEPT ![w] = 0]
  /\ gaveUp' = gaveUp \cup Dropped(w, D)
  /\ tried' = [j \in Jobs |-> IF j \in Failed(w, D) THEN tried[j] + 1 ELSE tried[j]]
  /\ first' = [j \in Jobs |-> IF j \in Failed(w, D) /\ tried[j] = 0 THEN start[w] ELSE first[j]]
  /\ last' = [j \in Jobs |-> IF j \in Failed(w, D) THEN start[w] ELSE last[j]]
  /\ UNCHANGED <<now, seen, born, passed, spent>>

(* The process dies or the database goes away: the rows are as they were. *)
Dies(w) ==
  /\ held[w] # {}
  /\ spent < Budget
  /\ spent' = spent + 1
  /\ held' = [held EXCEPT ![w] = {}]
  /\ start' = [start EXCEPT ![w] = 0]
  /\ UNCHANGED <<now, rowVars, historyVars>>

Next ==
  \/ Tick
  \/ \E j \in Jobs, a \in Counts : Enqueue(j, a)
  \/ \E w \in Workers :
       Claim(w) \/ Dies(w) \/ \E D \in SUBSET held[w] : Commit(w, D)

Spec == Init /\ [][Next]_vars

(***************************************************************************)
(* Properties                                                              *)
(***************************************************************************)
(* Attempts that failed are apart by the doubling delay, counted between the *)
(* starts of their transactions, whichever workers made them and whatever    *)
(* died in between; never closer than a minute, even when the column holds a *)
(* number no code put there (retry, store.go).                               *)
RetriesApart ==
  [][\A j \in Jobs :
       0 < tried[j] /\ tried[j] < tried'[j] =>
         last'[j] - last[j] >= Minutes[Shift(attempts[j] - 1)]]_vars

(* A job is dropped only after MaxAttempts tries, and between the starts of   *)
(* the transactions of the first and of the last lie at least the minutes of  *)
(* the backoff, 31 with six attempts, whatever died and whichever workers     *)
(* took turns (retry, store.go).  A start is not the moment a request is      *)
(* sent: that one comes later, by as much as the batch before it takes.       *)
TriesSpread ==
  \A j \in gaveUp : born[j] <= 0 =>
    tried[j] >= MaxAttempts /\ last[j] - first[j] >= Minutes[MaxAttempts - 1] - 1

(* maxAttempts' own comment: six attempts "spread over about an hour" (23-25, *)
(* worker.go).  Three quarters of one is the least that can be called that.   *)
AboutAnHour == 45
SpreadOverAnHour == \A j \in gaveUp : born[j] = 0 => last[j] - first[j] >= AboutAnHour

(* A row that is due is left for older rows a bounded number of times: jobs  *)
(* that keep failing at the head of the queue do not starve those behind.    *)
Older(j) == Cardinality({i \in Jobs : i < j})
MostTries == MaxAttempts - (CHOOSE a \in Counts : \A b \in Counts : a <= b)
BoundedBypass ==
  \A j \in Jobs : Batch * passed[j] <= Older(j) * MostTries + Batch * spent

(* No row is in two transactions, and what is in one was due at its start.   *)
OneHolder == \A v, w \in Workers : v # w => held[v] \cap held[w] = {}
Holding == \A w \in Workers : \A j \in held[w] : j \in queue /\ due[j] <= start[w]

(* The backoff so far: the count says how often the row was tried, the times *)
(* say how long that took and when it may go on.                             *)
Pace(j) ==
  /\ attempts[j] = born[j] + tried[j]
  /\ born[j] <= 0 => attempts[j] < MaxAttempts
  /\ tried[j] > 0 => due[j] >= last[j] + Minutes[Shift(attempts[j] - 1)]
  /\ tried[j] > 0 /\ born[j] <= 0 => last[j] - first[j] >= Minutes[Shift(attempts[j] - 1)] - 1

Paced == \A j \in queue : Pace(j)
Known == queue \subseteq seen /\ \A j \in Jobs \ seen : tried[j] = 0
Over == gaveUp \subseteq seen \ queue

(* The inductive invariant: what makes the properties above hold together.   *)
IInv == TypeOK /\ TriesSpread /\ OneHolder /\ Holding /\ Paced /\ Known /\ Over
=============================================================================
