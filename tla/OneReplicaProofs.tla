--------------------------- MODULE OneReplicaProofs ---------------------------
(***************************************************************************)
(* What Provisioning promises about a person's account, proved where the   *)
(* code keeps it: one account, when the server refuses duplicates or one   *)
(* replica sends and its server drops what timed out; with more replicas,  *)
(* no more accounts than replicas; the newest content, with one replica    *)
(* and one target, for jobs that never were sent back. The run             *)
(* two_replicas shows what happens without the hypotheses, and the run     *)
(* stale_content what a job that was sent back does to the content.        *)
(***************************************************************************)
EXTENDS ProvisioningProofs, FiniteSetTheorems, WellFoundedInduction

USE TargetAssumption, BatchAssumption, AttemptsAssumption, ServerAssumption, BoundsAssumption
USE DEF targetVars, resyncVars, queueVars, coreVars, serverVars, workerVars

(* One replica, and a server that stops working on a request when its caller does. *)
Serial == ~Stragglers /\ \A v, w \in Workers : v = w

(* The first lookup is still true when the request is sent: nobody else wrote. *)
LookupHolds ==
  /\ late = {}
  /\ \A w \in Workers :
       phase[w] = "absent" => ~Known(creds[w][TargetOf(cur[w])], UserOf(cur[w]))

(* The inductive invariant of AtMostOneAccount. *)
AccountInv == AtMostOneAccount /\ (UniqueAccounts \/ LookupHolds)

(***************************************************************************)
(* One account                                                             *)
(***************************************************************************)
(* What processing a request does to one person's accounts on one server. *)
LEMMA ProcessAccounts ==
  ASSUME IInv, NEW r \in Request, Process(r), NEW s \in Servers, NEW u \in Users
  PROVE  \/ remote'[s][u] = remote[s][u]
         \/ /\ s = r.server /\ u = UserOf(r.job) /\ r.verb = "POST"
            /\ remote'[s][u] = Append(remote[s][u], payload[r.job])
         \/ /\ s = r.server /\ u = UserOf(r.job) /\ r.verb = "PUT" /\ remote[s][u] # <<>>
            /\ remote'[s][u] = [remote[s][u] EXCEPT ![1] = payload[r.job]]
<1>1. r.server \in Servers /\ r.job \in Job /\ UserOf(r.job) \in Users /\ r.verb \in {"POST", "PUT"}
  BY JobParts DEF Request
<1>2. r.verb = "PUT" => remote[r.server][UserOf(r.job)] # <<>>
  BY DEF Process, Accepts, Known
<1>3. remote' = [remote EXCEPT ![r.server][UserOf(r.job)] =
                   IF r.verb = "POST" THEN Append(@, payload[r.job])
                   ELSE [@ EXCEPT ![1] = payload[r.job]]]
  BY DEF Process
<1> QED BY <1>1, <1>2, <1>3 DEF IInv, TypeOK

LEMMA ProcessKeepsOne ==
  ASSUME IInv, AtMostOneAccount, NEW r \in Request, Process(r),
         r.verb = "POST" => ~Known(r.server, UserOf(r.job))
  PROVE  AtMostOneAccount'
<1> SUFFICES ASSUME NEW s \in Servers, NEW u \in Users PROVE Len(remote'[s][u]) <= 1
  BY DEF AtMostOneAccount
<1>1. remote[s][u] \in Seq(0..MaxVersion) /\ Len(remote[s][u]) <= 1
  BY DEF IInv, TypeOK, AtMostOneAccount
<1>2. ASSUME r.verb = "POST", s = r.server, u = UserOf(r.job),
             remote'[s][u] = Append(remote[s][u], payload[r.job])
      PROVE  Len(remote'[s][u]) <= 1
  <2>1. remote[s][u] = <<>>
    BY <1>2 DEF Known
  <2> QED BY <1>2, <2>1
<1>3. ASSUME remote[s][u] # <<>>, remote'[s][u] = [remote[s][u] EXCEPT ![1] = payload[r.job]]
      PROVE  Len(remote'[s][u]) <= 1
  <2>1. payload[r.job] \in 0..MaxVersion
    BY DEF IInv, TypeOK, Request
  <2>2. Len([remote[s][u] EXCEPT ![1] = payload[r.job]]) = Len(remote[s][u])
    BY <1>1, <1>3, <2>1, ExceptSeq
  <2> QED BY <1>1, <1>3, <2>2
<1> QED BY <1>1, <1>2, <1>3, ProcessAccounts

LEMMA PushKeepsOne ==
  ASSUME IInv, AccountInv, NEW w \in Workers, NEW p \in {"accepted", "refused"}, Push(w, p)
  PROVE  AtMostOneAccount'
<1> DEFINE r == RequestOf(w)
<1>1. r \in Request /\ cur[w] \in Job /\ Process(r)
  BY RequestType DEF Push, IInv, Locks
<1>2. r.verb = "POST" => ~Known(r.server, UserOf(r.job))
  <2>1. CASE UniqueAccounts
    BY <1>1, <2>1 DEF Process, Accepts
  <2>2. CASE LookupHolds
    BY <2>2 DEF LookupHolds, RequestOf, Verb
  <2> QED BY <2>1, <2>2 DEF AccountInv
<1> QED BY <1>1, <1>2, ProcessKeepsOne DEF AccountInv

(* Nobody but a worker with an answer in hand changes what a lookup found, *)
(* except by removing an account.                                          *)
LEMMA LookupStays ==
  ASSUME IInv, Serial, LookupHolds, [Next]_vars
  PROVE  LookupHolds'
<1> DEFINE Holds(w) == phase[w] = "absent" =>
                         ~Known(creds[w][TargetOf(cur[w])], UserOf(cur[w]))
<1>1. ASSUME UNCHANGED <<remote, late, creds, phase, cur>> PROVE LookupHolds'
  BY <1>1 DEF LookupHolds, Known
<1>2. ASSUME NEW t \in Targets, Console(t) PROVE LookupHolds'
  BY <1>1, <1>2
  DEF Console, HandleCreate, HandleUpdate, OperatorToggle, DeleteBegin, DeleteCommit, DeleteFails,
      HandleResync, InsertRows, EnqueueAll, EnqueueRefused, EnqueueFails, Withdraw
<1>3. ASSUME NEW w \in Workers, Drain(w) \/ Crash(w) PROVE LookupHolds'
  <2>1. \A v \in Workers : v = w
    BY DEF Serial
  <2>2. ASSUME phase'[w] # "absent", late' = late PROVE LookupHolds'
    BY <2>1, <2>2 DEF LookupHolds
  <2>3. ASSUME NEW j \in Unsettled(w), Lookup(w, j) PROVE LookupHolds'
    <3>1. /\ cur'[w] = j /\ UNCHANGED <<creds, remote, late>>
          /\ phase'[w] = IF Known(creds[w][TargetOf(j)], UserOf(j)) THEN "present" ELSE "absent"
      BY <2>3 DEF Lookup, Send, IInv, TypeOK
    <3> QED BY <2>1, <3>1 DEF LookupHolds, Known
  <2>4. ASSUME ~\E j \in Unsettled(w) : Lookup(w, j), ~ClaimNothing(w)
        PROVE  phase'[w] # "absent" /\ late' = late
    BY <1>3, <2>4
    DEF Serial, Drain, Claim, LookupFails, Send, Push, PushFails, PushTimesOut, Answer, Record,
        Commit, DeadlockVictim, Crash, Release, IInv, TypeOK
  <2> QED BY <1>1, <2>2, <2>3, <2>4 DEF ClaimNothing, vars
<1>4. CASE Core
  BY <1>1, <1>4 DEF Core, Join, Leave, Rename
<1>5. CASE Remote
  <2>1. ASSUME NEW s \in Servers, NEW u \in Users, RemoteDelete(s, u) PROVE LookupHolds'
    <3>1. \A x \in Servers, y \in Users : Known(x, y)' => Known(x, y)
      BY <2>1 DEF RemoteDelete, Known, IInv, TypeOK
    <3>2. UNCHANGED <<late, phase, cur, creds>>
      BY <2>1 DEF RemoteDelete
    <3>3. \A w \in Workers : phase[w] = "absent" =>
            creds[w][TargetOf(cur[w])] \in Servers /\ UserOf(cur[w]) \in Users
      BY JobParts, RequestType DEF Pushing, RequestOf, Request, IInv, Locks
    <3> QED BY <3>1, <3>2, <3>3 DEF LookupHolds, Known
  <2> QED BY <1>5, <2>1 DEF Remote, LookupHolds
<1>6. CASE (\E j \in waiting : BackoffElapses(j)) \/ (\E j \in queue : CascadeRow(j))
  BY <1>1, <1>6 DEF BackoffElapses, CascadeRow
<1>7. CASE UNCHANGED vars
  BY <1>1, <1>7 DEF vars
<1> QED BY <1>2, <1>3, <1>4, <1>5, <1>6, <1>7 DEF Next

LEMMA ApplyLateKeepsOne ==
  ASSUME IInv, AccountInv, NEW r \in late, ApplyLate(r)
  PROVE  AtMostOneAccount'
<1>1. r \in Request /\ Process(r)
  BY DEF ApplyLate, IInv, TypeOK
<1>2. UniqueAccounts
  BY DEF AccountInv, LookupHolds
<1>3. r.verb = "POST" => ~Known(r.server, UserOf(r.job))
  BY <1>1, <1>2 DEF Process, Accepts
<1> QED BY <1>1, <1>3, ProcessKeepsOne DEF AccountInv

LEMMA RemoteDeleteKeepsOne ==
  ASSUME IInv, AtMostOneAccount, NEW s \in Servers, NEW u \in Users, RemoteDelete(s, u)
  PROVE  AtMostOneAccount'
<1>1. \A x \in Servers, y \in Users : remote'[x][y] = remote[x][y] \/ remote'[x][y] = <<>>
  BY DEF RemoteDelete, IInv, TypeOK
<1> QED BY <1>1 DEF AtMostOneAccount

(* Every other step leaves the accounts alone. *)
LEMMA AccountsStay ==
  ASSUME Next,
         ~\E w \in Workers, p \in {"accepted", "refused"} : Push(w, p),
         ~\E r \in late : ApplyLate(r),
         ~\E s \in Servers, u \in Users : RemoteDelete(s, u)
  PROVE  UNCHANGED remote
<1>1. ASSUME NEW t \in Targets, Console(t) PROVE UNCHANGED remote
  BY <1>1
  DEF Console, HandleCreate, HandleUpdate, OperatorToggle, DeleteBegin, DeleteCommit, DeleteFails,
      HandleResync, InsertRows, EnqueueAll, EnqueueRefused, EnqueueFails, Withdraw
<1>2. ASSUME NEW w \in Workers, Drain(w) \/ Crash(w) PROVE UNCHANGED remote
  BY <1>2
  DEF Drain, Claim, ClaimNothing, vars, Lookup, LookupFails, PushFails, PushTimesOut, Record,
      Commit, DeadlockVictim, Crash
<1>3. ASSUME Core PROVE UNCHANGED remote
  BY <1>3 DEF Core, Join, Leave, Rename
<1>4. ASSUME Remote PROVE UNCHANGED remote
  BY <1>4 DEF Remote, DropLate
<1>5. ASSUME (\E j \in waiting : BackoffElapses(j)) \/ (\E j \in queue : CascadeRow(j))
      PROVE  UNCHANGED remote
  BY <1>5 DEF BackoffElapses, CascadeRow
<1> QED BY <1>1, <1>2, <1>3, <1>4, <1>5 DEF Next

LEMMA InitAccountInv == Init => AccountInv
<1> SUFFICES ASSUME Init PROVE AccountInv
  OBVIOUS
<1>1. AtMostOneAccount
  BY DEF Init, AtMostOneAccount
<1>2. LookupHolds
  BY DEF Init, LookupHolds
<1> QED BY <1>1, <1>2 DEF AccountInv

LEMMA NextAccountInv ==
  ASSUME IInv, AccountInv, UniqueAccounts \/ Serial, [Next]_vars
  PROVE  AccountInv'
<1>1. AtMostOneAccount'
  <2>1. CASE UNCHANGED remote
    BY <2>1 DEF AccountInv, AtMostOneAccount
  <2>2. ASSUME NEW w \in Workers, NEW p \in {"accepted", "refused"}, Push(w, p)
        PROVE  AtMostOneAccount'
    BY <2>2, PushKeepsOne
  <2>3. ASSUME NEW r \in late, ApplyLate(r) PROVE AtMostOneAccount'
    BY <2>3, ApplyLateKeepsOne
  <2>4. ASSUME NEW s \in Servers, NEW u \in Users, RemoteDelete(s, u) PROVE AtMostOneAccount'
    BY <2>4, RemoteDeleteKeepsOne DEF AccountInv
  <2>5. CASE UNCHANGED vars
    BY <2>1, <2>5 DEF vars
  <2> QED BY <2>1, <2>2, <2>3, <2>4, <2>5, AccountsStay
<1>2. (UniqueAccounts \/ LookupHolds)'
  BY LookupStays DEF AccountInv
<1> QED BY <1>1, <1>2 DEF AccountInv

(* A person never has two accounts on a server that refuses duplicates, nor *)
(* on one that would accept them, as long as one replica sends and its      *)
(* requests do not outlive their timeout.                                   *)
THEOREM OneAccount ==
  ASSUME UniqueAccounts \/ Serial
  PROVE  Spec => []AtMostOneAccount
<1>1. IInv /\ AccountInv /\ [Next]_vars => AccountInv'
  BY NextAccountInv
<1>2. AccountInv => AtMostOneAccount
  BY DEF AccountInv
<1> QED BY <1>1, <1>2, InitAccountInv, Invariance, PTL DEF Spec

(***************************************************************************)
(* At most one account for each replica                                    *)
(***************************************************************************)
(* The workers about to POST the person to the server: their lookup found   *)
(* nobody.                                                                  *)
Creating(s, u) ==
  {w \in Workers : phase[w] = "absent" /\ creds[w][TargetOf(cur[w])] = s /\ UserOf(cur[w]) = u}

NoMoreThanReplicas ==
  \A s \in Servers, u \in Users : Len(remote[s][u]) <= Cardinality(Workers)

(* The inductive invariant: the accounts there are and those under way. *)
Counted ==
  /\ late = {}
  /\ \A s \in Servers, u \in Users :
       Len(remote[s][u]) + Cardinality(Creating(s, u)) <= Cardinality(Workers)

LEMMA InitCounted == IsFiniteSet(Workers) /\ Init => Counted
<1> SUFFICES ASSUME IsFiniteSet(Workers), Init, NEW s \in Servers, NEW u \in Users
             PROVE  Len(remote[s][u]) + Cardinality(Creating(s, u)) <= Cardinality(Workers)
  BY DEF Counted, Init
<1>1. Len(remote[s][u]) = 0
  BY DEF Init
<1>2. Creating(s, u) \in SUBSET Workers
  BY DEF Creating
<1>3. /\ Cardinality(Creating(s, u)) \in Nat /\ Cardinality(Workers) \in Nat
      /\ Cardinality(Creating(s, u)) <= Cardinality(Workers)
  BY <1>2, FS_Subset, FS_CardinalityType
<1> QED BY <1>1, <1>3

(* What a step does to a person's accounts and to those about to create one. *)
Fewer(s, u) ==
  Len(remote'[s][u]) <= Len(remote[s][u]) /\ Creating(s, u)' \subseteq Creating(s, u)
Found(s, u) == remote'[s][u] = <<>>
Posted(s, u) ==
  /\ Len(remote'[s][u]) = Len(remote[s][u]) + 1
  /\ \E w \in Creating(s, u) : Creating(s, u)' \subseteq Creating(s, u) \ {w}

LEMMA PushCounted ==
  ASSUME IInv, NEW w \in Workers, NEW p \in {"accepted", "refused"}, Push(w, p),
         NEW s \in Servers, NEW u \in Users
  PROVE  Fewer(s, u) \/ Posted(s, u)
<1> DEFINE r == RequestOf(w)
<1>1. r \in Request /\ cur[w] \in Job /\ Process(r)
  BY RequestType DEF Push, IInv, Locks
<1>2. Creating(s, u)' \subseteq Creating(s, u) \ {w}
  BY DEF Push, Answer, Creating, IInv, TypeOK
<1>3. remote[s][u] \in Seq(0..MaxVersion) /\ payload[r.job] \in 0..MaxVersion
  BY <1>1 DEF IInv, TypeOK, Request
<1>4. CASE remote'[s][u] = remote[s][u]
  BY <1>2, <1>4 DEF Fewer
<1>5. CASE /\ s = r.server /\ u = UserOf(r.job) /\ r.verb = "POST"
           /\ remote'[s][u] = Append(remote[s][u], payload[r.job])
  <2>1. \E v \in Creating(s, u) : Creating(s, u)' \subseteq Creating(s, u) \ {v}
    <3>1. w \in Creating(s, u)
      <4>1. phase[w] = "absent"
        <5>1. r.verb = Verb(w)
          BY DEF RequestOf
        <5> QED BY <1>5, <5>1 DEF Verb
      <4>2. r.server = creds[w][TargetOf(cur[w])] /\ r.job = cur[w]
        BY DEF RequestOf
      <4> HIDE DEF r
      <4> QED BY <1>5, <4>1, <4>2, Zenon DEF Creating
    <3> QED BY <1>2, <3>1, Zenon
  <2>2. Len(remote'[s][u]) = Len(remote[s][u]) + 1
    <3>1. \A q \in Seq(0..MaxVersion), x \in 0..MaxVersion : Len(Append(q, x)) = Len(q) + 1
      OBVIOUS
    <3> QED BY <1>3, <1>5, <3>1
  <2> QED BY <2>1, <2>2 DEF Posted
<1>6. CASE remote[s][u] # <<>> /\ remote'[s][u] = [remote[s][u] EXCEPT ![1] = payload[r.job]]
  <2>1. Len(remote'[s][u]) = Len(remote[s][u])
    BY <1>3, <1>6, ExceptSeq
  <2> QED BY <1>2, <1>3, <2>1 DEF Fewer
<1> QED BY <1>1, <1>4, <1>5, <1>6, ProcessAccounts

LEMMA StepCounted ==
  ASSUME IInv, late = {}, [Next]_vars, NEW s \in Servers, NEW u \in Users
  PROVE  Fewer(s, u) \/ Found(s, u) \/ Posted(s, u)
<1>0. remote[s][u] \in Seq(0..MaxVersion) /\ Len(remote[s][u]) \in Nat
  BY DEF IInv, TypeOK
<1>1. ASSUME UNCHANGED <<remote, creds, phase, cur>>
      PROVE  Fewer(s, u)
  BY <1>0, <1>1 DEF Fewer, Creating
<1>2. ASSUME NEW t \in Targets, Console(t) PROVE Fewer(s, u)
  BY <1>1, <1>2
  DEF Console, HandleCreate, HandleUpdate, OperatorToggle, DeleteBegin, DeleteCommit, DeleteFails,
      HandleResync, InsertRows, EnqueueAll, EnqueueRefused, EnqueueFails, Withdraw
<1>3. ASSUME NEW w \in Workers, Drain(w) \/ Crash(w)
      PROVE  Fewer(s, u) \/ Found(s, u) \/ Posted(s, u)
  <2>1. ASSUME NEW j \in Unsettled(w), Lookup(w, j)
        PROVE  Fewer(s, u) \/ Found(s, u)
    <3>1. /\ cur' = [cur EXCEPT ![w] = j] /\ UNCHANGED <<creds, remote>>
          /\ phase' = [phase EXCEPT ![w] =
                         IF Known(creds[w][TargetOf(j)], UserOf(j)) THEN "present" ELSE "absent"]
      BY <2>1 DEF Lookup, Send
    <3>2. CASE Known(s, u)
      <4>1. Creating(s, u)' \subseteq Creating(s, u)
        BY <3>1, <3>2 DEF Creating, IInv, TypeOK
      <4> QED BY <1>0, <3>1, <4>1 DEF Fewer
    <3>3. CASE ~Known(s, u)
      BY <3>1, <3>3 DEF Found, Known
    <3> QED BY <3>1, <3>2, <3>3
  <2>2. ASSUME NEW p \in {"accepted", "refused"}, Push(w, p)
        PROVE  Fewer(s, u) \/ Posted(s, u)
    BY <2>2, PushCounted
  <2>3. ASSUME remote' = remote, phase'[w] # "absent",
               \A v \in Workers \ {w} :
                 phase'[v] = phase[v] /\ cur'[v] = cur[v] /\ creds'[v] = creds[v]
        PROVE  Fewer(s, u)
    <3>1. Creating(s, u)' \subseteq Creating(s, u)
      BY <2>3 DEF Creating
    <3> QED BY <1>0, <2>3, <3>1 DEF Fewer
  <2>4. ASSUME ~\E j \in Unsettled(w) : Lookup(w, j), ~ClaimNothing(w),
               ~\E p \in {"accepted", "refused"} : Push(w, p)
        PROVE  /\ remote' = remote /\ phase'[w] # "absent"
               /\ \A v \in Workers \ {w} :
                    phase'[v] = phase[v] /\ cur'[v] = cur[v] /\ creds'[v] = creds[v]
    BY <1>3, <2>4
    DEF Drain, Claim, LookupFails, Send, PushFails, PushTimesOut, Answer, Record,
        Commit, DeadlockVictim, Crash, Release, IInv, TypeOK
  <2> QED BY <1>1, <2>1, <2>2, <2>3, <2>4 DEF ClaimNothing, vars
<1>4. CASE Core
  BY <1>1, <1>4 DEF Core, Join, Leave, Rename
<1>5. CASE Remote
  <2>1. ASSUME NEW x \in Servers, NEW y \in Users, RemoteDelete(x, y)
        PROVE  Fewer(s, u) \/ Found(s, u)
    <3>1. remote'[s][u] = remote[s][u] \/ remote'[s][u] = <<>>
      BY <2>1 DEF RemoteDelete, IInv, TypeOK
    <3>2. Creating(s, u)' = Creating(s, u)
      BY <2>1 DEF RemoteDelete, Creating
    <3> QED BY <1>0, <2>1, <3>1, <3>2 DEF RemoteDelete, Fewer, Found
  <2> QED BY <1>5, <2>1 DEF Remote
<1>6. CASE (\E j \in waiting : BackoffElapses(j)) \/ (\E j \in queue : CascadeRow(j))
  BY <1>1, <1>6 DEF BackoffElapses, CascadeRow
<1>7. CASE UNCHANGED vars
  BY <1>1, <1>7 DEF vars
<1> QED BY <1>2, <1>3, <1>4, <1>5, <1>6, <1>7 DEF Next

(* No request outlives its timeout. *)
LEMMA LateStays ==
  ASSUME IInv, ~Stragglers, late = {}, [Next]_vars
  PROVE  late' = {}
<1>1. ASSUME NEW t \in Targets, Console(t) PROVE late' = late
  BY <1>1
  DEF Console, HandleCreate, HandleUpdate, OperatorToggle, DeleteBegin, DeleteCommit, DeleteFails,
      HandleResync, InsertRows, EnqueueAll, EnqueueRefused, EnqueueFails, Withdraw
<1>2. ASSUME NEW w \in Workers, Drain(w) \/ Crash(w) PROVE late' = late
  BY <1>2
  DEF Drain, Claim, ClaimNothing, vars, Lookup, LookupFails, Push, PushFails, PushTimesOut, Record,
      Commit, DeadlockVictim, Crash
<1>3. CASE Core
  BY <1>3 DEF Core, Join, Leave, Rename
<1>4. CASE Remote
  BY <1>4 DEF Remote, RemoteDelete
<1>5. CASE (\E j \in waiting : BackoffElapses(j)) \/ (\E j \in queue : CascadeRow(j))
  BY <1>5 DEF BackoffElapses, CascadeRow
<1>6. CASE UNCHANGED vars
  BY <1>6 DEF vars
<1> QED BY <1>1, <1>2, <1>3, <1>4, <1>5, <1>6 DEF Next

LEMMA NextCounted ==
  ASSUME IInv, Counted, ~Stragglers, IsFiniteSet(Workers), [Next]_vars
  PROVE  Counted'
<1> DEFINE Total(s, u) == Len(remote[s][u]) + Cardinality(Creating(s, u))
<1>1. \A s \in Servers, u \in Users :
        Fewer(s, u) \/ Found(s, u) \/ Posted(s, u)
  BY StepCounted DEF Counted
<1>2. late' = {}
  BY LateStays DEF Counted
<1>3. ASSUME NEW s \in Servers, NEW u \in Users
      PROVE  Len(remote'[s][u]) + Cardinality(Creating(s, u)') <= Cardinality(Workers)
  <2> DEFINE C == Creating(s, u)
             D == Creating(s, u)'
  <2> SUFFICES Len(remote'[s][u]) + Cardinality(D) <= Cardinality(Workers)
    OBVIOUS
  <2>1. C \in SUBSET Workers /\ D \in SUBSET Workers
    BY DEF Creating
  <2>2. /\ IsFiniteSet(C) /\ IsFiniteSet(D)
        /\ Cardinality(C) \in Nat /\ Cardinality(D) \in Nat /\ Cardinality(Workers) \in Nat
        /\ Cardinality(D) <= Cardinality(Workers)
    BY <2>1, FS_Subset, FS_CardinalityType
  <2>3. Len(remote[s][u]) \in Nat /\ Len(remote'[s][u]) \in Nat
    BY NextIInv DEF IInv, TypeOK
  <2>4. Len(remote[s][u]) + Cardinality(C) <= Cardinality(Workers)
    BY DEF Counted
  <2>5. CASE Fewer(s, u)
    <3>1. Cardinality(D) <= Cardinality(C)
      BY <2>2, <2>5, FS_Subset DEF Fewer
    <3>2. Len(remote'[s][u]) <= Len(remote[s][u])
      BY <2>5 DEF Fewer
    <3> HIDE DEF C, D
    <3> QED BY <2>2, <2>3, <2>4, <3>1, <3>2
  <2>6. CASE Found(s, u)
    <3>1. Len(remote'[s][u]) = 0
      BY <2>6 DEF Found
    <3> HIDE DEF C, D
    <3> QED BY <2>2, <3>1
  <2>7. CASE Posted(s, u)
    <3>1. PICK w \in C : D \subseteq C \ {w}
      BY <2>7 DEF Posted
    <3>2. Len(remote'[s][u]) = Len(remote[s][u]) + 1
      BY <2>7 DEF Posted
    <3> HIDE DEF C, D
    <3>3. IsFiniteSet(C \ {w}) /\ Cardinality(C \ {w}) = Cardinality(C) - 1
      BY <2>2, <3>1, FS_RemoveElement
    <3>4. Cardinality(D) <= Cardinality(C) - 1
      BY <3>1, <3>3, FS_Subset
    <3> QED BY <2>2, <2>3, <2>4, <3>2, <3>4
  <2> QED BY <1>1, <2>5, <2>6, <2>7
<1> QED BY <1>2, <1>3 DEF Counted

(* A server that accepts duplicates, and drops a request when its caller     *)
(* does, never holds more accounts of a person than there are replicas: each *)
(* replica creates an account only if its own lookup found none.             *)
THEOREM OneEach ==
  ASSUME ~Stragglers, IsFiniteSet(Workers)
  PROVE  Spec => []NoMoreThanReplicas
<1>1. IInv /\ Counted /\ [Next]_vars => Counted'
  BY NextCounted
<1>2. IInv /\ Counted => NoMoreThanReplicas
  <2> SUFFICES ASSUME IInv, Counted, NEW s \in Servers, NEW u \in Users
               PROVE  Len(remote[s][u]) <= Cardinality(Workers)
    BY DEF NoMoreThanReplicas
  <2>1. Creating(s, u) \in SUBSET Workers
    BY DEF Creating
  <2>2. Cardinality(Creating(s, u)) \in Nat /\ Cardinality(Workers) \in Nat
    BY <2>1, FS_Subset, FS_CardinalityType
  <2>3. Len(remote[s][u]) \in Nat
    BY DEF IInv, TypeOK
  <2>4. Len(remote[s][u]) + Cardinality(Creating(s, u)) <= Cardinality(Workers)
    BY DEF Counted
  <2> QED BY <2>2, <2>3, <2>4
<1> QED BY <1>1, <1>2, InitCounted, Invariance, PTL DEF Spec

(***************************************************************************)
(* The newest content                                                      *)
(***************************************************************************)
(* One replica, one target that stays where it is, and no DELETE.          *)
Alone ==
  /\ Serial
  /\ \A t, x \in Targets : t = x
  /\ \A s, x \in Servers : s = x
  /\ Deletable = {}

Same(i, j) == TargetOf(i) = TargetOf(j) /\ UserOf(i) = UserOf(j)

(* The rows of an open batch whose request is over, and those it answered 2xx. *)
InHand(w, P) == {j \in held[w] : phase[w] \in P /\ j = cur[w]}
Sent(w) == Settled(w) \cup InHand(w, {"accepted", "refused"})
Succeeds(w) == done[w] \cup InHand(w, {"accepted"})

NothingDeleted == deleting = {} /\ doomed = {}

WaitsTried == \A j \in waiting : attempts[j] > 0

(* A batch is sent in the order of its resynchronisations.                  *)
SentInOrder ==
  \A w \in Workers :
    /\ \A i \in Sent(w), k \in held[w] \ Sent(w) : Created(i) <= Created(k)
    /\ Pushing(w) => \A k \in Unsettled(w) : Created(cur[w]) <= Created(k)

(* Within a batch, the last success for a user is what the server holds:    *)
(* the rows of a user in a batch have different numbers.                    *)
SentContent ==
  \A w \in Workers : \A j \in Succeeds(w) : \A s \in Servers :
    Known(s, UserOf(j)) /\ (\A k \in Sent(w) : Same(k, j) => Created(k) <= Created(j))
      => remote[s][UserOf(j)][1] = payload[j]

(* So far, no job of the user was sent back to the queue.                   *)
FirstTry(t, u) ==
  \A j \in Enqueued(t, u) : IF j \in queue THEN log[j] = <<>> ELSE Len(log[j]) = 1

(* Such jobs leave the queue, and enter a batch, before those of a          *)
(* resynchronisation that started when theirs was over.                     *)
InTurn ==
  \A t \in Targets, u \in Users : FirstTry(t, u) =>
    \A j, k \in Enqueued(t, u) : k \in queue =>
      /\ j \notin queue => ~Before(k, j)
      /\ \A w \in Workers : j \in held[w] /\ k \notin held[w] => ~Before(k, j)

Batches == SentInOrder /\ SentContent
Contents == InTurn /\ FirstTriesDeliver

(* The inductive invariant of FirstTriesDeliver.                            *)
FirstTryInv == NothingDeleted /\ WaitsTried /\ LookupHolds /\ Batches /\ Contents

LEMMA SameJob ==
  ASSUME NEW i \in Job, NEW j \in Job, Same(i, j), Created(i) = Created(j)
  PROVE  i = j
  BY DEF Same, Job, Created, TargetOf, UserOf

(* A resynchronisation that was over before another has a smaller number.   *)
LEMMA BeforeIsOlder ==
  ASSUME IInv, NEW i \in Job, NEW j \in Job, Offered(i), Before(i, j)
  PROVE  Created(i) < Created(j)
<1>1. Created(i) <= over[Created(i)]
  BY DEF IInv, Records, RowsKnown
<1>2. Created(i) \in 1..MaxResyncs /\ Created(j) \in Nat
  BY JobParts
<1>3. over[Created(i)] \in Nat
  BY <1>2 DEF IInv, TypeOK
<1> QED BY <1>1, <1>2, <1>3 DEF Before

LEMMA EnqueuedJobs ==
  ASSUME NEW t, NEW u, NEW j \in Enqueued(t, u)
  PROVE  j \in Job /\ TargetOf(j) = t /\ UserOf(j) = u /\ Offered(j)
  BY DEF Enqueued, JobsOf

LEMMA HeldJobs ==
  ASSUME IInv, NEW w \in Workers
  PROVE  /\ held[w] \subseteq queue /\ held[w] \subseteq Job
         /\ Succeeds(w) \subseteq Sent(w) /\ Sent(w) \subseteq held[w]
  BY DEF IInv, TypeOK, Locks, HeldRowsStay, BatchInHand, Settled, Succeeds, Sent, InHand

(***************************************************************************)
(* What a step leaves alone                                                *)
(***************************************************************************)
LEMMA BatchesFrame ==
  ASSUME IInv, Batches, UNCHANGED <<phase, held, cur, done, failed>>,
         \A j \in Job : Offered(j) => payload'[j] = payload[j],
         \A s \in Servers, u \in Users : Known(s, u)' => remote'[s][u] = remote[s][u]
  PROVE  Batches'
<1>1. \A w \in Workers : /\ Sent(w)' = Sent(w) /\ Succeeds(w)' = Succeeds(w)
                         /\ Unsettled(w)' = Unsettled(w) /\ Pushing(w)' = Pushing(w)
  BY DEF Sent, Succeeds, InHand, Settled, Unsettled, Pushing
<1>2. SentInOrder'
  BY <1>1 DEF Batches, SentInOrder
<1>3. SentContent'
  <2> SUFFICES ASSUME NEW w \in Workers, NEW j \in Succeeds(w), NEW s \in Servers,
                      Known(s, UserOf(j))',
                      \A k \in Sent(w) : Same(k, j) => Created(k) <= Created(j)
               PROVE  remote'[s][UserOf(j)][1] = payload'[j]
    BY <1>1 DEF SentContent
  <2>1. j \in Job /\ Offered(j) /\ UserOf(j) \in Users
    BY HeldJobs, JobParts DEF IInv, Records, RowsKnown
  <2>2. remote'[s][UserOf(j)] = remote[s][UserOf(j)] /\ Known(s, UserOf(j))
    BY <2>1 DEF Known
  <2> QED BY <2>1, <2>2 DEF Batches, SentContent
<1> QED BY <1>2, <1>3 DEF Batches

LEMMA ContentsFrame ==
  ASSUME IInv, Contents, UNCHANGED <<status, site, queue, payload, log, over>>,
         \A w \in Workers : held'[w] = held[w] \/ held'[w] = {},
         \A s \in Servers, u \in Users : Known(s, u)' => remote'[s][u] = remote[s][u]
  PROVE  Contents'
<1>1. \A t \in Targets, u \in Users :
        /\ Enqueued(t, u)' = Enqueued(t, u) /\ Quiet(t, u)' = Quiet(t, u)
        /\ FirstTry(t, u)' = FirstTry(t, u)
  BY DEF Enqueued, Offered, Quiet, Live, FirstTry
<1>2. InTurn'
  BY <1>1 DEF Contents, InTurn, Before
<1>3. FirstTriesDeliver'
  <2> SUFFICES ASSUME NEW t \in Targets, NEW u \in Users, Quiet(t, u),
                      \A j \in Enqueued(t, u) : log[j] = <<"ok">>, Known(site[t], u)'
               PROVE  NotReplaced(t, u)'
    BY <1>1 DEF FirstTriesDeliver, Known
  <2>1. site[t] \in Servers
    BY DEF IInv, TypeOK
  <2>2. Known(site[t], u) /\ remote'[site[t]][u] = remote[site[t]][u]
    BY <2>1 DEF Known
  <2>3. NotReplaced(t, u)
    BY <2>2 DEF Contents, FirstTriesDeliver
  <2> QED BY <1>1, <2>2, <2>3 DEF NotReplaced, Before
<1> QED BY <1>2, <1>3 DEF Contents

(***************************************************************************)
(* The steps of the newest content                                         *)
(***************************************************************************)
(* What a resynchronisation that commits does to a row.                     *)
LEMMA EnqueueAllAdds ==
  ASSUME IInv, NEW t \in Targets, NEW r \in 1..MaxResyncs, EnqueueAll(r, t), NEW j \in Job
  PROVE  \/ ~Offered(j) /\ Offered(j)' /\ j \notin queue /\ j \in queue' /\ Created(j) = r
         \/ /\ payload'[j] = payload[j] /\ (Offered(j)' <=> Offered(j))
            /\ j \in queue' <=> j \in queue
<1>1. CASE j \in Drafted(r, t)
  <2>1. Created(j) = r /\ ~Offered(j)
    BY <1>1, RowsOfIs DEF Drafted, EnqueueAll, IInv, Records, RowsKnown
  <2>2. payload'[j] # 0
    BY <1>1 DEF EnqueueAll, Drafted
  <2>3. j \in queue' /\ j \notin queue
    BY <1>1, <2>1 DEF EnqueueAll, IInv, Records, RowsKnown
  <2> QED BY <2>1, <2>2, <2>3 DEF Offered
<1>2. CASE j \notin Drafted(r, t)
  BY <1>2 DEF EnqueueAll, Offered
<1> QED BY <1>1, <1>2

(* Nothing that is offered started after a resynchronisation that commits   *)
(* now, and a resynchronisation that was over stays over.                   *)
LEMMA EnqueueAllEnds ==
  ASSUME IInv, NEW t \in Targets, NEW r \in 1..MaxResyncs, EnqueueAll(r, t),
         NEW i \in Job, NEW j \in Job, Offered(j), Offered(i) \/ Created(i) = r
  PROVE  Before(i, j)' => Before(i, j) /\ Created(i) # r
<1>1. over' = [over EXCEPT ![r] = resyncs] /\ Created(i) \in 1..MaxResyncs
  BY JobParts DEF EnqueueAll
<1>2. Created(j) <= resyncs /\ Created(j) \in Nat /\ resyncs \in Nat
  <2>1. Created(j) \in Nat
    BY JobParts
  <2>2. resyncs \in Nat
    BY DEF IInv, TypeOK
  <2>3. ~(Created(j) > resyncs)
    BY DEF IInv, Records, RowsKnown
  <2> QED BY <2>1, <2>2, <2>3
<1>3. CASE Created(i) = r
  <2>1. over'[Created(i)] = resyncs
    BY <1>1, <1>3 DEF IInv, TypeOK
  <2> QED BY <1>2, <2>1 DEF Before
<1>4. CASE Created(i) # r
  <2>1. over'[Created(i)] = over[Created(i)]
    BY <1>1, <1>4 DEF IInv, TypeOK
  <2> QED BY <1>4, <2>1 DEF Before
<1> QED BY <1>3, <1>4

LEMMA EnqueueAllContents ==
  ASSUME IInv, Contents, NEW x \in Targets, NEW r \in 1..MaxResyncs, EnqueueAll(r, x)
  PROVE  Contents'
<1>1. UNCHANGED <<status, site, log, held, remote>>
  BY DEF EnqueueAll
<1>2. \A j \in Job : Offered(j) => /\ Offered(j)' /\ payload'[j] = payload[j]
                                   /\ j \in queue' <=> j \in queue
  BY EnqueueAllAdds
<1>3. \A j \in Job : Offered(j)' /\ ~Offered(j) => j \in queue' /\ Created(j) = r
  BY EnqueueAllAdds
<1>4. InTurn'
  <2> SUFFICES ASSUME NEW t \in Targets, NEW u \in Users, FirstTry(t, u)',
                      NEW j \in Enqueued(t, u)', NEW k \in Enqueued(t, u)', k \in queue',
                      Before(k, j)'
               PROVE  j \in queue' /\ \A w \in Workers : ~(j \in held[w] /\ k \notin held[w])
    BY <1>1 DEF InTurn
  <2>1. /\ j \in Job /\ TargetOf(j) = t /\ UserOf(j) = u /\ Offered(j)'
        /\ k \in Job /\ TargetOf(k) = t /\ UserOf(k) = u /\ Offered(k)'
    BY DEF Enqueued, JobsOf
  <2>2. FirstTry(t, u)
    BY <1>1, <1>2 DEF FirstTry, Enqueued, JobsOf
  <2>3. \A w \in Workers : \A i \in held[w] : Offered(i)
    BY HeldJobs DEF IInv, Records, RowsKnown
  <2>4. CASE ~Offered(j)
    BY <1>3, <2>1, <2>3, <2>4
  <2>5. CASE Offered(j)
    <3>1. Before(k, j) /\ Offered(k)
      BY <1>3, <2>1, <2>5, EnqueueAllEnds
    <3>2. j \in Enqueued(t, u) /\ k \in Enqueued(t, u) /\ k \in queue
      BY <1>2, <2>1, <2>5, <3>1 DEF Enqueued, JobsOf
    <3> QED BY <1>2, <2>1, <2>2, <2>5, <3>1, <3>2 DEF Contents, InTurn
  <2> QED BY <2>4, <2>5
<1>5. FirstTriesDeliver'
  <2> SUFFICES ASSUME NEW t \in Targets, NEW u \in Users, Quiet(t, u)',
                      \A j \in Enqueued(t, u)' : log[j] = <<"ok">>, Known(site[t], u)
               PROVE  NotReplaced(t, u)'
    BY <1>1 DEF FirstTriesDeliver, Known
  <2>1. \A j \in Enqueued(t, u)' : Offered(j)
    BY <1>3 DEF Quiet, Enqueued, JobsOf
  <2>2. Enqueued(t, u)' = Enqueued(t, u)
    BY <1>2, <2>1 DEF Enqueued, JobsOf
  <2>3. Quiet(t, u)
    BY <1>1, <1>2, <2>1, <2>2, EnqueuedJobs DEF Quiet, Live
  <2>4. PICK j \in Enqueued(t, u) :
          /\ remote[site[t]][u][1] = payload[j]
          /\ \A k \in Enqueued(t, u) : ~Before(j, k)
    BY <2>2, <2>3 DEF Contents, FirstTriesDeliver, NotReplaced
  <2>5. payload'[j] = payload[j] /\ \A k \in Enqueued(t, u) : ~Before(j, k)'
    BY <1>2, <2>1, <2>2, <2>4, EnqueuedJobs, EnqueueAllEnds
  <2> QED BY <1>1, <2>2, <2>4, <2>5 DEF NotReplaced
<1> QED BY <1>4, <1>5 DEF Contents

(* A target that is inserted has nothing queued yet.                        *)
LEMMA HandleCreateContents ==
  ASSUME IInv, Contents, NEW x \in Targets, NEW s \in Servers, HandleCreate(x, s)
  PROVE  Contents'
<1>1. UNCHANGED <<queue, payload, log, held, remote, over>>
  BY DEF HandleCreate
<1>2. \A t \in Targets : t # x => status'[t] = status[t] /\ site'[t] = site[t]
  BY DEF HandleCreate, IInv, TypeOK
<1>3. \A u \in Users : Enqueued(x, u) = {}
  BY JobParts DEF HandleCreate, IInv, Records, RowsKnown, Enqueued, JobsOf
<1>4. \A t \in Targets, u \in Users :
        Enqueued(t, u)' = Enqueued(t, u) /\ FirstTry(t, u)' = FirstTry(t, u)
  BY <1>1 DEF Enqueued, Offered, FirstTry
<1>5. InTurn'
  BY <1>1, <1>4 DEF Contents, InTurn, Before
<1>6. FirstTriesDeliver'
  <2> SUFFICES ASSUME NEW t \in Targets, NEW u \in Users, Quiet(t, u)',
                      \A j \in Enqueued(t, u) : log[j] = <<"ok">>, Known(site[t], u)'
               PROVE  NotReplaced(t, u)'
    BY <1>1, <1>4 DEF FirstTriesDeliver
  <2>1. t # x /\ Quiet(t, u)
    BY <1>1, <1>2, <1>3, <1>4 DEF Quiet, Live
  <2>2. Known(site[t], u) /\ site'[t] = site[t]
    BY <1>1, <1>2, <2>1 DEF Known
  <2>3. NotReplaced(t, u)
    BY <2>1, <2>2 DEF Contents, FirstTriesDeliver
  <2> QED BY <1>1, <1>4, <2>2, <2>3 DEF NotReplaced, Before
<1> QED BY <1>5, <1>6 DEF Contents

(* Letting a batch go, with its outcomes or without, leaves nothing sent.   *)
LEMMA ReleaseBatches ==
  ASSUME IInv, Alone, NEW w \in Workers, Release(w)
  PROVE  Batches' /\ held'[w] = {} /\ \A v \in Workers : v = w
<1>1. \A v \in Workers : v = w
  BY DEF Alone, Serial
<1>2. held'[w] = {} /\ done'[w] = {} /\ failed'[w] = {} /\ phase'[w] = "idle"
  BY DEF Release, IInv, TypeOK
<1>3. \A v \in Workers : Sent(v)' = {} /\ Succeeds(v)' = {} /\ held'[v] = {} /\ ~Pushing(v)'
  BY <1>1, <1>2 DEF Sent, Succeeds, InHand, Settled, Pushing
<1>4. SentInOrder' /\ SentContent'
  BY <1>3 DEF SentInOrder, SentContent
<1> QED BY <1>1, <1>2, <1>4 DEF Batches

(* A row nobody tried is due, so the batch takes a user's rows oldest first. *)
LEMMA ClaimFirstTry ==
  ASSUME IInv, FirstTryInv, Alone, NEW w \in Workers, NEW B \in SUBSET Claimable, Claim(w, B)
  PROVE  FirstTryInv'
<1>1. \A v \in Workers : v = w
  BY DEF Alone, Serial
<1>2. /\ UNCHANGED <<targetVars, resyncVars, queueVars, serverVars, done, failed>>
      /\ phase[w] = "idle" /\ phase'[w] = "next" /\ held'[w] = B
  BY DEF Claim, IInv, TypeOK
<1>3. held[w] = {} /\ done[w] = {} /\ failed[w] = {}
  BY <1>2 DEF IInv, Locks, BatchInHand, Settled
<1>4. Batches'
  <2>1. Sent(w)' = {} /\ Succeeds(w)' = {} /\ ~Pushing(w)'
    BY <1>2, <1>3 DEF Sent, Succeeds, InHand, Settled, Pushing
  <2> QED BY <1>1, <2>1 DEF Batches, SentInOrder, SentContent
<1>5. \A t \in Targets, u \in Users :
        Enqueued(t, u)' = Enqueued(t, u) /\ FirstTry(t, u)' = FirstTry(t, u)
  BY <1>2 DEF Enqueued, Offered, FirstTry
<1>6. ASSUME NEW t \in Targets, NEW u \in Users, FirstTry(t, u),
             NEW j \in Enqueued(t, u), NEW k \in Enqueued(t, u), k \in queue, j \in B, k \notin B
      PROVE  ~Before(k, j)
  <2>1. log[k] = <<>>
    BY <1>6 DEF FirstTry
  <2>2. Len(log[k]) = attempts[k]
    BY <1>6, EnqueuedJobs DEF IInv, Records, RowsKnown, HistoryTellsAll, TellsPending
  <2>3. k \notin waiting
    BY <2>1, <2>2 DEF FirstTryInv, WaitsTried
  <2>4. k \in Unlocked
    BY <1>1, <1>3, <1>6 DEF FirstTryInv, NothingDeleted, Unlocked
  <2>5. k \in Claimable
    BY <1>6, <2>3, <2>4, EnqueuedJobs DEF Claimable
  <2>6. Created(j) <= Created(k)
    BY <1>6, <2>5 DEF Claim, Oldest
  <2> QED BY <1>6, <2>6, EnqueuedJobs, BeforeIsOlder, JobParts
<1>7. InTurn'
  BY <1>1, <1>2, <1>5, <1>6 DEF InTurn, Before, FirstTryInv, Contents
<1>8. FirstTriesDeliver'
  BY <1>2, <1>5 DEF FirstTriesDeliver, NotReplaced, Before, FirstTryInv, Contents, Quiet, Live, Known
<1>9. LookupHolds' /\ NothingDeleted' /\ WaitsTried'
  BY <1>1, <1>2 DEF FirstTryInv, LookupHolds, NothingDeleted, WaitsTried
<1> QED BY <1>4, <1>7, <1>8, <1>9 DEF FirstTryInv, Contents

(* The next request is for an oldest row that has no outcome yet.           *)
LEMMA SendBatches ==
  ASSUME IInv, Batches, Alone, NEW w \in Workers, NEW j \in Unsettled(w),
         Lookup(w, j) \/ LookupFails(w, j)
  PROVE  Batches'
<1>1. \A v \in Workers : v = w
  BY DEF Alone, Serial
<1>2. /\ UNCHANGED <<held, done, failed, remote, payload>>
      /\ phase[w] = "next" /\ cur'[w] = j
      /\ phase'[w] \in {"absent", "present", "refused"}
  BY DEF Lookup, LookupFails, Send, IInv, TypeOK
<1>3. j \in held[w] /\ \A k \in Unsettled(w) : Created(j) <= Created(k)
  BY DEF Lookup, LookupFails, Foremost, Unsettled
<1>4. Sent(w) = Settled(w) /\ Succeeds(w) = done[w]
  BY <1>2 DEF Sent, Succeeds, InHand
<1>5. /\ Succeeds(w)' = done[w] /\ Unsettled(w)' = Unsettled(w) /\ Settled(w)' = Settled(w)
      /\ Sent(w)' = Settled(w) \/ (Sent(w)' = Settled(w) \cup {j} /\ ~Pushing(w)')
  BY <1>2, <1>3 DEF Sent, Succeeds, InHand, Settled, Unsettled, Pushing
<1>6. SentInOrder'
  <2>1. ASSUME NEW i \in Sent(w)', NEW k \in held[w] \ Sent(w)' PROVE Created(i) <= Created(k)
    <3>1. k \in Unsettled(w)
      BY <1>5, <2>1 DEF Unsettled
    <3>2. CASE i = j
      BY <1>3, <3>1, <3>2
    <3>3. CASE i # j
      BY <1>4, <1>5, <2>1, <3>3 DEF Batches, SentInOrder
    <3> QED BY <3>2, <3>3
  <2>2. \A k \in Unsettled(w)' : Created(cur'[w]) <= Created(k)
    BY <1>2, <1>3, <1>5
  <2> QED BY <1>1, <1>2, <2>1, <2>2 DEF SentInOrder
<1>7. SentContent'
  BY <1>1, <1>2, <1>4, <1>5 DEF Batches, SentContent, Known
<1> QED BY <1>6, <1>7 DEF Batches

(* Recording an outcome says nothing new about what was sent.               *)
LEMMA RecordBatches ==
  ASSUME IInv, Batches, Alone, NEW w \in Workers, Record(w)
  PROVE  Batches'
<1>1. \A v \in Workers : v = w
  BY DEF Alone, Serial
<1>2. /\ UNCHANGED <<held, remote, payload>>
      /\ phase[w] \in {"accepted", "refused"} /\ phase'[w] = "next"
      /\ \/ phase[w] = "accepted" /\ done'[w] = done[w] \cup {cur[w]} /\ failed'[w] = failed[w]
         \/ phase[w] # "accepted" /\ failed'[w] = failed[w] \cup {cur[w]} /\ done'[w] = done[w]
  BY DEF Record, Succeeded, IInv, TypeOK
<1>3. cur[w] \in held[w]
  BY <1>2 DEF IInv, Locks, BatchInHand, Unsettled
<1>4. Sent(w)' = Sent(w) /\ Succeeds(w)' = Succeeds(w) /\ ~Pushing(w)'
  BY <1>2, <1>3 DEF Sent, Succeeds, InHand, Settled, Pushing
<1>5. SentInOrder'
  BY <1>1, <1>2, <1>4 DEF Batches, SentInOrder
<1>6. SentContent'
  BY <1>1, <1>2, <1>4 DEF Batches, SentContent, Known
<1> QED BY <1>5, <1>6 DEF Batches

(* A processed request makes its content the first account's, as the lookup *)
(* the request rests on still holds.                                        *)
LEMMA PushWrites ==
  ASSUME IInv, LookupHolds, Alone, NEW w \in Workers, NEW p \in {"accepted", "refused"}, Push(w, p)
  PROVE  /\ cur[w] \in Job
         /\ \A s \in Servers : remote'[s][UserOf(cur[w])][1] = payload[cur[w]]
         /\ \A s \in Servers, u \in Users : u # UserOf(cur[w]) => remote'[s][u] = remote[s][u]
<1> DEFINE r == RequestOf(w)
           u == UserOf(cur[w])
<1>1. r \in Request /\ cur[w] \in Job /\ Process(r)
  BY RequestType DEF Push, IInv, Locks
<1>2. r.job = cur[w] /\ r.server \in Servers /\ u \in Users /\ payload[cur[w]] \in 0..MaxVersion
  BY <1>1, JobParts DEF Request, RequestOf, IInv, TypeOK
<1>3. \A s \in Servers : s = r.server
  BY <1>2 DEF Alone
<1>4. remote[r.server][u] \in Seq(0..MaxVersion)
  BY <1>2 DEF IInv, TypeOK
<1>5. remote'[r.server][u] = IF r.verb = "POST" THEN Append(remote[r.server][u], payload[cur[w]])
                             ELSE [remote[r.server][u] EXCEPT ![1] = payload[cur[w]]]
  BY <1>1, <1>2 DEF Process, IInv, TypeOK
<1>6. remote'[r.server][u][1] = payload[cur[w]]
  <2>1. CASE r.verb = "POST"
    <3>1. remote[r.server][u] = <<>>
      BY <2>1 DEF LookupHolds, RequestOf, Verb, Known
    <3> QED BY <1>5, <2>1, <3>1
  <2>2. CASE r.verb # "POST"
    <3>1. remote[r.server][u] # <<>>
      BY <1>1, <1>2, <2>2 DEF Process, Accepts, Known
    <3> QED BY <1>4, <1>5, <2>2, <3>1
  <2> QED BY <2>1, <2>2
<1>7. \A s \in Servers, x \in Users : x # u => remote'[s][x] = remote[s][x]
  BY <1>1, <1>2 DEF Process, IInv, TypeOK
<1> QED BY <1>1, <1>3, <1>6, <1>7

(* The request that ends is newer than what its batch sent for the user.    *)
LEMMA PushBatches ==
  ASSUME IInv, Batches, LookupHolds, Alone, NEW w \in Workers,
         PushFails(w) \/ \E p \in {"accepted", "refused"} : Push(w, p)
  PROVE  Batches'
<1> DEFINE c == cur[w]
<1>1. \A v \in Workers : v = w
  BY DEF Alone, Serial
<1>2. /\ UNCHANGED <<held, cur, done, failed, payload>> /\ Pushing(w)
      /\ phase'[w] \in {"accepted", "refused"}
  BY DEF PushFails, Push, Answer, IInv, TypeOK
<1>3. c \in held[w] /\ c \notin Settled(w) /\ c \in Job
  BY <1>2, HeldJobs DEF IInv, Locks, BatchInHand, Unsettled, Pushing
<1>4. Sent(w) = Settled(w) /\ Succeeds(w) = done[w]
  BY <1>2 DEF Sent, Succeeds, InHand, Pushing
<1>5. /\ Sent(w)' = Sent(w) \cup {c} /\ ~Pushing(w)'
      /\ Succeeds(w)' = done[w] \cup (IF phase'[w] = "accepted" THEN {c} ELSE {})
  BY <1>2, <1>3, <1>4 DEF Sent, Succeeds, InHand, Settled, Pushing
<1>6. SentInOrder'
  <2>1. ASSUME NEW i \in Sent(w) \cup {c}, NEW k \in held[w] \ (Sent(w) \cup {c})
        PROVE  Created(i) <= Created(k)
    BY <1>2, <1>4, <2>1 DEF Batches, SentInOrder, Unsettled
  <2> QED BY <1>1, <1>2, <1>5, <2>1 DEF SentInOrder
<1>7. ASSUME NEW s \in Servers, NEW j \in Succeeds(w)', Known(s, UserOf(j))',
             \A k \in Sent(w)' : Same(k, j) => Created(k) <= Created(j)
      PROVE  remote'[s][UserOf(j)][1] = payload[j]
  <2>1. CASE j = c
    <3>1. phase'[w] = "accepted"
      BY <1>3, <1>5, <1>7, <2>1 DEF Settled
    <3>2. \E p \in {"accepted", "refused"} : Push(w, p)
      BY <3>1 DEF PushFails, Answer, IInv, TypeOK
    <3> QED BY <2>1, <3>2, PushWrites
  <2>2. CASE j # c
    <3>1. j \in Sent(w) /\ j \in Succeeds(w) /\ j \in Job
      BY <1>4, <1>5, <1>7, <2>2, HeldJobs
    <3>2. TargetOf(j) = TargetOf(c)
      BY <1>3, <3>1, JobParts DEF Alone
    <3>3. UserOf(j) # UserOf(c)
      <4>1. SUFFICES ASSUME UserOf(j) = UserOf(c) PROVE FALSE
        OBVIOUS
      <4>2. Created(c) <= Created(j)
        BY <1>5, <1>7, <3>2, <4>1 DEF Same
      <4>3. Created(j) <= Created(c)
        BY <1>3, <1>4, <3>1 DEF Batches, SentInOrder
      <4> QED BY <1>3, <2>2, <3>1, <3>2, <4>1, <4>2, <4>3, JobParts, SameJob DEF Same
    <3>4. remote'[s][UserOf(j)] = remote[s][UserOf(j)]
      BY <1>3, <3>1, <3>3, JobParts, PushWrites DEF PushFails
    <3> QED BY <1>5, <1>7, <3>1, <3>4 DEF Batches, SentContent, Known
  <2> QED BY <2>1, <2>2
<1>8. SentContent'
  BY <1>1, <1>2, <1>7 DEF SentContent
<1> QED BY <1>6, <1>8 DEF Batches

(* While a user's row is in a batch, the queue is not done with the user.   *)
LEMMA PushContents ==
  ASSUME IInv, Contents, LookupHolds, Alone, NEW w \in Workers,
         NEW p \in {"accepted", "refused"}, Push(w, p)
  PROVE  Contents'
<1>1. UNCHANGED <<status, site, queue, payload, log, held, over>> /\ Pushing(w)
  BY DEF Push, Answer
<1>2. \A t \in Targets, u \in Users :
        /\ Enqueued(t, u)' = Enqueued(t, u) /\ Quiet(t, u)' = Quiet(t, u)
        /\ FirstTry(t, u)' = FirstTry(t, u)
  BY <1>1 DEF Enqueued, Offered, Quiet, Live, FirstTry
<1>3. InTurn'
  BY <1>1, <1>2 DEF Contents, InTurn, Before
<1>4. FirstTriesDeliver'
  <2> SUFFICES ASSUME NEW t \in Targets, NEW u \in Users, Quiet(t, u),
                      \A j \in Enqueued(t, u) : log[j] = <<"ok">>, Known(site[t], u)'
               PROVE  NotReplaced(t, u)'
    BY <1>1, <1>2 DEF FirstTriesDeliver, Known
  <2>1. cur[w] \in held[w] /\ cur[w] \in queue /\ cur[w] \in Job
    BY <1>1, HeldJobs DEF IInv, Locks, BatchInHand, Unsettled, Pushing
  <2>2. u # UserOf(cur[w])
    <3>1. TargetOf(cur[w]) = t /\ Offered(cur[w])
      BY <2>1, JobParts DEF Alone, IInv, Records, RowsKnown
    <3> QED BY <2>1, <3>1 DEF Quiet, Enqueued, JobsOf
  <2>3. site[t] \in Servers
    BY DEF IInv, TypeOK
  <2>4. remote'[site[t]][u] = remote[site[t]][u] /\ Known(site[t], u)
    <3>1. remote'[site[t]][u] = remote[site[t]][u]
      BY <2>2, <2>3, PushWrites
    <3> QED BY <1>1, <3>1 DEF Known
  <2>5. NotReplaced(t, u)
    BY <2>4 DEF Contents, FirstTriesDeliver
  <2> QED BY <1>1, <1>2, <2>4, <2>5 DEF NotReplaced, Before
<1> QED BY <1>3, <1>4 DEF Contents

(* The order of the natural numbers is well founded.                        *)
Less == {p \in Nat \X Nat : p[1] < p[2]}

LEMMA LessWellFounded == IsWellFoundedOn(Less, Nat)
<1>1. Less = OpToRel(<, Nat)
  BY Zenon DEF Less, OpToRel
<1> QED BY <1>1, NatLessThanWellFounded, Zenon

(* Of some jobs, one has the greatest number.                               *)
LEMMA NewestOf ==
  ASSUME NEW S, S \subseteq Job, S # {}
  PROVE  \E j \in S : \A k \in S : Created(k) <= Created(j)
<1> DEFINE Ages == {MaxResyncs - Created(j) : j \in S}
<1>1. \A j \in S : Created(j) \in Nat /\ MaxResyncs - Created(j) \in Nat
  BY JobParts
<1>2. PICK n \in Ages : \A m \in Ages : ~(<<m, n>> \in Less)
  <2>1. Ages \subseteq Nat /\ Ages # {}
    BY <1>1
  <2> HIDE DEF Ages
  <2> QED BY <2>1, LessWellFounded, WFMin, Zenon
<1>3. PICK j \in S : n = MaxResyncs - Created(j)
  BY <1>2
<1>4. ASSUME NEW k \in S PROVE Created(k) <= Created(j)
  <2>1. ~(<<MaxResyncs - Created(k), n>> \in Less)
    BY <1>2
  <2>2. <<MaxResyncs - Created(k), n>> \in Nat \X Nat
    BY <1>1, <1>3
  <2>3. ~(MaxResyncs - Created(k) < MaxResyncs - Created(j))
    BY <1>3, <2>1, <2>2 DEF Less
  <2> QED BY <1>1, <2>3
<1> QED BY <1>3, <1>4

(* The batch that ends takes a user's last rows, and the newest of them was *)
(* sent last.                                                               *)
LEMMA CommitContents ==
  ASSUME IInv, FirstTryInv, Alone, NEW w \in Workers, Commit(w)
  PROVE  Contents'
<1>1. \A v \in Workers : v = w
  BY DEF Alone, Serial
<1>2. UNCHANGED <<status, site, payload, remote, over>> /\ held'[w] = {}
  BY DEF Commit, Release, IInv, TypeOK
<1>3. /\ held[w] = done[w] \cup failed[w] /\ done[w] \cap failed[w] = {}
      /\ held[w] \subseteq queue /\ held[w] \subseteq Job
      /\ Succeeds(w) = done[w] /\ Sent(w) = held[w]
  BY HeldJobs
  DEF Commit, Unsettled, Settled, IInv, Locks, BatchInHand, Sent, Succeeds, InHand
<1>4. \A j \in Job : /\ log[j] \in Seq({"ok", "failed"})
                     /\ j \notin held[w] => log'[j] = log[j] /\ (j \in queue' <=> j \in queue)
                     /\ j \in done[w] => log'[j] = Append(log[j], "ok")
                     /\ j \in failed[w] => log'[j] = Append(log[j], "failed")
                     /\ j \in queue' => j \in queue
  BY <1>3 DEF Commit, Removed, IInv, TypeOK
<1>5. \A j \in held[w] : Len(log'[j]) = Len(log[j]) + 1 /\ log'[j] # <<>>
  BY <1>3, <1>4
<1>6. \A t \in Targets, u \in Users : Enqueued(t, u)' = Enqueued(t, u)
  BY <1>2 DEF Enqueued, Offered
<1>7. ASSUME NEW t \in Targets, NEW u \in Users, FirstTry(t, u)'
      PROVE  /\ FirstTry(t, u)
             /\ \A j \in Enqueued(t, u) : j \in held[w] => j \notin queue'
  <2>1. \A j \in Enqueued(t, u) : j \in held[w] => j \notin queue' /\ log[j] = <<>>
    <3> SUFFICES ASSUME NEW j \in Enqueued(t, u), j \in held[w]
                 PROVE  j \notin queue' /\ log[j] = <<>>
      OBVIOUS
    <3>1. j \notin queue' /\ Len(log'[j]) = 1
      BY <1>5, <1>6, <1>7 DEF FirstTry
    <3>2. log[j] \in Seq({"ok", "failed"})
      BY <1>3, <1>4
    <3>3. Len(log[j]) \in Nat
      BY <3>2, LenProperties
    <3>4. Len(log[j]) + 1 = 1
      BY <1>5, <3>1
    <3> QED BY <3>1, <3>2, <3>3, <3>4, EmptySeq
  <2>2. \A j \in Enqueued(t, u) :
          j \notin held[w] => log'[j] = log[j] /\ (j \in queue' <=> j \in queue)
    BY <1>4, EnqueuedJobs
  <2>3. FirstTry(t, u)
    BY <1>3, <1>6, <1>7, <2>1, <2>2 DEF FirstTry
  <2> QED BY <2>1, <2>3
<1>8. InTurn'
  <2> SUFFICES ASSUME NEW t \in Targets, NEW u \in Users, FirstTry(t, u)',
                      NEW j \in Enqueued(t, u), NEW k \in Enqueued(t, u), k \in queue'
               PROVE  j \notin queue' => ~Before(k, j)
    BY <1>1, <1>2, <1>6 DEF InTurn, Before
  <2>1. k \in queue /\ k \notin held[w]
    BY <1>4, <1>7, EnqueuedJobs
  <2>2. CASE j \in held[w]
    BY <1>7, <2>1, <2>2 DEF FirstTryInv, Contents, InTurn
  <2>3. CASE j \notin held[w]
    BY <1>4, <1>7, <2>1, <2>3, EnqueuedJobs DEF FirstTryInv, Contents, InTurn
  <2> QED BY <2>2, <2>3
<1>9. FirstTriesDeliver'
  <2> SUFFICES ASSUME NEW t \in Targets, NEW u \in Users, Quiet(t, u)',
                      \A j \in Enqueued(t, u) : log'[j] = <<"ok">>, Known(site[t], u)
               PROVE  NotReplaced(t, u)
    BY <1>2, <1>6 DEF FirstTriesDeliver, NotReplaced, Before, Known
  <2>1. FirstTry(t, u)' /\ FirstTry(t, u) /\ site[t] \in Servers
    <3>1. \A j \in Enqueued(t, u)' : j \notin queue' /\ log'[j] = <<"ok">>
      BY <1>6 DEF Quiet
    <3>2. Len(<<"ok">>) = 1
      OBVIOUS
    <3>3. FirstTry(t, u)'
      BY <3>1, <3>2 DEF FirstTry
    <3> QED BY <1>7, <3>3 DEF IInv, TypeOK
  <2>2. CASE \A k \in Enqueued(t, u) : k \notin held[w]
    <3>1. \A k \in Enqueued(t, u) : log'[k] = log[k] /\ (k \in queue' <=> k \in queue)
      BY <1>4, <2>2, EnqueuedJobs
    <3>2. Quiet(t, u) /\ \A k \in Enqueued(t, u) : log[k] = <<"ok">>
      BY <1>2, <1>6, <3>1 DEF Quiet, Live
    <3> QED BY <3>2 DEF FirstTryInv, Contents, FirstTriesDeliver
  <2>3. CASE \E k \in Enqueued(t, u) : k \in held[w]
    <3> DEFINE H == {k \in Enqueued(t, u) : k \in held[w]}
    <3>1. PICK j \in H : \A k \in H : Created(k) <= Created(j)
      <4>1. H \subseteq Job /\ H # {}
        BY <2>3, EnqueuedJobs
      <4> HIDE DEF H
      <4> QED BY <4>1, NewestOf
    <3>2. j \notin failed[w]
      <4> SUFFICES ASSUME j \in failed[w] PROVE FALSE
        OBVIOUS
      <4>1. log'[j] = Append(log[j], "failed") /\ log[j] \in Seq({"ok", "failed"})
        BY <1>4, EnqueuedJobs
      <4>2. log'[j][Len(log'[j])] = "failed"
        BY <4>1
      <4>3. log'[j] = <<"ok">>
        OBVIOUS
      <4> QED BY <4>2, <4>3
    <3>3. j \in Succeeds(w) /\ j \in Enqueued(t, u)
      BY <1>3, <3>2
    <3>4. \A i \in Sent(w) : Same(i, j) => Created(i) <= Created(j)
      <4> SUFFICES ASSUME NEW i \in held[w], Same(i, j) PROVE Created(i) <= Created(j)
        BY <1>3
      <4>1. i \in Job /\ Offered(i)
        BY <1>3 DEF IInv, Records, RowsKnown
      <4>2. i \in Enqueued(t, u)
        BY <3>3, <4>1, EnqueuedJobs DEF Enqueued, JobsOf, Same
      <4> QED BY <3>1, <4>2
    <3>5. remote[site[t]][u][1] = payload[j]
      BY <2>1, <3>3, <3>4, EnqueuedJobs DEF FirstTryInv, Batches, SentContent
    <3>6. ASSUME NEW k \in Enqueued(t, u) PROVE ~Before(j, k)
      <4>1. CASE k \in held[w]
        BY <3>1, <3>3, <4>1, EnqueuedJobs, BeforeIsOlder, JobParts
      <4>2. CASE k \notin held[w]
        <5>1. k \notin queue /\ j \in queue
          BY <1>3, <1>4, <1>6, <3>1, <4>2, EnqueuedJobs DEF Quiet
        <5> QED BY <2>1, <3>3, <5>1 DEF FirstTryInv, Contents, InTurn
      <4> QED BY <4>1, <4>2
    <3> QED BY <3>3, <3>5, <3>6 DEF NotReplaced
  <2> QED BY <2>2, <2>3
<1> QED BY <1>8, <1>9 DEF Contents

(* No DELETE begins, and a row waits only because it failed.                *)
LEMMA UndeletedStays ==
  ASSUME IInv, Alone, NothingDeleted, WaitsTried, [Next]_vars
  PROVE  NothingDeleted' /\ WaitsTried'
<1>1. ASSUME UNCHANGED <<deleting, doomed, attempts>>, waiting' \subseteq waiting
      PROVE  NothingDeleted' /\ WaitsTried'
  BY <1>1 DEF NothingDeleted, WaitsTried
<1>2. ASSUME NEW t \in Targets, Console(t) PROVE NothingDeleted' /\ WaitsTried'
  BY <1>1, <1>2
  DEF Console, HandleCreate, HandleUpdate, OperatorToggle, DeleteBegin, DeleteCommit, DeleteFails,
      HandleResync, InsertRows, EnqueueAll, EnqueueRefused, EnqueueFails, Withdraw, Alone, NothingDeleted
<1>3. ASSUME NEW w \in Workers, Commit(w) PROVE NothingDeleted' /\ WaitsTried'
  <2>1. NothingDeleted'
    BY <1>3 DEF Commit, NothingDeleted
  <2>2. \A j \in Job : /\ attempts[j] \in Nat
                       /\ j \in Kept(w) => attempts'[j] = attempts[j] + 1
                       /\ j \notin Kept(w) => attempts'[j] = attempts[j]
    BY <1>3 DEF Commit, IInv, TypeOK
  <2>3. waiting' = waiting \cup Kept(w) /\ waiting \subseteq Job /\ Kept(w) \subseteq Job
    BY <1>3 DEF Commit, Kept, IInv, TypeOK
  <2>4. WaitsTried'
    BY <2>2, <2>3 DEF WaitsTried
  <2> QED BY <2>1, <2>4
<1>4. ASSUME NEW w \in Workers, Drain(w) \/ Crash(w) PROVE NothingDeleted' /\ WaitsTried'
  BY <1>1, <1>3, <1>4
  DEF Drain, Claim, ClaimNothing, vars, Lookup, LookupFails, Push, PushFails, PushTimesOut, Record,
      DeadlockVictim, Crash
<1>5. CASE Core \/ Remote
  BY <1>1, <1>5 DEF Core, Join, Leave, Rename, Remote, ApplyLate, DropLate, RemoteDelete
<1>6. CASE (\E j \in waiting : BackoffElapses(j)) \/ (\E j \in queue : CascadeRow(j))
  BY <1>1, <1>6 DEF BackoffElapses, CascadeRow, NothingDeleted
<1>7. CASE UNCHANGED vars
  BY <1>1, <1>7 DEF vars
<1> QED BY <1>2, <1>4, <1>5, <1>6, <1>7 DEF Next

LEMMA DrainFirstTry ==
  ASSUME IInv, FirstTryInv, Alone, NEW w \in Workers, Drain(w) \/ Crash(w)
  PROVE  Batches' /\ Contents'
<1>1. Batches /\ Contents /\ LookupHolds
  BY DEF FirstTryInv
<1>2. ASSUME NEW B \in SUBSET Claimable, Claim(w, B) PROVE Batches' /\ Contents'
  BY <1>2, ClaimFirstTry DEF FirstTryInv
<1>3. ASSUME NEW j \in Unsettled(w), Lookup(w, j) \/ LookupFails(w, j) PROVE Batches' /\ Contents'
  <2>1. Contents'
    BY <1>1, <1>3, ContentsFrame DEF Lookup, LookupFails, Send
  <2> QED BY <1>1, <1>3, <2>1, SendBatches
<1>4. ASSUME NEW p \in {"accepted", "refused"}, Push(w, p) PROVE Batches' /\ Contents'
  BY <1>1, <1>4, PushBatches, PushContents
<1>5. CASE PushFails(w)
  <2>1. Contents'
    BY <1>1, <1>5, ContentsFrame DEF PushFails, Answer
  <2> QED BY <1>1, <1>5, <2>1, PushBatches
<1>6. ~PushTimesOut(w)
  BY DEF PushTimesOut, Alone, Serial
<1>7. CASE Record(w)
  <2>1. Contents'
    BY <1>1, <1>7, ContentsFrame DEF Record
  <2> QED BY <1>1, <1>7, <2>1, RecordBatches
<1>8. CASE Commit(w)
  BY <1>8, ReleaseBatches, CommitContents DEF Commit
<1>9. CASE DeadlockVictim(w) \/ Crash(w)
  <2>1. Batches' /\ held'[w] = {} /\ \A v \in Workers : v = w
    BY <1>9, ReleaseBatches DEF DeadlockVictim, Crash
  <2>2. Contents'
    BY <1>1, <1>9, <2>1, ContentsFrame DEF DeadlockVictim, Crash
  <2> QED BY <2>1, <2>2
<1>10. CASE ClaimNothing(w)
  <2>1. Batches'
    BY <1>1, <1>10, BatchesFrame DEF ClaimNothing, vars
  <2>2. Contents'
    BY <1>1, <1>10, ContentsFrame DEF ClaimNothing, vars
  <2> QED BY <2>1, <2>2
<1> QED BY <1>2, <1>3, <1>4, <1>5, <1>6, <1>7, <1>8, <1>9, <1>10 DEF Drain

LEMMA ConsoleFirstTry ==
  ASSUME IInv, FirstTryInv, Alone, NEW t \in Targets, Console(t)
  PROVE  Batches' /\ Contents'
<1>1. Batches /\ Contents
  BY DEF FirstTryInv
<1>2. UNCHANGED <<workerVars, remote>>
  BY DEF Console, HandleCreate, HandleUpdate, OperatorToggle, DeleteBegin, DeleteCommit,
         DeleteFails, HandleResync, InsertRows, EnqueueAll, EnqueueRefused, EnqueueFails, Withdraw
<1>3. \A j \in Job : Offered(j) => payload'[j] = payload[j]
  <2>1. ASSUME NEW r \in 1..MaxResyncs, EnqueueAll(r, t)
        PROVE  \A j \in Job : Offered(j) => payload'[j] = payload[j]
    BY <2>1, EnqueueAllAdds
  <2> QED BY <2>1
      DEF Console, HandleCreate, HandleUpdate, OperatorToggle, DeleteBegin, DeleteCommit,
          DeleteFails, HandleResync, InsertRows, EnqueueRefused, EnqueueFails, Withdraw
<1>4. Batches'
  BY <1>1, <1>2, <1>3, BatchesFrame
<1>5. ASSUME NEW s \in Servers, HandleCreate(t, s) PROVE Contents'
  BY <1>1, <1>5, HandleCreateContents
<1>6. ASSUME NEW r \in 1..MaxResyncs, EnqueueAll(r, t) PROVE Contents'
  BY <1>1, <1>6, EnqueueAllContents
<1>7. ~\E s \in Servers : HandleUpdate(t, s)
  BY DEF HandleUpdate, Alone, IInv, TypeOK
<1>8. ~DeleteBegin(t) /\ ~DeleteCommit(t) /\ ~DeleteFails(t)
  BY DEF DeleteBegin, DeleteCommit, DeleteFails, Alone, FirstTryInv, NothingDeleted
<1>9. CASE \/ OperatorToggle(t) \/ HandleResync(t)
           \/ \E r \in 1..MaxResyncs :
                InsertRows(r, t) \/ EnqueueRefused(r, t) \/ EnqueueFails(r, t)
  <2>1. UNCHANGED <<status, site, queueVars, remote, held, over>>
    BY <1>9 DEF OperatorToggle, HandleResync, InsertRows, EnqueueRefused, EnqueueFails, Withdraw
  <2>2. Contents'
    BY <1>1, <2>1, ContentsFrame
  <2> QED BY <1>4, <2>2
<1> QED BY <1>4, <1>5, <1>6, <1>7, <1>8, <1>9 DEF Console

LEMMA InitFirstTryInv == Init => FirstTryInv
<1> SUFFICES ASSUME Init PROVE FirstTryInv
  OBVIOUS
<1>1. \A w \in Workers : Sent(w) = {} /\ Succeeds(w) = {} /\ ~Pushing(w) /\ held[w] = {}
  BY DEF Init, Sent, Succeeds, InHand, Settled, Pushing
<1>2. \A t \in Targets, u \in Users : Enqueued(t, u) = {}
  BY DEF Init, Enqueued, JobsOf, Offered
<1>3. NothingDeleted /\ WaitsTried /\ LookupHolds
  BY DEF Init, NothingDeleted, WaitsTried, LookupHolds
<1>4. Batches
  BY <1>1 DEF Batches, SentInOrder, SentContent
<1>5. Contents
  BY <1>2 DEF Contents, InTurn, FirstTriesDeliver, Quiet
<1> QED BY <1>3, <1>4, <1>5 DEF FirstTryInv

LEMMA NextFirstTryInv ==
  ASSUME IInv, FirstTryInv, Alone, [Next]_vars
  PROVE  FirstTryInv'
<1> DEFINE Rest == /\ UNCHANGED <<status, site, queue, payload, log, over, workerVars>>
                   /\ \A s \in Servers, u \in Users : Known(s, u)' => remote'[s][u] = remote[s][u]
<1>1. NothingDeleted' /\ WaitsTried' /\ LookupHolds'
  BY UndeletedStays, LookupStays DEF FirstTryInv, Alone
<1>2. Batches' /\ Contents'
  <2>1. ASSUME Rest PROVE Batches' /\ Contents'
    <3>1. Batches'
      BY <2>1, BatchesFrame DEF FirstTryInv
    <3>2. Contents'
      BY <2>1, ContentsFrame DEF FirstTryInv
    <3> QED BY <3>1, <3>2
  <2>2. CASE UNCHANGED vars
    BY <2>1, <2>2 DEF vars
  <2>3. CASE \E t \in Targets : Console(t)
    BY <2>3, ConsoleFirstTry
  <2>4. CASE \E w \in Workers : Drain(w) \/ Crash(w)
    BY <2>4, DrainFirstTry
  <2>5. CASE Core
    BY <2>1, <2>5 DEF Core, Join, Leave, Rename
  <2>6. CASE Remote
    <3>1. late = {}
      BY DEF FirstTryInv, LookupHolds
    <3>2. ASSUME NEW s \in Servers, NEW u \in Users, RemoteDelete(s, u) PROVE Rest
      BY <3>2 DEF RemoteDelete, Known, IInv, TypeOK
    <3> QED BY <2>1, <2>6, <3>1, <3>2 DEF Remote
  <2>7. CASE (\E j \in waiting : BackoffElapses(j)) \/ (\E j \in queue : CascadeRow(j))
    BY <2>1, <2>7 DEF BackoffElapses, CascadeRow
  <2> QED BY <2>2, <2>3, <2>4, <2>5, <2>6, <2>7 DEF Next
<1> QED BY <1>1, <1>2 DEF FirstTryInv

(* With one replica and one target, once nothing is queued for a user whose *)
(* jobs were all delivered at the first try, the target does not hold the   *)
(* content of a resynchronisation that was over before another started: the *)
(* claim by created_at, and a replayed batch, keep the newer content last,  *)
(* whatever crashes or overlaps and however many users and                  *)
(* resynchronisations there are.                                            *)
THEOREM NewestContent ==
  ASSUME Alone
  PROVE  Spec => []FirstTriesDeliver
<1>1. IInv /\ FirstTryInv /\ [Next]_vars => FirstTryInv'
  BY NextFirstTryInv
<1>2. FirstTryInv => FirstTriesDeliver
  BY DEF FirstTryInv, Contents
<1> QED BY <1>1, <1>2, InitFirstTryInv, Invariance, PTL DEF Spec
=============================================================================
