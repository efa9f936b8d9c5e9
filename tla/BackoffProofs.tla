----------------------------- MODULE BackoffProofs -----------------------------
(***************************************************************************)
(* Backoff, proved for any number of jobs, workers, attempts and minutes.  *)
(***************************************************************************)
EXTENDS Backoff, FiniteSetTheorems, WellFoundedInduction, TLAPS

USE JobAssumption, AttemptAssumption, BoundAssumption
USE DEF rowVars, workVars, historyVars

(***************************************************************************)
(* The delay                                                               *)
(***************************************************************************)
(* The shift is in range whatever the column holds. *)
LEMMA ShiftInRange ==
  ASSUME NEW a \in Int
  PROVE  /\ Shift(a) \in 0..MaxAttempts /\ Minutes[Shift(a)] \in Nat
         /\ a <= 0 => Shift(a) = 0
         /\ 0 <= a /\ a <= MaxAttempts => Shift(a) = a
<1>1. /\ Shift(a) \in 0..MaxAttempts
      /\ a <= 0 => Shift(a) = 0
      /\ 0 <= a /\ a <= MaxAttempts => Shift(a) = a
  BY DEF Shift
<1> QED BY <1>1, DoublingAssumption

(* Waiting d after e minutes of backoff: one more delay makes it one minute  *)
(* short of the next one.                                                    *)
LEMMA Doubles ==
  ASSUME NEW a \in Int, a <= MaxAttempts, NEW e \in Int, NEW d \in Int,
         e >= Minutes[Shift(a - 1)] - 1, d >= Minutes[Shift(a - 1)]
  PROVE  e + d >= Minutes[Shift(a)] - 1
<1>1. a - 1 \in Int
  OBVIOUS
<1>2. Minutes[Shift(a - 1)] \in Nat /\ Minutes[Shift(a)] \in Nat
  BY <1>1, ShiftInRange
<1>3. CASE a <= 0
  <2>1. Shift(a) = 0 /\ Shift(a - 1) = 0
    BY <1>1, <1>3, ShiftInRange
  <2>2. Minutes[0] = 1
    BY DoublingAssumption
  <2> QED BY <2>1, <2>2
<1>4. CASE a >= 1
  <2>1. Shift(a) = a /\ Shift(a - 1) = a - 1
    BY <1>1, <1>4, ShiftInRange
  <2>2. Minutes[a] = 2 * Minutes[a - 1]
    BY <1>4, DoublingAssumption
  <2> QED BY <1>2, <2>1, <2>2
<1> QED BY <1>3, <1>4

(***************************************************************************)
(* Steps that record no attempt                                            *)
(***************************************************************************)
LEMMA InitIInv == Init => IInv
<1> SUFFICES ASSUME Init PROVE IInv
  OBVIOUS
<1>1. TypeOK
  BY DEF Init, TypeOK
<1>2. TriesSpread /\ OneHolder /\ Holding /\ Paced /\ Known /\ Over
  BY DEF Init, TriesSpread, OneHolder, Holding, Paced, Known, Over
<1> QED BY <1>1, <1>2 DEF IInv

LEMMA TickStep ==
  ASSUME IInv, Tick \/ UNCHANGED vars
  PROVE  IInv'
<1>1. UNCHANGED <<rowVars, workVars, historyVars, spent>> /\ now' \in 0..Horizon
  BY DEF IInv, TypeOK, Tick, vars
<1>2. TypeOK'
  BY <1>1 DEF IInv, TypeOK
<1>3. TriesSpread' /\ OneHolder' /\ Holding'
  BY <1>1 DEF IInv, TriesSpread, OneHolder, Holding
<1>4. Paced' /\ Known' /\ Over'
  BY <1>1 DEF IInv, Paced, Pace, Known, Over
<1> QED BY <1>2, <1>3, <1>4 DEF IInv

LEMMA EnqueueStep ==
  ASSUME IInv, NEW j \in Jobs, NEW a \in Counts, Enqueue(j, a)
  PROVE  IInv'
<1>1. TypeOK'
  BY DEF IInv, TypeOK, Enqueue
<1>2. /\ j \notin queue /\ j \notin gaveUp /\ tried[j] = 0
      /\ \A w \in Workers : j \notin held[w]
  BY DEF IInv, Known, Over, Holding, Enqueue, TypeOK
<1>3. \A i \in Jobs : i # j => attempts'[i] = attempts[i] /\ due'[i] = due[i] /\ born'[i] = born[i]
  BY DEF IInv, TypeOK, Enqueue
<1>4. TriesSpread' /\ OneHolder' /\ Holding'
  BY <1>2, <1>3 DEF IInv, TypeOK, TriesSpread, OneHolder, Holding, Enqueue
<1>5. Known' /\ Over'
  BY <1>2 DEF IInv, Known, Over, Enqueue
<1>6. Paced'
  <2>1. Pace(j)'
    BY <1>2 DEF IInv, TypeOK, Pace, Enqueue
  <2>2. ASSUME NEW i \in queue PROVE Pace(i)'
    BY <1>2, <1>3, <2>2 DEF IInv, TypeOK, Paced, Pace, Enqueue
  <2> QED BY <2>1, <2>2 DEF Paced, Enqueue
<1> QED BY <1>1, <1>4, <1>5, <1>6 DEF IInv

LEMMA ClaimStep ==
  ASSUME IInv, NEW w \in Workers, Claim(w) \/ Dies(w)
  PROVE  IInv'
<1>1. UNCHANGED <<rowVars, seen, born, gaveUp, tried, first, last>>
  BY DEF Claim, Dies
<1>10. Oldest(Claimable) \in SUBSET Claimable
  BY DEF Oldest
<1>2. held'[w] \in SUBSET Claimable /\ (held'[w] # {} => start'[w] = now)
  BY <1>10 DEF Claim, Dies, IInv, TypeOK
<1>3. \A v \in Workers : v # w => held'[v] = held[v] /\ start'[v] = start[v]
  BY DEF Claim, Dies, IInv, TypeOK
<1>4. Claimable \subseteq queue
  BY DEF Claimable
<1>5. TypeOK'
  <2>1. CASE Claim(w)
    <3>1. passed' \in [Jobs -> Nat]
      BY <2>1 DEF Claim, IInv, TypeOK
    <3>2. held' \in [Workers -> SUBSET Jobs] /\ start' \in [Workers -> Nat]
      <4>1. Oldest(Claimable) \in SUBSET Jobs /\ now \in Nat
        <5>1. queue \in SUBSET Jobs /\ now \in Nat
          BY DEF IInv, TypeOK
        <5> QED BY <1>4, <1>10, <5>1
      <4> QED BY <2>1, <4>1 DEF Claim, IInv, TypeOK
    <3> QED BY <2>1, <3>1, <3>2 DEF Claim, IInv, TypeOK
  <2>2. CASE Dies(w)
    BY <2>2 DEF Dies, IInv, TypeOK
  <2> QED BY <2>1, <2>2
<1>6. OneHolder'
  BY <1>2, <1>3 DEF IInv, OneHolder, Claimable, Busy
<1>7. Holding'
  BY <1>1, <1>2, <1>3 DEF IInv, Holding, Claimable
<1>8. TriesSpread' /\ Known' /\ Over'
  BY <1>1 DEF IInv, TriesSpread, Known, Over
<1>9. Paced'
  BY <1>1 DEF IInv, Paced, Pace
<1> QED BY <1>5, <1>6, <1>7, <1>8, <1>9 DEF IInv

(***************************************************************************)
(* A batch is committed                                                    *)
(***************************************************************************)
(* An attempt that failed: it was due, so the backoff so far and one more    *)
(* delay lie between the first attempt and this one.                         *)
LEMMA FailedAttempt ==
  ASSUME IInv, NEW w \in Workers, NEW D \in SUBSET held[w], Commit(w, D), NEW j \in Failed(w, D)
  PROVE  /\ j \in Jobs /\ tried'[j] = tried[j] + 1 /\ last'[j] = start[w]
         /\ tried[j] > 0 => last'[j] - last[j] >= Minutes[Shift(attempts[j] - 1)]
         /\ born[j] <= 0 => last'[j] - first'[j] >= Minutes[Shift(attempts[j])] - 1
<1>1. j \in Jobs /\ j \in held[w] /\ j \in queue /\ due[j] <= start[w] /\ Pace(j)
  BY DEF Failed, IInv, TypeOK, Holding, Paced
<1>2. /\ tried'[j] = tried[j] + 1 /\ last'[j] = start[w]
      /\ tried[j] = 0 => first'[j] = start[w]
      /\ tried[j] # 0 => first'[j] = first[j]
  BY <1>1 DEF Commit
<1>3. /\ start[w] \in Nat /\ due[j] \in Nat /\ attempts[j] \in Int /\ born[j] \in Int
      /\ tried[j] \in Nat /\ last[j] \in Nat /\ first[j] \in Nat /\ attempts[j] - 1 \in Int
  BY <1>1 DEF IInv, TypeOK
<1>4. Minutes[Shift(attempts[j] - 1)] \in Nat
  BY <1>3, ShiftInRange
<1>5. tried[j] > 0 => last'[j] - last[j] >= Minutes[Shift(attempts[j] - 1)]
  BY <1>1, <1>2, <1>3, <1>4 DEF Pace
<1>6. ASSUME born[j] <= 0 PROVE last'[j] - first'[j] >= Minutes[Shift(attempts[j])] - 1
  <2>1. CASE tried[j] = 0
    <3>1. attempts[j] <= 0 /\ last'[j] - first'[j] = 0
      BY <1>1, <1>2, <1>3, <1>6, <2>1 DEF Pace
    <3>2. Shift(attempts[j]) = 0
      BY <1>3, <3>1, ShiftInRange
    <3>3. Minutes[0] = 1
      BY DoublingAssumption
    <3> QED BY <3>1, <3>2, <3>3
  <2>2. CASE tried[j] # 0
    <3>1. last[j] - first[j] >= Minutes[Shift(attempts[j] - 1)] - 1
      BY <1>1, <1>3, <1>6, <2>2 DEF Pace
    <3>2. attempts[j] <= MaxAttempts
      BY <1>1, <1>3, <1>6 DEF Pace
    <3>3. last[j] - first[j] \in Int /\ last'[j] - last[j] \in Int
      BY <1>2, <1>3
    <3>4. (last[j] - first[j]) + (last'[j] - last[j]) >= Minutes[Shift(attempts[j])] - 1
      BY <1>3, <1>5, <2>2, <3>1, <3>2, <3>3, Doubles
    <3>5. Minutes[Shift(attempts[j])] \in Nat
      BY <1>3, ShiftInRange
    <3> QED BY <1>2, <1>3, <2>2, <3>4, <3>5
  <2> QED BY <2>1, <2>2
<1> QED BY <1>1, <1>2, <1>5, <1>6

LEMMA CommitStep ==
  ASSUME IInv, NEW w \in Workers, NEW D \in SUBSET held[w], Commit(w, D)
  PROVE  IInv'
<1> USE DEF Failed, Dropped, Postponed
<1>1. /\ held[w] \in SUBSET Jobs /\ held[w] \subseteq queue /\ start[w] \in Nat
      /\ UNCHANGED <<now, seen, born, passed, spent>>
  BY DEF IInv, TypeOK, Holding, Commit
<1>2. \A j \in Jobs : Minutes[Shift(attempts[j])] \in Nat
  BY ShiftInRange DEF IInv, TypeOK
<1>3. \A j \in Jobs \ Failed(w, D) :
        /\ attempts'[j] = attempts[j] /\ due'[j] = due[j] /\ tried'[j] = tried[j]
        /\ first'[j] = first[j] /\ last'[j] = last[j]
  BY DEF Commit
<1>4. \A j \in Postponed(w, D) :
        attempts'[j] = attempts[j] + 1 /\ due'[j] = start[w] + Minutes[Shift(attempts[j])]
  BY <1>1 DEF Commit, NextAttempt
<1>5. TypeOK'
  <2>1. attempts' \in [Jobs -> Int]
    BY DEF IInv, TypeOK, Commit
  <2>2. due' \in [Jobs -> Nat]
    BY <1>1, <1>2 DEF IInv, TypeOK, Commit, NextAttempt
  <2>3. tried' \in [Jobs -> Nat] /\ first' \in [Jobs -> Nat] /\ last' \in [Jobs -> Nat]
    BY <1>1 DEF IInv, TypeOK, Commit
  <2>4. /\ queue' \in SUBSET Jobs /\ gaveUp' \in SUBSET Jobs
        /\ held' \in [Workers -> SUBSET Jobs] /\ start' \in [Workers -> Nat]
    BY <1>1 DEF IInv, TypeOK, Commit
  <2> QED BY <1>1, <2>1, <2>2, <2>3, <2>4 DEF IInv, TypeOK
<1>6. \A v \in Workers : v # w =>
        held'[v] = held[v] /\ start'[v] = start[v] /\ held[v] \cap held[w] = {}
  BY DEF Commit, IInv, TypeOK, OneHolder
<1>7. held'[w] = {}
  BY DEF Commit, IInv, TypeOK
<1>8. OneHolder' /\ Holding'
  <2>1. OneHolder'
    BY <1>6, <1>7 DEF IInv, OneHolder
  <2>2. ASSUME NEW v \in Workers, NEW j \in held'[v] PROVE j \in queue' /\ due'[j] <= start'[v]
    <3>1. v # w /\ j \in held[v] /\ j \notin held[w] /\ j \in Jobs
      BY <1>6, <1>7, <2>2 DEF IInv, TypeOK
    <3>2. j \in queue'
      BY <3>1 DEF Commit, IInv, Holding
    <3> QED BY <1>3, <1>6, <3>1, <3>2 DEF IInv, Holding
  <2> QED BY <2>1, <2>2 DEF Holding
<1>9. Known' /\ Over'
  BY <1>1, <1>3 DEF Commit, IInv, TypeOK, Known, Over
<1>10. Paced'
  <2>1. ASSUME NEW j \in queue', j \notin Failed(w, D) PROVE Pace(j)'
    <3>1. j \in queue /\ j \in Jobs
      BY <2>1 DEF Commit, IInv, TypeOK
    <3> QED BY <1>1, <1>3, <2>1, <3>1 DEF IInv, Paced, Pace
  <2>2. ASSUME NEW j \in queue', j \in Failed(w, D) PROVE Pace(j)'
    <3>1. j \in Postponed(w, D) /\ j \in Jobs /\ Pace(j)
      BY <1>1, <2>2 DEF Commit, IInv, Paced
    <3>2. /\ attempts'[j] = attempts[j] + 1 /\ due'[j] = start[w] + Minutes[Shift(attempts[j])]
          /\ tried'[j] = tried[j] + 1 /\ last'[j] = start[w] /\ born'[j] = born[j]
          /\ born[j] <= 0 => last'[j] - first'[j] >= Minutes[Shift(attempts[j])] - 1
      BY <1>1, <1>4, <2>2, <3>1, FailedAttempt
    <3>3. attempts[j] \in Int /\ born[j] \in Int /\ tried[j] \in Nat /\ ~GivesUp(j)
      BY <3>1 DEF IInv, TypeOK
    <3>4. attempts'[j] - 1 = attempts[j]
      BY <3>2, <3>3
    <3>5. attempts'[j] = born'[j] + tried'[j] /\ attempts'[j] < MaxAttempts
      <4>1. attempts[j] = born[j] + tried[j]
        BY <3>1 DEF Pace
      <4>2. attempts[j] + 1 < MaxAttempts
        BY <3>3 DEF GivesUp
      <4> QED BY <3>2, <3>3, <4>1, <4>2
    <3>6. due'[j] >= last'[j] + Minutes[Shift(attempts'[j] - 1)]
      <4>1. Minutes[Shift(attempts[j])] \in Nat
        BY <1>2, <3>1
      <4>2. due'[j] >= last'[j] + Minutes[Shift(attempts[j])]
        BY <1>1, <3>2, <4>1
      <4> QED BY <3>4, <4>2
    <3>7. born'[j] <= 0 => last'[j] - first'[j] >= Minutes[Shift(attempts'[j] - 1)] - 1
      BY <3>2, <3>4
    <3> QED BY <3>5, <3>6, <3>7 DEF Pace, Shift
  <2> QED BY <2>1, <2>2 DEF Paced
<1>11. TriesSpread'
  <2>1. ASSUME NEW j \in gaveUp, born'[j] <= 0
        PROVE  tried'[j] >= MaxAttempts /\ last'[j] - first'[j] >= Minutes[MaxAttempts - 1] - 1
    <3>1. j \in Jobs \ Failed(w, D)
      BY <1>1, <2>1 DEF IInv, TypeOK, Over
    <3> QED BY <1>1, <1>3, <2>1, <3>1 DEF IInv, TriesSpread
  <2>2. ASSUME NEW j \in Dropped(w, D), born'[j] <= 0
        PROVE  tried'[j] >= MaxAttempts /\ last'[j] - first'[j] >= Minutes[MaxAttempts - 1] - 1
    <3>1. j \in Failed(w, D) /\ j \in Jobs /\ Pace(j) /\ GivesUp(j) /\ born[j] <= 0
      BY <1>1, <2>2 DEF IInv, Paced
    <3>2. /\ attempts[j] \in Int /\ born[j] \in Int /\ tried[j] \in Nat
      BY <3>1 DEF IInv, TypeOK
    <3>3. attempts[j] = MaxAttempts - 1 /\ tried[j] + 1 >= MaxAttempts
      BY <3>1, <3>2 DEF Pace, GivesUp
    <3>4. Shift(MaxAttempts - 1) = MaxAttempts - 1
      BY ShiftInRange
    <3>5. tried'[j] = tried[j] + 1 /\ last'[j] - first'[j] >= Minutes[Shift(attempts[j])] - 1
      BY <3>1, FailedAttempt
    <3> QED BY <3>3, <3>4, <3>5
  <2>3. gaveUp' = gaveUp \cup Dropped(w, D)
    BY DEF Commit
  <2> QED BY <2>1, <2>2, <2>3 DEF TriesSpread
<1> QED BY <1>5, <1>8, <1>9, <1>10, <1>11 DEF IInv

LEMMA NextIInv == IInv /\ [Next]_vars => IInv'
  BY TickStep, EnqueueStep, ClaimStep, CommitStep DEF Next

(***************************************************************************)
(* Theorems                                                                *)
(***************************************************************************)
(* Whatever the column attempts held at the start, every count is a number   *)
(* and every next attempt a time of the clock.                               *)
THEOREM Typing == Spec => []TypeOK
<1>1. IInv => TypeOK
  BY DEF IInv
<1> QED BY <1>1, InitIInv, NextIInv, PTL DEF Spec

(* No job is dropped before MaxAttempts tries whose transactions started as  *)
(* far apart as the delays between them add up to.                           *)
THEOREM BackoffSpreads == Spec => []TriesSpread
<1>1. IInv => TriesSpread
  BY DEF IInv
<1> QED BY <1>1, InitIInv, NextIInv, PTL DEF Spec

(* Recorded attempts are apart by the doubling delay, for any number of      *)
(* workers and of transactions that die between them.                        *)
THEOREM BackoffKept == Spec => RetriesApart
<1> DEFINE Apart == \A j \in Jobs :
              0 < tried[j] /\ tried[j] < tried'[j] =>
                last'[j] - last[j] >= Minutes[Shift(attempts[j] - 1)]
<1>1. ASSUME IInv, NEW w \in Workers, NEW D \in SUBSET held[w], Commit(w, D) PROVE Apart
  <2>1. ASSUME NEW j \in Jobs, 0 < tried[j], tried[j] < tried'[j]
        PROVE  last'[j] - last[j] >= Minutes[Shift(attempts[j] - 1)]
    <3>1. tried[j] \in Nat
      BY <1>1 DEF IInv, TypeOK
    <3>2. j \in Failed(w, D)
      BY <1>1, <2>1, <3>1 DEF Commit
    <3> QED BY <1>1, <2>1, <3>1, <3>2, FailedAttempt
  <2> QED BY <2>1
<1>2. ASSUME IInv, UNCHANGED tried PROVE Apart
  <2>1. \A j \in Jobs : tried[j] \in Nat /\ tried'[j] = tried[j]
    BY <1>2 DEF IInv, TypeOK
  <2> QED BY <2>1
<1>3. IInv /\ [Next]_vars => [Apart]_vars
  BY <1>1, <1>2 DEF Next, Tick, Enqueue, Claim, Dies
<1> QED BY <1>3, InitIInv, NextIInv, PTL DEF Spec, RetriesApart

(***************************************************************************)
(* The head of the queue                                                   *)
(***************************************************************************)
LEMMA Least ==
  ASSUME NEW T \in SUBSET Nat, T # {}
  PROVE  \E x \in T : \A y \in T : x <= y
<1>1. PICK x \in T : \A y \in T : ~(<<y, x>> \in OpToRel(<, Nat))
  BY WFMin, NatLessThanWellFounded
<1>2. \A y \in T : ~(y < x)
  BY <1>1 DEF OpToRel
<1> QED BY <1>2

LEMMA Greatest ==
  ASSUME NEW T \in SUBSET Nat, IsFiniteSet(T), T # {}
  PROVE  \E x \in T : \A y \in T : y <= x
<1> DEFINE below(x) == {i \in T : i < x}
           above(x) == Cardinality(T) - Cardinality(below(x))
<1>1. \A x \in T : IsFiniteSet(below(x)) /\ Cardinality(below(x)) \in Nat /\ above(x) \in Nat
  <2> SUFFICES ASSUME NEW x \in T
               PROVE  IsFiniteSet(below(x)) /\ Cardinality(below(x)) \in Nat /\ above(x) \in Nat
    OBVIOUS
  <2>1. IsFiniteSet(below(x)) /\ Cardinality(below(x)) <= Cardinality(T)
    BY FS_Subset
  <2>2. Cardinality(below(x)) \in Nat /\ Cardinality(T) \in Nat
    BY <2>1, FS_CardinalityType
  <2> QED BY <2>1, <2>2
<1>2. PICK x \in T : \A y \in T : above(x) <= above(y)
  <2> DEFINE R == {above(x) : x \in T}
  <2>1. R \in SUBSET Nat /\ R # {}
    BY <1>1
  <2>2. PICK r \in R : \A q \in R : r <= q
    BY <2>1, Least
  <2> QED BY <2>2
<1>3. ASSUME NEW y \in T, x < y PROVE FALSE
  <2>1. below(x) \cup {x} \in SUBSET below(y)
    <3>1. \A i \in below(x) \cup {x} : i \in T /\ i < y
      BY <1>3
    <3> QED BY <3>1
  <2>2. Cardinality(below(x) \cup {x}) = Cardinality(below(x)) + 1
    <3>1. x \in Nat /\ ~(x < x)
      OBVIOUS
    <3>2. x \notin below(x)
      BY <3>1
    <3> QED BY <1>1, <3>2, FS_AddElement
  <2>3. Cardinality(below(x) \cup {x}) <= Cardinality(below(y))
    BY <1>1, <2>1, FS_Subset
  <2>4. /\ Cardinality(T) \in Nat
        /\ Cardinality(below(x)) \in Nat /\ Cardinality(below(y)) \in Nat
    BY <1>1, FS_CardinalityType
  <2>5. Cardinality(T) - Cardinality(below(x)) <= Cardinality(T) - Cardinality(below(y))
    BY <1>2
  <2> QED BY <2>2, <2>3, <2>4, <2>5
<1>4. \A y \in T : y \in Nat /\ x \in Nat
  OBVIOUS
<1> QED BY <1>3, <1>4

(* LIMIT: a claim takes no more than a batch. *)
LEMMA OldestAtMost ==
  ASSUME NEW S \in SUBSET Nat, IsFiniteSet(S)
  PROVE  Cardinality(Oldest(S)) \in Nat /\ Cardinality(Oldest(S)) <= Batch
<1> DEFINE O == Oldest(S)
<1>1. O \in SUBSET S /\ IsFiniteSet(O)
  <2>1. O \in SUBSET S
    BY DEF Oldest
  <2> QED BY <2>1, FS_Subset
<1>2. CASE O = {}
  BY <1>2, FS_EmptySet
<1>3. CASE O # {}
  <2>1. PICK x \in O : \A y \in O : y <= x
    BY <1>1, <1>3, Greatest
  <2> DEFINE B == {i \in S : i < x}
  <2>2. Cardinality(B) < Batch /\ IsFiniteSet(B)
    BY <2>1, FS_Subset DEF Oldest
  <2>3. O \ {x} \in SUBSET B
    <3>1. \A i \in O : i \in S /\ i \in Nat /\ i <= x
      BY <1>1, <2>1
    <3>2. \A i \in O \ {x} : i \in S /\ i < x
      BY <2>1, <3>1
    <3> QED BY <3>2
  <2>4. Cardinality(O \ {x}) <= Cardinality(B)
    BY <2>2, <2>3, FS_Subset
  <2>5. Cardinality(O \ {x}) = Cardinality(O) - 1
    BY <1>1, <2>1, FS_RemoveElement
  <2>6. Cardinality(O) \in Nat /\ Cardinality(B) \in Nat
    BY <1>1, <2>2, FS_CardinalityType
  <2> QED BY <2>2, <2>4, <2>5, <2>6
<1> QED BY <1>2, <1>3

(* ORDER BY: when a claim leaves a row, it takes a whole batch of older ones. *)
LEMMA OldestAhead ==
  ASSUME NEW S \in SUBSET Nat, IsFiniteSet(S), NEW j \in S \ Oldest(S)
  PROVE  /\ IsFiniteSet(Oldest(S)) /\ Batch <= Cardinality(Oldest(S))
         /\ \A i \in Oldest(S) : i < j
<1> DEFINE below(x) == {i \in S : i < x}
<1>1. \A x \in S : IsFiniteSet(below(x)) /\ Cardinality(below(x)) \in Nat
  BY FS_Subset, FS_CardinalityType
<1>2. Oldest(S) \in SUBSET S /\ IsFiniteSet(Oldest(S)) /\ Cardinality(Oldest(S)) \in Nat
  <2>1. Oldest(S) \in SUBSET S
    BY DEF Oldest
  <2> QED BY <2>1, FS_Subset, FS_CardinalityType
<1>3. \A x \in S : x \in Oldest(S) <=> Cardinality(below(x)) < Batch
  BY DEF Oldest
<1>4. ASSUME NEW i \in Oldest(S), ~(i < j) PROVE FALSE
  <2>1. below(j) \in SUBSET below(i) /\ i \in S
    <3>0. i \in S /\ j \in S /\ i \in Nat /\ j \in Nat
      BY <1>2
    <3>1. j <= i
      BY <1>4, <3>0
    <3>2. \A k \in below(j) : k \in S /\ k \in Nat /\ k < j
      OBVIOUS
    <3>3. \A k \in below(j) : k < i
      BY <3>0, <3>1, <3>2
    <3> QED BY <3>0, <3>2, <3>3
  <2>2. Cardinality(below(j)) <= Cardinality(below(i))
    BY <1>1, <2>1, FS_Subset
  <2> QED BY <1>1, <1>3, <2>1, <2>2
<1>5. Batch <= Cardinality(Oldest(S))
  <2>1. PICK k \in S \ Oldest(S) : \A y \in S \ Oldest(S) : k <= y
    BY Least
  <2>2. below(k) \in SUBSET Oldest(S)
    <3>1. \A i \in below(k) : i \in S /\ i < k /\ i \in Nat /\ k \in Nat
      BY <2>1
    <3>2. \A i \in below(k) : ~(k <= i)
      BY <3>1
    <3> QED BY <2>1, <3>1, <3>2
  <2>3. Cardinality(below(k)) <= Cardinality(Oldest(S))
    BY <1>2, <2>2, FS_Subset
  <2> QED BY <1>1, <1>2, <1>3, <2>1, <2>3
<1> QED BY <1>2, <1>4, <1>5

(***************************************************************************)
(* How often a due row is left                                             *)
(***************************************************************************)
(* An attempt on the job that no count shows: it is running, or it succeeded. *)
Begun(i) == i \in Busy \/ i \in seen \ (queue \cup gaveUp)

(* The attempts on a job so far, and those on the jobs older than j.        *)
Used(i) == IF Begun(i) THEN tried[i] + 1 ELSE tried[i]
Before(j) == {i \in Jobs : i < j}
Slots(j) == Before(j) \X (0..(MostTries - 1))
AttemptsBefore(j) == {p \in Slots(j) : p[2] < Used(p[1])}

(* A row that was tried is queued for as long as it has attempts left.      *)
TriesLeft ==
  /\ \A j \in queue : tried[j] > 0 => attempts[j] < MaxAttempts
  /\ \A j \in seen : born[j] \in Counts

BatchBound == \A w \in Workers : Cardinality(held[w]) <= Batch

(* Each claim that left j is paid for, by a batch of attempts on older jobs *)
(* or by a transaction that died.                                           *)
Charged ==
  \A j \in Jobs : Batch * passed[j] <= Cardinality(AttemptsBefore(j)) + Batch * spent

(* The inductive invariant of BoundedBypass.                                *)
BypassInv == TriesLeft /\ BatchBound /\ Charged

LEMMA MostTriesBound ==
  MostTries \in Nat \ {0} /\ \A b \in Counts : MaxAttempts - b <= MostTries
<1> DEFINE least == CHOOSE a \in Counts : \A b \in Counts : a <= b
<1>1. least \in Counts /\ \A b \in Counts : least <= b
  BY CountAssumption
<1>2. least \in Int /\ least <= 0
  BY <1>1, CountAssumption
<1>3. MostTries = MaxAttempts - least
  BY DEF MostTries
<1>4. \A b \in Counts : b \in Int /\ least <= b
  BY <1>1
<1> HIDE DEF least
<1>5. MostTries \in Nat \ {0}
  BY <1>2, <1>3
<1>6. \A b \in Counts : MaxAttempts - b <= MostTries
  BY <1>2, <1>3, <1>4
<1> QED BY <1>5, <1>6

LEMMA SlotsBound ==
  ASSUME NEW j \in Jobs, NEW A \in SUBSET Slots(j)
  PROVE  /\ IsFiniteSet(A) /\ Cardinality(A) \in Nat
         /\ Older(j) \in Nat /\ Cardinality(A) <= Older(j) * MostTries
<1> DEFINE M == 0..(MostTries - 1)
<1>1. IsFiniteSet(Before(j)) /\ Cardinality(Before(j)) = Older(j)
  BY FS_Subset DEF Before, Older
<1>2. IsFiniteSet(M) /\ Cardinality(M) = MostTries
  BY MostTriesBound, FS_Interval
<1>3. IsFiniteSet(Slots(j)) /\ Cardinality(Slots(j)) = Older(j) * MostTries
  BY <1>1, <1>2, FS_Product DEF Slots
<1>4. IsFiniteSet(A) /\ Cardinality(A) <= Cardinality(Slots(j))
  BY <1>3, FS_Subset
<1> QED BY <1>1, <1>3, <1>4, FS_CardinalityType

LEMMA UnionBound ==
  ASSUME NEW S, NEW T, IsFiniteSet(S), IsFiniteSet(T)
  PROVE  /\ IsFiniteSet(S \cup T)
         /\ Cardinality(S \cup T) <= Cardinality(S) + Cardinality(T)
<1>1. S \cap T \in SUBSET S
  OBVIOUS
<1>2. Cardinality(S \cap T) \in Nat /\ Cardinality(S) \in Nat /\ Cardinality(T) \in Nat
  BY <1>1, FS_Subset, FS_CardinalityType
<1>3. /\ IsFiniteSet(S \cup T)
      /\ Cardinality(S \cup T) = Cardinality(S) + Cardinality(T) - Cardinality(S \cap T)
  BY FS_Union
<1> QED BY <1>2, <1>3

LEMMA AttemptsCount ==
  ASSUME NEW j \in Jobs
  PROVE  /\ IsFiniteSet(AttemptsBefore(j)) /\ Cardinality(AttemptsBefore(j)) \in Nat
         /\ IsFiniteSet(AttemptsBefore(j)') /\ Cardinality(AttemptsBefore(j)') \in Nat
<1>1. AttemptsBefore(j) \in SUBSET Slots(j) /\ AttemptsBefore(j)' \in SUBSET Slots(j)
  BY DEF AttemptsBefore, Slots, Before
<1> QED BY <1>1, SlotsBound

(* No job is tried more often than its count allows.                        *)
LEMMA RoomToTry ==
  ASSUME IInv, TriesLeft, NEW i \in queue
  PROVE  tried[i] \in 0..(MostTries - 1)
<1>1. i \in Jobs /\ i \in seen /\ born[i] \in Counts /\ attempts[i] = born[i] + tried[i]
  BY DEF IInv, TypeOK, Known, TriesLeft, Paced, Pace
<1>2. tried[i] \in Nat /\ attempts[i] \in Int /\ born[i] \in Int
  BY <1>1 DEF IInv, TypeOK
<1>3. MaxAttempts - born[i] <= MostTries /\ MostTries \in Nat \ {0}
  BY <1>1, MostTriesBound
<1>4. CASE tried[i] = 0
  BY <1>3, <1>4
<1>5. CASE tried[i] > 0
  <2>1. attempts[i] < MaxAttempts
    BY <1>5 DEF TriesLeft
  <2> QED BY <1>1, <1>2, <1>3, <2>1
<1> QED BY <1>2, <1>4, <1>5

LEMMA ChargedFrame ==
  ASSUME Charged, \A i \in Jobs : Used(i)' = Used(i), UNCHANGED <<passed, spent>>
  PROVE  Charged'
<1>1. \A j \in Jobs : AttemptsBefore(j)' = AttemptsBefore(j)
  BY DEF AttemptsBefore, Slots, Before
<1> QED BY <1>1 DEF Charged

(* An attempt moves from running to recorded: nothing is counted twice.     *)
LEMMA CommitCharged ==
  ASSUME IInv, Charged, NEW w \in Workers, NEW D \in SUBSET held[w], Commit(w, D)
  PROVE  Charged'
<1> USE DEF Failed, Dropped, Postponed
<1>1. held'[w] = {} /\ \A v \in Workers : v # w => held'[v] = held[v]
  BY DEF Commit, IInv, TypeOK
<1>2. \A i \in held[w] : i \in Busy /\ i \notin Busy' /\ i \in queue /\ i \in seen /\ i \notin gaveUp
  <2>1. \A i \in held[w] : \A v \in Workers : i \notin held'[v]
    BY <1>1 DEF IInv, OneHolder
  <2> QED BY <2>1 DEF Busy, IInv, Holding, Known, Over
<1>3. \A i \in Jobs \ held[w] : i \in Busy' <=> i \in Busy
  BY <1>1 DEF Busy
<1>4. /\ seen' = seen /\ queue' = queue \ (D \cup Dropped(w, D))
      /\ gaveUp' = gaveUp \cup Dropped(w, D)
      /\ \A i \in Jobs : i \in Failed(w, D) => tried'[i] = tried[i] + 1
      /\ \A i \in Jobs : i \notin Failed(w, D) => tried'[i] = tried[i]
  BY DEF Commit
<1>5. ASSUME NEW i \in Jobs PROVE Used(i)' = Used(i)
  <2>1. CASE i \in D
    <3>1. Begun(i) /\ Begun(i)'
      BY <1>2, <1>4, <2>1 DEF Begun
    <3> QED BY <1>4, <2>1, <3>1 DEF Used
  <2>2. CASE i \in Failed(w, D)
    <3>1. Begun(i) /\ ~Begun(i)'
      BY <1>2, <1>4, <2>2 DEF Begun
    <3> QED BY <1>4, <2>2, <3>1 DEF Used
  <2>3. CASE i \notin held[w]
    <3>1. Begun(i)' = Begun(i)
      BY <1>3, <1>4, <2>3 DEF Begun
    <3> QED BY <1>4, <2>3, <3>1 DEF Used
  <2> QED BY <2>1, <2>2, <2>3
<1> QED BY <1>5, ChargedFrame DEF Commit

(* A new row was not tried.                                                 *)
LEMMA EnqueueCharged ==
  ASSUME IInv, Charged, NEW j \in Jobs, NEW a \in Counts, Enqueue(j, a)
  PROVE  Charged'
<1>1. UNCHANGED <<held, gaveUp, tried>> /\ queue' = queue \cup {j} /\ seen' = seen \cup {j}
  BY DEF Enqueue
<1>2. j \notin seen /\ j \notin Busy
  BY DEF Enqueue, Busy, IInv, Holding, Known
<1>3. \A i \in Jobs : Begun(i)' = Begun(i)
  BY <1>1, <1>2 DEF Begun, Busy
<1>4. \A i \in Jobs : Used(i)' = Used(i)
  BY <1>1, <1>3 DEF Used
<1> QED BY <1>4, ChargedFrame DEF Enqueue

(* A transaction that dies takes back at most a batch of attempts.          *)
LEMMA DiesCharged ==
  ASSUME IInv, TriesLeft, BatchBound, Charged, NEW w \in Workers, Dies(w)
  PROVE  Charged'
<1> DEFINE lost == {<<i, tried[i]>> : i \in held[w]}
<1>1. /\ UNCHANGED <<queue, seen, gaveUp, tried, passed>>
      /\ spent' = spent + 1 /\ held'[w] = {}
      /\ \A v \in Workers : v # w => held'[v] = held[v]
  BY DEF Dies, IInv, TypeOK
<1>2. held[w] \in SUBSET Jobs /\ held[w] \subseteq queue
  BY DEF IInv, TypeOK, Holding
<1>3. IsFiniteSet(lost) /\ Cardinality(lost) \in Nat /\ Cardinality(lost) <= Batch
  <2>1. IsFiniteSet(held[w]) /\ Cardinality(held[w]) <= Batch /\ Cardinality(held[w]) \in Nat
    BY <1>2, FS_Subset, FS_CardinalityType DEF BatchBound
  <2> DEFINE f == [i \in held[w] |-> <<i, tried[i]>>]
  <2>2. f \in Surjection(held[w], lost)
    BY DEF Surjection
  <2>3. IsFiniteSet(lost) /\ Cardinality(lost) <= Cardinality(held[w])
    BY <2>1, <2>2, FS_Surjection
  <2> QED BY <2>1, <2>3, FS_CardinalityType
<1>4. ASSUME NEW i \in Jobs PROVE Used(i)' = Used(i) \/ (i \in held[w] /\ Used(i) = tried[i] + 1
                                                         /\ Used(i)' = tried[i])
  <2>1. CASE i \in held[w]
    <3>1. i \in Busy /\ i \notin Busy'
      BY <1>1, <2>1 DEF Busy, IInv, OneHolder
    <3>2. Begun(i) /\ ~Begun(i)'
      BY <1>1, <1>2, <2>1, <3>1 DEF Begun
    <3> QED BY <1>1, <2>1, <3>2 DEF Used
  <2>2. CASE i \notin held[w]
    <3>1. i \in Busy' <=> i \in Busy
      BY <1>1, <2>2 DEF Busy
    <3> QED BY <1>1, <3>1 DEF Used, Begun
  <2> QED BY <2>1, <2>2
<1>5. ASSUME NEW j \in Jobs
      PROVE  Cardinality(AttemptsBefore(j)) <= Cardinality(AttemptsBefore(j)') + Batch
  <2>1. AttemptsBefore(j) \in SUBSET (AttemptsBefore(j)' \cup lost)
    <3> SUFFICES ASSUME NEW p \in AttemptsBefore(j), p \notin lost
                 PROVE  p \in AttemptsBefore(j)'
      OBVIOUS
    <3>1. /\ p \in Slots(j) /\ p[2] < Used(p[1])
          /\ p[1] \in Jobs /\ p[2] \in Nat /\ p = <<p[1], p[2]>>
      BY DEF AttemptsBefore, Slots, Before
    <3>2. p[2] < Used(p[1])'
      <4>1. CASE Used(p[1])' = Used(p[1])
        BY <3>1, <4>1
      <4>2. CASE p[1] \in held[w] /\ Used(p[1]) = tried[p[1]] + 1 /\ Used(p[1])' = tried[p[1]]
        <5>1. p[2] # tried[p[1]]
          BY <3>1, <4>2
        <5>2. tried[p[1]] \in Nat
          BY <3>1 DEF IInv, TypeOK
        <5> QED BY <3>1, <4>2, <5>1, <5>2
      <4> QED BY <1>4, <3>1, <4>1, <4>2
    <3> QED BY <3>1, <3>2 DEF AttemptsBefore, Slots, Before
  <2>2. /\ IsFiniteSet(AttemptsBefore(j)') /\ Cardinality(AttemptsBefore(j)') \in Nat
        /\ Cardinality(AttemptsBefore(j)) \in Nat
    BY AttemptsCount
  <2>3. /\ IsFiniteSet(AttemptsBefore(j)' \cup lost)
        /\ Cardinality(AttemptsBefore(j)' \cup lost)
             <= Cardinality(AttemptsBefore(j)') + Cardinality(lost)
    BY <1>3, <2>2, UnionBound
  <2>4. Cardinality(AttemptsBefore(j)) <= Cardinality(AttemptsBefore(j)' \cup lost)
    BY <2>1, <2>3, FS_Subset
  <2>5. Cardinality(AttemptsBefore(j)' \cup lost) \in Nat
    BY <2>3, FS_CardinalityType
  <2> QED BY <1>3, <2>2, <2>3, <2>4, <2>5
<1>6. ASSUME NEW j \in Jobs
      PROVE  Batch * passed[j] <= Cardinality(AttemptsBefore(j)') + Batch * (spent + 1)
  <2>1. Batch * (spent + 1) = Batch * spent + Batch /\ Batch * spent \in Nat
    BY DEF IInv, TypeOK
  <2>2. Batch * passed[j] \in Nat /\ Cardinality(AttemptsBefore(j)) \in Nat
    BY AttemptsCount DEF IInv, TypeOK
  <2>3. Cardinality(AttemptsBefore(j)') \in Nat
    BY AttemptsCount
  <2>4. Batch * passed[j] <= Cardinality(AttemptsBefore(j)) + Batch * spent
    BY DEF Charged
  <2> QED BY <1>5, <2>1, <2>2, <2>3, <2>4
<1> QED BY <1>1, <1>6 DEF Charged

(* A claim that leaves j begins a batch of attempts on older jobs.          *)
LEMMA ClaimCharged ==
  ASSUME IInv, TriesLeft, Charged, NEW w \in Workers, Claim(w)
  PROVE  Charged'
<1> DEFINE O == Oldest(Claimable)
           begun == {<<i, tried[i]>> : i \in O}
<1>1. /\ UNCHANGED <<queue, seen, gaveUp, tried, spent>>
      /\ held[w] = {} /\ held'[w] = O
      /\ \A v \in Workers : v # w => held'[v] = held[v]
  BY DEF Claim, IInv, TypeOK
<1>2. Claimable \in SUBSET Nat /\ IsFiniteSet(Claimable) /\ Claimable \subseteq queue
  <2>1. Claimable \in SUBSET Jobs /\ Claimable \subseteq queue
    BY DEF Claimable, IInv, TypeOK
  <2> QED BY <2>1, FS_Subset
<1>3. O \subseteq Claimable
  BY DEF Oldest
<1>4. \A i \in O : i \in Jobs /\ i \in queue /\ ~Begun(i) /\ Begun(i)'
  <2>1. \A i \in O : i \in Jobs /\ i \in queue /\ i \notin Busy
    BY <1>2, <1>3 DEF Claimable, IInv, TypeOK
  <2>2. \A i \in O : i \in Busy'
    BY <1>1 DEF Busy
  <2> QED BY <2>1, <2>2 DEF Begun
<1>5. \A i \in Jobs : i \notin O => (Begun(i)' <=> Begun(i))
  BY <1>1 DEF Begun, Busy
<1>6. \A i \in Jobs : tried[i] \in Nat /\ Used(i) <= Used(i)'
  <2> SUFFICES ASSUME NEW i \in Jobs PROVE tried[i] \in Nat /\ Used(i) <= Used(i)'
    OBVIOUS
  <2>1. tried[i] \in Nat /\ tried'[i] = tried[i]
    BY <1>1 DEF IInv, TypeOK
  <2> QED BY <1>4, <1>5, <2>1 DEF Used
<1>7. ASSUME NEW j \in Jobs PROVE AttemptsBefore(j) \in SUBSET AttemptsBefore(j)'
  <2> SUFFICES ASSUME NEW p \in AttemptsBefore(j) PROVE p \in AttemptsBefore(j)'
    OBVIOUS
  <2>1. p \in Slots(j) /\ p[2] < Used(p[1]) /\ p[1] \in Jobs /\ p[2] \in Nat
    BY DEF AttemptsBefore, Slots, Before
  <2>2. Used(p[1]) <= Used(p[1])' /\ Used(p[1]) \in Nat /\ Used(p[1])' \in Nat
    BY <1>1, <1>6, <2>1 DEF Used
  <2>3. p[2] < Used(p[1])'
    BY <2>1, <2>2
  <2> QED BY <2>1, <2>3 DEF AttemptsBefore, Slots, Before
<1>8. ASSUME NEW j \in Claimable \ O
      PROVE  Cardinality(AttemptsBefore(j)) + Batch <= Cardinality(AttemptsBefore(j)')
  <2>1. j \in Jobs /\ IsFiniteSet(O) /\ Batch <= Cardinality(O) /\ \A i \in O : i < j
    BY <1>2, OldestAhead DEF IInv, TypeOK
  <2>2. \A i \in O : <<i, tried[i]>> \in Slots(j) /\ Used(i) = tried[i] /\ Used(i)' = tried[i] + 1
    BY <1>1, <1>4, <2>1, RoomToTry DEF Slots, Before, Used
  <2>3. begun \in SUBSET AttemptsBefore(j)'
    <3> SUFFICES ASSUME NEW i \in O PROVE <<i, tried[i]>> \in AttemptsBefore(j)'
      OBVIOUS
    <3>1. tried[i] < Used(i)'
      <4>1. tried[i] \in Nat /\ Used(i)' = tried[i] + 1
        BY <1>4, <1>6, <2>2
      <4> QED BY <4>1
    <3> QED BY <2>2, <3>1 DEF AttemptsBefore, Slots, Before
  <2>4. AttemptsBefore(j) \cap begun = {}
    <3> SUFFICES ASSUME NEW i \in O, <<i, tried[i]>> \in AttemptsBefore(j) PROVE FALSE
      OBVIOUS
    <3>1. tried[i] < Used(i)
      BY DEF AttemptsBefore
    <3>2. tried[i] \in Nat /\ Used(i) = tried[i]
      BY <1>4, <1>6, <2>2
    <3> QED BY <3>1, <3>2
  <2>5. /\ IsFiniteSet(AttemptsBefore(j)) /\ Cardinality(AttemptsBefore(j)) \in Nat
        /\ IsFiniteSet(AttemptsBefore(j)') /\ Cardinality(AttemptsBefore(j)') \in Nat
    BY <2>1, AttemptsCount
  <2>6. IsFiniteSet(begun) /\ Cardinality(begun) \in Nat /\ Batch <= Cardinality(begun)
    <3> DEFINE f == [i \in O |-> <<i, tried[i]>>]
    <3>1. IsFiniteSet(begun) /\ Cardinality(begun) \in Nat
      BY <2>3, <2>5, FS_Subset, FS_CardinalityType
    <3>2. f \in Injection(O, begun)
      BY DEF Injection, IsInjective
    <3>3. Cardinality(O) <= Cardinality(begun)
      BY <3>1, <3>2, FS_Injection
    <3>4. Cardinality(O) \in Nat
      BY <2>1, FS_CardinalityType
    <3> QED BY <2>1, <3>1, <3>3, <3>4
  <2>7. Cardinality(AttemptsBefore(j) \cup begun) = Cardinality(AttemptsBefore(j)) + Cardinality(begun)
    <3>1. Cardinality(AttemptsBefore(j) \cap begun) = 0
      BY <2>4, FS_EmptySet
    <3>2. Cardinality(AttemptsBefore(j) \cup begun)
            = Cardinality(AttemptsBefore(j)) + Cardinality(begun)
                - Cardinality(AttemptsBefore(j) \cap begun)
      BY <2>5, <2>6, FS_Union
    <3> QED BY <2>5, <2>6, <3>1, <3>2
  <2>8. Cardinality(AttemptsBefore(j) \cup begun) <= Cardinality(AttemptsBefore(j)')
    <3>1. AttemptsBefore(j) \cup begun \in SUBSET AttemptsBefore(j)'
      BY <1>7, <2>1, <2>3
    <3> QED BY <2>5, <3>1, FS_Subset
  <2> QED BY <2>5, <2>6, <2>7, <2>8
<1>9. ASSUME NEW j \in Jobs
      PROVE  Batch * passed'[j] <= Cardinality(AttemptsBefore(j)') + Batch * spent
  <2>1. /\ Batch * spent \in Nat /\ passed[j] \in Nat /\ Batch * passed[j] \in Nat
        /\ Cardinality(AttemptsBefore(j)) \in Nat /\ Cardinality(AttemptsBefore(j)') \in Nat
        /\ IsFiniteSet(AttemptsBefore(j)')
    BY AttemptsCount DEF IInv, TypeOK
  <2>2. Batch * passed[j] <= Cardinality(AttemptsBefore(j)) + Batch * spent
    BY DEF Charged
  <2>3. CASE j \in Claimable \ O
    <3>1. passed'[j] = passed[j] + 1
      BY <2>3 DEF Claim
    <3>2. Batch * passed'[j] = Batch * passed[j] + Batch
      BY <2>1, <3>1
    <3> QED BY <1>8, <2>1, <2>2, <2>3, <3>2
  <2>4. CASE j \notin Claimable \ O
    <3>1. passed'[j] = passed[j]
      BY <2>4 DEF Claim
    <3>2. Cardinality(AttemptsBefore(j)) <= Cardinality(AttemptsBefore(j)')
      BY <1>7, <2>1, FS_Subset
    <3> QED BY <2>1, <2>2, <3>1, <3>2
  <2> QED BY <2>3, <2>4
<1> QED BY <1>1, <1>9 DEF Charged

(* The rest of the invariant.                                               *)
LEMMA TriesLeftStays ==
  ASSUME IInv, TriesLeft, [Next]_vars
  PROVE  TriesLeft'
<1>1. ASSUME UNCHANGED <<queue, tried, attempts, seen, born>> PROVE TriesLeft'
  BY <1>1 DEF TriesLeft
<1>2. ASSUME NEW j \in Jobs, NEW a \in Counts, Enqueue(j, a) PROVE TriesLeft'
  <2>1. tried'[j] = 0 /\ born'[j] = a /\ UNCHANGED tried
    BY <1>2 DEF Enqueue, IInv, TypeOK, Known
  <2>2. \A i \in Jobs : i # j => attempts'[i] = attempts[i] /\ born'[i] = born[i]
    BY <1>2 DEF Enqueue, IInv, TypeOK
  <2> QED BY <1>2, <2>1, <2>2 DEF Enqueue, TriesLeft, IInv, TypeOK
<1>3. ASSUME NEW w \in Workers, NEW D \in SUBSET held[w], Commit(w, D) PROVE TriesLeft'
  <2> SUFFICES ASSUME NEW j \in queue', tried'[j] > 0 PROVE attempts'[j] < MaxAttempts
    BY <1>3 DEF TriesLeft, Commit
  <2>1. j \in Jobs /\ j \in queue /\ attempts[j] \in Int
    BY <1>3 DEF Commit, IInv, TypeOK
  <2>2. CASE j \in Failed(w, D)
    <3>1. j \in Postponed(w, D) /\ ~GivesUp(j)
      BY <1>3, <2>1, <2>2 DEF Commit, Postponed, Dropped
    <3> QED BY <1>3, <2>1, <3>1 DEF Commit, GivesUp
  <2>3. CASE j \notin Failed(w, D)
    <3>1. attempts'[j] = attempts[j] /\ tried'[j] = tried[j]
      BY <1>3, <2>1, <2>3 DEF Commit, Postponed
    <3> QED BY <2>1, <3>1 DEF TriesLeft
  <2> QED BY <2>2, <2>3
<1>4. CASE Tick \/ UNCHANGED vars \/ \E w \in Workers : Claim(w) \/ Dies(w)
  BY <1>1, <1>4 DEF Tick, vars, Claim, Dies
<1> QED BY <1>2, <1>3, <1>4 DEF Next

LEMMA BatchBoundStays ==
  ASSUME IInv, BatchBound, [Next]_vars
  PROVE  BatchBound'
<1>1. ASSUME NEW w \in Workers, Claim(w) PROVE BatchBound'
  <2>1. Claimable \in SUBSET Jobs
    BY DEF Claimable, IInv, TypeOK
  <2>2. Cardinality(Oldest(Claimable)) <= Batch
    BY <2>1, FS_Subset, OldestAtMost
  <2>3. held' = [held EXCEPT ![w] = Oldest(Claimable)]
    BY <1>1 DEF Claim
  <2> QED BY <2>2, <2>3 DEF BatchBound, IInv, TypeOK
<1>2. ASSUME NEW w \in Workers, held' = [held EXCEPT ![w] = {}] PROVE BatchBound'
  BY <1>2, FS_EmptySet DEF BatchBound, IInv, TypeOK
<1>3. ASSUME UNCHANGED held PROVE BatchBound'
  BY <1>3 DEF BatchBound
<1> QED BY <1>1, <1>2, <1>3 DEF Next, Tick, Enqueue, Dies, Commit, vars

LEMMA InitBypassInv == Init => BypassInv
<1> SUFFICES ASSUME Init PROVE BypassInv
  OBVIOUS
<1>1. TriesLeft /\ BatchBound
  BY FS_EmptySet DEF Init, TriesLeft, BatchBound
<1>2. Charged
  BY AttemptsCount DEF Init, Charged
<1> QED BY <1>1, <1>2 DEF BypassInv

LEMMA NextBypassInv ==
  ASSUME IInv, BypassInv, [Next]_vars
  PROVE  BypassInv'
<1>1. CASE Tick \/ UNCHANGED vars
  <2>1. UNCHANGED <<passed, spent>> /\ \A i \in Jobs : Used(i)' = Used(i)
    BY <1>1 DEF Tick, vars, Used, Begun, Busy
  <2>2. Charged'
    BY <2>1, ChargedFrame DEF BypassInv
  <2> QED BY <2>2, TriesLeftStays, BatchBoundStays DEF BypassInv
<1>2. CASE ~Tick /\ ~UNCHANGED vars
  <2>1. Charged'
    BY <1>2, EnqueueCharged, CommitCharged, ClaimCharged, DiesCharged DEF Next, BypassInv
  <2> QED BY <2>1, TriesLeftStays, BatchBoundStays DEF BypassInv
<1> QED BY <1>1, <1>2

(* A row that is due is left for older ones a bounded number of times,      *)
(* whatever fails at the head of the queue and however many workers take    *)
(* turns: each claim that leaves it uses up a batch of the attempts its     *)
(* elders have, or ends with its transaction's death.                       *)
THEOREM NobodyStarves == Spec => []BoundedBypass
<1>1. IInv /\ BypassInv => BoundedBypass
  <2> SUFFICES ASSUME IInv, BypassInv, NEW j \in Jobs
               PROVE  Batch * passed[j] <= Older(j) * MostTries + Batch * spent
    BY DEF BoundedBypass
  <2>1. AttemptsBefore(j) \in SUBSET Slots(j)
    BY DEF AttemptsBefore
  <2>2. /\ Cardinality(AttemptsBefore(j)) <= Older(j) * MostTries
        /\ Cardinality(AttemptsBefore(j)) \in Nat /\ Older(j) \in Nat
    BY <2>1, SlotsBound
  <2>3. Older(j) * MostTries \in Nat /\ Batch * spent \in Nat /\ Batch * passed[j] \in Nat
    BY <2>2, MostTriesBound DEF IInv, TypeOK
  <2>4. Batch * passed[j] <= Cardinality(AttemptsBefore(j)) + Batch * spent
    BY DEF BypassInv, Charged
  <2> QED BY <2>2, <2>3, <2>4
<1>2. IInv /\ BypassInv /\ [Next]_vars => BypassInv'
  BY NextBypassInv
<1> QED BY <1>1, <1>2, InitIInv, NextIInv, InitBypassInv, PTL DEF Spec
=============================================================================
