-------------------------- MODULE AccessReviewProofs --------------------------
(***************************************************************************)
(* AccessReview, proved for any number of campaigns, people, permissions   *)
(* and concurrent requests: the answer is the current decision, what a     *)
(* campaign asks is frozen, and a request begun after a campaign closed    *)
(* leaves nothing in it.                                                   *)
(***************************************************************************)
EXTENDS AccessReview, SequenceTheorems, FiniteSetTheorems, TLAPS

USE BoundAssumption
USE DEF campaignVars, itemVars, coreVars, decideVars

LEMMA ItemParts ==
  ASSUME NEW i \in Item
  PROVE  i[1] \in Campaigns /\ i[2] \in Pair /\ i = <<i[1], i[2]>>
  BY DEF Item

(* Appending one decision to the trail of one item. *)
LEMMA OneMoreDecision ==
  ASSUME IInv, NEW r \in Reviewers, DecideCommit(r)
  PROVE  /\ CampaignOf(r) \in Campaigns /\ PairOf(r) \in Pair
         /\ LET c == CampaignOf(r)
                q == PairOf(r)
                e == Row(r)
            IN  /\ e \in Entry /\ e.decision = choice[r] /\ e.at = at[r] /\ e.end = begun
                /\ trail'[c][q] = Append(trail[c][q], e)
                /\ answer'[c][q] = choice[r]
                /\ \A d \in Campaigns, p \in Pair : d # c \/ p # q =>
                     trail'[d][p] = trail[d][p] /\ answer'[d][p] = answer[d][p]
                /\ trail' \in [Campaigns -> [Pair -> Seq(Entry)]]
                /\ answer' \in [Campaigns -> [Pair -> Answers]]
<1>1. CampaignOf(r) \in Campaigns /\ PairOf(r) \in Pair
  BY ItemParts DEF IInv, InFlight, DecideCommit, CampaignOf, PairOf
<1>2. Row(r) \in Entry /\ Row(r).decision = choice[r] /\ Row(r).at = at[r] /\ Row(r).end = begun
  BY DEF IInv, TypeOK, Entry, Row
<1>3. Append(trail[CampaignOf(r)][PairOf(r)], Row(r)) \in Seq(Entry)
  BY <1>1, <1>2 DEF IInv, TypeOK
<1>4. choice[r] \in Answers
  BY DEF IInv, TypeOK, Answers
<1> QED BY <1>1, <1>2, <1>3, <1>4 DEF IInv, TypeOK, DecideCommit, Recorded, Answered

(***************************************************************************)
(* Types                                                                   *)
(***************************************************************************)
LEMMA HavingIsNat ==
  ASSUME NEW c \in Campaigns, NEW a
  PROVE  Cardinality({q \in Pair : via[c][q] # None /\ answer[c][q] = a}) \in Nat
<1>1. IsFiniteSet(Pair)
  BY FiniteAssumption, FS_Product DEF Pair
<1>2. IsFiniteSet({q \in Pair : via[c][q] # None /\ answer[c][q] = a})
  BY <1>1, FS_Subset
<1> QED BY <1>2, FS_CardinalityType

LEMMA TotalIsNat ==
  ASSUME NEW c \in Campaigns
  PROVE  Total(c) \in Nat
<1>1. IsFiniteSet(Pair)
  BY FiniteAssumption, FS_Product DEF Pair
<1>2. IsFiniteSet({q \in Pair : via[c][q] # None})
  BY <1>1, FS_Subset
<1> QED BY <1>2, FS_CardinalityType DEF Total

LEMMA ManageType ==
  ASSUME TypeOK, NEW c \in Campaigns, Manage(c)
  PROVE  TypeOK'
<1>1. ASSUME NEW s \in Scopes, CreateCampaign(c, s) PROVE TypeOK'
  BY <1>1 DEF TypeOK, CreateCampaign
<1>2. CASE OpenBegin(c)
  BY <1>2 DEF TypeOK, OpenBegin
<1>3. ASSUME NEW f \in Snapshots(c), OpenCopy(c, f) PROVE TypeOK'
  <2>1. f \in [Pair -> Roles \cup {None}]
    BY DEF Snapshots
  <2> QED BY <1>3, <2>1 DEF TypeOK, OpenCopy
<1>4. NoItems \in [Pair -> Roles \cup {None}]
  BY DEF NoItems
<1>5. CASE OpenCommit(c)
  <2>1. copy[c] \in [Pair -> Roles \cup {None}]
    BY DEF TypeOK
  <2>2. /\ via' \in [Campaigns -> [Pair -> Roles \cup {None}]]
        /\ copy' \in [Campaigns -> [Pair -> Roles \cup {None}]]
    BY <1>4, <1>5, <2>1 DEF TypeOK, OpenCommit
  <2>3. /\ status' \in [Campaigns -> {"none", "draft", "open", "closed"}]
        /\ opening' \in [Campaigns -> {"no", "locked", "copied", "opened", "answered"}]
    BY <1>5 DEF TypeOK, OpenCommit
  <2> QED BY <1>5, <2>2, <2>3 DEF TypeOK, OpenCommit
<1>6. CASE OpenFails(c)
  <2>1. /\ copy' \in [Campaigns -> [Pair -> Roles \cup {None}]]
        /\ opening' \in [Campaigns -> {"no", "locked", "copied", "opened", "answered"}]
    BY <1>4, <1>6 DEF TypeOK, OpenFails
  <2> QED BY <1>6, <2>1 DEF TypeOK, OpenFails
<1>7. CASE Close(c)
  BY <1>7 DEF TypeOK, Close
<1>8. CASE CloseReport(c)
  <2>1. Counts(c) \in Nat \X Nat
    BY HavingIsNat DEF Counts
  <2> QED BY <1>8, <2>1 DEF TypeOK, CloseReport
<1>9. CASE OpenAnswer(c)
  BY <1>9, TotalIsNat DEF TypeOK, OpenAnswer
<1> QED BY <1>1, <1>2, <1>3, <1>5, <1>6, <1>7, <1>8, <1>9 DEF Manage

LEMMA DecideType ==
  ASSUME IInv, NEW r \in Reviewers, Decide(r)
  PROVE  TypeOK'
<1> USE DEF Steps
<1>1. ASSUME NEW i \in Item, NEW d \in Decisions, DecideBegin(r, i, d) PROVE TypeOK'
  BY <1>1 DEF IInv, TypeOK, DecideBegin
<1>2. CASE DecideMatch(r) \/ DecideRefused(r) \/ DecideWrite(r) \/ DecideFails(r)
  BY <1>2 DEF IInv, TypeOK, DecideMatch, DecideRefused, DecideWrite, DecideFails, Goto
<1>3. CASE DecideCommit(r)
  <2>1. /\ trail' \in [Campaigns -> [Pair -> Seq(Entry)]]
        /\ answer' \in [Campaigns -> [Pair -> Answers]]
    BY <1>3, OneMoreDecision
  <2>2. step' \in [Reviewers -> Steps] /\ UNCHANGED <<via, campaignVars, coreVars, begun, item, choice, at, shown, audit>>
    BY <1>3 DEF IInv, TypeOK, DecideCommit, Goto
  <2>3. TypeOK
    BY DEF IInv
  <2> HIDE DEF Steps
  <2> QED BY <2>1, <2>2, <2>3 DEF TypeOK
<1>4. CASE DecideAnswer(r)
  <2>1. item[r] \in Item /\ CampaignOf(r) \in Campaigns /\ PairOf(r) \in Pair
    BY <1>4, ItemParts DEF IInv, InFlight, DecideAnswer, CampaignOf, PairOf
  <2>2. shown' \in [Reviewers -> Answers]
    BY <1>4, <2>1 DEF IInv, TypeOK, DecideAnswer, ReadBack
  <2>3. audit' \in SUBSET (Item \X AuditEntry)
    BY <1>4, <2>1 DEF IInv, TypeOK, DecideAnswer, Entered, AuditEntry
  <2>4. step' \in [Reviewers -> Steps]
    BY <1>4 DEF IInv, TypeOK, DecideAnswer
  <2> HIDE DEF Steps
  <2> QED BY <1>4, <2>2, <2>3, <2>4 DEF IInv, TypeOK, DecideAnswer
<1> QED BY <1>1, <1>2, <1>3, <1>4 DEF Decide

(***************************************************************************)
(* Campaigns                                                               *)
(***************************************************************************)
Rest ==
  /\ AnswerIsLastCommitted
  /\ DecidedOnlyIfAsked
  /\ NothingBegunAfterClose
  /\ InFlight
  /\ OnlyDraftsOpen
  /\ TrailDated

(* Every step on a campaign moves it forward, and leaves the items of an    *)
(* opened campaign as they are.                                             *)
LEMMA ManageForward ==
  ASSUME IInv, NEW c \in Campaigns, Manage(c)
  PROVE  \A d \in Campaigns :
           /\ status[d] \in {"open", "closed"} =>
                /\ via'[d] = via[d] /\ scope'[d] = scope[d]
                /\ status'[d] \in (IF status[d] = "open" THEN {"open", "closed"} ELSE {"closed"})
           /\ status'[d] = "closed" =>
                \/ status[d] = "closed" /\ closedAt'[d] = closedAt[d]
                \/ closedAt'[d] = begun
           /\ opening'[d] \in {"locked", "copied"} => status'[d] = "draft"
           /\ opening'[d] \in {"opened", "answered"} => status'[d] \in {"open", "closed"}
<1>1. CASE \E s \in Scopes : CreateCampaign(c, s)
  BY <1>1 DEF IInv, TypeOK, OnlyDraftsOpen, CreateCampaign
<1>2. CASE OpenBegin(c) \/ OpenFails(c) \/ \E f \in Snapshots(c) : OpenCopy(c, f)
  BY <1>2 DEF IInv, TypeOK, OnlyDraftsOpen, OpenBegin, OpenFails, OpenCopy, Openable
<1>3. CASE OpenCommit(c)
  BY <1>3 DEF IInv, TypeOK, OnlyDraftsOpen, OpenCommit
<1>4. CASE Close(c)
  BY <1>4 DEF IInv, TypeOK, OnlyDraftsOpen, Close
<1>5. CASE CloseReport(c) \/ OpenAnswer(c)
  BY <1>5 DEF IInv, TypeOK, OnlyDraftsOpen, CloseReport, OpenAnswer
<1> QED BY <1>1, <1>2, <1>3, <1>4, <1>5 DEF Manage

LEMMA ManageSafe ==
  ASSUME IInv, NEW c \in Campaigns, Manage(c)
  PROVE  Rest'
<1>1. UNCHANGED <<answer, trail, decideVars>>
  BY DEF Manage, CreateCampaign, OpenBegin, OpenCopy, OpenCommit, OpenAnswer, OpenFails, Close,
         CloseReport
<1>2. AnswerIsLastCommitted' /\ TrailDated'
  BY <1>1 DEF IInv, AnswerIsLastCommitted, TrailDated, Last
<1>3. DecidedOnlyIfAsked'
  BY <1>1, ManageForward DEF IInv, DecidedOnlyIfAsked
<1>4. NothingBegunAfterClose'
  BY <1>1, ManageForward DEF IInv, NothingBegunAfterClose, TrailDated
<1>5. \A r \in Reviewers : step[r] # "idle" => CampaignOf(r) \in Campaigns
  BY ItemParts DEF IInv, InFlight, CampaignOf
<1>6. InFlight'
  BY <1>1, <1>5, ManageForward DEF IInv, InFlight, CampaignOf, PairOf
<1>7. OnlyDraftsOpen'
  BY ManageForward DEF OnlyDraftsOpen
<1> QED BY <1>2, <1>3, <1>4, <1>6, <1>7 DEF Rest

(* What was answered and audited stays true while campaigns move.           *)
Told ==
  /\ Landed
  /\ AnswerIsOwnOrLater
  /\ AuditIsTrue
  /\ AskedIsTrue

LEMMA ManageTold ==
  ASSUME IInv, NEW c \in Campaigns, Manage(c)
  PROVE  Told'
<1>1. UNCHANGED <<answer, trail, decideVars>>
  BY DEF Manage, CreateCampaign, OpenBegin, OpenCopy, OpenCommit, OpenAnswer, OpenFails, Close,
         CloseReport
<1>2. Landed' /\ AnswerIsOwnOrLater' /\ AuditIsTrue'
  BY <1>1 DEF IInv, Landed, AnswerIsOwnOrLater, AuditIsTrue, CampaignOf, PairOf
<1>3. ASSUME NEW d \in Campaigns, opening'[d] = "answered"
      PROVE  /\ via'[d] = via[d]
             /\ \/ asked'[d] = Total(d)
                \/ opening[d] = "answered" /\ asked'[d] = asked[d]
  <2>1. CASE \E s \in Scopes : CreateCampaign(c, s)
    BY <1>3, <2>1 DEF CreateCampaign
  <2>2. CASE OpenBegin(c) \/ OpenFails(c) \/ \E f \in Snapshots(c) : OpenCopy(c, f)
    BY <1>3, <2>2 DEF IInv, TypeOK, OpenBegin, OpenFails, OpenCopy
  <2>3. CASE OpenCommit(c)
    BY <1>3, <2>3 DEF IInv, TypeOK, OpenCommit
  <2>4. CASE Close(c) \/ CloseReport(c)
    BY <1>3, <2>4 DEF Close, CloseReport
  <2>5. CASE OpenAnswer(c)
    BY <1>3, <2>5 DEF IInv, TypeOK, OpenAnswer
  <2> QED BY <2>1, <2>2, <2>3, <2>4, <2>5 DEF Manage
<1>4. AskedIsTrue'
  BY <1>3 DEF IInv, AskedIsTrue, Total
<1> QED BY <1>2, <1>4 DEF Told

(***************************************************************************)
(* Decisions                                                               *)
(***************************************************************************)
LEMMA DecideSafe ==
  ASSUME IInv, NEW r \in Reviewers, Decide(r)
  PROVE  Rest'
<1>1. UNCHANGED <<campaignVars, via>>
  BY DEF Decide, DecideBegin, DecideMatch, DecideRefused, DecideWrite, DecideCommit, DecideAnswer,
         DecideFails
<1>2. OnlyDraftsOpen'
  BY <1>1 DEF IInv, OnlyDraftsOpen
<1>3. ASSUME NEW i \in Item, NEW d \in Decisions, DecideBegin(r, i, d) PROVE Rest'
  <2>1. UNCHANGED <<answer, trail>> /\ begun' = begun + 1 /\ begun \in Nat
    BY <1>3 DEF DecideBegin, IInv, TypeOK
  <2>2. AnswerIsLastCommitted' /\ DecidedOnlyIfAsked' /\ NothingBegunAfterClose'
    BY <1>1, <2>1 DEF IInv, AnswerIsLastCommitted, DecidedOnlyIfAsked, NothingBegunAfterClose
  <2>3. TrailDated'
    <3>1. ASSUME NEW c \in Campaigns, NEW q \in Pair, NEW n \in 1..Len(trail[c][q])
          PROVE  trail[c][q][n].at \in Nat
      <4>1. trail[c][q] \in Seq(Entry)
        BY DEF IInv, TypeOK
      <4>2. trail[c][q][n] \in Entry
        BY <4>1, ElementOfSeq
      <4> QED BY <4>2 DEF Entry
    <3> QED BY <2>1, <3>1 DEF IInv, TrailDated, Last
  <2>4. InFlight'
    <3>1. /\ step'[r] = "begun" /\ item'[r] = i /\ at'[r] = begun + 1
          /\ \A o \in Reviewers : o # r => /\ step'[o] = step[o] /\ item'[o] = item[o]
                                          /\ at'[o] = at[o]
      BY <1>3 DEF IInv, TypeOK, DecideBegin
    <3>2. \A o \in Reviewers : at[o] \in Nat /\ at[o] <= begun
      BY DEF IInv, TypeOK, InFlight
    <3> SUFFICES ASSUME NEW o \in Reviewers
                 PROVE  /\ at'[o] <= begun'
                        /\ step'[o] # "idle" => item'[o] \in Item
                        /\ step'[o] \in {"matched", "written"} =>
                             /\ status[item'[o][1]] \in {"open", "closed"}
                             /\ via[item'[o][1]][item'[o][2]] # None
                             /\ status[item'[o][1]] = "closed" => at'[o] <= closedAt[item'[o][1]]
      BY <1>1 DEF InFlight, CampaignOf, PairOf
    <3>3. CASE o = r
      BY <2>1, <3>1, <3>3
    <3>4. CASE o # r
      BY <2>1, <3>1, <3>2, <3>4 DEF IInv, InFlight, CampaignOf, PairOf
    <3> QED BY <3>3, <3>4
  <2> QED BY <1>2, <2>2, <2>3, <2>4 DEF Rest
<1>4. ASSUME DecideMatch(r) \/ DecideRefused(r) \/ DecideWrite(r) \/ DecideFails(r) PROVE Rest'
  <2>1. UNCHANGED <<answer, trail, begun, item, at>>
    BY <1>4 DEF DecideMatch, DecideRefused, DecideWrite, DecideFails, Goto
  <2>2. AnswerIsLastCommitted' /\ DecidedOnlyIfAsked' /\ NothingBegunAfterClose' /\ TrailDated'
    BY <1>1, <2>1
    DEF IInv, AnswerIsLastCommitted, DecidedOnlyIfAsked, NothingBegunAfterClose, TrailDated, Last
  <2>3. InFlight'
    BY <1>1, <1>4, <2>1
    DEF IInv, TypeOK, InFlight, DecideMatch, DecideRefused, DecideWrite, DecideFails, Goto,
        Decidable, TakesDecisions, CampaignOf, PairOf
  <2> QED BY <1>2, <2>2, <2>3 DEF Rest
<1>5. ASSUME DecideCommit(r) PROVE Rest'
  <2> DEFINE c == CampaignOf(r)
             q == PairOf(r)
             e == Row(r)
  <2>1. /\ c \in Campaigns /\ q \in Pair /\ e \in Entry
        /\ e.decision = choice[r] /\ e.at = at[r] /\ e.end = begun
        /\ trail'[c][q] = Append(trail[c][q], e) /\ answer'[c][q] = choice[r]
        /\ \A d \in Campaigns, p \in Pair : d # c \/ p # q =>
             trail'[d][p] = trail[d][p] /\ answer'[d][p] = answer[d][p]
    BY <1>5, OneMoreDecision
  <2> HIDE DEF c, q, e
  <2>2. trail[c][q] \in Seq(Entry)
    BY <2>1 DEF IInv, TypeOK
  <2>3. /\ Len(trail'[c][q]) = Len(trail[c][q]) + 1 /\ Len(trail[c][q]) \in Nat
        /\ trail'[c][q][Len(trail[c][q]) + 1] = e
        /\ \A n \in 1..Len(trail[c][q]) : trail'[c][q][n] = trail[c][q][n]
    BY <2>1, <2>2
  <2>4. trail'[c][q] # <<>> /\ Last(trail'[c][q]).decision = answer'[c][q]
    <3>1. Len(trail'[c][q]) # 0
      BY <2>3
    <3>2. trail'[c][q] # <<>>
      BY <3>1
    <3>3. Last(trail'[c][q]) = e
      BY <2>3 DEF Last
    <3> QED BY <2>1, <3>2, <3>3
  <2>5. /\ status[c] \in {"open", "closed"} /\ via[c][q] # None
        /\ status[c] = "closed" => at[r] <= closedAt[c]
        /\ at[r] <= begun
    BY <1>5 DEF IInv, InFlight, DecideCommit, c, q
  <2>6. AnswerIsLastCommitted'
    <3> SUFFICES ASSUME NEW d \in Campaigns, NEW p \in Pair
                 PROVE  answer'[d][p] = IF trail'[d][p] = <<>> THEN "pending"
                                        ELSE Last(trail'[d][p]).decision
      BY DEF AnswerIsLastCommitted, Last
    <3>1. CASE d = c /\ p = q
      BY <2>4, <3>1
    <3>2. CASE d # c \/ p # q
      BY <2>1, <3>2 DEF IInv, AnswerIsLastCommitted
    <3> QED BY <3>1, <3>2
  <2>7. DecidedOnlyIfAsked'
    BY <1>1, <2>1, <2>5 DEF IInv, DecidedOnlyIfAsked
  <2>8. NothingBegunAfterClose'
    <3> SUFFICES ASSUME NEW d \in Campaigns, NEW p \in Pair, status[d] = "closed",
                        NEW n \in 1..Len(trail'[d][p])
                 PROVE  trail'[d][p][n].at <= closedAt[d]
      BY <1>1 DEF NothingBegunAfterClose
    <3>1. CASE d = c /\ p = q /\ n = Len(trail[c][q]) + 1
      BY <2>1, <2>3, <2>5, <3>1
    <3>2. CASE d = c /\ p = q /\ n # Len(trail[c][q]) + 1
      <4>1. n \in 1..Len(trail[c][q])
        BY <2>3, <3>2
      <4> QED BY <2>1, <2>3, <3>2, <4>1 DEF IInv, NothingBegunAfterClose
    <3>3. CASE d # c \/ p # q
      BY <2>1, <3>3 DEF IInv, NothingBegunAfterClose
    <3> QED BY <3>1, <3>2, <3>3
  <2>9. TrailDated'
    <3> SUFFICES ASSUME NEW d \in Campaigns, NEW p \in Pair, NEW n \in 1..Len(trail'[d][p])
                 PROVE  /\ trail'[d][p][n].at <= begun
                        /\ trail'[d][p][n].at <= trail'[d][p][Len(trail'[d][p])].end
      BY <1>5 DEF TrailDated, DecideCommit, Goto, Last
    <3>1. CASE d = c /\ p = q /\ n = Len(trail[c][q]) + 1
      BY <2>1, <2>3, <2>5, <3>1
    <3>2. CASE d = c /\ p = q /\ n # Len(trail[c][q]) + 1
      <4>1. n \in 1..Len(trail[c][q])
        BY <2>3, <3>2
      <4> QED BY <2>1, <2>3, <3>2, <4>1 DEF IInv, TrailDated
    <3>3. CASE d # c \/ p # q
      BY <2>1, <3>3 DEF IInv, TrailDated, Last
    <3> QED BY <3>1, <3>2, <3>3
  <2>10. InFlight'
    BY <1>1, <1>5 DEF IInv, TypeOK, InFlight, DecideCommit, Goto, CampaignOf, PairOf
  <2> QED BY <1>2, <2>6, <2>7, <2>8, <2>9, <2>10 DEF Rest
<1>6. ASSUME DecideAnswer(r) PROVE Rest'
  <2>1. UNCHANGED <<answer, trail, begun, item, at>>
    BY <1>6 DEF DecideAnswer
  <2>2. AnswerIsLastCommitted' /\ DecidedOnlyIfAsked' /\ NothingBegunAfterClose' /\ TrailDated'
    BY <1>1, <2>1
    DEF IInv, AnswerIsLastCommitted, DecidedOnlyIfAsked, NothingBegunAfterClose, TrailDated, Last
  <2>3. InFlight'
    BY <1>1, <1>6, <2>1 DEF IInv, TypeOK, InFlight, DecideAnswer, CampaignOf, PairOf
  <2> QED BY <1>2, <2>2, <2>3 DEF Rest
<1> QED BY <1>3, <1>4, <1>5, <1>6 DEF Decide

(* Whatever a reviewer's request does, every trail keeps its beginning.     *)
LEMMA DecideGrows ==
  ASSUME IInv, NEW r \in Reviewers, Decide(r), NEW c \in Campaigns, NEW q \in Pair
  PROVE  /\ Len(trail[c][q]) \in Nat /\ Len(trail'[c][q]) \in Nat
         /\ Len(trail[c][q]) <= Len(trail'[c][q])
         /\ \A n \in 1..Len(trail[c][q]) : trail'[c][q][n] = trail[c][q][n]
<1>1. trail[c][q] \in Seq(Entry)
  BY DEF IInv, TypeOK
<1>2. CASE DecideCommit(r)
  <2>1. CASE c = CampaignOf(r) /\ q = PairOf(r)
    <3> DEFINE e == Row(r)
    <3>1. e \in Entry /\ trail'[c][q] = Append(trail[c][q], e)
      BY <1>2, <2>1, OneMoreDecision
    <3> HIDE DEF e
    <3> QED BY <1>1, <3>1
  <2>2. CASE c # CampaignOf(r) \/ q # PairOf(r)
    <3>1. trail'[c][q] = trail[c][q]
      BY <1>2, <2>2, OneMoreDecision
    <3> QED BY <1>1, <3>1
  <2> QED BY <2>1, <2>2
<1>3. CASE trail' = trail
  BY <1>1, <1>3
<1> QED BY <1>2, <1>3 DEF Decide, DecideBegin, DecideMatch, DecideRefused, DecideWrite,
                          DecideAnswer, DecideFails

(* A request touches nobody else's, and commits, answers and audits only in  *)
(* the steps that say so.                                                   *)
LEMMA DecideFrame ==
  ASSUME IInv, NEW r \in Reviewers, Decide(r)
  PROVE  /\ \A o \in Reviewers :
              o # r => /\ step'[o] = step[o] /\ item'[o] = item[o] /\ choice'[o] = choice[o]
                       /\ at'[o] = at[o] /\ shown'[o] = shown[o]
         /\ step'[r] = "committed" => DecideCommit(r)
         /\ step'[r] = "answered" => DecideAnswer(r)
         /\ audit' = audit \/ DecideAnswer(r)
         /\ UNCHANGED <<campaignVars, via>>
<1> USE DEF IInv, TypeOK
<1>1. CASE \E i \in Item, d \in Decisions : DecideBegin(r, i, d)
  BY <1>1 DEF DecideBegin
<1>2. CASE DecideMatch(r) \/ DecideRefused(r) \/ DecideWrite(r) \/ DecideFails(r)
  BY <1>2 DEF DecideMatch, DecideRefused, DecideWrite, DecideFails, Goto
<1>3. CASE DecideCommit(r)
  BY <1>3 DEF DecideCommit, Goto
<1>4. CASE DecideAnswer(r)
  BY <1>4 DEF DecideAnswer
<1> QED BY <1>1, <1>2, <1>3, <1>4 DEF Decide

LEMMA DecideTold ==
  ASSUME IInv, NEW r \in Reviewers, Decide(r)
  PROVE  Told'
<1>1. AskedIsTrue'
  BY DecideFrame DEF IInv, AskedIsTrue, Total
<1>2. ASSUME NEW o \in Reviewers, step[o] # "idle"
      PROVE  item[o] \in Item /\ item[o][1] \in Campaigns /\ item[o][2] \in Pair
  BY <1>2, ItemParts DEF IInv, InFlight
<1>3. Landed'
  <2> SUFFICES ASSUME NEW o \in Reviewers, step'[o] = "committed"
               PROVE  LET k == trail'[item'[o][1]][item'[o][2]]
                      IN  \E m \in 1..Len(k) : k[m].decision = choice'[o] /\ k[m].at = at'[o]
    BY Zenon DEF Landed, CampaignOf, PairOf
  <2>1. CASE o = r
    <3> DEFINE h == trail[item[r][1]][item[r][2]]
               k == trail'[item[r][1]][item[r][2]]
               e == Row(r)
    <3>1. DecideCommit(r)
      BY <2>1, DecideFrame
    <3>2. item' = item /\ choice' = choice /\ at' = at
      BY <3>1 DEF DecideCommit, Goto
    <3>3. /\ k = Append(h, e) /\ h \in Seq(Entry) /\ e \in Entry
          /\ e.decision = choice[r] /\ e.at = at[r]
      BY <3>1, OneMoreDecision DEF CampaignOf, PairOf, IInv, TypeOK
    <3>4. \E m \in 1..Len(k) : k[m].decision = choice[r] /\ k[m].at = at[r]
      <4> HIDE DEF h, k, e
      <4>1. Len(h) + 1 \in 1..Len(k) /\ k[Len(h) + 1] = e
        BY <3>3
      <4> QED BY <3>3, <4>1
    <3> QED BY <2>1, <3>2, <3>4, Zenon
  <2>2. CASE o # r
    <3>1. /\ step[o] = "committed" /\ item'[o] = item[o] /\ choice'[o] = choice[o]
          /\ at'[o] = at[o]
      BY <2>2, DecideFrame
    <3> DEFINE h == trail[item[o][1]][item[o][2]]
               k == trail'[item[o][1]][item[o][2]]
    <3>2. PICK m \in 1..Len(h) : h[m].decision = choice[o] /\ h[m].at = at[o]
      BY <3>1 DEF IInv, Landed, CampaignOf, PairOf
    <3>3. /\ Len(h) \in Nat /\ Len(k) \in Nat /\ Len(h) <= Len(k)
          /\ \A n \in 1..Len(h) : k[n] = h[n]
      BY <1>2, <3>1, DecideGrows
    <3> HIDE DEF h, k
    <3>4. m \in 1..Len(k) /\ k[m].decision = choice[o] /\ k[m].at = at[o]
      BY <3>2, <3>3
    <3> QED BY <3>1, <3>4 DEF k
  <2> QED BY <2>1, <2>2, Zenon
<1>4. AnswerIsOwnOrLater'
  <2> SUFFICES ASSUME NEW o \in Reviewers, step'[o] = "answered"
               PROVE  LET k == trail'[item'[o][1]][item'[o][2]]
                      IN  \E m, n \in 1..Len(k) :
                            m <= n /\ k[m].at = at'[o] /\ k[n].decision = shown'[o]
    BY Zenon DEF AnswerIsOwnOrLater, CampaignOf, PairOf
  <2>1. CASE o = r
    <3> DEFINE h == trail[item[r][1]][item[r][2]]
    <3>1. DecideAnswer(r)
      BY <2>1, DecideFrame
    <3>2. /\ item' = item /\ at' = at /\ trail' = trail /\ step[r] = "committed"
          /\ shown'[r] = answer[item[r][1]][item[r][2]]
      BY <3>1 DEF DecideAnswer, ReadBack, CampaignOf, PairOf, IInv, TypeOK
    <3>3. PICK m \in 1..Len(h) : h[m].decision = choice[r] /\ h[m].at = at[r]
      BY <3>2 DEF IInv, Landed, CampaignOf, PairOf
    <3>4. h \in Seq(Entry) /\ shown'[r] = IF h = <<>> THEN "pending" ELSE Last(h).decision
      <4>1. item[r][1] \in Campaigns /\ item[r][2] \in Pair
        BY <1>2, <3>2
      <4>2. answer[item[r][1]][item[r][2]] = IF h = <<>> THEN "pending" ELSE Last(h).decision
        BY <4>1 DEF IInv, AnswerIsLastCommitted
      <4>3. h \in Seq(Entry)
        BY <4>1 DEF IInv, TypeOK
      <4> HIDE DEF h
      <4> QED BY <3>2, <4>2, <4>3
    <3>5. /\ Len(h) \in 1..Len(h) /\ m <= Len(h) /\ h[Len(h)].decision = shown'[r]
          /\ h[m].at = at[r]
      <4> HIDE DEF h
      <4>1. Len(h) \in Nat /\ Len(h) >= 1
        BY <3>3, <3>4
      <4>2. h # <<>>
        BY <4>1
      <4>3. h[Len(h)].decision = shown'[r]
        BY <3>4, <4>2, Zenon DEF Last
      <4>4. h[m].at = at[r]
        BY <3>3
      <4>5. Len(h) \in 1..Len(h) /\ m <= Len(h)
        BY <3>3, <4>1
      <4> QED BY <4>3, <4>4, <4>5
    <3>6. \E a, b \in 1..Len(h) : a <= b /\ h[a].at = at[r] /\ h[b].decision = shown'[r]
      <4> HIDE DEF h
      <4> QED BY <3>3, <3>5
    <3>7. h = trail'[item'[o][1]][item'[o][2]] /\ at'[o] = at[r] /\ shown'[o] = shown'[r]
      BY <2>1, <3>2, Zenon
    <3> HIDE DEF h
    <3> QED BY <3>6, <3>7, Zenon
  <2>2. CASE o # r
    <3>1. step[o] = "answered" /\ item'[o] = item[o] /\ shown'[o] = shown[o] /\ at'[o] = at[o]
      BY <2>2, DecideFrame
    <3> DEFINE h == trail[item[o][1]][item[o][2]]
               k == trail'[item[o][1]][item[o][2]]
    <3>2. PICK m \in 1..Len(h), n \in 1..Len(h) :
            m <= n /\ h[m].at = at[o] /\ h[n].decision = shown[o]
      BY <3>1 DEF IInv, AnswerIsOwnOrLater, CampaignOf, PairOf
    <3>3. /\ Len(h) \in Nat /\ Len(k) \in Nat /\ Len(h) <= Len(k)
          /\ \A i \in 1..Len(h) : k[i] = h[i]
      BY <1>2, <3>1, DecideGrows
    <3> HIDE DEF h, k
    <3>4. /\ m \in 1..Len(k) /\ n \in 1..Len(k) /\ m <= n
          /\ k[m].at = at[o] /\ k[n].decision = shown[o]
      BY <3>2, <3>3
    <3> QED BY <3>1, <3>4 DEF k
  <2> QED BY <2>1, <2>2, Zenon
<1>5. AuditIsTrue'
  <2> SUFFICES ASSUME NEW a \in audit'
               PROVE  LET k == trail'[a[1][1]][a[1][2]]
                      IN  \E n \in 1..Len(k) : k[n].decision = a[2].decision /\ k[n].at = a[2].at
    BY Zenon DEF AuditIsTrue
  <2>1. CASE a \in audit
    <3> DEFINE h == trail[a[1][1]][a[1][2]]
               k == trail'[a[1][1]][a[1][2]]
    <3>1. a[1][1] \in Campaigns /\ a[1][2] \in Pair
      BY <2>1, ItemParts DEF IInv, TypeOK
    <3>2. PICK n \in 1..Len(h) : h[n].decision = a[2].decision /\ h[n].at = a[2].at
      BY <2>1 DEF IInv, AuditIsTrue
    <3>3. /\ Len(h) \in Nat /\ Len(k) \in Nat /\ Len(h) <= Len(k)
          /\ \A i \in 1..Len(h) : k[i] = h[i]
      BY <3>1, DecideGrows
    <3> HIDE DEF h, k
    <3>4. n \in 1..Len(k) /\ k[n].decision = a[2].decision /\ k[n].at = a[2].at
      BY <3>2, <3>3
    <3> QED BY <3>4 DEF k
  <2>2. CASE a \notin audit
    <3>1. DecideAnswer(r)
      BY <2>2, DecideFrame
    <3>2. /\ a[1] = item[r] /\ a[2].decision = choice[r] /\ a[2].at = at[r]
          /\ step[r] = "committed" /\ trail' = trail
      BY <2>2, <3>1 DEF DecideAnswer, Entered
    <3>3. LET h == trail[item[r][1]][item[r][2]]
          IN  \E m \in 1..Len(h) : h[m].decision = choice[r] /\ h[m].at = at[r]
      BY <3>2 DEF IInv, Landed, CampaignOf, PairOf
    <3> QED BY <3>2, <3>3
  <2> QED BY <2>1, <2>2
<1> QED BY <1>1, <1>3, <1>4, <1>5 DEF Told

(***************************************************************************)
(* The inductive invariant, and what follows from it                       *)
(***************************************************************************)
LEMMA InitIInv == Init => IInv
<1> SUFFICES ASSUME Init PROVE IInv
  OBVIOUS
<1>1. NoItems \in [Pair -> Roles \cup {None}]
  BY DEF NoItems
<1>2. /\ scope \in [Campaigns -> Scopes]
      /\ answer \in [Campaigns -> [Pair -> Answers]]
      /\ trail \in [Campaigns -> [Pair -> Seq(Entry)]]
      /\ choice \in [Reviewers -> Decisions]
      /\ step \in [Reviewers -> Steps]
      /\ shown \in [Reviewers -> Answers]
  BY DEF Init, Scopes, Answers, Decisions, Steps
<1>3. TypeOK
  BY <1>1, <1>2 DEF Init, TypeOK
<1>4. Rest
  BY DEF Init, Rest, AnswerIsLastCommitted, DecidedOnlyIfAsked, NothingBegunAfterClose, InFlight,
         OnlyDraftsOpen, TrailDated
<1>5. Told
  BY DEF Init, Told, Landed, AnswerIsOwnOrLater, AuditIsTrue, AskedIsTrue
<1> QED BY <1>3, <1>4, <1>5 DEF IInv, Rest, Told

LEMMA NextIInv == IInv /\ [Next]_vars => IInv'
<1> SUFFICES ASSUME IInv, [Next]_vars PROVE IInv'
  OBVIOUS
<1>1. ASSUME UNCHANGED <<campaignVars, itemVars, decideVars>> PROVE Rest' /\ Told'
  <2>1. Rest'
    BY <1>1 DEF IInv, Rest, AnswerIsLastCommitted, DecidedOnlyIfAsked, NothingBegunAfterClose,
                InFlight, OnlyDraftsOpen, TrailDated, Last, CampaignOf, PairOf
  <2>2. Told'
    BY <1>1 DEF IInv, Told, Landed, AnswerIsOwnOrLater, AuditIsTrue, AskedIsTrue, Total,
                CampaignOf, PairOf
  <2> QED BY <2>1, <2>2
<1>2. CASE UNCHANGED vars
  BY <1>1, <1>2 DEF IInv, Rest, Told, TypeOK, vars
<1>3. ASSUME NEW c \in Campaigns, Manage(c) PROVE IInv'
  <2>1. TypeOK
    BY DEF IInv
  <2> QED BY <1>3, <2>1, ManageType, ManageSafe, ManageTold DEF IInv, Rest, Told
<1>4. ASSUME NEW r \in Reviewers, Decide(r) PROVE IInv'
  BY <1>4, DecideType, DecideSafe, DecideTold DEF IInv, Rest, Told
<1>5. ASSUME NEW g \in Route, EditRbac(g) PROVE IInv'
  <2>1. TypeOK'
    BY <1>5 DEF IInv, TypeOK, EditRbac
  <2> QED BY <1>1, <1>5, <2>1 DEF IInv, Rest, Told, EditRbac
<1> QED BY <1>2, <1>3, <1>4, <1>5 DEF Next

(* Every reachable state satisfies the inductive invariant.                 *)
THEOREM Invariance == Spec => []IInv
  BY InitIInv, NextIInv, PTL DEF Spec

(* Every variable keeps its type.                                           *)
THEOREM TypeCorrect == Spec => []TypeOK
<1>1. IInv => TypeOK
  BY DEF IInv
<1> QED BY <1>1, Invariance, PTL

(* The item's answer is a stored decision that no other follows, for any    *)
(* number of reviewers deciding at once and whatever fails on the way       *)
(* (Decide): every stored decision began before that one committed.         *)
THEOREM AnswerCurrent == Spec => []AnswerIsCurrent
<1>1. IInv => AnswerIsCurrent
  <2> SUFFICES ASSUME IInv, NEW c \in Campaigns, NEW q \in Pair, trail[c][q] # <<>>
               PROVE  \E m \in 1..Len(trail[c][q]) :
                        /\ answer[c][q] = trail[c][q][m].decision
                        /\ \A n \in 1..Len(trail[c][q]) : trail[c][q][n].at <= trail[c][q][m].end
    BY DEF IInv, AnswerIsLastCommitted, AnswerIsCurrent
  <2>1. trail[c][q] \in Seq(Entry)
    BY DEF IInv, TypeOK
  <2>2. Len(trail[c][q]) \in 1..Len(trail[c][q])
    BY <2>1
  <2> WITNESS Len(trail[c][q]) \in 1..Len(trail[c][q])
  <2> QED BY DEF IInv, AnswerIsLastCommitted, TrailDated, Last
<1> QED BY <1>1, Invariance, PTL

(* Nobody decides on what was not asked.                                    *)
THEOREM DecisionsAsked == Spec => []DecidedOnlyIfAsked
<1>1. IInv => DecidedOnlyIfAsked
  BY DEF IInv
<1> QED BY <1>1, Invariance, PTL

(* A decide request that begins after the close is refused: only requests   *)
(* already under way can land in a closed campaign.                         *)
THEOREM LateRequestsRefused == Spec => []NothingBegunAfterClose
<1>1. IInv => NothingBegunAfterClose
  BY DEF IInv
<1> QED BY <1>1, Invariance, PTL

(* What an opened campaign asks never changes, and it only moves forward.   *)
THEOREM Frozen == Spec => FrozenOnceOpen
<1>1. IInv /\ [Next]_vars =>
        [\A c \in Campaigns :
           status[c] \in {"open", "closed"} =>
             /\ via'[c] = via[c] /\ scope'[c] = scope[c]
             /\ status'[c] \in (IF status[c] = "open" THEN {"open", "closed"} ELSE {"closed"})]_vars
  <2> SUFFICES ASSUME IInv, Next
               PROVE  \A c \in Campaigns :
                        status[c] \in {"open", "closed"} =>
                          /\ via'[c] = via[c] /\ scope'[c] = scope[c]
                          /\ status'[c] \in (IF status[c] = "open" THEN {"open", "closed"}
                                             ELSE {"closed"})
    OBVIOUS
  <2>1. CASE \E c \in Campaigns : Manage(c)
    BY <2>1, ManageForward
  <2>2. CASE \E r \in Reviewers : Decide(r)
    BY <2>2 DEF Decide, DecideBegin, DecideMatch, DecideRefused, DecideWrite, DecideCommit,
                DecideAnswer, DecideFails
  <2>3. CASE \E g \in Route : EditRbac(g)
    BY <2>3 DEF EditRbac
  <2> QED BY <2>1, <2>2, <2>3 DEF Next
<1> QED BY <1>1, Invariance, PTL DEF Spec, FrozenOnceOpen

(* A reviewer is never shown a decision older than the one just made.       *)
THEOREM AnsweredOwnOrLater == Spec => []AnswerIsOwnOrLater
<1>1. IInv => AnswerIsOwnOrLater
  BY DEF IInv
<1> QED BY <1>1, Invariance, PTL

(* Every decision the audit speaks of was made, by the request it names.    *)
THEOREM AuditTrue == Spec => []AuditIsTrue
<1>1. IInv => AuditIsTrue
  BY DEF IInv
<1> QED BY <1>1, Invariance, PTL

(* The number of items an Open answered is the campaign's for good.         *)
THEOREM AskedTrue == Spec => []AskedIsTrue
<1>1. IInv => AskedIsTrue
  BY DEF IInv
<1> QED BY <1>1, Invariance, PTL

(* No decision is ever lost or rewritten, however many reviewers overlap.   *)
THEOREM TrailGrows == Spec => TrailOnlyGrows
<1>1. IInv /\ [Next]_vars =>
        [\A c \in Campaigns, q \in Pair :
           /\ Len(trail[c][q]) <= Len(trail'[c][q])
           /\ \A n \in 1..Len(trail[c][q]) : trail'[c][q][n] = trail[c][q][n]]_vars
  <2> SUFFICES ASSUME IInv, Next, NEW c \in Campaigns, NEW q \in Pair
               PROVE  /\ Len(trail[c][q]) <= Len(trail'[c][q])
                      /\ \A n \in 1..Len(trail[c][q]) : trail'[c][q][n] = trail[c][q][n]
    OBVIOUS
  <2>1. CASE \E r \in Reviewers : Decide(r)
    BY <2>1, DecideGrows
  <2>2. CASE trail' = trail
    <3>1. trail[c][q] \in Seq(Entry)
      BY DEF IInv, TypeOK
    <3> QED BY <2>2, <3>1
  <2>3. CASE \E d \in Campaigns : Manage(d)
    BY <2>2, <2>3 DEF Manage, CreateCampaign, OpenBegin, OpenCopy, OpenCommit, OpenAnswer,
                      OpenFails, Close, CloseReport
  <2> QED BY <2>1, <2>2, <2>3 DEF Next, EditRbac
<1> QED BY <1>1, Invariance, PTL DEF Spec, TrailOnlyGrows
=============================================================================
