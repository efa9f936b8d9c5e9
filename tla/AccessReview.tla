----------------------------- MODULE AccessReview -----------------------------
(***************************************************************************)
(* modules/accessreview: campaigns that ask, for every person and every    *)
(* permission, whether the access is still needed.  Opening a campaign     *)
(* copies the core's RBAC tables into items; reviewers decide on items;    *)
(* closing ends it and reports the counts.                                 *)
(*                                                                         *)
(* The database runs at READ COMMITTED: a statement sees what had been     *)
(* committed when it started, a second writer of a row waits for the first *)
(* and then re-reads that row only.  A request is therefore cut where a    *)
(* statement takes its snapshot, where it takes a row's lock and where its *)
(* transaction commits.  NOW() is the start of the transaction.            *)
(***************************************************************************)
EXTENDS Naturals, Sequences, FiniteSets

CONSTANTS
  Campaigns, Users, Roles, Perms,
  Apps,           \* app codes, as sequences of characters
  Reviewers,      \* decide requests that may be in flight together
  None,           \* no role, no item, no report
  AppOf,          \* the app a permission code starts with
  MaxDecisions,   \* bound: decide requests in a behaviour
  MaxEdits        \* bound: changes the core makes to RBAC

ASSUME AppAssumption ==
  AppOf \in [Perms -> Apps] /\ Apps \subseteq Seq(STRING)
ASSUME FiniteAssumption == IsFiniteSet(Users) /\ IsFiniteSet(Perms)
ASSUME BoundAssumption == MaxDecisions \in Nat /\ MaxEdits \in Nat

(* A route by which a person reaches a permission, and what an item asks about. *)
Route == Users \X Roles \X Perms
Pair == Users \X Perms
Item == Campaigns \X Pair
Decisions == {"kept", "revoked"}
Answers == Decisions \cup {"pending"}
Scopes == {<<"all", None>>} \cup {<<"app", a>> : a \in Apps} \cup {<<"role", r>> : r \in Roles}

VARIABLES
  status,    \* sso_review_campaigns.status; "none" before the INSERT
  scope,     \* scope and scope_ref
  opening,   \* where the transaction of an Open stands
  copy,      \* the items it has inserted and not committed
  via,       \* sso_review_items: the role an item names; None where there is no item
  answer,    \* sso_review_items.status
  trail,     \* sso_review_decisions; that they stand in the order of commit is history
  closedAt,  \* history: the number of decide requests begun when a campaign closed
  asked,     \* the number of items the handler of Open answered and put in the audit
  report,    \* the counts the handler of Close answered and put in the audit
  rbac,      \* the core: the routes that exist now
  edits,     \* changes to rbac so far
  begun,     \* decide requests begun so far; the start time of the latest
  step,      \* where a decide request stands
  item,      \* the item it decides on
  choice,    \* its decision
  at,        \* the start of its transaction
  shown,     \* the answer its reader was shown
  audit      \* the platform's audit: items and the decisions entered for them

campaignVars == <<status, scope, opening, copy, closedAt, asked, report>>
itemVars == <<via, answer, trail>>
coreVars == <<rbac, edits>>
decideVars == <<begun, step, item, choice, at, shown, audit>>
vars == <<campaignVars, itemVars, coreVars, decideVars>>

Steps == {"idle", "begun", "matched", "written", "committed", "answered"}

(* A decision as the audit is given it, and as a row: at is created_at, the    *)
(* start of its transaction and all that the table knows of its place; end is *)
(* history, the number of decide requests begun when it committed.             *)
AuditEntry == [decision : Decisions, at : Nat]
Entry == [decision : Decisions, at : Nat, end : Nat]

TypeOK ==
  /\ status \in [Campaigns -> {"none", "draft", "open", "closed"}]
  /\ scope \in [Campaigns -> Scopes]
  /\ opening \in [Campaigns -> {"no", "locked", "copied", "opened", "answered"}]
  /\ copy \in [Campaigns -> [Pair -> Roles \cup {None}]]
  /\ via \in [Campaigns -> [Pair -> Roles \cup {None}]]
  /\ answer \in [Campaigns -> [Pair -> Answers]]
  /\ trail \in [Campaigns -> [Pair -> Seq(Entry)]]
  /\ closedAt \in [Campaigns -> Nat]
  /\ asked \in [Campaigns -> Nat]
  /\ report \in [Campaigns -> (Nat \X Nat) \cup {None}]
  /\ rbac \in SUBSET Route
  /\ edits \in Nat
  /\ begun \in Nat
  /\ step \in [Reviewers -> Steps]
  /\ item \in [Reviewers -> Item \cup {None}]
  /\ choice \in [Reviewers -> Decisions]
  /\ at \in [Reviewers -> Nat]
  /\ shown \in [Reviewers -> Answers]
  /\ audit \in SUBSET (Item \X AuditEntry)

NoItems == [q \in Pair |-> None]

Init ==
  /\ status = [c \in Campaigns |-> "none"]
  /\ scope = [c \in Campaigns |-> <<"all", None>>]
  /\ opening = [c \in Campaigns |-> "no"]
  /\ copy = [c \in Campaigns |-> NoItems]
  /\ via = [c \in Campaigns |-> NoItems]
  /\ answer = [c \in Campaigns |-> [q \in Pair |-> "pending"]]
  /\ trail = [c \in Campaigns |-> [q \in Pair |-> <<>>]]
  /\ closedAt = [c \in Campaigns |-> 0]
  /\ asked = [c \in Campaigns |-> 0]
  /\ report = [c \in Campaigns |-> None]
  /\ rbac \in SUBSET Route
  /\ edits = 0
  /\ begun = 0
  /\ step = [r \in Reviewers |-> "idle"]
  /\ item = [r \in Reviewers |-> None]
  /\ choice = [r \in Reviewers |-> "kept"]
  /\ at = [r \in Reviewers |-> 0]
  /\ shown = [r \in Reviewers |-> "pending"]
  /\ audit = {}

(***************************************************************************)
(* Campaigns                                                               *)
(***************************************************************************)
CreateCampaign(c, s) ==
  /\ status[c] = "none"
  /\ status' = [status EXCEPT ![c] = "draft"]
  /\ scope' = [scope EXCEPT ![c] = s]
  /\ UNCHANGED <<opening, copy, closedAt, asked, report, itemVars, coreVars, decideVars>>

(* Mutant: an open campaign can be opened again. *)
OpensAgain(c) == status[c] \in {"draft", "open"}

(* UPDATE ... WHERE status = 'draft': the row's lock keeps a second Open      *)
(* waiting, which then finds the row no longer a draft.                       *)
Openable(c) == status[c] = "draft"

OpenBegin(c) ==
  /\ Openable(c)
  /\ opening[c] \in {"no", "answered"}
  /\ opening' = [opening EXCEPT ![c] = "locked"]
  /\ UNCHANGED <<status, scope, copy, closedAt, asked, report, itemVars, coreVars, decideVars>>

(* LIKE ref || '.%': an underscore of ref stands for any one character (a    *)
(* percent sign in a code is left out).                                       *)
Matches(ref, app) ==
  Len(ref) = Len(app) /\ \A i \in 1..Len(ref) : ref[i] \in {"_", app[i]}

Covers(s, role, p) ==
  /\ s[1] = "app" => Matches(s[2], AppOf[p])
  /\ s[1] = "role" => role = s[2]

(* The roles through which the campaign's scope sees one person's permission. *)
RoutesTo(c, q) == {role \in Roles : <<q[1], role, q[2]>> \in rbac /\ Covers(scope[c], role, q[2])}

(* INSERT ... SELECT ... ON CONFLICT DO NOTHING: one item per person and      *)
(* permission, naming one of the routes.                                      *)
Snapshots(c) ==
  {f \in [Pair -> Roles \cup {None}] :
     \A q \in Pair : IF RoutesTo(c, q) = {} THEN f[q] = None ELSE f[q] \in RoutesTo(c, q)}

OpenCopy(c, f) ==
  /\ opening[c] = "locked"
  /\ f \in Snapshots(c)
  /\ copy' = [copy EXCEPT ![c] = f]
  /\ opening' = [opening EXCEPT ![c] = "copied"]
  /\ UNCHANGED <<status, scope, closedAt, asked, report, itemVars, coreVars, decideVars>>

OpenCommit(c) ==
  /\ opening[c] = "copied"
  /\ status' = [status EXCEPT ![c] = "open"]
  /\ via' = [via EXCEPT ![c] = copy[c]]
  /\ opening' = [opening EXCEPT ![c] = "opened"]
  /\ copy' = [copy EXCEPT ![c] = NoItems]
  /\ UNCHANGED <<scope, closedAt, asked, report, answer, trail, coreVars, decideVars>>

(* Mutant: the routes that reach a person are counted, not the items. *)
CountsRoutes(c) ==
  Cardinality({g \in Route : g[2] \in RoutesTo(c, <<g[1], g[3]>>)})

Total(c) == Cardinality({q \in Pair : via[c][q] # None})

(* The read after the commit, in a statement of its own: what the audit is given. *)
OpenAnswer(c) ==
  /\ opening[c] = "opened"
  /\ asked' = [asked EXCEPT ![c] = Total(c)]
  /\ opening' = [opening EXCEPT ![c] = "answered"]
  /\ UNCHANGED <<status, scope, copy, closedAt, report, itemVars, coreVars, decideVars>>

(* A statement fails, the console disconnects or the process dies; after the  *)
(* commit, only the answer is lost.                                           *)
OpenFails(c) ==
  /\ opening[c] \in {"locked", "copied", "opened"}
  /\ opening' = [opening EXCEPT ![c] = "no"]
  /\ copy' = [copy EXCEPT ![c] = NoItems]
  /\ UNCHANGED <<status, scope, closedAt, asked, report, itemVars, coreVars, decideVars>>

Close(c) ==
  /\ status[c] = "open"
  /\ status' = [status EXCEPT ![c] = "closed"]
  /\ closedAt' = [closedAt EXCEPT ![c] = begun]
  /\ UNCHANGED <<scope, opening, copy, asked, report, itemVars, coreVars, decideVars>>

(* pending and revoked, as GetCampaign counts them. *)
Counts(c) ==
  LET Having(a) == Cardinality({q \in Pair : via[c][q] # None /\ answer[c][q] = a})
  IN  <<Having("pending"), Having("revoked")>>

(* The read after the UPDATE, in a statement of its own. *)
CloseReport(c) ==
  /\ status[c] = "closed"
  /\ report[c] = None
  /\ report' = [report EXCEPT ![c] = Counts(c)]
  /\ UNCHANGED <<status, scope, opening, copy, closedAt, asked, itemVars, coreVars, decideVars>>

(***************************************************************************)
(* Decisions                                                               *)
(***************************************************************************)
CampaignOf(r) == item[r][1]
PairOf(r) == item[r][2]

DecideBegin(r, i, d) ==
  /\ step[r] \in {"idle", "answered"}
  /\ begun < MaxDecisions
  /\ begun' = begun + 1
  /\ step' = [step EXCEPT ![r] = "begun"]
  /\ item' = [item EXCEPT ![r] = i]
  /\ choice' = [choice EXCEPT ![r] = d]
  /\ at' = [at EXCEPT ![r] = begun']
  /\ UNCHANGED <<campaignVars, itemVars, coreVars, shown, audit>>

(* Mutant: a closed campaign still takes decisions. *)
AnyButDraft(c) == status[c] # "draft"

(* UPDATE ... FROM sso_review_campaigns c ... AND c.status = 'open' *)
TakesDecisions(c) == status[c] = "open"

(* Mutant: the item itself is not looked for. *)
OnlyCampaignMatters(r) == TakesDecisions(CampaignOf(r))

Decidable(r) == TakesDecisions(CampaignOf(r)) /\ via[CampaignOf(r)][PairOf(r)] # None

Goto(r, s) ==
  /\ step' = [step EXCEPT ![r] = s]
  /\ UNCHANGED <<begun, item, choice, at, shown, audit>>

(* The snapshot of the UPDATE: the campaign's status is read here, and read *)
(* no more, while the campaign's row is not locked.                         *)
DecideMatch(r) ==
  /\ step[r] = "begun"
  /\ Decidable(r)
  /\ Goto(r, "matched")
  /\ UNCHANGED <<campaignVars, itemVars, coreVars>>

DecideRefused(r) ==
  /\ step[r] = "begun"
  /\ ~Decidable(r)
  /\ Goto(r, "idle")
  /\ UNCHANGED <<campaignVars, itemVars, coreVars>>

(* The item's row lock: a concurrent decision on the item is waited for. *)
DecideWrite(r) ==
  /\ step[r] = "matched"
  /\ \A o \in Reviewers : step[o] = "written" => item[o] # item[r]
  /\ Goto(r, "written")
  /\ UNCHANGED <<campaignVars, itemVars, coreVars>>

(* The row of a decision: begun is the clock when its transaction commits. *)
Row(r) == [decision |-> choice[r], at |-> at[r], end |-> begun]

(* Mutants: the campaign's status is written to the item; an item that was   *)
(* answered keeps its answer; the last decision replaces the others.         *)
WritesCampaignStatus(r) == [answer EXCEPT ![CampaignOf(r)][PairOf(r)] = status[CampaignOf(r)]]
KeepsFirstAnswer(r) ==
  [answer EXCEPT ![CampaignOf(r)][PairOf(r)] = IF @ = "pending" THEN choice[r] ELSE @]
RemembersLast(r) == [trail EXCEPT ![CampaignOf(r)][PairOf(r)] = <<Row(r)>>]

(* What the transaction leaves: the current answer and one more decision. *)
Answered(r) == [answer EXCEPT ![CampaignOf(r)][PairOf(r)] = choice[r]]
Recorded(r) == [trail EXCEPT ![CampaignOf(r)][PairOf(r)] = Append(@, Row(r))]

DecideCommit(r) ==
  /\ step[r] = "written"
  /\ answer' = Answered(r)
  /\ trail' = Recorded(r)
  /\ Goto(r, "committed")
  /\ UNCHANGED <<via, campaignVars, coreVars>>

(* Mutant: the item is read outside the transaction, before it commits. *)
ReadsBeforeCommit(r) ==
  LET h == trail[CampaignOf(r)][PairOf(r)]
  IN  IF Len(h) = 1 THEN "pending" ELSE h[Len(h) - 1].decision

(* Decide reads the item again: another reviewer may have decided since. *)
ReadBack(r) == answer[CampaignOf(r)][PairOf(r)]

(* Mutant: the audit is given the decision of the item read back. *)
EntersTheAnswer(r) == audit \cup {<<item[r], [decision |-> ReadBack(r), at |-> at[r]]>>}

(* The audit is given the request's own decision. *)
Entered(r) == audit \cup {<<item[r], [decision |-> choice[r], at |-> at[r]]>>}

DecideAnswer(r) ==
  /\ step[r] = "committed"
  /\ step' = [step EXCEPT ![r] = "answered"]
  /\ shown' = [shown EXCEPT ![r] = ReadBack(r)]
  /\ audit' = Entered(r)
  /\ UNCHANGED <<campaignVars, itemVars, coreVars, begun, item, choice, at>>

(* After the commit the decision stands, and is neither answered nor audited. *)
DecideFails(r) ==
  /\ step[r] \in {"begun", "matched", "written", "committed"}
  /\ Goto(r, "idle")
  /\ UNCHANGED <<campaignVars, itemVars, coreVars>>

(***************************************************************************)
(* The core: roles are granted and taken at any time                       *)
(***************************************************************************)
EditRbac(g) ==
  /\ edits < MaxEdits
  /\ edits' = edits + 1
  /\ rbac' = IF g \in rbac THEN rbac \ {g} ELSE rbac \cup {g}
  /\ UNCHANGED <<campaignVars, itemVars, decideVars>>

Manage(c) ==
  \/ \E s \in Scopes : CreateCampaign(c, s)
  \/ OpenBegin(c)
  \/ \E f \in Snapshots(c) : OpenCopy(c, f)
  \/ OpenCommit(c) \/ OpenAnswer(c) \/ OpenFails(c)
  \/ Close(c) \/ CloseReport(c)

Decide(r) ==
  \/ \E i \in Item, d \in Decisions : DecideBegin(r, i, d)
  \/ DecideMatch(r) \/ DecideRefused(r) \/ DecideWrite(r)
  \/ DecideCommit(r) \/ DecideAnswer(r) \/ DecideFails(r)

Next ==
  \/ \E c \in Campaigns : Manage(c)
  \/ \E r \in Reviewers : Decide(r)
  \/ \E g \in Route : EditRbac(g)

Spec == Init /\ [][Next]_vars

(***************************************************************************)
(* Properties                                                              *)
(***************************************************************************)
Last(h) == h[Len(h)]

(* The item carries the current answer (the comment on Decide, store.go):   *)
(* it is pending exactly until its first decision, and then shows one that  *)
(* no other follows: every stored decision began before that one committed. *)
(* Which of two that overlap it shows is decided by the item's row lock and *)
(* not by created_at, so the newest row may be the other one's.             *)
AnswerIsCurrent ==
  \A c \in Campaigns, q \in Pair :
    LET h == trail[c][q]
    IN  IF h = <<>> THEN answer[c][q] = "pending"
        ELSE \E m \in 1..Len(h) : /\ answer[c][q] = h[m].decision
                                  /\ \A n \in 1..Len(h) : h[n].at <= h[m].end

(* Only an item of a campaign that was opened has been decided on.          *)
DecidedOnlyIfAsked ==
  \A c \in Campaigns, q \in Pair :
    trail[c][q] # <<>> => status[c] \in {"open", "closed"} /\ via[c][q] # None

(* A request begun after a campaign closed leaves no decision in it.        *)
NothingBegunAfterClose ==
  \A c \in Campaigns, q \in Pair :
    status[c] = "closed" => \A n \in 1..Len(trail[c][q]) : trail[c][q][n].at <= closedAt[c]

(* A step of a campaign goes from draft to open to closed, and what it asks *)
(* is frozen from the moment it opens: no later change of RBAC, no second   *)
(* Open and no failure rewrites what a reviewer attests to.                 *)
FrozenOnceOpen ==
  [][\A c \in Campaigns :
       status[c] \in {"open", "closed"} =>
         /\ via'[c] = via[c] /\ scope'[c] = scope[c]
         /\ status'[c] \in (IF status[c] = "open" THEN {"open", "closed"} ELSE {"closed"})]_vars

(* No decision is lost or rewritten: the trail of an item only grows.       *)
TrailOnlyGrows ==
  [][\A c \in Campaigns, q \in Pair :
       /\ Len(trail[c][q]) <= Len(trail'[c][q])
       /\ \A n \in 1..Len(trail[c][q]) : trail'[c][q][n] = trail[c][q][n]]_vars

(* A reviewer is shown the decision just made, or a later one of another     *)
(* reviewer, never an earlier one (the read after the commit in Decide).     *)
AnswerIsOwnOrLater ==
  \A r \in Reviewers :
    step[r] = "answered" =>
      LET h == trail[CampaignOf(r)][PairOf(r)]
      IN  \E m, n \in 1..Len(h) : m <= n /\ h[m].at = at[r] /\ h[n].decision = shown[r]

(* The audit says of a request what it decided, and is never ahead of the    *)
(* trail: a crash between the two loses the audit's entry only (handleDecide). *)
AuditIsTrue ==
  \A a \in audit :
    LET h == trail[a[1][1]][a[1][2]]
    IN  \E n \in 1..Len(h) : h[n].decision = a[2].decision /\ h[n].at = a[2].at

(* The number of items Open answered stays the number of decisions the       *)
(* campaign asks for, whatever the core changed meanwhile (handleOpen).      *)
AskedIsTrue ==
  \A c \in Campaigns : opening[c] = "answered" => asked[c] = Total(c)

(* A request past its snapshot decides on an item that was asked about, and  *)
(* began before its campaign closed.                                         *)
InFlight ==
  \A r \in Reviewers :
    /\ at[r] <= begun
    /\ step[r] # "idle" => item[r] \in Item
    /\ step[r] \in {"matched", "written"} =>
         /\ status[CampaignOf(r)] \in {"open", "closed"}
         /\ via[CampaignOf(r)][PairOf(r)] # None
         /\ status[CampaignOf(r)] = "closed" => at[r] <= closedAt[CampaignOf(r)]

OnlyDraftsOpen ==
  \A c \in Campaigns :
    /\ opening[c] \in {"locked", "copied"} => status[c] = "draft"
    /\ opening[c] \in {"opened", "answered"} => status[c] \in {"open", "closed"}

(* The decision of a request that committed is in the trail. *)
Landed ==
  \A r \in Reviewers :
    step[r] = "committed" =>
      LET h == trail[CampaignOf(r)][PairOf(r)]
      IN  \E m \in 1..Len(h) : h[m].decision = choice[r] /\ h[m].at = at[r]

(* The answer is that of the last transaction to commit, and every decision *)
(* of its trail had begun by then.                                          *)
AnswerIsLastCommitted ==
  \A c \in Campaigns, q \in Pair :
    answer[c][q] = IF trail[c][q] = <<>> THEN "pending" ELSE Last(trail[c][q]).decision
TrailDated ==
  \A c \in Campaigns, q \in Pair : \A n \in 1..Len(trail[c][q]) :
    trail[c][q][n].at <= begun /\ trail[c][q][n].at <= Last(trail[c][q]).end

(* The inductive invariant: what makes the properties above hold together.   *)
IInv ==
  /\ TypeOK
  /\ AnswerIsLastCommitted
  /\ DecidedOnlyIfAsked
  /\ NothingBegunAfterClose
  /\ InFlight
  /\ OnlyDraftsOpen
  /\ TrailDated
  /\ Landed
  /\ AnswerIsOwnOrLater
  /\ AuditIsTrue
  /\ AskedIsTrue

(* The counts reported as final stay true: no decision is changed after it  *)
(* was reported (the comments on Close and on sso_review_campaigns).        *)
ReportStaysTrue ==
  \A c \in Campaigns : report[c] # None => report[c] = Counts(c)

(* An app scope copies that app's permissions and nothing else.             *)
AppScopeIsExact ==
  \A c \in Campaigns, q \in Pair :
    via[c][q] # None /\ scope[c][1] = "app" => AppOf[q[2]] = scope[c][2]
=============================================================================
