------------------------------- MODULE Sessions -------------------------------
(***************************************************************************)
(* modules/sessions: an administrator ends one session, or all the         *)
(* sessions a person holds in an organisation, and each ending leaves a    *)
(* row that says who ordered it.  The sessions themselves are the core's:  *)
(* it creates, ends, expires and deletes them at any time.                 *)
(*                                                                         *)
(* A revocation is one transaction, cut where the database cuts it: its    *)
(* start (NOW() never moves after it), the snapshot of its UPDATE, each    *)
(* row lock, waited for in an order nobody chose, and the commit.          *)
(* What the handlers do after it, an entry in the platform's audit         *)
(* (sessions.go, lines 142-143 and 171-172) and the answer's body, touches *)
(* none of these tables: the record kept here is the event row.            *)
(***************************************************************************)
EXTENDS Naturals, FiniteSets

CONSTANTS
  Sessions,
  Holders,     \* a person in an organisation
  Requests,    \* revocations that may be in flight together
  None,        \* nobody, nothing
  CoreItself,  \* the core ended a session, not this module
  HolderOf     \* whose session it is

ASSUME HolderAssumption == HolderOf \in [Sessions -> Holders]
ASSUME NobodyAssumption == None \notin Requests \cup Sessions /\ CoreItself \notin Requests
ASSUME FiniteAssumption == IsFiniteSet(Sessions)

VARIABLES
  row,      \* sessions: no row yet, revoked_at NULL, revoked_at set, deleted
  expired,  \* sessions whose expires_at has passed
  by,       \* history: the transaction that set revoked_at
  events,   \* sso_session_events: the requests that recorded the session
  step,     \* where a request stands
  wanted,   \* the sessions its WHERE clause names
  single,   \* Revoke (one session), not RevokeAllFor
  fresh,    \* the sessions with expires_at > NOW()
  todo,     \* rows its UPDATE's snapshot found and it has not locked
  next,     \* the row it is about to lock
  mine,     \* rows it has locked and updated
  count,    \* what it answered: the sessions it ended
  known     \* history: what a listing shows at the snapshot of its UPDATE

coreVars == <<row, expired, by, events>>
askVars == <<wanted, single, fresh, known>>
workVars == <<todo, next, mine>>
vars == <<coreVars, step, askVars, workVars, count>>

Steps == {"idle", "begun", "updating", "done", "refused", "failed"}

TypeOK ==
  /\ row \in [Sessions -> {"none", "running", "revoked", "gone"}]
  /\ expired \in SUBSET Sessions
  /\ by \in [Sessions -> Requests \cup {None, CoreItself}]
  /\ events \in [Sessions -> SUBSET Requests]
  /\ step \in [Requests -> Steps]
  /\ wanted \in [Requests -> SUBSET Sessions]
  /\ single \in [Requests -> BOOLEAN]
  /\ fresh \in [Requests -> SUBSET Sessions]
  /\ todo \in [Requests -> SUBSET Sessions]
  /\ next \in [Requests -> Sessions \cup {None}]
  /\ mine \in [Requests -> SUBSET Sessions]
  /\ count \in [Requests -> Nat]
  /\ known \in [Requests -> SUBSET Sessions]

Init ==
  /\ row = [s \in Sessions |-> "none"]
  /\ expired = {}
  /\ by = [s \in Sessions |-> None]
  /\ events = [s \in Sessions |-> {}]
  /\ step = [r \in Requests |-> "idle"]
  /\ wanted = [r \in Requests |-> {}]
  /\ single = [r \in Requests |-> FALSE]
  /\ fresh = [r \in Requests |-> {}]
  /\ todo = [r \in Requests |-> {}]
  /\ next = [r \in Requests |-> None]
  /\ mine = [r \in Requests |-> {}]
  /\ count = [r \in Requests |-> 0]
  /\ known = [r \in Requests |-> {}]

Running(s) == row[s] = "running"
Active(s) == Running(s) /\ s \notin expired
Locked(s) == \E r \in Requests : s \in mine[r]

(* List: what the console shows of the sessions of an organisation or a person. *)
Listed(S) == {s \in S : Active(s)}

(***************************************************************************)
(* The core's sessions                                                     *)
(***************************************************************************)
Login(s) ==
  /\ row[s] = "none"
  /\ row' = [row EXCEPT ![s] = "running"]
  /\ UNCHANGED <<expired, by, events, step, askVars, workVars, count>>

Expire(s) ==
  /\ Active(s)
  /\ expired' = expired \cup {s}
  /\ UNCHANGED <<row, by, events, step, askVars, workVars, count>>

Logout(s) ==
  /\ Running(s)
  /\ ~Locked(s)
  /\ row' = [row EXCEPT ![s] = "revoked"]
  /\ by' = [by EXCEPT ![s] = CoreItself]
  /\ UNCHANGED <<expired, events, step, askVars, workVars, count>>

(* session_id is no foreign key: what was done to a session outlives it. *)
CoreDeletes(s) ==
  /\ row[s] \in {"running", "revoked"}
  /\ s \in expired
  /\ ~Locked(s)
  /\ row' = [row EXCEPT ![s] = "gone"]
  /\ UNCHANGED <<expired, by, events, step, askVars, workVars, count>>

(***************************************************************************)
(* A revocation                                                            *)
(***************************************************************************)
Begin(r, S) ==
  /\ step[r] = "idle"
  /\ step' = [step EXCEPT ![r] = "begun"]
  /\ wanted' = [wanted EXCEPT ![r] = S]
  /\ fresh' = [fresh EXCEPT ![r] = Sessions \ expired]
  /\ UNCHANGED <<coreVars, workVars, count, known>>

Revoke(r, s) == Begin(r, {s}) /\ single' = [single EXCEPT ![r] = TRUE]

HeldBy(h) == {s \in Sessions : HolderOf[s] = h}
RevokeAllFor(r, h) == Begin(r, HeldBy(h)) /\ single' = [single EXCEPT ![r] = FALSE]

(* live: revoked_at IS NULL AND expires_at > NOW(), by the clock of the start. *)
IsLive(r, s) == Running(s) /\ s \in fresh[r]

(* Mutant: rows that somebody holds are skipped. *)
FoundUnlocked(r) == {s \in wanted[r] : IsLive(r, s) /\ ~Locked(s)}

(* What the snapshot of the UPDATE sees: the uncommitted work of others is not in it. *)
Found(r) == {s \in wanted[r] : IsLive(r, s)}

Update(r) ==
  /\ step[r] = "begun"
  /\ step' = [step EXCEPT ![r] = "updating"]
  /\ todo' = [todo EXCEPT ![r] = Found(r)]
  /\ known' = [known EXCEPT ![r] = Listed(wanted[r])]
  /\ UNCHANGED <<coreVars, wanted, single, fresh, next, mine, count>>

Reach(r, s) ==
  /\ step[r] = "updating"
  /\ next[r] = None
  /\ s \in todo[r]
  /\ next' = [next EXCEPT ![r] = s]
  /\ UNCHANGED <<coreVars, step, askVars, todo, mine, count>>

(* A second writer of a row waits for the first one's transaction ... *)
CanLock(r) == next[r] # None /\ ~Locked(next[r])

(* Mutant: a row that was waited for is taken as it was first seen. *)
TakesAnyway(r) == TRUE

(* ... and then looks again: a row that was ended meanwhile is left alone. *)
StillLive(r) == IsLive(r, next[r])

Take(r) ==
  /\ CanLock(r)
  /\ \/ StillLive(r) /\ mine' = [mine EXCEPT ![r] = @ \cup {next[r]}]
     \/ ~StillLive(r) /\ UNCHANGED mine
  /\ todo' = [todo EXCEPT ![r] = @ \ {next[r]}]
  /\ next' = [next EXCEPT ![r] = None]
  /\ UNCHANGED <<coreVars, step, askVars, count>>

Finished(r) == step[r] = "updating" /\ todo[r] = {} /\ next[r] = None

(* Revoke, when the UPDATE matched nothing: the transaction is rolled back. *)
NotFound(r) ==
  /\ Finished(r)
  /\ single[r] /\ mine[r] = {}
  /\ step' = [step EXCEPT ![r] = "refused"]
  /\ UNCHANGED <<coreVars, askVars, workVars, count>>

(* Mutant: the actor is read from the row as it was before the UPDATE. *)
RecordsEarlierActor(r) ==
  [s \in Sessions |-> IF s \in mine[r] THEN events[s] \cup {by[s]} ELSE events[s]]

(* One event row for each id the UPDATE returned. *)
Recorded(r) == [s \in Sessions |-> IF s \in mine[r] THEN events[s] \cup {r} ELSE events[s]]

(* Mutant: the sessions that were found, ended by this request or not. *)
CountsTheFound(r) == Cardinality(known[r])

Ended(r) == Cardinality(mine[r])

Commit(r) ==
  /\ Finished(r)
  /\ single[r] => mine[r] # {}
  /\ step' = [step EXCEPT ![r] = "done"]
  /\ row' = [s \in Sessions |-> IF s \in mine[r] THEN "revoked" ELSE row[s]]
  /\ by' = [s \in Sessions |-> IF s \in mine[r] THEN r ELSE by[s]]
  /\ events' = Recorded(r)
  /\ count' = [count EXCEPT ![r] = Ended(r)]
  /\ mine' = [mine EXCEPT ![r] = {}]
  /\ UNCHANGED <<expired, askVars, todo, next>>

(* Mutant: the transaction of a request that failed is left open. *)
LocksLeftBehind(r) == mine

(* The deferred Rollback releases every row. *)
Released(r) == [mine EXCEPT ![r] = {}]

Rollback(r) ==
  /\ step' = [step EXCEPT ![r] = "failed"]
  /\ todo' = [todo EXCEPT ![r] = {}]
  /\ next' = [next EXCEPT ![r] = None]
  /\ mine' = Released(r)
  /\ UNCHANGED <<coreVars, askVars, count>>

(* A statement fails, the console disconnects or the process dies. *)
Fails(r) ==
  /\ step[r] \in {"begun", "updating"}
  /\ Rollback(r)

(* Requests that wait for each other's rows: the database ends one of them. *)
Deadlocked(r) ==
  \E C \in SUBSET Requests :
    /\ r \in C
    /\ \A q \in C : next[q] # None /\ \E p \in C : p # q /\ next[q] \in mine[p]
    /\ \A q \in C : \E p \in C : p # q /\ next[p] \in mine[q]

DeadlockVictim(r) ==
  /\ Deadlocked(r)
  /\ Rollback(r)

Core ==
  \E s \in Sessions : Login(s) \/ Expire(s) \/ Logout(s) \/ CoreDeletes(s)

Ask(r) ==
  \/ \E s \in Sessions : Revoke(r, s)
  \/ \E h \in Holders : RevokeAllFor(r, h)

Work(r) ==
  \/ Update(r)
  \/ \E s \in todo[r] : Reach(r, s)
  \/ Take(r)
  \/ NotFound(r) \/ Commit(r)
  \/ DeadlockVictim(r)

Next ==
  \/ Core
  \/ \E r \in Requests : Ask(r) \/ Work(r) \/ Fails(r)

Spec == Init /\ [][Next]_vars

(* A handler that began goes on; a lock that is free is granted. *)
FairSpec == Spec /\ \A r \in Requests : WF_vars(Work(r))

(***************************************************************************)
(* Properties                                                              *)
(***************************************************************************)

(* A session this module ended has exactly one record, by the request that   *)
(* ended it, and no other session has any, whether requests race each other, *)
(* the core's logout or the deletion of the row (Revoke, store.go).          *)
RecordedExactly ==
  \A s \in Sessions : events[s] = {by[s]} \cap Requests

(* Once a revocation is answered, no listing shows a session that one taken   *)
(* at its UPDATE would have shown: neither a session created until then nor   *)
(* one that another request held, and kept by failing, is missed (live and    *)
(* RevokeAllFor, store.go).                                                   *)
NoneMissed ==
  \A r \in Requests : step[r] \in {"done", "refused"} => known[r] \cap Listed(wanted[r]) = {}

(* What RevokeAllFor answers is the number of sessions it ended itself.      *)
CountIsTrue ==
  \A r \in Requests : step[r] = "done" => count[r] = Cardinality({s \in Sessions : by[s] = r})

(* A row has one writer, and stays as it was found while its writer holds it. *)
OneWriter ==
  /\ \A r, q \in Requests : r # q => mine[r] \cap mine[q] = {}
  /\ \A r \in Requests : \A s \in mine[r] : Running(s)

(* Where a request stands: it works only while it updates; its clock is behind  *)
(* the database's; and what was active at its snapshot is still to be locked,   *)
(* locked, or no longer active.                                                 *)
InHand ==
  \A r \in Requests :
    /\ step[r] # "updating" => todo[r] = {} /\ mine[r] = {} /\ next[r] = None
    /\ next[r] # None => next[r] \in todo[r]
    /\ \A s \in known[r] : row[s] # "none"
    /\ step[r] = "begun" => Sessions \ expired \subseteq fresh[r]
    /\ step[r] = "updating" => known[r] \subseteq wanted[r] \cap fresh[r]
    /\ step[r] = "updating" => \A s \in known[r] : Active(s) => s \in todo[r] \cup mine[r]

(* Who ended a session: nobody while it runs, and a request only by its commit. *)
Traceable ==
  /\ \A s \in Sessions : row[s] \in {"none", "running"} => by[s] = None
  /\ \A s \in Sessions : by[s] \in Requests => step[by[s]] = "done"

(* The inductive invariant: what makes the properties above hold together.   *)
IInv ==
  TypeOK /\ RecordedExactly /\ NoneMissed /\ CountIsTrue /\ OneWriter /\ InHand /\ Traceable

(* Nobody waits for ever: requests that hold each other's rows, or wait for  *)
(* one that failed, are answered in the end.                                 *)
EveryoneAnswered ==
  \A r \in Requests : step[r] = "begun" ~> step[r] \in {"done", "refused", "failed"}
=============================================================================
