------------------------------ MODULE Federation ------------------------------
(***************************************************************************)
(* modules/federation: the identity providers each organisation trusts.    *)
(* An administrator registers, edits, disables and removes them; the       *)
(* client secret is sealed on the way in and never read back, so a console *)
(* edits a row whose secret it cannot see.                                 *)
(*                                                                         *)
(* A handler is cut at its statements, which commit one by one: the checks *)
(* and the sealing (no statement yet), the write, the read of the row for  *)
(* the answer, the audit entry, the answer.  It may fail between any two.  *)
(***************************************************************************)
EXTENDS SecretBox, Naturals, Sequences

CONSTANTS
  Providers,  \* ids, each given out once
  Tenants,
  Origins,    \* https origins
  Clients,    \* client ids
  Secrets,    \* client secrets; nothing ties one to a client id
  Replicas,   \* processes, each with its own environment
  Requests,   \* requests of a behaviour, each used once
  None

(* What a form says of the issuer: an origin, with or without slashes behind *)
(* it, or what is no origin (a path, a query, http, nothing).  Other ways to *)
(* spell one address (capitals, ":443", a bare "?") are origins of their own,*)
(* as they are to validate and to the UNIQUE.                                *)
Typed == [origin : Origins, end : {"", "/", "/path"}]

Row == [tenant : Tenants, issuer : Typed, client : Clients,
        secret : SealedOf(Secrets), enabled : BOOLEAN]

(* None is no value of any other kind. *)
ASSUME NoneAssumption ==
  None \notin Providers \cup Clients \cup Secrets /\ None \notin Typed /\ None \notin Row
    /\ None \notin SealedOf(Secrets)

VARIABLES
  prov,     \* sso_federation_providers; None where there is no row
  given,    \* ids a row has had
  box,      \* the Box each process opened at its start
  step,     \* where a request stands, or how it was answered
  ask,      \* what it asks
  sealed,   \* the sealed secret it brings; None for an edit without one
  at,       \* the process that serves it
  written,  \* history: the requests that changed a row
  audited,  \* nexus.Audit: the requests with an entry
  forms     \* history: the requests whose forms a row was written with, in order

rowVars == <<prov, given>>
requestVars == <<ask, sealed, at>>
historyVars == <<written, audited, forms>>
vars == <<rowVars, box, step, requestVars, historyVars>>

Forms == {"create", "edit"}
Ops == Forms \cup {"enable", "disable", "delete"}
Ask == [op : Ops, tenant : Tenants, id : Providers \cup {None},
        issuer : Typed \cup {None}, client : Clients \cup {None}]
InFlight == {"checked", "written", "stands", "audited"}
Refusals == {"invalid", "nokey", "conflict", "missing"}

TypeOK ==
  /\ prov \in [Providers -> Row \cup {None}]
  /\ given \in SUBSET Providers
  /\ box \in [Replicas -> Boxes]
  /\ step \in [Requests -> {"idle", "ok", "failed"} \cup InFlight \cup Refusals]
  /\ ask \in [Requests -> Ask \cup {None}]
  /\ sealed \in [Requests -> SealedOf(Secrets) \cup {None}]
  /\ at \in [Requests -> Replicas \cup {None}]
  /\ written \in SUBSET Requests
  /\ audited \in SUBSET Requests
  /\ forms \in [Providers -> Seq(Requests)]

Init ==
  /\ prov = [p \in Providers |-> None]
  /\ given = {}
  /\ box \in [Replicas -> {Open(s) : s \in Settings}]
  /\ step = [q \in Requests |-> "idle"]
  /\ ask = [q \in Requests |-> None]
  /\ sealed = [q \in Requests |-> None]
  /\ at = [q \in Requests |-> None]
  /\ written = {}
  /\ audited = {}
  /\ forms = [p \in Providers |-> <<>>]

Exists(p) == prov[p] # None

(***************************************************************************)
(* The checks of a request                                                 *)
(***************************************************************************)
(* TrimRight(issuer, "/") leaves an origin. *)
IsOrigin(issuer) == issuer.end \in {"", "/"}

(* Mutant: the issuer is checked without its slash and stored with it. *)
AsTyped(issuer) == issuer

Trimmed(issuer) == [issuer EXCEPT !.end = ""]

(* Mutant: without a key the credential is stored as it came. *)
SealsAnyway(n) == TRUE

KeyPresent(n) == CanSeal(box[n])

Refused(q, n, a, s) ==
  \/ a.issuer # None /\ ~IsOrigin(a.issuer) /\ step' = [step EXCEPT ![q] = "invalid"]
  \/ /\ a.issuer # None => IsOrigin(a.issuer)
     /\ s # None /\ ~KeyPresent(n)
     /\ step' = [step EXCEPT ![q] = "nokey"]

Accepted(q, n, a, s) ==
  /\ a.issuer # None => IsOrigin(a.issuer)
  /\ s # None => KeyPresent(n)
  /\ step' = [step EXCEPT ![q] = "checked"]
  /\ at' = [at EXCEPT ![q] = n]
  /\ \/ a.issuer = None /\ ask' = [ask EXCEPT ![q] = a]
     \/ a.issuer # None /\ ask' = [ask EXCEPT ![q] = [a EXCEPT !.issuer = Trimmed(a.issuer)]]
  /\ \/ s = None /\ UNCHANGED sealed
     \/ s # None /\ sealed' = [sealed EXCEPT ![q] = Seal(box[n], s)]

(* decode, validate and Seal.  s is the secret in the form, None without one. *)
Submit(q, n, a, s) ==
  /\ step[q] = "idle"
  /\ \/ Refused(q, n, a, s) /\ UNCHANGED requestVars
     \/ Accepted(q, n, a, s)
  /\ UNCHANGED <<rowVars, box, historyVars>>

Registrations ==
  [op : {"create"}, tenant : Tenants, id : {None}, issuer : Typed, client : Clients]

Register(q, n) == \E a \in Registrations, s \in Secrets : Submit(q, n, a, s)

(* Any id, which may be another organisation's, and any client, with a secret *)
(* or without one: a form without one leaves the stored secret as it is.      *)
Revisions ==
  [op : {"edit"}, tenant : Tenants, id : Providers, issuer : Typed, client : Clients]

Edit(q, n) == \E a \in Revisions, s \in Secrets \cup {None} : Submit(q, n, a, s)

(* An id in the path, and no form. *)
Plains ==
  [op : {"enable", "disable", "delete"}, tenant : Tenants, id : Providers,
   issuer : {None}, client : {None}]

Plain(q, n) == \E a \in Plains : Submit(q, n, a, None)

Begin(q, n) == Register(q, n) \/ Edit(q, n) \/ Plain(q, n)

(***************************************************************************)
(* Its statement                                                           *)
(***************************************************************************)
Goto(q, s) == step' = [step EXCEPT ![q] = s]

(* Mutant: the row is found by its id alone. *)
FoundById(q) == Exists(ask[q].id)

(* WHERE tenant_id = $1 AND id = $2 *)
Found(q) == Exists(ask[q].id) /\ prov[ask[q].id].tenant = ask[q].tenant

(* UNIQUE (tenant_id, issuer) *)
Taken(q) ==
  \E o \in Providers \ {ask[q].id} :
    Exists(o) /\ prov[o].tenant = ask[q].tenant /\ prov[o].issuer = ask[q].issuer

Writes(q, after) ==
  /\ Goto(q, after)
  /\ written' = written \cup {q}
  /\ UNCHANGED <<box, sealed, at, audited>>

WritesForm(q, p) ==
  /\ forms' = [forms EXCEPT ![p] = Append(@, q)]
  /\ Writes(q, "written")

Insert(q, p) ==
  /\ step[q] = "checked" /\ ask[q].op = "create"
  /\ p \notin given
  /\ ~Taken(q)
  /\ prov' = [prov EXCEPT ![p] =
       [tenant |-> ask[q].tenant, issuer |-> ask[q].issuer, client |-> ask[q].client,
        secret |-> sealed[q], enabled |-> TRUE]]
  /\ given' = given \cup {p}
  /\ ask' = [ask EXCEPT ![q].id = p]
  /\ WritesForm(q, p)

(* Mutants: COALESCE the other way round; the form's checkbox is written too. *)
KeepsStored(q) == prov[ask[q].id].secret
EnablesAgain(q) == TRUE

(* COALESCE($8, client_secret_encrypted) *)
NewSecret(q) == IF sealed[q] = None THEN prov[ask[q].id].secret ELSE sealed[q]

(* enabled is no column of an edit. *)
KeptEnabled(q) == prov[ask[q].id].enabled

Update(q) ==
  /\ step[q] = "checked" /\ ask[q].op = "edit"
  /\ Found(q)
  /\ ~Taken(q)
  /\ prov' = [prov EXCEPT ![ask[q].id] =
       [tenant |-> @.tenant, issuer |-> ask[q].issuer, client |-> ask[q].client,
        secret |-> NewSecret(q), enabled |-> KeptEnabled(q)]]
  /\ WritesForm(q, ask[q].id)
  /\ UNCHANGED <<given, ask>>

Conflict(q) ==
  /\ step[q] = "checked" /\ ask[q].op \in Forms
  /\ ask[q].op # "create" => Found(q)
  /\ Taken(q)
  /\ Goto(q, "conflict")
  /\ UNCHANGED <<rowVars, box, requestVars, historyVars>>

SetEnabled(q) ==
  /\ step[q] = "checked" /\ ask[q].op \in {"enable", "disable"}
  /\ Found(q)
  /\ prov' = [prov EXCEPT ![ask[q].id] = [@ EXCEPT !.enabled = (ask[q].op = "enable")]]
  /\ Writes(q, "stands")
  /\ UNCHANGED <<given, ask, forms>>

Delete(q) ==
  /\ step[q] = "checked" /\ ask[q].op = "delete"
  /\ Found(q)
  /\ prov' = [prov EXCEPT ![ask[q].id] = None]
  /\ Writes(q, "stands")
  /\ UNCHANGED <<given, ask, forms>>

(* Mutant: no row touched is a success like any other. *)
NoRowIsFine == "stands"

NoRowIsMissing == "missing"

(* RowsAffected() = 0: there is no such row, or it is another organisation's. *)
Missing(q) ==
  /\ step[q] = "checked" /\ ask[q].op # "create"
  /\ ~Found(q)
  /\ Goto(q, NoRowIsMissing)
  /\ UNCHANGED <<rowVars, box, requestVars, historyVars>>

(***************************************************************************)
(* Its answer                                                              *)
(***************************************************************************)
(* Create and Update read the row again: by then it may have been removed,   *)
(* which the first answers with 500 and the second with 404.                 *)
Reread(q) ==
  /\ step[q] = "written"
  /\ \/ Found(q) /\ Goto(q, "stands")
     \/ ~Found(q) /\ ask[q].op = "create" /\ Goto(q, "failed")
     \/ ~Found(q) /\ ask[q].op # "create" /\ Goto(q, "missing")
  /\ UNCHANGED <<rowVars, box, requestVars, historyVars>>

Audit(q) ==
  /\ step[q] = "stands"
  /\ audited' = audited \cup {q}
  /\ Goto(q, "audited")
  /\ UNCHANGED <<rowVars, box, requestVars, written, forms>>

Answer(q) ==
  /\ step[q] = "audited"
  /\ Goto(q, "ok")
  /\ UNCHANGED <<rowVars, box, requestVars, historyVars>>

(* A statement fails, the console disconnects or the process dies. *)
Fails(q) ==
  /\ step[q] \in InFlight
  /\ Goto(q, "failed")
  /\ UNCHANGED <<rowVars, box, requestVars, historyVars>>

(***************************************************************************)
(* Around it                                                               *)
(***************************************************************************)
(* A process starts again, perhaps with another SSO_SECRET_KEY.  The requests *)
(* it was serving have failed.                                                *)
Restart(n, setting) ==
  /\ \A q \in Requests : at[q] = n => step[q] \notin InFlight
  /\ box' = [box EXCEPT ![n] = Open(setting)]
  /\ UNCHANGED <<rowVars, step, requestVars, historyVars>>

Serve(q) ==
  \/ \E p \in Providers : Insert(q, p)
  \/ Update(q) \/ SetEnabled(q) \/ Delete(q)
  \/ Conflict(q) \/ Missing(q)
  \/ Reread(q) \/ Audit(q) \/ Answer(q) \/ Fails(q)

Next ==
  \/ \E q \in Requests, n \in Replicas : Begin(q, n)
  \/ \E q \in Requests : Serve(q)
  \/ \E n \in Replicas, s \in Settings : Restart(n, s)

Spec == Init /\ [][Next]_vars

(***************************************************************************)
(* Properties                                                              *)
(***************************************************************************)

(* An organisation never trusts one issuer under two registrations, typed    *)
(* with or without slashes behind it and whichever requests overlap (the     *)
(* UNIQUE of sso_federation_providers, and validate).                        *)
NoTwins ==
  \A p, o \in Providers :
    Exists(p) /\ Exists(o) /\ prov[p].tenant = prov[o].tenant
      /\ prov[p].issuer.origin = prov[o].issuer.origin => p = o

(* What a caller is told is what happened: a success was written and has its *)
(* audit entry, an audit entry stands for a change that was made, a refusal  *)
(* changed nothing, and "no such provider" is said of a change that was made *)
(* only when the row has been removed since.                                 *)
AnswersAreTrue ==
  /\ audited \subseteq written
  /\ \A q \in Requests :
       /\ step[q] = "ok" => q \in audited
       /\ step[q] \in {"invalid", "nokey", "conflict"} => q \notin written
       /\ step[q] = "missing" /\ q \in written => ask[q].op = "edit" /\ ~Exists(ask[q].id)

(* What an organisation signs in with is what its administrators gave it,    *)
(* though no console can read it back: a row has the client_id of the last   *)
(* form written to it and the secret of the last one that brought a secret,  *)
(* whichever forms overlapped, were refused or failed on the way (Create and *)
(* Update, store.go).  The two need not belong together: a form may bring    *)
(* another client_id and no secret.                                          *)
AsWritten(p) ==
  LET h == forms[p]
  IN  \E l, n \in 1..Len(h) :
        /\ l = Len(h) /\ prov[p].client = ask[h[l]].client
        /\ sealed[h[n]] # None /\ prov[p].secret = sealed[h[n]]
        /\ \A m \in 1..Len(h) : m > n => sealed[h[m]] = None
CredentialsAsWritten == \A p \in Providers : Exists(p) => AsWritten(p)

Serves(q) == step'[q] # step[q]

(* What a request in flight carries: a form that passed the checks. *)
Carries(q) ==
  /\ ask[q] \in Ask
  /\ ask[q].id = None <=> ask[q].op = "create" /\ step[q] = "checked"
  /\ ask[q].op \in Forms =>
       ask[q].issuer \in Typed /\ ask[q].issuer.end = "" /\ ask[q].client \in Clients
  /\ ask[q].op = "create" => sealed[q] # None

Shape == \A q \in Requests : step[q] \in InFlight => Carries(q)

(* How far a request has come, and what is left of the row it wrote. *)
Came(q) ==
  /\ step[q] = "idle" => sealed[q] = None
  /\ step[q] \in {"idle", "checked"} => q \notin written
  /\ step[q] \in {"written", "stands", "audited"} => q \in written
  /\ step[q] = "audited" => q \in audited
  /\ step[q] = "written" =>
       /\ ask[q].op \in Forms
       /\ ask[q].id \in given
       /\ Exists(ask[q].id) => prov[ask[q].id].tenant = ask[q].tenant
  /\ step[q] = "missing" /\ q \in written => ask[q].id \in given

Progress == \A q \in Requests : Came(q)

(* The rows: an id is never used twice, an issuer is stored as an origin. *)
Rows == \A p \in Providers : Exists(p) => p \in given /\ prov[p].issuer.end = ""

(* A form a row was written with is that of a request that wrote.            *)
FormsWritten == \A p \in Providers : \A n \in 1..Len(forms[p]) : forms[p][n] \in written

(* The inductive invariant: what makes the properties above hold together.   *)
IInv ==
  /\ TypeOK
  /\ NoTwins
  /\ AnswersAreTrue
  /\ CredentialsAsWritten
  /\ Shape
  /\ Progress
  /\ Rows
  /\ FormsWritten

(* A row is changed or removed only by a request of its own organisation,    *)
(* whatever id a request names (TestOneOrganisationCannotReachAnothers...).  *)
TenantsApart ==
  [][\A p \in Providers :
       Exists(p) /\ prov'[p] # prov[p] =>
         \E q \in Requests : Serves(q) /\ ask[q].tenant = prov[p].tenant]_vars

(* A provider that was disabled is enabled again by nothing but an           *)
(* administrator's asking for it: no form opened before, submitted after,    *)
(* brings it back (handleSetEnabled and Update).                             *)
StaysWithdrawn ==
  [][\A p \in Providers :
       Exists(p) /\ prov'[p] # None /\ ~prov[p].enabled /\ prov'[p].enabled =>
         \E q \in Requests : Serves(q) /\ ask[q].op = "enable"]_vars
=============================================================================
