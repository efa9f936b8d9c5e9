--------------------------- MODULE FederationProofs ---------------------------
(***************************************************************************)
(* Federation, proved for any number of providers, organisations, requests *)
(* and processes.                                                          *)
(***************************************************************************)
EXTENDS Federation, SequenceTheorems, TLAPS

USE NoneAssumption, KeyAssumption
USE DEF rowVars, requestVars, historyVars, Refusals, InFlight, Forms

(***************************************************************************)
(* Steps that leave the rows alone                                         *)
(***************************************************************************)
(* A row keeps its credentials as written while nothing of them changes. *)
LEMMA FormsStay ==
  ASSUME IInv, NEW p \in Providers, AsWritten(p), forms'[p] = forms[p],
         prov'[p].client = prov[p].client, prov'[p].secret = prov[p].secret,
         \A q \in written : ask'[q].client = ask[q].client /\ sealed'[q] = sealed[q]
  PROVE  AsWritten(p)'
<1>1. \A n \in 1..Len(forms[p]) :
        /\ ask'[forms[p][n]].client = ask[forms[p][n]].client
        /\ sealed'[forms[p][n]] = sealed[forms[p][n]]
  BY DEF IInv, FormsWritten
<1>2. PICK l \in 1..Len(forms[p]), n \in 1..Len(forms[p]) :
        /\ l = Len(forms[p]) /\ prov[p].client = ask[forms[p][l]].client
        /\ sealed[forms[p][n]] # None /\ prov[p].secret = sealed[forms[p][n]]
        /\ \A m \in 1..Len(forms[p]) : m > n => sealed[forms[p][m]] = None
  BY DEF AsWritten
<1> QED BY <1>1, <1>2 DEF AsWritten

(* A row written with one more form has its client, and its secret when it  *)
(* brought one.                                                             *)
LEMMA OneMoreForm ==
  ASSUME IInv, NEW p \in Providers, NEW q \in Requests, forms'[p] = Append(forms[p], q),
         prov'[p].client = ask'[q].client, sealed' = sealed,
         sealed[q] # None => prov'[p].secret = sealed[q],
         sealed[q] = None => AsWritten(p) /\ prov'[p].secret = prov[p].secret
  PROVE  AsWritten(p)'
<1> DEFINE h == forms[p]
           k == forms'[p]
<1>1. h \in Seq(Requests)
  BY DEF IInv, TypeOK
<1>2. /\ Len(k) = Len(h) + 1 /\ Len(h) \in Nat /\ k[Len(h) + 1] = q
      /\ \A n \in 1..Len(h) : k[n] = h[n]
  BY <1>1
<1>3. \E n \in 1..Len(k) : /\ sealed[k[n]] # None /\ prov'[p].secret = sealed[k[n]]
                           /\ \A m \in 1..Len(k) : m > n => sealed[k[m]] = None
  <2>1. CASE sealed[q] # None
    <3> HIDE DEF h, k
    <3>1. Len(h) + 1 \in 1..Len(k) /\ \A m \in 1..Len(k) : ~(m > Len(h) + 1)
      BY <1>2
    <3> QED BY <1>2, <2>1, <3>1
  <2>2. CASE sealed[q] = None
    <3>1. PICK n \in 1..Len(h) :
            /\ sealed[h[n]] # None /\ prov[p].secret = sealed[h[n]]
            /\ \A m \in 1..Len(h) : m > n => sealed[h[m]] = None
      BY <2>2 DEF AsWritten
    <3> HIDE DEF h, k
    <3>2. n \in 1..Len(k) /\ k[n] = h[n]
      BY <1>2
    <3>3. ASSUME NEW m \in 1..Len(k), m > n PROVE sealed[k[m]] = None
      <4>1. CASE m = Len(h) + 1
        BY <1>2, <2>2, <4>1
      <4>2. CASE m # Len(h) + 1
        <5>1. m \in 1..Len(h)
          BY <1>2, <4>2
        <5> QED BY <1>2, <3>1, <3>3, <5>1
      <4> QED BY <4>1, <4>2
    <3> QED BY <2>2, <3>1, <3>2, <3>3
  <2> QED BY <2>1, <2>2
<1>4. Len(k) \in 1..Len(k) /\ prov'[p].client = ask'[k[Len(k)]].client
  <2>1. Len(k) \in 1..Len(k) /\ k[Len(k)] = q
    <3> HIDE DEF h, k
    <3> QED BY <1>2
  <2> QED BY <2>1
<1> HIDE DEF h, k
<1>5. \E l, n \in 1..Len(k) :
        /\ l = Len(k) /\ prov'[p].client = ask'[k[l]].client
        /\ sealed'[k[n]] # None /\ prov'[p].secret = sealed'[k[n]]
        /\ \A m \in 1..Len(k) : m > n => sealed'[k[m]] = None
  BY <1>3, <1>4
<1> QED BY <1>5 DEF AsWritten, k

(* A step of a request that writes no form leaves the forms, and the        *)
(* credentials of the rows that remain, as they were written.               *)
LEMMA SameForms ==
  ASSUME IInv, UNCHANGED forms, written \subseteq written',
         \A q \in written : ask'[q] = ask[q] /\ sealed'[q] = sealed[q],
         \A p \in Providers : prov'[p] # None =>
           /\ prov[p] # None
           /\ prov'[p].client = prov[p].client /\ prov'[p].secret = prov[p].secret
  PROVE  CredentialsAsWritten' /\ FormsWritten'
<1>1. ASSUME NEW p \in Providers, prov'[p] # None PROVE AsWritten(p)'
  <2>1. AsWritten(p) /\ forms'[p] = forms[p]
    BY <1>1 DEF IInv, CredentialsAsWritten, Exists
  <2> QED BY <1>1, <2>1, FormsStay
<1>2. FormsWritten'
  BY DEF IInv, FormsWritten
<1> QED BY <1>1, <1>2 DEF CredentialsAsWritten, Exists

LEMMA SameRows ==
  ASSUME IInv, UNCHANGED <<rowVars, forms>>, written \subseteq written',
         \A q \in written : ask'[q] = ask[q] /\ sealed'[q] = sealed[q]
  PROVE  NoTwins' /\ CredentialsAsWritten' /\ Rows' /\ FormsWritten'
<1>1. \A p \in Providers : Exists(p)' <=> Exists(p)
  BY DEF Exists
<1>2. NoTwins'
  BY <1>1 DEF IInv, NoTwins
<1>3. CredentialsAsWritten' /\ FormsWritten'
  BY SameForms
<1>4. Rows'
  BY <1>1 DEF IInv, Rows
<1> QED BY <1>2, <1>3, <1>4

(* What a request carries stays while nothing of it changes. *)
LEMMA CarriesOn ==
  ASSUME NEW q \in Requests, Carries(q), ask'[q] = ask[q], sealed'[q] = sealed[q],
         step'[q] = step[q]
  PROVE  Carries(q)'
  BY DEF Carries

(* A process that starts again changes nothing a request or a row consists of. *)
LEMMA AroundStep ==
  ASSUME IInv, (\E n \in Replicas, s \in Settings : Restart(n, s)) \/ UNCHANGED vars
  PROVE  IInv'
<1>1. UNCHANGED <<prov, given, step, requestVars, historyVars>>
  BY DEF Restart, vars
<1>2. TypeOK'
  <2>1. ASSUME NEW n \in Replicas, NEW s \in Settings, Restart(n, s) PROVE TypeOK'
    BY <2>1 DEF IInv, TypeOK, Restart, Open, Boxes, Settings
  <2>2. ASSUME UNCHANGED vars PROVE TypeOK'
    BY <2>2 DEF IInv, TypeOK, vars
  <2> QED BY <2>1, <2>2
<1>3. \A p : Exists(p)' <=> Exists(p)
  BY <1>1 DEF Exists
<1>4. NoTwins' /\ CredentialsAsWritten' /\ Rows' /\ FormsWritten'
  BY <1>1, SameRows
<1>5. AnswersAreTrue'
  BY <1>1, <1>3 DEF IInv, AnswersAreTrue
<1>6. Shape' /\ Progress'
  BY <1>1, <1>3 DEF IInv, Shape, Progress, Carries, Came
<1> QED BY <1>2, <1>4, <1>5, <1>6 DEF IInv

(***************************************************************************)
(* A request is checked                                                    *)
(***************************************************************************)
(* A form that can be decoded. *)
Sendable(a, s) ==
  /\ a \in Ask
  /\ s \in Secrets \cup {None}
  /\ a.id = None <=> a.op = "create"
  /\ a.op \in Forms => a.issuer \in Typed /\ a.client \in Clients
  /\ a.op = "create" => s # None

LEMMA SubmitStep ==
  ASSUME IInv, NEW q \in Requests, NEW n \in Replicas, NEW a, NEW s,
         Sendable(a, s), Submit(q, n, a, s)
  PROVE  IInv'
<1> USE DEF Sendable
<1>1. \A p : Exists(p)' <=> Exists(p)
  BY DEF Exists, Submit
<1>2. q \notin written /\ step[q] = "idle"
  BY DEF Submit, IInv, Progress, Came
<1>3. NoTwins' /\ CredentialsAsWritten' /\ Rows' /\ FormsWritten'
  <2>1. \A r \in Requests : r # q => ask'[r] = ask[r] /\ sealed'[r] = sealed[r]
    BY DEF Submit, Accepted, IInv, TypeOK
  <2>2. \A r \in written : ask'[r] = ask[r] /\ sealed'[r] = sealed[r]
    BY <1>2, <2>1 DEF IInv, TypeOK
  <2>3. UNCHANGED <<rowVars, forms, written>>
    BY DEF Submit
  <2> QED BY <2>2, <2>3, SameRows
<1>4. CASE Refused(q, n, a, s) /\ UNCHANGED requestVars
  <2>1. TypeOK'
    BY <1>4 DEF Submit, Refused, IInv, TypeOK
  <2>2. \A r \in Requests : r # q => step'[r] = step[r]
    BY <1>4 DEF Refused, IInv, TypeOK
  <2>3. step'[q] \in {"invalid", "nokey"}
    BY <1>4 DEF Refused, IInv, TypeOK
  <2>4. UNCHANGED <<ask, sealed, prov, given, written, audited>>
    BY <1>4 DEF Submit
  <2>5. AnswersAreTrue'
    BY <1>2, <2>2, <2>3, <2>4 DEF IInv, AnswersAreTrue, Exists
  <2>6. Shape'
    BY <2>2, <2>3, <2>4 DEF IInv, Shape, Carries
  <2>7. Progress'
    BY <1>2, <2>2, <2>3, <2>4 DEF IInv, Progress, Came, Exists
  <2> QED BY <1>3, <2>1, <2>5, <2>6, <2>7 DEF IInv
<1>5. CASE Accepted(q, n, a, s)
  <2>1. ask'[q] \in Ask /\ ask'[q].op = a.op /\ ask'[q].client = a.client /\ ask'[q].id = a.id
    <3>1. CASE a.issuer = None
      BY <1>5, <3>1 DEF Accepted, IInv, TypeOK
    <3>2. CASE a.issuer # None
      <4>1. Trimmed(a.issuer) \in Typed
        BY <3>2 DEF Trimmed, Typed, Ask
      <4>2. ask'[q] = [a EXCEPT !.issuer = Trimmed(a.issuer)]
        BY <1>5, <3>2 DEF Accepted, IInv, TypeOK
      <4> QED BY <4>1, <4>2 DEF Ask
    <3> QED BY <3>1, <3>2
  <2>2. a.op \in Forms => ask'[q].issuer \in Typed /\ ask'[q].issuer.end = ""
    <3> SUFFICES ASSUME a.issuer \in Typed
                 PROVE  ask'[q].issuer \in Typed /\ ask'[q].issuer.end = ""
      OBVIOUS
    <3>1. ask'[q] = [a EXCEPT !.issuer = Trimmed(a.issuer)]
      BY <1>5 DEF Accepted, IInv, TypeOK, Typed
    <3>2. ask'[q].issuer = Trimmed(a.issuer)
      BY <3>1 DEF Ask
    <3> QED BY <3>2 DEF Trimmed, Typed
  <2>3. s # None => Seal(box[n], s) \in SealedOf(Secrets)
    BY <1>5 DEF Accepted, KeyPresent, CanSeal, Seal, SealedOf, Boxes, IInv, TypeOK
  <2>4. sealed'[q] \in SealedOf(Secrets) \cup {None}
    BY <1>5, <2>3 DEF Accepted, IInv, TypeOK
  <2>5. s # None => sealed'[q] # None
    BY <1>5, <2>3 DEF Accepted, IInv, TypeOK
  <2>6. /\ step' = [step EXCEPT ![q] = "checked"]
        /\ at' = [at EXCEPT ![q] = n]
        /\ \A r \in Requests : r # q => ask'[r] = ask[r] /\ sealed'[r] = sealed[r]
        /\ ask' = [r \in Requests |-> ask'[r]]
        /\ sealed' = [r \in Requests |-> sealed'[r]]
    BY <1>5 DEF Accepted, IInv, TypeOK
  <2>7. TypeOK'
    <3>1. ask' \in [Requests -> Ask \cup {None}]
      BY <2>1, <2>6 DEF IInv, TypeOK
    <3>2. sealed' \in [Requests -> SealedOf(Secrets) \cup {None}]
      BY <2>4, <2>6 DEF IInv, TypeOK
    <3> QED BY <2>6, <3>1, <3>2 DEF Submit, IInv, TypeOK
  <2>8. Shape'
    <3>1. ASSUME NEW r \in Requests, r # q, step'[r] \in InFlight
          PROVE  step[r] = step'[r] /\ ask'[r] = ask[r] /\ sealed'[r] = sealed[r]
      BY <2>6, <3>1 DEF IInv, TypeOK
    <3>2. \A r \in Requests : r # q /\ step'[r] \in InFlight =>
            step[r] = step'[r] /\ ask'[r] = ask[r] /\ sealed'[r] = sealed[r]
      BY <3>1
    <3>3. step'[q] = "checked"
      BY <2>6 DEF IInv, TypeOK
    <3>4. Carries(q)'
      BY <2>1, <2>2, <2>5, <3>3 DEF Carries
    <3>5. ASSUME NEW r \in Requests, step'[r] \in InFlight, r # q PROVE Carries(r)'
      BY <3>2, <3>5, CarriesOn DEF IInv, Shape
    <3> QED BY <3>4, <3>5 DEF Shape
  <2>9. AnswersAreTrue'
    <3>1. step'[q] = "checked" /\ \A r \in Requests : r # q => step'[r] = step[r] /\ ask'[r] = ask[r]
      BY <2>6 DEF IInv, TypeOK
    <3>2. UNCHANGED <<prov, written, audited>>
      BY DEF Submit
    <3> QED BY <3>1, <3>2 DEF IInv, AnswersAreTrue, Exists
  <2>10. Progress'
    <3>1. step'[q] = "checked" /\ \A r \in Requests : r # q => step'[r] = step[r]
      BY <2>6 DEF IInv, TypeOK
    <3>2. UNCHANGED <<prov, given, written, audited>>
      BY DEF Submit
    <3>3. \A r \in Requests : r # q => ask'[r] = ask[r] /\ sealed'[r] = sealed[r]
      BY <2>6
    <3>4. Came(q)'
      BY <1>2, <3>1, <3>2 DEF Came
    <3>5. ASSUME NEW r \in Requests, r # q PROVE Came(r)'
      BY <3>1, <3>2, <3>3, <3>5 DEF IInv, Progress, Came, Exists
    <3> QED BY <3>4, <3>5 DEF Progress
  <2> QED BY <1>3, <2>7, <2>8, <2>9, <2>10 DEF IInv
<1> QED BY <1>4, <1>5 DEF Submit

(***************************************************************************)
(* Answers                                                                 *)
(***************************************************************************)
LEMMA AnswerStep ==
  ASSUME IInv, NEW q \in Requests,
         Conflict(q) \/ Missing(q) \/ Reread(q) \/ Audit(q) \/ Answer(q) \/ Fails(q)
  PROVE  IInv'
<1> USE DEF Goto, NoRowIsMissing
<1>1. /\ UNCHANGED <<rowVars, box, requestVars, written, forms>>
      /\ step' = [step EXCEPT ![q] = step'[q]]
  BY DEF Conflict, Missing, Reread, Audit, Answer, Fails, IInv, TypeOK
<1>2. step'[q] \in {"conflict", "missing", "failed", "stands", "audited", "ok"}
  BY DEF Conflict, Missing, Reread, Audit, Answer, Fails, IInv, TypeOK
<1>3. \/ audited' = audited /\ step'[q] # "audited"
      \/ audited' = audited \cup {q} /\ q \in written /\ step'[q] = "audited"
  BY DEF Conflict, Missing, Reread, Audit, Answer, Fails, IInv, TypeOK, Progress, Came
<1>4. TypeOK'
  BY <1>1, <1>2, <1>3 DEF IInv, TypeOK
<1>5. NoTwins' /\ CredentialsAsWritten' /\ Rows' /\ FormsWritten'
  BY <1>1, SameRows
<1>6. \A r \in Requests : r # q => step'[r] = step[r]
  BY <1>1 DEF IInv, TypeOK
<1>7. Shape'
  <2>1. step'[q] \in InFlight => step[q] \in InFlight /\ ask[q].id # None /\ Carries(q)
    BY DEF Conflict, Missing, Reread, Audit, Answer, Fails, IInv, TypeOK, Shape, Carries
  <2>2. step'[q] \in InFlight => Carries(q)'
    <3>1. UNCHANGED <<ask, sealed>> /\ step'[q] # "checked"
      BY <1>1, <1>2
    <3> QED BY <2>1, <3>1 DEF Carries
  <2>3. ASSUME NEW r \in Requests, r # q, step'[r] \in InFlight PROVE Carries(r)'
    BY <1>1, <1>6, <2>3, CarriesOn DEF IInv, Shape
  <2> QED BY <2>2, <2>3 DEF Shape
<1>8. /\ step'[q] = "conflict" => q \notin written
      /\ step'[q] \in {"stands", "audited"} => q \in written
      /\ step'[q] = "ok" => q \in audited
      /\ step'[q] = "missing" /\ q \in written =>
           ask[q].op = "edit" /\ ask[q].id \in given /\ ~Exists(ask[q].id)
  BY DEF Conflict, Missing, Reread, Audit, Answer, Fails, IInv, TypeOK, Progress, Came, Found
<1>9. AnswersAreTrue'
  BY <1>1, <1>2, <1>3, <1>6, <1>8 DEF IInv, AnswersAreTrue, Exists
<1>10. Progress'
  <2>1. Came(q)'
    BY <1>1, <1>2, <1>3, <1>8 DEF Came
  <2>2. ASSUME NEW r \in Requests, r # q PROVE Came(r)'
    BY <1>1, <1>3, <1>6, <2>2 DEF IInv, Progress, Came, Exists
  <2> QED BY <2>1, <2>2 DEF Progress
<1> QED BY <1>4, <1>5, <1>7, <1>9, <1>10 DEF IInv

(***************************************************************************)
(* Statements                                                              *)
(***************************************************************************)
(* Rows that lie as origins are twins only when their issuers are equal. *)
LEMMA SameOrigin ==
  ASSUME NEW i \in Typed, NEW j \in Typed, i.end = j.end, i.origin = j.origin
  PROVE  i = j
<1>1. i = [origin |-> i.origin, end |-> i.end]
  BY DEF Typed
<1>2. j = [origin |-> j.origin, end |-> j.end]
  BY DEF Typed
<1> QED BY <1>1, <1>2

(* What a statement does to the requests, whichever rows it touches: one of  *)
(* them has written, and the rows of the others are as they were or gone.    *)
LEMMA WriteProgress ==
  ASSUME IInv, NEW q \in Requests, NEW after \in {"written", "stands"},
         step[q] = "checked", Writes(q, after),
         \A r \in Requests : r # q => ask'[r] = ask[r],
         given \subseteq given',
         \A p \in given : prov'[p] # None => prov[p] # None /\ prov'[p].tenant = prov[p].tenant,
         after = "written" =>
           /\ ask'[q].op \in Forms /\ ask'[q].id \in given'
           /\ prov'[ask'[q].id].tenant = ask'[q].tenant,
         Carries(q)'
  PROVE  AnswersAreTrue' /\ Shape' /\ Progress'
<1> USE DEF Writes, Goto
<1>1. step'[q] = after /\ \A r \in Requests : r # q => step'[r] = step[r]
  BY DEF IInv, TypeOK
<1>2. q \in written' /\ written' = written \cup {q} /\ UNCHANGED <<audited, sealed>>
  OBVIOUS
<1>3. Shape'
  <2>1. ASSUME NEW r \in Requests, r # q, step'[r] \in InFlight PROVE Carries(r)'
    BY <1>1, <1>2, <2>1, CarriesOn DEF IInv, Shape
  <2> QED BY <2>1 DEF Shape
<1>4. Progress'
  <2>1. Came(q)'
    BY <1>1, <1>2 DEF Came
  <2>2. ASSUME NEW r \in Requests, r # q PROVE Came(r)'
    <3>0. ask'[r] = ask[r] /\ step'[r] = step[r] /\ Came(r)
      BY <1>1, <2>2 DEF IInv, Progress
    <3>1. step'[r] = "written" =>
            /\ ask'[r].op \in Forms /\ ask'[r].id \in given'
            /\ prov'[ask'[r].id] # None => prov'[ask'[r].id].tenant = ask'[r].tenant
      BY <3>0 DEF Came, Exists
    <3> QED BY <1>1, <1>2, <2>2, <3>1 DEF IInv, Progress, Came, Exists
  <2> QED BY <2>1, <2>2 DEF Progress
<1>5. AnswersAreTrue'
  <2>1. ASSUME NEW r \in Requests, step'[r] = "missing", r \in written'
        PROVE  ask'[r].op = "edit" /\ prov'[ask'[r].id] = None
    <3>1. ask'[r] = ask[r] /\ step[r] = "missing" /\ r \in written
      BY <1>1, <1>2, <2>1
    <3>2. ask[r].op = "edit" /\ prov[ask[r].id] = None /\ ask[r].id \in given
      BY <3>1 DEF IInv, Progress, Came, AnswersAreTrue, Exists
    <3> QED BY <3>1, <3>2
  <2>2. audited' \subseteq written' /\ \A r \in Requests : step'[r] = "ok" => r \in audited'
    BY <1>1, <1>2 DEF IInv, AnswersAreTrue
  <2>3. \A r \in Requests : step'[r] \in {"invalid", "nokey", "conflict"} => r \notin written'
    BY <1>1, <1>2 DEF IInv, AnswersAreTrue
  <2> QED BY <2>1, <2>2, <2>3 DEF AnswersAreTrue, Exists
<1> QED BY <1>3, <1>4, <1>5

(* A row put where no other of its organisation has its issuer is no twin. *)
LEMMA NoNewTwin ==
  ASSUME IInv, NEW p \in Providers, NEW row \in Row,
         prov' = [prov EXCEPT ![p] = row], row.issuer.end = "",
         \A o \in Providers \ {p} :
           Exists(o) /\ prov[o].tenant = row.tenant => prov[o].issuer # row.issuer
  PROVE  NoTwins'
<1>1. prov'[p] = row /\ \A o \in Providers : o # p => prov'[o] = prov[o]
  BY DEF IInv, TypeOK
<1>2. ASSUME NEW o \in Providers, o # p, Exists(o), prov[o].tenant = row.tenant
      PROVE  prov[o].issuer.origin # row.issuer.origin
  <2>1. prov[o].issuer \in Typed /\ prov[o].issuer.end = ""
    BY <1>2 DEF IInv, TypeOK, Rows, Exists, Row
  <2>2. row.issuer \in Typed
    BY DEF Row
  <2> QED BY <1>2, <2>1, <2>2, SameOrigin
<1>3. ASSUME NEW o \in Providers, NEW x \in Providers, Exists(o)', Exists(x)',
             prov'[o].tenant = prov'[x].tenant, prov'[o].issuer.origin = prov'[x].issuer.origin
      PROVE  o = x
  <2>1. prov'[o] # None /\ prov'[x] # None
    BY <1>3 DEF Exists
  <2>2. CASE o # p /\ x # p
    BY <1>1, <1>3, <2>1, <2>2 DEF IInv, NoTwins, Exists
  <2>3. CASE o = p /\ x # p
    BY <1>1, <1>2, <1>3, <2>1, <2>3 DEF Exists
  <2>4. CASE o # p /\ x = p
    BY <1>1, <1>2, <1>3, <2>1, <2>4 DEF Exists
  <2> QED BY <2>2, <2>3, <2>4
<1> QED BY <1>3 DEF NoTwins

LEMMA FormsType ==
  ASSUME IInv, NEW q \in Requests, NEW p, WritesForm(q, p)
  PROVE  forms' \in [Providers -> Seq(Requests)]
<1>1. \A o \in Providers : forms[o] \in Seq(Requests) /\ Append(forms[o], q) \in Seq(Requests)
  BY DEF IInv, TypeOK
<1> QED BY <1>1 DEF WritesForm, IInv, TypeOK

(* One statement writes a form to one row, and the others keep theirs.      *)
LEMMA OneFormWritten ==
  ASSUME IInv, NEW q \in Requests, NEW p \in Providers, WritesForm(q, p), sealed' = sealed,
         step[q] = "checked",
         \A r \in Requests : r # q => ask'[r] = ask[r],
         \A o \in Providers : o # p => prov'[o] = prov[o],
         prov'[p].client = ask'[q].client,
         sealed[q] # None => prov'[p].secret = sealed[q],
         sealed[q] = None => AsWritten(p) /\ prov'[p].secret = prov[p].secret
  PROVE  CredentialsAsWritten' /\ FormsWritten'
<1>1. /\ forms'[p] = Append(forms[p], q) /\ \A o \in Providers : o # p => forms'[o] = forms[o]
      /\ written' = written \cup {q}
  BY DEF WritesForm, Writes, IInv, TypeOK
<1>2. q \notin written /\ written \subseteq Requests
  BY DEF IInv, TypeOK, Progress, Came
<1>3. AsWritten(p)'
  BY <1>1, OneMoreForm
<1>4. ASSUME NEW o \in Providers, o # p, prov'[o] # None PROVE AsWritten(o)'
  <2>1. AsWritten(o)
    BY <1>4 DEF IInv, CredentialsAsWritten, Exists
  <2>2. \A r \in written : ask'[r].client = ask[r].client /\ sealed'[r] = sealed[r]
    BY <1>2
  <2> QED BY <1>1, <1>4, <2>1, <2>2, FormsStay
<1>5. CredentialsAsWritten'
  BY <1>3, <1>4 DEF CredentialsAsWritten, Exists
<1>6. ASSUME NEW o \in Providers, NEW n \in 1..Len(forms'[o]) PROVE forms'[o][n] \in written'
  <2>1. CASE o # p
    BY <1>1, <1>6, <2>1 DEF IInv, FormsWritten
  <2>2. CASE o = p
    <3>1. forms[p] \in Seq(Requests)
      BY DEF IInv, TypeOK
    <3>2. \/ n \in 1..Len(forms[p]) /\ forms'[p][n] = forms[p][n]
          \/ forms'[p][n] = q
      BY <1>1, <1>6, <2>2, <3>1
    <3> QED BY <1>1, <2>2, <3>2 DEF IInv, FormsWritten
  <2> QED BY <2>1, <2>2
<1> QED BY <1>5, <1>6 DEF FormsWritten

LEMMA InsertStep ==
  ASSUME IInv, NEW q \in Requests, NEW p \in Providers, Insert(q, p)
  PROVE  IInv'
<1> DEFINE row == [tenant |-> ask[q].tenant, issuer |-> ask[q].issuer, client |-> ask[q].client,
                   secret |-> sealed[q], enabled |-> TRUE]
<1>1. /\ Carries(q) /\ step[q] = "checked" /\ ask[q].op = "create" /\ p \notin given
      /\ sealed[q] \in SealedOf(Secrets)
  BY DEF Insert, IInv, Shape, Carries, TypeOK
<1>2. /\ row \in Row /\ row.issuer.end = "" /\ row.client = ask[q].client /\ row.secret = sealed[q]
      /\ row.tenant = ask[q].tenant /\ row.issuer = ask[q].issuer
  BY <1>1 DEF Carries, Row, Ask
<1>3. prov' = [prov EXCEPT ![p] = row] /\ prov[p] = None
  BY <1>1 DEF Insert, IInv, Rows, Exists
<1> HIDE DEF row
<1>4. prov'[p] = row /\ \A o \in Providers : o # p => prov'[o] = prov[o]
  BY <1>3 DEF IInv, TypeOK
<1>5. ask'[q] = [ask[q] EXCEPT !.id = p] /\ \A r \in Requests : r # q => ask'[r] = ask[r]
  BY DEF Insert, IInv, TypeOK
<1>6. /\ ask'[q] \in Ask /\ ask'[q].id = p /\ ask'[q].op = "create"
      /\ ask'[q].tenant = ask[q].tenant /\ ask'[q].issuer = ask[q].issuer
      /\ ask'[q].client = ask[q].client
  BY <1>1, <1>5 DEF Carries, Ask
<1>7. TypeOK'
  <2>1. prov' \in [Providers -> Row \cup {None}]
    BY <1>2, <1>3 DEF IInv, TypeOK
  <2>2. ask' \in [Requests -> Ask \cup {None}]
    BY <1>5, <1>6 DEF IInv, TypeOK, Insert
  <2>3. forms' \in [Providers -> Seq(Requests)]
    BY FormsType DEF Insert
  <2> QED BY <2>1, <2>2, <2>3 DEF IInv, TypeOK, Insert, WritesForm, Writes, Goto
<1>8. NoTwins'
  <2>1. ASSUME NEW o \in Providers \ {p}, Exists(o), prov[o].tenant = row.tenant
        PROVE  prov[o].issuer # row.issuer
    <3>1. o # ask[q].id
      BY <1>1, <2>1 DEF Carries
    <3> QED BY <1>2, <2>1, <3>1 DEF Insert, Taken
  <2>2. \A o \in Providers \ {p} :
          Exists(o) /\ prov[o].tenant = row.tenant => prov[o].issuer # row.issuer
    BY <2>1
  <2> QED BY <1>2, <1>3, <2>2, NoNewTwin
<1>9. CredentialsAsWritten' /\ FormsWritten'
  <2>1. WritesForm(q, p) /\ sealed[q] # None
    BY <1>1 DEF Insert, Carries
  <2>2. sealed' = sealed
    BY <2>1 DEF WritesForm, Writes
  <2>3. prov'[p].client = ask'[q].client /\ prov'[p].secret = sealed[q]
    BY <1>2, <1>4, <1>6
  <2> QED BY <1>1, <1>4, <1>5, <2>1, <2>2, <2>3, OneFormWritten
<1>10. Rows'
  BY <1>2, <1>4 DEF IInv, Rows, Exists, Insert
<1>11. AnswersAreTrue' /\ Shape' /\ Progress'
  <2>1. Carries(q)'
    <3>1. step'[q] = "written" /\ sealed' = sealed
      BY DEF Insert, WritesForm, Writes, Goto, IInv, TypeOK
    <3> QED BY <1>1, <1>6, <3>1 DEF Carries
  <2>2. \A o \in given : prov'[o] # None => prov[o] # None /\ prov'[o].tenant = prov[o].tenant
    BY <1>1, <1>4 DEF IInv, TypeOK
  <2>3. /\ ask'[q].op \in Forms /\ ask'[q].id \in given'
        /\ prov'[ask'[q].id].tenant = ask'[q].tenant
    <3>1. p \in given' /\ prov'[p].tenant = ask[q].tenant
      BY <1>2, <1>4 DEF Insert
    <3> QED BY <1>6, <3>1
  <2>4. step[q] = "checked" /\ Writes(q, "written") /\ given \subseteq given'
    BY DEF Insert, WritesForm
  <2> QED BY <1>5, <2>1, <2>2, <2>3, <2>4, WriteProgress
<1> QED BY <1>7, <1>8, <1>9, <1>10, <1>11 DEF IInv

(* The secret an edit leaves: its own, sealed for its client, or the stored one. *)
LEMMA Coalesced ==
  ASSUME NEW q \in Requests
  PROVE  /\ sealed[q] # None => NewSecret(q) = sealed[q]
         /\ sealed[q] = None => NewSecret(q) = prov[ask[q].id].secret
  BY DEF NewSecret

LEMMA UpdateStep ==
  ASSUME IInv, NEW q \in Requests, Update(q)
  PROVE  IInv'
<1> DEFINE p == ask[q].id
           row == [tenant |-> prov[p].tenant, issuer |-> ask[q].issuer, client |-> ask[q].client,
                   secret |-> NewSecret(q), enabled |-> KeptEnabled(q)]
<1>1. /\ Carries(q) /\ step[q] = "checked" /\ ask[q].op = "edit"
      /\ prov[p] # None /\ prov[p].tenant = ask[q].tenant
  BY DEF Update, IInv, Shape, Found, Exists
<1>2. p \in Providers /\ ask[q].issuer \in Typed /\ ask[q].issuer.end = "" /\ ask[q].client \in Clients
  BY <1>1 DEF Carries, Ask
<1>3. prov[p] \in Row /\ p \in given
  BY <1>1, <1>2 DEF IInv, TypeOK, Rows, Exists
<1>4. NewSecret(q) \in SealedOf(Secrets)
  BY <1>3, Coalesced DEF IInv, TypeOK, Row
<1>5. KeptEnabled(q) \in BOOLEAN
  BY <1>3 DEF KeptEnabled, Row
<1>6. /\ row \in Row /\ row.issuer.end = "" /\ row.tenant = prov[p].tenant
      /\ row.issuer = ask[q].issuer /\ row.client = ask[q].client /\ row.secret = NewSecret(q)
  BY <1>2, <1>3, <1>4, <1>5 DEF Row
<1>7. prov' = [prov EXCEPT ![p] = row]
  BY <1>2 DEF Update, IInv, TypeOK
<1> HIDE DEF row
<1>8. prov'[p] = row /\ \A o \in Providers : o # p => prov'[o] = prov[o]
  BY <1>2, <1>7 DEF IInv, TypeOK
<1>9. TypeOK'
  <2>1. prov' \in [Providers -> Row \cup {None}]
    BY <1>6, <1>7 DEF IInv, TypeOK
  <2>2. forms' \in [Providers -> Seq(Requests)]
    BY FormsType DEF Update
  <2> QED BY <2>1, <2>2 DEF IInv, TypeOK, Update, WritesForm, Writes, Goto
<1>10. NoTwins'
  <2>1. \A o \in Providers \ {p} :
          Exists(o) /\ prov[o].tenant = row.tenant => prov[o].issuer # row.issuer
    BY <1>1, <1>6 DEF Update, Taken
  <2> QED BY <1>2, <1>6, <1>7, <2>1, NoNewTwin
<1>11. CredentialsAsWritten' /\ FormsWritten'
  <2>1. WritesForm(q, p) /\ ask' = ask /\ AsWritten(p)
    BY <1>1, <1>2 DEF Update, IInv, CredentialsAsWritten, Exists
  <2>2. sealed' = sealed
    BY <2>1 DEF WritesForm, Writes
  <2>3. /\ prov'[p].client = ask'[q].client
        /\ sealed[q] # None => prov'[p].secret = sealed[q]
        /\ sealed[q] = None => prov'[p].secret = prov[p].secret
    BY <1>6, <1>8, <2>1, Coalesced
  <2> QED BY <1>1, <1>2, <1>8, <2>1, <2>2, <2>3, OneFormWritten
<1>12. Rows'
  BY <1>3, <1>6, <1>8 DEF IInv, Rows, Exists, Update
<1>13. AnswersAreTrue' /\ Shape' /\ Progress'
  <2>1. Carries(q)'
    <3>1. step'[q] = "written" /\ UNCHANGED <<ask, sealed>>
      BY DEF Update, WritesForm, Writes, Goto, IInv, TypeOK
    <3> QED BY <1>1, <1>2, <3>1 DEF Carries
  <2>2. \A o \in given : prov'[o] # None => prov[o] # None /\ prov'[o].tenant = prov[o].tenant
    BY <1>1, <1>6, <1>8 DEF IInv, TypeOK
  <2>3. UNCHANGED <<ask, given>> /\ Writes(q, "written")
    BY DEF Update, WritesForm
  <2>4. /\ ask'[q].op \in Forms /\ ask'[q].id \in given'
        /\ prov'[ask'[q].id].tenant = ask'[q].tenant
    BY <1>1, <1>3, <1>6, <1>8, <2>3
  <2> QED BY <1>1, <2>1, <2>2, <2>3, <2>4, WriteProgress
<1> QED BY <1>9, <1>10, <1>11, <1>12, <1>13 DEF IInv

LEMMA SetEnabledStep ==
  ASSUME IInv, NEW q \in Requests, SetEnabled(q)
  PROVE  IInv'
<1> DEFINE p == ask[q].id
           row == [prov[p] EXCEPT !.enabled = (ask[q].op = "enable")]
<1>1. /\ Carries(q) /\ step[q] = "checked" /\ ask[q].op \in {"enable", "disable"}
      /\ prov[p] # None
  BY DEF SetEnabled, IInv, Shape, Found, Exists
<1>2. p \in Providers /\ prov[p] \in Row /\ p \in given
  <2>1. p \in Providers
    BY <1>1 DEF Carries, Ask
  <2>2. prov \in [Providers -> Row \cup {None}]
    BY DEF IInv, TypeOK
  <2>3. prov[p] \in Row
    BY <1>1, <2>1, <2>2
  <2>4. p \in given
    BY <1>1, <2>1 DEF IInv, Rows, Exists
  <2> QED BY <2>1, <2>3, <2>4
<1>3. /\ row \in Row /\ row.tenant = prov[p].tenant /\ row.issuer = prov[p].issuer
      /\ row.client = prov[p].client /\ row.secret = prov[p].secret
  BY <1>2 DEF Row
<1>4. prov' = [prov EXCEPT ![p] = row]
  BY DEF SetEnabled, IInv, TypeOK
<1> HIDE DEF row
<1>5. prov'[p] = row /\ \A o \in Providers : o # p => prov'[o] = prov[o]
  BY <1>2, <1>4 DEF IInv, TypeOK
<1>6. \A o \in Providers :
        /\ prov'[o] # None <=> prov[o] # None
        /\ prov[o] # None =>
             /\ prov'[o].tenant = prov[o].tenant /\ prov'[o].issuer = prov[o].issuer
             /\ prov'[o].client = prov[o].client /\ prov'[o].secret = prov[o].secret
  BY <1>1, <1>2, <1>3, <1>5
<1>7. TypeOK'
  <2>1. prov' \in [Providers -> Row \cup {None}]
    BY <1>2, <1>3, <1>4 DEF IInv, TypeOK
  <2> QED BY <2>1 DEF IInv, TypeOK, SetEnabled, Writes, Goto
<1>8. NoTwins' /\ CredentialsAsWritten' /\ Rows' /\ FormsWritten'
  <2>1. UNCHANGED <<forms, given, ask, sealed>> /\ written \subseteq written'
    BY DEF SetEnabled, Writes
  <2>2. NoTwins'
    BY <1>6 DEF IInv, NoTwins, Exists
  <2>3. CredentialsAsWritten' /\ FormsWritten'
    BY <1>6, <2>1, SameForms
  <2>4. Rows'
    BY <1>6, <2>1 DEF IInv, Rows, Exists
  <2> QED BY <2>2, <2>3, <2>4
<1>9. AnswersAreTrue' /\ Shape' /\ Progress'
  <2>1. Carries(q)'
    <3>1. step'[q] = "stands" /\ UNCHANGED <<ask, sealed>>
      BY DEF SetEnabled, Writes, Goto, IInv, TypeOK
    <3> QED BY <1>1, <3>1 DEF Carries
  <2>2. \A o \in given : prov'[o] # None => prov[o] # None /\ prov'[o].tenant = prov[o].tenant
    BY <1>6 DEF IInv, TypeOK
  <2>3. UNCHANGED <<ask, given>> /\ Writes(q, "stands")
    BY DEF SetEnabled
  <2> QED BY <1>1, <2>1, <2>2, <2>3, WriteProgress
<1> QED BY <1>7, <1>8, <1>9 DEF IInv

LEMMA DeleteStep ==
  ASSUME IInv, NEW q \in Requests, Delete(q)
  PROVE  IInv'
<1> DEFINE p == ask[q].id
<1>1. /\ Carries(q) /\ step[q] = "checked" /\ ask[q].op = "delete"
      /\ prov' = [prov EXCEPT ![p] = None]
  BY DEF Delete, IInv, Shape
<1>2. \A o \in Providers : prov'[o] = None \/ prov'[o] = prov[o]
  BY <1>1 DEF IInv, TypeOK
<1>3. TypeOK'
  BY <1>1 DEF IInv, TypeOK, Delete, Writes, Goto
<1>4. NoTwins' /\ CredentialsAsWritten' /\ Rows' /\ FormsWritten'
  <2>1. UNCHANGED <<forms, given, ask, sealed>> /\ written \subseteq written'
    BY DEF Delete, Writes
  <2>2. NoTwins'
    BY <1>2 DEF IInv, NoTwins, Exists
  <2>3. CredentialsAsWritten' /\ FormsWritten'
    BY <1>2, <2>1, SameForms
  <2>4. Rows'
    BY <1>2, <2>1 DEF IInv, Rows, Exists
  <2> QED BY <2>2, <2>3, <2>4
<1>5. AnswersAreTrue' /\ Shape' /\ Progress'
  <2>1. Carries(q)'
    <3>1. step'[q] = "stands" /\ UNCHANGED <<ask, sealed>>
      BY DEF Delete, Writes, Goto, IInv, TypeOK
    <3> QED BY <1>1, <3>1 DEF Carries
  <2>2. \A o \in given : prov'[o] # None => prov[o] # None /\ prov'[o].tenant = prov[o].tenant
    BY <1>2 DEF IInv, TypeOK
  <2>3. UNCHANGED <<ask, given>> /\ Writes(q, "stands")
    BY DEF Delete
  <2> QED BY <1>1, <2>1, <2>2, <2>3, WriteProgress
<1> QED BY <1>3, <1>4, <1>5 DEF IInv

(***************************************************************************)
(* Every step                                                              *)
(***************************************************************************)
LEMMA BeginStep ==
  ASSUME IInv, NEW q \in Requests, NEW n \in Replicas, Begin(q, n)
  PROVE  IInv'
<1> USE DEF Sendable, Ask, Ops
<1>1. ASSUME Register(q, n) PROVE IInv'
  <2>1. PICK a \in Registrations, s \in Secrets : Submit(q, n, a, s)
    BY <1>1 DEF Register
  <2>2. Sendable(a, s)
    BY DEF Registrations
  <2> QED BY <2>1, <2>2, SubmitStep
<1>2. ASSUME Edit(q, n) PROVE IInv'
  <2>1. PICK a \in Revisions, s \in Secrets \cup {None} : Submit(q, n, a, s)
    BY <1>2 DEF Edit
  <2>2. Sendable(a, s)
    BY DEF Revisions
  <2> QED BY <2>1, <2>2, SubmitStep
<1>3. ASSUME Plain(q, n) PROVE IInv'
  <2>1. PICK a \in Plains : Submit(q, n, a, None)
    BY <1>3 DEF Plain
  <2>2. Sendable(a, None)
    BY DEF Plains
  <2> QED BY <2>1, <2>2, SubmitStep
<1> QED BY <1>1, <1>2, <1>3 DEF Begin

LEMMA InitIInv == Init => IInv
<1> SUFFICES ASSUME Init PROVE IInv
  OBVIOUS
<1>1. TypeOK
  <2>1. box \in [Replicas -> Boxes]
    BY DEF Init, Open, Settings, Boxes
  <2> QED BY <2>1 DEF Init, TypeOK
<1>2. NoTwins /\ CredentialsAsWritten /\ Rows /\ AnswersAreTrue /\ FormsWritten
  BY DEF Init, NoTwins, CredentialsAsWritten, Rows, AnswersAreTrue, FormsWritten, Exists
<1>3. Shape /\ Progress
  BY DEF Init, Shape, Progress, Came
<1> QED BY <1>1, <1>2, <1>3 DEF IInv

LEMMA NextIInv == IInv /\ [Next]_vars => IInv'
<1> SUFFICES ASSUME IInv, [Next]_vars PROVE IInv'
  OBVIOUS
<1>1. ASSUME NEW q \in Requests, Serve(q) PROVE IInv'
  BY <1>1, AnswerStep, InsertStep, UpdateStep, SetEnabledStep, DeleteStep DEF Serve
<1>2. ASSUME NEW q \in Requests, NEW n \in Replicas, Begin(q, n) PROVE IInv'
  BY <1>2, BeginStep
<1> QED BY <1>1, <1>2, AroundStep DEF Next

(* Whatever requests overlap, fail or meet a process without a key, every    *)
(* stored secret was sealed by a key, and every row and request is of its    *)
(* kind (TypeOK).                                                            *)
THEOREM Typing == Spec => []TypeOK
<1>1. IInv => TypeOK
  BY DEF IInv
<1> QED BY <1>1, InitIInv, NextIInv, PTL DEF Spec

(* No organisation ever trusts one issuer twice, for any number of           *)
(* registrations and edits at once.                                          *)
THEOREM OneRegistration == Spec => []NoTwins
<1>1. IInv => NoTwins
  BY DEF IInv
<1> QED BY <1>1, InitIInv, NextIInv, PTL DEF Spec

(* Every answer and every audit entry says what happened.                    *)
THEOREM AnsweredTruly == Spec => []AnswersAreTrue
<1>1. IInv => AnswersAreTrue
  BY DEF IInv
<1> QED BY <1>1, InitIInv, NextIInv, PTL DEF Spec

(* A stored client_id and a stored secret are those of the last forms that   *)
(* brought them, whatever edits overlap or fail, though nobody can read the  *)
(* secret back.                                                              *)
THEOREM CredentialsWritten == Spec => []CredentialsAsWritten
<1>1. IInv => CredentialsAsWritten
  BY DEF IInv
<1> QED BY <1>1, InitIInv, NextIInv, PTL DEF Spec

(* A row that changes does so by a statement of a request that found it: one *)
(* of its own organisation, and "enable" is the only one to enable it.       *)
LEMMA RowStep ==
  ASSUME IInv, [Next]_vars, NEW p \in Providers, Exists(p), prov'[p] # prov[p]
  PROVE  \E q \in Requests :
           /\ Serves(q) /\ ask[q].tenant = prov[p].tenant
           /\ prov'[p] # None /\ ~prov[p].enabled /\ prov'[p].enabled => ask[q].op = "enable"
<1>1. PICK q \in Requests : Serve(q)
  BY DEF Next, Begin, Register, Edit, Plain, Submit, Restart, vars
<1>2. CASE \E o \in Providers : Insert(q, o)
  BY <1>2 DEF Insert, IInv, TypeOK, Rows, Exists
<1>3. CASE Update(q)
  <2>1. p = ask[q].id /\ Found(q) /\ Serves(q)
    BY <1>3 DEF Update, WritesForm, Writes, Goto, Serves, IInv, TypeOK
  <2>2. prov'[p].enabled = prov[p].enabled
    BY <1>3, <2>1 DEF Update, KeptEnabled, IInv, TypeOK
  <2> QED BY <2>1, <2>2 DEF Found
<1>4. CASE SetEnabled(q)
  <2>1. p = ask[q].id /\ Found(q) /\ Serves(q)
    BY <1>4 DEF SetEnabled, Writes, Goto, Serves, IInv, TypeOK
  <2>2. prov[p] \in Row
    BY DEF IInv, TypeOK, Exists
  <2>3. prov'[p].enabled = (ask[q].op = "enable")
    BY <1>4, <2>1, <2>2 DEF SetEnabled, IInv, TypeOK, Row
  <2> QED BY <2>1, <2>3 DEF Found
<1>5. CASE Delete(q)
  <2>1. p = ask[q].id /\ Found(q) /\ Serves(q) /\ prov'[p] = None
    BY <1>5 DEF Delete, Writes, Goto, Serves, IInv, TypeOK
  <2> QED BY <2>1 DEF Found
<1>6. CASE Conflict(q) \/ Missing(q) \/ Reread(q) \/ Audit(q) \/ Answer(q) \/ Fails(q)
  BY <1>6 DEF Conflict, Missing, Reread, Audit, Answer, Fails
<1> QED BY <1>1, <1>2, <1>3, <1>4, <1>5, <1>6 DEF Serve

(* No request reaches a row of another organisation, whatever id it names.   *)
THEOREM OrganisationsApart == Spec => TenantsApart
<1> DEFINE Apart == \A p \in Providers :
              Exists(p) /\ prov'[p] # prov[p] =>
                \E q \in Requests : Serves(q) /\ ask[q].tenant = prov[p].tenant
<1>1. IInv /\ [Next]_vars => [Apart]_vars
  BY RowStep
<1> QED BY <1>1, InitIInv, NextIInv, PTL DEF Spec, TenantsApart

(* Trust that was withdrawn comes back only when an administrator asks.      *)
THEOREM WithdrawnStays == Spec => StaysWithdrawn
<1> DEFINE Stays == \A p \in Providers :
              Exists(p) /\ prov'[p] # None /\ ~prov[p].enabled /\ prov'[p].enabled =>
                \E q \in Requests : Serves(q) /\ ask[q].op = "enable"
<1>1. IInv /\ [Next]_vars => [Stays]_vars
  <2>1. ASSUME IInv, [Next]_vars, NEW p \in Providers,
               Exists(p), prov'[p] # None, ~prov[p].enabled, prov'[p].enabled
        PROVE  \E q \in Requests : Serves(q) /\ ask[q].op = "enable"
    <3>1. prov'[p] # prov[p]
      BY <2>1
    <3> QED BY <2>1, <3>1, RowStep
  <2> QED BY <2>1
<1> QED BY <1>1, InitIInv, NextIInv, PTL DEF Spec, StaysWithdrawn
=============================================================================
