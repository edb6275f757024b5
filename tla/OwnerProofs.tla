----------------------------- MODULE OwnerProofs -----------------------------
(***************************************************************************)
(* What belongs to one user, for any number of requests.                   *)
(*                                                                         *)
(* The account.  A session survives a revocation only if the index did not *)
(* name it when the revocation read it; what a request has read, taken or  *)
(* dropped between its two commands is what the invariant adds.            *)
(*                                                                         *)
(* The quiz, with any number of editors and questions and any limits of    *)
(* the plan.  Its row lock carries the argument: one transaction holds it  *)
(* at a time, and what it read or counted under it - the rows it will      *)
(* replace, the room for one more grant - is still so when it commits.     *)
(* Unlocked copies are tied to the version: a page that still has the      *)
(* quiz's version has every question a save has written.                   *)
(***************************************************************************)
EXTENDS Accounts, QuizEditing, FiniteSetTheorems, TLAPS

Kind == {"none", "verify", "login", "refresh", "logout", "change", "status", "role",
         "forgot", "reset"}
Step == {"idle", "create", "store", "index", "drop", "unindex", "read", "save", "members",
         "delete", "pointer", "unlink", "publish", "unpoint", "check", "set"}

Holds(r) == req[r].step \in {"index", "drop", "unindex"}
Resets(r) == req[r].step \in {"unpoint", "check", "set"}

\* A key whose DEL worked is gone before its entry in the index, one whose DEL failed is
\* no longer counted on, and a revocation that has read
\* the index has read every session that lives when it deletes.
SessionInv ==
    /\ SessionsStayRevocable
    /\ \A r \in Requests : Holds(r) => req[r].token \in Tokens
    /\ \A r \in Requests : At(r, "unindex") => session[req[r].token] \in {"dead", "loose"}
    /\ \A r \in Requests, t \in Tokens :
          At(r, "delete") /\ session[t] = "live" => t \in req[r].members

\* A link has one taker, who has taken it away, and until then it has set nothing.
LinkInv ==
    /\ LinkSetsOnePassword
    /\ \A l \in Links : link[l] # "dead" => spent[l] = 0
    /\ \A r \in Requests : Resets(r) =>
          req[r].link \in Links /\ link[req[r].link] = "dead" /\ spent[req[r].link] = 0
    /\ \A r, s \in Requests : Resets(r) /\ Resets(s) /\ req[r].link = req[s].link => r = s

AccountInv == AccountTypeOK /\ SessionInv /\ LinkInv

-----------------------------------------------------------------------------
(* Requests: what a step leaves of one.                                    *)

LEMMA IdleType == Idle \in Request /\ Idle.step = "idle"
BY DEF Idle, NoRow, Request, Row

\* The other requests stand still.
Spares(r) == \A s \in Requests \ {r} : req'[s] = req[s]

LEMMA Written ==
    ASSUME AccountTypeOK, NEW r \in Requests, NEW new \in Request, req' = [req EXCEPT ![r] = new]
    PROVE  req' \in [Requests -> Request] /\ req'[r] = new /\ Spares(r)
BY DEF AccountTypeOK, Spares

LEMMA GoesOn ==
    ASSUME AccountTypeOK, NEW r \in Requests, NEW step \in Step, Goes(r, step)
    PROVE  /\ req' \in [Requests -> Request] /\ Spares(r)
           /\ req'[r].step = step
           /\ step # "idle" => /\ req'[r].token = req[r].token
                               /\ req'[r].link = req[r].link
                               /\ req'[r].members = req[r].members
<1> DEFINE moved == [req[r] EXCEPT !.step = step]
<1>1. req[r] \in Request
  BY DEF AccountTypeOK
<1>2. moved \in Request
  BY <1>1, Zenon DEF Request, Step
<1>3. /\ moved.step = step /\ moved.token = req[r].token /\ moved.link = req[r].link
      /\ moved.members = req[r].members
  BY <1>1 DEF Request
<1>4. \/ step = "idle" /\ req' = [req EXCEPT ![r] = Idle]
      \/ step # "idle" /\ req' = [req EXCEPT ![r] = moved]
  BY DEF Goes
<1> HIDE DEF moved
<1> QED BY <1>2, <1>3, <1>4, IdleType, Written

LEMMA StartsOut ==
    ASSUME AccountTypeOK, NEW r \in Requests, NEW kind \in Kind, NEW step \in Step, Starts(r, kind, step)
    PROVE  req' \in [Requests -> Request] /\ req'[r].step = step /\ Spares(r)
<1> DEFINE new == [req[r] EXCEPT !.kind = kind, !.step = step]
<1>1. req[r] \in Request
  BY DEF AccountTypeOK
<1>2. new \in Request
  BY <1>1, Zenon DEF Request, Step, Kind
<1>3. new.step = step
  BY <1>1 DEF Request
<1>4. req' = [req EXCEPT ![r] = new]
  BY <1>1 DEF Starts, AccountTypeOK, Request
<1> HIDE DEF new
<1> QED BY <1>2, <1>3, <1>4, Written

\* A request that presents a token, and one that takes a link.
LEMMA Presents ==
    ASSUME AccountTypeOK, NEW r \in Requests, NEW t \in Tokens, Present(r, t)
    PROVE  /\ req' \in [Requests -> Request] /\ Spares(r)
           /\ req'[r].step = "drop" /\ req'[r].token = t
<1>1. PICK kind \in {"refresh", "logout"} :
         req' = [req EXCEPT ![r] = [Idle EXCEPT !.kind = kind, !.step = "drop", !.token = t]]
  BY DEF Present
<1> DEFINE new == [Idle EXCEPT !.kind = kind, !.step = "drop", !.token = t]
<1>2. new \in Request
  BY IdleType, Zenon DEF Request
<1>3. new.step = "drop" /\ new.token = t
  BY IdleType DEF Request
<1>4. req' = [req EXCEPT ![r] = new]
  BY <1>1
<1> HIDE DEF new
<1> QED BY <1>2, <1>3, <1>4, Written

LEMMA Takes ==
    ASSUME AccountTypeOK, NEW r \in Requests, NEW l \in Links, TakeLink(r, l)
    PROVE  /\ req' \in [Requests -> Request] /\ Spares(r)
           /\ req'[r].step = "unpoint" /\ req'[r].link = l
<1> DEFINE new == [Idle EXCEPT !.kind = "reset", !.step = "unpoint", !.link = l]
<1>1. new \in Request
  BY IdleType, Zenon DEF Request
<1>2. new.step = "unpoint" /\ new.link = l
  BY IdleType DEF Request
<1>3. req' = [req EXCEPT ![r] = new]
  BY DEF TakeLink
<1> HIDE DEF new
<1> QED BY <1>1, <1>2, <1>3, Written

LEMMA Edits ==
    ASSUME AccountTypeOK, NEW r \in Requests, NEW kind \in Kind, NEW row \in Row, Edit(r, kind, row)
    PROVE  req' \in [Requests -> Request] /\ req'[r].step = "save" /\ Spares(r)
<1> DEFINE new == [Idle EXCEPT !.kind = kind, !.step = "save", !.row = row]
<1>1. new \in Request
  BY IdleType, Zenon DEF Request, Kind
<1>2. new.step = "save"
  BY IdleType DEF Request
<1>3. req' = [req EXCEPT ![r] = new]
  BY DEF Edit
<1> HIDE DEF new
<1> QED BY <1>1, <1>2, <1>3, Written

LEMMA Stores ==
    ASSUME AccountTypeOK, NEW r \in Requests, StoreToken(r)
    PROVE  /\ req' \in [Requests -> Request] /\ Spares(r)
           /\ req'[r].step = "index" /\ req'[r].token \in Tokens
           /\ session' \in [Tokens -> SessionState]
           /\ \A t \in Tokens : session'[t] = session[t] \/ (session'[t] = "stored" /\ session[t] = "new")
           /\ UNCHANGED <<user, code, index, link, latest, cooling, spent>>
<1>1. PICK t \in Tokens : /\ session[t] = "new"
                          /\ session' = [session EXCEPT ![t] = "stored"]
                          /\ req' = [req EXCEPT ![r].step = "index", ![r].token = t]
  BY DEF StoreToken
<1> DEFINE new == [req[r] EXCEPT !.step = "index", !.token = t]
<1>2. req[r] \in Request
  BY DEF AccountTypeOK
<1>3. new \in Request
  BY <1>2, Zenon DEF Request
<1>4. new.step = "index" /\ new.token = t
  BY <1>2 DEF Request
<1>5. req' = [req EXCEPT ![r] = new]
  BY <1>1, <1>2 DEF AccountTypeOK, Request
<1>6. /\ session' \in [Tokens -> SessionState]
      /\ \A u \in Tokens : session'[u] = session[u] \/ (session'[u] = "stored" /\ session[u] = "new")
  BY <1>1 DEF AccountTypeOK, SessionState
<1>7. UNCHANGED <<user, code, index, link, latest, cooling, spent>>
  BY DEF StoreToken
<1> HIDE DEF new
<1> QED BY <1>3, <1>4, <1>5, <1>6, <1>7, Written

LEMMA ReadsMembers ==
    ASSUME AccountTypeOK, NEW r \in Requests, RevokeRead(r)
    PROVE  /\ req' \in [Requests -> Request] /\ Spares(r)
           /\ req'[r].step = "delete" /\ req'[r].members = index
<1> DEFINE new == [req[r] EXCEPT !.step = "delete", !.members = index]
<1>1. req[r] \in Request /\ index \in SUBSET Tokens
  BY DEF AccountTypeOK
<1>2. new \in Request
  BY <1>1, Zenon DEF Request
<1>3. new.step = "delete" /\ new.members = index
  BY <1>1 DEF Request
<1>4. req' = [req EXCEPT ![r] = new]
  BY <1>1 DEF RevokeRead, AccountTypeOK, Request
<1> HIDE DEF new
<1> QED BY <1>2, <1>3, <1>4, Written

LEMMA RevokedGoesOn ==
    ASSUME AccountTypeOK, NEW r \in Requests, Revoked(r)
    PROVE  req' \in [Requests -> Request] /\ Spares(r) /\ req'[r].step \in {"pointer", "idle"}
<1> DEFINE new == [req[r] EXCEPT !.step = "pointer", !.members = {}]
<1>1. req[r] \in Request
  BY DEF AccountTypeOK
<1>2. {} \in SUBSET Tokens
  OBVIOUS
<1>3. new \in Request
  BY <1>1, <1>2, Zenon DEF Request
<1>4. new.step = "pointer"
  BY <1>1 DEF Request
<1>5. CASE req[r].kind = "change"
  <2>1. req' = [req EXCEPT ![r].step = "pointer", ![r].members = {}]
    BY <1>5 DEF Revoked
  <2>2. req' = [req EXCEPT ![r] = new]
    BY <1>1, <2>1 DEF AccountTypeOK, Request
  <2> HIDE DEF new
  <2> QED BY <1>3, <1>4, <2>2, Written
<1>6. CASE req[r].kind # "change"
  <2>1. Goes(r, "idle") /\ "idle" \in Step
    BY <1>6 DEF Revoked, Step
  <2> QED BY <2>1, GoesOn
<1> QED BY <1>5, <1>6

LEMMA TakesPointer ==
    ASSUME AccountTypeOK, NEW r \in Requests, TakePointer(r)
    PROVE  req' \in [Requests -> Request] /\ req'[r].step = "unlink" /\ Spares(r)
<1> PICK named \in {latest, NoKey} :
        req' = [req EXCEPT ![r].step = "unlink", ![r].link = named]
  BY DEF TakePointer
<1> DEFINE new == [req[r] EXCEPT !.step = "unlink", !.link = named]
<1>1. req[r] \in Request /\ named \in Links \cup {NoKey}
  BY DEF AccountTypeOK
<1>2. new \in Request
  BY <1>1, Zenon DEF Request
<1>3. new.step = "unlink"
  BY <1>1 DEF Request
<1>4. req' = [req EXCEPT ![r] = new]
  BY <1>1 DEF AccountTypeOK, Request
<1> HIDE DEF new
<1> QED BY <1>2, <1>3, <1>4, Written

-----------------------------------------------------------------------------
(* Steps that take no token, no link and no index along.                   *)

QuietStep(r) ==
    \/ VerifyCode(r) \/ VerifyCreate(r) \/ Login(r) \/ RefreshRead(r)
    \/ ChangePassword(r) \/ AdminUpdateUserRole(r) \/ AdminUpdateUserStatus(r) \/ SaveRow(r)
    \/ RevokeFails(r) \/ TakePointer(r) \/ ForgotPassword(r) \/ Stops(r)

Carries(r) == req[r].step \in {"index", "drop", "unindex", "delete", "unpoint", "check", "set"}

LEMMA QuietMoves ==
    ASSUME AccountTypeOK, NEW r \in Requests, QuietStep(r)
    PROVE  req' \in [Requests -> Request] /\ Spares(r) /\ ~Carries(r)'
<1>1. /\ {"idle", "create", "store", "save", "members", "pointer"} \subseteq Step
      /\ {"verify", "login", "forgot", "change", "role", "status"} \subseteq Kind
  BY DEF Step, Kind
<1>2. user \in Row /\ \A v \in BOOLEAN : [user EXCEPT !.active = v] \in Row
  <2>1. user \in Row
    BY DEF AccountTypeOK
  <2> QED BY <2>1, Zenon DEF Row
<1>3. CASE VerifyCode(r)
  BY <1>1, <1>3, StartsOut DEF VerifyCode, Carries
<1>4. CASE VerifyCreate(r)
  <2>1. Goes(r, "idle") \/ Goes(r, "store")
    BY <1>4 DEF VerifyCreate
  <2> QED BY <1>1, <2>1, GoesOn DEF Carries
<1>5. CASE Login(r)
  BY <1>1, <1>5, StartsOut DEF Login, Carries
<1>6. CASE RefreshRead(r)
  <2>1. Goes(r, "idle") \/ Goes(r, "store")
    BY <1>6 DEF RefreshRead
  <2> QED BY <1>1, <2>1, GoesOn DEF Carries
<1>7. CASE ChangePassword(r) \/ AdminUpdateUserRole(r) \/ AdminUpdateUserStatus(r)
  <2>1. \E kind \in Kind, row \in Row : Edit(r, kind, row)
    BY <1>1, <1>2, <1>7 DEF ChangePassword, AdminUpdateUserRole, AdminUpdateUserStatus
  <2> QED BY <2>1, Edits DEF Carries
<1>8. CASE SaveRow(r)
  <2>1. Goes(r, "members") \/ Goes(r, "idle")
    BY <1>8 DEF SaveRow
  <2> QED BY <1>1, <2>1, GoesOn DEF Carries
<1>9. CASE RevokeFails(r)
  BY <1>9, RevokedGoesOn DEF RevokeFails, Carries
<1>10. CASE TakePointer(r)
  BY <1>10, TakesPointer DEF Carries
<1>11. CASE ForgotPassword(r)
  BY <1>1, <1>11, StartsOut DEF ForgotPassword, Carries
<1>12. CASE Stops(r)
  BY <1>1, <1>12, GoesOn DEF Stops, Carries
<1> QED BY <1>3, <1>4, <1>5, <1>6, <1>7, <1>8, <1>9, <1>10, <1>11, <1>12 DEF QuietStep

LEMMA QuietKeys ==
    ASSUME AccountTypeOK, NEW r \in Requests, QuietStep(r)
    PROVE  /\ UNCHANGED <<session, index, link, spent>>
           /\ user' \in Row /\ code' \in BOOLEAN /\ cooling' \in BOOLEAN
           /\ latest' \in Links \cup {NoKey}
<1>1. UNCHANGED <<session, index, link, spent>>
  BY DEF QuietStep, VerifyCode, VerifyCreate, Login, RefreshRead, ChangePassword,
         AdminUpdateUserRole, AdminUpdateUserStatus, Edit, SaveRow, RevokeFails, TakePointer,
         ForgotPassword, Stops, redis
<1>2. req[r].row \in Row /\ NewRow \in Row
  BY DEF AccountTypeOK, Request, NewRow, Row
<1>3. user' \in {user, NewRow, req[r].row} /\ code' \in {code, FALSE}
  BY DEF QuietStep, VerifyCode, VerifyCreate, Login, RefreshRead, ChangePassword,
         AdminUpdateUserRole, AdminUpdateUserStatus, Edit, SaveRow, RevokeFails, TakePointer,
         ForgotPassword, Stops, redis
<1>4. cooling' \in {cooling, TRUE} /\ latest' \in {latest, NoKey}
  BY DEF QuietStep, VerifyCode, VerifyCreate, Login, RefreshRead, ChangePassword,
         AdminUpdateUserRole, AdminUpdateUserStatus, Edit, SaveRow, RevokeFails, TakePointer,
         ForgotPassword, Stops, redis
<1> QED BY <1>1, <1>2, <1>3, <1>4 DEF AccountTypeOK

\* Requests that carry nothing disturb neither part.
LEMMA QuietKeeps ==
    ASSUME SessionInv, LinkInv, NEW r \in Requests, Spares(r), ~Carries(r)',
           UNCHANGED <<session, index, link, spent>>
    PROVE  SessionInv' /\ LinkInv'
<1>1. SessionInv'
  BY DEF SessionInv, SessionsStayRevocable, Holds, At, Spares, Carries
<1>2. LinkInv'
  BY DEF LinkInv, LinkSetsOnePassword, Resets, Spares, Carries
<1> QED BY <1>1, <1>2

\* A step about tokens leaves the links alone, and one about links the sessions.
LEMMA LinksKept ==
    ASSUME LinkInv, NEW r \in Requests, Spares(r), ~Resets(r)', UNCHANGED <<link, spent>>
    PROVE  LinkInv'
BY DEF LinkInv, LinkSetsOnePassword, Resets, Spares

LEMMA SessionsKept ==
    ASSUME SessionInv, NEW r \in Requests, Spares(r), ~Holds(r)', ~At(r, "delete")',
           UNCHANGED <<session, index>>
    PROVE  SessionInv'
BY DEF SessionInv, SessionsStayRevocable, Holds, At, Spares

-----------------------------------------------------------------------------
(* Each of the other steps.                                                *)

Keeps == AccountTypeOK' /\ SessionInv' /\ LinkInv'

LEMMA StoreTokenKeeps ==
    ASSUME AccountInv, NEW r \in Requests, StoreToken(r)
    PROVE  Keeps
<1>1. /\ req' \in [Requests -> Request] /\ Spares(r)
      /\ req'[r].step = "index" /\ req'[r].token \in Tokens
      /\ session' \in [Tokens -> SessionState]
      /\ \A t \in Tokens : session'[t] = session[t] \/ (session'[t] = "stored" /\ session[t] = "new")
      /\ UNCHANGED <<user, code, index, link, latest, cooling, spent>>
  BY Stores DEF AccountInv
<1>2. LinkInv'
  BY <1>1, LinksKept DEF AccountInv, Resets
<1>3. SessionInv'
  BY <1>1 DEF AccountInv, SessionInv, SessionsStayRevocable, Holds, At, Spares
<1> QED BY <1>1, <1>2, <1>3 DEF Keeps, AccountInv, AccountTypeOK

LEMMA IndexTokenKeeps ==
    ASSUME AccountInv, NEW r \in Requests, IndexToken(r)
    PROVE  Keeps
<1> DEFINE t == req[r].token
<1>1. t \in Tokens /\ index' = index \cup {t}
  BY DEF IndexToken, AccountInv, SessionInv, Holds, At
<1>2. /\ req' \in [Requests -> Request] /\ Spares(r) /\ req'[r].step = "idle"
      /\ UNCHANGED <<user, code, link, latest, cooling, spent>>
  BY GoesOn DEF IndexToken, AccountInv, Step
<1>3. /\ session' \in [Tokens -> SessionState]
      /\ \A u \in Tokens \ {t} : session'[u] = session[u]
      /\ session[t] # "stored" => session'[t] = session[t]
      /\ session[t] = "stored" => session'[t] \in {"raced", "live", "loose"}
      /\ session[t] = "stored" /\ Revoking => session'[t] # "live"
  BY <1>1 DEF IndexToken, AccountInv, AccountTypeOK, SessionState
<1>4. LinkInv'
  BY <1>2, LinksKept DEF AccountInv, Resets
<1>5. SessionsStayRevocable'
  BY <1>1, <1>3 DEF AccountInv, SessionInv, SessionsStayRevocable
<1>6. \A s \in Requests : Holds(s)' => req'[s].token \in Tokens
  BY <1>2 DEF AccountInv, SessionInv, Holds, Spares
<1>7. \A s \in Requests : At(s, "unindex")' => session'[req'[s].token] \in {"dead", "loose"}
  BY <1>2, <1>3 DEF AccountInv, SessionInv, Holds, At, Spares
<1>8. ASSUME NEW s \in Requests, NEW u \in Tokens, At(s, "delete")', session'[u] = "live"
      PROVE  u \in req'[s].members
  <2>1. req'[s] = req[s] /\ At(s, "delete") /\ Revoking
    BY <1>2, <1>8 DEF Spares, At, Revoking
  <2>2. session[u] = "live"
    BY <1>1, <1>3, <1>8, <2>1
  <2> QED BY <2>1, <2>2 DEF AccountInv, SessionInv
<1>9. SessionInv'
  BY <1>5, <1>6, <1>7, <1>8 DEF SessionInv
<1> QED BY <1>1, <1>2, <1>3, <1>4, <1>9 DEF Keeps, AccountInv, AccountTypeOK

LEMMA PresentKeeps ==
    ASSUME AccountInv, NEW r \in Requests, NEW t \in Tokens, Present(r, t)
    PROVE  Keeps
<1>1. /\ req' \in [Requests -> Request] /\ Spares(r)
      /\ req'[r].step = "drop" /\ req'[r].token = t
  BY Presents DEF AccountInv
<1>2. UNCHANGED <<user, code, session, index, link, latest, cooling, spent>>
  BY DEF Present, redis
<1>3. LinkInv'
  BY <1>1, <1>2, LinksKept DEF AccountInv, Resets
<1>4. SessionInv'
  BY <1>1, <1>2 DEF AccountInv, SessionInv, SessionsStayRevocable, Holds, At, Spares
<1> QED BY <1>1, <1>2, <1>3, <1>4 DEF Keeps, AccountInv, AccountTypeOK

\* Sessions that only end stay revocable.
LEMMA SessionsEnd ==
    ASSUME AccountTypeOK, SessionInv,
           \A t \in Tokens : session'[t] = session[t] \/ session'[t] \in {"dead", "loose"},
           NEW r \in Requests, Spares(r), ~At(r, "delete")',
           Holds(r)' => req'[r].token \in Tokens,
           At(r, "unindex")' => session'[req'[r].token] \in {"dead", "loose"},
           \A t \in Tokens : t \in index /\ t \notin index' => session'[t] # "live"
    PROVE  SessionInv'
<1>1. SessionsStayRevocable'
  BY DEF SessionInv, SessionsStayRevocable
<1>2. ASSUME NEW s \in Requests \ {r}
      PROVE  /\ Holds(s)' => req'[s].token \in Tokens
             /\ At(s, "unindex")' => session'[req'[s].token] \in {"dead", "loose"}
             /\ \A t \in Tokens : At(s, "delete")' /\ session'[t] = "live" => t \in req'[s].members
  <2>1. req'[s] = req[s]
    BY <1>2 DEF Spares
  <2> QED BY <2>1 DEF SessionInv, Holds, At
<1> QED BY <1>1, <1>2 DEF SessionInv

LEMMA DropTokenKeeps ==
    ASSUME AccountInv, NEW r \in Requests, DropToken(r)
    PROVE  Keeps
<1>1. req[r].token \in Tokens
  BY DEF DropToken, AccountInv, SessionInv, Holds, At
<1>2. /\ req' \in [Requests -> Request] /\ Spares(r)
      /\ req'[r].step = "unindex" /\ req'[r].token = req[r].token
      /\ UNCHANGED <<user, code, index, link, latest, cooling, spent>>
  BY GoesOn DEF DropToken, AccountInv, Step
<1>3. /\ session' \in [Tokens -> SessionState] /\ session'[req[r].token] \in {"dead", "loose"}
      /\ \A u \in Tokens : session'[u] = session[u] \/ session'[u] \in {"dead", "loose"}
  BY <1>1 DEF DropToken, AccountInv, AccountTypeOK, SessionState
<1>4. LinkInv'
  BY <1>2, LinksKept DEF AccountInv, Resets
<1>5. SessionInv'
  BY <1>1, <1>2, <1>3, SessionsEnd DEF AccountInv, At
<1> QED BY <1>2, <1>3, <1>4, <1>5 DEF Keeps, AccountInv, AccountTypeOK

LEMMA UnindexTokenKeeps ==
    ASSUME AccountInv, NEW r \in Requests, UnindexToken(r)
    PROVE  Keeps
<1>1. session[req[r].token] \in {"dead", "loose"}
  BY DEF UnindexToken, AccountInv, SessionInv
<1>2. /\ req' \in [Requests -> Request] /\ Spares(r) /\ req'[r].step \in {"read", "idle"}
      /\ UNCHANGED <<user, code, session, link, latest, cooling, spent>>
      /\ index' \in {index, index \ {req[r].token}}
  <2>1. Goes(r, "read") \/ Goes(r, "idle")
    BY DEF UnindexToken
  <2>2. req' \in [Requests -> Request] /\ Spares(r) /\ req'[r].step \in {"read", "idle"}
    BY <2>1, GoesOn DEF AccountInv, Step
  <2> QED BY <2>2 DEF UnindexToken
<1>3. LinkInv'
  BY <1>2, LinksKept DEF AccountInv, Resets
<1>4. SessionInv'
  BY <1>1, <1>2, SessionsEnd DEF AccountInv, At, Holds
<1> QED BY <1>2, <1>3, <1>4 DEF Keeps, AccountInv, AccountTypeOK

LEMMA RevokeReadKeeps ==
    ASSUME AccountInv, NEW r \in Requests, RevokeRead(r)
    PROVE  Keeps
<1>1. /\ req' \in [Requests -> Request] /\ Spares(r)
      /\ req'[r].step = "delete" /\ req'[r].members = index
  BY ReadsMembers DEF AccountInv
<1>2. UNCHANGED <<user, code, session, index, link, latest, cooling, spent>>
  BY DEF RevokeRead, redis
<1>3. LinkInv'
  BY <1>1, <1>2, LinksKept DEF AccountInv, Resets
<1>4. SessionInv'
  BY <1>1, <1>2 DEF AccountInv, SessionInv, SessionsStayRevocable, Holds, At, Spares
<1> QED BY <1>1, <1>2, <1>3, <1>4 DEF Keeps, AccountInv, AccountTypeOK

LEMMA RevokeDeleteKeeps ==
    ASSUME AccountInv, NEW r \in Requests, RevokeDelete(r)
    PROVE  Keeps
<1>1. /\ req' \in [Requests -> Request] /\ Spares(r) /\ req'[r].step \in {"pointer", "idle"}
      /\ UNCHANGED <<user, code, link, latest, cooling, spent>>
      /\ index' = {}
  BY RevokedGoesOn DEF RevokeDelete, AccountInv
<1>2. /\ session' \in [Tokens -> SessionState]
      /\ \A t \in Tokens : session'[t] = IF t \in req[r].members THEN "dead" ELSE session[t]
  BY DEF RevokeDelete, AccountInv, AccountTypeOK, SessionState
<1>3. \A t \in Tokens : session[t] = "live" => t \in req[r].members
  BY DEF RevokeDelete, AccountInv, SessionInv
<1>4. LinkInv'
  BY <1>1, LinksKept DEF AccountInv, Resets
<1>5. SessionInv'
  BY <1>1, <1>2, <1>3, SessionsEnd DEF AccountInv, At, Holds
<1> QED BY <1>1, <1>2, <1>4, <1>5 DEF Keeps, AccountInv, AccountTypeOK

\* Links that go from new to live, or end, while nobody takes one.
LEMMA LinksAge ==
    ASSUME LinkInv, \A l \in Links : link[l] = "dead" => link'[l] = "dead",
           NEW r \in Requests, Spares(r), ~Resets(r)', UNCHANGED spent
    PROVE  LinkInv'
BY DEF LinkInv, LinkSetsOnePassword, Resets, Spares

LEMMA KillLinkKeeps ==
    ASSUME AccountInv, NEW r \in Requests, KillLink(r)
    PROVE  Keeps
<1>1. /\ req' \in [Requests -> Request] /\ Spares(r) /\ req'[r].step \in {"publish", "idle"}
      /\ UNCHANGED <<user, code, session, index, latest, cooling, spent>>
  <2>1. Goes(r, "publish") \/ Goes(r, "idle")
    BY DEF KillLink
  <2>2. req' \in [Requests -> Request] /\ Spares(r) /\ req'[r].step \in {"publish", "idle"}
    BY <2>1, GoesOn DEF AccountInv, Step
  <2> QED BY <2>2 DEF KillLink
<1>2. /\ link' \in [Links -> {"new", "live", "dead"}]
      /\ \A l \in Links : link'[l] = link[l] \/ link'[l] = "dead"
  BY DEF KillLink, AccountInv, AccountTypeOK
<1>3. LinkInv'
  BY <1>1, <1>2, LinksAge DEF AccountInv, Resets
<1>4. SessionInv'
  BY <1>1, SessionsKept DEF AccountInv, Holds, At
<1> QED BY <1>1, <1>2, <1>3, <1>4 DEF Keeps, AccountInv, AccountTypeOK

LEMMA PublishLinkKeeps ==
    ASSUME AccountInv, NEW r \in Requests, PublishLink(r)
    PROVE  Keeps
<1>1. /\ req' \in [Requests -> Request] /\ Spares(r) /\ req'[r].step = "idle"
      /\ UNCHANGED <<user, code, session, index, cooling, spent>>
  BY GoesOn DEF PublishLink, AccountInv, Step
<1>2. /\ link' \in [Links -> {"new", "live", "dead"}] /\ latest' \in Links
      /\ \A l \in Links : link[l] = "dead" => link'[l] = "dead"
  BY DEF PublishLink, AccountInv, AccountTypeOK
<1>3. LinkInv'
  BY <1>1, <1>2, LinksAge DEF AccountInv, Resets
<1>4. SessionInv'
  BY <1>1, SessionsKept DEF AccountInv, Holds, At
<1> QED BY <1>1, <1>2, <1>3, <1>4 DEF Keeps, AccountInv, AccountTypeOK

LEMMA TakeLinkKeeps ==
    ASSUME AccountInv, NEW r \in Requests, NEW l \in Links, TakeLink(r, l)
    PROVE  Keeps
<1>1. /\ req' \in [Requests -> Request] /\ Spares(r)
      /\ req'[r].step = "unpoint" /\ req'[r].link = l
  BY Takes DEF AccountInv
<1>2. /\ link[l] = "live" /\ link' \in [Links -> {"new", "live", "dead"}] /\ link'[l] = "dead"
      /\ \A m \in Links \ {l} : link'[m] = link[m]
      /\ UNCHANGED <<user, code, session, index, latest, cooling, spent>>
  BY DEF TakeLink, AccountInv, AccountTypeOK
<1>3. spent[l] = 0 /\ \A s \in Requests : Resets(s) => req[s].link # l
  BY <1>2 DEF AccountInv, LinkInv
<1>4. LinkInv'
  BY <1>1, <1>2, <1>3 DEF AccountInv, LinkInv, LinkSetsOnePassword, Resets, Spares
<1>5. SessionInv'
  BY <1>1, <1>2, SessionsKept DEF AccountInv, Holds, At
<1> QED BY <1>1, <1>2, <1>4, <1>5 DEF Keeps, AccountInv, AccountTypeOK

\* A reset that goes on with the link it has taken, or ends.
LEMMA ResetGoesOn ==
    ASSUME LinkInv, NEW r \in Requests, Spares(r), Resets(r), UNCHANGED <<link, spent>>,
           Resets(r)' => req'[r].link = req[r].link
    PROVE  LinkInv'
BY DEF LinkInv, LinkSetsOnePassword, Resets, Spares

LEMMA DropPointerKeeps ==
    ASSUME AccountInv, NEW r \in Requests, DropPointer(r)
    PROVE  Keeps
<1>1. /\ req' \in [Requests -> Request] /\ Spares(r)
      /\ req'[r].step = "check" /\ req'[r].link = req[r].link
  BY GoesOn DEF DropPointer, AccountInv, Step
<1>2. latest' \in {latest, NoKey} /\ UNCHANGED <<user, code, session, index, link, cooling, spent>>
  BY DEF DropPointer
<1>3. LinkInv'
  BY <1>1, <1>2, ResetGoesOn DEF AccountInv, DropPointer, At, Resets
<1>4. SessionInv'
  BY <1>1, <1>2, SessionsKept DEF AccountInv, Holds, At
<1> QED BY <1>1, <1>2, <1>3, <1>4 DEF Keeps, AccountInv, AccountTypeOK

LEMMA ResetReadKeeps ==
    ASSUME AccountInv, NEW r \in Requests, ResetRead(r)
    PROVE  Keeps
<1>1. /\ req' \in [Requests -> Request] /\ Spares(r)
      /\ req'[r].step = "idle" \/ (req'[r].step = "set" /\ req'[r].link = req[r].link)
  <2>1. Goes(r, "set") \/ Goes(r, "idle")
    BY DEF ResetRead
  <2> QED BY <2>1, GoesOn DEF AccountInv, Step
<1>2. UNCHANGED <<user, code, session, index, link, latest, cooling, spent>>
  BY DEF ResetRead, redis
<1>3. LinkInv'
  BY <1>1, <1>2, ResetGoesOn DEF AccountInv, ResetRead, At, Resets
<1>4. SessionInv'
  BY <1>1, <1>2, SessionsKept DEF AccountInv, Holds, At
<1> QED BY <1>1, <1>2, <1>3, <1>4 DEF Keeps, AccountInv, AccountTypeOK

LEMMA SetPasswordKeeps ==
    ASSUME AccountInv, NEW r \in Requests, SetPassword(r)
    PROVE  Keeps
<1> DEFINE l == req[r].link
<1>1. /\ req' \in [Requests -> Request] /\ Spares(r) /\ req'[r].step = "members"
      /\ UNCHANGED <<user, code, session, index, link, latest, cooling>>
  BY GoesOn DEF SetPassword, AccountInv, Step, redis
<1>2. /\ Resets(r) /\ l \in Links /\ link[l] = "dead" /\ spent[l] = 0
      /\ \A s \in Requests \ {r} : Resets(s) => req[s].link # l
  BY DEF SetPassword, At, AccountInv, LinkInv, Resets
<1>3. /\ spent' \in [Links -> Nat] /\ spent'[l] = 1
      /\ \A m \in Links \ {l} : spent'[m] = spent[m]
  BY <1>2 DEF SetPassword, AccountInv, AccountTypeOK
<1>4. LinkInv'
  BY <1>1, <1>2, <1>3 DEF AccountInv, LinkInv, LinkSetsOnePassword, Resets, Spares
<1>5. SessionInv'
  BY <1>1, SessionsKept DEF AccountInv, Holds, At
<1> QED BY <1>1, <1>3, <1>4, <1>5 DEF Keeps, AccountInv, AccountTypeOK

-----------------------------------------------------------------------------
(* The theorems.                                                           *)

LEMMA AccountInitInv == AccountInit => AccountInv
<1> SUFFICES ASSUME AccountInit
             PROVE  AccountInv
  OBVIOUS
<1>1. \A r \in Requests : req[r].step = "idle"
  BY IdleType DEF AccountInit
<1>2. AccountTypeOK
  BY IdleType DEF AccountInit, AccountTypeOK, NoRow, Row, SessionState
<1>3. SessionInv
  BY <1>1 DEF AccountInit, SessionInv, SessionsStayRevocable, Holds, At
<1>4. LinkInv
  BY <1>1 DEF AccountInit, LinkInv, LinkSetsOnePassword, Resets
<1> QED BY <1>2, <1>3, <1>4 DEF AccountInv

LEMMA NextKeeps ==
    ASSUME AccountInv, [AccountNext]_accountVars
    PROVE  Keeps
<1>1. ASSUME NEW r \in Requests, QuietStep(r)
      PROVE  Keeps
  <2>1. /\ req' \in [Requests -> Request] /\ Spares(r) /\ ~Carries(r)'
        /\ UNCHANGED <<session, index, link, spent>>
        /\ user' \in Row /\ code' \in BOOLEAN /\ cooling' \in BOOLEAN
        /\ latest' \in Links \cup {NoKey}
    BY <1>1, QuietMoves, QuietKeys DEF AccountInv
  <2>2. SessionInv' /\ LinkInv'
    BY <2>1, QuietKeeps DEF AccountInv
  <2> QED BY <2>1, <2>2 DEF Keeps, AccountInv, AccountTypeOK
<1>2. ASSUME NEW r \in Requests,
             \/ StoreToken(r) \/ IndexToken(r) \/ DropToken(r) \/ UnindexToken(r)
             \/ RevokeRead(r) \/ RevokeDelete(r) \/ KillLink(r) \/ PublishLink(r)
             \/ DropPointer(r) \/ ResetRead(r) \/ SetPassword(r)
      PROVE  Keeps
  BY <1>2, StoreTokenKeeps, IndexTokenKeeps, DropTokenKeeps, UnindexTokenKeeps, RevokeReadKeeps,
     RevokeDeleteKeeps, KillLinkKeeps, PublishLinkKeeps, DropPointerKeeps, ResetReadKeeps,
     SetPasswordKeeps
<1>3. CASE \E r \in Requests, t \in Tokens : Present(r, t)
  BY <1>3, PresentKeeps
<1>4. CASE \E r \in Requests, l \in Links : TakeLink(r, l)
  BY <1>4, TakeLinkKeeps
<1>5. ASSUME NEW t \in Tokens, SessionExpires(t)
      PROVE  Keeps
  <2>1. /\ session' \in [Tokens -> SessionState]
        /\ \A u \in Tokens : session'[u] = session[u] \/ session'[u] = "dead"
        /\ UNCHANGED <<user, code, index, link, latest, cooling, req, spent>>
    BY <1>5 DEF SessionExpires, AccountInv, AccountTypeOK, SessionState
  <2>2. SessionInv'
    BY <2>1 DEF AccountInv, SessionInv, SessionsStayRevocable, Holds, At
  <2>3. LinkInv'
    BY <2>1 DEF AccountInv, LinkInv, LinkSetsOnePassword, Resets
  <2> QED BY <2>1, <2>2, <2>3 DEF Keeps, AccountInv, AccountTypeOK
<1>6. ASSUME NEW l \in Links, LinkExpires(l)
      PROVE  Keeps
  <2>1. /\ link' \in [Links -> {"new", "live", "dead"}]
        /\ \A m \in Links : link'[m] = link[m] \/ link'[m] = "dead"
        /\ latest' \in Links \cup {NoKey}
        /\ UNCHANGED <<user, code, session, index, cooling, req, spent>>
    BY <1>6 DEF LinkExpires, AccountInv, AccountTypeOK
  <2>2. SessionInv'
    BY <2>1 DEF AccountInv, SessionInv, SessionsStayRevocable, Holds, At
  <2>3. LinkInv'
    BY <2>1 DEF AccountInv, LinkInv, LinkSetsOnePassword, Resets
  <2> QED BY <2>1, <2>2, <2>3 DEF Keeps, AccountInv, AccountTypeOK
<1>7. CASE Register \/ CooldownEnds \/ CodeExpires \/ UNCHANGED accountVars
  <2>1. /\ UNCHANGED <<user, session, index, link, latest, req, spent>>
        /\ code' \in BOOLEAN /\ cooling' \in BOOLEAN
    BY <1>7 DEF Register, CooldownEnds, CodeExpires, accountVars, AccountInv, AccountTypeOK
  <2>2. SessionInv'
    BY <2>1 DEF AccountInv, SessionInv, SessionsStayRevocable, Holds, At
  <2>3. LinkInv'
    BY <2>1 DEF AccountInv, LinkInv, LinkSetsOnePassword, Resets
  <2> QED BY <2>1, <2>2, <2>3 DEF Keeps, AccountInv, AccountTypeOK
<1>8. CASE IndexExpires
  <2>1. /\ index' = {} /\ \A t \in Tokens : session[t] # "live"
        /\ UNCHANGED <<user, code, session, link, latest, cooling, req, spent>>
    BY <1>8 DEF IndexExpires
  <2>2. SessionInv'
    BY <2>1 DEF AccountInv, SessionInv, SessionsStayRevocable, Holds, At
  <2>3. LinkInv'
    BY <2>1 DEF AccountInv, LinkInv, LinkSetsOnePassword, Resets
  <2> QED BY <2>1, <2>2, <2>3 DEF Keeps, AccountInv, AccountTypeOK
<1> QED BY <1>1, <1>2, <1>3, <1>4, <1>5, <1>6, <1>7, <1>8 DEF AccountNext, QuietStep

\* What a request knows between its commands to Redis stays so.
THEOREM AccountInvariant == AccountSpec => []AccountInv
<1>1. AccountInv /\ [AccountNext]_accountVars => AccountInv'
  BY NextKeeps DEF AccountInv, Keeps
<1> QED BY <1>1, AccountInitInv, PTL DEF AccountSpec

\* Every row, key and request keeps its shape (handler/auth.go, token_service.go).
THEOREM AccountTypesHold == AccountSpec => []AccountTypeOK
BY AccountInvariant, PTL DEF AccountInv

\* A session handed out while no revocation was at work, and for which the index was
\* renewed, is in the index for as long as it lives or until its own DEL has been
\* tried: a later change of the password ends it, whatever rotations, logouts,
\* expiries, failed commands and failed requests come between (GenerateRefreshToken,
\* RevokeRefreshToken, RevokeAllRefreshTokens).
THEOREM SessionsCanBeRevoked == AccountSpec => []SessionsStayRevocable
BY AccountInvariant, PTL DEF AccountInv, SessionInv

\* A reset link sets one password, however many requests submit it and wherever they
\* stop (ResetPassword's GETDEL).
THEOREM OneLinkOnePassword == AccountSpec => []LinkSetsOnePassword
BY AccountInvariant, PTL DEF AccountInv, LinkInv

-----------------------------------------------------------------------------
(* The quiz.                                                               *)

Locks(e) == desk[e].step = "locked"
Inserts(i) == inviting[i].step = "locked"

\* One transaction holds the row of a quiz that is there.
LockInv ==
    /\ \A e, f \in Editors : Locks(e) /\ Locks(f) => e = f
    /\ \A i, j \in Invites : Inserts(i) /\ Inserts(j) => i = j
    /\ \A e \in Editors, i \in Invites : ~(Locks(e) /\ Inserts(i))
    /\ \A e \in Editors : Locks(e) => quiz.state = "live"
    /\ \A i \in Invites : Inserts(i) => quiz.state = "live"
    /\ \A e \in Editors : desk[e].step # "away" => quiz.state # "none"
    /\ quiz.state = "none" => quiz.version = 0

\* What an invitation has counted under the lock.
GrantInv ==
    /\ IsFiniteSet(Grants)
    /\ GrantsWithinLimit
    /\ DeletedQuizHasNoGrants
    /\ \A i \in Invites : Inserts(i) => Cardinality(Grants) < GrantLimit

\* Questions that a save, or the making of the quiz, has written.
Saved == {q \in Questions : written[q] \in Nat}

\* What a save has read under the lock.
ListInv ==
    /\ ListIsOneSave
    /\ \A e \in Editors : Locks(e) => Saved \subseteq desk[e].existing

\* The pages, and the requests that carry a page's version.
PageInv ==
    \A e \in Editors :
        /\ desk[e].step \in {"loading", "open"} => desk[e].version <= quiz.version
        /\ desk[e].step = "open" /\ desk[e].version = quiz.version => Saved \subseteq desk[e].seen
        /\ desk[e].step = "checked" /\ desk[e].expects # None =>
              /\ desk[e].expects <= quiz.version
              /\ (desk[e].expects = quiz.version => Saved \subseteq desk[e].seen)
        /\ Locks(e) /\ desk[e].expects # None => Saved \subseteq desk[e].seen

IInv == TypeOK /\ LockInv /\ GrantInv /\ ListInv /\ PageInv

-----------------------------------------------------------------------------
(* Pages: what each request leaves of an editor's desk.                    *)

LEMMA EmptyDeskType == EmptyDesk \in Desk /\ EmptyDesk.step = "away"
BY EditingAssumption DEF EmptyDesk, Desk

\* One desk is written over.
LEMMA DeskWritten ==
    ASSUME TypeOK, NEW e \in Editors, NEW new \in Desk, desk' = [desk EXCEPT ![e] = new]
    PROVE  /\ desk' \in [Editors -> Desk]
           /\ desk'[e] = new
           /\ \A f \in Editors \ {e} : desk'[f] = desk[f]
BY DEF TypeOK

LEMMA LoadRowDesk ==
    ASSUME TypeOK, NEW e \in Editors, LoadRow(e)
    PROVE  /\ desk' \in [Editors -> Desk]
           /\ desk'[e].step = "loading" /\ desk'[e].version = quiz.version
           /\ \A f \in Editors \ {e} : desk'[f] = desk[f]
<1> DEFINE new == [EmptyDesk EXCEPT !.step = "loading", !.version = quiz.version]
<1>1. quiz.version \in 0..MaxVersion
  BY DEF TypeOK, Quiz
<1>2. new \in Desk
  BY <1>1, EmptyDeskType, Zenon DEF Desk
<1>3. new.step = "loading" /\ new.version = quiz.version
  BY EmptyDeskType DEF Desk
<1>4. desk' = [desk EXCEPT ![e] = new]
  BY DEF LoadRow
<1> HIDE DEF new
<1> QED BY <1>2, <1>3, <1>4, DeskWritten

LEMMA LoadQuestionsDesk ==
    ASSUME TypeOK, NEW e \in Editors, LoadQuestions(e)
    PROVE  /\ desk' \in [Editors -> Desk]
           /\ \/ desk'[e].step = "away"
              \/ /\ desk'[e].step = "open" /\ desk'[e].version = desk[e].version
                 /\ desk'[e].seen = Rows
           /\ \A f \in Editors \ {e} : desk'[f] = desk[f]
<1> DEFINE opened == [desk[e] EXCEPT !.step = "open", !.seen = Rows]
<1>1. desk[e] \in Desk /\ Rows \subseteq Questions
  BY DEF TypeOK, Rows
<1>2. opened \in Desk
  BY <1>1, Zenon DEF Desk
<1>3. opened.step = "open" /\ opened.version = desk[e].version /\ opened.seen = Rows
  BY <1>1 DEF Desk
<1>4. \/ desk' = [desk EXCEPT ![e] = opened]
      \/ desk' = [desk EXCEPT ![e] = EmptyDesk]
  BY DEF LoadQuestions
<1> HIDE DEF opened
<1> QED BY <1>2, <1>3, <1>4, EmptyDeskType, DeskWritten

LEMMA AskSaveDesk ==
    ASSUME TypeOK, NEW e \in Editors, AskSave(e)
    PROVE  /\ desk' \in [Editors -> Desk]
           /\ desk'[e].step = "checked" /\ desk'[e].seen = desk[e].seen
           /\ desk'[e].expects \in {desk[e].version, None}
           /\ \A f \in Editors \ {e} : desk'[f] = desk[f]
<1> PICK keep \in SUBSET desk[e].seen, adds \in 0..1, expects \in {desk[e].version, None} :
        desk' = [desk EXCEPT ![e] = [@ EXCEPT !.step = "checked", !.version = 0, !.keep = keep,
                                              !.adds = adds, !.expects = expects]]
  BY DEF AskSave
<1> DEFINE new == [desk[e] EXCEPT !.step = "checked", !.version = 0, !.keep = keep,
                                  !.adds = adds, !.expects = expects]
<1>1. desk[e] \in Desk
  BY DEF TypeOK
<1>2. /\ 0 \in 0..MaxVersion /\ keep \in SUBSET Questions
      /\ expects \in 0..MaxVersion \cup {None}
  BY <1>1, EditingAssumption DEF Desk
<1>3. new \in Desk
  BY <1>1, <1>2, Zenon DEF Desk
<1>4. new.step = "checked" /\ new.seen = desk[e].seen /\ new.expects = expects
  BY <1>1 DEF Desk
<1>5. desk' = [desk EXCEPT ![e] = new]
  OBVIOUS
<1> HIDE DEF new
<1> QED BY <1>3, <1>4, <1>5, DeskWritten

LEMMA SaveBeginDesk ==
    ASSUME TypeOK, NEW e \in Editors, SaveBegin(e)
    PROVE  /\ desk' \in [Editors -> Desk]
           /\ \/ desk'[e].step = "away"
              \/ /\ Swaps(e)
                 /\ desk'[e].step = "locked" /\ desk'[e].seen = desk[e].seen
                 /\ desk'[e].expects = desk[e].expects /\ desk'[e].existing = Rows
           /\ \A f \in Editors \ {e} : desk'[f] = desk[f]
<1> DEFINE locked == [desk[e] EXCEPT !.step = "locked", !.existing = Rows]
<1>1. desk[e] \in Desk /\ Rows \subseteq Questions
  BY DEF TypeOK, Rows
<1>2. locked \in Desk
  BY <1>1, Zenon DEF Desk
<1>3. /\ locked.step = "locked" /\ locked.seen = desk[e].seen
      /\ locked.expects = desk[e].expects /\ locked.existing = Rows
  BY <1>1 DEF Desk
<1>4. \/ Swaps(e) /\ desk' = [desk EXCEPT ![e] = locked]
      \/ desk' = [desk EXCEPT ![e] = EmptyDesk]
  BY DEF SaveBegin
<1> HIDE DEF locked
<1> QED BY <1>2, <1>3, <1>4, EmptyDeskType, DeskWritten

LEMMA DeskCleared ==
    ASSUME TypeOK, NEW e \in Editors, SaveCommit(e) \/ SaveFails(e)
    PROVE  /\ desk' \in [Editors -> Desk]
           /\ desk'[e].step = "away"
           /\ \A f \in Editors \ {e} : desk'[f] = desk[f]
<1>1. desk' = [desk EXCEPT ![e] = EmptyDesk]
  BY DEF SaveCommit, SaveFails
<1> QED BY <1>1, EmptyDeskType, DeskWritten

-----------------------------------------------------------------------------
(* Invitations.                                                            *)

LEMMA InviteWritten ==
    ASSUME TypeOK, NEW i \in Invites, NEW new \in Invite, inviting' = [inviting EXCEPT ![i] = new]
    PROVE  /\ inviting' \in [Invites -> Invite]
           /\ inviting'[i] = new
           /\ \A j \in Invites \ {i} : inviting'[j] = inviting[j]
BY DEF TypeOK

LEMMA NoInviteType == NoInvite \in Invite /\ NoInvite.step = "idle"
BY DEF NoInvite, Invite

LEMMA InviteAskSteps ==
    ASSUME TypeOK, NEW i \in Invites, NEW g \in Guests, InviteAsk(i, g)
    PROVE  /\ inviting' \in [Invites -> Invite]
           /\ \A j \in Invites : Inserts(j)' => Inserts(j)
<1> PICK known \in BOOLEAN :
        inviting' = [inviting EXCEPT ![i] = [step |-> "ready", guest |-> g, known |-> known]]
  BY DEF InviteAsk
<1> DEFINE new == [step |-> "ready", guest |-> g, known |-> known]
<1>1. new \in Invite /\ new.step = "ready"
  BY DEF Invite
<1>2. inviting' = [inviting EXCEPT ![i] = new]
  OBVIOUS
<1> HIDE DEF new
<1> QED BY <1>1, <1>2, InviteWritten DEF Inserts

LEMMA InviteLockSteps ==
    ASSUME TypeOK, NEW i \in Invites, InviteLock(i)
    PROVE  /\ inviting' \in [Invites -> Invite]
           /\ Inserts(i)' => quiz.state = "live" /\ Cardinality(Grants) < GrantLimit
           /\ \A j \in Invites \ {i} : inviting'[j] = inviting[j]
<1> DEFINE locked == [inviting[i] EXCEPT !.step = "locked"]
<1>1. inviting[i] \in Invite
  BY DEF TypeOK
<1>2. locked \in Invite /\ locked.step = "locked"
  BY <1>1 DEF Invite
<1>3. \/ /\ quiz.state = "live" /\ Cardinality(Grants) < GrantLimit
         /\ inviting' = [inviting EXCEPT ![i] = locked]
      \/ inviting' = [inviting EXCEPT ![i] = NoInvite]
  BY DEF InviteLock
<1> HIDE DEF locked
<1> QED BY <1>2, <1>3, NoInviteType, InviteWritten DEF Inserts

LEMMA InviteInsertSteps ==
    ASSUME TypeOK, NEW i \in Invites, InviteInsert(i)
    PROVE  /\ inviting' \in [Invites -> Invite]
           /\ ~Inserts(i)'
           /\ \A j \in Invites \ {i} : inviting'[j] = inviting[j]
           /\ grant' \in [Guests -> {"none", "pending", "linked"}]
           /\ Grants' \subseteq Grants \cup {inviting[i].guest}
<1>1. inviting' = [inviting EXCEPT ![i] = NoInvite]
  BY DEF InviteInsert
<1>2. ~Inserts(i)' /\ inviting' \in [Invites -> Invite]
      /\ \A j \in Invites \ {i} : inviting'[j] = inviting[j]
  BY <1>1, NoInviteType, InviteWritten DEF Inserts
<1>3. grant' \in [Guests -> {"none", "pending", "linked"}]
      /\ \A g \in Guests : grant'[g] = grant[g] \/ g = inviting[i].guest
  BY DEF InviteInsert, TypeOK
<1> QED BY <1>2, <1>3 DEF Grants

-----------------------------------------------------------------------------
(* Types.                                                                  *)

\* The steps that leave the quiz row and its questions alone.
DeskStep(e) == LoadRow(e) \/ LoadQuestions(e) \/ AskSave(e) \/ SaveBegin(e) \/ SaveFails(e)
InviteStep(i) == (\E g \in Guests : InviteAsk(i, g)) \/ InviteLock(i)
PackStep == CreateTemplate \/ CreateTemplateFromQuiz \/ DeleteTemplate \/ AskImport
ShareStep(g) == RemoveQuizCollaborator(g) \/ LeaveSharedQuiz(g) \/ SignIn(g)
MakeStep == CreateQuiz \/ InstantiateTemplate

\* Every step is one of these.
LEMMA Steps ==
    ASSUME [Next]_vars
    PROVE  \/ MakeStep \/ ImportBankQuestions \/ PackStep \/ DeleteQuiz \/ DropGrants
           \/ \E e \in Editors : DeskStep(e) \/ SaveCommit(e)
           \/ \E i \in Invites : InviteStep(i) \/ InviteInsert(i)
           \/ \E g \in Guests : ShareStep(g)
           \/ UNCHANGED vars
BY DEF Next, DeskStep, InviteStep, PackStep, ShareStep, MakeStep

\* A quiz is made once, and what it starts with is written at version 0.
LEMMA MakeSteps ==
    ASSUME TypeOK, MakeStep
    PROVE  /\ quiz.state = "none" /\ quiz'.state = "live" /\ quiz'.version = quiz.version
           /\ quiz' \in Quiz
           /\ \A q \in Questions : written'[q] \in {0, None}
           /\ written' \in [Questions -> {0, None}]
           /\ UNCHANGED <<pack, desk, inviting, grant, deleting>>
<1>1. PICK rows \in SUBSET Questions : NewQuiz(rows)
  BY DEF MakeStep, CreateQuiz, InstantiateTemplate
<1>2. quiz.state = "none" /\ quiz' = [quiz EXCEPT !.state = "live"]
  BY <1>1 DEF NewQuiz
<1>3. quiz \in Quiz
  BY DEF TypeOK
<1>4. quiz' \in Quiz /\ quiz'.state = "live" /\ quiz'.version = quiz.version
  BY <1>2, <1>3 DEF Quiz
<1>5. written' \in [Questions -> {0, None}]
  BY <1>1 DEF NewQuiz
<1> QED BY <1>2, <1>4, <1>5 DEF MakeStep, CreateQuiz, InstantiateTemplate

\* A save commits: a version more, every row that was read is kept or gone, and every
\* row of this save bears its version.
LEMMA CommitSteps ==
    ASSUME TypeOK, NEW e \in Editors, SaveCommit(e)
    PROVE  /\ Locks(e)
           /\ quiz.version \in Nat /\ quiz'.version = quiz.version + 1 /\ quiz'.state = quiz.state
           /\ quiz' \in Quiz
           /\ written' \in [Questions -> 0..MaxVersion \cup {Imported, Gone, None}]
           /\ \A q \in Questions :
                 \/ written'[q] \in {quiz.version + 1, Gone}
                 \/ q \notin desk[e].existing /\ written'[q] = written[q]
           /\ \A q \in Questions : written'[q] = Gone =>
                 q \in desk[e].existing \/ written[q] = Gone
<1>1. quiz \in Quiz /\ quiz.version \in 0..MaxVersion /\ quiz.version < MaxVersion
  BY DEF TypeOK, Quiz, SaveCommit
<1>2. /\ quiz' = [quiz EXCEPT !.version = @ + 1]
      /\ quiz.version + 1 \in 0..MaxVersion
  BY <1>1, EditingAssumption DEF SaveCommit
<1>3. quiz' \in Quiz /\ quiz'.version = quiz.version + 1 /\ quiz'.state = quiz.state
  BY <1>1, <1>2 DEF Quiz
<1>4. PICK new \in SUBSET Questions :
         written' = [q \in Questions |-> IF q \in new THEN quiz.version + 1
                                         ELSE IF q \in desk[e].existing THEN Gone ELSE written[q]]
  <2>1. desk[e].keep \cap desk[e].existing \subseteq Questions /\ Unused \subseteq Questions
    BY DEF TypeOK, Desk, Unused
  <2>2. PICK fresh \in SUBSET Unused :
           written' = [q \in Questions |->
              IF q \in (desk[e].keep \cap desk[e].existing) \cup fresh THEN quiz.version + 1
              ELSE IF q \in desk[e].existing THEN Gone ELSE written[q]]
    BY DEF SaveCommit
  <2> QED BY <2>1, <2>2
<1>5. written' \in [Questions -> 0..MaxVersion \cup {Imported, Gone, None}]
  BY <1>2, <1>4 DEF TypeOK
<1>6. quiz.version + 1 # Gone
  BY <1>1, EditingAssumption
<1> QED BY <1>1, <1>3, <1>4, <1>5, <1>6 DEF SaveCommit, Locks

LEMMA InitTypes == Init => TypeOK
<1> SUFFICES ASSUME Init
             PROVE  TypeOK
  OBVIOUS
<1>1. 0 \in 0..MaxVersion
  BY EditingAssumption
<1>2. quiz \in Quiz
  BY <1>1 DEF Init, Quiz
<1>3. desk \in [Editors -> Desk]
  BY EmptyDeskType DEF Init
<1>4. inviting \in [Invites -> Invite]
  BY NoInviteType DEF Init
<1> QED BY <1>2, <1>3, <1>4 DEF Init, TypeOK

LEMMA NextTypes ==
    ASSUME TypeOK, [Next]_vars
    PROVE  TypeOK'
<1>1. CASE MakeStep
  <2>1. written' \in [Questions -> 0..MaxVersion \cup {Imported, Gone, None}]
    BY <1>1, MakeSteps, EditingAssumption
  <2> QED BY <1>1, <2>1, MakeSteps DEF TypeOK
<1>2. CASE ImportBankQuestions
  <2>1. written' \in [Questions -> 0..MaxVersion \cup {Imported, Gone, None}]
    BY <1>2 DEF ImportBankQuestions, TypeOK
  <2> QED BY <1>2, <2>1 DEF ImportBankQuestions, TypeOK
<1>3. CASE PackStep
  BY <1>3 DEF PackStep, CreateTemplate, CreateTemplateFromQuiz, DeleteTemplate, AskImport, TypeOK
<1>4. CASE DeleteQuiz
  <2>1. quiz' \in Quiz
    BY <1>4 DEF DeleteQuiz, TypeOK, Quiz
  <2> QED BY <1>4, <2>1 DEF DeleteQuiz, TypeOK
<1>5. CASE DropGrants
  BY <1>5 DEF DropGrants, TypeOK
<1>6. ASSUME NEW e \in Editors, DeskStep(e)
      PROVE  TypeOK'
  <2>1. desk' \in [Editors -> Desk]
    BY <1>6, LoadRowDesk, LoadQuestionsDesk, AskSaveDesk, SaveBeginDesk, DeskCleared DEF DeskStep
  <2> QED BY <1>6, <2>1 DEF DeskStep, LoadRow, LoadQuestions, AskSave, SaveBegin, SaveFails, TypeOK
<1>7. ASSUME NEW e \in Editors, SaveCommit(e)
      PROVE  TypeOK'
  <2>1. desk' \in [Editors -> Desk]
    BY <1>7, DeskCleared
  <2> QED BY <1>7, <2>1, CommitSteps DEF SaveCommit, TypeOK
<1>8. ASSUME NEW i \in Invites, InviteStep(i)
      PROVE  TypeOK'
  <2>1. inviting' \in [Invites -> Invite]
    BY <1>8, InviteAskSteps, InviteLockSteps DEF InviteStep
  <2> QED BY <1>8, <2>1 DEF InviteStep, InviteAsk, InviteLock, TypeOK
<1>9. ASSUME NEW i \in Invites, InviteInsert(i)
      PROVE  TypeOK'
  BY <1>9, InviteInsertSteps DEF InviteInsert, TypeOK
<1>10. ASSUME NEW g \in Guests, ShareStep(g)
       PROVE  TypeOK'
  BY <1>10 DEF ShareStep, RemoveQuizCollaborator, LeaveSharedQuiz, SignIn, TypeOK
<1>11. CASE UNCHANGED vars
  BY <1>11 DEF vars, TypeOK
<1> QED BY <1>1, <1>2, <1>3, <1>4, <1>5, <1>6, <1>7, <1>8, <1>9, <1>10, <1>11, Steps

\* Every row, page and request keeps its shape (model/quiz.go).
THEOREM QuizTypesHold == Spec => []TypeOK
<1>1. TypeOK /\ [Next]_vars => TypeOK'
  BY NextTypes
<1> QED BY <1>1, InitTypes, PTL DEF Spec

-----------------------------------------------------------------------------
(* The row lock.                                                           *)

LEMMA NextLocks ==
    ASSUME TypeOK, LockInv, [Next]_vars
    PROVE  LockInv'
<1>1. CASE MakeStep
  BY <1>1, MakeSteps DEF LockInv, Locks, Inserts
<1>2. ASSUME UNCHANGED <<quiz, desk, inviting>>
      PROVE  LockInv'
  BY <1>2 DEF LockInv, Locks, Inserts
<1>3. CASE \/ ImportBankQuestions \/ PackStep \/ DropGrants \/ UNCHANGED vars
           \/ \E g \in Guests : ShareStep(g)
  BY <1>2, <1>3 DEF ImportBankQuestions, PackStep, CreateTemplate, CreateTemplateFromQuiz,
                    DeleteTemplate, AskImport, DropGrants, vars, ShareStep, RemoveQuizCollaborator,
                    LeaveSharedQuiz, SignIn
<1>4. CASE DeleteQuiz
  <2>1. quiz'.state = "deleted" /\ UNCHANGED <<desk, inviting>>
    BY <1>4 DEF DeleteQuiz, TypeOK, Quiz
  <2>2. (\A e \in Editors : ~Locks(e)) /\ (\A i \in Invites : ~Inserts(i))
    BY <1>4 DEF DeleteQuiz, QuizFree, Locks, Inserts
  <2> QED BY <2>1, <2>2 DEF LockInv, Locks, Inserts
<1>5. ASSUME NEW e \in Editors,
             \A f \in Editors \ {e} : desk'[f] = desk[f],
             ~Locks(e)', desk'[e].step # "away" => quiz.state # "none",
             UNCHANGED <<quiz, inviting>>
      PROVE  LockInv'
  BY <1>5 DEF LockInv, Locks, Inserts
<1>6. ASSUME NEW e \in Editors, LoadRow(e)
      PROVE  LockInv'
  BY <1>5, <1>6, LoadRowDesk DEF LoadRow, Locks
<1>7. ASSUME NEW e \in Editors, LoadQuestions(e)
      PROVE  LockInv'
  <2>1. quiz.state # "none"
    BY <1>7 DEF LoadQuestions, LockInv
  <2> QED BY <1>5, <1>7, <2>1, LoadQuestionsDesk DEF LoadQuestions, Locks
<1>8. ASSUME NEW e \in Editors, AskSave(e)
      PROVE  LockInv'
  BY <1>5, <1>8, AskSaveDesk DEF AskSave, Locks
<1>9. ASSUME NEW e \in Editors, SaveFails(e)
      PROVE  LockInv'
  BY <1>5, <1>9, DeskCleared DEF SaveFails, Locks
<1>10. ASSUME NEW e \in Editors, SaveBegin(e)
       PROVE  LockInv'
  <2>1. /\ \A f \in Editors \ {e} : desk'[f] = desk[f]
        /\ desk'[e].step = "away" \/ quiz.state = "live"
        /\ UNCHANGED <<quiz, inviting>>
    BY <1>10, SaveBeginDesk DEF SaveBegin, Swaps
  <2>2. (\A f \in Editors : ~Locks(f)) /\ (\A i \in Invites : ~Inserts(i))
    BY <1>10 DEF SaveBegin, QuizFree, Locks, Inserts
  <2> QED BY <2>1, <2>2 DEF LockInv, Locks, Inserts
<1>11. ASSUME NEW e \in Editors, SaveCommit(e)
       PROVE  LockInv'
  <2>1. /\ \A f \in Editors \ {e} : desk'[f] = desk[f]
        /\ desk'[e].step = "away"
        /\ Locks(e) /\ quiz'.state = quiz.state
        /\ UNCHANGED inviting
    BY <1>11, DeskCleared, CommitSteps DEF SaveCommit
  <2> QED BY <2>1 DEF LockInv, Locks, Inserts
<1>12. ASSUME NEW i \in Invites, NEW g \in Guests, InviteAsk(i, g)
       PROVE  LockInv'
  BY <1>12, InviteAskSteps DEF InviteAsk, LockInv, Locks
<1>13. ASSUME NEW i \in Invites, InviteLock(i)
       PROVE  LockInv'
  <2>1. /\ \A j \in Invites \ {i} : inviting'[j] = inviting[j]
        /\ Inserts(i)' => quiz.state = "live"
        /\ UNCHANGED <<quiz, desk>>
    BY <1>13, InviteLockSteps DEF InviteLock
  <2>2. (\A f \in Editors : ~Locks(f)) /\ (\A j \in Invites : ~Inserts(j))
    BY <1>13 DEF InviteLock, QuizFree, Locks, Inserts
  <2> QED BY <2>1, <2>2 DEF LockInv, Locks, Inserts
<1>14. ASSUME NEW i \in Invites, InviteInsert(i)
       PROVE  LockInv'
  BY <1>14, InviteInsertSteps DEF InviteInsert, LockInv, Locks, Inserts
<1> QED BY <1>1, <1>3, <1>4, <1>6, <1>7, <1>8, <1>9, <1>10, <1>11, <1>12, <1>13, <1>14, Steps
        DEF DeskStep, InviteStep

-----------------------------------------------------------------------------
(* Grants.                                                                 *)

LEMMA NextGrants ==
    ASSUME TypeOK, LockInv, GrantInv, [Next]_vars
    PROVE  GrantInv'
<1>1. CASE MakeStep
  <2>1. quiz'.state = "live" /\ UNCHANGED <<grant, inviting>>
    BY <1>1, MakeSteps
  <2> QED BY <2>1 DEF GrantInv, GrantsWithinLimit, DeletedQuizHasNoGrants, Grants, Inserts
<1>2. ASSUME Grants' \subseteq Grants, \A i \in Invites : Inserts(i)' => Inserts(i)
      PROVE  /\ IsFiniteSet(Grants') /\ Cardinality(Grants') <= GrantLimit
             /\ \A i \in Invites : Inserts(i)' => Cardinality(Grants') < GrantLimit
  <2>1. IsFiniteSet(Grants') /\ Cardinality(Grants') <= Cardinality(Grants)
    BY <1>2, FS_Subset DEF GrantInv
  <2>2. Cardinality(Grants) \in Nat /\ Cardinality(Grants') \in Nat
    BY <2>1, FS_CardinalityType DEF GrantInv
  <2> QED BY <1>2, <2>1, <2>2, EditingAssumption DEF GrantInv, GrantsWithinLimit
<1>3. ASSUME Grants' \subseteq Grants, \A i \in Invites : Inserts(i)' => Inserts(i),
             UNCHANGED <<quiz.state, deleting>>
      PROVE  GrantInv'
  BY <1>2, <1>3 DEF GrantInv, GrantsWithinLimit, DeletedQuizHasNoGrants
<1>4. CASE ImportBankQuestions \/ PackStep \/ UNCHANGED vars
  <2>1. UNCHANGED <<quiz, grant, inviting, deleting>>
    BY <1>4 DEF ImportBankQuestions, PackStep, CreateTemplate, CreateTemplateFromQuiz,
                DeleteTemplate, AskImport, vars
  <2> QED BY <1>3, <2>1 DEF Grants, Inserts
<1>5. CASE DeleteQuiz
  <2>1. deleting' = "grants" /\ UNCHANGED <<grant, inviting>>
    BY <1>5 DEF DeleteQuiz
  <2> QED BY <2>1, <1>2 DEF GrantInv, GrantsWithinLimit, DeletedQuizHasNoGrants, Grants, Inserts
<1>6. CASE DropGrants
  <2>1. UNCHANGED inviting
    BY <1>6 DEF DropGrants
  <2>2. CASE deleting' = "no" /\ grant' = [g \in Guests |-> "none"]
    <3>1. Grants' = {}
      BY <2>2 DEF Grants
    <3> QED BY <2>1, <3>1, <1>2 DEF GrantInv, GrantsWithinLimit, DeletedQuizHasNoGrants, Inserts
  <2>3. CASE deleting' = "failed" /\ UNCHANGED grant
    BY <2>1, <2>3, <1>2 DEF GrantInv, GrantsWithinLimit, DeletedQuizHasNoGrants, Grants, Inserts
  <2> QED BY <1>6, <2>2, <2>3 DEF DropGrants
<1>7. ASSUME NEW e \in Editors, DeskStep(e) \/ SaveCommit(e)
      PROVE  GrantInv'
  <2>1. UNCHANGED <<quiz.state, grant, inviting, deleting>>
    BY <1>7, CommitSteps
       DEF DeskStep, LoadRow, LoadQuestions, AskSave, SaveBegin, SaveFails, SaveCommit
  <2> QED BY <1>3, <2>1 DEF Grants, Inserts
<1>8. ASSUME NEW i \in Invites, NEW g \in Guests, InviteAsk(i, g)
      PROVE  GrantInv'
  <2>1. UNCHANGED <<quiz, grant, deleting>>
    BY <1>8 DEF InviteAsk
  <2> QED BY <1>3, <1>8, <2>1, InviteAskSteps DEF Grants
<1>9. ASSUME NEW i \in Invites, InviteLock(i)
      PROVE  GrantInv'
  <2>1. UNCHANGED <<quiz, grant, deleting>>
    BY <1>9 DEF InviteLock
  <2>2. /\ Inserts(i)' => Cardinality(Grants) < GrantLimit
        /\ \A j \in Invites \ {i} : Inserts(j)' => Inserts(j)
    BY <1>9, InviteLockSteps DEF Inserts
  <2> QED BY <2>1, <2>2 DEF GrantInv, GrantsWithinLimit, DeletedQuizHasNoGrants, Grants
<1>10. ASSUME NEW i \in Invites, InviteInsert(i)
       PROVE  GrantInv'
  <2>1. Inserts(i)
    BY <1>10 DEF InviteInsert, Inserts
  <2>2. quiz'.state = "live" /\ \A j \in Invites : ~Inserts(j)'
    BY <1>10, <2>1, InviteInsertSteps DEF InviteInsert, LockInv, Inserts
  <2> DEFINE more == Grants \cup {inviting[i].guest}
  <2>3. Grants' \subseteq more
    BY <1>10, InviteInsertSteps
  <2>4. IsFiniteSet(more) /\ Cardinality(more) <= Cardinality(Grants) + 1
    <3>1. IsFiniteSet(Grants) /\ Cardinality(Grants) \in Nat
      BY FS_CardinalityType DEF GrantInv
    <3>2. /\ IsFiniteSet(more)
          /\ \/ Cardinality(more) = Cardinality(Grants)
             \/ Cardinality(more) = Cardinality(Grants) + 1
      BY <3>1, FS_AddElement
    <3> QED BY <3>1, <3>2
  <2>5. IsFiniteSet(Grants') /\ Cardinality(Grants') <= Cardinality(more)
    BY <2>3, <2>4, FS_Subset
  <2>6. /\ Cardinality(Grants') \in Nat /\ Cardinality(Grants) \in Nat
        /\ Cardinality(more) \in Nat
    BY <2>4, <2>5, FS_CardinalityType DEF GrantInv
  <2>7. Cardinality(Grants') <= GrantLimit
    <3> HIDE DEF more
    <3> QED BY <2>1, <2>4, <2>5, <2>6, EditingAssumption DEF GrantInv
  <2> QED BY <2>2, <2>5, <2>7 DEF GrantInv, GrantsWithinLimit, DeletedQuizHasNoGrants
<1>11. ASSUME NEW g \in Guests, ShareStep(g)
       PROVE  GrantInv'
  <2>1. UNCHANGED <<quiz, inviting, deleting>>
    BY <1>11 DEF ShareStep, RemoveQuizCollaborator, LeaveSharedQuiz, SignIn
  <2>2. Grants' \subseteq Grants
    BY <1>11 DEF ShareStep, RemoveQuizCollaborator, LeaveSharedQuiz, SignIn, Grants, TypeOK
  <2> QED BY <1>3, <2>1, <2>2 DEF Inserts
<1> QED BY <1>1, <1>4, <1>5, <1>6, <1>7, <1>8, <1>9, <1>10, <1>11, Steps DEF InviteStep

-----------------------------------------------------------------------------
(* The question list.                                                      *)

\* An import writes no row that a save has written, or takes one away.
LEMMA ImportSaved ==
    ASSUME TypeOK, ImportBankQuestions
    PROVE  /\ Saved' = Saved
           /\ \A q \in Questions : written'[q] \in {written[q], Imported}
<1>1. Imported \notin Nat /\ None \notin Nat
  BY EditingAssumption
<1>2. ASSUME NEW q \in Unused, written' = [written EXCEPT ![q] = Imported]
      PROVE  /\ q \in Questions /\ written[q] = None
             /\ \A r \in Questions : written'[r] = IF r = q THEN Imported ELSE written[r]
  BY <1>2 DEF Unused, TypeOK
<1> QED BY <1>1, <1>2 DEF ImportBankQuestions, Saved

LEMMA SavedAreRows == Saved \subseteq Rows
BY EditingAssumption DEF Saved, Rows

LEMMA NextList ==
    ASSUME TypeOK, LockInv, ListInv, [Next]_vars
    PROVE  ListInv'
<1>1. CASE MakeStep
  <2>1. quiz.version = 0 /\ \A e \in Editors : ~Locks(e)
    BY <1>1, MakeSteps DEF LockInv
  <2> QED BY <1>1, <2>1, MakeSteps DEF ListInv, ListIsOneSave, Locks
<1>2. CASE ImportBankQuestions
  <2>1. UNCHANGED <<quiz, desk>>
    BY <1>2 DEF ImportBankQuestions
  <2> QED BY <1>2, <2>1, ImportSaved DEF ListInv, ListIsOneSave, Locks
<1>3. ASSUME UNCHANGED <<quiz.version, written, desk>>
      PROVE  ListInv'
  BY <1>3 DEF ListInv, ListIsOneSave, Locks, Saved
<1>4. CASE \/ PackStep \/ DropGrants \/ UNCHANGED vars
           \/ \E i \in Invites : InviteStep(i) \/ InviteInsert(i)
           \/ \E g \in Guests : ShareStep(g)
  BY <1>3, <1>4 DEF PackStep, CreateTemplate, CreateTemplateFromQuiz, DeleteTemplate, AskImport, DropGrants,
                    vars, InviteStep, InviteAsk, InviteLock, InviteInsert, ShareStep,
                    RemoveQuizCollaborator, LeaveSharedQuiz, SignIn
<1>5. CASE DeleteQuiz
  BY <1>3, <1>5 DEF DeleteQuiz, TypeOK, Quiz
<1>6. ASSUME NEW e \in Editors, DeskStep(e)
      PROVE  ListInv'
  <2>1. \A f \in Editors \ {e} : desk'[f] = desk[f]
    BY <1>6, LoadRowDesk, LoadQuestionsDesk, AskSaveDesk, SaveBeginDesk, DeskCleared DEF DeskStep
  <2>2. Locks(e)' => desk'[e].existing = Rows
    BY <1>6, LoadRowDesk, LoadQuestionsDesk, AskSaveDesk, SaveBeginDesk, DeskCleared
       DEF DeskStep, Locks
  <2>3. UNCHANGED <<quiz, written>>
    BY <1>6 DEF DeskStep, LoadRow, LoadQuestions, AskSave, SaveBegin, SaveFails
  <2> QED BY <2>1, <2>2, <2>3, SavedAreRows DEF ListInv, ListIsOneSave, Locks, Saved
<1>7. ASSUME NEW e \in Editors, SaveCommit(e)
      PROVE  ListInv'
  <2>1. \A f \in Editors : ~Locks(f)'
    BY <1>7, CommitSteps, DeskCleared DEF LockInv, Locks
  <2>2. \A q \in Questions : written[q] \in Nat => q \in desk[e].existing
    BY <1>7, CommitSteps DEF ListInv, Saved
  <2>3. \A q \in Questions :
           written[q] \notin Nat => written[q] \in {Imported, Gone, None}
    BY EditingAssumption DEF TypeOK
  <2>4. \A q \in Questions : written'[q] \in {quiz'.version, Imported, Gone, None}
    BY <1>7, <2>2, <2>3, CommitSteps
  <2> QED BY <2>1, <2>4 DEF ListInv, ListIsOneSave
<1> QED BY <1>1, <1>2, <1>4, <1>5, <1>6, <1>7, Steps

-----------------------------------------------------------------------------
(* Pages.                                                                  *)

PageOK(e) ==
    /\ desk[e].step \in {"loading", "open"} => desk[e].version <= quiz.version
    /\ desk[e].step = "open" /\ desk[e].version = quiz.version => Saved \subseteq desk[e].seen
    /\ desk[e].step = "checked" /\ desk[e].expects # None =>
          /\ desk[e].expects <= quiz.version
          /\ (desk[e].expects = quiz.version => Saved \subseteq desk[e].seen)
    /\ Locks(e) /\ desk[e].expects # None => Saved \subseteq desk[e].seen

\* A page keeps what it knows while the list and its version stay.
LEMMA PageKept ==
    ASSUME NEW e \in Editors, PageOK(e), desk'[e] = desk[e], quiz'.version = quiz.version,
           Saved' = Saved
    PROVE  PageOK(e)'
BY DEF PageOK, Locks

LEMMA NextPages ==
    ASSUME TypeOK, LockInv, PageInv, [Next]_vars
    PROVE  PageInv'
<1>1. \A e \in Editors : PageOK(e)
  BY DEF PageInv, PageOK
<1>2. SUFFICES \A e \in Editors : PageOK(e)'
  BY DEF PageInv, PageOK
<1>3. quiz.version \in Nat
  BY EditingAssumption DEF TypeOK, Quiz
<1>4. CASE MakeStep
  <2>1. \A e \in Editors : desk'[e].step = "away"
    BY <1>4, MakeSteps DEF LockInv
  <2> QED BY <2>1 DEF PageOK, Locks
<1>5. CASE ImportBankQuestions
  <2>1. UNCHANGED <<quiz, desk>>
    BY <1>5 DEF ImportBankQuestions
  <2> QED BY <1>1, <1>5, <2>1, ImportSaved, PageKept
<1>6. ASSUME UNCHANGED <<quiz.version, written, desk>>
      PROVE  \A e \in Editors : PageOK(e)'
  <2>1. Saved' = Saved
    BY <1>6 DEF Saved
  <2> QED BY <1>1, <1>6, <2>1, PageKept
<1>7. CASE \/ PackStep \/ DropGrants \/ UNCHANGED vars
           \/ \E i \in Invites : InviteStep(i) \/ InviteInsert(i)
           \/ \E g \in Guests : ShareStep(g)
  BY <1>6, <1>7 DEF PackStep, CreateTemplate, CreateTemplateFromQuiz, DeleteTemplate, AskImport, DropGrants,
                    vars, InviteStep, InviteAsk, InviteLock, InviteInsert, ShareStep,
                    RemoveQuizCollaborator, LeaveSharedQuiz, SignIn
<1>8. CASE DeleteQuiz
  BY <1>6, <1>8 DEF DeleteQuiz, TypeOK, Quiz
<1>9. ASSUME NEW e \in Editors, DeskStep(e)
      PROVE  \A f \in Editors : PageOK(f)'
  <2>1. UNCHANGED <<quiz, written>>
    BY <1>9 DEF DeskStep, LoadRow, LoadQuestions, AskSave, SaveBegin, SaveFails
  <2>2. Saved' = Saved
    BY <2>1 DEF Saved
  <2>3. \A f \in Editors \ {e} : PageOK(f)'
    BY <1>1, <1>9, <2>1, <2>2, PageKept, LoadRowDesk, LoadQuestionsDesk, AskSaveDesk,
       SaveBeginDesk, DeskCleared DEF DeskStep
  <2>4. PageOK(e)'
    <3>4. CASE LoadRow(e)
      <4>1. desk'[e].step = "loading" /\ desk'[e].version = quiz'.version
        BY <2>1, <3>4, LoadRowDesk
      <4> QED BY <1>3, <2>1, <4>1 DEF PageOK, Locks
    <3>5. CASE LoadQuestions(e)
      <4>1. desk[e].step = "loading" /\ desk[e].version <= quiz.version
        BY <1>1, <3>5 DEF LoadQuestions, PageOK
      <4> QED BY <2>1, <2>2, <3>5, <4>1, LoadQuestionsDesk, SavedAreRows DEF PageOK, Locks
    <3>6. CASE AskSave(e)
      <4>1. /\ desk[e].version <= quiz.version
            /\ desk[e].version = quiz.version => Saved \subseteq desk[e].seen
        BY <1>1, <3>6 DEF AskSave, PageOK
      <4> QED BY <2>1, <2>2, <3>6, <4>1, AskSaveDesk DEF PageOK, Locks
    <3>7. CASE SaveBegin(e)
      <4>1. desk[e].step = "checked"
        BY <3>7 DEF SaveBegin
      <4>2. /\ Swaps(e) /\ desk[e].expects # None => Saved \subseteq desk[e].seen
        BY <1>1, <4>1 DEF Swaps, PageOK
      <4> QED BY <2>1, <2>2, <3>7, <4>2, SaveBeginDesk DEF PageOK, Locks
    <3>8. CASE SaveFails(e)
      BY <3>8, DeskCleared DEF PageOK, Locks
    <3> QED BY <1>9, <3>4, <3>5, <3>6, <3>7, <3>8 DEF DeskStep
  <2> QED BY <2>3, <2>4
<1>10. ASSUME NEW e \in Editors, SaveCommit(e)
       PROVE  \A f \in Editors : PageOK(f)'
  <2>1. PageOK(e)'
    BY <1>10, DeskCleared DEF PageOK, Locks
  <2>2. ASSUME NEW f \in Editors \ {e}
        PROVE  PageOK(f)'
    <3>1. desk'[f] = desk[f] /\ ~Locks(f)
      BY <1>10, <2>2, DeskCleared, CommitSteps DEF LockInv
    <3>2. quiz'.version = quiz.version + 1
      BY <1>10, CommitSteps
    <3>3. desk[f].version \in Nat /\ desk[f].expects \in Nat \cup {None}
      BY <2>2, EditingAssumption DEF TypeOK, Desk
    <3>4. PageOK(f)
      BY <1>1, <2>2
    <3> QED BY <1>3, <3>1, <3>2, <3>3, <3>4 DEF PageOK, Locks
  <2> QED BY <2>1, <2>2
<1> QED BY <1>4, <1>5, <1>7, <1>8, <1>9, <1>10, Steps

-----------------------------------------------------------------------------
(* The theorems.                                                           *)

LEMMA InitInv == Init => IInv
<1> SUFFICES ASSUME Init
             PROVE  IInv
  OBVIOUS
<1>1. /\ \A e \in Editors : desk[e].step = "away" /\ ~Locks(e)
      /\ \A i \in Invites : ~Inserts(i)
  BY EmptyDeskType, NoInviteType DEF Init, Locks, Inserts
<1>2. quiz.version = 0 /\ quiz.state = "none"
  BY DEF Init
<1>3. Grants = {} /\ IsFiniteSet(Grants) /\ Cardinality(Grants) = 0
  BY FS_EmptySet DEF Init, Grants
<1>4. LockInv /\ PageInv
  BY <1>1, <1>2 DEF LockInv, PageInv
<1>5. GrantInv
  BY <1>1, <1>2, <1>3, EditingAssumption DEF GrantInv, GrantsWithinLimit, DeletedQuizHasNoGrants
<1>6. ListInv
  BY <1>1 DEF Init, ListInv, ListIsOneSave
<1> QED BY <1>4, <1>5, <1>6, InitTypes DEF IInv

\* What one transaction holding the quiz row has read stays true until it commits.
THEOREM QuizInvariant == Spec => []IInv
<1>1. TypeOK /\ [Next]_vars => TypeOK'
  BY NextTypes
<1>2. IInv /\ [Next]_vars => IInv'
  BY <1>1, NextLocks, NextGrants, NextList, NextPages DEF IInv
<1> QED BY <1>2, InitInv, PTL DEF Spec

\* However many invitations are sent together, and whoever is removed or leaves
\* meanwhile, the quiz never has more grants than its owner's plan allows
\* (AddQuizCollaborator counts behind the row lock).
THEOREM GrantsStayWithinLimit == Spec => []GrantsWithinLimit
BY QuizInvariant, PTL DEF IInv, GrantInv

\* A quiz that was deleted with its grants gets none by an invitation that was under
\* way (DeleteQuiz and AddQuizCollaborator take the same row).
THEOREM DeletedQuizIsUnshared == Spec => []DeletedQuizHasNoGrants
BY QuizInvariant, PTL DEF IInv, GrantInv

\* The questions of a quiz that several editors save are one payload's, whatever they
\* overlap with (the compare-and-swap of UpdateQuiz takes the row).
THEOREM OneSavesList == Spec => []ListIsOneSave
BY QuizInvariant, PTL DEF IInv, ListInv

\* No save that says which version it started from takes away a saved question its
\* editor has not seen, over any number of saves in between (UpdateQuiz).
THEOREM NothingLostUnseen == Spec => NoUnseenLoss
<1>1. ASSUME IInv, [Next]_vars, NEW e \in Editors, SaveCommit(e), desk[e].expects # None,
             NEW q \in Questions, written[q] \in Nat, written'[q] = Gone
      PROVE  q \in desk[e].seen
  <2>1. Locks(e) /\ TypeOK /\ PageInv
    BY <1>1, CommitSteps DEF IInv
  <2>2. q \in Saved
    BY <1>1 DEF Saved
  <2> QED BY <1>1, <2>1, <2>2 DEF PageInv
<1>2. IInv /\ [Next]_vars =>
         [\A e \in Editors :
             SaveCommit(e) /\ desk[e].expects # None =>
                 \A q \in Questions :
                     written[q] \in Nat /\ written'[q] = Gone => q \in desk[e].seen]_vars
  BY <1>1
<1> QED BY <1>2, QuizInvariant, PTL DEF Spec, NoUnseenLoss

=============================================================================
