------------------------------ MODULE Accounts ------------------------------
(***************************************************************************)
(* One address and its account: registration by a mailed code, signing in, *)
(* refresh tokens with the index that lets all of them be revoked at once, *)
(* changing the password, the mailed reset link, and the admin who changes *)
(* role and status.  The row is in the database and is saved whole by most *)
(* of its writers; codes, tokens, the index and links are keys of Redis.   *)
(* Which password and which role is set is left out; that it is is a step. *)
(***************************************************************************)
EXTENDS Naturals, FiniteSets

CONSTANTS
    Requests,   \* requests under way at a time
    Tokens,     \* refresh tokens (JTIs), never issued twice
    Links,      \* reset tokens, never issued twice
    NoKey

ASSUME AccountsAssumption == NoKey \notin Tokens \cup Links

VARIABLES
    user,       \* the users row
    code,       \* the registration code's key is set
    session,    \* refresh:<jti>, for each token
    index,      \* refresh_user:<id>
    link,       \* pwreset_tok:<hash>, for each link
    latest,     \* pwreset_user:<id>
    cooling,    \* pwreset_cooldown:<email> is set
    req,        \* requests
    spent       \* how often a link has set a password

accountVars == <<user, code, session, index, link, latest, cooling, req, spent>>

Row == [exists: BOOLEAN, active: BOOLEAN]
NoRow == [exists |-> FALSE, active |-> FALSE]
NewRow == [exists |-> TRUE, active |-> TRUE]

\* stored: the key is set, the index not yet, and nobody has the token.  raced: indexed
\* while a revocation was between its two commands.  loose: alive although its own DEL
\* failed, or in an index whose life was not renewed for it.
SessionState == {"new", "stored", "raced", "live", "loose", "dead"}
Alive == {"live", "raced", "loose"}

\* step: what the request does next.  row: its copy of the users row.
Request == [kind: {"none", "verify", "login", "refresh", "logout", "change", "status",
                   "role", "forgot", "reset"},
            step: {"idle", "create", "store", "index", "drop", "unindex", "read", "save",
                   "members", "delete", "pointer", "unlink", "publish", "unpoint", "check", "set"},
            row: Row, token: Tokens \cup {NoKey}, members: SUBSET Tokens,
            link: Links \cup {NoKey}]
Idle == [kind |-> "none", step |-> "idle", row |-> NoRow, token |-> NoKey,
         members |-> {}, link |-> NoKey]

AccountInit ==
    /\ user = NoRow
    /\ code = FALSE
    /\ session = [t \in Tokens |-> "new"]
    /\ index = {}
    /\ link = [l \in Links |-> "new"]
    /\ latest = NoKey
    /\ cooling = FALSE
    /\ req = [r \in Requests |-> Idle]
    /\ spent = [l \in Links |-> 0]

At(r, step) == req[r].step = step
Goes(r, step) == req' = [req EXCEPT ![r] = IF step = "idle" THEN Idle ELSE [@ EXCEPT !.step = step]]
Starts(r, kind, step) == /\ At(r, "idle")
                         /\ req' = [req EXCEPT ![r].kind = kind, ![r].step = step]

\* A revocation has read the index and not deleted yet.
Revoking == \E r \in Requests : At(r, "delete")

redis == <<code, session, index, link, latest, cooling>>
-----------------------------------------------------------------------------
\* Register stores a code; the look-up of the address and the cooldown only refuse.
Register ==
    /\ ~user.exists /\ ~code
    /\ code' = TRUE
    /\ UNCHANGED <<user, session, index, link, latest, cooling, req, spent>>

\* VerifyOTP up to its look-up of the address; wrong guesses only refuse.
VerifyCode(r) ==
    /\ code /\ ~user.exists
    /\ Starts(r, "verify", "create")
    /\ UNCHANGED <<user, redis, spent>>

\* Its insert, on a unique address, and the keys it drops; then the user is signed in.
VerifyCreate(r) ==
    /\ At(r, "create")
    /\ IF user.exists
       THEN Goes(r, "idle") /\ UNCHANGED <<user, code>>
       ELSE Goes(r, "store") /\ user' = NewRow /\ code' = FALSE
    /\ UNCHANGED <<session, index, link, latest, cooling, spent>>

Login(r) ==
    /\ user.exists /\ user.active
    /\ Starts(r, "login", "store")
    /\ UNCHANGED <<user, redis, spent>>
-----------------------------------------------------------------------------
\* GenerateRefreshToken: the key, then the index, whose life is renewed with each token;
\* that renewal may fail and nobody looks.

StoreToken(r) ==
    /\ At(r, "store")
    /\ \E t \in Tokens :
        /\ session[t] = "new"
        /\ session' = [session EXCEPT ![t] = "stored"]
        /\ req' = [req EXCEPT ![r].step = "index", ![r].token = t]
    /\ UNCHANGED <<user, code, index, link, latest, cooling, spent>>

IndexToken(r) ==
    LET t == req[r].token
    IN  /\ At(r, "index")
        /\ index' = index \cup {t}
        /\ \E renewed \in BOOLEAN :
            session' = [session EXCEPT ![t] = IF @ # "stored" THEN @
                                              ELSE IF ~renewed THEN "loose"
                                              ELSE IF Revoking THEN "raced" ELSE "live"]
        /\ Goes(r, "idle")
        /\ UNCHANGED <<user, code, link, latest, cooling, spent>>

\* RefreshToken, once the presented token has verified; Logout takes any token.  Two
\* requests with one token may both come this far.
Present(r, t) ==
    /\ At(r, "idle") /\ session[t] \in Alive
    /\ \E kind \in {"refresh", "logout"} :
        req' = [req EXCEPT ![r] = [Idle EXCEPT !.kind = kind, !.step = "drop", !.token = t]]
    /\ UNCHANGED <<user, redis, spent>>

\* Mutant: the index entry goes first, and the key in the second step is forgotten.
DropTokenFromIndex(r) ==
    /\ At(r, "drop")
    /\ index' = index \ {req[r].token}
    /\ Goes(r, "unindex")
    /\ UNCHANGED <<user, code, session, link, latest, cooling, spent>>

\* RevokeRefreshToken: the key, then its entry in the index.  The errors of both are
\* dropped, so the entry goes after a DEL that failed too.
DropToken(r) ==
    /\ At(r, "drop")
    /\ \E after \in {"dead", "loose"} :
        session' = [session EXCEPT ![req[r].token] = IF @ = "dead" THEN @ ELSE after]
    /\ Goes(r, "unindex")
    /\ UNCHANGED <<user, code, index, link, latest, cooling, spent>>

UnindexToken(r) ==
    /\ At(r, "unindex")
    /\ index' \in {index, index \ {req[r].token}}
    /\ Goes(r, IF req[r].kind = "refresh" THEN "read" ELSE "idle")
    /\ UNCHANGED <<user, code, session, link, latest, cooling, spent>>

\* RefreshToken goes on with the row: gone or deactivated, there is no new pair.
RefreshRead(r) ==
    /\ At(r, "read")
    /\ Goes(r, IF user.active THEN "store" ELSE "idle")
    /\ UNCHANGED <<user, redis, spent>>
-----------------------------------------------------------------------------
\* Writers of the row.  ChangePassword, AdminUpdateUserRole and AdminUpdateUserStatus
\* save the copy they read, every column of it; the password the first one sets and
\* the role the second one sets are not in the model.  The seeded admin, whom they
\* refuse to demote or deactivate, is another account.

Edit(r, kind, row) ==
    /\ At(r, "idle") /\ user.exists
    /\ req' = [req EXCEPT ![r] = [Idle EXCEPT !.kind = kind, !.step = "save", !.row = row]]
    /\ UNCHANGED <<user, redis, spent>>

ChangePassword(r) == user.active /\ Edit(r, "change", user)
AdminUpdateUserRole(r) == Edit(r, "role", user)
AdminUpdateUserStatus(r) == \E v \in BOOLEAN : Edit(r, "status", [user EXCEPT !.active = v])

SaveRow(r) ==
    LET revokes == req[r].kind = "change" \/ (req[r].kind = "status" /\ ~req[r].row.active)
    IN  /\ At(r, "save")
        /\ user' = req[r].row
        /\ Goes(r, IF revokes THEN "members" ELSE "idle")
        /\ UNCHANGED <<redis, spent>>

\* RevokeAllRefreshTokens: the members of the index, then one DEL for their keys and
\* the index itself.
RevokeRead(r) ==
    /\ At(r, "members")
    /\ req' = [req EXCEPT ![r].step = "delete", ![r].members = index]
    /\ UNCHANGED <<user, redis, spent>>

\* ChangePassword goes on to the reset link, whether or not the sessions were revoked.
Revoked(r) == IF req[r].kind = "change"
              THEN req' = [req EXCEPT ![r].step = "pointer", ![r].members = {}]
              ELSE Goes(r, "idle")

\* Mutant: the DEL leaves the keys of the tokens alone.
RevokeIndexOnly(r) ==
    /\ At(r, "delete")
    /\ index' = {}
    /\ Revoked(r)
    /\ UNCHANGED <<user, code, session, link, latest, cooling, spent>>

RevokeDelete(r) ==
    /\ At(r, "delete")
    /\ session' = [t \in Tokens |-> IF t \in req[r].members THEN "dead" ELSE session[t]]
    /\ index' = {}
    /\ Revoked(r)
    /\ UNCHANGED <<user, code, link, latest, cooling, spent>>

\* An error of Redis, logged and told to the operator.
RevokeFails(r) ==
    /\ req[r].step \in {"members", "delete"}
    /\ Revoked(r)
    /\ UNCHANGED <<user, redis, spent>>

\* revokeResetToken: GETDEL of the pointer, then DEL of the link it named; either may
\* fail and the caller goes on.
TakePointer(r) ==
    /\ At(r, "pointer")
    /\ \E named \in {latest, NoKey} :
        /\ latest' \in IF named = latest THEN {NoKey} ELSE {latest, NoKey}
        /\ req' = [req EXCEPT ![r].step = "unlink", ![r].link = named]
    /\ UNCHANGED <<user, code, session, index, link, cooling, spent>>

KillLink(r) ==
    /\ At(r, "unlink")
    /\ \E killed \in {req[r].link, NoKey} :
        link' = [l \in Links |-> IF l = killed THEN "dead" ELSE link[l]]
    /\ Goes(r, IF req[r].kind = "forgot" THEN "publish" ELSE "idle")
    /\ UNCHANGED <<user, code, session, index, latest, cooling, spent>>
-----------------------------------------------------------------------------
\* ForgotPassword.  The minute of the cooldown outlasts the five seconds a request has
\* for Redis, so one request for an address is under way at a time.

ForgotPassword(r) ==
    /\ ~cooling /\ user.active
    /\ Starts(r, "forgot", "pointer")
    /\ cooling' = TRUE
    /\ UNCHANGED <<user, code, session, index, link, latest, spent>>

\* The two keys of the new link, in one transaction of Redis.
PublishLink(r) ==
    /\ At(r, "publish")
    /\ \E l \in Links :
        /\ link[l] = "new"
        /\ link' = [link EXCEPT ![l] = "live"]
        /\ latest' = l
    /\ Goes(r, "idle")
    /\ UNCHANGED <<user, code, session, index, cooling, spent>>

CooldownEnds ==
    /\ cooling /\ \A r \in Requests : req[r].kind # "forgot"
    /\ cooling' = FALSE
    /\ UNCHANGED <<user, code, session, index, link, latest, req, spent>>

\* Mutant: a GET here and a DEL later.
ReadLink(r, l) ==
    /\ At(r, "idle") /\ link[l] = "live"
    /\ req' = [req EXCEPT ![r] = [Idle EXCEPT !.kind = "reset", !.step = "unpoint", !.link = l]]
    /\ UNCHANGED <<user, redis, spent>>

\* ResetPassword: GETDEL of the link, DEL of the pointer (its error dropped), the row,
\* the new password in its own column, then the revocation.
TakeLink(r, l) ==
    /\ At(r, "idle") /\ link[l] = "live"
    /\ link' = [link EXCEPT ![l] = "dead"]
    /\ req' = [req EXCEPT ![r] = [Idle EXCEPT !.kind = "reset", !.step = "unpoint", !.link = l]]
    /\ UNCHANGED <<user, code, session, index, latest, cooling, spent>>

DropPointer(r) ==
    /\ At(r, "unpoint")
    /\ latest' \in {latest, NoKey}
    /\ Goes(r, "check")
    /\ UNCHANGED <<user, code, session, index, link, cooling, spent>>

ResetRead(r) ==
    /\ At(r, "check")
    /\ Goes(r, IF user.active THEN "set" ELSE "idle")
    /\ UNCHANGED <<user, redis, spent>>

SetPassword(r) ==
    /\ At(r, "set")
    /\ spent' = [spent EXCEPT ![req[r].link] = @ + 1]
    /\ Goes(r, "members")
    /\ UNCHANGED <<user, redis>>
-----------------------------------------------------------------------------
\* A request that ends early: an error of Redis or of the database, or a restart.
Stops(r) ==
    /\ ~At(r, "idle")
    /\ Goes(r, "idle")
    /\ UNCHANGED <<user, redis, spent>>

\* The lives of the keys end: seven days, thirty minutes, ten minutes.
SessionExpires(t) ==
    /\ session[t] \in Alive \cup {"stored"}
    /\ session' = [session EXCEPT ![t] = "dead"]
    /\ UNCHANGED <<user, code, index, link, latest, cooling, req, spent>>

\* The index was given its life after the key of the last session it was renewed for.
IndexExpires ==
    /\ index # {} /\ \A t \in Tokens : session[t] # "live"
    /\ index' = {}
    /\ UNCHANGED <<user, code, session, link, latest, cooling, req, spent>>

LinkExpires(l) ==
    /\ link[l] = "live"
    /\ link' = [link EXCEPT ![l] = "dead"]
    /\ latest' = IF latest = l THEN NoKey ELSE latest
    /\ UNCHANGED <<user, code, session, index, cooling, req, spent>>

CodeExpires ==
    /\ code
    /\ code' = FALSE
    /\ UNCHANGED <<user, session, index, link, latest, cooling, req, spent>>

AccountNext ==
    \/ Register
    \/ \E r \in Requests :
        \/ VerifyCode(r) \/ VerifyCreate(r) \/ Login(r) \/ StoreToken(r) \/ IndexToken(r)
        \/ DropToken(r) \/ UnindexToken(r) \/ RefreshRead(r)
        \/ ChangePassword(r) \/ AdminUpdateUserRole(r) \/ AdminUpdateUserStatus(r) \/ SaveRow(r)
        \/ RevokeRead(r) \/ RevokeDelete(r) \/ RevokeFails(r) \/ TakePointer(r) \/ KillLink(r)
        \/ ForgotPassword(r) \/ PublishLink(r) \/ DropPointer(r) \/ ResetRead(r) \/ SetPassword(r)
        \/ Stops(r)
    \/ \E r \in Requests, t \in Tokens : Present(r, t)
    \/ \E r \in Requests, l \in Links : TakeLink(r, l)
    \/ \E t \in Tokens : SessionExpires(t)
    \/ \E l \in Links : LinkExpires(l)
    \/ IndexExpires \/ CooldownEnds \/ CodeExpires

AccountSpec == AccountInit /\ [][AccountNext]_accountVars
-----------------------------------------------------------------------------
AccountTypeOK ==
    /\ user \in Row
    /\ code \in BOOLEAN /\ cooling \in BOOLEAN
    /\ session \in [Tokens -> SessionState]
    /\ index \subseteq Tokens
    /\ link \in [Links -> {"new", "live", "dead"}]
    /\ latest \in Links \cup {NoKey}
    /\ req \in [Requests -> Request]
    /\ spent \in [Links -> Nat]

\* A session handed out while no revocation was at work, and for which the index was
\* renewed, can be revoked with all the others until its own DEL has been tried: it is
\* in the index for as long as it lives, through rotations, logouts and expiries of
\* other sessions, other revocations, failed commands and requests that stop half way
\* (GenerateRefreshToken, RevokeRefreshToken, RevokeAllRefreshTokens).  A session whose
\* own DEL fails is the one that escapes: RevokeRefreshToken unindexes it all the same.
SessionsStayRevocable == \A t \in Tokens : session[t] = "live" => t \in index

\* A reset link sets one password, whatever is submitted twice or at once
\* (ResetPassword).
LinkSetsOnePassword == \A l \in Links : spent[l] <= 1
==============================================================================
