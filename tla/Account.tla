------------------------------ MODULE Account ------------------------------
(***************************************************************************)
(* One e-mail address: its row in table users, its verification and        *)
(* password reset tokens, the refresh tokens and blacklisted access tokens *)
(* of TokenStoreService, the failure counter and lock of                   *)
(* AccountLockoutService, and the requests of app/modules/auth and         *)
(* app/modules/user that are being served by one worker process.           *)
(*                                                                         *)
(* Database calls are synchronous, so all of them up to the next await are *)
(* one action; every Redis command is one.  verify_email is a plain `def`  *)
(* and runs beside the event loop in a thread.                             *)
(*                                                                         *)
(* A login, a refresh and a Google sign-in each issue a pair of tokens; the *)
(* pair's number stands for both JTIs.  Tokens that have expired are tokens *)
(* nobody uses.                                                            *)
(***************************************************************************)
EXTENDS Naturals, Sequences, FiniteSets

CONSTANTS
    Requests,    \* the requests that can be served at one time
    MaxFails,    \* settings.MAX_FAILED_LOGIN_ATTEMPTS
    MaxPairs,    \* bound on the token pairs issued
    MaxEras,     \* bound on the passwords the address has had
    MaxLinks,    \* bound on the verification tokens created
    MaxFaults    \* bound on the requests that fail half way

ASSUME AccountAssumption ==
    /\ MaxFails \in Nat \ {0}
    /\ MaxPairs \in Nat
    /\ MaxEras \in Nat
    /\ MaxLinks \in Nat
    /\ MaxFaults \in Nat

VARIABLES
    user,        \* the users row; id 0 when there is none
    vtoken,      \* the verification token of the account, 0 for none
    rtoken,      \* a password reset token exists
    hosts,       \* a room of the account exists (rooms are never deleted)
    sessions,    \* refresh_token:{email}:*: the pairs that can be refreshed
    blacklist,   \* blacklisted_access_token:*
    attempts,    \* login_attempts:{email}
    locked,      \* account_locked:{email}
    req,         \* the requests being served
    grants,      \* history: every pair issued
    era,         \* history: the number of passwords the address has had
    links,       \* history: the number of verification tokens created
    faults       \* history: the number of requests that failed half way

rows == <<user, vtoken, rtoken, hosts, era, links>>
keys == <<sessions, blacklist, grants>>
lockout == <<attempts, locked>>
vars == <<rows, keys, lockout, req, faults>>

-----------------------------------------------------------------------------
Operations == {"none", "change", "softDelete", "hardDelete", "signOut", "host"}
Places == Operations \cup {"idle", "lookup", "failed", "lock", "unfail", "clear",
    "grant", "account", "retire", "signIn", "scan", "purge", "blacklist",
    "drop", "verify", "oauth", "link"}

User == [id: Nat, state: {"none", "active", "deleted"}, verified: BOOLEAN]
NoUser == [id |-> 0, state |-> "none", verified |-> FALSE]

\* `seen` is the users row the handler has loaded, `token` the pair or the
\* verification token it was given, `era` the password a new pair goes back
\* to, `found` the keys a SCAN has returned.
Request == [at: Places, op: Operations, seen: User, token: Nat, era: Nat,
            found: SUBSET Nat]
Idle == [at |-> "idle", op |-> "none", seen |-> NoUser, token |-> 0, era |-> 0,
         found |-> {}]

TypeOK ==
    /\ user \in User
    /\ vtoken \in 0..links
    /\ rtoken \in BOOLEAN /\ hosts \in BOOLEAN
    /\ sessions \subseteq DOMAIN grants
    /\ blacklist \subseteq DOMAIN grants
    /\ attempts \in Nat /\ locked \in BOOLEAN
    /\ req \in [Requests -> Request]
    /\ grants \in Seq([era: Nat, root: Nat])
    /\ era \in Nat /\ links \in Nat
    /\ faults \in 0..MaxFaults

Init ==
    /\ user = NoUser
    /\ vtoken = 0 /\ rtoken = FALSE /\ hosts = FALSE
    /\ sessions = {} /\ blacklist = {}
    /\ attempts = 0 /\ locked = FALSE
    /\ req = [r \in Requests |-> Idle]
    /\ grants = << >> /\ era = 0 /\ links = 0
    /\ faults = 0

At(r, place) == req[r].at = place
Busy == {r \in Requests : ~At(r, "idle")}
Goto(r, place) == req' = [req EXCEPT ![r].at = place]
Finish(r) == req' = [req EXCEPT ![r] = Idle]
Open(r, place, token) ==
    /\ At(r, "idle")
    /\ req' = [req EXCEPT ![r] = [Idle EXCEPT !.at = place, !.token = token]]

MayIssue == Len(grants) + Cardinality(Busy) < MaxPairs
RowThere(r) == user.id # 0 /\ user.id = req[r].seen.id

-----------------------------------------------------------------------------
(* login.                                                                  *)

\* get_lockout_info: a locked address is a 403.
Login(r) ==
    /\ MayIssue
    /\ ~locked
    /\ Open(r, "lookup", 0)
    /\ UNCHANGED <<rows, keys, lockout>>

\* SELECT and bcrypt: no account or a wrong password is a failed login, an
\* account that is not verified or deleted a 403.
LoginLookup(r) ==
    /\ At(r, "lookup")
    /\ \/ Goto(r, "failed")
       \/ /\ user.state = "active" /\ user.verified
          /\ req' = [req EXCEPT ![r].at = "clear", ![r].era = era]
       \/ /\ user.state # "none"
          /\ user.state = "deleted" \/ ~user.verified
          /\ Finish(r)
    /\ UNCHANGED <<rows, keys, lockout>>

\* Mutant: one failure too many is let through.
LoginFailedLate(r) ==
    /\ At(r, "failed")
    /\ attempts' = attempts + 1
    /\ IF attempts' > MaxFails THEN Goto(r, "lock") ELSE Finish(r)
    /\ UNCHANGED <<rows, keys, locked>>

\* record_failed_attempt: INCR, then SET of the lock and DEL of the counter.
LoginFailed(r) ==
    /\ At(r, "failed")
    /\ attempts' = attempts + 1
    /\ IF attempts' >= MaxFails THEN Goto(r, "lock") ELSE Finish(r)
    /\ UNCHANGED <<rows, keys, locked>>

Lock(r) ==
    /\ At(r, "lock")
    /\ locked' = TRUE
    /\ Goto(r, "unfail")
    /\ UNCHANGED <<rows, keys, attempts>>

Unfail(r) ==
    /\ At(r, "unfail")
    /\ attempts' = 0
    /\ Finish(r)
    /\ UNCHANGED <<rows, keys, locked>>

LockExpires ==
    /\ locked
    /\ locked' = FALSE
    /\ UNCHANGED <<rows, keys, attempts, req>>

\* reset_attempts.
LoginClear(r) ==
    /\ At(r, "clear")
    /\ attempts' = 0
    /\ Goto(r, "grant")
    /\ UNCHANGED <<rows, keys, locked>>

\* create_access_token, create_refresh_token and save_refresh_token.
Grant(r) ==
    LET pair == Len(grants) + 1
        old == req[r].token
        root == IF old = 0 THEN pair ELSE grants[old].root
    IN
    /\ At(r, "grant")
    /\ grants' = Append(grants, [era |-> req[r].era, root |-> root])
    /\ sessions' = sessions \cup {pair}
    /\ Finish(r)
    /\ UNCHANGED <<rows, blacklist, lockout>>

-----------------------------------------------------------------------------
(* refresh_token.                                                          *)

\* Mutant: whether the pair is live is not looked up.
RefreshUnchecked(r, pair) ==
    /\ MayIssue
    /\ Open(r, "account", pair)
    /\ UNCHANGED <<rows, keys, lockout>>

\* EXISTS: a pair that is not live revokes every session of the address.
Refresh(r, pair) ==
    /\ MayIssue
    /\ Open(r, IF pair \in sessions THEN "account" ELSE "scan", pair)
    /\ UNCHANGED <<rows, keys, lockout>>

RefreshAccount(r) ==
    /\ At(r, "account")
    /\ IF user.state = "active"
         THEN req' = [req EXCEPT ![r].at = "retire",
                                 ![r].era = grants[req[r].token].era]
         ELSE Finish(r)
    /\ UNCHANGED <<rows, keys, lockout>>

Retire(r) ==
    /\ At(r, "retire")
    /\ sessions' = sessions \ {req[r].token}
    /\ Goto(r, "grant")
    /\ UNCHANGED <<rows, blacklist, grants, lockout>>

\* revoke_all_user_tokens: the keys that SCAN returns are deleted in one
\* pipeline.  After a deletion the access token in use is blacklisted.
Scan(r) ==
    /\ At(r, "scan")
    /\ req' = [req EXCEPT ![r].at = "purge", ![r].found = sessions]
    /\ UNCHANGED <<rows, keys, lockout>>

Purge(r) ==
    /\ At(r, "purge")
    /\ sessions' = sessions \ req[r].found
    /\ IF req[r].op \in {"softDelete", "hardDelete"}
         THEN Goto(r, "blacklist") ELSE Finish(r)
    /\ UNCHANGED <<rows, blacklist, grants, lockout>>

-----------------------------------------------------------------------------
(* Requests with an access token.                                          *)

\* get_current_user: EXISTS of the blacklist key, SELECT by e-mail, guards.
SignIn(r, op, pair) ==
    /\ At(r, "idle")
    /\ pair \notin blacklist
    /\ req' = [req EXCEPT ![r] = [Idle EXCEPT !.at = "signIn", !.op = op,
                                              !.token = pair]]
    /\ UNCHANGED <<rows, keys, lockout>>

SignedIn(r) ==
    /\ At(r, "signIn")
    /\ IF user.state = "active"
         THEN req' = [req EXCEPT ![r].at = req[r].op, ![r].seen = user]
         ELSE Finish(r)
    /\ UNCHANGED <<rows, keys, lockout>>

\* change_password: a wrong current password is a 400; the UPDATE of a row
\* that is gone raises.
ChangePassword(r) ==
    /\ At(r, "change")
    /\ \/ Finish(r) /\ UNCHANGED rows
       \/ /\ RowThere(r)
          /\ era < MaxEras
          /\ era' = era + 1
          /\ Goto(r, "scan")
          /\ UNCHANGED <<user, vtoken, rtoken, hosts, links>>
    /\ UNCHANGED <<keys, lockout>>

\* Mutant: the refresh tokens of a deleted account stay.
SoftDeleteOnly(r) ==
    /\ At(r, "softDelete")
    /\ IF RowThere(r)
         THEN user' = [user EXCEPT !.state = "deleted"] /\ Goto(r, "blacklist")
         ELSE UNCHANGED user /\ Finish(r)
    /\ UNCHANGED <<vtoken, rtoken, hosts, era, links, keys, lockout>>

SoftDelete(r) ==
    /\ At(r, "softDelete")
    /\ IF RowThere(r)
         THEN user' = [user EXCEPT !.state = "deleted"] /\ Goto(r, "scan")
         ELSE UNCHANGED user /\ Finish(r)
    /\ UNCHANGED <<vtoken, rtoken, hosts, era, links, keys, lockout>>

\* Rows of other tables refer to the users row.  hard_delete_user does not
\* look; PostgreSQL refuses the DELETE (foreign keys without ON DELETE).
Referenced == rtoken \/ hosts

\* hard_delete_user removes the verification tokens and the row, in one commit.
\* The commit fails when the row is referenced, and does not when the row is
\* gone already.
HardDelete(r) ==
    /\ At(r, "hardDelete")
    /\ \/ /\ RowThere(r)
          /\ ~Referenced
          /\ user' = NoUser
          /\ vtoken' = 0
          /\ Goto(r, "scan")
       \/ /\ RowThere(r)
          /\ Referenced
          /\ Finish(r)
          /\ UNCHANGED <<user, vtoken>>
       \/ /\ ~RowThere(r)
          /\ Goto(r, "scan")
          /\ UNCHANGED <<user, vtoken>>
    /\ UNCHANGED <<rtoken, hosts, era, links, keys, lockout>>

\* The access token of the deleted account's request.
Blacklist(r) ==
    /\ At(r, "blacklist")
    /\ blacklist' = blacklist \cup {req[r].token}
    /\ Finish(r)
    /\ UNCHANGED <<rows, sessions, grants, lockout>>

\* logout: the access token, then the refresh token of the cookie, if there
\* is one.
SignOut(r) ==
    /\ At(r, "signOut")
    /\ blacklist' = blacklist \cup {req[r].token}
    /\ Goto(r, "drop") \/ Finish(r)
    /\ UNCHANGED <<rows, sessions, grants, lockout>>

Drop(r) ==
    /\ At(r, "drop")
    /\ sessions' = sessions \ {req[r].token}
    /\ Finish(r)
    /\ UNCHANGED <<rows, blacklist, grants, lockout>>

\* create_room: a row of table rooms refers to the account for good; the
\* INSERT fails when the account is gone.
HostRoom(r) ==
    /\ At(r, "host")
    /\ hosts' = (hosts \/ RowThere(r))
    /\ Finish(r)
    /\ UNCHANGED <<user, vtoken, rtoken, era, links, keys, lockout>>

-----------------------------------------------------------------------------
(* Sign-up, verification, password reset.                                  *)

\* signup: a row of any state is a 409.  The verification token is part of
\* the same piece of code.
Signup ==
    /\ user.state = "none"
    /\ era < MaxEras /\ links < MaxLinks
    /\ user' = [id |-> era + 1, state |-> "active", verified |-> FALSE]
    /\ era' = era + 1
    /\ links' = links + 1
    /\ vtoken' = links'
    /\ UNCHANGED <<rtoken, hosts, keys, lockout, req>>

\* resend_verification_email: the live tokens are replaced by a new one.
Resend ==
    /\ user.state # "none" /\ ~user.verified
    /\ links < MaxLinks
    /\ links' = links + 1
    /\ vtoken' = links'
    /\ UNCHANGED <<user, rtoken, hosts, era, keys, lockout, req>>

\* verify_email: SELECT of the token and the user, then UPDATE and DELETE.
Verify(r) ==
    /\ vtoken # 0
    /\ At(r, "idle")
    /\ req' = [req EXCEPT ![r] = [Idle EXCEPT !.at = "verify", !.token = vtoken,
                                              !.seen = user]]
    /\ UNCHANGED <<rows, keys, lockout>>

\* The UPDATE of a row that is gone raises and is rolled back; the DELETE of
\* one does not.
VerifyCommit(r) ==
    /\ At(r, "verify")
    /\ IF RowThere(r)
         THEN /\ user' = [user EXCEPT !.verified = TRUE]
              /\ vtoken' = IF vtoken = req[r].token THEN 0 ELSE vtoken
         ELSE UNCHANGED <<user, vtoken>>
    /\ Finish(r)
    /\ UNCHANGED <<rtoken, hosts, era, links, keys, lockout>>

\* forgot_password: earlier tokens are replaced by a new one.
ForgotPassword ==
    /\ user.state = "active" /\ user.verified
    /\ rtoken' = TRUE
    /\ UNCHANGED <<user, vtoken, hosts, era, links, keys, lockout, req>>

\* Mutant: the sessions of the old password are not revoked.
ResetPasswordOnly(r) ==
    /\ rtoken
    /\ era < MaxEras
    /\ rtoken' = FALSE
    /\ era' = era + 1
    /\ Open(r, "unfail", 0)
    /\ UNCHANGED <<user, vtoken, hosts, links, keys, lockout>>

\* reset_password: the account may have been deleted meanwhile.
ResetPassword(r) ==
    /\ rtoken
    /\ era < MaxEras
    /\ rtoken' = FALSE
    /\ era' = era + 1
    /\ Open(r, "scan", 0)
    /\ UNCHANGED <<user, vtoken, hosts, links, keys, lockout>>

-----------------------------------------------------------------------------
(* resolve_oauth_user.                                                     *)

\* A new account is created verified; an existing one is loaded.
OAuth(r) ==
    /\ MayIssue
    /\ \/ /\ user.state = "none"
          /\ era < MaxEras
          /\ user' = [id |-> era + 1, state |-> "active", verified |-> TRUE]
          /\ era' = era + 1
          /\ At(r, "idle")
          /\ req' = [req EXCEPT ![r] = [Idle EXCEPT !.at = "grant", !.era = era']]
       \/ /\ user.state # "none"
          /\ At(r, "idle")
          /\ req' = [req EXCEPT ![r] = [Idle EXCEPT !.at = "oauth", !.seen = user]]
          /\ UNCHANGED <<user, era>>
    /\ UNCHANGED <<vtoken, rtoken, hosts, links, keys, lockout>>

\* is_locked.
OAuthLocked(r) ==
    /\ At(r, "oauth")
    /\ IF locked THEN Finish(r) ELSE Goto(r, "link")
    /\ UNCHANGED <<rows, keys, lockout>>

\* Mutant: the row is written whole, from the copy that was read.
LinkWhole(r) ==
    /\ At(r, "link")
    /\ IF req[r].seen.state = "active" /\ RowThere(r)
         THEN /\ user' = [req[r].seen EXCEPT !.verified = TRUE]
              /\ req' = [req EXCEPT ![r].at = "grant", ![r].era = era]
         ELSE UNCHANGED user /\ Finish(r)
    /\ UNCHANGED <<vtoken, rtoken, hosts, era, links, keys, lockout>>

\* The copy read before the await decides whether the account is active; the
\* session writes the columns that change, and raises when the row is gone.
Link(r) ==
    /\ At(r, "link")
    /\ IF req[r].seen.state = "active" /\ RowThere(r)
         THEN /\ user' = [user EXCEPT !.verified = TRUE]
              /\ req' = [req EXCEPT ![r].at = "grant", ![r].era = era]
         ELSE UNCHANGED user /\ Finish(r)
    /\ UNCHANGED <<vtoken, rtoken, hosts, era, links, keys, lockout>>

-----------------------------------------------------------------------------
Start(r) ==
    \/ Login(r) \/ Verify(r) \/ ResetPassword(r) \/ OAuth(r)
    \/ \E pair \in DOMAIN grants :
        Refresh(r, pair) \/ \E op \in Operations \ {"none"} : SignIn(r, op, pair)

Step(r) ==
    \/ LoginLookup(r) \/ LoginFailed(r) \/ Lock(r) \/ Unfail(r) \/ LoginClear(r)
    \/ Grant(r) \/ RefreshAccount(r) \/ Retire(r) \/ Scan(r) \/ Purge(r)
    \/ SignedIn(r) \/ ChangePassword(r) \/ SoftDelete(r) \/ HardDelete(r)
    \/ Blacklist(r) \/ SignOut(r) \/ Drop(r) \/ HostRoom(r)
    \/ VerifyCommit(r) \/ OAuthLocked(r) \/ Link(r)

\* Redis fails under the request or the worker dies: what is written stays.
Abort(r) ==
    /\ ~At(r, "idle")
    /\ faults < MaxFaults
    /\ faults' = faults + 1
    /\ Finish(r)
    /\ UNCHANGED <<rows, keys, lockout>>

\* What takes no Redis command is served in one piece.
AtOnce == Signup \/ Resend \/ ForgotPassword \/ LockExpires

Next ==
    \/ AtOnce /\ UNCHANGED faults
    \/ \E r \in Requests : (Start(r) \/ Step(r)) /\ UNCHANGED faults
    \/ \E r \in Requests : Abort(r)

Spec == Init /\ [][Next]_vars

-----------------------------------------------------------------------------
(* Properties of every interleaving.                                       *)

\* A verified account stays verified and a deleted one stays deleted, though
\* handlers write rows they have read some awaits ago: the sessions write
\* changed columns only, and nothing clears either.
AccountMovesForward ==
    [][user.id # 0 /\ user'.id = user.id =>
        /\ user.verified => user'.verified
        /\ user.state = "deleted" => user'.state = "deleted"]_vars

\* However failed logins interleave, the counter stands at its limit only
\* while one of them is about to lock the address and clear it, unless a
\* request failed half way.
CounterIsPending ==
    faults = 0 /\ attempts >= MaxFails =>
        \E r \in Requests : req[r].at \in {"lock", "unfail"}

\* What TypeOK and the properties above need to be inductive: an account is
\* there when it has an id, a request in the name of an account carries a pair
\* that was issued, and its place tells the operation.
RequestInv(r) ==
    /\ At(r, "signIn") \/ At(r, "blacklist") => req[r].op # "none"
    /\ req[r].at \in Operations => req[r].op = req[r].at /\ req[r].op # "none"
    /\ req[r].op # "none" \/ At(r, "account") \/ At(r, "retire") =>
            req[r].token \in DOMAIN grants
    /\ At(r, "verify") \/ req[r].token \in {0} \cup DOMAIN grants

IInv ==
    /\ TypeOK
    /\ user.state = "none" <=> user.id = 0
    /\ CounterIsPending
    /\ \A r \in Requests : RequestInv(r)

=============================================================================
