--------------------------- MODULE AccountProofs ---------------------------
(* Theorems about Account, for any number of requests, failures, passwords, *)
(* tokens and faults.                                                      *)
EXTENDS AccountHistory, TLAPS

LEMMA IdleType == Idle \in Request
BY DEF Idle, Request, NoUser, User, Places, Operations

LEMMA InvInit == Init => IInv
<1> SUFFICES ASSUME Init PROVE IInv
  OBVIOUS
<1>1. TypeOK
  <2>1. DOMAIN grants = {} /\ grants \in Seq([era: Nat, root: Nat])
    BY DEF Init
  <2>2. user \in User /\ req \in [Requests -> Request]
    BY IdleType DEF Init, NoUser, User
  <2>3. /\ vtoken \in 0..links /\ faults \in 0..MaxFaults
        /\ attempts \in Nat /\ era \in Nat /\ links \in Nat
    BY AccountAssumption DEF Init
  <2>4. /\ sessions \subseteq DOMAIN grants /\ blacklist \subseteq DOMAIN grants
        /\ rtoken \in BOOLEAN /\ hosts \in BOOLEAN /\ locked \in BOOLEAN
    BY DEF Init
  <2> QED
    BY <2>1, <2>2, <2>3, <2>4 DEF TypeOK
<1>2. user.state = "none" <=> user.id = 0
  BY DEF Init, NoUser
<1>3. CounterIsPending
  BY AccountAssumption DEF Init, CounterIsPending
<1>4. \A r \in Requests : RequestInv(r)
  BY DEF Init, RequestInv, Idle, At, Operations
<1> QED
  BY <1>1, <1>2, <1>3, <1>4 DEF IInv

-----------------------------------------------------------------------------
(* Types.                                                                  *)

\* An element of a sequence over S is in S.
LEMMA ElementType ==
    ASSUME NEW S, NEW s \in Seq(S), NEW i \in DOMAIN s
    PROVE  s[i] \in S
OBVIOUS

\* The pair a request issues is the next one.
LEMMA GrantType ==
    ASSUME TypeOK, NEW r \in Requests, RequestInv(r), Grant(r)
    PROVE  /\ grants' \in Seq([era: Nat, root: Nat])
           /\ DOMAIN grants \subseteq DOMAIN grants'
           /\ sessions' \subseteq DOMAIN grants'
<1> DEFINE pair == Len(grants) + 1
           old == req[r].token
           root == IF old = 0 THEN pair ELSE grants[old].root
           new == [era |-> req[r].era, root |-> root]
<1>1. new \in [era: Nat, root: Nat]
  <2>1. req[r].era \in Nat
    BY DEF TypeOK, Request
  <2>2. old \in {0} \cup DOMAIN grants
    BY DEF RequestInv, Grant, At
  <2>3. pair \in Nat
    BY DEF TypeOK
  <2>4. root \in Nat
    <3>1. CASE old = 0
      BY <2>3, <3>1
    <3>2. CASE old \in DOMAIN grants
      <4>1. grants[old] \in [era: Nat, root: Nat]
        <5>1. grants \in Seq([era: Nat, root: Nat])
          BY DEF TypeOK
        <5> QED
          BY <3>2, <5>1, ElementType
      <4> QED
        BY <2>3, <4>1
    <3> QED
      BY <2>2, <3>1, <3>2
  <2> QED
    BY <2>1, <2>4
<1>2. grants' = Append(grants, new)
  BY DEF Grant
<1>3. DOMAIN grants' = 1..(Len(grants) + 1) /\ DOMAIN grants = 1..Len(grants)
  BY <1>1, <1>2 DEF TypeOK
<1>4. sessions' = sessions \cup {pair}
  BY DEF Grant
<1>5. pair \in DOMAIN grants' /\ DOMAIN grants \subseteq DOMAIN grants'
  BY <1>3 DEF TypeOK
<1> QED
  BY <1>1, <1>2, <1>4, <1>5 DEF TypeOK

-----------------------------------------------------------------------------
(* The users row.                                                          *)

RowsInv ==
    /\ user \in User
    /\ user.state = "none" <=> user.id = 0

\* One step moves an account only forward.
LEMMA RowsStep ==
    ASSUME IInv, [Next]_vars
    PROVE  /\ RowsInv'
           /\ user.id # 0 /\ user'.id = user.id =>
                /\ user.verified => user'.verified
                /\ user.state = "deleted" => user'.state = "deleted"
<1> DEFINE Goal == /\ RowsInv'
                   /\ user.id # 0 /\ user'.id = user.id =>
                        /\ user.verified => user'.verified
                        /\ user.state = "deleted" => user'.state = "deleted"
<1> USE DEF RowsInv, User, NoUser, RowThere, rows
<1>t. RowsInv /\ era \in Nat /\ links \in Nat
  BY DEF IInv, TypeOK
<1>0. ASSUME UNCHANGED rows PROVE Goal
  BY <1>t, <1>0
<1>1. CASE UNCHANGED vars
  BY <1>0, <1>1 DEF vars
<1>2. CASE AtOnce
  <2>1. CASE Signup
    BY <1>t, <2>1 DEF Signup
  <2>2. CASE Resend \/ ForgotPassword
    BY <1>t, <2>2 DEF Resend, ForgotPassword
  <2>3. CASE LockExpires
    BY <1>0, <2>3 DEF LockExpires
  <2> QED
    BY <1>2, <2>1, <2>2, <2>3 DEF AtOnce
<1>3. ASSUME NEW r \in Requests, Start(r) PROVE Goal
  <2>1. CASE ResetPassword(r)
    BY <1>t, <2>1 DEF ResetPassword
  <2>2. CASE OAuth(r)
    <3>1. CASE UNCHANGED <<user, era>>
      BY <1>0, <2>2, <3>1 DEF OAuth
    <3>2. CASE /\ user.state = "none"
               /\ user' = [id |-> era + 1, state |-> "active", verified |-> TRUE]
      BY <1>t, <2>2, <3>2 DEF OAuth
    <3> QED
      BY <2>2, <3>1, <3>2 DEF OAuth
  <2>3. CASE Login(r) \/ Verify(r)
    BY <1>0, <2>3 DEF Login, Verify
  <2>4. ASSUME NEW pair \in DOMAIN grants,
               Refresh(r, pair)
                 \/ \E op \in Operations \ {"none"} : SignIn(r, op, pair)
        PROVE  Goal
    BY <1>0, <2>4 DEF Refresh, SignIn
  <2> QED
    BY <1>3, <2>1, <2>2, <2>3, <2>4 DEF Start
<1>4. ASSUME NEW r \in Requests, Step(r) PROVE Goal
  <2>1. CASE ChangePassword(r)
    BY <1>t, <2>1 DEF ChangePassword
  <2>2. CASE SoftDelete(r)
    BY <1>t, <2>2 DEF SoftDelete
  <2>3. CASE HardDelete(r)
    <3>1. CASE UNCHANGED <<user, vtoken>>
      BY <1>0, <2>3, <3>1 DEF HardDelete
    <3>2. CASE user' = NoUser /\ vtoken' = 0
      BY <1>t, <2>3, <3>2 DEF HardDelete
    <3> QED
      BY <2>3, <3>1, <3>2 DEF HardDelete
  <2>4. CASE VerifyCommit(r)
    BY <1>t, <2>4 DEF VerifyCommit
  <2>5. CASE Link(r)
    BY <1>t, <2>5 DEF Link
  <2>6. CASE HostRoom(r)
    BY <1>t, <2>6 DEF HostRoom
  <2>7. CASE UNCHANGED rows
    BY <1>0, <2>7
  <2> QED
    BY <1>4, <2>1, <2>2, <2>3, <2>4, <2>5, <2>6, <2>7
       DEF Step, LoginLookup, LoginFailed, Lock, Unfail, LoginClear, Grant,
           RefreshAccount, Retire, Scan, Purge, SignedIn, Blacklist, SignOut,
           Drop, OAuthLocked
<1>5. ASSUME NEW r \in Requests, Abort(r) PROVE Goal
  BY <1>0, <1>5 DEF Abort
<1> QED
  BY <1>1, <1>2, <1>3, <1>4, <1>5 DEF Next

-----------------------------------------------------------------------------
(* The counter of failures.                                                *)

\* A step of one request leaves every other request where it is, so the one
\* that is about to lock the address still is.
LEMMA CounterStep ==
    ASSUME IInv, [Next]_vars
    PROVE  CounterIsPending'
<1> USE AccountAssumption DEF CounterIsPending, TypeOK, Request, lockout
<1>t. TypeOK /\ CounterIsPending
  BY DEF IInv
<1>1. CASE UNCHANGED <<attempts, req, faults>>
  BY <1>t, <1>1
<1>2. CASE UNCHANGED vars
  BY <1>1, <1>2 DEF vars
<1>3. CASE AtOnce /\ UNCHANGED faults
  BY <1>1, <1>3 DEF AtOnce, Signup, Resend, ForgotPassword, LockExpires
<1>4. ASSUME NEW r \in Requests,
             req[r].at \notin {"lock", "unfail"},
             attempts' = attempts,
             \A q \in Requests \ {r} : req'[q] = req[q],
             faults' = faults
      PROVE  CounterIsPending'
  BY <1>t, <1>4
<1>5. ASSUME NEW r \in Requests, Start(r), UNCHANGED faults
      PROVE  CounterIsPending'
  <2>1. /\ At(r, "idle")
        /\ attempts' = attempts
        /\ \A q \in Requests \ {r} : req'[q] = req[q]
    BY <1>t, <1>5 DEF Start, Login, Verify, ResetPassword, OAuth, Refresh, SignIn,
                      Open, At
  <2> QED
    BY <1>4, <1>5, <2>1 DEF At
<1>6. ASSUME NEW r \in Requests, Step(r), UNCHANGED faults
      PROVE  CounterIsPending'
  <2> USE DEF At, Goto, Finish
  <2>1. CASE LoginFailed(r)
    <3>1. CASE attempts' >= MaxFails
      BY <1>t, <1>6, <2>1, <3>1 DEF LoginFailed
    <3> QED
      BY <3>1
  <2>2. CASE Lock(r)
    BY <1>t, <1>6, <2>2 DEF Lock
  <2>3. CASE Unfail(r) \/ LoginClear(r)
    BY <1>t, <2>3 DEF Unfail, LoginClear
  <2>4. CASE LoginLookup(r) \/ Grant(r) \/ RefreshAccount(r) \/ Retire(r)
    BY <1>t, <1>4, <1>6, <2>4 DEF LoginLookup, Grant, RefreshAccount, Retire
  <2>5. CASE Scan(r) \/ Purge(r) \/ SignedIn(r) \/ ChangePassword(r)
    BY <1>t, <1>4, <1>6, <2>5 DEF Scan, Purge, SignedIn, ChangePassword
  <2>6. CASE SoftDelete(r) \/ HardDelete(r) \/ Blacklist(r) \/ SignOut(r)
    BY <1>t, <1>4, <1>6, <2>6 DEF SoftDelete, HardDelete, Blacklist, SignOut
  <2>7. CASE Drop(r) \/ HostRoom(r) \/ VerifyCommit(r) \/ OAuthLocked(r) \/ Link(r)
    BY <1>t, <1>4, <1>6, <2>7 DEF Drop, HostRoom, VerifyCommit, OAuthLocked, Link
  <2> QED
    BY <1>6, <2>1, <2>2, <2>3, <2>4, <2>5, <2>6, <2>7 DEF Step
<1>7. ASSUME NEW r \in Requests, Abort(r) PROVE CounterIsPending'
  BY <1>t, <1>7 DEF Abort
<1> QED
  BY <1>2, <1>3, <1>5, <1>6, <1>7 DEF Next

-----------------------------------------------------------------------------
(* The requests.                                                           *)

\* What the record of one request has to satisfy; `g` are the pairs issued.
RecordOK(rec, g) ==
    /\ rec \in Request
    /\ rec.at \in {"signIn", "blacklist"} => rec.op # "none"
    /\ rec.at \in Operations => rec.op = rec.at /\ rec.op # "none"
    /\ rec.op # "none" \/ rec.at \in {"account", "retire"} => rec.token \in g
    /\ rec.at = "verify" \/ rec.token \in {0} \cup g

LEMMA RecordMeaning ==
    ASSUME req \in [Requests -> Request], NEW r \in Requests
    PROVE  RequestInv(r) <=> RecordOK(req[r], DOMAIN grants)
BY DEF RequestInv, RecordOK, At

LEMMA IdleOK == ASSUME NEW g PROVE RecordOK(Idle, g)
BY IdleType DEF RecordOK, Idle, Operations

\* A step of a request changes its own record only, and leaves it in order.
LEMMA OwnRecord ==
    ASSUME IInv, NEW r \in Requests, Start(r) \/ Step(r) \/ Abort(r)
    PROVE  /\ req' = [req EXCEPT ![r] = req'[r]]
           /\ RecordOK(req'[r], DOMAIN grants)
<1> DEFINE Goal == /\ req' = [req EXCEPT ![r] = req'[r]]
                   /\ RecordOK(req'[r], DOMAIN grants)
<1>t. /\ RecordOK(req[r], DOMAIN grants)
      /\ req \in [Requests -> Request]
      /\ user \in User /\ vtoken \in Nat /\ era \in Nat
  BY RecordMeaning DEF IInv, TypeOK
<1>g. /\ \A q \in DOMAIN grants : q \in Nat /\ grants[q].era \in Nat
      /\ sessions \subseteq Nat
  <2>1. grants \in Seq([era: Nat, root: Nat]) /\ sessions \subseteq DOMAIN grants
    BY DEF IInv, TypeOK
  <2>2. \A q \in DOMAIN grants : grants[q] \in [era: Nat, root: Nat]
    BY <2>1, ElementType
  <2>3. DOMAIN grants \subseteq Nat
    BY <2>1
  <2> QED
    BY <2>1, <2>2, <2>3
<1>f. ASSUME Finish(r) PROVE Goal
  <2>1. req'[r] = Idle
    BY <1>f, <1>t DEF Finish
  <2> QED
    BY <1>f, <1>t, <2>1, IdleOK DEF Finish
<1> USE <1>t DEF RecordOK, Request, Idle, NoUser, User, Operations, Places, At, Goto
<1>goto. ASSUME NEW place \in Places \ Operations, Goto(r, place),
                place \in {"signIn", "blacklist"} => req[r].op # "none",
                place \in {"account", "retire"} => req[r].token \in DOMAIN grants,
                req[r].at # "verify"
         PROVE  Goal
  <2>1. /\ req'[r] = [req[r] EXCEPT !.at = place]
        /\ req' = [req EXCEPT ![r] = req'[r]]
    BY <1>goto
  <2> QED
    BY <1>goto, <2>1
<1>1. CASE Start(r)
  <2>1. CASE Login(r)
    BY ZenonT(40), <2>1 DEF Login, Open
  <2>2. CASE ResetPassword(r)
    BY ZenonT(40), <2>2 DEF ResetPassword, Open
  <2>3. CASE Verify(r)
    BY ZenonT(40), <2>3 DEF Verify
  <2>4. CASE OAuth(r)
    <3>1. CASE req' = [req EXCEPT ![r] = [Idle EXCEPT !.at = "grant", !.era = era']]
      <4>1. era' = era + 1 \/ user.state # "none"
        BY <2>4 DEF OAuth
      <4>2. era' \in Nat
        BY <2>4, <4>1 DEF OAuth
      <4>3. /\ req' = [req EXCEPT ![r] = req'[r]]
            /\ req'[r] = [at |-> "grant", op |-> "none", seen |-> NoUser,
                          token |-> 0, era |-> era', found |-> {}]
        BY <3>1
      <4> QED
        BY <4>2, <4>3
    <3>2. CASE req' = [req EXCEPT ![r] = [Idle EXCEPT !.at = "oauth", !.seen = user]]
      <4>1. /\ req' = [req EXCEPT ![r] = req'[r]]
            /\ req'[r] = [at |-> "oauth", op |-> "none", seen |-> user,
                          token |-> 0, era |-> 0, found |-> {}]
        BY <3>2
      <4> QED
        BY <4>1
    <3> QED
      BY <2>4, <3>1, <3>2 DEF OAuth
  <2>5. ASSUME NEW pair \in DOMAIN grants, Refresh(r, pair) PROVE Goal
    <3>1. CASE pair \in sessions
      <4>1. req' = [req EXCEPT ![r] = [Idle EXCEPT !.at = "account", !.token = pair]]
        BY <2>5, <3>1 DEF Refresh, Open
      <4>2. /\ req' = [req EXCEPT ![r] = req'[r]]
            /\ req'[r] = [at |-> "account", op |-> "none", seen |-> NoUser,
                          token |-> pair, era |-> 0, found |-> {}]
        BY <4>1
      <4> QED
        BY <1>g, <4>2
    <3>2. CASE pair \notin sessions
      <4>1. req' = [req EXCEPT ![r] = [Idle EXCEPT !.at = "scan", !.token = pair]]
        BY <2>5, <3>2 DEF Refresh, Open
      <4>2. /\ req' = [req EXCEPT ![r] = req'[r]]
            /\ req'[r] = [at |-> "scan", op |-> "none", seen |-> NoUser,
                          token |-> pair, era |-> 0, found |-> {}]
        BY <4>1
      <4> QED
        BY <1>g, <4>2
    <3> QED
      BY <3>1, <3>2
  <2>6. ASSUME NEW pair \in DOMAIN grants, NEW op \in Operations \ {"none"},
               SignIn(r, op, pair)
        PROVE  Goal
    BY ZenonT(40), <1>g, <2>6 DEF SignIn
  <2> QED
    BY <1>1, <2>1, <2>2, <2>3, <2>4, <2>5, <2>6 DEF Start
<1>2. CASE Step(r)
  <2>1. CASE LoginLookup(r)
    <3>1. ASSUME ~Finish(r) PROVE Goal
      BY <2>1, <3>1 DEF LoginLookup
    <3> QED
      BY <1>f, <3>1
  <2>2. CASE LoginFailed(r) \/ Lock(r) \/ LoginClear(r)
    <3>1. ASSUME ~Finish(r) PROVE Goal
      <4>1. \/ Goto(r, "lock") \/ Goto(r, "unfail")
            \/ Goto(r, "grant")
        BY <2>2, <3>1 DEF LoginFailed, Lock, LoginClear
      <4>2. req[r].at # "verify"
        BY <2>2 DEF LoginFailed, Lock, LoginClear
      <4> QED
        BY <4>1, <4>2, <1>goto
    <3> QED
      BY <1>f, <3>1
  <2>3. CASE RefreshAccount(r)
    <3>1. ASSUME ~Finish(r) PROVE Goal
      BY <1>g, <2>3, <3>1 DEF RefreshAccount
    <3> QED
      BY <1>f, <3>1
  <2>4. CASE Retire(r)
    BY <2>4 DEF Retire
  <2>5. CASE Scan(r)
    BY <1>g, <2>5 DEF Scan
  <2>6. CASE Purge(r)
    <3>1. ASSUME ~Finish(r) PROVE Goal
      <4>1. req[r].op \in {"softDelete", "hardDelete"} /\ Goto(r, "blacklist")
        BY <2>6, <3>1 DEF Purge
      <4>2. req[r].at # "verify"
        BY <2>6 DEF Purge
      <4> QED
        BY <4>1, <4>2, <1>goto
    <3> QED
      BY <1>f, <3>1
  <2>7. CASE SignedIn(r)
    <3>1. ASSUME ~Finish(r) PROVE Goal
      BY <2>7, <3>1 DEF SignedIn
    <3> QED
      BY <1>f, <3>1
  <2>8. CASE ChangePassword(r) \/ SoftDelete(r) \/ HardDelete(r)
    <3>1. ASSUME ~Finish(r) PROVE Goal
      <4>1. Goto(r, "scan") \/ Goto(r, "blacklist")
        BY <2>8, <3>1 DEF ChangePassword, SoftDelete, HardDelete
      <4> QED
        BY <2>8, <4>1 DEF ChangePassword, SoftDelete, HardDelete
    <3> QED
      BY <1>f, <3>1
  <2>9. CASE SignOut(r) \/ OAuthLocked(r)
    <3>1. ASSUME ~Finish(r) PROVE Goal
      BY <2>9, <3>1 DEF SignOut, OAuthLocked
    <3> QED
      BY <1>f, <3>1
  <2>10. CASE Link(r)
    <3>1. ASSUME ~Finish(r) PROVE Goal
      <4>1. req' = [req EXCEPT ![r].at = "grant", ![r].era = era]
        BY <2>10, <3>1 DEF Link
      <4> QED
        BY <2>10, <4>1 DEF Link
    <3> QED
      BY <1>f, <3>1
  <2>11. CASE Finish(r)
    BY <1>f, <2>11
  <2> QED
    BY <1>2, <2>1, <2>2, <2>3, <2>4, <2>5, <2>6, <2>7, <2>8, <2>9, <2>10, <2>11
       DEF Step, Unfail, Grant, Blacklist, Drop, HostRoom, VerifyCommit
<1>3. CASE Abort(r)
  BY <1>3, <1>f DEF Abort
<1> QED
  BY <1>1, <1>2, <1>3

\* Pairs are only added, and what Redis holds was issued.
LEMMA KeysStep ==
    ASSUME IInv, [Next]_vars
    PROVE  /\ grants' \in Seq([era: Nat, root: Nat])
           /\ DOMAIN grants \subseteq DOMAIN grants'
           /\ sessions' \subseteq DOMAIN grants'
           /\ blacklist' \subseteq DOMAIN grants'
<1> DEFINE Goal == /\ grants' \in Seq([era: Nat, root: Nat])
                   /\ DOMAIN grants \subseteq DOMAIN grants'
                   /\ sessions' \subseteq DOMAIN grants'
                   /\ blacklist' \subseteq DOMAIN grants'
<1>t. /\ grants \in Seq([era: Nat, root: Nat])
      /\ sessions \subseteq DOMAIN grants
      /\ blacklist \subseteq DOMAIN grants
  BY DEF IInv, TypeOK
<1>0. ASSUME UNCHANGED keys PROVE Goal
  BY <1>t, <1>0 DEF keys
<1>1. CASE UNCHANGED vars
  BY <1>0, <1>1 DEF vars
<1>2. CASE AtOnce
  BY <1>0, <1>2 DEF AtOnce, Signup, Resend, ForgotPassword, LockExpires
<1>3. ASSUME NEW r \in Requests, Start(r) PROVE Goal
  BY <1>0, <1>3 DEF Start, Login, Verify, ResetPassword, OAuth, Refresh, SignIn
<1>4. ASSUME NEW r \in Requests, Step(r) PROVE Goal
  <2>1. CASE Grant(r)
    <3>1. blacklist' = blacklist
      BY <2>1 DEF Grant
    <3>2. RequestInv(r) /\ TypeOK
      BY DEF IInv
    <3> QED
      BY <1>t, <2>1, <3>1, <3>2, GrantType
  <2>2. CASE Blacklist(r) \/ SignOut(r)
    <3>1. req[r].token \in DOMAIN grants
      BY <2>2 DEF IInv, RequestInv, Blacklist, SignOut, At, Operations
    <3>2. /\ blacklist' = blacklist \cup {req[r].token}
          /\ UNCHANGED <<sessions, grants>>
      BY <2>2 DEF Blacklist, SignOut
    <3> QED
      BY <1>t, <3>1, <3>2
  <2>3. CASE sessions' \subseteq sessions /\ UNCHANGED <<blacklist, grants>>
    BY <1>t, <2>3
  <2>4. CASE UNCHANGED keys
    BY <1>0, <2>4
  <2>5. CASE Retire(r) \/ Purge(r) \/ Drop(r)
    BY <2>3, <2>5 DEF Retire, Purge, Drop
  <2> QED
    BY <1>4, <2>1, <2>2, <2>4, <2>5
       DEF Step, LoginLookup, LoginFailed, Lock, Unfail, LoginClear,
           RefreshAccount, Scan, SignedIn, ChangePassword, SoftDelete,
           HardDelete, HostRoom, VerifyCommit, OAuthLocked, Link
<1>5. ASSUME NEW r \in Requests, Abort(r) PROVE Goal
  BY <1>0, <1>5 DEF Abort
<1> QED
  BY <1>1, <1>2, <1>3, <1>4, <1>5 DEF Next

\* Tokens and counters.
LEMMA CountsStep ==
    ASSUME IInv, [Next]_vars
    PROVE  /\ vtoken' \in 0..links' /\ era' \in Nat /\ links' \in Nat
           /\ rtoken' \in BOOLEAN /\ hosts' \in BOOLEAN
           /\ attempts' \in Nat /\ locked' \in BOOLEAN
           /\ faults' \in 0..MaxFaults
<1> DEFINE Rows == /\ vtoken' \in 0..links' /\ era' \in Nat /\ links' \in Nat
                   /\ rtoken' \in BOOLEAN /\ hosts' \in BOOLEAN
           Lockout == attempts' \in Nat /\ locked' \in BOOLEAN
           Faults == faults' \in 0..MaxFaults
<1>t. /\ vtoken \in 0..links /\ era \in Nat /\ links \in Nat
      /\ rtoken \in BOOLEAN /\ hosts \in BOOLEAN
      /\ attempts \in Nat /\ locked \in BOOLEAN
      /\ faults \in 0..MaxFaults
  BY DEF IInv, TypeOK
<1>r. ASSUME UNCHANGED rows PROVE Rows
  BY <1>t, <1>r DEF rows
<1>l. ASSUME UNCHANGED lockout PROVE Lockout
  BY <1>t, <1>l DEF lockout
<1>1. CASE UNCHANGED vars
  BY <1>t, <1>r, <1>l, <1>1 DEF vars
<1>2. Faults
  BY <1>t, <1>1, AccountAssumption DEF Next, Abort
<1>3. Rows
  <2>1. CASE AtOnce
    <3>1. CASE Signup
      BY <1>t, <3>1 DEF Signup
    <3>2. CASE Resend
      BY <1>t, <3>2 DEF Resend
    <3>3. CASE ForgotPassword
      BY <1>t, <3>3 DEF ForgotPassword
    <3>4. CASE LockExpires
      BY <1>r, <3>4 DEF LockExpires
    <3> QED
      BY <2>1, <3>1, <3>2, <3>3, <3>4 DEF AtOnce
  <2>2. ASSUME NEW r \in Requests, Start(r) PROVE Rows
    <3>1. CASE ResetPassword(r)
      <4>1. vtoken' = vtoken /\ links' = links /\ era' = era + 1
        BY <3>1 DEF ResetPassword
      <4>2. vtoken' \in 0..links' /\ era' \in Nat /\ links' \in Nat
        BY <1>t, <4>1
      <4>3. rtoken' = FALSE /\ hosts' = hosts
        BY <3>1 DEF ResetPassword
      <4> QED
        BY <1>t, <4>2, <4>3, Zenon
    <3>2. CASE OAuth(r)
      BY <1>t, <3>2 DEF OAuth
    <3> QED
      BY <1>r, <2>2, <3>1, <3>2 DEF Start, Login, Verify, Refresh, SignIn
  <2>3. ASSUME NEW r \in Requests, Step(r) PROVE Rows
    <3>1. CASE ChangePassword(r)
      BY <1>t, <1>r, <3>1 DEF ChangePassword
    <3>2. CASE HardDelete(r) \/ VerifyCommit(r)
      BY <1>t, <3>2 DEF HardDelete, VerifyCommit
    <3>3. CASE SoftDelete(r) \/ HostRoom(r) \/ Link(r)
      BY <1>t, <3>3 DEF SoftDelete, HostRoom, Link
    <3> QED
      BY <1>r, <2>3, <3>1, <3>2, <3>3
         DEF Step, LoginLookup, LoginFailed, Lock, Unfail, LoginClear, Grant,
             RefreshAccount, Retire, Scan, Purge, SignedIn, Blacklist, SignOut,
             Drop, OAuthLocked
  <2>4. ASSUME NEW r \in Requests, Abort(r) PROVE Rows
    BY <1>r, <2>4 DEF Abort
  <2> QED
    BY <1>1, <2>1, <2>2, <2>3, <2>4 DEF Next
<1>4. Lockout
  <2>1. CASE AtOnce
    BY <1>t, <1>l, <2>1
       DEF AtOnce, Signup, Resend, ForgotPassword, LockExpires, lockout
  <2>2. ASSUME NEW r \in Requests, Start(r) PROVE Lockout
    BY <1>l, <2>2 DEF Start, Login, Verify, ResetPassword, OAuth, Refresh, SignIn
  <2>3. ASSUME NEW r \in Requests, Step(r) PROVE Lockout
    <3>1. CASE LoginFailed(r) \/ Lock(r) \/ Unfail(r) \/ LoginClear(r)
      <4>1. /\ attempts' \in {attempts, attempts + 1, 0}
            /\ locked' = locked \/ locked' = TRUE
        BY <3>1 DEF LoginFailed, Lock, Unfail, LoginClear
      <4>2. attempts' \in Nat
        BY <1>t, <4>1
      <4>3. locked' \in BOOLEAN
        BY <1>t, <4>1, Zenon
      <4> QED
        BY <4>2, <4>3
    <3> QED
      BY <1>l, <2>3, <3>1
         DEF Step, LoginLookup, Grant, RefreshAccount, Retire, Scan, Purge,
             SignedIn, ChangePassword, SoftDelete, HardDelete, Blacklist, SignOut,
             Drop, HostRoom, VerifyCommit, OAuthLocked, Link
  <2>4. ASSUME NEW r \in Requests, Abort(r) PROVE Lockout
    BY <1>l, <2>4 DEF Abort
  <2> QED
    BY <1>1, <2>1, <2>2, <2>3, <2>4 DEF Next
<1> QED
  BY <1>2, <1>3, <1>4

\* Every request record stays in order, whoever takes the step.
LEMMA RequestsStep ==
    ASSUME IInv, [Next]_vars
    PROVE  /\ req' \in [Requests -> Request]
           /\ \A r \in Requests : RequestInv(r)'
<1>t. /\ req \in [Requests -> Request]
      /\ \A q \in Requests : RecordOK(req[q], DOMAIN grants)
  BY RecordMeaning DEF IInv, TypeOK
<1>g. DOMAIN grants \subseteq DOMAIN grants'
  BY KeysStep
<1>1. CASE UNCHANGED req
  BY <1>t, <1>g, <1>1 DEF RequestInv, RecordOK, At
<1>2. ASSUME NEW r \in Requests, Start(r) \/ Step(r) \/ Abort(r)
      PROVE  /\ req' \in [Requests -> Request]
             /\ \A q \in Requests : RequestInv(q)'
  <2>1. /\ req' = [req EXCEPT ![r] = req'[r]]
        /\ RecordOK(req'[r], DOMAIN grants)
    BY <1>2, OwnRecord
  <2>2. \A q \in Requests : RecordOK(req'[q], DOMAIN grants)
    BY <1>t, <2>1
  <2>3. req' \in [Requests -> Request]
    BY <1>t, <2>1 DEF RecordOK
  <2>4. \A q \in Requests : RequestInv(q)'
    BY <1>g, <2>2 DEF RequestInv, RecordOK, At
  <2> QED
    BY <2>3, <2>4
<1>3. CASE AtOnce
  BY <1>1, <1>3 DEF AtOnce, Signup, Resend, ForgotPassword, LockExpires
<1> QED
  BY <1>1, <1>2, <1>3 DEF Next, vars

-----------------------------------------------------------------------------
(* The theorems.                                                           *)

LEMMA InvStep == IInv /\ [Next]_vars => IInv'
<1> SUFFICES ASSUME IInv, [Next]_vars PROVE IInv'
  OBVIOUS
<1>1. RowsInv'
  BY RowsStep
<1>2. TypeOK'
  BY <1>1, KeysStep, CountsStep, RequestsStep DEF TypeOK, RowsInv
<1> QED
  BY <1>1, <1>2, CounterStep, RequestsStep DEF IInv, RowsInv

\* The inductive invariant holds in every reachable state.
THEOREM AccountInvariant == Spec => []IInv
BY InvInit, InvStep, PTL DEF Spec

\* Every variable keeps its type.
THEOREM AccountTypes == Spec => []TypeOK
<1>1. IInv => TypeOK
  BY DEF IInv
<1> QED
  BY <1>1, AccountInvariant, PTL

\* While no request has failed half way, any number of failed logins at a time
\* keep the counter below its limit, but for one that is about to lock.
THEOREM FailuresLockAddress == Spec => []CounterIsPending
<1>1. IInv => CounterIsPending
  BY DEF IInv
<1> QED
  BY <1>1, AccountInvariant, PTL

\* No handler, whatever row it has read before its awaits, makes a verified
\* account unverified or a deleted one active.
THEOREM AccountsMoveForward == Spec => AccountMovesForward
<1>1. IInv /\ [Next]_vars =>
        [user.id # 0 /\ user'.id = user.id =>
            /\ user.verified => user'.verified
            /\ user.state = "deleted" => user'.state = "deleted"]_vars
  BY RowsStep
<1> QED
  BY <1>1, AccountInvariant, PTL DEF Spec, AccountMovesForward

-----------------------------------------------------------------------------
(* Sessions: how one step changes the pairs, the row and a request.        *)

\* A pair that is issued goes back to the login of the pair it replaces.
LEMMA GrantRoots ==
    ASSUME IInv, RootsBefore, NEW r \in Requests, Grant(r)
    PROVE  /\ RootsBefore'
           /\ Len(grants) + 1 \notin DOMAIN grants
           /\ \A pair \in DOMAIN grants : grants'[pair] = grants[pair]
           /\ grants'[Len(grants) + 1].era = req[r].era
           /\ grants'[Len(grants) + 1].root =
                IF req[r].token = 0 THEN Len(grants) + 1 ELSE grants[req[r].token].root
<1> DEFINE pair == Len(grants) + 1
           old == req[r].token
           root == IF old = 0 THEN pair ELSE grants[old].root
           new == [era |-> req[r].era, root |-> root]
<1>1. grants \in Seq([era: Nat, root: Nat]) /\ grants' \in Seq([era: Nat, root: Nat])
  BY GrantType DEF IInv, TypeOK
<1>2. grants' = Append(grants, new)
  BY DEF Grant
<1>3. old \in {0} \cup DOMAIN grants
  BY DEF IInv, RequestInv, Grant, At
<1> HIDE DEF new, root
<1>4. /\ Len(grants) \in Nat /\ DOMAIN grants = 1..Len(grants)
      /\ DOMAIN grants' = 1..(Len(grants) + 1)
      /\ \A q \in DOMAIN grants : grants'[q] = grants[q]
      /\ grants'[pair] = new
  BY <1>1, <1>2
<1>5. root \in 1..pair
  <2>1. CASE old = 0
    BY <1>4, <2>1 DEF root
  <2>2. CASE old \in DOMAIN grants /\ old # 0
    <3>1. root = grants[old].root /\ root \in 1..old
      BY <2>2 DEF root, RootsBefore, Root
    <3>2. old \in 1..Len(grants)
      BY <1>4, <2>2
    <3> QED
      BY <1>4, <3>1, <3>2
  <2> QED
    BY <1>3, <2>1, <2>2
<1>6. new.root = root /\ new.era = req[r].era
  BY DEF new
<1>7. RootsBefore'
  BY <1>4, <1>5, <1>6 DEF RootsBefore, Root
<1> QED
  BY <1>4, <1>6, <1>7 DEF root

LEMMA RootsStep ==
    ASSUME IInv, RootsBefore, [Next]_vars
    PROVE  RootsBefore'
<1>1. CASE UNCHANGED grants
  BY <1>1 DEF RootsBefore, Root
<1>2. ASSUME NEW r \in Requests, Step(r) PROVE UNCHANGED grants \/ Grant(r)
  BY <1>2 DEF Step, LoginLookup, LoginFailed, Lock, Unfail, LoginClear,
        RefreshAccount, Retire, Scan, Purge, SignedIn, ChangePassword, SoftDelete,
        HardDelete, Blacklist, SignOut, Drop, HostRoom, VerifyCommit, OAuthLocked,
        Link, keys
<1>3. ASSUME NEW r \in Requests, Start(r) \/ Abort(r) PROVE UNCHANGED grants
  BY <1>3 DEF Start, Login, Verify, ResetPassword, OAuth, Refresh, SignIn, Abort, keys
<1>4. ASSUME AtOnce PROVE UNCHANGED grants
  BY <1>4 DEF AtOnce, Signup, Resend, ForgotPassword, LockExpires, keys
<1> QED
  BY <1>1, <1>2, <1>3, <1>4, GrantRoots DEF Next, vars, keys

\* A pair that was issued keeps what it goes back to.
PairsStay == \A pair \in DOMAIN grants : grants'[pair] = grants[pair]

KeysOnlyGo == sessions' \subseteq sessions /\ UNCHANGED grants

LEMMA KeyMoves ==
    ASSUME IInv, RootsBefore, NEW r \in Requests, Start(r) \/ Step(r)
    PROVE  PairsStay /\ (KeysOnlyGo \/ Grant(r))
<1>1. CASE Start(r)
  BY <1>1 DEF Start, Login, Verify, ResetPassword, OAuth, Refresh, SignIn, keys,
        PairsStay, KeysOnlyGo
<1>2. CASE Step(r) /\ ~Grant(r)
  BY <1>2 DEF Step, LoginLookup, LoginFailed, Lock, Unfail, LoginClear,
        RefreshAccount, Retire, Scan, Purge, SignedIn, ChangePassword, SoftDelete,
        HardDelete, Blacklist, SignOut, Drop, HostRoom, VerifyCommit, OAuthLocked,
        Link, keys, PairsStay, KeysOnlyGo
<1>3. CASE Grant(r)
  BY <1>3, GrantRoots DEF PairsStay
<1> QED
  BY <1>1, <1>2, <1>3

\* The password and the account change only where a revocation follows or
\* where there was no account.
RowKept ==
    /\ era' = era /\ user'.id = user.id /\ user'.state = user.state
    /\ user.verified => user'.verified
RowMade == user.state = "none" /\ user'.state = "active"

LEMMA RowMoves ==
    ASSUME IInv, NEW r \in Requests, Start(r) \/ Step(r)
    PROVE  RowKept \/ RowMade \/ r \in Revoking'
<1>t. user \in User /\ req \in [Requests -> Request]
  BY DEF IInv, TypeOK
<1>0. ASSUME UNCHANGED <<user, era>> PROVE RowKept
  BY <1>0 DEF RowKept
<1>1. ASSUME Goto(r, "scan") PROVE r \in Revoking'
  BY <1>1, <1>t DEF Goto, Revoking, Request
<1>2. CASE Start(r)
  <2>1. CASE ResetPassword(r)
    BY <1>t, <2>1 DEF ResetPassword, Open, Idle, Revoking
  <2>2. CASE OAuth(r)
    BY <1>0, <2>2 DEF OAuth, RowMade
  <2> QED
    BY <1>0, <1>2, <2>1, <2>2 DEF Start, Login, Verify, Refresh, SignIn, rows
<1>3. CASE Step(r)
  <2>1. CASE ChangePassword(r)
    BY <1>0, <1>1, <2>1 DEF ChangePassword, rows
  <2>2. CASE SoftDelete(r)
    BY <1>0, <1>1, <2>2 DEF SoftDelete
  <2>3. CASE HardDelete(r)
    BY <1>0, <1>1, <2>3 DEF HardDelete
  <2>4. CASE VerifyCommit(r) \/ Link(r)
    BY <1>t, <2>4 DEF VerifyCommit, Link, User, RowKept
  <2> QED
    BY <1>0, <1>3, <2>1, <2>2, <2>3, <2>4 DEF Step, LoginLookup, LoginFailed,
       Lock, Unfail, LoginClear, Grant, RefreshAccount, Retire, Scan, Purge,
       SignedIn, Blacklist, SignOut, Drop, HostRoom, OAuthLocked, rows
<1> QED
  BY <1>2, <1>3

LEMMA AtOnceMoves ==
    ASSUME IInv, AtOnce
    PROVE  UNCHANGED <<keys, req>> /\ (RowKept \/ RowMade)
<1>1. UNCHANGED <<keys, req>>
  BY DEF AtOnce, Signup, Resend, ForgotPassword, LockExpires
<1>2. RowKept \/ RowMade
  BY DEF AtOnce, Signup, Resend, ForgotPassword, LockExpires, rows, RowKept, RowMade
<1> QED
  BY <1>1, <1>2

\* Where a request may have gone, what it read there and what it wrote.
Plain == {"idle", "failed", "lock", "unfail", "signIn", "blacklist", "drop",
          "verify"} \cup Operations

Still == UNCHANGED <<user, era, sessions, grants>>

GoesOn(r, from, to) ==
    /\ At(r, from) /\ req'[r].at = to
    /\ req'[r].token = req[r].token /\ req'[r].seen = req[r].seen

Moves(r) ==
    \/ req'[r].at \in Plain \cup {"scan"}
    \/ req'[r].at = "lookup" /\ req'[r].token = 0
    \/ req'[r].at = "purge" /\ req'[r].found = sessions /\ Still
    \/ GoesOn(r, "lookup", "clear") /\ Still /\ Usable /\ req'[r].era = era
    \/ req'[r].at = "account" /\ Still /\ req'[r].token \in sessions
    \/ /\ GoesOn(r, "account", "retire") /\ Still
       /\ req'[r].era = grants[req[r].token].era
    \/ GoesOn(r, "clear", "grant") /\ Still /\ req'[r].era = req[r].era
    \/ /\ GoesOn(r, "retire", "grant") /\ req'[r].era = req[r].era
       /\ UNCHANGED <<user, era, grants>> /\ sessions' = sessions \ {req[r].token}
    \/ /\ req'[r].at = "grant" /\ req'[r].token = 0 /\ req'[r].era = era'
       /\ user'.state = "active" /\ user'.verified /\ UNCHANGED <<sessions, grants>>
    \/ /\ req'[r].at = "oauth" /\ Still
       /\ req'[r].token = 0 /\ req'[r].seen = user
    \/ GoesOn(r, "oauth", "link") /\ Still
    \/ /\ GoesOn(r, "link", "grant") /\ req'[r].era = era
       /\ req[r].seen.state = "active" /\ RowThere(r)
       /\ UNCHANGED <<era, sessions, grants>>
       /\ user'.state = user.state /\ user'.verified

LEMMA OwnMoves ==
    ASSUME IInv, NEW r \in Requests, Start(r) \/ Step(r)
    PROVE  Moves(r)
<1>t. req \in [Requests -> Request] /\ user \in User /\ req[r].op \in Operations
  BY DEF IInv, TypeOK, Request
<1>f. ASSUME Finish(r) PROVE Moves(r)
  BY <1>t, <1>f DEF Finish, Idle, Moves, Plain
<1>g. ASSUME NEW place, Goto(r, place)
      PROVE  /\ req'[r].at = place /\ req'[r].token = req[r].token
             /\ req'[r].era = req[r].era /\ req'[r].seen = req[r].seen
  BY <1>t, <1>g DEF Goto, Request
<1>e. ASSUME NEW place, NEW e, req' = [req EXCEPT ![r].at = place, ![r].era = e]
      PROVE  /\ req'[r].at = place /\ req'[r].token = req[r].token
             /\ req'[r].era = e /\ req'[r].seen = req[r].seen
  BY <1>t, <1>e DEF Request
<1>p. ASSUME req'[r].at \in Plain \cup {"scan"} PROVE Moves(r)
  BY <1>p DEF Moves
<1>1. CASE Start(r)
  <2>1. CASE Login(r)
    BY <1>t, <2>1 DEF Login, Open, Idle, Moves
  <2>2. CASE ResetPassword(r)
    BY <1>t, <1>p, <2>2 DEF ResetPassword, Open, Idle
  <2>3. CASE Verify(r)
    BY <1>t, <1>p, <2>3 DEF Verify, Idle, Plain
  <2>4. ASSUME NEW pair \in DOMAIN grants, NEW op \in Operations, SignIn(r, op, pair)
        PROVE  Moves(r)
    BY <1>t, <1>p, <2>4 DEF SignIn, Idle, Plain
  <2>5. ASSUME NEW pair \in DOMAIN grants, Refresh(r, pair) PROVE Moves(r)
    <3>1. Still
      BY <2>5 DEF Refresh, Still, rows, keys
    <3>2. \/ req'[r].at = "account" /\ req'[r].token \in sessions
          \/ req'[r].at = "scan"
      BY <1>t, <2>5 DEF Refresh, Open, Idle
    <3> QED
      BY <3>1, <3>2 DEF Moves
  <2>6. CASE OAuth(r)
    <3>1. CASE user.state = "none"
      <4>1. /\ user' = [id |-> era + 1, state |-> "active", verified |-> TRUE]
            /\ req' = [req EXCEPT ![r] = [Idle EXCEPT !.at = "grant", !.era = era']]
            /\ UNCHANGED <<sessions, grants>>
        BY <2>6, <3>1 DEF OAuth, keys
      <4>2. req'[r].at = "grant" /\ req'[r].token = 0 /\ req'[r].era = era'
        BY <1>t, <4>1 DEF Idle
      <4> QED
        BY <4>1, <4>2 DEF Moves
    <3>2. CASE user.state # "none"
      <4>1. /\ req' = [req EXCEPT ![r] = [Idle EXCEPT !.at = "oauth", !.seen = user]]
            /\ Still
        BY <2>6, <3>2 DEF OAuth, keys, Still
      <4>2. req'[r].at = "oauth" /\ req'[r].token = 0 /\ req'[r].seen = user
        BY <1>t, <4>1 DEF Idle
      <4> QED
        BY <4>1, <4>2 DEF Moves
    <3> QED
      BY <3>1, <3>2
  <2> QED
    BY <1>1, <2>1, <2>2, <2>3, <2>4, <2>5, <2>6 DEF Start
<1>2. CASE LoginLookup(r)
  <2>1. /\ At(r, "lookup") /\ Still
        /\ \/ Finish(r) \/ Goto(r, "failed")
           \/ /\ req' = [req EXCEPT ![r].at = "clear", ![r].era = era]
              /\ Usable
    BY <1>2 DEF LoginLookup, Usable, Still, rows, keys
  <2>2. CASE Goto(r, "failed")
    BY <1>g, <1>p, <2>2 DEF Plain
  <2>3. CASE req' = [req EXCEPT ![r].at = "clear", ![r].era = era] /\ Usable
    BY <1>e, <2>1, <2>3 DEF Moves, GoesOn
  <2> QED
    BY <1>f, <2>1, <2>2, <2>3
<1>3. CASE LoginClear(r)
  <2>1. At(r, "clear") /\ Still /\ Goto(r, "grant")
    BY <1>3 DEF LoginClear, Still, rows, keys
  <2> QED
    BY <1>g, <2>1 DEF Moves, GoesOn
<1>4. CASE RefreshAccount(r)
  <2>1. /\ At(r, "account") /\ Still
        /\ \/ Finish(r)
           \/ req' = [req EXCEPT ![r].at = "retire",
                                 ![r].era = grants[req[r].token].era]
    BY <1>4 DEF RefreshAccount, Still, rows, keys
  <2> QED
    BY <1>f, <1>e, <2>1 DEF Moves, GoesOn
<1>5. CASE Retire(r)
  <2>1. /\ At(r, "retire") /\ Goto(r, "grant")
        /\ UNCHANGED <<user, era, grants>> /\ sessions' = sessions \ {req[r].token}
    BY <1>5 DEF Retire, rows
  <2> QED
    BY <1>g, <2>1 DEF Moves, GoesOn
<1>6. CASE Scan(r)
  BY <1>t, <1>6 DEF Scan, rows, keys, Still, Moves
<1>7. CASE SignedIn(r)
  <2>1. \/ req'[r].at = req[r].op
        \/ Finish(r)
    BY <1>t, <1>7 DEF SignedIn, Request
  <2> QED
    BY <1>f, <1>p, <1>t, <2>1 DEF Plain
<1>8. CASE OAuthLocked(r)
  <2>1. At(r, "oauth") /\ Still /\ (Finish(r) \/ Goto(r, "link"))
    BY <1>8 DEF OAuthLocked, Still, rows, keys
  <2> QED
    BY <1>f, <1>g, <2>1 DEF Moves, GoesOn
<1>9. CASE Link(r)
  <2>1. CASE req[r].seen.state = "active" /\ RowThere(r)
    <3>1. /\ At(r, "link") /\ UNCHANGED <<era, sessions, grants>>
          /\ user' = [user EXCEPT !.verified = TRUE]
          /\ req' = [req EXCEPT ![r].at = "grant", ![r].era = era]
      BY <1>9, <2>1 DEF Link, keys
    <3>2. user'.state = user.state /\ user'.verified
      BY <1>t, <3>1 DEF User
    <3> QED
      BY <1>e, <2>1, <3>1, <3>2 DEF Moves, GoesOn
  <2> QED
    BY <1>f, <1>9, <2>1 DEF Link
<1>10. ASSUME \/ Goto(r, "failed") \/ Goto(r, "lock") \/ Goto(r, "unfail")
              \/ Goto(r, "scan") \/ Goto(r, "blacklist") \/ Goto(r, "drop")
       PROVE  Moves(r)
  BY <1>g, <1>p, <1>10 DEF Plain
<1>11. CASE LoginFailed(r) \/ Lock(r) \/ Unfail(r) \/ Grant(r) \/ Purge(r)
  BY <1>f, <1>10, <1>11 DEF LoginFailed, Lock, Unfail, Grant, Purge
<1>12. CASE ChangePassword(r) \/ SoftDelete(r) \/ HardDelete(r)
  BY <1>f, <1>10, <1>12 DEF ChangePassword, SoftDelete, HardDelete
<1>13. CASE \/ Blacklist(r) \/ SignOut(r) \/ Drop(r) \/ HostRoom(r)
            \/ VerifyCommit(r)
  BY <1>f, <1>10, <1>13 DEF Blacklist, SignOut, Drop, HostRoom, VerifyCommit
<1> QED
  BY <1>1, <1>2, <1>3, <1>4, <1>5, <1>6, <1>7, <1>8, <1>9, <1>11, <1>12, <1>13 DEF Step

\* A login or a Google sign-in carries no pair until its own is issued.
LEMMA FreshStep ==
    ASSUME IInv, FreshLogins, [Next]_vars
    PROVE  FreshLogins'
<1>1. CASE UNCHANGED req
  BY <1>1 DEF FreshLogins
<1>2. ASSUME NEW r \in Requests, Start(r) \/ Step(r) PROVE FreshLogins'
  <2>1. req' = [req EXCEPT ![r] = req'[r]] /\ req \in [Requests -> Request]
    BY <1>2, OwnRecord DEF IInv, TypeOK
  <2>2. req'[r].at \in {"lookup", "clear", "oauth", "link"} => req'[r].token = 0
    BY <1>2, OwnMoves DEF Moves, GoesOn, FreshLogins, At, Plain, Operations
  <2> QED
    BY <2>1, <2>2 DEF FreshLogins
<1>3. ASSUME NEW r \in Requests, Abort(r) PROVE FreshLogins'
  BY <1>3 DEF Abort, Finish, Idle, FreshLogins, IInv, TypeOK
<1> QED
  BY <1>1, <1>2, <1>3, AtOnceMoves DEF Next, vars

-----------------------------------------------------------------------------
(* Sessions end with the password and the account.                         *)

\* Only a request that is not being served begins, and a revocation ends with
\* the DEL of what it has found.
LEMMA Sources ==
    ASSUME IInv, NEW r \in Requests, Start(r) \/ Step(r)
    PROVE  r \in Revoking =>
             \/ Purge(r) /\ req'[r].at \in {"idle", "blacklist"}
             \/ req'[r].at = "purge"
<1>1. ASSUME Start(r) PROVE At(r, "idle")
  BY <1>1 DEF Start, Login, Verify, ResetPassword, OAuth, Refresh, SignIn, Open
<1>2. ASSUME Step(r), req[r].at \in {"scan", "purge"} PROVE Scan(r) \/ Purge(r)
  BY <1>2 DEF Step, LoginLookup, LoginFailed, Lock, Unfail, LoginClear, Grant,
        RefreshAccount, Retire, SignedIn, ChangePassword, SoftDelete, HardDelete,
        Blacklist, SignOut, Drop, HostRoom, VerifyCommit, OAuthLocked, Link, At
<1>3. ASSUME Scan(r) PROVE req'[r].at = "purge"
  BY <1>3 DEF Scan, IInv, TypeOK, Request
<1>4. ASSUME Purge(r) PROVE req'[r].at \in {"idle", "blacklist"}
  BY <1>4 DEF Purge, Goto, Finish, Idle, IInv, TypeOK, Request
<1> QED
  BY <1>1, <1>2, <1>3, <1>4 DEF Revoking, At

\* What CurrentInv says as long as it says anything.
Current ==
    /\ IssuedApart
    /\ Revoking = {} => SessionsAreCurrent
    /\ \A r \in Requests : IssueInv(r)

\* A request finds what it relies on as it was, whatever another one does, or
\* else the two are a pair being issued and a revocation.
LEMMA OthersStayCurrent ==
    ASSUME IInv, Current, IssuedApart', PairsStay,
           RowKept \/ RowMade \/ Revoking' # {},
           sessions' \subseteq sessions \/ Issuing # {},
           NEW q \in Requests, req'[q] = req[q]
    PROVE  IssueInv(q)'
<1>1. IssueInv(q) /\ RequestInv(q)
  BY DEF Current, IInv
<1>2. ASSUME req[q].at \in {"clear", "account", "retire", "oauth", "link", "grant"}
      PROVE  RowKept \/ RowMade
  <2>1. q \in Issuing'
    BY <1>2 DEF Issuing
  <2> QED
    BY <2>1 DEF IssuedApart
<1>3. ASSUME req[q].at \in {"clear", "account", "retire", "grant"}
      PROVE  era' = era /\ Usable /\ Usable'
  <2>1. Usable
    BY <1>1, <1>3 DEF IssueInv, At
  <2>2. RowKept
    BY <1>2, <1>3, <2>1 DEF RowMade, Usable
  <2> QED
    BY <2>1, <2>2 DEF RowKept, Usable
<1>4. At(q, "purge")' => sessions' \subseteq req'[q].found
  <2>1. ASSUME At(q, "purge") PROVE sessions' \subseteq sessions
    BY <2>1 DEF Current, IssuedApart, Revoking, At
  <2> QED
    BY <1>1, <2>1 DEF IssueInv, At
<1>5. At(q, "account")' => Usable' /\ grants'[req'[q].token].era = era'
  <2> SUFFICES ASSUME At(q, "account") PROVE Usable' /\ grants'[req'[q].token].era = era'
    BY DEF At
  <2>1. req[q].token \in DOMAIN grants /\ grants[req[q].token].era = era
    BY <1>1 DEF RequestInv, IssueInv
  <2> QED
    BY <1>3, <2>1 DEF At, PairsStay
<1>6. req'[q].at \in {"clear", "retire", "grant"} => Usable' /\ req'[q].era = era'
  BY <1>1, <1>3 DEF IssueInv
<1>7. req'[q].at \in {"oauth", "link"} /\ req'[q].seen.state = "active" /\ RowThere(q)' =>
        user'.state = "active"
  BY <1>1, <1>2 DEF IssueInv, RowThere, RowKept, RowMade
<1> QED
  BY <1>4, <1>5, <1>6, <1>7 DEF IssueInv

\* A request that goes on finds what the next place relies on.
LEMMA OwnStaysCurrent ==
    ASSUME IInv, Current, IssuedApart', NEW r \in Requests, Start(r) \/ Step(r)
    PROVE  IssueInv(r)'
<1>m. Moves(r)
  BY OwnMoves
<1>i. IssueInv(r) /\ req \in [Requests -> Request]
  BY DEF Current, IInv, TypeOK
<1>p. req'[r].at \notin {"purge", "clear", "account", "retire", "oauth", "link", "grant"} =>
        IssueInv(r)'
  BY DEF IssueInv, At
<1>1. CASE req'[r].at \in Plain \cup {"scan"} \/ req'[r].at = "lookup"
  BY <1>p, <1>1 DEF Plain, Operations
<1>2. CASE req'[r].at = "purge" /\ req'[r].found = sessions /\ Still
  BY <1>2 DEF IssueInv, At, Still
<1>3. CASE GoesOn(r, "lookup", "clear") /\ Still /\ Usable /\ req'[r].era = era
  BY <1>3 DEF IssueInv, At, Still, Usable, GoesOn
<1>4. CASE req'[r].at = "account" /\ Still /\ req'[r].token \in sessions
  <2>1. Revoking' = {}
    BY <1>4 DEF IssuedApart, Issuing
  <2>2. Revoking = {}
    <3>1. req' = [req EXCEPT ![r] = req'[r]]
      BY OwnRecord
    <3>2. r \notin Revoking
      BY <1>4, Sources
    <3> QED
      BY <1>i, <2>1, <3>1, <3>2 DEF Revoking, At
  <2>3. SessionsAreCurrent
    BY <2>2 DEF Current
  <2> QED
    BY <1>4, <2>3 DEF SessionsAreCurrent, IssueInv, At, Still, Usable
<1>5. CASE /\ GoesOn(r, "account", "retire") /\ Still
           /\ req'[r].era = grants[req[r].token].era
  BY <1>i, <1>5 DEF IssueInv, At, Still, Usable, GoesOn
<1>6. CASE GoesOn(r, "clear", "grant") /\ Still /\ req'[r].era = req[r].era
  BY <1>i, <1>6 DEF IssueInv, At, Still, Usable, GoesOn
<1>7. CASE /\ GoesOn(r, "retire", "grant") /\ req'[r].era = req[r].era
           /\ UNCHANGED <<user, era, grants>>
  BY <1>i, <1>7 DEF IssueInv, At, Usable, GoesOn
<1>8. CASE /\ req'[r].at = "grant" /\ req'[r].era = era'
           /\ user'.state = "active" /\ user'.verified
  BY <1>8 DEF IssueInv, At, Usable
<1>9. CASE req'[r].at = "oauth" /\ Still /\ req'[r].seen = user
  BY <1>9 DEF IssueInv, At, Still
<1>10. CASE GoesOn(r, "oauth", "link") /\ Still
  BY <1>i, <1>10 DEF IssueInv, At, Still, GoesOn, RowThere
<1>11. CASE /\ GoesOn(r, "link", "grant") /\ req'[r].era = era
            /\ req[r].seen.state = "active" /\ RowThere(r)
            /\ UNCHANGED era /\ user'.state = user.state /\ user'.verified
  BY <1>i, <1>11 DEF IssueInv, At, Usable, GoesOn
<1> QED
  BY <1>m, <1>1, <1>2, <1>3, <1>4, <1>5, <1>6, <1>7, <1>8, <1>9, <1>10, <1>11
     DEF Moves

\* When the last revocation is over nothing is left that is not current.
LEMMA RevokedIsCurrent ==
    ASSUME IInv, RootsBefore, Current, Revoking' = {},
           NEW r \in Requests, Start(r) \/ Step(r)
    PROVE  SessionsAreCurrent'
<1>t. /\ sessions \subseteq DOMAIN grants /\ req \in [Requests -> Request]
      /\ req' = [req EXCEPT ![r] = req'[r]]
  BY OwnRecord DEF IInv, TypeOK
<1>1. RowKept \/ RowMade
  BY RowMoves
<1>2. PairsStay /\ (KeysOnlyGo \/ Grant(r))
  BY KeyMoves
<1>3. CASE Revoking = {}
  <2>1. SessionsAreCurrent
    BY <1>3 DEF Current
  <2>2. CASE KeysOnlyGo
    BY <1>1, <2>1, <2>2 DEF KeysOnlyGo, SessionsAreCurrent, Usable, RowKept, RowMade
  <2>3. CASE Grant(r)
    <3>1. Usable /\ req[r].era = era
      BY <2>3 DEF Current, IssueInv, Grant, At
    <3>2. era' = era /\ Usable'
      BY <2>3, <3>1 DEF Grant, rows, Usable
    <3>3. sessions' = sessions \cup {Len(grants) + 1}
      BY <2>3 DEF Grant
    <3>4. grants'[Len(grants) + 1].era = era
      BY <2>3, <3>1, GrantRoots
    <3> QED
      BY <1>t, <1>2, <2>1, <3>2, <3>3, <3>4 DEF SessionsAreCurrent, PairsStay
  <2> QED
    BY <1>2, <2>2, <2>3
<1>4. CASE Revoking # {}
  <2>1. r \in Revoking
    BY <1>t, <1>4 DEF Revoking
  <2>2. Purge(r)
    BY <1>t, <2>1, Sources DEF Revoking
  <2>3. sessions' = {}
    BY <2>2 DEF Purge, Current, IssueInv
  <2> QED
    BY <2>3 DEF SessionsAreCurrent
<1> QED
  BY <1>3, <1>4

LEMMA CurrentStep ==
    ASSUME IInv, RootsBefore, CurrentInv, [HistoryNext]_<<vars, apart, single>>
    PROVE  CurrentInv'
<1>1. CASE UNCHANGED <<vars, apart, single>>
  BY <1>1 DEF CurrentInv, IssuedApart, Issuing, Revoking, SessionsAreCurrent,
        Usable, IssueInv, RowThere, At, vars, rows, keys
<1>2. ASSUME HistoryNext, apart', faults' = 0 PROVE CurrentInv'
  <2>1. Next /\ apart /\ IssuedApart'
    BY <1>2 DEF HistoryNext
  <2>2. faults = 0
    BY <1>2, <2>1 DEF Next, Abort, IInv, TypeOK
  <2>3. Current
    BY <2>1, <2>2 DEF CurrentInv, Current
  <2>4. CASE AtOnce
    <3>1. UNCHANGED <<keys, req>> /\ (RowKept \/ RowMade)
      BY <2>4, AtOnceMoves
    <3>2. Revoking' = Revoking /\ PairsStay
      BY <3>1 DEF Revoking, PairsStay, keys
    <3>3. SessionsAreCurrent => SessionsAreCurrent'
      BY <3>1 DEF SessionsAreCurrent, Usable, RowKept, RowMade, keys
    <3>4. \A q \in Requests : IssueInv(q)'
      BY <2>1, <2>3, <3>1, <3>2, OthersStayCurrent DEF keys
    <3> QED
      BY <2>1, <2>3, <3>2, <3>3, <3>4 DEF CurrentInv, Current
  <2>5. ASSUME NEW r \in Requests, Start(r) \/ Step(r) PROVE CurrentInv'
    <3>1. req' = [req EXCEPT ![r] = req'[r]] /\ req \in [Requests -> Request]
      BY <2>5, OwnRecord DEF IInv, TypeOK
    <3>2. RowKept \/ RowMade \/ Revoking' # {}
      BY <2>5, RowMoves
    <3>3. PairsStay /\ (sessions' \subseteq sessions \/ Issuing # {})
      BY <2>5, KeyMoves DEF KeysOnlyGo, Grant, At, Issuing
    <3>4. ASSUME NEW q \in Requests PROVE IssueInv(q)'
      <4>1. CASE q = r
        BY <2>1, <2>3, <2>5, <4>1, OwnStaysCurrent
      <4>2. CASE q # r
        BY <2>1, <2>3, <3>1, <3>2, <3>3, <4>2, OthersStayCurrent
      <4> QED
        BY <4>1, <4>2
    <3>5. Revoking' = {} => SessionsAreCurrent'
      BY <2>3, <2>5, RevokedIsCurrent
    <3> QED
      BY <2>1, <3>4, <3>5 DEF CurrentInv
  <2>6. ASSUME NEW r \in Requests, Abort(r) PROVE FALSE
    BY <1>2, <2>2, <2>6 DEF Abort
  <2> QED
    BY <2>1, <2>4, <2>5, <2>6 DEF Next
<1>3. CASE HistoryNext /\ ~(apart' /\ faults' = 0)
  BY <1>3 DEF CurrentInv
<1> QED
  BY <1>1, <1>2, <1>3

-----------------------------------------------------------------------------
(* Rotation leaves one pair of a login.                                    *)

\* A new pair belongs to no login that another request refreshes, nor to one
\* that has a live pair.
LEMMA GrantIsAlone ==
    ASSUME IInv, RootsBefore, RotationInv, single, NEW r \in Requests, Grant(r)
    PROVE  LET pair == Len(grants) + 1 IN
           /\ \A p \in sessions : Root(p) # grants'[pair].root
           /\ \A q \in Refreshing \ {r} : Root(req[q].token) # grants'[pair].root
<1> DEFINE pair == Len(grants) + 1
<1>1. grants'[pair].root =
        IF req[r].token = 0 THEN pair ELSE Root(req[r].token)
  BY GrantRoots DEF Root
<1>2. \A p \in DOMAIN grants : Root(p) # pair
  <2>1. Len(grants) \in Nat /\ DOMAIN grants = 1..Len(grants)
    BY DEF IInv, TypeOK
  <2>2. \A p \in DOMAIN grants : Root(p) \in 1..p
    BY DEF RootsBefore
  <2> QED
    BY <2>1, <2>2
<1>3. sessions \subseteq DOMAIN grants
  BY DEF IInv, TypeOK
<1>4. \A q \in Refreshing : req[q].token \in DOMAIN grants
  BY DEF IInv, RequestInv, Refreshing, At
<1>5. CASE req[r].token = 0
  BY <1>1, <1>2, <1>3, <1>4, <1>5
<1>6. CASE req[r].token # 0
  <2>1. r \in Refreshing /\ At(r, "grant")
    BY <1>6 DEF Grant, Refreshing, At
  <2>2. RefreshInv(r) /\ RefreshedOnce
    BY <2>1 DEF RotationInv
  <2> QED
    BY <1>1, <1>6, <2>1, <2>2 DEF RefreshInv, RefreshedOnce
<1> QED
  BY <1>5, <1>6

\* The pair a refresh was given stays the only one of its login while the
\* refresh goes on, and it is gone when the next one is to be issued.
LEMMA OwnRefresh ==
    ASSUME IInv, FreshLogins, NEW r \in Requests, Start(r) \/ Step(r), KeysOnlyGo,
           \A p, q \in sessions : Root(p) = Root(q) => p = q,
           r \in Refreshing => RefreshInv(r), r \in Refreshing'
    PROVE  RefreshInv(r)'
<1>1. /\ req'[r].token # 0 /\ req'[r].at \in {"account", "retire", "grant"}
      /\ UNCHANGED grants /\ sessions' \subseteq sessions
  BY DEF Refreshing, KeysOnlyGo
<1>2. \/ req'[r].at = "account" /\ req'[r].token \in sessions
      \/ GoesOn(r, "account", "retire")
      \/ GoesOn(r, "retire", "grant") /\ sessions' = sessions \ {req[r].token}
  <2>1. req[r].at \in {"clear", "link"} => req[r].token = 0
    BY DEF FreshLogins
  <2> QED
    BY <1>1, <2>1, OwnMoves DEF Moves, GoesOn, At, Plain, Operations
<1>3. CASE req'[r].at = "account" /\ req'[r].token \in sessions
  BY <1>1, <1>3 DEF RefreshInv, Root, At
<1>4. CASE GoesOn(r, "account", "retire")
  <2>1. RefreshInv(r)
    BY <1>1, <1>4 DEF GoesOn, Refreshing, At
  <2> QED
    BY <1>1, <1>4, <2>1 DEF GoesOn, RefreshInv, Root, At
<1>5. CASE GoesOn(r, "retire", "grant") /\ sessions' = sessions \ {req[r].token}
  <2>1. RefreshInv(r)
    BY <1>1, <1>5 DEF GoesOn, Refreshing, At
  <2> QED
    BY <1>1, <1>5, <2>1 DEF GoesOn, RefreshInv, Root, At
<1> QED
  BY <1>2, <1>3, <1>4, <1>5

LEMMA RotationStep ==
    ASSUME IInv, RootsBefore, FreshLogins, RotationInv,
           [HistoryNext]_<<vars, apart, single>>
    PROVE  RotationInv'
<1> DEFINE OnePair == \A p, q \in sessions : Root(p) = Root(q) => p = q
<1>0. ASSUME UNCHANGED <<grants, req, single>>, sessions' \subseteq sessions
      PROVE  RotationInv'
  BY <1>0 DEF RotationInv, RefreshedOnce, Refreshing, RefreshInv, Root, At
<1>1. CASE UNCHANGED <<vars, apart, single>>
  BY <1>0, <1>1 DEF vars, keys
<1>2. ASSUME HistoryNext, single' PROVE RotationInv'
  <2>1. Next /\ single /\ RefreshedOnce'
    BY <1>2 DEF HistoryNext
  <2>2. OnePair /\ \A r \in Refreshing : RefreshInv(r)
    BY <2>1 DEF RotationInv
  <2>t. /\ req \in [Requests -> Request] /\ sessions \subseteq DOMAIN grants
        /\ \A r \in Refreshing : req[r].token \in DOMAIN grants
    BY DEF IInv, TypeOK, RequestInv, Refreshing, At
  <2>3. CASE AtOnce
    BY <1>0, <1>2, <2>1, <2>3, AtOnceMoves DEF keys
  <2>4. ASSUME NEW r \in Requests, KeysOnlyGo,
               \A q \in Requests \ {r} : req'[q] = req[q],
               r \in Refreshing' => RefreshInv(r)'
        PROVE  RotationInv'
    <3>1. OnePair'
      BY <2>2, <2>4 DEF KeysOnlyGo, Root
    <3>2. ASSUME NEW q \in Refreshing', q # r PROVE RefreshInv(q)'
      <4>1. q \in Refreshing /\ req'[q] = req[q]
        BY <2>4, <3>2 DEF Refreshing
      <4> QED
        BY <2>2, <2>4, <4>1 DEF RefreshInv, KeysOnlyGo, Root, At
    <3> QED
      BY <2>1, <2>4, <3>1, <3>2 DEF RotationInv
  <2>5. ASSUME NEW r \in Requests, Abort(r) PROVE RotationInv'
    <3>1. KeysOnlyGo
      BY <2>5 DEF Abort, keys, KeysOnlyGo
    <3>2. r \notin Refreshing' /\ \A q \in Requests \ {r} : req'[q] = req[q]
      BY <2>t, <2>5 DEF Abort, Finish, Idle, Refreshing
    <3> QED
      BY <2>4, <3>1, <3>2
  <2>6. ASSUME NEW r \in Requests, Start(r) \/ Step(r) PROVE RotationInv'
    <3>1. \A q \in Requests \ {r} : req'[q] = req[q]
      BY <2>t, <2>6, OwnRecord
    <3>2. PairsStay /\ (KeysOnlyGo \/ Grant(r))
      BY <2>6, KeyMoves
    <3>3. CASE KeysOnlyGo
      <4>1. ASSUME r \in Refreshing' PROVE RefreshInv(r)'
        BY <2>2, <2>6, <3>3, <4>1, OwnRefresh
      <4> QED
        BY <2>4, <3>1, <3>3, <4>1
    <3>4. CASE Grant(r)
      <4> DEFINE pair == Len(grants) + 1
      <4>1. /\ \A p \in sessions : Root(p) # grants'[pair].root
            /\ \A q \in Refreshing \ {r} : Root(req[q].token) # grants'[pair].root
        BY <2>1, <3>4, GrantIsAlone
      <4>2. sessions' = sessions \cup {pair} /\ r \notin Refreshing'
        BY <2>t, <3>4 DEF Grant, Finish, Idle, Refreshing
      <4> HIDE DEF pair
      <4>3. OnePair'
        BY <2>2, <2>t, <3>2, <4>1, <4>2 DEF Root, PairsStay
      <4>4. ASSUME NEW q \in Refreshing' PROVE RefreshInv(q)'
        <5>1. q # r /\ q \in Refreshing /\ req'[q] = req[q]
          BY <3>1, <4>2, <4>4 DEF Refreshing
        <5>2. RefreshInv(q) /\ req[q].token \in DOMAIN grants
          BY <2>2, <2>t, <5>1
        <5> QED
          BY <2>t, <3>2, <4>1, <4>2, <5>1, <5>2 DEF RefreshInv, Root, PairsStay, At
      <4> QED
        BY <2>1, <4>3, <4>4 DEF RotationInv
    <3> QED
      BY <3>2, <3>3, <3>4
  <2> QED
    BY <2>1, <2>3, <2>5, <2>6 DEF Next
<1>3. CASE HistoryNext /\ ~single'
  BY <1>3 DEF RotationInv
<1> QED
  BY <1>1, <1>2, <1>3

-----------------------------------------------------------------------------
(* The theorems with the history.                                          *)

LEMMA HistoryStep ==
    IInv /\ HistoryInv /\ [HistoryNext]_<<vars, apart, single>> => IInv' /\ HistoryInv'
<1> SUFFICES ASSUME IInv, HistoryInv, [HistoryNext]_<<vars, apart, single>>
             PROVE  IInv' /\ HistoryInv'
  OBVIOUS
<1>1. [Next]_vars
  BY DEF HistoryNext
<1> QED
  BY <1>1, InvStep, RootsStep, FreshStep, CurrentStep, RotationStep DEF HistoryInv

\* What a request that issues or revokes pairs relies on holds in every
\* reachable state, together with the invariant of the account.
THEOREM HistoryInvariant == HistorySpec => [](IInv /\ HistoryInv)
<1>1. HistoryInit => IInv /\ HistoryInv
  <2> SUFFICES ASSUME HistoryInit PROVE IInv /\ HistoryInv
    OBVIOUS
  <2>1. /\ IInv /\ sessions = {} /\ grants = << >>
        /\ \A r \in Requests : req[r] = Idle
    BY InvInit DEF HistoryInit, Init
  <2>2. \A r \in Requests : req[r].at = "idle"
    BY <2>1 DEF Idle
  <2>3. Issuing = {} /\ Revoking = {} /\ Refreshing = {}
    BY <2>2 DEF Issuing, Revoking, Refreshing
  <2> QED
    BY <2>1, <2>2, <2>3 DEF HistoryInv, RootsBefore, FreshLogins, CurrentInv,
       IssuedApart, SessionsAreCurrent, IssueInv, At, RotationInv, RefreshedOnce
<1> QED
  BY <1>1, HistoryStep, PTL DEF HistorySpec

\* When every revocation is over, a change or a reset of the password, or a
\* deletion and a new sign-up, has left no session that goes back to an earlier
\* password, through however many refreshes it was handed on and whatever else
\* was being served; the one thing that must not happen is a pair being issued
\* while the sessions are being revoked.
THEOREM PasswordEndsSessions == HistorySpec => []SessionsFollowPassword
<1>1. HistoryInv => SessionsFollowPassword
  BY DEF HistoryInv, CurrentInv, SessionsFollowPassword, Revoked, SessionsAreCurrent
<1> QED
  BY <1>1, HistoryInvariant, PTL

\* Under the same condition only an active and verified account has sessions.
THEOREM DeletionEndsSessions == HistorySpec => []SessionsNeedAccount
<1>1. HistoryInv => SessionsNeedAccount
  BY DEF HistoryInv, CurrentInv, SessionsNeedAccount, Revoked, SessionsAreCurrent,
         Usable
<1> QED
  BY <1>1, HistoryInvariant, PTL

\* Refreshes hand a login on from pair to pair and never leave two of its pairs
\* live, wherever they fail and whatever overlaps, but for two refreshes of the
\* same login.
THEOREM RotationKeepsOne == HistorySpec => []OnePairPerLogin
<1>1. HistoryInv => OnePairPerLogin
  BY DEF HistoryInv, RotationInv, OnePairPerLogin
<1> QED
  BY <1>1, HistoryInvariant, PTL
=============================================================================
