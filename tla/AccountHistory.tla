--------------------------- MODULE AccountHistory ---------------------------
(***************************************************************************)
(* Account with the history its session properties are about: which of the *)
(* overlaps have happened that the handlers do not guard against.          *)
(***************************************************************************)
EXTENDS Account

VARIABLES
    apart,     \* history: no pair was being issued while any were being revoked
    single     \* history: no two refreshes of one login have overlapped

\* Between the check that a pair may be issued and its SET.
Issuing == {r \in Requests : req[r].at \in
    {"clear", "account", "retire", "oauth", "link", "grant"}}

\* Between a change of the password or a deletion and the DEL of the sessions.
Revoking == {r \in Requests : req[r].at \in {"scan", "purge"}}

Refreshing == {r \in Requests :
    req[r].at \in {"account", "retire", "grant"} /\ req[r].token # 0}

\* The login that a pair goes back to.
Root(pair) == grants[pair].root

IssuedApart == Issuing = {} \/ Revoking = {}

RefreshedOnce ==
    \A q, r \in Refreshing : Root(req[q].token) = Root(req[r].token) => q = r

HistoryInit == Init /\ apart = TRUE /\ single = TRUE

HistoryNext ==
    /\ Next
    /\ apart' = (apart /\ IssuedApart')
    /\ single' = (single /\ RefreshedOnce')

HistorySpec == HistoryInit /\ [][HistoryNext]_<<vars, apart, single>>

-----------------------------------------------------------------------------
(* Properties of all interleavings but those overlaps.                     *)

\* When all revocations are over and none has failed.
Revoked == apart /\ faults = 0 /\ Revoking = {}

\* Changing or resetting the password ends every session that goes back to
\* another one, through any number of refreshes; so does deleting the account
\* and signing up again (revoke_all_user_tokens, token rotation).
SessionsFollowPassword ==
    Revoked => \A pair \in sessions : grants[pair].era = era

\* Only an account that is active and verified has sessions (soft and hard
\* deletion revoke them).
SessionsNeedAccount ==
    Revoked /\ sessions # {} => user.state = "active" /\ user.verified

\* A login has one live pair at most, however often it is refreshed and
\* wherever requests fail (rotation in refresh_token).
OnePairPerLogin ==
    single => \A p, q \in sessions : Root(p) = Root(q) => p = q

-----------------------------------------------------------------------------
(* The inductive invariant behind them.                                    *)

Usable == user.state = "active" /\ user.verified

SessionsAreCurrent ==
    /\ \A pair \in sessions : grants[pair].era = era
    /\ sessions # {} => Usable

\* A refresh hands on the login that its pair goes back to.
RootsBefore == \A pair \in DOMAIN grants : Root(pair) \in 1..pair

\* A login and a Google sign-in hand on no pair.
FreshLogins ==
    \A r \in Requests :
        req[r].at \in {"lookup", "clear", "oauth", "link"} => req[r].token = 0

\* What a request found when it was let through is so still, and the keys that
\* a revocation has found are all there are.
IssueInv(r) ==
    /\ At(r, "purge") => sessions \subseteq req[r].found
    /\ At(r, "account") => Usable /\ grants[req[r].token].era = era
    /\ req[r].at \in {"clear", "retire", "grant"} => Usable /\ req[r].era = era
    /\ req[r].at \in {"oauth", "link"} /\ req[r].seen.state = "active" /\ RowThere(r) =>
            user.state = "active"

CurrentInv ==
    apart /\ faults = 0 =>
        /\ IssuedApart
        /\ Revoking = {} => SessionsAreCurrent
        /\ \A r \in Requests : IssueInv(r)

\* The pair that a refresh was given is the only one of its login, until it is
\* retired.
RefreshInv(r) ==
    \A pair \in sessions : Root(pair) = Root(req[r].token) =>
        pair = req[r].token /\ ~At(r, "grant")

RotationInv ==
    single =>
        /\ RefreshedOnce
        /\ \A p, q \in sessions : Root(p) = Root(q) => p = q
        /\ \A r \in Refreshing : RefreshInv(r)

HistoryInv == RootsBefore /\ FreshLogins /\ CurrentInv /\ RotationInv
=============================================================================
