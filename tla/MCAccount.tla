----------------------------- MODULE MCAccount -----------------------------
(* Instances of Account for TLC.                                           *)
EXTENDS AccountHistory, TLC

CONSTANTS r1, r2

\* Bound: after a request has failed half way the others are served one by one.
OverlapOrFault == faults = 0 \/ Cardinality(Busy) <= 1

\* Requests that may issue a pair, or have been given one that is not live.
Pending == {r \in Requests :
    \/ req[r].at \in {"lookup", "failed", "lock", "unfail", "clear", "grant",
                      "account", "retire", "oauth", "link"}
    \/ At(r, "scan") /\ req[r].op = "none" /\ req[r].token # 0}

\* Bound: a third pair is reached by refreshes of the first account, with
\* nothing else in hand or left behind.
ThirdPairByRefresh ==
    Len(grants) + Cardinality(Pending) >= 3 =>
        /\ \A r \in Busy : req[r].token # 0 /\
              req[r].at \in {"account", "retire", "grant", "scan", "purge"}
        /\ era = 1 /\ links <= 1 /\ faults = 0
        /\ attempts = 0 /\ ~locked /\ blacklist = {} /\ ~rtoken /\ ~hosts

\* Bound: failed logins come before a second pair, a reset, a logout, a
\* deletion that is over or a room.
LockoutFirst ==
    attempts > 0 \/ locked =>
        Len(grants) <= 1 /\ blacklist = {} /\ ~rtoken /\ ~hosts

RequestSymmetry == Permutations(Requests)

\* What no step and no property looks at any more does not tell states apart:
\* passwords once the session properties are void, logins once two refreshes
\* have overlapped, both of pairs that are neither live nor being refreshed,
\* and what a request has loaded and will not use again.
Judged == apart /\ faults = 0
InUse == sessions \cup {req[r].token : r \in Refreshing}
PairsInUse == [pair \in DOMAIN grants |->
    IF pair \notin InUse THEN <<0, 0>>
    ELSE <<IF Judged THEN grants[pair].era ELSE 0, IF single THEN Root(pair) ELSE 0>>]
Remembered(q) ==
    [q EXCEPT !.era = IF Judged THEN @ ELSE 0,
              !.found = IF q.at = "purge" THEN @ ELSE {},
              !.seen = IF q.at \in {"scan", "purge", "blacklist", "drop", "grant"}
                         THEN NoUser ELSE @]
View == <<rows, sessions, blacklist, lockout, faults, Judged, single, PairsInUse,
          [r \in Requests |-> Remembered(req[r])]>>
=============================================================================
