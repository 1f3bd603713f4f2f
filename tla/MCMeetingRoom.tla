--------------------------- MODULE MCMeetingRoom ---------------------------
(* Instances of MeetingRoom for TLC: a host, a user and a guest.           *)
EXTENDS MeetingRoom, TLC

CONSTANTS h, u, u2, g, r1, r2, w1, w2

AllOnOne == [r \in Requests |-> w1]
WorkerEach == [r \in Requests |-> IF r = r1 THEN w1 ELSE w2]

\* Two requests, each with a worker of its own, are interchangeable together
\* with their workers.
Exchange == {f \in Permutations({r1, r2, w1, w2}) : \A r \in Requests :
                f[r] \in Requests /\ f[WorkerOf[r]] = WorkerOf[f[r]]}

\* Bound: with one limit, a change that mentions it changes nothing.
LockOnly == \A r \in Requests : req[r].patch.cap = Unset

\* What a request has read and will not look at again does not tell states
\* apart, nor does the admission of someone who has a row.
LooksAt(q) ==
    CASE q.at \in {"announce", "close"} -> [status |-> q.seen.status]
      [] q.at \in {"identify", "check", "patch"} -> [cap |-> q.seen.cap, lock |-> q.seen.lock]
      [] OTHER -> Blank
Remembered(q) ==
    <<q.at, q.who, q.patch, LooksAt(q), IF q.at \in {"check", "insert"} THEN q.ptc ELSE "none">>
View == <<room, row, live, lobby, announced, orderly, {p \in admitted : row[p] = "none"},
          [r \in Requests |-> Remembered(req[r])]>>
=============================================================================
