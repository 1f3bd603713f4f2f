---------------------------- MODULE MCSignaling ----------------------------
(* Instances of Signaling for TLC.                                        *)
EXTENDS Signaling, TLC

CONSTANTS u1, u2, s1, s2, s3, w1

ThreeSockets == {s1, s2, s3}
TwoUsers == {u1, u2}
OneWorker == {w1}

\* One user connects a second time, to the same worker.
Reconnect == s1 :> u1 @@ s2 :> u1 @@ s3 :> u2
Together == [s \in Sockets |-> w1]

\* Two of the three connect: one of each user, or both of u1, which are
\* interchangeable (s1 is the one that opens first).
TwoConnect ==
    /\ Cardinality({s \in Sockets : at[s] # "idle"}) <= 2
    /\ at[s2] # "idle" => at[s1] # "idle"
=============================================================================
