----------------------------- MODULE OrderedLog -----------------------------
(* What a consumer group promises the producers of a topic: messages are    *)
(* settled in the order of the log, possibly more than once, and the group  *)
(* never forgets how far it is nor claims to be farther than it is.         *)
EXTENDS Naturals

CONSTANT LastOffset

VARIABLES
    done,   \* the messages settled
    mark    \* the offset up to which the group has declared itself done

Offsets == 1..LastOffset

Init == done = {} /\ mark = 0

\* The next message, or once more one of those before it.
Settle(o) ==
    /\ \A p \in Offsets : p < o => p \in done
    /\ done' = done \cup {o}
    /\ UNCHANGED mark

Advance(m) ==
    /\ mark <= m
    /\ \A o \in Offsets : o <= m => o \in done
    /\ mark' = m
    /\ UNCHANGED done

Next == \E o \in Offsets : Settle(o) \/ Advance(o)

Spec == Init /\ [][Next]_<<done, mark>>
=============================================================================
