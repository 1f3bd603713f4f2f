---------------------------- MODULE RoomContract ----------------------------
(***************************************************************************)
(* What the handlers of app/modules/meeting promise of a room to those who *)
(* call them.  Each of them does what it does at one moment; most of the   *)
(* promises need that the requests are served one after the other and that *)
(* none fails (`serial`), the others do not.  MeetingRoom implements it.   *)
(***************************************************************************)
EXTENDS Naturals, FiniteSets

CONSTANTS People, Host, Guests, Caps

VARIABLES
    phase,      \* "pending", "active" or "ended"
    settings,   \* the limit and the lock
    members,    \* those on record, the host first
    inside,     \* those who are present
    waiting,    \* those who wait to be let in
    serial      \* requests have been served one after the other, none failed

vars == <<phase, settings, members, inside, waiting, serial>>

Settings == [cap: Caps, lock: BOOLEAN]

Init ==
    /\ phase = "pending"
    /\ settings \in Settings
    /\ members = {Host}
    /\ inside = {} /\ waiting = {}
    /\ serial = TRUE

\* Nobody but the host gets anywhere before the start, and, in order, nobody
\* at all after the end.
Open == phase # "pending" /\ (serial => phase = "active")

HasPlace(p) == p \in inside \/ Cardinality(inside) < settings.cap

Start ==
    /\ serial => phase = "pending"
    /\ phase' = "active"
    /\ UNCHANGED <<settings, members, inside, waiting>>

\* A locked room gets no new members, a guest never becomes one.
Enrol(p) ==
    /\ Open
    /\ p \notin members \cup Guests
    /\ serial => HasPlace(p) /\ ~settings.lock
    /\ members' = members \cup {p}
    /\ UNCHANGED <<phase, settings, inside, waiting>>

Enter(p) ==
    /\ Open
    /\ p \in members
    /\ serial => HasPlace(p)
    /\ inside' = inside \cup {p}
    /\ UNCHANGED <<phase, settings, members, waiting>>

\* Members do not wait.
Knock(p) ==
    /\ Open
    /\ p # Host
    /\ serial => p \notin members
    /\ waiting' = waiting \cup {p}
    /\ UNCHANGED <<phase, settings, members, inside>>

Admit(p) ==
    /\ Open
    /\ p # Host
    /\ serial => p \in waiting
    /\ inside' = inside \cup {p}
    /\ waiting' = waiting \ {p}
    /\ UNCHANGED <<phase, settings, members>>

Leave(p) ==
    /\ inside' = inside \ {p}
    /\ UNCHANGED <<phase, settings, members, waiting>>

Withdraw(p) ==
    /\ waiting' = waiting \ {p}
    /\ UNCHANGED <<phase, settings, members, inside>>

End ==
    /\ phase' = "ended"
    /\ UNCHANGED <<settings, members, inside, waiting>>

Clear ==
    /\ phase # "pending"
    /\ serial => phase = "ended"
    /\ inside' = {} /\ waiting' = {}
    /\ UNCHANGED <<phase, settings, members>>

Configure ==
    /\ Open
    /\ settings' \in Settings
    /\ UNCHANGED <<phase, members, inside, waiting>>

Rest == UNCHANGED <<phase, settings, members, inside, waiting>>

Next ==
    /\ serial' \in {serial, FALSE}
    /\ \/ Start \/ End \/ Clear \/ Configure \/ Rest
       \/ \E p \in People :
            Enrol(p) \/ Enter(p) \/ Knock(p) \/ Admit(p) \/ Leave(p) \/ Withdraw(p)

Spec == Init /\ [][Next]_vars
=============================================================================
