---------------------------- MODULE MeetingRoom ----------------------------
(***************************************************************************)
(* One meeting room as the REST handlers of app/modules/meeting keep it:   *)
(* the row of table rooms and the rows of table participants in the        *)
(* database, the hashes room:{code}:participants and room:{code}:lobby in  *)
(* Redis, and the requests that are being served.                          *)
(*                                                                         *)
(* A handler is an `async def` whose database calls are synchronous, so    *)
(* what it does between two awaits is one uninterrupted piece of its       *)
(* worker's event loop; several workers (uvicorn --workers 4) share the    *)
(* stores.  Every access to a store that another request can see is an     *)
(* action.  A request that stands between two database calls of the same   *)
(* piece holds its worker (HoldsLoop), so another request of that worker   *)
(* makes no database call; requests of other workers do.  A Redis command  *)
(* is executed by Redis while its request awaits and needs no worker.      *)
(*                                                                         *)
(* Rejected requests (404, 403, 400) that changed nothing are the guards   *)
(* of the first action of their operation.                                 *)
(***************************************************************************)
EXTENDS Naturals, FiniteSets

CONSTANTS
    Host,        \* the user rooms.host_id names
    Users,       \* the other authenticated users
    Guests,      \* guest session ids
    Requests,    \* the requests that can be served at one time
    Workers,     \* worker processes
    WorkerOf,    \* the worker that serves a request
    Caps,        \* values of settings.max_participants
    Unset,       \* a field that a RoomConfigUpdate leaves out
    Operations,  \* the operations clients call (all of AllOperations, or fewer)
    Faults       \* TRUE when a store may fail under a request or a worker die

AllOperations == {"join", "leave", "admit", "end", "config"}
People == {Host} \cup Users \cup Guests

ASSUME RoomAssumption ==
    /\ Host \notin Users \cup Guests
    /\ Users \cap Guests = {}
    /\ WorkerOf \in [Requests -> Workers]
    /\ Caps \subseteq Nat \ {0} /\ Caps # {}   \* RoomSettings: ge=2
    /\ Unset \notin Caps /\ Unset \notin BOOLEAN
    /\ Operations \subseteq AllOperations
    /\ Faults \in BOOLEAN

VARIABLES
    room,       \* rooms: status and settings
    row,        \* participants: "none", "in" (left_at NULL) or "left"
    live,       \* room:{code}:participants: the role a person is present with
    lobby,      \* room:{code}:lobby: the people who wait
    req,        \* the requests being served, with what they have read so far
    admitted,   \* history: everyone a host has moved out of the lobby
    announced,  \* history: meeting_ended has been published
    orderly     \* history: the requests were served one after the other, and
                \* none has failed half way

vars == <<room, row, live, lobby, req, admitted, announced, orderly>>

-----------------------------------------------------------------------------
(* Types.                                                                  *)

Statuses == {"pending", "active", "ended"}
RoomRecord == [status: Statuses, cap: Caps, lock: BOOLEAN]
RowStates == {"none", "in", "left"}
Presence == {"absent", "host", "guest"}
Patches == [cap: Caps \cup {Unset}, lock: BOOLEAN \cup {Unset}]
NoPatch == [cap |-> Unset, lock |-> Unset]

\* Where a request stands: the store access it makes next.
Places == {"idle", "activate", "identify", "check", "knock", "insert", "enter",
           "unlobby", "checkout", "move", "announce", "close", "closeRows",
           "wipe", "patch"}

\* `seen` is the rooms row the handler's session has loaded, `ptc` the
\* participants row.
RequestRecord == [at: Places, who: People, seen: RoomRecord, ptc: RowStates,
                  patch: Patches]
Blank == [status |-> "pending", cap |-> CHOOSE c \in Caps : TRUE, lock |-> FALSE]
Idle == [at |-> "idle", who |-> Host, seen |-> Blank, ptc |-> "none",
         patch |-> NoPatch]

TypeOK ==
    /\ room \in RoomRecord
    /\ row \in [People -> RowStates]
    /\ live \in [People -> Presence]
    /\ lobby \subseteq People
    /\ req \in [Requests -> RequestRecord]
    /\ admitted \subseteq People
    /\ announced \in BOOLEAN
    /\ orderly \in BOOLEAN

-----------------------------------------------------------------------------
(* Helpers.                                                                *)

Present == {p \in People : live[p] # "absent"}

\* Places between two database calls with no await in between.
HoldsLoop == {"activate", "identify", "closeRows", "patch"}

LoopFree(r) ==
    \A q \in Requests \ {r} :
        WorkerOf[q] = WorkerOf[r] => req[q].at \notin HoldsLoop

Starts(r) == req[r].at = "idle" /\ LoopFree(r)
Runs(r, place) == req[r].at = place /\ LoopFree(r)
Goto(r, place) == req' = [req EXCEPT ![r].at = place]
Finish(r) == req' = [req EXCEPT ![r] = Idle]

\* A request of person p that has read the room and goes on at `place`.
Open(r, p, place) ==
    req' = [req EXCEPT ![r] = [Idle EXCEPT !.at = place, !.who = p, !.seen = room]]

\* The commands of MeetingStateService.
AddParticipant(p, role) == live' = [live EXCEPT ![p] = role]
RemoveParticipant(p) == live' = [live EXCEPT ![p] = "absent"]
AddToLobby(p) == lobby' = lobby \cup {p}
RemoveFromLobby(p) == lobby' = lobby \ {p}
AdmitFromLobby(p) == RemoveFromLobby(p) /\ AddParticipant(p, "guest")
\* Mutant: the lobby's key is not among those deleted.
CleanupLiveOnly == live' = [p \in People |-> "absent"] /\ UNCHANGED lobby
CleanupRoom == live' = [p \in People |-> "absent"] /\ lobby' = {}

\* The statements of MeetingRepository that write participants rows.
CreateParticipant(p) == row' = [row EXCEPT ![p] = "in"]
LeaveParticipant(p) ==
    row' = [row EXCEPT ![p] = IF @ = "none" THEN "none" ELSE "left"]
BulkUpdateLeftAt ==
    row' = [p \in People |-> IF row[p] = "in" THEN "left" ELSE row[p]]

\* The state create_room leaves: a pending room and its host's participants
\* row.  The room code is random and only the response tells it, so nobody
\* calls another operation between the two commits.
Init ==
    /\ room \in [status: {"pending"}, cap: Caps, lock: BOOLEAN]
    /\ row = [p \in People |-> IF p = Host THEN "in" ELSE "none"]
    /\ live = [p \in People |-> "absent"]
    /\ lobby = {}
    /\ req = [r \in Requests |-> Idle]
    /\ admitted = {}
    /\ announced = FALSE
    /\ orderly = TRUE

-----------------------------------------------------------------------------
(* join_room.                                                              *)

\* SELECT the room and _validate_room_for_join: an ended room is a 404, a
\* pending one a 400 unless the host joins.
Join(r, p) ==
    /\ Starts(r)
    /\ room.status # "ended"
    /\ room.status = "pending" => p = Host
    /\ Open(r, p, IF room.status = "pending" THEN "activate" ELSE "identify")
    /\ UNCHANGED <<room, row, live, lobby, admitted, announced>>

\* The host's join commits status = active over whatever the row holds now
\* and refreshes its copy.
JoinActivate(r) ==
    /\ Runs(r, "activate")
    /\ room' = [room EXCEPT !.status = "active"]
    /\ req' = [req EXCEPT ![r].at = "identify", ![r].seen = room']
    /\ UNCHANGED <<row, live, lobby, admitted, announced>>

\* _resolve_identity: SELECT the participants row.  A guest without a row and
\* without a display name is a 400.
JoinIdentify(r) ==
    /\ Runs(r, "identify")
    /\ \/ req' = [req EXCEPT ![r].at = "check", ![r].ptc = row[req[r].who]]
       \/ /\ req[r].who \in Guests
          /\ row[req[r].who] = "none"
          /\ Finish(r)
    /\ UNCHANGED <<room, row, live, lobby, admitted, announced>>

\* Mutant: one participant too many.
IsFullOffByOne(r) ==
    /\ Cardinality(Present) > req[r].seen.cap
    /\ req[r].who \notin Present

\* Mutant: only a locked room makes guests wait.
RequiresLobbyIfLocked(r) ==
    req[r].ptc = "none" /\ req[r].seen.lock /\ req[r].who # Host

\* The decisions of _check_lobby_required, on the room as it was read.
IsFull(r) ==
    /\ Cardinality(Present) >= req[r].seen.cap
    /\ req[r].who \notin Present

RequiresLobby(r) ==
    /\ req[r].ptc = "none"
    /\ \/ req[r].seen.lock /\ req[r].who # Host
       \/ req[r].who \in Guests

\* Mutant: the live entry is written and the participants row is not.
JoinCheckEnters(r) ==
    /\ req[r].at = "check"
    /\ IF IsFull(r) THEN Finish(r)
       ELSE Goto(r, IF RequiresLobby(r) THEN "knock" ELSE "enter")
    /\ UNCHANGED <<room, row, live, lobby, admitted, announced>>

\* HGETALL of the live hash, then ROOM_FULL, the lobby or the room.
JoinCheck(r) ==
    /\ req[r].at = "check"
    /\ \/ IsFull(r) /\ Finish(r)
       \/ ~IsFull(r) /\ RequiresLobby(r) /\ Goto(r, "knock")
       \/ ~IsFull(r) /\ ~RequiresLobby(r) /\ Goto(r, "insert")
    /\ UNCHANGED <<room, row, live, lobby, admitted, announced>>

\* add_to_lobby; the handler answers "waiting".
JoinKnock(r) ==
    /\ req[r].at = "knock"
    /\ AddToLobby(req[r].who)
    /\ Finish(r)
    /\ UNCHANGED <<room, row, live, admitted, announced>>

\* Mutant: left_at of a returning participant is not reset.
JoinInsertKeepsLeftAt(r) ==
    /\ Runs(r, "insert")
    /\ row' = [row EXCEPT ![req[r].who] = IF @ = "none" THEN "in" ELSE @]
    /\ Goto(r, "enter")
    /\ UNCHANGED <<room, live, lobby, admitted, announced>>

\* The write of _finalize_join.  The session emits an UPDATE only when the
\* row it loaded had a left_at; an INSERT of a second row breaks the unique
\* constraint and the request fails.
JoinInsert(r) ==
    /\ Runs(r, "insert")
    /\ LET p == req[r].who IN
       \/ /\ req[r].ptc = "in"
          /\ UNCHANGED row
          /\ Goto(r, "enter")
       \/ /\ \/ req[r].ptc = "left"
             \/ req[r].ptc = "none" /\ row[p] = "none"
          /\ CreateParticipant(p)
          /\ Goto(r, "enter")
       \/ /\ req[r].ptc = "none"
          /\ row[p] # "none"
          /\ UNCHANGED row
          /\ Finish(r)
    /\ UNCHANGED <<room, live, lobby, admitted, announced>>

\* add_participant with the role the caller's identity gives.
JoinEnter(r) ==
    /\ req[r].at = "enter"
    /\ AddParticipant(req[r].who, IF req[r].who = Host THEN "host" ELSE "guest")
    /\ Finish(r)
    /\ UNCHANGED <<room, row, lobby, admitted, announced>>

-----------------------------------------------------------------------------
(* leave_room: HDEL live, HDEL lobby, left_at.                             *)

Leave(r, p) ==
    /\ req[r].at = "idle"
    /\ RemoveParticipant(p)
    /\ req' = [req EXCEPT ![r] = [Idle EXCEPT !.at = "unlobby", !.who = p]]
    /\ UNCHANGED <<room, row, lobby, admitted, announced>>

LeaveLobby(r) ==
    /\ req[r].at = "unlobby"
    /\ RemoveFromLobby(req[r].who)
    /\ Goto(r, "checkout")
    /\ UNCHANGED <<room, row, live, admitted, announced>>

LeaveCheckout(r) ==
    /\ Runs(r, "checkout")
    /\ LeaveParticipant(req[r].who)
    /\ Finish(r)
    /\ UNCHANGED <<room, live, lobby, admitted, announced>>

-----------------------------------------------------------------------------
(* admit_user: HGET of the lobby entry, then HDEL and HSET in one MULTI.   *)
(* Neither the status nor the settings of the room are looked at.          *)

Admit(r, target) ==
    /\ req[r].at = "idle"
    /\ target \in lobby
    /\ req' = [req EXCEPT ![r] = [Idle EXCEPT !.at = "move", !.who = target]]
    /\ UNCHANGED <<room, row, live, lobby, admitted, announced>>

AdmitMove(r) ==
    /\ req[r].at = "move"
    /\ AdmitFromLobby(req[r].who)
    /\ admitted' = admitted \cup {req[r].who}
    /\ Finish(r)
    /\ UNCHANGED <<room, row, announced>>

-----------------------------------------------------------------------------
(* end_room: read the room, announce, commit the status, commit left_at of *)
(* every open row, delete the Redis keys.                                  *)

\* Mutant: the sockets are not told before the room is closed.
EndSilently(r) ==
    /\ Starts(r)
    /\ Open(r, Host, "close")
    /\ UNCHANGED <<room, row, live, lobby, admitted, announced>>

End(r) ==
    /\ Starts(r)
    /\ Open(r, Host, "announce")
    /\ UNCHANGED <<room, row, live, lobby, admitted, announced>>

EndAnnounce(r) ==
    /\ req[r].at = "announce"
    /\ announced' = TRUE
    /\ Goto(r, "close")
    /\ UNCHANGED <<room, row, live, lobby, admitted>>

\* The session writes status only when the copy it read differs from ended.
EndClose(r) ==
    /\ Runs(r, "close")
    /\ room' = IF req[r].seen.status = "ended" THEN room
               ELSE [room EXCEPT !.status = "ended"]
    /\ Goto(r, "closeRows")
    /\ UNCHANGED <<row, live, lobby, admitted, announced>>

EndCloseRows(r) ==
    /\ Runs(r, "closeRows")
    /\ BulkUpdateLeftAt
    /\ Goto(r, "wipe")
    /\ UNCHANGED <<room, live, lobby, admitted, announced>>

\* cleanup_room: one DEL of all keys.
EndWipe(r) ==
    /\ req[r].at = "wipe"
    /\ CleanupRoom
    /\ Finish(r)
    /\ UNCHANGED <<room, row, admitted, announced>>

-----------------------------------------------------------------------------
(* update_config: read an active room, merge, commit.                      *)

Configure(r, patch) ==
    /\ Starts(r)
    /\ room.status = "active"
    /\ req' = [req EXCEPT ![r] = [Idle EXCEPT !.at = "patch", !.seen = room,
                                              !.patch = patch]]
    /\ UNCHANGED <<room, row, live, lobby, admitted, announced>>

Merge(settings, patch) ==
    [settings EXCEPT !.cap = IF patch.cap = Unset THEN @ ELSE patch.cap,
                     !.lock = IF patch.lock = Unset THEN @ ELSE patch.lock]

\* Mutant: the row is written whole, from the copy that was read.
ConfigWriteRow(r) ==
    /\ Runs(r, "patch")
    /\ room' = Merge(req[r].seen, req[r].patch)
    /\ Finish(r)
    /\ UNCHANGED <<row, live, lobby, admitted, announced>>

\* The settings column is written whole, from the copy that was read, unless
\* the merge left that copy unchanged.
ConfigWrite(r) ==
    /\ Runs(r, "patch")
    /\ LET merged == Merge(req[r].seen, req[r].patch)
       IN  room' = IF merged = req[r].seen THEN room
                   ELSE [merged EXCEPT !.status = room.status]
    /\ Finish(r)
    /\ UNCHANGED <<row, live, lobby, admitted, announced>>

-----------------------------------------------------------------------------
Quiet == \A r \in Requests : req[r].at = "idle"

\* A store fails under the request (500), or its worker dies: what it has
\* written stays.
Abort(r) ==
    /\ Faults
    /\ req[r].at # "idle"
    /\ Finish(r)
    /\ orderly' = FALSE
    /\ UNCHANGED <<room, row, live, lobby, admitted, announced>>

\* What a request does on its own once a client has made it.
Step(r) ==
    /\ \/ JoinActivate(r) \/ JoinIdentify(r) \/ JoinCheck(r) \/ JoinKnock(r)
       \/ JoinInsert(r) \/ JoinEnter(r)
       \/ LeaveLobby(r) \/ LeaveCheckout(r)
       \/ AdmitMove(r)
       \/ EndAnnounce(r) \/ EndClose(r) \/ EndCloseRows(r) \/ EndWipe(r)
       \/ ConfigWrite(r)
    /\ UNCHANGED orderly

\* What clients do.
Call(r) ==
    /\ \/ "join" \in Operations /\ \E p \in People : Join(r, p)
       \/ "leave" \in Operations /\ \E p \in People : Leave(r, p)
       \/ "admit" \in Operations /\ \E p \in People : Admit(r, p)
       \/ "end" \in Operations /\ End(r)
       \/ "config" \in Operations /\ \E patch \in Patches : Configure(r, patch)
    /\ orderly' = (orderly /\ Quiet)

Next == \E r \in Requests : Call(r) \/ Step(r) \/ Abort(r)

Spec == Init /\ [][Next]_vars

-----------------------------------------------------------------------------
(* Properties of every interleaving, on any number of workers.             *)

\* A guest is present only after a host let it in: no path through join_room
\* takes a guest around the lobby, whatever the settings are and whoever
\* changes them meanwhile.
GuestsNeedAdmission == \A g \in Guests : g \in Present => g \in admitted

\* Whoever is present without having been admitted has a participants row, so
\* that the count and the history of the meeting know them: the row is
\* committed before the live entry is written.
MembersHaveRows ==
    \A p \in Present : row[p] # "none" \/ p \in admitted

\* The host is never made to wait, so that admit_from_lobby, which writes role
\* "guest", never takes the host's role away.
HostNeverWaits == Host \notin lobby /\ live[Host] # "guest"

\* A room is ended only after its sockets were told, also when requests fail
\* half way (end_room announces before it clears anything).
EndedWasAnnounced == room.status = "ended" => announced

\* Only a join of the host that found the meeting pending reopens one that has
\* been ended: when none is left between that check and its commit, the meeting
\* stays ended and no such join comes, whatever requests on other workers still
\* write from the copies they have read.
Final == room.status = "ended" /\ \A r \in Requests : req[r].at # "activate"
EndedIsFinal == [][Final => Final']_vars

-----------------------------------------------------------------------------
(* The inductive invariant behind the state properties above.              *)

\* Until the host has started the meeting nobody is present, nobody waits and
\* nobody but the host has a participants row (_validate_room_for_join lets no
\* one else past a pending room, and no handler makes a room pending again).
NobodyBeforeStart ==
    room.status = "pending" =>
        /\ Present = {}
        /\ lobby = {}
        /\ \A p \in People \ {Host} : row[p] = "none"

\* No request of a pending room has got past _validate_room_for_join, and
\* every request has read it as pending.
PendingRequests ==
    room.status = "pending" => \A r \in Requests :
        /\ req[r].at \in {"idle", "activate", "unlobby", "checkout",
                          "announce", "close"}
        /\ req[r].seen.status = "pending"

\* What a request has read still holds, because rows are never deleted, and
\* the place it has reached tells who it is.
RequestInv(r) ==
    /\ req[r].ptc # "none" => row[req[r].who] # "none"
    /\ req[r].at = "enter" => row[req[r].who] # "none"
    /\ req[r].who \in Guests => req[r].at \notin {"insert", "enter"}
    /\ req[r].at \in {"knock", "move"} => req[r].who # Host
    /\ req[r].at \in {"close", "closeRows", "wipe"} => announced

\* Guests have no participants rows: the branch of _finalize_join that would
\* give them one is never reached.
GuestsHaveNoRows == \A g \in Guests : row[g] = "none"

IInv ==
    /\ TypeOK
    /\ NobodyBeforeStart
    /\ PendingRequests
    /\ GuestsHaveNoRows
    /\ GuestsNeedAdmission
    /\ MembersHaveRows
    /\ HostNeverWaits
    /\ EndedWasAnnounced
    /\ \A r \in Requests : RequestInv(r)

-----------------------------------------------------------------------------
(* Properties of requests served one after the other.                      *)

\* Between requests the participants rows say who is in: left_at is NULL for
\* everyone present who has a row, and for nobody else but the host of a
\* meeting not started.
AttendanceMatchesPresence ==
    orderly /\ Quiet => \A p \in People :
        /\ p \in Present /\ row[p] # "none" => row[p] = "in"
        /\ row[p] = "in" =>
              p \in Present \/ (p = Host /\ room.status = "pending")

\* Between requests an ended room has nothing left in Redis: nobody is present
\* and nobody waits (cleanup_room).
EndedRoomIsClean ==
    orderly /\ Quiet /\ room.status = "ended" => Present = {} /\ lobby = {}

-----------------------------------------------------------------------------
(* The inductive invariant behind them: what the one request that is being  *)
(* served has left to do.                                                  *)

\* left_at is NULL for everyone present who has a row.
RowsOfPresent == \A p \in Present : row[p] # "none" => row[p] = "in"

\* It is NULL for nobody else, but for the host of a meeting not started.
\* Missing are those whom the request in hand has yet to let in or to check
\* out, and the host while the rows of a room that was pending are closed.
PresenceOfRows ==
    \A p \in People : row[p] = "in" =>
        \/ p \in Present
        \/ p = Host /\ room.status = "pending"
        \/ \E r \in Requests : req[r].who = p /\ req[r].at \in
                {"identify", "check", "insert", "enter", "unlobby", "checkout"}
        \/ p = Host /\ \E r \in Requests : req[r].at = "closeRows"

\* Who waits has not left.
LobbyHasNotLeft == \A p \in lobby : row[p] # "left"

EndedIsClean == room.status = "ended" => Present = {} /\ lobby = {}

\* Where the request stands tells what it has found, and that this is so still.
ServedInv(r) ==
    LET p == req[r].who IN
    /\ req[r].at = "activate" => p = Host /\ room.status = "pending"
    /\ req[r].at \in {"activate", "identify", "check", "insert", "enter",
                      "announce", "close", "patch"} => req[r].seen = room
    /\ req[r].at \in {"identify", "check", "knock", "insert", "enter", "move",
                      "patch"} => room.status # "ended"
    /\ req[r].at \in {"identify", "check"} /\ row[p] = "in" =>
            p \in Present \/ Present = {}
    /\ req[r].at \in {"check", "knock", "insert"} => req[r].ptc = row[p]
    /\ req[r].at = "knock" => row[p] = "none"
    /\ req[r].at = "insert" /\ req[r].ptc = "none" => ~room.lock \/ p = Host
    /\ req[r].at = "enter" => row[p] = "in"
    /\ req[r].at \in {"insert", "enter"} =>
            p \in Present \/ Cardinality(Present) < room.cap
    /\ req[r].at \in {"unlobby", "checkout"} => p \notin Present
    /\ req[r].at = "checkout" => p \notin lobby
    /\ req[r].at = "move" => p \in lobby
    /\ req[r].at \in {"closeRows", "wipe"} => room.status = "ended"
    /\ req[r].at = "wipe" => \A q \in People : row[q] # "in"

OrderlyInv ==
    orderly =>
        /\ \A q, r \in Requests :
              req[q].at # "idle" /\ req[r].at # "idle" => q = r
        /\ PresenceOfRows
        /\ (\A r \in Requests : req[r].at # "wipe") => RowsOfPresent /\ LobbyHasNotLeft
        /\ (\A r \in Requests : req[r].at \notin {"closeRows", "wipe"}) => EndedIsClean
        /\ \A r \in Requests : ServedInv(r)

-----------------------------------------------------------------------------
(* The contract.                                                           *)

Contract == INSTANCE RoomContract WITH
    phase <- room.status,
    settings <- [cap |-> room.cap, lock |-> room.lock],
    members <- {p \in People : row[p] # "none"},
    inside <- Present,
    waiting <- lobby,
    serial <- orderly

\* Whatever the handlers of join, leave, admission, end and configuration do
\* between their awaits, a caller sees one change at one moment that the
\* contract allows: a join admits to a started room only, never beyond the
\* limit and nobody new to a locked room, people are let in who wait, an end
\* clears an ended room.
ImplementsContract == Contract!Spec

-----------------------------------------------------------------------------
(* What documents and comments of the repository say and the code does not *)
(* keep.                                                                   *)

\* A capacity or lock change keeps the fields it does not mention as they are
\* at the moment it is committed.
ConfigMerges ==
    [][\A r \in Requests :
        req[r].at = "patch" /\ req'[r].at = "idle" =>
            /\ req[r].patch.cap = Unset => room'.cap = room.cap
            /\ req[r].patch.lock = Unset => room'.lock = room.lock]_vars

\* max_participants is a limit on the participants of the room.
CapacityHolds == Cardinality(Present) <= room.cap
=============================================================================
