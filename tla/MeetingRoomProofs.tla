------------------------- MODULE MeetingRoomProofs -------------------------
(* Theorems about MeetingRoom, for every set of people, requests, workers  *)
(* and capacities, with and without faults.                                *)
EXTENDS MeetingRoom, FiniteSetTheorems, TLAPS

LEMMA IdleType == Idle \in RequestRecord
<1>1. Blank \in RoomRecord
  BY RoomAssumption DEF Blank, RoomRecord, Statuses
<1>2. NoPatch \in Patches
  BY DEF NoPatch, Patches
<1> QED
  BY <1>1, <1>2 DEF Idle, RequestRecord, Places, People, RowStates

\* A record that carries the merged settings is again a room.
LEMMA MergeType ==
    ASSUME NEW s \in RoomRecord, NEW patch \in Patches
    PROVE  Merge(s, patch) \in RoomRecord /\ Merge(s, patch).status = s.status
BY RoomAssumption DEF Merge, RoomRecord, Patches

\* A step of one request leaves the records of the others alone.
LEMMA OwnRecord ==
    ASSUME req \in [Requests -> RequestRecord], NEW r \in Requests,
           Call(r) \/ Step(r) \/ Abort(r), NEW q \in Requests \ {r}
    PROVE  req'[q] = req[q]
<1> USE DEF Goto, Finish
<1>1. CASE Call(r)
  BY <1>1 DEF Call, Join, Open, Leave, Admit, End, Configure
<1>2. CASE Step(r)
  BY <1>2 DEF Step, JoinActivate, JoinIdentify, JoinCheck, JoinKnock, JoinInsert,
              JoinEnter, LeaveLobby, LeaveCheckout, AdmitMove, EndAnnounce,
              EndClose, EndCloseRows, EndWipe, ConfigWrite
<1>3. CASE Abort(r)
  BY <1>3 DEF Abort
<1> QED
  BY <1>1, <1>2, <1>3

LEMMA TypeStep == TypeOK /\ [Next]_vars => TypeOK'
<1> SUFFICES ASSUME TypeOK, [Next]_vars PROVE TypeOK'
  OBVIOUS
<1> USE DEF TypeOK, AddParticipant, RemoveParticipant, AddToLobby, RemoveFromLobby,
            AdmitFromLobby, CleanupRoom, CreateParticipant, LeaveParticipant,
            BulkUpdateLeftAt
<1>1. CASE UNCHANGED vars
  BY <1>1 DEF vars
<1>2. ASSUME NEW r \in Requests, Call(r) PROVE TypeOK'
  <2>0. orderly' \in BOOLEAN
    BY <1>2 DEF Call
  <2> USE <2>0, IdleType DEF RequestRecord, Places
  <2>1. ASSUME NEW p \in People, Join(r, p) PROVE TypeOK'
    BY <2>1 DEF Join, Open
  <2>2. ASSUME NEW p \in People, Leave(r, p) PROVE TypeOK'
    BY <2>2 DEF Leave, Presence
  <2>3. ASSUME NEW p \in People, Admit(r, p) PROVE TypeOK'
    BY <2>3 DEF Admit
  <2>4. ASSUME End(r) PROVE TypeOK'
    BY <2>4 DEF End, Open, People
  <2>5. ASSUME NEW patch \in Patches, Configure(r, patch) PROVE TypeOK'
    BY <2>5 DEF Configure
  <2> QED
    BY <1>2, <2>1, <2>2, <2>3, <2>4, <2>5 DEF Call
<1>3. ASSUME NEW r \in Requests, Step(r) PROVE TypeOK'
  <2>0. orderly' \in BOOLEAN
    BY <1>3 DEF Step
  <2> USE <2>0, IdleType DEF Goto, Finish
  <2>1. CASE JoinActivate(r)
    <3>1. room' \in RoomRecord
      BY <2>1 DEF JoinActivate, RoomRecord, Statuses
    <3> QED
      BY <2>1, <3>1 DEF JoinActivate, RequestRecord, Places
  <2>2. CASE JoinIdentify(r)
    <3>1. CASE Finish(r)
      BY <2>2, <3>1 DEF JoinIdentify
    <3>2. CASE req' = [req EXCEPT ![r].at = "check", ![r].ptc = row[req[r].who]]
      <4>1. row[req[r].who] \in RowStates
        BY DEF RequestRecord
      <4>2. req' \in [Requests -> RequestRecord]
        BY <3>2, <4>1 DEF RequestRecord, Places
      <4> QED
        BY <2>2, <4>2 DEF JoinIdentify
    <3> QED
      BY <2>2, <3>1, <3>2 DEF JoinIdentify
  <2>3. CASE JoinCheck(r)
    BY <2>3 DEF JoinCheck, RequestRecord, Places
  <2>4. CASE JoinKnock(r)
    BY <2>4 DEF JoinKnock, RequestRecord
  <2>5. CASE JoinInsert(r)
    BY <2>5 DEF JoinInsert, RequestRecord, Places, RowStates
  <2>6. CASE JoinEnter(r)
    BY <2>6 DEF JoinEnter, RequestRecord, Presence
  <2>7. CASE LeaveLobby(r)
    BY <2>7 DEF LeaveLobby, RequestRecord, Places
  <2>8. CASE LeaveCheckout(r)
    BY <2>8 DEF LeaveCheckout, RequestRecord, RowStates
  <2>9. CASE AdmitMove(r)
    BY <2>9 DEF AdmitMove, RequestRecord, Presence
  <2>10. CASE EndAnnounce(r)
    BY <2>10 DEF EndAnnounce, RequestRecord, Places
  <2>11. CASE EndClose(r)
    BY <2>11 DEF EndClose, RequestRecord, Places, RoomRecord, Statuses
  <2>12. CASE EndCloseRows(r)
    BY <2>12 DEF EndCloseRows, RequestRecord, Places, RowStates
  <2>13. CASE EndWipe(r)
    BY <2>13 DEF EndWipe, Presence
  <2>14. CASE ConfigWrite(r)
    <3>1. Merge(req[r].seen, req[r].patch) \in RoomRecord
      BY MergeType DEF RequestRecord
    <3>2. room' \in RoomRecord
      BY <2>14, <3>1 DEF ConfigWrite, RoomRecord
    <3> QED
      BY <2>14, <3>2 DEF ConfigWrite
  <2> QED
    BY <1>3, <2>1, <2>2, <2>3, <2>4, <2>5, <2>6, <2>7, <2>8, <2>9, <2>10,
       <2>11, <2>12, <2>13, <2>14 DEF Step
<1>4. ASSUME NEW r \in Requests, Abort(r) PROVE TypeOK'
  BY <1>4, IdleType DEF Abort, Finish
<1> QED
  BY <1>1, <1>2, <1>3, <1>4 DEF Next

-----------------------------------------------------------------------------
(* The inductive invariant.                                                *)

LEMMA InvInit == Init => IInv
<1> SUFFICES ASSUME Init PROVE IInv
  OBVIOUS
<1>1. TypeOK
  BY IdleType DEF Init, TypeOK, RoomRecord, Statuses, RowStates, Presence
<1>2. Present = {}
  BY DEF Init, Present
<1>3. NobodyBeforeStart /\ GuestsNeedAdmission /\ MembersHaveRows
  BY <1>2, RoomAssumption
     DEF Init, NobodyBeforeStart, GuestsNeedAdmission, MembersHaveRows
<1>4. GuestsHaveNoRows /\ HostNeverWaits /\ EndedWasAnnounced
  <2>1. room.status = "pending"
    BY DEF Init
  <2> QED
    BY <2>1, RoomAssumption
       DEF Init, GuestsHaveNoRows, HostNeverWaits, EndedWasAnnounced, People
<1>5. PendingRequests /\ \A r \in Requests : RequestInv(r)
  BY RoomAssumption DEF Init, PendingRequests, RequestInv, Idle, Blank
<1> QED
  BY <1>1, <1>3, <1>4, <1>5 DEF IInv

LEMMA InvStep == IInv /\ [Next]_vars => IInv'
<1> SUFFICES ASSUME IInv, [Next]_vars PROVE IInv'
  OBVIOUS
<1> USE RoomAssumption
<1>t. TypeOK /\ TypeOK'
  BY TypeStep DEF IInv
<1> USE <1>t DEF IInv, NobodyBeforeStart, PendingRequests, GuestsHaveNoRows,
        GuestsNeedAdmission, MembersHaveRows, HostNeverWaits, EndedWasAnnounced,
        RequestInv, Present, People, AddParticipant, RemoveParticipant, AddToLobby, RemoveFromLobby,
        AdmitFromLobby, CleanupRoom, CreateParticipant, LeaveParticipant,
        BulkUpdateLeftAt
<1>1. CASE UNCHANGED vars
  BY <1>1 DEF vars
<1>2. ASSUME NEW r \in Requests, Call(r) PROVE IInv'
  <2>1. ASSUME NEW p \in People, Join(r, p) PROVE IInv'
    BY <2>1 DEF TypeOK, RequestRecord, Join, Starts, Open, Idle, Blank
  <2>2. ASSUME NEW p \in People, Leave(r, p) PROVE IInv'
    BY <2>2 DEF TypeOK, RequestRecord, Leave, Idle, Blank
  <2>3. ASSUME NEW p \in People, Admit(r, p) PROVE IInv'
    BY <2>3 DEF TypeOK, RequestRecord, Admit, Idle, Blank
  <2>4. ASSUME End(r) PROVE IInv'
    BY <2>4 DEF TypeOK, RequestRecord, End, Starts, Open, Idle, Blank
  <2>5. ASSUME NEW patch \in Patches, Configure(r, patch) PROVE IInv'
    BY <2>5 DEF TypeOK, RequestRecord, Configure, Starts, Idle, Blank
  <2> QED
    BY <1>2, <2>1, <2>2, <2>3, <2>4, <2>5 DEF Call
<1>3. ASSUME NEW r \in Requests, Step(r) PROVE IInv'
  <2>1. CASE JoinActivate(r)
    BY <2>1 DEF TypeOK, RequestRecord, JoinActivate, Runs
  <2>2. CASE JoinIdentify(r)
    <3>1. CASE req' = [req EXCEPT ![r].at = "check", ![r].ptc = row[req[r].who]]
      <4>1. row[req[r].who] \in RowStates
        BY DEF TypeOK, RequestRecord
      <4>2. req' \in [Requests -> RequestRecord]
        <5> DEFINE found == row[req[r].who]
        <5>1. req' = [req EXCEPT ![r].at = "check", ![r].ptc = found]
          BY <3>1
        <5> HIDE DEF found
        <5> QED
          BY <4>1, <5>1 DEF TypeOK, RequestRecord, Places, found
      <4> QED
        BY <2>2, <3>1, <4>1, <4>2 DEF TypeOK, JoinIdentify, Runs
    <3>2. CASE Finish(r)
      BY <2>2, <3>2 DEF TypeOK, RequestRecord, JoinIdentify, Finish, Idle, Blank
    <3> QED
      BY <2>2, <3>1, <3>2 DEF JoinIdentify
  <2>3. CASE JoinCheck(r)
    <3>1. CASE Finish(r)
      BY <2>3, <3>1 DEF TypeOK, RequestRecord, JoinCheck, Finish, Idle, Blank
    <3>2. CASE RequiresLobby(r) /\ Goto(r, "knock")
      BY <2>3, <3>2 DEF TypeOK, RequestRecord, JoinCheck, Goto, RequiresLobby
    <3>3. CASE ~RequiresLobby(r) /\ Goto(r, "insert")
      BY <2>3, <3>3 DEF TypeOK, RequestRecord, JoinCheck, Goto, RequiresLobby
    <3> QED
      BY <2>3, <3>1, <3>2, <3>3 DEF JoinCheck
  <2>4. CASE JoinKnock(r)
    BY <2>4 DEF TypeOK, RequestRecord, JoinKnock, Finish, Idle, Blank
  <2>5. CASE JoinInsert(r)
    <3>1. CASE req[r].ptc = "in" /\ UNCHANGED row /\ Goto(r, "enter")
      BY <2>5, <3>1 DEF TypeOK, RequestRecord, JoinInsert, Runs, Goto
    <3>2. CASE CreateParticipant(req[r].who) /\ Goto(r, "enter")
      <4>1. req[r].at = "insert" /\ req[r].who \in People \ Guests
        BY <2>5 DEF TypeOK, RequestRecord, JoinInsert, Runs
      <4>2. \A p \in People : row[p] # "none" => row'[p] # "none"
        BY <3>2 DEF TypeOK
      <4>3. /\ row'[req[r].who] # "none"
            /\ \A g \in Guests : row'[g] = row[g]
        BY <3>2, <4>1 DEF TypeOK
      <4>4. room.status # "pending"
        BY <4>1
      <4>5. \A q \in Requests : RequestInv(q)'
        BY <3>2, <4>1, <4>2, <4>3, <2>5 DEF TypeOK, RequestRecord, JoinInsert, Goto
      <4> QED
        BY <2>5, <3>2, <4>2, <4>3, <4>4, <4>5 DEF JoinInsert
    <3>3. CASE UNCHANGED row /\ Finish(r)
      BY <2>5, <3>3 DEF TypeOK, RequestRecord, JoinInsert, Finish, Idle, Blank
    <3> QED
      BY <2>5, <3>1, <3>2, <3>3 DEF JoinInsert
  <2>6. CASE JoinEnter(r)
    BY SMTT(30), <2>6 DEF TypeOK, RequestRecord, JoinEnter, Finish, Idle, Blank
  <2>7. CASE LeaveLobby(r)
    BY <2>7 DEF TypeOK, RequestRecord, LeaveLobby, Goto
  <2>8. CASE LeaveCheckout(r)
    BY <2>8 DEF TypeOK, RequestRecord, LeaveCheckout, Runs, Finish, Idle, Blank
  <2>9. CASE AdmitMove(r)
    BY <2>9 DEF TypeOK, RequestRecord, AdmitMove, Finish, Idle, Blank
  <2>10. CASE EndAnnounce(r)
    BY <2>10 DEF TypeOK, RequestRecord, EndAnnounce, Goto
  <2>11. CASE EndClose(r)
    BY <2>11 DEF TypeOK, RequestRecord, EndClose, Runs, Goto
  <2>12. CASE EndCloseRows(r)
    BY <2>12 DEF TypeOK, RequestRecord, EndCloseRows, Runs, Goto
  <2>13. CASE EndWipe(r)
    BY <2>13 DEF TypeOK, RequestRecord, EndWipe, Finish, Idle, Blank
  <2>14. CASE ConfigWrite(r)
    BY <2>14 DEF TypeOK, RequestRecord, ConfigWrite, Runs, Finish, Idle, Blank
  <2> QED
    BY <1>3, <2>1, <2>2, <2>3, <2>4, <2>5, <2>6, <2>7, <2>8, <2>9, <2>10,
       <2>11, <2>12, <2>13, <2>14 DEF Step
<1>4. ASSUME NEW r \in Requests, Abort(r) PROVE IInv'
  BY <1>4 DEF TypeOK, RequestRecord, Abort, Finish, Idle, Blank
<1> QED
  BY <1>1, <1>2, <1>3, <1>4 DEF Next

\* The inductive invariant holds in every reachable state.
THEOREM RoomInvariant == Spec => []IInv
BY InvInit, InvStep, PTL DEF Spec

\* Every variable keeps its type.
THEOREM RoomTypes == Spec => []TypeOK
<1>1. IInv => TypeOK
  BY DEF IInv
<1> QED
  BY <1>1, RoomInvariant, PTL

\* Every guest who is present was admitted by the host.
THEOREM GuestsAreAdmitted == Spec => []GuestsNeedAdmission
<1>1. IInv => GuestsNeedAdmission
  BY DEF IInv
<1> QED
  BY <1>1, RoomInvariant, PTL

\* Whoever is present and was not admitted has a participants row.
THEOREM MembersAreOnRecord == Spec => []MembersHaveRows
<1>1. IInv => MembersHaveRows
  BY DEF IInv
<1> QED
  BY <1>1, RoomInvariant, PTL

\* The host never waits and is never present with the role of a guest.
THEOREM HostIsHost == Spec => []HostNeverWaits
<1>1. IInv => HostNeverWaits
  BY DEF IInv
<1> QED
  BY <1>1, RoomInvariant, PTL

\* A room is not ended before meeting_ended has been published.
THEOREM EndIsAnnounced == Spec => []EndedWasAnnounced
<1>1. IInv => EndedWasAnnounced
  BY DEF IInv
<1> QED
  BY <1>1, RoomInvariant, PTL

-----------------------------------------------------------------------------
(* The end of a meeting, on any number of workers.                         *)

\* An ended meeting on which no join of the host is about to commit stays so:
\* no new request gets past the check of the status, and what the others have
\* read before the end does not bring the status back.
LEMMA FinalStep == TypeOK /\ Final /\ [Next]_vars => Final'
<1> SUFFICES ASSUME TypeOK, Final, [Next]_vars PROVE Final'
  OBVIOUS
<1> USE DEF TypeOK, Final, Goto, Finish, Idle, RequestRecord
<1>1. ASSUME NEW r \in Requests, Call(r) PROVE Final'
  BY <1>1 DEF Call, Join, Leave, Admit, End, Configure, Open
<1>2. ASSUME NEW r \in Requests, Step(r) PROVE Final'
  <2>1. ~JoinActivate(r)
    BY DEF JoinActivate, Runs
  <2>2. CASE EndClose(r)
    BY <2>2 DEF EndClose, RoomRecord
  <2>3. CASE ConfigWrite(r)
    BY <2>3, MergeType DEF ConfigWrite, RoomRecord
  <2> QED
    BY <1>2, <2>1, <2>2, <2>3
       DEF Step, JoinIdentify, JoinCheck, JoinKnock, JoinInsert, JoinEnter,
           LeaveLobby, LeaveCheckout, AdmitMove, EndAnnounce, EndCloseRows, EndWipe
<1>3. ASSUME NEW r \in Requests, Abort(r) PROVE Final'
  BY <1>3 DEF Abort
<1>4. CASE UNCHANGED vars
  BY <1>4 DEF vars
<1> QED
  BY <1>1, <1>2, <1>3, <1>4 DEF Next

\* Only a join of the host that had found the meeting pending reopens one that
\* has been ended.
THEOREM EndIsFinal == Spec => EndedIsFinal
<1>1. TypeOK /\ [Next]_vars => [Final => Final']_vars
  BY FinalStep
<1> QED
  BY <1>1, RoomTypes, PTL DEF Spec, EndedIsFinal

-----------------------------------------------------------------------------
(* Requests served one after the other.                                    *)

\* Only finitely many people are ever present at a time.
PresentIsFinite == IsFiniteSet(Present)

LEMMA PresentStep ==
    ASSUME TypeOK, [Next]_vars
    PROVE  \/ Present' = Present
           \/ \E p \in People : Present' \in {Present \cup {p}, Present \ {p}}
           \/ Present' = {}
<1> USE DEF Present, TypeOK, AddParticipant, RemoveParticipant, RequestRecord
<1>0. CASE UNCHANGED live
  BY <1>0
<1>1. CASE UNCHANGED vars
  BY <1>0, <1>1 DEF vars
<1>2. ASSUME NEW r \in Requests, NEW p \in People, Leave(r, p)
      PROVE  Present' = Present \ {p}
  BY <1>2 DEF Leave, Presence
<1>3. ASSUME NEW r \in Requests, Call(r) PROVE UNCHANGED live \/ \E p \in People : Leave(r, p)
  BY <1>3 DEF Call, Join, Admit, End, Configure
<1>4. ASSUME NEW r \in Requests, JoinEnter(r)
      PROVE  Present' = Present \cup {req[r].who}
  BY <1>4 DEF JoinEnter, Presence
<1>5. ASSUME NEW r \in Requests, AdmitMove(r)
      PROVE  Present' = Present \cup {req[r].who}
  BY <1>5 DEF AdmitMove, AdmitFromLobby, Presence
<1>6. ASSUME NEW r \in Requests, EndWipe(r) PROVE Present' = {}
  BY <1>6 DEF EndWipe, CleanupRoom
<1>7. ASSUME NEW r \in Requests, Step(r)
      PROVE  UNCHANGED live \/ JoinEnter(r) \/ AdmitMove(r) \/ EndWipe(r)
  BY <1>7 DEF Step, JoinActivate, JoinIdentify, JoinCheck, JoinKnock, JoinInsert,
              LeaveLobby, LeaveCheckout, EndAnnounce, EndClose, EndCloseRows, ConfigWrite
<1>8. ASSUME NEW r \in Requests PROVE req[r].who \in People
  OBVIOUS
<1> HIDE DEF Present, TypeOK, AddParticipant, RemoveParticipant, RequestRecord
<1> QED
  BY <1>0, <1>1, <1>2, <1>3, <1>4, <1>5, <1>6, <1>7, <1>8 DEF Next, Abort

LEMMA PresentFinite == Spec => []PresentIsFinite
<1>1. Init => PresentIsFinite
  <2>1. Init => Present = {}
    BY DEF Init, Present
  <2> QED
    BY <2>1, FS_EmptySet DEF PresentIsFinite
<1>2. TypeOK /\ PresentIsFinite /\ [Next]_vars => PresentIsFinite'
  <2> SUFFICES ASSUME TypeOK, PresentIsFinite, [Next]_vars PROVE IsFiniteSet(Present')
    BY DEF PresentIsFinite
  <2>1. IsFiniteSet(Present)
    BY DEF PresentIsFinite
  <2>2. ASSUME NEW p
        PROVE  IsFiniteSet(Present \cup {p}) /\ IsFiniteSet(Present \ {p})
    BY <2>1, FS_AddElement, FS_RemoveElement
  <2> QED
    BY <2>1, <2>2, PresentStep, FS_EmptySet
<1> QED
  BY <1>1, <1>2, RoomTypes, PTL DEF Spec

\* What OrderlyInv says of the request in hand when no other is being served.
Alone(r) == \A q \in Requests \ {r} : req[q].at = "idle"

InHand(r) ==
    /\ \A p \in People : row[p] = "in" =>
          \/ p \in Present
          \/ p = Host /\ room.status = "pending"
          \/ p = req[r].who /\ req[r].at \in
                {"identify", "check", "insert", "enter", "unlobby", "checkout"}
          \/ p = Host /\ req[r].at = "closeRows"
    /\ req[r].at # "wipe" => RowsOfPresent /\ LobbyHasNotLeft
    /\ req[r].at \notin {"closeRows", "wipe"} => EndedIsClean
    /\ ServedInv(r)

LEMMA TakeInHand ==
    ASSUME OrderlyInv, orderly, NEW r \in Requests, req[r].at # "idle" \/ Quiet
    PROVE  Alone(r) /\ InHand(r)
<1>1. Alone(r)
  BY DEF OrderlyInv, Alone, Quiet
<1>2. ServedInv(r)
  BY DEF OrderlyInv
<1> QED
  BY <1>1, <1>2 DEF OrderlyInv, Alone, InHand, PresenceOfRows

LEMMA HandBack ==
    ASSUME NEW r \in Requests, Alone(r)', InHand(r)'
    PROVE  OrderlyInv'
<1>1. ASSUME NEW q \in Requests PROVE ServedInv(q)'
  <2>1. CASE q = r
    BY <2>1 DEF InHand
  <2>2. CASE req'[q].at = "idle"
    BY <2>2 DEF ServedInv
  <2> QED
    BY <2>1, <2>2 DEF Alone
<1>2. PresenceOfRows'
  BY DEF PresenceOfRows, InHand
<1> QED
  BY <1>1, <1>2 DEF OrderlyInv, InHand, Alone

LEMMA CallInHand ==
    ASSUME IInv, NEW r \in Requests, req[r].at = "idle", InHand(r), Call(r)
    PROVE  InHand(r)'
<1> USE RoomAssumption DEF InHand, ServedInv, RowsOfPresent, LobbyHasNotLeft,
        EndedIsClean, Idle
<1>t. req \in [Requests -> RequestRecord]
  BY DEF IInv, TypeOK
<1>1. ASSUME NEW p \in People, Join(r, p) PROVE InHand(r)'
  <2>1. /\ req'[r].at = IF room.status = "pending" THEN "activate" ELSE "identify"
        /\ req'[r].who = p /\ req'[r].seen = room
        /\ room.status # "ended" /\ (room.status = "pending" => p = Host)
    BY <1>t, <1>1 DEF Join, Open
  <2>2. UNCHANGED <<room, row, live, lobby>> /\ Present' = Present
    BY <1>1 DEF Join, Present
  <2> QED
    BY <2>1, <2>2
<1>2. ASSUME NEW p \in People, Leave(r, p) PROVE InHand(r)'
  <2>1. req'[r].at = "unlobby" /\ req'[r].who = p
    BY <1>t, <1>2 DEF Leave
  <2>2. UNCHANGED <<room, row, lobby>> /\ Present' = Present \ {p}
    BY <1>2 DEF Leave, Present, RemoveParticipant, IInv, TypeOK
  <2> QED
    BY <2>1, <2>2
<1>3. ASSUME NEW p \in People, Admit(r, p) PROVE InHand(r)'
  <2>1. req'[r].at = "move" /\ req'[r].who = p /\ p \in lobby
    BY <1>t, <1>3 DEF Admit
  <2>2. UNCHANGED <<room, row, live, lobby>> /\ Present' = Present
    BY <1>3 DEF Admit, Present
  <2> QED
    BY <2>1, <2>2
<1>4. ASSUME End(r) PROVE InHand(r)'
  <2>1. req'[r].at = "announce" /\ req'[r].who = Host /\ req'[r].seen = room
    BY <1>t, <1>4 DEF End, Open
  <2>2. UNCHANGED <<room, row, live, lobby>> /\ Present' = Present
    BY <1>4 DEF End, Present
  <2> QED
    BY <2>1, <2>2
<1>5. ASSUME NEW patch \in Patches, Configure(r, patch) PROVE InHand(r)'
  <2>1. /\ req'[r].at = "patch" /\ req'[r].seen = room
        /\ room.status = "active"
    BY <1>t, <1>5 DEF Configure
  <2>2. UNCHANGED <<room, row, live, lobby>> /\ Present' = Present
    BY <1>5 DEF Configure, Present
  <2> QED
    BY <2>1, <2>2
<1> QED
  BY <1>1, <1>2, <1>3, <1>4, <1>5 DEF Call

LEMMA StepInHand ==
    ASSUME IInv, PresentIsFinite, NEW r \in Requests, InHand(r), Step(r)
    PROVE  InHand(r)'
<1> DEFINE p == req[r].who
<1> USE RoomAssumption DEF InHand, ServedInv, RowsOfPresent, LobbyHasNotLeft,
        EndedIsClean, Goto, Finish, Idle
<1>t. /\ req \in [Requests -> RequestRecord] /\ row \in [People -> RowStates]
      /\ live \in [People -> Presence]
      /\ req[r] \in RequestRecord /\ p \in People
      /\ room \in RoomRecord /\ room.cap \in Nat /\ room.cap # 0
  BY DEF IInv, TypeOK, RequestRecord, RoomRecord
<1>c. Cardinality(Present) \in Nat
  BY FS_CardinalityType DEF PresentIsFinite
<1>live. ASSUME UNCHANGED live PROVE Present' = Present
  BY <1>live DEF Present
<1>idle. ASSUME Finish(r) PROVE req'[r].at = "idle"
  BY <1>t, <1>idle
<1>goto. ASSUME NEW place, Goto(r, place)
         PROVE  /\ req'[r].at = place /\ req'[r].who = p
                /\ req'[r].seen = req[r].seen /\ req'[r].ptc = req[r].ptc
  BY <1>t, <1>goto DEF RequestRecord
<1>1. CASE JoinActivate(r)
  <2>1. /\ req'[r].at = "identify" /\ req'[r].who = p /\ req'[r].seen = room'
        /\ room'.status = "active"
    BY <1>t, <1>1 DEF JoinActivate, RequestRecord, RoomRecord
  <2>2. UNCHANGED <<row, live, lobby>> /\ Present' = Present
    BY <1>1, <1>live DEF JoinActivate
  <2>3. /\ req[r].at = "activate" /\ p = Host
        /\ room.status = "pending" /\ Present = {}
    BY <1>1 DEF JoinActivate, Runs, IInv, NobodyBeforeStart
  <2> QED
    BY <2>1, <2>2, <2>3
<1>2. CASE JoinIdentify(r)
  <2>0. UNCHANGED <<room, row, live, lobby>> /\ Present' = Present
    BY <1>2, <1>live DEF JoinIdentify
  <2>1. CASE row[p] = "none" /\ Finish(r)
    BY <1>2, <1>idle, <2>0, <2>1 DEF JoinIdentify, Runs
  <2>2. CASE req' = [req EXCEPT ![r].at = "check", ![r].ptc = row[p]]
    <3>1. /\ req'[r].at = "check" /\ req'[r].who = p /\ req'[r].seen = req[r].seen
          /\ req'[r].ptc = row[p]
      BY <1>t, <2>2 DEF RequestRecord
    <3> QED
      BY <1>2, <2>0, <3>1 DEF JoinIdentify, Runs
  <2> QED
    BY <1>2, <2>1, <2>2 DEF JoinIdentify
<1>3. CASE JoinCheck(r)
  <2>0. UNCHANGED <<room, row, live, lobby>> /\ Present' = Present
    BY <1>3, <1>live DEF JoinCheck
  <2>1. CASE IsFull(r) /\ Finish(r)
    <3>1. p \notin Present /\ Present # {}
      <4>1. p \notin Present /\ Cardinality(Present) >= room.cap
        BY <1>3, <2>1 DEF JoinCheck, IsFull
      <4>2. Cardinality({}) = 0
        BY FS_EmptySet
      <4>3. Cardinality(Present) # 0
        BY <1>t, <1>c, <4>1
      <4> QED
        BY <4>1, <4>2, <4>3
    <3> QED
      BY <1>3, <1>idle, <2>0, <2>1, <3>1 DEF JoinCheck
  <2>2. CASE ~IsFull(r) /\ RequiresLobby(r) /\ Goto(r, "knock")
    <3>1. row[p] = "none"
      BY <1>3, <2>2 DEF JoinCheck, RequiresLobby
    <3> QED
      BY <1>3, <1>goto, <2>0, <2>2, <3>1 DEF JoinCheck
  <2>3. CASE ~IsFull(r) /\ ~RequiresLobby(r) /\ Goto(r, "insert")
    <3>1. p \in Present \/ Cardinality(Present) < room.cap
      BY <1>t, <1>c, <1>3, <2>3 DEF JoinCheck, IsFull
    <3>2. req[r].ptc = "none" => ~room.lock \/ p = Host
      BY <1>3, <2>3 DEF JoinCheck, RequiresLobby
    <3> QED
      BY <1>3, <1>goto, <2>0, <2>3, <3>1, <3>2 DEF JoinCheck
  <2> QED
    BY <1>3, <2>1, <2>2, <2>3 DEF JoinCheck
<1>4. CASE JoinKnock(r)
  BY <1>4, <1>live, <1>idle DEF JoinKnock, AddToLobby
<1>5. CASE JoinInsert(r)
  <2>0. UNCHANGED <<room, live, lobby>> /\ Present' = Present
    BY <1>5, <1>live DEF JoinInsert
  <2>1. Goto(r, "enter") /\ row' = [row EXCEPT ![p] = "in"]
    BY <1>t, <1>5 DEF JoinInsert, Runs, CreateParticipant, RowStates
  <2> QED
    BY <1>t, <1>5, <1>goto, <2>0, <2>1 DEF JoinInsert, Runs
<1>6. CASE JoinEnter(r)
  <2>1. Present' = Present \cup {p}
    BY <1>t, <1>6 DEF JoinEnter, AddParticipant, Present, Presence
  <2> QED
    BY <1>6, <1>idle, <2>1 DEF JoinEnter
<1>7. CASE LeaveLobby(r)
  BY <1>7, <1>live, <1>goto DEF LeaveLobby, RemoveFromLobby
<1>8. CASE LeaveCheckout(r)
  BY <1>t, <1>8, <1>live, <1>idle DEF LeaveCheckout, LeaveParticipant, Runs
<1>9. CASE AdmitMove(r)
  <2>1. Present' = Present \cup {p} /\ lobby' = lobby \ {p}
    BY <1>t, <1>9 DEF AdmitMove, AdmitFromLobby, RemoveFromLobby, AddParticipant,
                     Present, Presence
  <2>2. row[p] # "none" => row[p] = "in"
    BY <1>t, <1>9 DEF AdmitMove, RowStates
  <2> QED
    BY <1>9, <1>idle, <2>1, <2>2 DEF AdmitMove
<1>10. CASE EndAnnounce(r)
  BY <1>10, <1>live, <1>goto DEF EndAnnounce
<1>11. CASE EndClose(r)
  <2>1. room'.status = "ended"
    BY <1>t, <1>11 DEF EndClose, Runs, RoomRecord
  <2>2. UNCHANGED <<row, live, lobby>> /\ Present' = Present
    BY <1>11, <1>live DEF EndClose
  <2>3. req[r].at = "close" /\ req'[r].at = "closeRows" /\ req'[r].who = p
    BY <1>11, <1>goto DEF EndClose, Runs
  <2> QED
    BY <2>1, <2>2, <2>3
<1>12. CASE EndCloseRows(r)
  <2>1. \A q \in People : row'[q] # "in"
    BY <1>12 DEF EndCloseRows, BulkUpdateLeftAt
  <2>2. UNCHANGED <<room, live, lobby>> /\ Present' = Present
    BY <1>12, <1>live DEF EndCloseRows
  <2>3. req[r].at = "closeRows" /\ req'[r].at = "wipe" /\ req'[r].who = p
    BY <1>12, <1>goto DEF EndCloseRows, Runs
  <2> QED
    BY <2>1, <2>2, <2>3
<1>13. CASE EndWipe(r)
  <2>1. Present' = {} /\ lobby' = {}
    BY <1>13 DEF EndWipe, CleanupRoom, Present
  <2> QED
    BY <1>13, <1>idle, <2>1 DEF EndWipe
<1>14. CASE ConfigWrite(r)
  <2>1. room'.status = room.status
    BY <1>t, <1>14, MergeType DEF ConfigWrite, RoomRecord, RequestRecord
  <2> QED
    BY <1>14, <1>live, <1>idle, <2>1 DEF ConfigWrite, Runs
<1> QED
  BY <1>1, <1>2, <1>3, <1>4, <1>5, <1>6, <1>7, <1>8, <1>9, <1>10, <1>11, <1>12,
     <1>13, <1>14 DEF Step

LEMMA OrderlyStep ==
    ASSUME IInv, PresentIsFinite, OrderlyInv, [Next]_vars
    PROVE  OrderlyInv'
<1> SUFFICES ASSUME orderly' PROVE OrderlyInv'
  BY DEF OrderlyInv
<1>t. req \in [Requests -> RequestRecord]
  BY DEF IInv, TypeOK
<1>1. CASE UNCHANGED vars
  <2>1. UNCHANGED <<room, row, lobby, req, orderly>> /\ Present' = Present
    BY <1>1 DEF vars, Present
  <2>2. ASSUME NEW r \in Requests PROVE ServedInv(r)' = ServedInv(r)
    BY <2>1 DEF ServedInv
  <2>3. PresenceOfRows' = PresenceOfRows
    BY <2>1 DEF PresenceOfRows
  <2>4. (RowsOfPresent /\ LobbyHasNotLeft)' = (RowsOfPresent /\ LobbyHasNotLeft)
    BY <2>1 DEF RowsOfPresent, LobbyHasNotLeft
  <2>5. EndedIsClean' = EndedIsClean
    BY <2>1 DEF EndedIsClean
  <2> QED
    BY <2>1, <2>2, <2>3, <2>4, <2>5 DEF OrderlyInv
<1>2. ASSUME NEW r \in Requests, Call(r) \/ Step(r), Alone(r), InHand(r)'
      PROVE  OrderlyInv'
  <2>1. Alone(r)'
    BY <1>t, <1>2, OwnRecord DEF Alone
  <2> QED
    BY <1>2, <2>1, HandBack
<1>3. ASSUME NEW r \in Requests, Call(r) PROVE OrderlyInv'
  <2>1. orderly /\ Quiet
    BY <1>3 DEF Call
  <2> QED
    BY <1>2, <1>3, <2>1, TakeInHand, CallInHand DEF Quiet
<1>4. ASSUME NEW r \in Requests, Step(r) PROVE OrderlyInv'
  <2>1. orderly /\ req[r].at # "idle"
    BY <1>4 DEF Step, JoinActivate, JoinIdentify, JoinCheck, JoinKnock, JoinInsert,
                JoinEnter, LeaveLobby, LeaveCheckout, AdmitMove, EndAnnounce,
                EndClose, EndCloseRows, EndWipe, ConfigWrite, Runs
  <2> QED
    BY <1>2, <1>4, <2>1, TakeInHand, StepInHand
<1>5. ASSUME NEW r \in Requests, Abort(r) PROVE FALSE
  BY <1>5 DEF Abort
<1> QED
  BY <1>1, <1>3, <1>4, <1>5 DEF Next

LEMMA OrderlyInit == Init => OrderlyInv
<1> SUFFICES ASSUME Init PROVE OrderlyInv
  OBVIOUS
<1>1. /\ \A r \in Requests : req[r].at = "idle"
      /\ Present = {} /\ lobby = {}
      /\ room.status = "pending"
      /\ \A p \in People : row[p] = "in" => p = Host
  BY DEF Init, Idle, Present
<1> QED
  BY <1>1 DEF OrderlyInv, PresenceOfRows, RowsOfPresent, LobbyHasNotLeft,
              EndedIsClean, ServedInv

\* What the request in hand has left to do is all that keeps the rows and the
\* hashes from agreeing.
THEOREM OrderlyInvariant == Spec => []OrderlyInv
<1>1. IInv /\ PresentIsFinite /\ OrderlyInv /\ [Next]_vars => OrderlyInv'
  BY OrderlyStep
<1> QED
  BY <1>1, OrderlyInit, RoomInvariant, PresentFinite, PTL DEF Spec

\* If the requests are served one after the other and none fails, the rows and
\* the live hash agree between them on who is in the meeting, whatever the
\* sequence of joins, leaves, admissions, ends and changes was.
THEOREM RowsAgreeWithPresence == Spec => []AttendanceMatchesPresence
<1>1. OrderlyInv => AttendanceMatchesPresence
  <2> SUFFICES ASSUME OrderlyInv, orderly, Quiet PROVE AttendanceMatchesPresence
    BY DEF AttendanceMatchesPresence
  <2>1. RowsOfPresent /\ PresenceOfRows
    BY DEF OrderlyInv, Quiet
  <2> QED
    BY <2>1 DEF AttendanceMatchesPresence, RowsOfPresent, PresenceOfRows, Quiet
<1> QED
  BY <1>1, OrderlyInvariant, PTL

\* In the same histories an ended room is empty between requests.
THEOREM EndLeavesNobody == Spec => []EndedRoomIsClean
<1>1. OrderlyInv => EndedRoomIsClean
  BY DEF OrderlyInv, EndedRoomIsClean, EndedIsClean, Quiet
<1> QED
  BY <1>1, OrderlyInvariant, PTL

-----------------------------------------------------------------------------
(* The contract, step by step.                                             *)

\* The rows of participants are never deleted, so the host keeps the row that
\* create_room made.
HostIsMember == row[Host] # "none"

LEMMA RowsStay ==
    ASSUME TypeOK, [Next]_vars, NEW p \in People, row[p] # "none"
    PROVE  row'[p] # "none"
<1>1. CASE UNCHANGED row
  BY <1>1
<1>2. ASSUME NEW r \in Requests, JoinInsert(r) \/ LeaveCheckout(r) \/ EndCloseRows(r)
      PROVE  row'[p] # "none"
  BY <1>2 DEF TypeOK, JoinInsert, CreateParticipant, LeaveCheckout,
        LeaveParticipant, EndCloseRows, BulkUpdateLeftAt
<1>3. ASSUME NEW r \in Requests, Step(r)
      PROVE  \/ UNCHANGED row
             \/ JoinInsert(r) \/ LeaveCheckout(r) \/ EndCloseRows(r)
  BY <1>3 DEF Step, JoinActivate, JoinIdentify, JoinCheck, JoinKnock, JoinEnter,
        LeaveLobby, AdmitMove, EndAnnounce, EndClose, EndWipe, ConfigWrite
<1>4. ASSUME NEW r \in Requests, Call(r) \/ Abort(r) PROVE UNCHANGED row
  BY <1>4 DEF Call, Abort, Join, Leave, Admit, End, Configure
<1> QED
  BY <1>1, <1>2, <1>3, <1>4 DEF Next, vars

LEMMA HostStaysMember == Spec => []HostIsMember
<1>1. Init => HostIsMember
  BY DEF Init, HostIsMember, People
<1>2. TypeOK /\ HostIsMember /\ [Next]_vars => HostIsMember'
  BY RowsStay DEF HostIsMember, People
<1> QED
  BY <1>1, <1>2, RoomTypes, PTL DEF Spec

\* The state that callers see.
Members == {p \in People : row[p] # "none"}
Seen == <<room, Members, Present, lobby>>

LEMMA SameSize == Contract!Cardinality(Present) = Cardinality(Present)
BY DEF Cardinality, Contract!Cardinality

LEMMA UnseenIsRest ==
    ASSUME UNCHANGED Seen PROVE Contract!Rest
BY DEF Seen, Members, Contract!Rest

LEMMA CallKeepsContract ==
    ASSUME TypeOK, NEW r \in Requests, Call(r)
    PROVE  Contract!Rest \/ \E p \in People : Contract!Leave(p)
<1>1. ASSUME NEW p \in People, Leave(r, p) PROVE Contract!Leave(p)
  <2>1. Present' = Present \ {p}
    BY <1>1 DEF Leave, RemoveParticipant, Present, TypeOK
  <2> QED
    BY <1>1, <2>1 DEF Leave, Contract!Leave
<1>2. CASE UNCHANGED <<room, row, live, lobby>>
  BY <1>2, UnseenIsRest DEF Seen, Members, Present
<1> QED
  BY <1>1, <1>2 DEF Call, Join, Admit, End, Configure

LEMMA StepKeepsContract ==
    ASSUME IInv, HostIsMember, NEW r \in Requests, orderly => InHand(r), Step(r)
    PROVE  Contract!Next
<1> DEFINE p == req[r].who
<1>t. /\ req[r] \in RequestRecord /\ p \in People
      /\ row \in [People -> RowStates] /\ live \in [People -> Presence]
      /\ room \in RoomRecord /\ req[r].seen \in RoomRecord
      /\ orderly' = orderly /\ orderly \in BOOLEAN
  BY DEF IInv, TypeOK, RequestRecord, Step
<1>s. orderly => ServedInv(r)
  BY DEF InHand
<1>q. RequestInv(r)
  BY DEF IInv
<1>o. ASSUME req[r].at \in {"knock", "insert", "enter", "move", "patch"}
      PROVE  Contract!Open
  <2>1. room.status # "pending"
    BY <1>o DEF IInv, PendingRequests
  <2>2. orderly => room.status # "ended"
    BY <1>o, <1>s DEF ServedInv
  <2> QED
    BY <1>t, <2>1, <2>2 DEF Contract!Open, RoomRecord, Statuses
<1>rest. CASE UNCHANGED Seen
  BY <1>t, <1>rest, UnseenIsRest DEF Contract!Next
<1>1. CASE JoinActivate(r)
  <2>1. orderly => room.status = "pending"
    BY <1>1, <1>s DEF JoinActivate, Runs, ServedInv
  <2>2. room' = [room EXCEPT !.status = "active"] /\ UNCHANGED <<row, live, lobby>>
    BY <1>1 DEF JoinActivate
  <2>3. Contract!Start
    BY <1>t, <2>1, <2>2 DEF Contract!Start, Present, RoomRecord
  <2> QED
    BY <1>t, <2>3 DEF Contract!Next
<1>2. CASE JoinIdentify(r) \/ JoinCheck(r) \/ EndAnnounce(r)
  BY <1>2, <1>rest DEF JoinIdentify, JoinCheck, EndAnnounce, Seen, Members, Present
<1>3. CASE JoinKnock(r)
  <2>1. req[r].at = "knock" /\ lobby' = lobby \cup {p} /\ UNCHANGED <<room, row, live>>
    BY <1>3 DEF JoinKnock, AddToLobby
  <2>2. p # Host /\ (orderly => row[p] = "none")
    BY <1>q, <1>s, <2>1 DEF RequestInv, ServedInv
  <2>3. Contract!Knock(p)
    BY <1>o, <2>1, <2>2 DEF Contract!Knock, Present
  <2> QED
    BY <1>t, <2>3 DEF Contract!Next
<1>4. CASE JoinInsert(r)
  <2>1. req[r].at = "insert" /\ UNCHANGED <<room, live, lobby>>
    BY <1>4 DEF JoinInsert, Runs
  <2>2. CASE row[p] # "none" \/ UNCHANGED row
    <3>1. Members' = Members
      BY <1>t, <1>4, <2>2 DEF JoinInsert, CreateParticipant, Members
    <3> QED
      BY <1>rest, <2>1, <3>1 DEF Seen, Present
  <2>3. CASE row[p] = "none" /\ row' # row
    <3>1. Members' = Members \cup {p} /\ p \notin Members
      BY <1>t, <1>4, <2>3 DEF JoinInsert, CreateParticipant, Members
    <3>2. p \notin Guests /\ p # Host
      BY <1>q, <2>1, <2>3 DEF RequestInv, HostIsMember
    <3>3. ASSUME orderly PROVE Contract!HasPlace(p) /\ ~room.lock
      <4>1. /\ p \in Present \/ Cardinality(Present) < room.cap
            /\ req[r].ptc = row[p]
            /\ req[r].ptc = "none" => ~room.lock \/ p = Host
        BY <1>s, <2>1, <3>3 DEF ServedInv
      <4> QED
        BY <2>3, <3>2, <4>1, SameSize DEF Contract!HasPlace
    <3>4. PICK q \in People : q = p
      BY <1>t
    <3>5. Contract!Enrol(q)
      BY <1>o, <2>1, <3>1, <3>2, <3>3, <3>4 DEF Contract!Enrol, Members, Present
    <3> QED
      BY <1>t, <3>5 DEF Contract!Next
  <2> QED
    BY <2>2, <2>3
<1>5. CASE JoinEnter(r)
  <2>1. /\ req[r].at = "enter" /\ Present' = Present \cup {p}
        /\ UNCHANGED <<room, row, lobby>>
    BY <1>t, <1>5 DEF JoinEnter, AddParticipant, Present, Presence
  <2>2. row[p] # "none"
    BY <1>q, <2>1 DEF RequestInv
  <2>4. ASSUME orderly PROVE Contract!HasPlace(p)
    <3>1. p \in Present \/ Cardinality(Present) < room.cap
      BY <1>s, <2>1, <2>4 DEF ServedInv
    <3> QED
      BY <3>1, SameSize DEF Contract!HasPlace
  <2>3. Contract!Enter(p)
    BY <1>o, <1>t, <2>1, <2>2, <2>4 DEF Contract!Enter
  <2> QED
    BY <1>t, <2>3 DEF Contract!Next
<1>6. CASE LeaveLobby(r)
  <2>1. Contract!Withdraw(p)
    BY <1>6 DEF LeaveLobby, RemoveFromLobby, Contract!Withdraw, Present
  <2> QED
    BY <1>t, <2>1 DEF Contract!Next
<1>7. CASE LeaveCheckout(r) \/ EndCloseRows(r)
  <2>1. Members' = Members
    BY <1>t, <1>7 DEF LeaveCheckout, LeaveParticipant, EndCloseRows,
          BulkUpdateLeftAt, Members, RowStates
  <2> QED
    BY <1>7, <1>rest, <2>1 DEF LeaveCheckout, EndCloseRows, Seen, Present
<1>8. CASE AdmitMove(r)
  <2>1. /\ req[r].at = "move" /\ Present' = Present \cup {p} /\ lobby' = lobby \ {p}
        /\ UNCHANGED <<room, row>>
    BY <1>t, <1>8 DEF AdmitMove, AdmitFromLobby, RemoveFromLobby, AddParticipant,
          Present, Presence
  <2>2. p # Host /\ (orderly => p \in lobby)
    BY <1>q, <1>s, <2>1 DEF RequestInv, ServedInv
  <2>3. Contract!Admit(p)
    BY <1>o, <2>1, <2>2 DEF Contract!Admit
  <2> QED
    BY <1>t, <2>3 DEF Contract!Next
<1>9. CASE EndClose(r)
  <2>1. UNCHANGED <<row, live, lobby>>
    BY <1>9 DEF EndClose
  <2>2. CASE room' = room
    BY <1>rest, <2>1, <2>2 DEF Seen, Members, Present
  <2>3. CASE room' = [room EXCEPT !.status = "ended"]
    <3>1. Contract!End
      BY <1>t, <2>1, <2>3 DEF Contract!End, Present, RoomRecord
    <3> QED
      BY <1>t, <3>1 DEF Contract!Next
  <2> QED
    BY <1>9, <2>2, <2>3 DEF EndClose
<1>10. CASE EndWipe(r)
  <2>1. /\ req[r].at = "wipe" /\ Present' = {} /\ lobby' = {}
        /\ UNCHANGED <<room, row>>
    BY <1>10 DEF EndWipe, CleanupRoom, Present
  <2>2. room.status # "pending" /\ (orderly => room.status = "ended")
    BY <1>s, <2>1 DEF ServedInv, IInv, PendingRequests
  <2>3. Contract!Clear
    BY <2>1, <2>2 DEF Contract!Clear
  <2> QED
    BY <1>t, <2>3 DEF Contract!Next
<1>11. CASE ConfigWrite(r)
  <2>1. /\ req[r].at = "patch" /\ UNCHANGED <<row, live, lobby>>
        /\ room' \in RoomRecord /\ room'.status = room.status
    BY <1>t, <1>11, MergeType DEF ConfigWrite, Runs, RoomRecord, RequestRecord
  <2>2. Contract!Configure
    BY <1>o, <2>1 DEF Contract!Configure, Contract!Settings, Present, RoomRecord
  <2> QED
    BY <1>t, <2>2 DEF Contract!Next
<1> QED
  BY <1>1, <1>2, <1>3, <1>4, <1>5, <1>6, <1>7, <1>8, <1>9, <1>10, <1>11 DEF Step

\* On any number of workers, with any overlap and any failure, the handlers do
\* what the contract allows; as long as requests come one after the other, they
\* also keep what it promises of those.
THEOREM HandlersKeepContract == Spec => ImplementsContract
<1>1. Init => Contract!Init
  <2> SUFFICES ASSUME Init PROVE Contract!Init
    OBVIOUS
  <2>1. Present = {} /\ {p \in People : row[p] # "none"} = {Host}
    BY DEF Init, Present, People
  <2> QED
    BY <2>1 DEF Init, Contract!Init, Contract!Settings
<1>2. IInv /\ HostIsMember /\ OrderlyInv /\ [Next]_vars => [Contract!Next]_Contract!vars
  <2> SUFFICES ASSUME IInv, HostIsMember, OrderlyInv, [Next]_vars
               PROVE  Contract!Next \/ UNCHANGED Contract!vars
    OBVIOUS
  <2>t. orderly \in BOOLEAN
    BY DEF IInv, TypeOK
  <2>1. CASE UNCHANGED vars
    BY <2>1 DEF vars, Contract!vars, Present
  <2>2. ASSUME NEW r \in Requests, Call(r) PROVE Contract!Next
    <3>1. Contract!Rest \/ \E p \in People : Contract!Leave(p)
      BY <2>2, CallKeepsContract DEF IInv
    <3>2. orderly' \in {orderly, FALSE}
      BY <2>2, <2>t DEF Call
    <3> QED
      BY <3>1, <3>2 DEF Contract!Next
  <2>3. ASSUME NEW r \in Requests, Step(r) PROVE Contract!Next
    <3>1. req[r].at # "idle"
      BY <2>3 DEF Step, JoinActivate, JoinIdentify, JoinCheck, JoinKnock,
          JoinInsert, JoinEnter, LeaveLobby, LeaveCheckout, AdmitMove, EndAnnounce,
          EndClose, EndCloseRows, EndWipe, ConfigWrite, Runs
    <3> QED
      BY <2>3, <3>1, TakeInHand, StepKeepsContract
  <2>4. ASSUME NEW r \in Requests, Abort(r) PROVE Contract!Next
    BY <2>4, UnseenIsRest DEF Abort, Seen, Members, Present, Contract!Next
  <2> QED
    BY <2>1, <2>2, <2>3, <2>4 DEF Next
<1> QED
  BY <1>1, <1>2, RoomInvariant, HostStaysMember, OrderlyInvariant, PTL
     DEF Spec, ImplementsContract, Contract!Spec
=============================================================================
