----------------------------- MODULE Signaling -----------------------------
(***************************************************************************)
(* The signaling sockets of one room: signaling_websocket of               *)
(* app/modules/meeting/ws_router.py and the ConnectionManager of           *)
(* app/services/connection_manager.py in every worker process.             *)
(*                                                                         *)
(* A worker keeps one entry per user and one listener task for the room.   *)
(* Messages go through the Redis channel ws:room:{code}: `sent` is the     *)
(* order in which Redis has taken them, and a listener that has subscribed *)
(* reads it from there on.  The code between two awaits is one action.     *)
(***************************************************************************)
EXTENDS Naturals, Sequences, FiniteSets

CONSTANTS
    Users,       \* user ids and guest session ids
    Sockets,     \* the connections clients make, each once
    Workers,     \* worker processes
    UserOf,      \* the user whose token opens a socket
    WorkerOf,    \* the worker a socket is accepted by
    All,         \* the target of a message without target_user_id
    Unhashable,  \* a target_user_id that is a JSON array or object
    None,        \* no socket
    MaxRelays,   \* bound on the messages clients send
    MaxFaults,   \* bound on the failures of Redis
    Garbled      \* TRUE when a client may send JSON that is not an object, or
                 \* an object whose target_user_id is no string

ASSUME SignalingAssumption ==
    /\ UserOf \in [Sockets -> Users]
    /\ WorkerOf \in [Sockets -> Workers]
    /\ All \notin Users
    /\ Unhashable \notin Users \cup {All}
    /\ None \notin Sockets
    /\ MaxRelays \in Nat
    /\ MaxFaults \in Nat
    /\ Garbled \in BOOLEAN

VARIABLES
    at,        \* where the handler of a socket stands
    gone,      \* the sockets whose client has closed
    conns,     \* active_connections[room] of every worker
    listener,  \* _pubsub_tasks[room] of every worker
    next,      \* how far that task has read the channel
    job,       \* the message it is sending and the sockets still to send to
    sent,      \* the messages published on the channel
    received,  \* history: the messages every client has received
    faults     \* the number of faults so far

vars == <<at, gone, conns, listener, next, job, sent, received, faults>>

-----------------------------------------------------------------------------
Places == {"idle", "accept", "announce", "greet", "relay", "farewell",
           "closed"}
Tasks == {"none", "starting", "listening", "dead"}
Targets == Users \cup {All, Unhashable}
Message == [from: Users, to: Targets, what: {"joined", "left", "relay"}]
NoJob == [n |-> 0, rest |-> {}]

TypeOK ==
    /\ at \in [Sockets -> Places]
    /\ gone \subseteq Sockets
    /\ conns \in [Workers -> [Users -> Sockets \cup {None}]]
    /\ listener \in [Workers -> Tasks]
    /\ next \in [Workers -> Nat]
    /\ job \in [Workers -> [n: Nat, rest: SUBSET Sockets]]
    /\ sent \in Seq(Message)
    /\ received \in [Sockets -> Seq(Nat)]
    /\ faults \in 0..MaxFaults

Init ==
    /\ at = [s \in Sockets |-> "idle"]
    /\ gone = {}
    /\ conns = [w \in Workers |-> [u \in Users |-> None]]
    /\ listener = [w \in Workers |-> "none"]
    /\ next = [w \in Workers |-> 0]
    /\ job = [w \in Workers |-> NoJob]
    /\ sent = << >>
    /\ received = [s \in Sockets |-> << >>]
    /\ faults = 0

Goto(s, place) == at' = [at EXCEPT ![s] = place]
Fault == faults < MaxFaults /\ faults' = faults + 1

\* room_code in active_connections: disconnect deletes an empty mapping.
RoomOpen(w) == \E u \in Users : conns[w][u] # None

\* broadcast_to_room and send_to_user.
Publish(from, to, what) ==
    sent' = Append(sent, [from |-> from, to |-> to, what |-> what])

\* Mutant: the sender gets its own broadcast.
AddresseesEcho(w, m) ==
    {s \in Sockets : \E u \in Users : conns[w][u] = s /\ m.to \in {All, u}}

\* The sockets of worker w a message is for.
Addressees(w, m) ==
    {s \in Sockets : \E u \in Users :
        /\ conns[w][u] = s
        /\ IF m.to = All THEN u # m.from ELSE u = m.to}

-----------------------------------------------------------------------------
(* signaling_websocket.                                                    *)

\* assert_room_participant passes (the hash it looks at is MeetingRoom's);
\* otherwise the socket is refused, and leaving the hash later closes none.
Open(s) ==
    /\ at[s] = "idle"
    /\ Goto(s, "accept")
    /\ UNCHANGED <<gone, conns, listener, next, job, sent, received, faults>>

\* The handshake is done; connect() registers the socket and starts a listener
\* for a room it does not know.  An older socket of the user is replaced.
Connect(s) ==
    LET w == WorkerOf[s] IN
    /\ at[s] = "accept"
    /\ s \notin gone
    /\ conns' = [conns EXCEPT ![w][UserOf[s]] = s]
    /\ listener' = [listener EXCEPT ![w] = IF RoomOpen(w) THEN @ ELSE "starting"]
    /\ Goto(s, "announce")
    /\ UNCHANGED <<gone, next, job, sent, received, faults>>

Announce(s) ==
    /\ at[s] = "announce"
    /\ Publish(UserOf[s], All, "joined")
    /\ Goto(s, "greet")
    /\ UNCHANGED <<gone, conns, listener, next, job, received, faults>>

\* get_participants and the existing_users message.
Greet(s) ==
    /\ at[s] = "greet"
    /\ Goto(s, "relay")
    /\ UNCHANGED <<gone, conns, listener, next, job, sent, received, faults>>

\* The client has closed: before connect() nothing is registered; the send of
\* existing_users may raise outside the try, past manager.disconnect.
SetupFails(s) ==
    /\ s \in gone
    /\ at[s] \in {"accept", "greet"}
    /\ Goto(s, "closed")
    /\ UNCHANGED <<gone, conns, listener, next, job, sent, received, faults>>

Relays == Cardinality({n \in DOMAIN sent : sent[n].what = "relay"})

\* A message of the client to one user or to everyone else.  The value of
\* target_user_id goes to Redis as it came.
Relay(s, to) ==
    /\ at[s] = "relay"
    /\ to = Unhashable => Garbled
    /\ s \notin gone
    /\ Relays < MaxRelays
    /\ Publish(UserOf[s], to, "relay")
    /\ UNCHANGED <<at, gone, conns, listener, next, job, received, faults>>

\* payload.get raises for a JSON array: only WebSocketDisconnect and
\* JSONDecodeError are caught, so the handler ends without disconnect().
RelayGarbled(s) ==
    /\ Garbled
    /\ at[s] = "relay"
    /\ s \notin gone
    /\ Goto(s, "closed")
    /\ UNCHANGED <<gone, conns, listener, next, job, sent, received, faults>>

\* Redis fails under a publish or a read: the handler ends the same way.
HandlerFails(s) ==
    /\ at[s] \in {"announce", "greet", "relay", "farewell"}
    /\ Fault
    /\ Goto(s, "closed")
    /\ UNCHANGED <<gone, conns, listener, next, job, sent, received>>

\* Mutant: the listener of an emptied room is not stopped.
DisconnectKeepsListener(s) ==
    LET w == WorkerOf[s] IN
    /\ at[s] = "relay"
    /\ s \in gone
    /\ conns' = [conns EXCEPT ![w][UserOf[s]] = None]
    /\ Goto(s, "farewell")
    /\ UNCHANGED <<gone, listener, next, job, sent, received, faults>>

\* Mutant: the whole room is popped, not the user's entry in it.
DisconnectRoom(s) ==
    LET w == WorkerOf[s] IN
    /\ at[s] = "relay"
    /\ s \in gone
    /\ conns' = [conns EXCEPT ![w] = [u \in Users |-> None]]
    /\ listener' = [listener EXCEPT ![w] = "none"]
    /\ job' = [job EXCEPT ![w] = NoJob]
    /\ Goto(s, "farewell")
    /\ UNCHANGED <<gone, next, sent, received, faults>>

\* WebSocketDisconnect: disconnect() pops the user's entry, whichever socket
\* it holds, and stops the listener of a room that is now empty.
Disconnect(s) ==
    LET w == WorkerOf[s] IN
    /\ at[s] = "relay"
    /\ s \in gone
    /\ conns' = [conns EXCEPT ![w][UserOf[s]] = None]
    /\ IF RoomOpen(w) /\ ~RoomOpen(w)'
         THEN /\ listener' = [listener EXCEPT ![w] = "none"]
              /\ job' = [job EXCEPT ![w] = NoJob]
         ELSE UNCHANGED <<listener, job>>
    /\ Goto(s, "farewell")
    /\ UNCHANGED <<gone, next, sent, received, faults>>

\* Mutant: the others are not told.
FarewellSilent(s) ==
    /\ at[s] = "farewell"
    /\ Goto(s, "closed")
    /\ UNCHANGED <<gone, conns, listener, next, job, sent, received, faults>>

Farewell(s) ==
    /\ at[s] = "farewell"
    /\ Publish(UserOf[s], All, "left")
    /\ Goto(s, "closed")
    /\ UNCHANGED <<gone, conns, listener, next, job, received, faults>>

-----------------------------------------------------------------------------
(* _listen_to_redis.                                                       *)

Subscribe(w) ==
    /\ listener[w] = "starting"
    /\ listener' = [listener EXCEPT ![w] = "listening"]
    /\ next' = [next EXCEPT ![w] = Len(sent)]
    /\ UNCHANGED <<at, gone, conns, job, sent, received, faults>>

\* Mutant: the position is not advanced.
DispatchAgain(w) ==
    /\ listener[w] = "listening"
    /\ job[w].rest = {}
    /\ next[w] < Len(sent)
    /\ job' = [job EXCEPT ![w] = [n |-> next[w] + 1,
                                  rest |-> Addressees(w, sent[next[w] + 1])]]
    /\ UNCHANGED <<at, gone, conns, listener, next, sent, received, faults>>

\* The next message and a snapshot of the entries it is for.
Dispatch(w) ==
    /\ listener[w] = "listening"
    /\ job[w].rest = {}
    /\ next[w] < Len(sent)
    /\ sent[next[w] + 1].to # Unhashable
    /\ next' = [next EXCEPT ![w] = @ + 1]
    /\ job' = [job EXCEPT ![w] = [n |-> next[w] + 1,
                                  rest |-> Addressees(w, sent[next[w] + 1])]]
    /\ UNCHANGED <<at, gone, conns, listener, sent, received, faults>>

\* A target that is no key of a dict: the lookup raises TypeError outside the
\* try of the sends, the task is over, and _pubsub_tasks keeps it.
DispatchRaises(w) ==
    /\ listener[w] = "listening"
    /\ job[w].rest = {}
    /\ next[w] < Len(sent)
    /\ sent[next[w] + 1].to = Unhashable
    /\ next' = [next EXCEPT ![w] = @ + 1]
    /\ listener' = [listener EXCEPT ![w] = "dead"]
    /\ UNCHANGED <<at, gone, conns, job, sent, received, faults>>

\* Mutant: a send that raises is not caught, and the listener ends.
SendUncaught(w, s) ==
    /\ s \in job[w].rest
    /\ \/ /\ at[s] # "closed"
          /\ s \notin gone
          /\ received' = [received EXCEPT ![s] = Append(@, job[w].n)]
          /\ job' = [job EXCEPT ![w].rest = @ \ {s}]
          /\ UNCHANGED listener
       \/ /\ at[s] = "closed" \/ s \in gone
          /\ listener' = [listener EXCEPT ![w] = "dead"]
          /\ job' = [job EXCEPT ![w] = NoJob]
          /\ UNCHANGED received
    /\ UNCHANGED <<at, gone, conns, next, sent, faults>>

\* send_json to one socket; what it raises for a closed one is swallowed.
Send(w, s) ==
    /\ s \in job[w].rest
    /\ job' = [job EXCEPT ![w].rest = @ \ {s}]
    /\ received' = IF at[s] = "closed" \/ s \in gone THEN received
                   ELSE [received EXCEPT ![s] = Append(@, job[w].n)]
    /\ UNCHANGED <<at, gone, conns, listener, next, sent, faults>>

\* subscribe() or listen() raises: the task is over, and _pubsub_tasks keeps it.
ListenerFails(w) ==
    /\ listener[w] \in {"starting", "listening"}
    /\ Fault
    /\ listener' = [listener EXCEPT ![w] = "dead"]
    /\ job' = [job EXCEPT ![w] = NoJob]
    /\ UNCHANGED <<at, gone, conns, next, sent, received>>

-----------------------------------------------------------------------------
(* The clients.                                                            *)

CloseClient(s) ==
    /\ at[s] \notin {"idle", "closed"}
    /\ s \notin gone
    /\ gone' = gone \cup {s}
    /\ UNCHANGED <<at, conns, listener, next, job, sent, received, faults>>

\* What a handler does by itself.
Handler(s) ==
    \/ Connect(s) \/ Announce(s) \/ Greet(s) \/ SetupFails(s)
    \/ Disconnect(s) \/ Farewell(s)

Listener(w) ==
    Subscribe(w) \/ Dispatch(w) \/ DispatchRaises(w) \/ \E s \in Sockets : Send(w, s)

Next ==
    \/ \E s \in Sockets :
        \/ Open(s) \/ Handler(s) \/ CloseClient(s)
        \/ \E to \in Targets : Relay(s, to)
        \/ RelayGarbled(s) \/ HandlerFails(s)
    \/ \E w \in Workers : Listener(w) \/ ListenerFails(w)

Spec == Init /\ [][Next]_vars

\* Every task of the event loop that can go on does.
FairSpec ==
    /\ Spec
    /\ \A s \in Sockets : WF_vars(Handler(s))
    /\ \A w \in Workers : WF_vars(Listener(w))

-----------------------------------------------------------------------------
(* Properties.                                                             *)

\* A worker has a listener for the room exactly while it has an entry: none is
\* missing when the first user comes, none is left over when the last goes,
\* in whatever order sockets of the same user come and go.
ListenerPerRoom == \A w \in Workers : RoomOpen(w) <=> listener[w] # "none"

\* Everyone receives what is for them and nothing else: a unicast reaches its
\* target only, a broadcast never comes back to its sender, not even to
\* another socket of the same user.
OnlyAddressees ==
    \A s \in Sockets : \A k \in DOMAIN received[s] :
        LET m == sent[received[s][k]] IN
        IF m.to = All THEN m.from # UserOf[s] ELSE m.to = UserOf[s]

\* Every socket receives messages in the order they were published, each once
\* at most.
DeliveredInOrder ==
    \A s \in Sockets : \A j, k \in DOMAIN received[s] :
        j < k => received[s][j] < received[s][k]

\* The user of a socket that has connected and is served has an entry, be it
\* this socket's or another one's, and its worker a listener, unless another
\* socket of the same user on that worker has closed: neither the sockets of
\* other users, nor handlers that fail and leave their entries, nor listeners
\* that end take a user out of the room.
Sibling(s, t) == t # s /\ UserOf[t] = UserOf[s] /\ WorkerOf[t] = WorkerOf[s]

ServedIsReachable ==
    \A s \in Sockets :
        at[s] \in {"announce", "greet", "relay"} =>
            \/ /\ conns[WorkerOf[s]][UserOf[s]] # None
               /\ listener[WorkerOf[s]] # "none"
            \/ \E t \in gone : Sibling(s, t) /\ at[t] \in {"farewell", "closed"}

\* A socket whose client closes while it relays is taken out of the room, and
\* the others are told, unless Redis fails meanwhile.
ClosingIsAnnounced ==
    \A s \in Sockets :
        at[s] = "relay" /\ s \in gone ~>
            \/ /\ conns[WorkerOf[s]][UserOf[s]] # s
               /\ \E n \in DOMAIN sent :
                     sent[n].what = "left" /\ sent[n].from = UserOf[s]
            \/ faults > 0

\* A message for a registered socket that its listener has yet to read is
\* received, unless the socket closes or is replaced first, or the listener is
\* ended by Redis or by a target that is no key (no one starts another).
ReadIsDelivered ==
    \A s \in Sockets : \A n \in 1..(MaxRelays + 2 * Cardinality(Sockets)) :
        LET w == WorkerOf[s] IN
        /\ n \in DOMAIN sent
        /\ listener[w] = "listening" /\ next[w] < n
        /\ s \in Addressees(w, sent[n])
        ~> \/ \E k \in DOMAIN received[s] : received[s][k] = n
           \/ at[s] = "closed" \/ s \in gone
           \/ conns[w][UserOf[s]] # s
           \/ /\ listener[w] = "dead"
              /\ faults > 0 \/ \E k \in DOMAIN sent : sent[k].to = Unhashable

-----------------------------------------------------------------------------
(* The inductive invariant.                                                *)

\* An entry belongs to its user and its worker.
EntriesAreOwn ==
    \A w \in Workers, u \in Users :
        conns[w][u] # None =>
            UserOf[conns[w][u]] = u /\ WorkerOf[conns[w][u]] = w

\* The n-th message is for the user of socket s.
IsFor(n, s) ==
    /\ n \in DOMAIN sent
    /\ IF sent[n].to = All THEN sent[n].from # UserOf[s] ELSE sent[n].to = UserOf[s]

\* A listener sends the message it has read last, to sockets of its worker.
JobInv(w) ==
    /\ next[w] <= Len(sent)
    /\ \A s \in job[w].rest :
        /\ listener[w] = "listening"
        /\ WorkerOf[s] = w
        /\ IsFor(job[w].n, s)
        /\ job[w].n = next[w]

\* What a socket has received its listener has read, and before the message
\* that it is being sent.
ReceivedInv(s) ==
    \A k \in DOMAIN received[s] :
        /\ IsFor(received[s][k], s)
        /\ received[s][k] <= next[WorkerOf[s]]
        /\ s \in job[WorkerOf[s]].rest => received[s][k] < next[WorkerOf[s]]

IInv ==
    /\ TypeOK
    /\ ListenerPerRoom
    /\ EntriesAreOwn
    /\ \A w \in Workers : JobInv(w)
    /\ \A s \in Sockets : ReceivedInv(s)
    /\ DeliveredInOrder

\* Only a closed client's socket gets to its farewell, so that the socket whose
\* disconnect() took an entry away stays among those that have closed.
ReachInv ==
    /\ \A s \in Sockets : at[s] = "farewell" => s \in gone
    /\ ServedIsReachable

-----------------------------------------------------------------------------
(* What a comment of the repository says and the code does not keep.       *)

\* active_connections maps a room to its open sockets: the user of an open
\* socket in the relay loop has an entry.
OpenSocketHasEntry ==
    \A s \in Sockets :
        at[s] = "relay" /\ s \notin gone => conns[WorkerOf[s]][UserOf[s]] # None
=============================================================================
