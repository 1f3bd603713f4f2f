-------------------------- MODULE SignalingProofs --------------------------
(* Theorems about Signaling, for every number of users, sockets, workers   *)
(* and faults.                                                             *)
EXTENDS Signaling, TLAPS

\* Appending to the channel keeps what has been published.
LEMMA PublishKeeps ==
    ASSUME TypeOK, NEW u \in Users, NEW to \in Targets,
           NEW what \in {"joined", "left", "relay"}, Publish(u, to, what)
    PROVE  /\ sent' \in Seq(Message)
           /\ Len(sent') = Len(sent) + 1
           /\ \A n \in DOMAIN sent : n \in DOMAIN sent' /\ sent'[n] = sent[n]
<1> DEFINE m == [from |-> u, to |-> to, what |-> what]
<1>1. m \in Message
  BY DEF Message
<1>2. sent \in Seq(Message) /\ sent' = Append(sent, m)
  BY DEF TypeOK, Publish
<1> HIDE DEF m
<1> QED
  BY <1>1, <1>2

LEMMA AddresseesAreFor ==
    ASSUME IInv, NEW w \in Workers, NEW n \in DOMAIN sent,
           NEW s \in Addressees(w, sent[n])
    PROVE  s \in Sockets /\ WorkerOf[s] = w /\ IsFor(n, s)
BY SignalingAssumption DEF Addressees, IsFor, IInv, EntriesAreOwn

LEMMA TypeInit == Init => TypeOK
BY SignalingAssumption DEF Init, TypeOK, Places, Tasks, NoJob

LEMMA InvInit == Init => IInv
<1> SUFFICES ASSUME Init PROVE IInv
  OBVIOUS
<1>1. ListenerPerRoom /\ EntriesAreOwn
  BY DEF Init, ListenerPerRoom, RoomOpen, EntriesAreOwn
<1>2. \A w \in Workers : JobInv(w)
  BY DEF Init, JobInv, NoJob
<1>3. (\A s \in Sockets : ReceivedInv(s)) /\ DeliveredInOrder
  BY DEF Init, ReceivedInv, DeliveredInOrder
<1> QED
  BY <1>1, <1>2, <1>3, TypeInit DEF IInv

-----------------------------------------------------------------------------
(* Steps that leave the entries, the tasks and what they send alone.       *)

LEMMA QuietStep ==
    ASSUME IInv, TypeOK', UNCHANGED <<conns, listener, next, job, received>>,
           \A n \in DOMAIN sent : n \in DOMAIN sent' /\ sent'[n] = sent[n]
    PROVE  IInv'
<1>1. ListenerPerRoom' /\ EntriesAreOwn' /\ DeliveredInOrder'
  BY DEF IInv, ListenerPerRoom, RoomOpen, EntriesAreOwn, DeliveredInOrder
<1>2. ASSUME NEW n, NEW s \in Sockets, IsFor(n, s) PROVE IsFor(n, s)'
  BY <1>2 DEF IsFor
<1>3. Len(sent) <= Len(sent')
  <2>1. sent \in Seq(Message) /\ sent' \in Seq(Message)
    BY DEF IInv, TypeOK
  <2>2. Len(sent) = 0 \/ Len(sent) \in DOMAIN sent'
    BY <2>1
  <2> QED
    BY <2>1, <2>2
<1>4. ASSUME NEW w \in Workers PROVE JobInv(w)'
  <2>1. sent \in Seq(Message) /\ sent' \in Seq(Message) /\ next[w] \in Nat
    BY DEF IInv, TypeOK
  <2>2. next'[w] <= Len(sent')
    BY <1>3, <2>1 DEF IInv, JobInv
  <2> QED
    BY <1>2, <2>2 DEF IInv, JobInv, TypeOK
<1>5. ASSUME NEW s \in Sockets PROVE ReceivedInv(s)'
  BY <1>2 DEF IInv, ReceivedInv
<1> QED
  BY <1>1, <1>4, <1>5 DEF IInv

LEMMA HandlerInv ==
    ASSUME IInv, NEW s \in Sockets,
           \/ Open(s) \/ Announce(s) \/ Greet(s) \/ SetupFails(s) \/ Farewell(s)
           \/ CloseClient(s) \/ RelayGarbled(s) \/ HandlerFails(s)
           \/ \E to \in Targets : Relay(s, to)
    PROVE  IInv'
<1>0. TypeOK /\ UserOf[s] \in Users /\ All \in Targets
  BY SignalingAssumption DEF IInv, Targets
<1>1. ASSUME NEW place \in Places, Goto(s, place)
      PROVE  at' \in [Sockets -> Places]
  BY <1>0, <1>1 DEF Goto, TypeOK
<1>2. CASE Open(s) \/ Greet(s) \/ SetupFails(s) \/ RelayGarbled(s)
  <2>1. TypeOK'
    BY <1>0, <1>1, <1>2
       DEF Open, Greet, SetupFails, RelayGarbled, TypeOK, Places
  <2> QED
    BY <1>2, <2>1, QuietStep DEF Open, Greet, SetupFails, RelayGarbled
<1>3. CASE CloseClient(s)
  BY <1>0, <1>3, QuietStep DEF CloseClient, TypeOK
<1>4. CASE HandlerFails(s)
  <2>1. TypeOK'
    BY <1>0, <1>1, <1>4, SignalingAssumption DEF HandlerFails, Fault, TypeOK, Places
  <2> QED
    BY <1>4, <2>1, QuietStep DEF HandlerFails
<1>5. CASE Announce(s)
  BY <1>0, <1>1, <1>5, PublishKeeps, QuietStep DEF Announce, TypeOK, Places
<1>6. CASE Farewell(s)
  BY <1>0, <1>1, <1>6, PublishKeeps, QuietStep DEF Farewell, TypeOK, Places
<1>7. ASSUME NEW to \in Targets, Relay(s, to) PROVE IInv'
  BY <1>0, <1>7, PublishKeeps, QuietStep DEF Relay, TypeOK
<1> QED
  BY <1>2, <1>3, <1>4, <1>5, <1>6, <1>7

-----------------------------------------------------------------------------
(* Steps that change the entries or the tasks.                             *)

\* The messages, what has been read of them and what has been received stay;
\* every worker keeps its job or drops it.
LEMMA EntryStep ==
    ASSUME IInv, TypeOK', UNCHANGED <<next, sent, received>>,
           \A w \in Workers :
              \/ job'[w] = NoJob
              \/ job'[w] = job[w] /\ (job[w].rest = {} \/ listener'[w] = listener[w]),
           ListenerPerRoom', EntriesAreOwn'
    PROVE  IInv'
<1>1. \A w \in Workers : job'[w].rest \subseteq job[w].rest
  BY DEF NoJob
<1>2. ASSUME NEW w \in Workers PROVE JobInv(w)'
  BY <1>2 DEF IInv, JobInv, IsFor, NoJob
<1>3. ASSUME NEW s \in Sockets PROVE ReceivedInv(s)'
  BY <1>1, <1>3, SignalingAssumption DEF IInv, ReceivedInv, IsFor
<1>4. DeliveredInOrder'
  BY DEF IInv, DeliveredInOrder
<1> QED
  BY <1>2, <1>3, <1>4 DEF IInv

LEMMA ConnectInv ==
    ASSUME IInv, NEW s \in Sockets, Connect(s)
    PROVE  IInv'
<1> DEFINE w == WorkerOf[s]
           u == UserOf[s]
<1>0. TypeOK /\ w \in Workers /\ u \in Users /\ s # None
  BY SignalingAssumption DEF IInv
<1>1. conns' = [conns EXCEPT ![w][u] = s]
  BY DEF Connect
<1>2. /\ conns'[w][u] = s
      /\ \A x \in Workers, y \in Users :
            (x # w \/ y # u) => conns'[x][y] = conns[x][y]
  BY <1>0, <1>1 DEF TypeOK
<1>3. /\ listener'[w] = IF RoomOpen(w) THEN listener[w] ELSE "starting"
      /\ \A x \in Workers \ {w} : listener'[x] = listener[x]
  BY <1>0 DEF Connect, TypeOK
<1>4. TypeOK'
  <2>1. conns' \in [Workers -> [Users -> Sockets \cup {None}]]
    BY <1>0, <1>1 DEF TypeOK
  <2>2. at' \in [Sockets -> Places] /\ listener' \in [Workers -> Tasks]
    BY <1>0 DEF Connect, Goto, TypeOK, Places, Tasks
  <2> QED
    BY <1>0, <2>1, <2>2 DEF Connect, TypeOK
<1>5. ListenerPerRoom'
  BY <1>0, <1>2, <1>3 DEF IInv, ListenerPerRoom, RoomOpen
<1>6. EntriesAreOwn'
  BY <1>0, <1>2 DEF IInv, EntriesAreOwn
<1>7. \A x \in Workers : job'[x] = job[x] /\
            (job[x].rest = {} \/ listener'[x] = listener[x])
  <2>1. ASSUME NEW x \in Workers, job[x].rest # {} PROVE listener'[x] = listener[x]
    BY <1>3, <2>1, <1>0 DEF IInv, JobInv, ListenerPerRoom, TypeOK
  <2> QED
    BY <2>1 DEF Connect
<1> QED
  BY <1>4, <1>5, <1>6, <1>7, EntryStep DEF Connect

LEMMA DisconnectInv ==
    ASSUME IInv, NEW s \in Sockets, Disconnect(s)
    PROVE  IInv'
<1> DEFINE w == WorkerOf[s]
           u == UserOf[s]
<1>0. TypeOK /\ w \in Workers /\ u \in Users
  BY SignalingAssumption DEF IInv
<1>1. conns' = [conns EXCEPT ![w][u] = None]
  BY DEF Disconnect
<1>2. /\ conns'[w][u] = None
      /\ \A x \in Workers, y \in Users :
            (x # w \/ y # u) => conns'[x][y] = conns[x][y]
  BY <1>0, <1>1 DEF TypeOK
<1>3. \/ /\ RoomOpen(w) /\ ~RoomOpen(w)'
         /\ listener' = [listener EXCEPT ![w] = "none"]
         /\ job' = [job EXCEPT ![w] = NoJob]
      \/ /\ ~RoomOpen(w) \/ RoomOpen(w)'
         /\ UNCHANGED <<listener, job>>
  BY DEF Disconnect
<1>4. TypeOK'
  <2>1. conns' \in [Workers -> [Users -> Sockets \cup {None}]]
    BY <1>0, <1>1 DEF TypeOK
  <2>2. at' \in [Sockets -> Places]
    BY <1>0 DEF Disconnect, Goto, TypeOK, Places
  <2>3. NoJob \in [n: Nat, rest: SUBSET Sockets] /\ "none" \in Tasks
    BY DEF NoJob, Tasks
  <2>4. listener' \in [Workers -> Tasks]
    BY <1>0, <1>3, <2>3 DEF TypeOK
  <2>5. job' \in [Workers -> [n: Nat, rest: SUBSET Sockets]]
    BY <1>0, <1>3, <2>3 DEF TypeOK
  <2> QED
    BY <1>0, <2>1, <2>2, <2>4, <2>5 DEF Disconnect, TypeOK
<1>5. ListenerPerRoom'
  <2>1. ASSUME NEW x \in Workers \ {w} PROVE RoomOpen(x)' <=> listener'[x] # "none"
    <3>1. listener'[x] = listener[x]
      BY <1>0, <1>3 DEF TypeOK
    <3>2. \A y \in Users : conns'[x][y] = conns[x][y]
      BY <1>2
    <3> QED
      BY <3>1, <3>2 DEF IInv, ListenerPerRoom, RoomOpen
  <2>2. RoomOpen(w)' => RoomOpen(w)
    BY <1>0, <1>2 DEF RoomOpen
  <2>3. RoomOpen(w)' <=> listener'[w] # "none"
    BY <1>0, <1>3, <2>2 DEF IInv, ListenerPerRoom, TypeOK
  <2> QED
    BY <2>1, <2>3 DEF ListenerPerRoom
<1>6. EntriesAreOwn'
  BY <1>0, <1>2 DEF IInv, EntriesAreOwn
<1>7. \A x \in Workers :
        \/ job'[x] = NoJob
        \/ job'[x] = job[x] /\ (job[x].rest = {} \/ listener'[x] = listener[x])
  BY <1>0, <1>3 DEF TypeOK
<1> QED
  BY <1>4, <1>5, <1>6, <1>7, EntryStep DEF Disconnect

LEMMA ListenerFailsInv ==
    ASSUME IInv, NEW w \in Workers, ListenerFails(w)
    PROVE  IInv'
<1>1. TypeOK'
  BY SignalingAssumption DEF ListenerFails, Fault, IInv, TypeOK, Tasks, NoJob
<1>2. ListenerPerRoom' /\ EntriesAreOwn'
  BY DEF ListenerFails, IInv, ListenerPerRoom, RoomOpen, EntriesAreOwn, TypeOK
<1>3. \A x \in Workers :
        \/ job'[x] = NoJob
        \/ job'[x] = job[x] /\ (job[x].rest = {} \/ listener'[x] = listener[x])
  BY DEF ListenerFails, IInv, TypeOK
<1> QED
  BY <1>1, <1>2, <1>3, EntryStep DEF ListenerFails

-----------------------------------------------------------------------------
(* The listener.                                                           *)

LEMMA SubscribeInv ==
    ASSUME IInv, NEW w \in Workers, Subscribe(w)
    PROVE  IInv'
<1>0. TypeOK /\ sent \in Seq(Message) /\ Len(sent) \in Nat
  BY DEF IInv, TypeOK
<1>1. TypeOK'
  BY <1>0 DEF Subscribe, TypeOK, Tasks
<1>2. ListenerPerRoom' /\ EntriesAreOwn' /\ DeliveredInOrder'
  BY DEF Subscribe, IInv, ListenerPerRoom, RoomOpen, EntriesAreOwn, TypeOK,
         DeliveredInOrder
<1>3. job[w].rest = {}
  BY DEF Subscribe, IInv, JobInv
<1>4. ASSUME NEW x \in Workers PROVE JobInv(x)'
  <2>1. CASE x = w
    BY <1>0, <1>3, <2>1 DEF Subscribe, JobInv, TypeOK
  <2>2. CASE x # w
    BY <1>0, <2>2 DEF Subscribe, IInv, JobInv, IsFor, TypeOK
  <2> QED
    BY <2>1, <2>2
<1>5. \A x \in Workers : next[x] <= next'[x]
  BY <1>0 DEF Subscribe, IInv, JobInv, TypeOK
<1>6. ASSUME NEW s \in Sockets PROVE ReceivedInv(s)'
  <2>1. received' = received /\ sent' = sent /\ job' = job
    BY DEF Subscribe
  <2>2. ASSUME NEW k \in DOMAIN received[s]
        PROVE  /\ IsFor(received[s][k], s)
               /\ received[s][k] <= next'[WorkerOf[s]]
               /\ s \in job[WorkerOf[s]].rest =>
                    received[s][k] < next'[WorkerOf[s]]
    <3>1. /\ received[s][k] \in Nat /\ WorkerOf[s] \in Workers
          /\ next[WorkerOf[s]] \in Nat /\ next'[WorkerOf[s]] \in Nat
      BY SMTT(30), <1>0, <1>1, SignalingAssumption DEF TypeOK
    <3>2. /\ IsFor(received[s][k], s)
          /\ received[s][k] <= next[WorkerOf[s]]
          /\ s \in job[WorkerOf[s]].rest => received[s][k] < next[WorkerOf[s]]
      BY DEF IInv, ReceivedInv
    <3> QED
      BY <1>5, <3>1, <3>2
  <2> QED
    BY <2>1, <2>2 DEF ReceivedInv, IsFor
<1> QED
  BY <1>1, <1>2, <1>4, <1>6 DEF IInv

LEMMA DispatchInv ==
    ASSUME IInv, NEW w \in Workers, Dispatch(w)
    PROVE  IInv'
<1> DEFINE n == next[w] + 1
<1>0. TypeOK /\ sent \in Seq(Message) /\ next[w] \in Nat /\ Len(sent) \in Nat
  BY DEF IInv, TypeOK
<1>1. n \in DOMAIN sent /\ n \in Nat /\ n <= Len(sent)
  BY <1>0 DEF Dispatch
<1>2. \A s \in Addressees(w, sent[n]) :
        s \in Sockets /\ WorkerOf[s] = w /\ IsFor(n, s)
  BY <1>1, AddresseesAreFor
<1>3. /\ next' = [next EXCEPT ![w] = n]
      /\ job' = [job EXCEPT ![w] = [n |-> n, rest |-> Addressees(w, sent[n])]]
      /\ UNCHANGED <<at, gone, conns, listener, sent, received, faults>>
      /\ listener[w] = "listening"
  BY DEF Dispatch
<1> HIDE DEF n
<1>4. TypeOK'
  BY <1>0, <1>1, <1>2, <1>3 DEF TypeOK
<1>5. ListenerPerRoom' /\ EntriesAreOwn' /\ DeliveredInOrder'
  BY <1>3 DEF IInv, ListenerPerRoom, RoomOpen, EntriesAreOwn, DeliveredInOrder
<1>6. /\ next'[w] = n /\ job'[w].n = n /\ job'[w].rest = Addressees(w, sent[n])
      /\ \A x \in Workers \ {w} : next'[x] = next[x] /\ job'[x] = job[x]
  BY <1>0, <1>3 DEF TypeOK
<1>7. ASSUME NEW x \in Workers PROVE JobInv(x)'
  <2>1. CASE x = w
    BY <1>1, <1>2, <1>3, <1>6, <2>1 DEF JobInv, IsFor
  <2>2. CASE x # w
    BY <1>3, <1>6, <2>2 DEF IInv, JobInv, IsFor
  <2> QED
    BY <2>1, <2>2
<1>8. ASSUME NEW s \in Sockets PROVE ReceivedInv(s)'
  <2>1. ASSUME NEW k \in DOMAIN received[s]
        PROVE  /\ IsFor(received[s][k], s)
               /\ received[s][k] <= next'[WorkerOf[s]]
               /\ s \in job'[WorkerOf[s]].rest =>
                    received[s][k] < next'[WorkerOf[s]]
    <3>1. received[s][k] \in Nat /\ WorkerOf[s] \in Workers
      BY <1>0, SignalingAssumption DEF TypeOK
    <3>2. received[s][k] <= next[WorkerOf[s]] /\ IsFor(received[s][k], s)
      BY DEF IInv, ReceivedInv
    <3>3. CASE WorkerOf[s] = w
      <4>1. received[s][k] < n
        BY <1>0, <3>1, <3>2, <3>3 DEF n
      <4> QED
        BY <1>1, <1>6, <3>1, <3>2, <3>3, <4>1
    <3>4. CASE WorkerOf[s] # w
      BY <1>6, <3>1, <3>2, <3>4 DEF IInv, ReceivedInv
    <3> QED
      BY <3>3, <3>4
  <2> QED
    BY <1>3, <2>1 DEF ReceivedInv, IsFor
<1> QED
  BY <1>4, <1>5, <1>7, <1>8 DEF IInv

LEMMA DispatchRaisesInv ==
    ASSUME IInv, NEW w \in Workers, DispatchRaises(w)
    PROVE  IInv'
<1>0. TypeOK /\ sent \in Seq(Message) /\ next[w] \in Nat /\ Len(sent) \in Nat
  BY DEF IInv, TypeOK
<1>1. /\ next[w] + 1 <= Len(sent) /\ job[w].rest = {} /\ listener[w] = "listening"
      /\ next' = [next EXCEPT ![w] = next[w] + 1]
      /\ listener' = [listener EXCEPT ![w] = "dead"]
      /\ UNCHANGED <<at, gone, conns, job, sent, received, faults>>
  BY <1>0 DEF DispatchRaises
<1>2. TypeOK'
  BY <1>0, <1>1 DEF TypeOK, Tasks
<1>3. ListenerPerRoom' /\ EntriesAreOwn' /\ DeliveredInOrder'
  BY <1>0, <1>1 DEF IInv, ListenerPerRoom, RoomOpen, EntriesAreOwn,
                    DeliveredInOrder, TypeOK
<1>4. /\ next'[w] = next[w] + 1 /\ listener'[w] = "dead"
      /\ \A x \in Workers \ {w} : next'[x] = next[x] /\ listener'[x] = listener[x]
  BY <1>0, <1>1 DEF TypeOK
<1>5. ASSUME NEW x \in Workers PROVE JobInv(x)'
  BY <1>0, <1>1, <1>4 DEF IInv, JobInv, IsFor
<1>6. ASSUME NEW s \in Sockets PROVE ReceivedInv(s)'
  <2>1. ASSUME NEW k \in DOMAIN received[s]
        PROVE  /\ IsFor(received[s][k], s)
               /\ received[s][k] <= next'[WorkerOf[s]]
               /\ s \in job[WorkerOf[s]].rest =>
                    received[s][k] < next'[WorkerOf[s]]
    <3>1. /\ received[s][k] \in Nat /\ WorkerOf[s] \in Workers
          /\ next[WorkerOf[s]] \in Nat
      BY <1>0, SignalingAssumption DEF TypeOK
    <3>2. /\ received[s][k] <= next[WorkerOf[s]] /\ IsFor(received[s][k], s)
          /\ s \in job[WorkerOf[s]].rest => received[s][k] < next[WorkerOf[s]]
      BY DEF IInv, ReceivedInv
    <3> QED
      BY <1>1, <1>4, <3>1, <3>2
  <2> QED
    BY <1>1, <2>1 DEF ReceivedInv, IsFor
<1> QED
  BY <1>2, <1>3, <1>5, <1>6 DEF IInv

LEMMA SendInv ==
    ASSUME IInv, NEW w \in Workers, NEW s \in Sockets, Send(w, s)
    PROVE  IInv'
<1>0. TypeOK
  BY DEF IInv
<1>1. /\ s \in job[w].rest
      /\ job' = [job EXCEPT ![w].rest = @ \ {s}]
      /\ UNCHANGED <<at, gone, conns, listener, next, sent, faults>>
  BY DEF Send
<1>2. /\ WorkerOf[s] = w /\ IsFor(job[w].n, s) /\ job[w].n = next[w]
      /\ next[w] \in Nat
  BY <1>0, <1>1 DEF IInv, JobInv, TypeOK
<1>3. /\ job'[w].rest = job[w].rest \ {s} /\ job'[w].n = job[w].n
      /\ \A x \in Workers \ {w} : job'[x] = job[x]
  BY <1>0, <1>1 DEF TypeOK
<1>4. /\ \A t \in Sockets \ {s} : received'[t] = received[t]
      /\ received'[s] \in {received[s], Append(received[s], next[w])}
      /\ received' \in [Sockets -> Seq(Nat)]
  BY <1>0, <1>2 DEF Send, TypeOK
<1>5. TypeOK'
  BY <1>0, <1>1, <1>4 DEF TypeOK
<1>6. ListenerPerRoom' /\ EntriesAreOwn'
  BY <1>1 DEF IInv, ListenerPerRoom, RoomOpen, EntriesAreOwn
<1>7. ASSUME NEW x \in Workers PROVE JobInv(x)'
  <2>1. JobInv(x)
    BY DEF IInv
  <2>2. job'[x].rest \subseteq job[x].rest /\ job'[x].n = job[x].n
    BY <1>3
  <2> QED
    BY <1>1, <2>1, <2>2 DEF JobInv, IsFor
<1>8. received[s] \in Seq(Nat)
  BY <1>0 DEF TypeOK
\* What s had received comes before the message it is sent now.
<1>9. \A k \in DOMAIN received[s] :
        /\ IsFor(received[s][k], s) /\ received[s][k] \in Nat
        /\ received[s][k] < next[w]
  BY <1>1, <1>2, <1>8 DEF IInv, ReceivedInv
<1>10. ASSUME NEW k \in DOMAIN received'[s]
       PROVE  /\ IsFor(received'[s][k], s) /\ received'[s][k] \in Nat
              /\ received'[s][k] <= next[w]
              /\ k \in DOMAIN received[s] => received'[s][k] = received[s][k]
              /\ k \notin DOMAIN received[s] =>
                    received'[s][k] = next[w] /\ k = Len(received[s]) + 1
  <2>1. CASE received'[s] = received[s]
    BY <1>2, <1>9, <2>1
  <2>2. CASE received'[s] = Append(received[s], next[w])
    BY <1>2, <1>8, <1>9, <2>2
  <2> QED
    BY <1>4, <2>1, <2>2
<1>11. ASSUME NEW t \in Sockets PROVE ReceivedInv(t)'
  <2>1. CASE t = s
    BY <1>1, <1>2, <1>3, <1>10, <2>1 DEF ReceivedInv, IsFor
  <2>2. CASE t # s
    <3>1. received'[t] = received[t] /\ ReceivedInv(t) /\ WorkerOf[t] \in Workers
      BY <1>4, <2>2, SignalingAssumption DEF IInv
    <3>2. job'[WorkerOf[t]].rest \subseteq job[WorkerOf[t]].rest
      BY <1>3, <3>1
    <3> QED
      BY <1>1, <3>1, <3>2 DEF ReceivedInv, IsFor
  <2> QED
    BY <2>1, <2>2
<1>12. DeliveredInOrder'
  <2>1. ASSUME NEW j \in DOMAIN received'[s], NEW k \in DOMAIN received'[s], j < k
        PROVE  received'[s][j] < received'[s][k]
    <3>1. CASE k \in DOMAIN received[s]
      <4>1. j \in DOMAIN received[s]
        BY <1>4, <1>8, <2>1, <3>1
      <4> QED
        BY <1>10, <2>1, <3>1, <4>1 DEF IInv, DeliveredInOrder
    <3>2. CASE k \notin DOMAIN received[s]
      <4>1. j \in DOMAIN received[s]
        BY <1>4, <1>8, <1>10, <2>1, <3>2
      <4> QED
        BY <1>9, <1>10, <3>2, <4>1
    <3> QED
      BY <3>1, <3>2
  <2> QED
    BY <1>4, <2>1 DEF IInv, DeliveredInOrder
<1> QED
  BY <1>5, <1>6, <1>7, <1>11, <1>12 DEF IInv

-----------------------------------------------------------------------------
LEMMA InvStep == IInv /\ [Next]_vars => IInv'
<1> SUFFICES ASSUME IInv, [Next]_vars PROVE IInv'
  OBVIOUS
<1>1. CASE UNCHANGED vars
  <2>1. TypeOK'
    BY <1>1 DEF vars, IInv, TypeOK
  <2> QED
    BY <1>1, <2>1, QuietStep DEF vars
<1>2. ASSUME NEW s \in Sockets,
             \/ Open(s) \/ Handler(s) \/ CloseClient(s)
             \/ \E to \in Targets : Relay(s, to)
             \/ RelayGarbled(s) \/ HandlerFails(s)
      PROVE  IInv'
  BY <1>2, HandlerInv, ConnectInv, DisconnectInv DEF Handler
<1>3. ASSUME NEW w \in Workers, Listener(w) \/ ListenerFails(w) PROVE IInv'
  BY <1>3, SubscribeInv, DispatchInv, DispatchRaisesInv, SendInv,
          ListenerFailsInv DEF Listener
<1> QED
  BY <1>1, <1>2, <1>3 DEF Next

\* The inductive invariant holds in every reachable state.
THEOREM SignalingInvariant == Spec => []IInv
BY InvInit, InvStep, PTL DEF Spec

\* A worker has a listener task for the room exactly while it has an entry.
THEOREM RoomHasListener == Spec => []ListenerPerRoom
<1>1. IInv => ListenerPerRoom
  BY DEF IInv
<1> QED
  BY <1>1, SignalingInvariant, PTL

\* Whatever is received or in a listener's hand is a message that was sent.
THEOREM SignalingTypes == Spec => []TypeOK
<1>1. IInv => TypeOK
  BY DEF IInv
<1> QED
  BY <1>1, SignalingInvariant, PTL

\* Nobody receives a message that is not for them, or their own broadcast.
THEOREM NothingMisdirected == Spec => []OnlyAddressees
<1>1. IInv => OnlyAddressees
  BY DEF IInv, OnlyAddressees, ReceivedInv, IsFor
<1> QED
  BY <1>1, SignalingInvariant, PTL

\* Every socket receives messages in the order of the channel, each at most
\* once, across failures and restarts of the listener.
THEOREM ChannelOrder == Spec => []DeliveredInOrder
<1>1. IInv => DeliveredInOrder
  BY DEF IInv
<1> QED
  BY <1>1, SignalingInvariant, PTL

-----------------------------------------------------------------------------
(* Who can be reached.                                                     *)

Served == {"announce", "greet", "relay"}

\* The user and the worker of t are those of s.
SameEntry(s, t) == UserOf[t] = UserOf[s] /\ WorkerOf[t] = WorkerOf[s]

\* What ServedIsReachable says of the entries alone.
HasEntry(s) ==
    \/ conns[WorkerOf[s]][UserOf[s]] # None
    \/ \E t \in gone : Sibling(s, t) /\ at[t] \in {"farewell", "closed"}

LEMMA EntryIsEnough ==
    ASSUME IInv', \A s \in Sockets : at'[s] \in Served => HasEntry(s)'
    PROVE  ServedIsReachable'
<1> SUFFICES ASSUME NEW s \in Sockets, conns'[WorkerOf[s]][UserOf[s]] # None
             PROVE  listener'[WorkerOf[s]] # "none"
  BY DEF ServedIsReachable, HasEntry, Served
<1> QED
  BY SignalingAssumption DEF IInv, ListenerPerRoom, RoomOpen

\* A socket goes on, or its handler ends, and no entry changes: who has
\* closed stays so.
LEMMA PlaceStep ==
    ASSUME IInv, IInv', ReachInv, NEW s \in Sockets, NEW place \in Places,
           Goto(s, place), UNCHANGED <<conns, gone>>,
           place \in Served => at[s] \in Served,
           at[s] = "farewell" => place = "closed",
           at[s] # "closed", place # "farewell"
    PROVE  ReachInv'
<1>1. \A t \in Sockets : at'[t] = IF t = s THEN place ELSE at[t]
  BY DEF Goto, IInv, TypeOK
<1>2. ASSUME NEW t \in Sockets, at'[t] \in Served PROVE HasEntry(t)'
  <2>1. HasEntry(t)
    BY <1>1, <1>2 DEF ReachInv, ServedIsReachable, HasEntry, Served
  <2>2. gone \subseteq Sockets
    BY DEF IInv, TypeOK
  <2> QED
    BY <1>1, <2>1, <2>2 DEF HasEntry, Sibling
<1>3. ServedIsReachable'
  BY <1>2, EntryIsEnough
<1> QED
  BY <1>1, <1>3 DEF ReachInv

LEMMA ReachStep == IInv /\ IInv' /\ ReachInv /\ [Next]_vars => ReachInv'
<1> SUFFICES ASSUME IInv, IInv', ReachInv, [Next]_vars PROVE ReachInv'
  OBVIOUS
<1>t. TypeOK /\ TypeOK' /\ gone \subseteq Sockets
  BY DEF IInv, TypeOK
<1>e. ASSUME \A s \in Sockets : at'[s] \in Served => HasEntry(s)'
      PROVE  ServedIsReachable'
  BY <1>e, EntryIsEnough
<1>h. ASSUME NEW s \in Sockets, at[s] \in Served PROVE HasEntry(s)
  BY <1>h DEF ReachInv, ServedIsReachable, HasEntry, Served
<1>1. ASSUME UNCHANGED <<at, conns>>, gone \subseteq gone' PROVE ReachInv'
  <2>1. ASSUME NEW s \in Sockets, at'[s] \in Served PROVE HasEntry(s)'
    BY <1>1, <1>h, <2>1 DEF HasEntry
  <2> QED
    BY <1>1, <1>e, <2>1 DEF ReachInv
<1>2. ASSUME NEW s \in Sockets,
             \/ Open(s) \/ Announce(s) \/ Greet(s) \/ SetupFails(s) \/ Farewell(s)
             \/ RelayGarbled(s) \/ HandlerFails(s)
      PROVE  ReachInv'
  BY <1>2, PlaceStep DEF Open, Announce, Greet, SetupFails, Farewell,
                         RelayGarbled, HandlerFails, Places, Served
<1>3. ASSUME NEW s \in Sockets, Connect(s) PROVE ReachInv'
  <2>1. /\ \A t \in Sockets : at'[t] = IF t = s THEN "announce" ELSE at[t]
        /\ \A t \in Sockets : conns'[WorkerOf[t]][UserOf[t]] =
              IF SameEntry(s, t) THEN s ELSE conns[WorkerOf[t]][UserOf[t]]
        /\ gone' = gone /\ at[s] = "accept" /\ s # None
    BY <1>3, <1>t, SignalingAssumption DEF Connect, Goto, TypeOK, SameEntry
  <2>2. ASSUME NEW t \in Sockets, at'[t] \in Served PROVE HasEntry(t)'
    <3>1. CASE SameEntry(s, t)
      BY <2>1, <3>1 DEF HasEntry
    <3>2. CASE ~SameEntry(s, t)
      <4>1. HasEntry(t)
        BY <1>h, <2>1, <2>2, <3>2 DEF SameEntry
      <4> QED
        BY <1>t, <2>1, <3>2, <4>1 DEF HasEntry, Sibling
    <3> QED
      BY <3>1, <3>2
  <2> QED
    BY <1>e, <2>1, <2>2 DEF ReachInv
<1>4. ASSUME NEW s \in Sockets, Disconnect(s) PROVE ReachInv'
  <2>1. /\ \A t \in Sockets : at'[t] = IF t = s THEN "farewell" ELSE at[t]
        /\ \A t \in Sockets : conns'[WorkerOf[t]][UserOf[t]] =
              IF SameEntry(s, t) THEN None ELSE conns[WorkerOf[t]][UserOf[t]]
        /\ gone' = gone /\ s \in gone /\ at[s] = "relay"
    BY <1>4, <1>t, SignalingAssumption DEF Disconnect, Goto, TypeOK, SameEntry
  <2>2. ASSUME NEW t \in Sockets, at'[t] \in Served PROVE HasEntry(t)'
    <3>1. t # s /\ at[t] \in Served
      BY <2>1, <2>2 DEF Served
    <3>2. CASE SameEntry(s, t)
      BY <2>1, <3>1, <3>2 DEF HasEntry, Sibling, SameEntry
    <3>3. CASE ~SameEntry(s, t)
      BY <1>h, <1>t, <2>1, <3>1, <3>3 DEF HasEntry, Sibling
    <3> QED
      BY <3>2, <3>3
  <2> QED
    BY <1>e, <2>1, <2>2 DEF ReachInv
<1>5. ASSUME NEW s \in Sockets,
             CloseClient(s) \/ \E to \in Targets : Relay(s, to)
      PROVE  ReachInv'
  BY <1>1, <1>5 DEF CloseClient, Relay
<1>6. ASSUME NEW w \in Workers, Listener(w) \/ ListenerFails(w) PROVE ReachInv'
  BY <1>1, <1>6
     DEF Listener, Subscribe, Dispatch, DispatchRaises, Send, ListenerFails
<1>7. CASE UNCHANGED vars
  BY <1>1, <1>7 DEF vars
<1> QED
  BY <1>2, <1>3, <1>4, <1>5, <1>6, <1>7 DEF Next, Handler

\* Whoever is served can be reached, unless another socket of the same user on
\* the same worker has closed: that is the one way out of the room, whatever
\* fails and however sockets of the same and of other users come and go.
THEOREM OnlySiblingsUnregister == Spec => []ServedIsReachable
<1>1. Init => ReachInv
  BY DEF Init, ReachInv, ServedIsReachable
<1>2. IInv /\ IInv' /\ ReachInv /\ [Next]_vars => ReachInv'
  BY ReachStep
<1>3. ReachInv => ServedIsReachable
  BY DEF ReachInv
<1> QED
  BY <1>1, <1>2, <1>3, SignalingInvariant, PTL DEF Spec
=============================================================================
