------------------------- MODULE AudioSessionProofs -------------------------
(* Theorems about AudioSession, for every number of users, connections,    *)
(* processes, chunks, frames and faults, and every window.                 *)
EXTENDS AudioSession, TLAPS

\* A frame the workers make goes to the end of its topic and changes nothing else.
LEMMA SynthesizeAppends ==
    ASSUME NEW k, NEW l, Synthesize(k, l)
    PROVE  /\ synth' = Append(synth, [chunk |-> k, lang |-> l])
           /\ UNCHANGED <<counter, sock, high, raw, played, dropped, faults>>
BY DEF Synthesize, Channel!Speak, Channel!Frame

LEMMA SockFields ==
    ASSUME TypeOK, NEW s \in Sockets
    PROVE  /\ sock[s] \in Connection
           /\ UserOf[s] \in Users
           /\ WorkerOf[s] \in Workers
           /\ Counter(s) \in Nat
BY AudioAssumption DEF TypeOK, Counter

LEMMA WrittenChunk ==
    ASSUME TypeOK, NEW s \in Sockets
    PROVE  /\ Written(s) \in Seq(Chunk)
           /\ Len(Written(s)) = Len(raw) + 1
           /\ \A i \in 1..Len(raw) : Written(s)[i] = raw[i]
           /\ Written(s)[Len(raw) + 1] = [user |-> UserOf[s], seq |-> sock[s].num]
<1>1. [user |-> UserOf[s], seq |-> sock[s].num] \in Chunk
  BY SockFields DEF Connection, Chunk
<1>2. raw \in Seq(Chunk)
  BY DEF TypeOK
<1> QED
  BY <1>1, <1>2 DEF Written

\* The places, as facts, so that a step need not expand the sets.
LEMMA PlaceFacts ==
    /\ "wait" \in InPlaces /\ "read" \in InPlaces
    /\ "publish" \in InPlaces /\ "done" \in InPlaces
    /\ "seek" \in OutPlaces /\ "poll" \in OutPlaces /\ "filter" \in OutPlaces
    /\ "stop" \in OutPlaces /\ "done" \in OutPlaces /\ "leaked" \in OutPlaces
BY DEF InPlaces, OutPlaces

LEMMA TypeInit == Init => TypeOK
BY AudioAssumption DEF Init, TypeOK, Connection, Silent, InPlaces, OutPlaces

\* What every step does to the connections.
LEMMA SockStep ==
    ASSUME TypeOK, NEW s \in Sockets,
           \/ Connect(s) \/ Leave(s) \/ EndSession(s) \/ Egress(s) \/ Fail(s) \/ Ingest(s)
    PROVE  sock' \in [Sockets -> Connection]
<1> DEFINE tail == Len(synth)
           next == Counter(s)
           stopped == OutAfterCancel(s)
           after == sock[s].pos + 1
<1>0. sock \in [Sockets -> Connection]
  BY DEF TypeOK
<1>1. tail \in Nat /\ next \in Nat /\ stopped \in OutPlaces /\ after \in Nat
  <2>1. sock[s].out \in OutPlaces /\ sock[s].pos \in Nat /\ synth \in Seq(Frame)
    BY SockFields DEF TypeOK, Connection
  <2> QED
    BY <2>1, SockFields, PlaceFacts DEF OutAfterCancel
<1>2. CASE Connect(s)
  <2>1. sock' = [sock EXCEPT ![s].at = "open"]
    BY <1>2 DEF Connect
  <2> QED
    BY <1>0, <1>1, <2>1, PlaceFacts DEF Connection
<1>3. CASE Leave(s)
  <2>1. sock' = [sock EXCEPT ![s].gone = TRUE]
    BY <1>3 DEF Leave
  <2> QED
    BY <1>0, <1>1, <2>1, PlaceFacts DEF Connection
<1>4. CASE EndSession(s)
  <2>1. sock' = [sock EXCEPT ![s].at = "over", ![s].in = "done", ![s].num = 0,
                            ![s].left = 0, ![s].out = stopped]
    BY <1>4 DEF EndSession
  <2> DEFINE rest == [sock EXCEPT ![s].at = "over", ![s].in = "done"]
             more == [rest EXCEPT ![s].num = 0, ![s].left = 0]
  <2>2. rest \in [Sockets -> Connection]
    BY ZenonT(40), <1>0, PlaceFacts DEF Connection
  <2>3. sock' = [more EXCEPT ![s].out = stopped]
    BY <2>1
  <2> HIDE DEF rest
  <2>4. more \in [Sockets -> Connection]
    BY ZenonT(40), <2>2 DEF Connection
  <2> HIDE DEF more, stopped
  <2> QED
    BY <1>1, <2>3, <2>4 DEF Connection
<1>5. CASE IngestBegins(s)
  <2>1. sock' = [sock EXCEPT ![s].in = "read"]
    BY <1>5 DEF IngestBegins
  <2> QED
    BY <1>0, <1>1, <2>1, PlaceFacts DEF Connection
<1>6. CASE ReceiveDisconnect(s)
  <2>1. sock' = [sock EXCEPT ![s].in = "done"]
    BY <1>6 DEF ReceiveDisconnect
  <2> QED
    BY <1>0, <1>1, <2>1, PlaceFacts DEF Connection
<1>7. CASE PublishFails(s)
  <2> DEFINE rest == [sock EXCEPT ![s].in = "done", ![s].num = 0]
  <2>1. sock' = [rest EXCEPT ![s].left = 0]
    BY <1>7 DEF PublishFails
  <2>2. rest \in [Sockets -> Connection]
    BY ZenonT(40), <1>0, PlaceFacts DEF Connection
  <2> HIDE DEF rest
  <2> QED
    BY <2>1, <2>2 DEF Connection
<1>8. CASE Seek(s)
  <2>1. sock' = [sock EXCEPT ![s].out = "poll", ![s].pos = tail]
    BY <1>8 DEF Seek
  <2> QED
    BY ZenonT(40), <1>0, <1>1, <2>1, PlaceFacts DEF Connection
<1>9. CASE TakeFrame(s)
  <2>1. sock' = [sock EXCEPT ![s].out = "filter", ![s].pos = after]
    BY <1>9 DEF TakeFrame
  <2> QED
    BY <1>0, <1>1, <2>1, PlaceFacts DEF Connection
<1>10. CASE Drop(s)
  <2>1. sock' = [sock EXCEPT ![s].out = "poll"]
    BY <1>10 DEF Drop
  <2> QED
    BY <1>0, <1>1, <2>1, PlaceFacts DEF Connection
<1>11. CASE Play(s)
  <2>1. sock' = [sock EXCEPT ![s].out = "poll"]
    BY <1>11 DEF Play
  <2> QED
    BY <1>0, <1>1, <2>1, PlaceFacts DEF Connection
<1>12. ASSUME NEW place \in OutPlaces, EgressGoto(s, place)
      PROVE  sock' \in [Sockets -> Connection]
  <2>1. sock' = [sock EXCEPT ![s].out = place]
    BY <1>12 DEF EgressGoto
  <2> QED
    BY <1>0, <2>1 DEF Connection
<1>13. ASSUME NEW l \in Nat, TakeNumber(s, l)
      PROVE  sock' \in [Sockets -> Connection]
  <2> DEFINE rest == [sock EXCEPT ![s].in = "publish", ![s].num = next]
  <2>1. sock' = [rest EXCEPT ![s].left = l]
    BY <1>13 DEF TakeNumber
  <2> HIDE DEF next
  <2>2. rest \in [Sockets -> Connection]
    BY ZenonT(40), <1>0, <1>1, PlaceFacts DEF Connection
  <2> HIDE DEF rest
  <2> QED
    BY <2>1, <2>2 DEF Connection
<1>14. CASE Publish(s)
  <2>1. CASE sock[s].left > 0
    <3>1. sock[s].left - 1 \in Nat
      BY <2>1, SockFields, AudioAssumption DEF Connection
    <3> QED
      BY <1>13, <1>14, <2>1, <3>1 DEF Publish
  <2>2. CASE ~(sock[s].left > 0)
    <3>1. sock' = [sock EXCEPT ![s].in = "read", ![s].num = 0]
      BY <1>14, <2>2 DEF Publish
    <3> QED
      BY ZenonT(40), <1>0, <1>1, <3>1, PlaceFacts DEF Connection
  <2> QED
    BY <2>1, <2>2
<1>15. ASSUME NEW parts \in 1..MaxParts, Receive(s, parts)
      PROVE  sock' \in [Sockets -> Connection]
  <2>1. parts - 1 \in Nat
    BY AudioAssumption
  <2> QED
    BY <1>13, <1>15, <2>1 DEF Receive
<1>16. CASE Ingest(s)
  BY <1>5, <1>6, <1>14, <1>15, <1>16 DEF Ingest
<1>17. CASE Egress(s)
  <2>1. CASE ConsumerStarts(s) \/ Skip(s) \/ ConsumerStops(s)
    BY <1>12, <2>1, PlaceFacts DEF ConsumerStarts, Skip, ConsumerStops
  <2> QED
    BY <1>8, <1>9, <1>10, <1>11, <1>17, <2>1 DEF Egress
<1>18. CASE Fail(s)
  <2>1. CASE ConsumerFails(s) \/ FrameFails(s) \/ EgressFails(s)
    BY <1>12, <2>1, PlaceFacts DEF ConsumerFails, FrameFails, EgressFails
  <2> QED
    BY <1>7, <1>18, <2>1 DEF Fail
<1> QED
  BY <1>2, <1>3, <1>4, <1>16, <1>17, <1>18

\* The frame in hand leads to a chunk, a speaker and a number.
LEMMA HandType ==
    ASSUME TypeOK, Pointers, NEW s \in Sockets, Out(s, "filter")
    PROVE  /\ sock[s].pos \in 1..Len(synth)
           /\ InHand(s) \in 1..Len(raw)
           /\ Speaker(s) \in Users
           /\ Number(s) \in Nat
<1>1. sock[s].pos \in 1..Len(synth) /\ synth \in Seq(Frame) /\ raw \in Seq(Chunk)
  BY SockFields, PlaceFacts DEF Pointers, TypeOK, Connection
<1>2. InHand(s) \in 1..Len(raw)
  BY <1>1 DEF InHand, Pointers
<1>3. raw[InHand(s)] \in Chunk
  BY <1>1, <1>2
<1> QED
  BY <1>1, <1>2, <1>3 DEF Speaker, Number, Chunk

LEMMA TypeStep == TypeOK /\ Pointers /\ [Next]_vars => TypeOK'
<1> SUFFICES ASSUME TypeOK, Pointers, [Next]_vars PROVE TypeOK'
  OBVIOUS
<1> USE AudioAssumption
<1>1. CASE UNCHANGED vars
  BY <1>1 DEF vars, TypeOK
<1>2. ASSUME NEW s \in Sockets, Connect(s) \/ Leave(s) PROVE TypeOK'
  <2>1. sock' \in [Sockets -> Connection]
    BY <1>2, SockStep
  <2>2. UserOf[s] \in Users /\ WorkerOf[s] \in Workers
    BY SockFields
  <2>3. counter' \in [Workers -> [Users -> Nat]]
    <3>1. counter \in [Workers -> [Users -> Nat]]
      BY DEF TypeOK
    <3> QED
      BY <1>2, <2>2, <3>1 DEF Connect, Leave
  <2> QED
    BY <1>2, <2>1, <2>3 DEF Connect, Leave, TypeOK
<1>3. ASSUME NEW s \in Sockets, EndSession(s) \/ PublishFails(s) PROVE TypeOK'
  <2>1. raw' \in Seq(Chunk)
    <3>1. raw' \in PerhapsWritten(s) /\ raw \in Seq(Chunk)
      BY <1>3 DEF EndSession, PublishFails, TypeOK
    <3> QED
      BY <3>1, WrittenChunk DEF PerhapsWritten
  <2>2. sock' \in [Sockets -> Connection]
    BY <1>3, SockStep DEF Fail
  <2> QED
    BY <1>3, <2>1, <2>2 DEF EndSession, PublishFails, Fault, TypeOK
<1>4. ASSUME NEW s \in Sockets, NEW n, TakeNumber(s, n)
      PROVE  counter' \in [Workers -> [Users -> Nat]]
  BY <1>4, SockFields DEF TakeNumber, Counter, TypeOK
<1>5. ASSUME NEW s \in Sockets, Ingest(s) PROVE TypeOK'
  <2>1. sock' \in [Sockets -> Connection]
    BY <1>5, SockStep
  <2>2. CASE IngestBegins(s) \/ ReceiveDisconnect(s)
    BY <2>1, <2>2 DEF IngestBegins, ReceiveDisconnect, TypeOK
  <2>3. CASE Publish(s)
    <3>1. raw' \in Seq(Chunk)
      BY <2>3, WrittenChunk DEF Publish
    <3>2. counter' \in [Workers -> [Users -> Nat]]
      BY <1>4, <2>3 DEF Publish, TypeOK
    <3> QED
      BY <2>1, <2>3, <3>1, <3>2 DEF Publish, TypeOK
  <2>4. ASSUME NEW parts \in 1..MaxParts, Receive(s, parts) PROVE TypeOK'
    BY <1>4, <2>1, <2>4 DEF Receive, TypeOK
  <2> QED
    BY <1>5, <2>2, <2>3, <2>4 DEF Ingest
<1>6. ASSUME NEW s \in Sockets, Egress(s) PROVE TypeOK'
  <2>1. sock' \in [Sockets -> Connection]
    BY <1>6, SockStep
  <2>2. CASE ConsumerStarts(s) \/ Skip(s) \/ ConsumerStops(s) \/ Seek(s) \/ TakeFrame(s)
    BY <2>1, <2>2
       DEF ConsumerStarts, Skip, ConsumerStops, EgressGoto, Seek, TakeFrame, TypeOK
  <2>3. CASE Drop(s)
    <3>1. InHand(s) \in Nat \ {0}
      BY SMTT(30), <2>3, HandType DEF Drop, TypeOK
    <3> QED
      BY <2>1, <2>3, <3>1 DEF Drop, TypeOK
  <2>4. CASE Play(s)
    <3>1. InHand(s) \in Nat \ {0} /\ Speaker(s) \in Users /\ Number(s) \in Int
      BY SMTT(30), <2>4, HandType DEF Play, TypeOK
    <3>2. Highest(s) \in Int
      BY <3>1 DEF Highest, TypeOK
    <3>3. played' \in [Sockets -> Seq(Nat \ {0})]
      BY <2>4, <3>1 DEF Play, TypeOK
    <3>4. high' \in [Sockets -> [Users -> Int]]
      BY <2>4, <3>1, <3>2 DEF Play, TypeOK
    <3> QED
      BY <2>1, <2>4, <3>3, <3>4 DEF Play, TypeOK
  <2> QED
    BY <1>6, <2>2, <2>3, <2>4 DEF Egress
<1>7. ASSUME NEW s \in Sockets, Fail(s) PROVE TypeOK'
  <2>1. sock' \in [Sockets -> Connection]
    BY <1>7, SockStep
  <2>2. CASE ConsumerFails(s) \/ FrameFails(s) \/ EgressFails(s)
    BY <2>1, <2>2 DEF ConsumerFails, FrameFails, EgressFails, EgressGoto, Fault, TypeOK
  <2> QED
    BY <1>3, <1>7, <2>2 DEF Fail
<1>8. ASSUME NEW k \in 1..Len(raw), NEW l \in Languages, Synthesize(k, l) PROVE TypeOK'
  <2>1. [chunk |-> k, lang |-> l] \in Frame
    BY DEF Frame
  <2> QED
    <3>1. /\ synth' = Append(synth, [chunk |-> k, lang |-> l])
          /\ UNCHANGED <<counter, sock, high, raw, played, dropped, faults>>
      BY <1>8, SynthesizeAppends
    <3> QED
      BY <2>1, <3>1 DEF TypeOK
<1>9. CASE PipelineFails
  BY <1>9 DEF PipelineFails, Fault, TypeOK
<1> QED
  BY <1>1, <1>2, <1>3, <1>5, <1>6, <1>7, <1>8, <1>9 DEF Next

-----------------------------------------------------------------------------
(* What every step keeps.                                                  *)

RawGrows ==
    /\ Len(raw) <= Len(raw')
    /\ \A i \in 1..Len(raw) : i \in 1..Len(raw') /\ raw'[i] = raw[i]

SynthGrows ==
    /\ Len(synth) <= Len(synth')
    /\ \A i \in 1..Len(synth) : i \in 1..Len(synth') /\ synth'[i] = synth[i]

\* No connection is as new again; every step but Connect keeps those that are.
StaysKnown == \A s \in Sockets : sock[s].at # "idle" => sock'[s].at # "idle"

LEMMA RawStep == TypeOK /\ [Next]_vars => RawGrows
<1> SUFFICES ASSUME TypeOK, [Next]_vars PROVE RawGrows
  OBVIOUS
<1>1. CASE UNCHANGED raw
  BY <1>1 DEF RawGrows, TypeOK
<1>2. ASSUME NEW s \in Sockets, raw' = Written(s) PROVE RawGrows
  <2>1. Len(raw) \in Nat
    BY DEF TypeOK
  <2>2. /\ Len(raw') = Len(raw) + 1
        /\ \A i \in 1..Len(raw) : raw'[i] = raw[i]
    BY <1>2, WrittenChunk
  <2> QED
    BY <2>1, <2>2 DEF RawGrows
<1>3. ASSUME NEW s \in Sockets, raw' \in PerhapsWritten(s) PROVE RawGrows
  BY <1>1, <1>2, <1>3 DEF PerhapsWritten
<1>4. \/ UNCHANGED raw
      \/ \E s \in Sockets : raw' = Written(s) \/ raw' \in PerhapsWritten(s)
  BY ZenonT(40), SynthesizeAppends DEF Next, vars, Connect, Leave, EndSession, Ingest, IngestBegins, ReceiveDisconnect,
         Publish, Receive, Egress, ConsumerStarts, Seek, TakeFrame, Skip, Drop, Play,
         ConsumerStops, EgressGoto, Fail, PublishFails, ConsumerFails, FrameFails,
         EgressFails, PipelineFails
<1> QED
  BY <1>1, <1>2, <1>3, <1>4

LEMMA SynthStep == TypeOK /\ [Next]_vars => SynthGrows
<1> SUFFICES ASSUME TypeOK, [Next]_vars PROVE SynthGrows
  OBVIOUS
<1>1. CASE UNCHANGED synth
  BY <1>1 DEF SynthGrows, TypeOK
<1>2. ASSUME NEW f \in Frame, synth' = Append(synth, f) PROVE SynthGrows
  BY <1>2 DEF SynthGrows, TypeOK
<1>3. UNCHANGED synth \/ \E f \in Frame : synth' = Append(synth, f)
  <2>1. ASSUME NEW k \in 1..Len(raw), NEW l \in Languages, Synthesize(k, l)
        PROVE  [chunk |-> k, lang |-> l] \in Frame
    BY DEF Frame
  <2> QED
    BY ZenonT(40), <2>1, SynthesizeAppends
       DEF Next, vars, Connect, Leave, EndSession, Ingest, IngestBegins, ReceiveDisconnect,
           Publish, Receive, Egress, ConsumerStarts, Seek, TakeFrame, Skip, Drop, Play,
           ConsumerStops, EgressGoto, Fail, PublishFails, ConsumerFails, FrameFails,
           EgressFails, PipelineFails
<1> QED
  BY <1>1, <1>2, <1>3

LEMMA KnownStep == TypeOK /\ [Next]_vars => StaysKnown
<1> SUFFICES ASSUME TypeOK, [Next]_vars PROVE StaysKnown
  OBVIOUS
<1>0. sock \in [Sockets -> Connection]
  BY DEF TypeOK
<1> USE DEF StaysKnown
<1>1. CASE UNCHANGED sock
  BY <1>1
<1>2. ASSUME NEW s \in Sockets, Connect(s) \/ Leave(s) \/ EndSession(s) PROVE StaysKnown
  <2>1. CASE Connect(s)
    BY <1>0, <2>1 DEF Connect, Connection
  <2>2. CASE Leave(s)
    BY <1>0, <2>2 DEF Leave, Connection
  <2>3. CASE EndSession(s)
    BY <1>0, <2>3 DEF EndSession, Connection
  <2> QED
    BY <1>2, <2>1, <2>2, <2>3
<1>3. ASSUME NEW s \in Sockets, Ingest(s) \/ PublishFails(s) PROVE StaysKnown
  <2>1. CASE IngestBegins(s) \/ ReceiveDisconnect(s)
    BY <1>0, <2>1 DEF IngestBegins, ReceiveDisconnect, Connection
  <2>2. ASSUME NEW n, TakeNumber(s, n) PROVE StaysKnown
    BY <1>0, <2>2 DEF TakeNumber, Connection
  <2>3. CASE Publish(s)
    BY <1>0, <2>2, <2>3 DEF Publish, Connection
  <2>4. CASE PublishFails(s)
    BY <1>0, <2>4 DEF PublishFails, Connection
  <2> QED
    BY <1>3, <2>1, <2>2, <2>3, <2>4 DEF Ingest, Receive
<1>4. ASSUME NEW s \in Sockets, NEW place, EgressGoto(s, place) PROVE StaysKnown
  BY <1>0, <1>4 DEF EgressGoto, Connection
<1>5. ASSUME NEW s \in Sockets, Seek(s) \/ TakeFrame(s) \/ Drop(s) \/ Play(s)
      PROVE  StaysKnown
  <2>1. CASE Seek(s)
    BY <1>0, <2>1 DEF Seek, Connection
  <2>2. CASE TakeFrame(s)
    BY <1>0, <2>2 DEF TakeFrame, Connection
  <2>3. CASE Drop(s)
    BY <1>0, <2>3 DEF Drop, Connection
  <2>4. CASE Play(s)
    BY <1>0, <2>4 DEF Play, Connection
  <2> QED
    BY <1>5, <2>1, <2>2, <2>3, <2>4
<1> QED
  BY <1>1, <1>2, <1>3, <1>4, <1>5, SynthesizeAppends
     DEF Next, vars, Egress, ConsumerStarts, Skip, ConsumerStops, Fail, ConsumerFails,
         FrameFails, EgressFails, PipelineFails

LEMMA AloneStep ==
    ASSUME StaysKnown, NEW u, Alone(u)'
    PROVE  Alone(u)
BY DEF StaysKnown, Alone

\* The histories keep their meaning when they stay as they are.
LEMMA HistoryKept ==
    ASSUME IInv, RawGrows, StaysKnown, UNCHANGED <<high, played, dropped>>
    PROVE  /\ \A s \in Sockets : HighInv(s)'
           /\ StaleUnlessReconnected'
           /\ LagBounded'
<1>1. /\ \A s \in Sockets : \A i \in 1..Len(played[s]) :
           raw'[played[s][i]] = raw[played[s][i]]
      /\ \A s \in Sockets : \A k \in dropped[s] : raw'[k] = raw[k]
  BY DEF IInv, Pointers, RawGrows
<1>2. ASSUME NEW s \in Sockets PROVE HighInv(s)'
  BY <1>1 DEF IInv, HighInv
<1>3. StaleUnlessReconnected'
  BY <1>1, AloneStep DEF IInv, StaleUnlessReconnected, LaterPlayed
<1>4. LagBounded'
  BY SMTT(30), <1>1 DEF IInv, LagBounded
<1> QED
  BY <1>2, <1>3, <1>4

\* The numbers keep their order when nothing is numbered or published.
LEMMA NumbersKept ==
    ASSUME IInv, StaysKnown, UNCHANGED <<counter, raw>>,
           \A s \in Sockets : In(s, "publish")' => In(s, "publish") /\ sock'[s].num = sock[s].num,
           \A s \in Sockets : sock'[s].at # "idle" => sock[s].at # "idle"
    PROVE  Numbered'
<1>1. NumbersGrow'
  BY AloneStep, AudioAssumption DEF IInv, Numbered, NumbersGrow, TypeOK, Chunk
<1>2. ASSUME NEW s \in Sockets, Alone(UserOf[s])', sock'[s].at # "idle"
      PROVE  /\ \A i \in 1..Len(raw) :
                 raw[i].user = UserOf[s] => raw[i].seq < Counter(s)
             /\ In(s, "publish")' =>
                 /\ sock'[s].num < Counter(s)
                 /\ \A i \in 1..Len(raw) :
                     raw[i].user = UserOf[s] => raw[i].seq < sock'[s].num
  BY <1>2, AloneStep DEF IInv, Numbered
<1>3. \A i \in 1..Len(raw) : \E s \in Sockets :
        sock'[s].at # "idle" /\ UserOf[s] = raw[i].user
  BY DEF IInv, Numbered, StaysKnown
<1> QED
  BY <1>1, <1>2, <1>3 DEF Numbered, Counter

-----------------------------------------------------------------------------
(* The tasks of a session.                                                 *)

LEMMA GatedStep ==
    ASSUME IInv, TypeOK', [Next]_vars
    PROVE  (\A t \in Sockets : Gated(t)') /\ NoConsumerLeft'
<1>0. /\ sock \in [Sockets -> Connection]
      /\ faults \in Nat
      /\ \A t \in Sockets : Gated(t) /\ (faults = 0 => sock[t].out # "leaked")
  BY AudioAssumption DEF IInv, TypeOK, NoConsumerLeft
<1> DEFINE Kept(t) == Gated(t)' /\ (faults' = 0 => sock'[t].out # "leaked")
<1> SUFFICES ASSUME NEW t \in Sockets PROVE Kept(t)
  BY DEF NoConsumerLeft
<1>1. ASSUME sock'[t] = sock[t], faults' = faults \/ (faults < MaxFaults /\ faults' = faults + 1)
      PROVE  Kept(t)
  BY <1>0, <1>1 DEF Gated
<1>2. CASE UNCHANGED <<sock, faults>>
  BY <1>1, <1>2
<1>3. ASSUME NEW s \in Sockets, Connect(s) \/ Leave(s) PROVE Kept(t)
  <2>1. CASE Connect(s)
    BY <1>0, <2>1 DEF Connect, Gated, Connection
  <2>2. CASE Leave(s)
    BY <1>0, <2>2 DEF Leave, Gated, Connection
  <2> QED
    BY <1>3, <2>1, <2>2
<1>4. ASSUME NEW s \in Sockets, EndSession(s) PROVE Kept(t)
  <2>1. CASE t # s
    BY <1>0, <1>1, <1>4, <2>1 DEF EndSession
  <2>2. CASE t = s
    <3>1. /\ sock'[s].at = "over" /\ sock'[s].in = "done"
          /\ sock'[s].out = OutAfterCancel(s) /\ faults' = faults
      BY <1>0, <1>4 DEF EndSession, Connection
    <3>2. OutAfterCancel(s) # "start"
      BY DEF OutAfterCancel, Ended
    <3>3. faults = 0 => OutAfterCancel(s) # "leaked"
      BY <1>0, <1>4 DEF EndSession, OutAfterCancel, Ended, Gated
    <3> QED
      BY <2>2, <3>1, <3>2, <3>3 DEF Gated
  <2> QED
    BY <2>1, <2>2
<1>5. ASSUME NEW s \in Sockets, Ingest(s) \/ PublishFails(s) PROVE Kept(t)
  <2>1. faults' = faults \/ (faults < MaxFaults /\ faults' = faults + 1)
    BY <1>5 DEF Ingest, IngestBegins, ReceiveDisconnect, Publish, Receive, PublishFails, Fault
  <2>2. CASE t # s
    BY <1>0, <1>1, <1>5, <2>1, <2>2
       DEF Ingest, IngestBegins, ReceiveDisconnect, Publish, Receive, TakeNumber, PublishFails
  <2>3. CASE t = s
    <3>1. /\ sock'[s].at = sock[s].at /\ sock'[s].gone = sock[s].gone
          /\ sock'[s].out = sock[s].out
      BY <1>0, <1>5
         DEF Ingest, IngestBegins, ReceiveDisconnect, Publish, Receive, TakeNumber,
             PublishFails, Connection
    <3>2. sock[s].out # "start" /\ sock[s].at # "idle"
      BY <1>0, <1>5
         DEF Ingest, IngestBegins, ReceiveDisconnect, Publish, Receive, PublishFails,
             In, Out, Gated
    <3> QED
      BY <1>0, <2>1, <2>3, <3>1, <3>2 DEF Gated
  <2> QED
    BY <2>2, <2>3
<1>6. ASSUME NEW s \in Sockets, NEW place \in {"seek", "poll"}, EgressGoto(s, place),
             sock[s].at # "idle",
             faults' = faults \/ (faults < MaxFaults /\ faults' = faults + 1)
      PROVE  Kept(t)
  BY <1>0, <1>6 DEF EgressGoto, Gated, Connection
<1>7. ASSUME NEW s \in Sockets, NEW place \in {"stop", "done"}, EgressGoto(s, place),
             sock[s].at # "idle", faults' # 0 \/ sock[s].out = "stop",
             faults' = faults \/ (faults < MaxFaults /\ faults' = faults + 1)
      PROVE  Kept(t)
  BY <1>0, <1>7 DEF EgressGoto, Gated, Connection
<1>8. ASSUME NEW s \in Sockets, Seek(s) \/ TakeFrame(s) \/ Drop(s) \/ Play(s) PROVE Kept(t)
  <2>1. CASE Seek(s)
    BY <1>0, <2>1 DEF Seek, Out, Gated, Connection
  <2>2. CASE TakeFrame(s)
    BY <1>0, <2>2 DEF TakeFrame, Out, Gated, Connection
  <2>3. CASE Drop(s)
    BY <1>0, <2>3 DEF Drop, Out, Gated, Connection
  <2>4. CASE Play(s)
    BY <1>0, <2>4 DEF Play, Out, Gated, Connection
  <2> QED
    BY <1>8, <2>1, <2>2, <2>3, <2>4
<1>9. ASSUME NEW s \in Sockets, ConsumerStarts(s) \/ Skip(s) \/ FrameFails(s) PROVE Kept(t)
  BY <1>6, <1>9 DEF ConsumerStarts, Skip, FrameFails, Out, Fault
<1>10. ASSUME NEW s \in Sockets, ConsumerStops(s) \/ ConsumerFails(s) \/ EgressFails(s)
       PROVE  Kept(t)
  BY <1>0, <1>7, <1>10 DEF ConsumerStops, ConsumerFails, EgressFails, Out, Fault
<1>11. CASE PipelineFails
  BY <1>1, <1>11 DEF PipelineFails, Fault
<1> QED
  BY <1>2, <1>3, <1>4, <1>5, <1>8, <1>9, <1>10, <1>11, SynthesizeAppends
     DEF Next, vars, Egress, Fail

-----------------------------------------------------------------------------
(* Positions.                                                              *)

LEMMA PointersStep ==
    ASSUME IInv, TypeOK', [Next]_vars
    PROVE  Pointers'
<1>0. TypeOK /\ Pointers /\ RawGrows /\ SynthGrows
  BY RawStep, SynthStep DEF IInv
<1>1. \A i \in 1..Len(synth') : synth'[i].chunk \in 1..Len(raw')
  <2>1. CASE UNCHANGED synth
    BY <1>0, <2>1 DEF Pointers, RawGrows
  <2>2. ASSUME NEW k \in 1..Len(raw), NEW l \in Languages, Synthesize(k, l)
        PROVE  \A i \in 1..Len(synth') : synth'[i].chunk \in 1..Len(raw')
    <3> DEFINE f == [chunk |-> k, lang |-> l]
    <3>1. synth' = Append(synth, f) /\ raw' = raw /\ f.chunk \in 1..Len(raw)
      BY <2>2, SynthesizeAppends
    <3> HIDE DEF f
    <3> QED
      BY <1>0, <3>1 DEF Pointers, TypeOK
  <2> QED
    BY <2>1, <2>2, SynthesizeAppends
       DEF Next, vars, Connect, Leave, EndSession, Ingest, IngestBegins, ReceiveDisconnect,
           Publish, Receive, Egress, ConsumerStarts, Seek, TakeFrame, Skip, Drop, Play,
           ConsumerStops, EgressGoto, Fail, PublishFails, ConsumerFails, FrameFails,
           EgressFails, PipelineFails
<1>2. ASSUME NEW t \in Sockets
      PROVE  /\ sock'[t].pos <= Len(synth')
             /\ Out(t, "filter")' => sock'[t].pos > 0
  <2> DEFINE Good == sock'[t].pos <= Len(synth') /\ (Out(t, "filter")' => sock'[t].pos > 0)
  <2>0. /\ sock \in [Sockets -> Connection] /\ Len(synth) \in Nat /\ Len(synth') \in Nat
        /\ sock[t].pos \in Nat /\ sock[t].pos <= Len(synth) /\ Len(synth) <= Len(synth')
        /\ Out(t, "filter") => sock[t].pos > 0
    BY SMTT(30), <1>0, SockFields DEF TypeOK, Pointers, SynthGrows, Connection
  <2>1. ASSUME sock'[t].pos = sock[t].pos, sock'[t].out # "filter" \/ Out(t, "filter")
        PROVE  Good
    BY <2>0, <2>1 DEF Out
  <2>2. CASE UNCHANGED sock
    BY <2>0, <2>2 DEF Out
  <2>3. ASSUME NEW s \in Sockets, Connect(s) \/ Leave(s) PROVE Good
    <3>1. CASE Connect(s)
      <4>1. sock[s].out = "start" /\ sock'[t].out = sock[t].out /\ sock'[t].pos = sock[t].pos
        BY <2>0, <3>1 DEF Connect, IInv, Gated, Connection
      <4>2. t # s => sock'[t].at = sock[t].at
        BY <2>0, <3>1 DEF Connect
      <4> QED
        BY <2>0, <4>1, <4>2 DEF Out
    <3>2. CASE Leave(s)
      BY <2>0, <3>2 DEF Leave, Out, Connection
    <3> QED
      BY <2>3, <3>1, <3>2
  <2>4. ASSUME NEW s \in Sockets, EndSession(s) PROVE Good
    <3>1. sock'[t].pos = sock[t].pos
      BY <2>0, <2>4 DEF EndSession, Connection
    <3>2. sock'[s].out # "filter"
      BY <2>0, <2>4 DEF EndSession, OutAfterCancel, Ended, Connection
    <3>3. t # s => sock'[t] = sock[t]
      BY <2>0, <2>4 DEF EndSession
    <3> QED
      BY <2>0, <3>1, <3>2, <3>3 DEF Out
  <2>5. ASSUME NEW s \in Sockets, Ingest(s) \/ PublishFails(s) PROVE Good
    <3>1. /\ sock'[t].pos = sock[t].pos /\ sock'[t].out = sock[t].out
          /\ sock'[t].at = sock[t].at
      <4>1. CASE IngestBegins(s) \/ ReceiveDisconnect(s)
        BY <2>0, <4>1 DEF IngestBegins, ReceiveDisconnect, Connection
      <4>4. ASSUME NEW n, TakeNumber(s, n)
            PROVE  /\ sock'[t].pos = sock[t].pos /\ sock'[t].out = sock[t].out
                   /\ sock'[t].at = sock[t].at
        BY <2>0, <4>4 DEF TakeNumber, Connection
      <4>2. CASE Publish(s)
        <5>1. CASE sock[s].left > 0
          BY <4>2, <4>4, <5>1 DEF Publish
        <5>2. CASE ~(sock[s].left > 0)
          <6>1. sock' = [sock EXCEPT ![s].in = "read", ![s].num = 0]
            BY <4>2, <5>2 DEF Publish
          <6> QED
            BY <2>0, <6>1 DEF Connection
        <5> QED
          BY <5>1, <5>2
      <4>3. CASE PublishFails(s)
        BY <2>0, <4>3 DEF PublishFails, Connection
      <4> QED
        BY <2>5, <4>1, <4>2, <4>3, <4>4 DEF Ingest, Receive
    <3> QED
      BY <2>0, <3>1 DEF Out
  <2>6. ASSUME NEW s \in Sockets, NEW place, place # "filter", EgressGoto(s, place) PROVE Good
    BY <2>0, <2>6 DEF EgressGoto, Out, Connection
  <2>7. ASSUME NEW s \in Sockets, Seek(s) \/ TakeFrame(s) \/ Drop(s) \/ Play(s) PROVE Good
    <3>1. CASE Seek(s)
      BY <2>0, <3>1 DEF Seek, Out, Connection
    <3>2. CASE TakeFrame(s)
      BY <2>0, <3>2 DEF TakeFrame, Out, Connection
    <3>3. CASE Drop(s)
      BY <2>0, <3>3 DEF Drop, Out, Connection
    <3>4. CASE Play(s)
      BY <2>0, <3>4 DEF Play, Out, Connection
    <3> QED
      BY <2>7, <3>1, <3>2, <3>3, <3>4
  <2> QED
    BY <2>2, <2>3, <2>4, <2>5, <2>6, <2>7, SynthesizeAppends
       DEF Next, vars, Egress, ConsumerStarts, Skip, ConsumerStops, Fail, ConsumerFails,
           FrameFails, EgressFails, PipelineFails
<1>3. ASSUME NEW t \in Sockets
      PROVE  /\ \A i \in 1..Len(played'[t]) : played'[t][i] \in 1..Len(raw')
             /\ dropped'[t] \subseteq 1..Len(raw')
  <2> DEFINE Good == /\ \A i \in 1..Len(played'[t]) : played'[t][i] \in 1..Len(raw')
                     /\ dropped'[t] \subseteq 1..Len(raw')
  <2>1. CASE UNCHANGED <<played, dropped>>
    BY <1>0, <2>1 DEF Pointers, RawGrows
  <2>2. ASSUME NEW s \in Sockets, Drop(s) PROVE Good
    BY <1>0, <2>2, HandType DEF Drop, Pointers, RawGrows, TypeOK
  <2>3. ASSUME NEW s \in Sockets, Play(s) PROVE Good
    <3>1. InHand(s) \in 1..Len(raw) /\ raw' = raw /\ dropped' = dropped
      BY <1>0, <2>3, HandType DEF Play
    <3>2. CASE t # s
      BY <1>0, <2>3, <3>1, <3>2 DEF Play, Pointers, TypeOK
    <3>3. CASE t = s
      <4>1. played'[s] = Append(played[s], InHand(s)) /\ played[s] \in Seq(Nat \ {0})
        BY <1>0, <2>3 DEF Play, TypeOK
      <4> QED
        BY <1>0, <3>1, <3>3, <4>1 DEF Pointers
    <3> QED
      BY <3>2, <3>3
  <2> QED
    BY <2>1, <2>2, <2>3, SynthesizeAppends
       DEF Next, vars, Connect, Leave, EndSession, Ingest, IngestBegins, ReceiveDisconnect,
           Publish, Receive, Egress, ConsumerStarts, Seek, TakeFrame, Skip,
           ConsumerStops, EgressGoto, Fail, PublishFails, ConsumerFails, FrameFails,
           EgressFails, PipelineFails
<1> QED
  BY <1>1, <1>2, <1>3 DEF Pointers

-----------------------------------------------------------------------------
(* Numbers.                                                                *)

\* The chunk in hand goes to the end of its user's numbers.
LEMMA WrittenInOrder ==
    ASSUME IInv, StaysKnown, NEW s \in Sockets, In(s, "publish"), raw' = Written(s)
    PROVE  /\ NumbersGrow'
           /\ \A t \in Sockets : Alone(UserOf[t])' /\ sock[t].at # "idle" =>
                \A i \in 1..Len(raw') : raw'[i].user = UserOf[t] => raw'[i].seq < Counter(t)
           /\ \A t \in Sockets \ {s} :
                Alone(UserOf[t])' /\ sock[t].at # "idle" =>
                    \A i \in 1..Len(raw') : raw'[i].user = UserOf[t] =>
                        i \in 1..Len(raw) /\ raw'[i] = raw[i]
           /\ \A i \in 1..Len(raw') : \E t \in Sockets :
                sock'[t].at # "idle" /\ UserOf[t] = raw'[i].user
<1> DEFINE last == Len(raw) + 1
<1>1. /\ Len(raw) \in Nat /\ Len(raw') = last
      /\ \A i \in 1..Len(raw) : raw'[i] = raw[i]
      /\ raw'[last].user = UserOf[s] /\ raw'[last].seq = sock[s].num
      /\ sock[s].at # "idle"
  <2>1. TypeOK /\ Len(raw) \in Nat
    BY DEF IInv, TypeOK
  <2>2. /\ Len(Written(s)) = last
        /\ \A i \in 1..Len(raw) : Written(s)[i] = raw[i]
        /\ Written(s)[last] = [user |-> UserOf[s], seq |-> sock[s].num]
    BY <2>1, WrittenChunk
  <2> QED
    BY <2>1, <2>2 DEF In
<1>2. \A i \in 1..Len(raw') : i \in 1..Len(raw) \/ i = last
  BY <1>1
<1>3. Alone(UserOf[s])' =>
        /\ sock[s].num < Counter(s)
        /\ \A i \in 1..Len(raw) : raw[i].user = UserOf[s] => raw[i].seq < sock[s].num
  BY <1>1, AloneStep DEF IInv, Numbered
<1>4. NumbersGrow'
  <2> SUFFICES ASSUME NEW i \in 1..Len(raw'), NEW j \in 1..Len(raw'), i < j,
                      raw'[i].user = raw'[j].user, Alone(raw[i].user)'
               PROVE  raw'[i].seq < raw'[j].seq
    BY DEF NumbersGrow
  <2>1. i \in 1..Len(raw) /\ raw'[i] = raw[i]
    BY <1>1, <1>2
  <2> DEFINE u == raw[i].user
  <2>2. Alone(u)' /\ Alone(u)
    BY <2>1, AloneStep
  <2>3. CASE j \in 1..Len(raw)
    BY <1>1, <2>1, <2>2, <2>3 DEF IInv, Numbered, NumbersGrow
  <2>4. CASE j = last
    BY <1>1, <1>3, <2>1, <2>2, <2>4
  <2> QED
    BY <1>2, <2>3, <2>4
<1>5. ASSUME NEW t \in Sockets, t # s, Alone(UserOf[t])', sock[t].at # "idle"
      PROVE  UserOf[t] # UserOf[s]
  BY <1>1, <1>5, AloneStep DEF Alone
<1>6. ASSUME NEW t \in Sockets, Alone(UserOf[t])', sock[t].at # "idle",
             NEW i \in 1..Len(raw'), raw'[i].user = UserOf[t]
      PROVE  raw'[i].seq < Counter(t)
  <2>1. CASE i \in 1..Len(raw)
    BY <1>1, <1>6, <2>1, AloneStep DEF IInv, Numbered
  <2>2. CASE i = last
    BY <1>1, <1>3, <1>5, <1>6, <2>2
  <2> QED
    BY <1>2, <2>1, <2>2
<1>7. \A t \in Sockets \ {s} :
        Alone(UserOf[t])' /\ sock[t].at # "idle" =>
            \A i \in 1..Len(raw') : raw'[i].user = UserOf[t] =>
                i \in 1..Len(raw) /\ raw'[i] = raw[i]
  BY <1>1, <1>2, <1>5
<1>8. \A i \in 1..Len(raw') : \E t \in Sockets :
        sock'[t].at # "idle" /\ UserOf[t] = raw'[i].user
  BY <1>1, <1>2 DEF IInv, Numbered, StaysKnown
<1> QED
  BY <1>4, <1>6, <1>7, <1>8

\* Taking a number keeps the order, whether or not a chunk was written before.
LEMMA TakeNumberKeeps ==
    ASSUME IInv, StaysKnown, NEW s \in Sockets, NEW n, TakeNumber(s, n), sock[s].at # "idle",
           raw' = raw \/ (In(s, "publish") /\ raw' = Written(s))
    PROVE  Numbered'
<1>0. TypeOK /\ sock \in [Sockets -> Connection]
  BY DEF IInv, TypeOK
<1>1. /\ NumbersGrow'
      /\ \A t \in Sockets : Alone(UserOf[t])' /\ sock[t].at # "idle" =>
            \A i \in 1..Len(raw') : raw'[i].user = UserOf[t] => raw'[i].seq < Counter(t)
      /\ \A t \in Sockets \ {s} :
            Alone(UserOf[t])' /\ sock[t].at # "idle" =>
                \A i \in 1..Len(raw') : raw'[i].user = UserOf[t] =>
                    i \in 1..Len(raw) /\ raw'[i] = raw[i]
      /\ \A i \in 1..Len(raw') : \E t \in Sockets :
            sock'[t].at # "idle" /\ UserOf[t] = raw'[i].user
  <2>1. CASE raw' = raw
    <3>1. NumbersGrow'
      BY <1>0, <2>1, AloneStep DEF IInv, Numbered, NumbersGrow, TypeOK
    <3>2. \A t \in Sockets : Alone(UserOf[t])' /\ sock[t].at # "idle" =>
            \A i \in 1..Len(raw') : raw'[i].user = UserOf[t] => raw'[i].seq < Counter(t)
      BY <2>1, AloneStep DEF IInv, Numbered
    <3> QED
      BY <2>1, <3>1, <3>2 DEF IInv, Numbered, StaysKnown
  <2> QED
    BY <2>1, WrittenInOrder
<1>2. ASSUME NEW t \in Sockets, Alone(UserOf[t])', sock'[t].at # "idle"
      PROVE  /\ \A i \in 1..Len(raw') : raw'[i].user = UserOf[t] => raw'[i].seq < Counter(t)'
             /\ In(t, "publish")' =>
                 /\ sock'[t].num < Counter(t)'
                 /\ \A i \in 1..Len(raw') :
                     raw'[i].user = UserOf[t] => raw'[i].seq < sock'[t].num
  <2>1. CASE t = s
    <3>1. sock'[s].num = Counter(s) /\ Counter(s) \in Nat
      BY <1>0, SockFields DEF TakeNumber, Connection
    <3>2. Counter(s)' = Counter(s) + 1
      BY <1>0, SockFields DEF TakeNumber, Counter, TypeOK
    <3>3. raw' \in Seq(Chunk)
      BY <1>0, WrittenChunk DEF TypeOK
    <3>4. \A i \in 1..Len(raw') : raw'[i].seq \in Nat
      <4>1. \A i \in 1..Len(raw') : raw'[i] \in Chunk
        BY <3>3
      <4> QED
        BY <4>1 DEF Chunk
    <3> QED
      BY <1>1, <1>2, <2>1, <3>1, <3>2, <3>4
  <2>2. CASE t # s
    <3>1. sock'[t] = sock[t] /\ UserOf[t] # UserOf[s]
      BY <1>0, <1>2, <2>2, AloneStep DEF TakeNumber, Alone
    <3>2. Counter(t)' = Counter(t)
      BY <1>0, <3>1, SockFields DEF TakeNumber, Counter, TypeOK
    <3>3. In(t, "publish") =>
            /\ sock[t].num < Counter(t)
            /\ \A i \in 1..Len(raw) : raw[i].user = UserOf[t] => raw[i].seq < sock[t].num
      BY <1>2, <3>1, AloneStep DEF IInv, Numbered
    <3>4. In(t, "publish")' => In(t, "publish")
      BY <3>1 DEF In
    <3> QED
      BY <1>1, <1>2, <2>2, <3>1, <3>2, <3>3, <3>4
  <2> QED
    BY <2>1, <2>2
<1> QED
  BY <1>1, <1>2 DEF Numbered

LEMMA NumberedStep ==
    ASSUME IInv, TypeOK', [Next]_vars
    PROVE  Numbered'
<1>0. TypeOK /\ sock \in [Sockets -> Connection] /\ StaysKnown
  BY KnownStep DEF IInv, TypeOK
<1>1. CASE UNCHANGED <<sock, counter, raw>>
  BY <1>0, <1>1, NumbersKept DEF In
<1>2. ASSUME NEW s \in Sockets, Connect(s) PROVE Numbered'
  <2>1. /\ raw' = raw /\ sock[s].at = "idle" /\ sock[s].in = "wait"
        /\ sock'[s].at = "open" /\ sock'[s].in = "wait"
        /\ \A t \in Sockets \ {s} : sock'[t] = sock[t]
    BY <1>0, <1>2 DEF Connect, Connection, IInv, Gated
  <2>2. NumbersGrow'
    BY <1>0, <2>1, AloneStep DEF IInv, Numbered, NumbersGrow, TypeOK
  <2>3. ASSUME NEW t \in Sockets, Alone(UserOf[t])', sock'[t].at # "idle"
        PROVE  /\ \A i \in 1..Len(raw) : raw[i].user = UserOf[t] => raw[i].seq < Counter(t)'
               /\ In(t, "publish")' =>
                   /\ sock'[t].num < Counter(t)'
                   /\ \A i \in 1..Len(raw) :
                       raw[i].user = UserOf[t] => raw[i].seq < sock'[t].num
    <3>1. CASE t = s
      <4>1. \A i \in 1..Len(raw) : raw[i].user # UserOf[s]
        <5> SUFFICES ASSUME NEW i \in 1..Len(raw), raw[i].user = UserOf[s] PROVE FALSE
          OBVIOUS
        <5>1. PICK x \in Sockets : sock[x].at # "idle" /\ UserOf[x] = UserOf[s]
          BY DEF IInv, Numbered
        <5>2. x # s /\ sock'[x].at # "idle"
          BY <2>1, <5>1
        <5> QED
          BY <2>1, <2>3, <3>1, <5>1, <5>2 DEF Alone
      <4> QED
        BY <2>1, <3>1, <4>1 DEF In
    <3>2. CASE t # s
      <4>1. UserOf[t] # UserOf[s]
        BY <2>1, <2>3, <3>2 DEF Alone
      <4>2. Counter(t)' = Counter(t)
        BY <1>0, <1>2, <4>1, SockFields DEF Connect, Counter, TypeOK
      <4> QED
        BY <2>1, <2>3, <3>2, <4>2, <1>0, AloneStep DEF IInv, Numbered, In
    <3> QED
      BY <3>1, <3>2
  <2>4. \A i \in 1..Len(raw) : \E t \in Sockets :
          sock'[t].at # "idle" /\ UserOf[t] = raw[i].user
    BY <1>0 DEF IInv, Numbered, StaysKnown
  <2> QED
    BY <2>1, <2>2, <2>3, <2>4 DEF Numbered
\* A chunk is written and its connection publishes no more.
<1>3. ASSUME NEW s \in Sockets, In(s, "publish"), raw' = Written(s), counter' = counter,
             ~In(s, "publish")',
             \A t \in Sockets \ {s} : sock'[t] = sock[t]
      PROVE  Numbered'
  <2>1. /\ NumbersGrow'
        /\ \A t \in Sockets : Alone(UserOf[t])' /\ sock[t].at # "idle" =>
              \A i \in 1..Len(raw') : raw'[i].user = UserOf[t] => raw'[i].seq < Counter(t)
        /\ \A t \in Sockets \ {s} :
              Alone(UserOf[t])' /\ sock[t].at # "idle" =>
                  \A i \in 1..Len(raw') : raw'[i].user = UserOf[t] =>
                      i \in 1..Len(raw) /\ raw'[i] = raw[i]
        /\ \A i \in 1..Len(raw') : \E t \in Sockets :
              sock'[t].at # "idle" /\ UserOf[t] = raw'[i].user
    BY <1>0, <1>3, WrittenInOrder
  <2>2. ASSUME NEW t \in Sockets, Alone(UserOf[t])', sock'[t].at # "idle"
        PROVE  /\ \A i \in 1..Len(raw') : raw'[i].user = UserOf[t] => raw'[i].seq < Counter(t)'
               /\ In(t, "publish")' =>
                   /\ sock'[t].num < Counter(t)'
                   /\ \A i \in 1..Len(raw') :
                       raw'[i].user = UserOf[t] => raw'[i].seq < sock'[t].num
    <3>1. Counter(t)' = Counter(t)
      BY <1>3 DEF Counter
    <3>2. sock[t].at # "idle"
      BY <1>3, <2>2 DEF In
    <3>3. CASE t = s
      BY <1>3, <2>1, <2>2, <3>1, <3>2, <3>3
    <3>4. CASE t # s
      <4>1. sock'[t] = sock[t] /\ (In(t, "publish")' => In(t, "publish"))
        BY <1>3, <3>4 DEF In
      <4>2. In(t, "publish") =>
              /\ sock[t].num < Counter(t)
              /\ \A i \in 1..Len(raw) : raw[i].user = UserOf[t] => raw[i].seq < sock[t].num
        BY <1>0, <2>2, <3>2, AloneStep DEF IInv, Numbered
      <4> QED
        BY <2>1, <2>2, <3>1, <3>2, <3>4, <4>1, <4>2
    <3> QED
      BY <3>3, <3>4
  <2> QED
    BY <2>1, <2>2 DEF Numbered
<1>4. ASSUME NEW s \in Sockets, EndSession(s) \/ PublishFails(s) PROVE Numbered'
  <2>1. /\ counter' = counter /\ raw' \in PerhapsWritten(s)
        /\ sock'[s].in = "done" /\ sock'[s].at # "idle" /\ sock[s].at # "idle"
        /\ \A t \in Sockets \ {s} : sock'[t] = sock[t]
    <3>1. CASE EndSession(s)
      BY <1>0, <3>1 DEF EndSession, Connection
    <3>2. CASE PublishFails(s)
      BY <1>0, <3>2 DEF PublishFails, In, Connection
    <3> QED
      BY <1>4, <3>1, <3>2
  <2>2. CASE raw' = raw
    BY <1>0, <2>1, <2>2, NumbersKept DEF In
  <2>3. CASE In(s, "publish") /\ raw' = Written(s)
    BY <1>3, <2>1, <2>3 DEF In
  <2> QED
    BY <2>1, <2>2, <2>3 DEF PerhapsWritten, In
<1>5. ASSUME NEW s \in Sockets, Publish(s) PROVE Numbered'
  <2>1. CASE sock[s].left > 0
    BY <1>0, <1>5, <2>1, TakeNumberKeeps DEF Publish, In
  <2>2. CASE ~(sock[s].left > 0)
    <3>1. /\ sock'[s].in = "read" /\ counter' = counter
          /\ \A t \in Sockets \ {s} : sock'[t] = sock[t]
      BY <1>0, <1>5, <2>2 DEF Publish, Connection
    <3> QED
      BY <1>3, <1>5, <3>1 DEF Publish, In
  <2> QED
    BY <2>1, <2>2
<1>6. ASSUME NEW s \in Sockets, NEW parts \in 1..MaxParts, Receive(s, parts) PROVE Numbered'
  BY <1>0, <1>6, TakeNumberKeeps DEF Receive, In
\* Everything else leaves the numbers alone.
<1>7. ASSUME NEW s \in Sockets, UNCHANGED <<counter, raw>>,
             \A t \in Sockets \ {s} : sock'[t] = sock[t],
             sock'[s].at = sock[s].at, sock'[s].num = sock[s].num,
             sock'[s].in \in {sock[s].in, "read", "done"}
      PROVE  Numbered'
  BY <1>0, <1>7, NumbersKept DEF In
<1>8. ASSUME NEW s \in Sockets, Leave(s) \/ IngestBegins(s) \/ ReceiveDisconnect(s)
      PROVE  Numbered'
  <2>1. CASE Leave(s)
    BY <1>0, <1>7, <2>1 DEF Leave, Connection
  <2>2. CASE IngestBegins(s)
    BY <1>0, <1>7, <2>2 DEF IngestBegins, Connection
  <2>3. CASE ReceiveDisconnect(s)
    BY <1>0, <1>7, <2>3 DEF ReceiveDisconnect, Connection
  <2> QED
    BY <1>8, <2>1, <2>2, <2>3
<1>9. ASSUME NEW s \in Sockets, NEW place, EgressGoto(s, place) PROVE Numbered'
  BY <1>0, <1>7, <1>9 DEF EgressGoto, Connection
<1>10. ASSUME NEW s \in Sockets, Seek(s) \/ TakeFrame(s) \/ Drop(s) \/ Play(s)
       PROVE  Numbered'
  <2>1. CASE Seek(s)
    BY <1>0, <1>7, <2>1 DEF Seek, Connection
  <2>2. CASE TakeFrame(s)
    BY <1>0, <1>7, <2>2 DEF TakeFrame, Connection
  <2>3. CASE Drop(s)
    BY <1>0, <1>7, <2>3 DEF Drop, Connection
  <2>4. CASE Play(s)
    BY <1>0, <1>7, <2>4 DEF Play, Connection
  <2> QED
    BY <1>10, <2>1, <2>2, <2>3, <2>4
<1> QED
  BY <1>1, <1>2, <1>4, <1>5, <1>6, <1>8, <1>9, <1>10, SynthesizeAppends
     DEF Next, vars, Ingest, Egress, ConsumerStarts, Skip, ConsumerStops, Fail, ConsumerFails,
         FrameFails, EgressFails, PipelineFails

-----------------------------------------------------------------------------
(* What is played and dropped.                                             *)

LEMMA DropHistory ==
    ASSUME IInv, StaysKnown, NEW s \in Sockets, Drop(s)
    PROVE  /\ \A t \in Sockets : HighInv(t)'
           /\ StaleUnlessReconnected'
           /\ LagBounded'
<1>0. TypeOK /\ Pointers /\ raw \in Seq(Chunk)
  BY DEF IInv, TypeOK
<1>1. UNCHANGED <<high, raw, played>>
  BY DEF Drop
<1>2. \A t \in Sockets : HighInv(t)'
  BY <1>1 DEF IInv, HighInv
<1>3. LagBounded'
  BY <1>1 DEF IInv, LagBounded
<1>4. InHand(s) \in 1..Len(raw) /\ Speaker(s) \in Users /\ Number(s) \in Nat
  BY <1>0, HandType DEF Drop
<1>5. ASSUME NEW u, u = Speaker(s), Alone(u)' PROVE LaterPlayed(s, InHand(s))
  <2>1. Number(s) < high[s][Speaker(s)] - Window /\ high[s][Speaker(s)] \in Int
    BY <1>0, <1>4 DEF Drop, TooStale, TypeOK
  <2>2. high[s][Speaker(s)] # -1 /\ Number(s) < high[s][Speaker(s)]
    BY <1>4, <2>1, AudioAssumption
  <2>3. PICK i \in 1..Len(played[s]) :
            /\ raw[played[s][i]].user = Speaker(s)
            /\ raw[played[s][i]].seq = high[s][Speaker(s)]
    BY <1>4, <2>2 DEF IInv, HighInv
  <2> DEFINE p == played[s][i]
             k == InHand(s)
  <2>4. /\ p \in 1..Len(raw) /\ k \in 1..Len(raw) /\ Len(raw) \in Nat
        /\ raw[p].user = u /\ raw[k].user = u
        /\ raw[k].seq \in Nat /\ raw[p].seq \in Int /\ raw[k].seq < raw[p].seq
    BY <1>0, <1>4, <1>5, <2>1, <2>2, <2>3 DEF Pointers, Number, Speaker
  <2>5. Alone(u)
    BY <1>5, AloneStep
  <2>6. p < k => raw[p].seq < raw[k].seq
    BY <2>4, <2>5 DEF IInv, Numbered, NumbersGrow
  <2> HIDE DEF p, k
  <2>7. p > k
    BY <2>4, <2>6
  <2> QED
    BY <2>4, <2>7 DEF LaterPlayed, p, k
<1>6. StaleUnlessReconnected'
  <2> SUFFICES ASSUME NEW t \in Sockets, NEW k \in dropped'[t], Alone(raw[k].user)'
               PROVE  LaterPlayed(t, k)
    BY <1>1 DEF StaleUnlessReconnected, LaterPlayed
  <2>1. CASE k \in dropped[t]
    BY <1>1, <2>1, AloneStep DEF IInv, StaleUnlessReconnected
  <2>2. CASE k \notin dropped[t]
    <3>1. t = s /\ k = InHand(s)
      BY <1>0, <2>2 DEF Drop, TypeOK
    <3>2. PICK u : u = raw[k].user
      OBVIOUS
    <3>3. u = Speaker(s) /\ Alone(u)'
      BY <1>1, <3>1, <3>2 DEF Speaker, Alone
    <3> QED
      BY <1>5, <3>1, <3>3
  <2> QED
    BY <2>1, <2>2
<1> QED
  BY <1>2, <1>3, <1>6

LEMMA PlayHistory ==
    ASSUME IInv, StaysKnown, NEW s \in Sockets, Play(s)
    PROVE  /\ \A t \in Sockets : HighInv(t)'
           /\ StaleUnlessReconnected'
           /\ LagBounded'
<1> DEFINE u == Speaker(s)
           n == Number(s)
           last == Len(played[s]) + 1
<1>0. TypeOK /\ Pointers /\ raw \in Seq(Chunk)
  BY DEF IInv, TypeOK
<1>1. /\ InHand(s) \in 1..Len(raw) /\ u \in Users /\ n \in Nat
      /\ raw[InHand(s)].user = u /\ raw[InHand(s)].seq = n
  BY <1>0, HandType DEF Play, Speaker, Number
<1>2. /\ raw' = raw /\ dropped' = dropped
      /\ \A t \in Sockets \ {s} : played'[t] = played[t] /\ high'[t] = high[t]
      /\ \A v \in Users \ {u} : high'[s][v] = high[s][v]
      /\ high'[s][u] = Highest(s) /\ high[s][u] \in Int /\ Highest(s) \in Int
  BY <1>0, <1>1 DEF Play, TypeOK, Highest
<1>3. /\ Len(played[s]) \in Nat /\ Len(played'[s]) = last
      /\ played'[s][last] = InHand(s)
      /\ \A i \in 1..Len(played[s]) : i \in 1..Len(played'[s]) /\ played'[s][i] = played[s][i]
      /\ \A i \in 1..Len(played'[s]) : i \in 1..Len(played[s]) \/ i = last
  <2>1. played'[s] = Append(played[s], InHand(s)) /\ played[s] \in Seq(Nat \ {0})
    BY <1>0 DEF Play, TypeOK
  <2> QED
    BY <1>1, <2>1
<1>4. Highest(s) >= n /\ Highest(s) >= high[s][u] /\ Highest(s) \in {n, high[s][u]}
  BY <1>1, <1>2 DEF Highest
<1>5. \A i \in 1..Len(played[s]) : raw[played[s][i]] \in Chunk
  BY <1>0 DEF Pointers
<1>6. HighInv(s)'
  <2>1. ASSUME NEW v \in Users, high'[s][v] # -1
        PROVE  \E i \in 1..Len(played'[s]) :
                  raw[played'[s][i]].user = v /\ raw[played'[s][i]].seq = high'[s][v]
    <3>1. CASE high'[s][v] = high[s][v]
      <4>1. HighInv(s) /\ high[s][v] # -1
        BY <2>1, <3>1 DEF IInv
      <4>2. PICK i \in 1..Len(played[s]) :
              raw[played[s][i]].user = v /\ raw[played[s][i]].seq = high[s][v]
        BY <4>1 DEF HighInv
      <4>3. i \in 1..Len(played'[s]) /\ played'[s][i] = played[s][i]
        BY <1>3
      <4> QED
        BY <3>1, <4>2, <4>3
    <3>2. CASE v = u /\ high'[s][v] = n
      BY <1>1, <1>3, <3>2
    <3> QED
      BY <1>2, <1>4, <3>1, <3>2
  <2>2. ASSUME NEW i \in 1..Len(played'[s])
        PROVE  raw[played'[s][i]].seq <= high'[s][raw[played'[s][i]].user]
    <3>1. CASE i \in 1..Len(played[s])
      <4> DEFINE c == raw[played[s][i]]
      <4>1. c.seq <= high[s][c.user] /\ c.seq \in Nat /\ c.user \in Users
        BY <1>5, <3>1 DEF IInv, HighInv, Chunk
      <4>2. c.seq <= high'[s][c.user]
        BY <1>2, <1>4, <4>1
      <4> QED
        BY <1>3, <3>1, <4>2
    <3>2. CASE i = last
      BY <1>1, <1>2, <1>3, <1>4, <3>2
    <3> QED
      BY <1>3, <3>1, <3>2
  <2>3. ASSUME NEW v \in Users, high'[s][v] # -1
        PROVE  \E i \in 1..Len(played'[s]) :
                  raw'[played'[s][i]].user = v /\ raw'[played'[s][i]].seq = high'[s][v]
    BY <1>2, <2>1, <2>3
  <2>4. ASSUME NEW i \in 1..Len(played'[s])
        PROVE  raw'[played'[s][i]].seq <= high'[s][raw'[played'[s][i]].user]
    BY <1>2, <2>2
  <2> QED
    BY <2>3, <2>4 DEF HighInv
<1>7. ASSUME NEW t \in Sockets, t # s PROVE HighInv(t)'
  <2>1. played'[t] = played[t] /\ high'[t] = high[t] /\ raw' = raw
    BY <1>2, <1>7
  <2>2. HighInv(t)
    BY DEF IInv
  <2> QED
    BY <2>1, <2>2 DEF HighInv
<1>8. StaleUnlessReconnected'
  <2> SUFFICES ASSUME NEW t \in Sockets, NEW k \in dropped[t], Alone(raw[k].user)'
               PROVE  LaterPlayed(t, k)'
    BY <1>2 DEF StaleUnlessReconnected
  <2>1. LaterPlayed(t, k)
    <3>1. PICK v : v = raw[k].user
      OBVIOUS
    <3>2. Alone(v)'
      BY <1>2, <3>1 DEF Alone
    <3>3. Alone(v)
      BY <3>2, AloneStep
    <3> QED
      BY <3>1, <3>3 DEF IInv, StaleUnlessReconnected
  <2> QED
    BY SMTT(30), <1>2, <1>3, <2>1 DEF LaterPlayed
<1>9. LagBounded'
  <2> SUFFICES ASSUME NEW t \in Sockets,
                      NEW i \in 1..Len(played'[t]), NEW j \in 1..Len(played'[t]), i < j,
                      raw[played'[t][i]].user = raw[played'[t][j]].user
               PROVE  raw[played'[t][i]].seq - Window <= raw[played'[t][j]].seq
    BY <1>2 DEF LagBounded
  <2>1. CASE t # s
    BY <1>2, <2>1 DEF IInv, LagBounded
  <2>2. CASE t = s /\ j \in 1..Len(played[s])
    <3>1. i \in 1..Len(played[s])
      BY <1>3, <2>2
    <3> QED
      BY <1>3, <2>2, <3>1 DEF IInv, LagBounded
  <2>3. CASE t = s /\ j = last
    <3>1. i \in 1..Len(played[s]) /\ played'[s][i] = played[s][i] /\ played'[s][j] = InHand(s)
      BY <1>3, <2>3
    <3> DEFINE c == raw[played[s][i]]
    <3>2. c.user = u /\ c.seq <= high[s][u] /\ c.seq \in Nat
      BY <1>1, <1>5, <2>3, <3>1 DEF IInv, HighInv, Chunk
    <3>3. ~(n < high[s][u] - Window)
      BY DEF Play, TooStale
    <3> HIDE DEF c
    <3>4. c.seq - Window <= n
      <4>1. Window \in Nat /\ n \in Nat /\ high[s][u] \in Int /\ c.seq \in Nat
        BY <1>1, <1>2, <3>2, AudioAssumption
      <4>2. c.seq <= high[s][u] /\ high[s][u] - Window <= n
        BY <3>2, <3>3, <4>1
      <4> HIDE DEF n, u
      <4> QED
        BY <4>1, <4>2
    <3> QED
      BY <1>1, <2>3, <3>1, <3>4 DEF c
  <2> QED
    BY <1>3, <2>1, <2>2, <2>3
<1> QED
  BY <1>6, <1>7, <1>8, <1>9

LEMMA HistoryStep ==
    ASSUME IInv, [Next]_vars
    PROVE  /\ \A t \in Sockets : HighInv(t)'
           /\ StaleUnlessReconnected'
           /\ LagBounded'
<1>1. RawGrows /\ StaysKnown
  BY RawStep, KnownStep DEF IInv
<1>2. \/ UNCHANGED <<high, played, dropped>>
      \/ \E s \in Sockets : Drop(s) \/ Play(s)
  BY ZenonT(40), SynthesizeAppends DEF Next, vars, Connect, Leave, EndSession, Ingest, IngestBegins, ReceiveDisconnect,
         Publish, Receive, Egress, ConsumerStarts, Seek, TakeFrame, Skip,
         ConsumerStops, EgressGoto, Fail, PublishFails, ConsumerFails, FrameFails,
         EgressFails, PipelineFails
<1> QED
  BY <1>1, <1>2, HistoryKept, DropHistory, PlayHistory

-----------------------------------------------------------------------------
(* Theorems.                                                               *)

LEMMA InvInit == Init => IInv
<1> SUFFICES ASSUME Init PROVE IInv
  OBVIOUS
<1>1. TypeOK
  BY TypeInit
<1>2. /\ Len(raw) = 0 /\ Len(synth) = 0
      /\ \A s \in Sockets : Len(played[s]) = 0 /\ dropped[s] = {} /\ sock[s] = Silent
      /\ \A s \in Sockets, u \in Users : high[s][u] = -1
  BY DEF Init
<1>3. Numbered
  BY <1>2 DEF Numbered, NumbersGrow, Silent
<1>4. Pointers /\ NoConsumerLeft
  BY <1>2 DEF Pointers, NoConsumerLeft, Silent, Out
<1>5. \A s \in Sockets : HighInv(s) /\ Gated(s)
  BY <1>2 DEF HighInv, Gated, Silent
<1>6. StaleUnlessReconnected /\ LagBounded
  BY <1>2 DEF StaleUnlessReconnected, LagBounded
<1> QED
  BY <1>1, <1>3, <1>4, <1>5, <1>6 DEF IInv

LEMMA InvStep == IInv /\ [Next]_vars => IInv'
<1> SUFFICES ASSUME IInv, [Next]_vars PROVE IInv'
  OBVIOUS
<1>1. TypeOK'
  BY TypeStep DEF IInv
<1> QED
  BY <1>1, NumberedStep, PointersStep, GatedStep, HistoryStep DEF IInv

\* The inductive invariant of the audio sockets of a room.
THEOREM AudioInvariant == Spec => []IInv
BY InvInit, InvStep, PTL DEF Spec

\* The numbers of a speaker who has connected once grow along audio.raw
\* (AudioIngestService._next_sequence).
THEOREM SpeakersAreNumbered == Spec => []NumbersGrow
<1>1. IInv => NumbersGrow
  BY DEF IInv, Numbered
<1> QED
  BY <1>1, AudioInvariant, PTL

\* The stale frame guard of egress drops no frame of such a speaker unless one
\* spoken later has been played.
THEOREM NothingNewDropped == Spec => []StaleUnlessReconnected
<1>1. IInv => StaleUnlessReconnected
  BY DEF IInv
<1> QED
  BY <1>1, AudioInvariant, PTL

\* What is played of a speaker never jumps back by more than the window.
THEOREM LagIsBounded == Spec => []LagBounded
<1>1. IInv => LagBounded
  BY DEF IInv
<1> QED
  BY <1>1, AudioInvariant, PTL

\* Without a failing call no session leaves a consumer behind: the start is
\* over before ingest begins, and the stop begins after the handler's wait.
THEOREM ConsumersAreStopped == Spec => []NoConsumerLeft
<1>1. IInv => NoConsumerLeft
  BY DEF IInv
<1> QED
  BY <1>1, AudioInvariant, PTL

\* The types, for the egress index arithmetic that relies on Pointers.
THEOREM AudioTypes == Spec => []TypeOK
<1>1. IInv => TypeOK
  BY DEF IInv
<1> QED
  BY <1>1, AudioInvariant, PTL
=============================================================================
