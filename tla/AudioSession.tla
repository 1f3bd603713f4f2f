---------------------------- MODULE AudioSession ----------------------------
(***************************************************************************)
(* The audio sockets of one room: audio_websocket of                       *)
(* app/modules/meeting/ws_router.py with the AudioIngestService of         *)
(* app/services/audio_bridge.py.                                           *)
(*                                                                         *)
(* A connection runs two tasks beside its handler.  Ingest numbers what    *)
(* the client says and publishes it to audio.raw; egress consumes          *)
(* audio.synthesized from its tail and plays the frames of the room.  The  *)
(* handler waits for the first of them to end and cancels the other.       *)
(*                                                                         *)
(* Between the two topics stand the workers: here the steps of module      *)
(* SpeechChannel, which SpeechPipeline implements.  Sound that is no chunk *)
(* (bad Base64, an empty or a control frame) and frames of other rooms     *)
(* change nothing.                                                         *)
(***************************************************************************)
EXTENDS Integers, Sequences

CONSTANTS
    Users,
    Sockets,      \* the audio connections that are ever opened
    UserOf,       \* the user of each of them
    Workers,      \* server processes: each has a service of its own
    WorkerOf,     \* the process that serves each connection
    Languages,    \* those the workers synthesize
    LanguageOf,   \* listening_language of each connection
    Window,       \* how many numbers a frame may lag (10 in the code)
    Talkers,      \* the connections whose client ever says something
    MaxParts,     \* chunks of 500 KB in one message of a client
    MaxChunks,    \* bound on audio.raw
    MaxFrames,    \* bound on audio.synthesized
    MaxFaults     \* bound on failing calls and repeated frames

ASSUME AudioAssumption ==
    /\ UserOf \in [Sockets -> Users]
    /\ WorkerOf \in [Sockets -> Workers]
    /\ Talkers \subseteq Sockets
    /\ Window \in Nat
    /\ MaxParts \in Nat
    /\ MaxChunks \in Nat
    /\ MaxFrames \in Nat
    /\ MaxFaults \in Nat

VARIABLES
    counter,    \* _sequence_counters of every process: the next number
    sock,       \* the connections
    high,       \* highest_seq of every connection: -1, or a number per speaker
    raw,        \* audio.raw: the chunks, with speaker and number
    synth,      \* audio.synthesized: the frames, each made of a chunk
    played,     \* history: the chunks each connection has played, in order
    dropped,    \* history: the chunks each connection has dropped as stale
    faults      \* the number of faults so far

vars == <<counter, sock, high, raw, synth, played, dropped, faults>>

-----------------------------------------------------------------------------
\* Ingest: awaiting egress_ready; receiving; publishing; done.
\* Egress: starting its consumer; seeking the tail; awaiting a frame; reading
\* the roster for it; stopping the consumer; done; done without having stopped
\* the consumer.
InPlaces == {"wait", "read", "publish", "done"}
OutPlaces == {"start", "seek", "poll", "filter", "stop", "done", "leaked"}

\* `num`: the number of the chunk in hand.  `left`: the chunks of the message
\* not yet published.  `pos`: the last frame taken.
Connection == [at: {"idle", "open", "over"}, gone: BOOLEAN,
               in: InPlaces, num: Nat, left: Nat,
               out: OutPlaces, pos: Nat]

Chunk == [user: Users, seq: Nat]
Frame == [chunk: Nat \ {0}, lang: Languages]

TypeOK ==
    /\ counter \in [Workers -> [Users -> Nat]]
    /\ sock \in [Sockets -> Connection]
    /\ high \in [Sockets -> [Users -> Int]]
    /\ raw \in Seq(Chunk)
    /\ synth \in Seq(Frame)
    /\ played \in [Sockets -> Seq(Nat \ {0})]
    /\ dropped \in [Sockets -> SUBSET (Nat \ {0})]
    /\ faults \in 0..MaxFaults

Counter(s) == counter[WorkerOf[s]][UserOf[s]]
In(s, place) == sock[s].at # "idle" /\ sock[s].in = place
Out(s, place) == sock[s].at # "idle" /\ sock[s].out = place

\* The egress task is over; its consumer has been stopped, or left behind when
\* the task was cancelled in its start or its stop.
Ended(s) == sock[s].out \in {"done", "leaked"}

Fault == faults < MaxFaults /\ faults' = faults + 1

Silent == [at |-> "idle", gone |-> FALSE, in |-> "wait", num |-> 0, left |-> 0,
           out |-> "start", pos |-> 0]

Init ==
    /\ counter = [w \in Workers |-> [u \in Users |-> 0]]
    /\ sock = [s \in Sockets |-> Silent]
    /\ high = [s \in Sockets |-> [u \in Users |-> -1]]
    /\ raw = <<>>
    /\ synth = <<>>
    /\ played = [s \in Sockets |-> <<>>]
    /\ dropped = [s \in Sockets |-> {}]
    /\ faults = 0

-----------------------------------------------------------------------------
(* The handler and its client.                                             *)

\* The participant is accepted; reset_sequence forgets the user's counter.
Connect(s) ==
    /\ sock[s].at = "idle"
    /\ sock' = [sock EXCEPT ![s].at = "open"]
    /\ counter' = [counter EXCEPT ![WorkerOf[s]][UserOf[s]] = 0]
    /\ UNCHANGED <<high, raw, synth, played, dropped, faults>>

Leave(s) ==
    /\ sock[s].at = "open"
    /\ ~sock[s].gone
    /\ sock' = [sock EXCEPT ![s].gone = TRUE]
    /\ UNCHANGED <<counter, high, raw, synth, played, dropped, faults>>

\* The topic after the chunk in hand is written.
Written(s) == Append(raw, [user |-> UserOf[s], seq |-> sock[s].num])

\* A call that is cancelled or fails may have written it all the same.
PerhapsWritten(s) == IF sock[s].in = "publish" THEN {raw, Written(s)} ELSE {raw}

\* CancelledError passes every `except Exception`.  Egress runs its `finally`
\* unless the start, which stands before the `try`, or the stop itself is hit.
OutAfterCancel(s) ==
    CASE Ended(s) -> sock[s].out
      [] sock[s].out \in {"start", "stop"} -> "leaked"
      [] OTHER -> "stop"

\* Mutant: the handler does not cancel the task that is pending.
EndSessionNoCancel(s) ==
    /\ sock[s].at = "open"
    /\ sock[s].in = "done" \/ Ended(s)
    /\ sock' = [sock EXCEPT ![s].at = "over"]
    /\ UNCHANGED <<counter, high, raw, synth, played, dropped, faults>>

\* asyncio.wait(FIRST_COMPLETED) returns and the pending task is cancelled.
EndSession(s) ==
    /\ sock[s].at = "open"
    /\ sock[s].in = "done" \/ Ended(s)
    /\ raw' \in PerhapsWritten(s)
    /\ sock' = [sock EXCEPT ![s].at = "over", ![s].in = "done", ![s].num = 0,
                            ![s].left = 0, ![s].out = OutAfterCancel(s)]
    /\ UNCHANGED <<counter, high, synth, played, dropped, faults>>

-----------------------------------------------------------------------------
(* Ingest.                                                                 *)

\* Mutant: ingest does not wait for egress.
IngestBeginsAtOnce(s) ==
    /\ In(s, "wait")
    /\ sock' = [sock EXCEPT ![s].in = "read"]
    /\ UNCHANGED <<counter, high, raw, synth, played, dropped, faults>>

\* guarded_ingest_task: egress_ready is set.
IngestBegins(s) ==
    /\ In(s, "wait")
    /\ ~Out(s, "start")
    /\ sock' = [sock EXCEPT ![s].in = "read"]
    /\ UNCHANGED <<counter, high, raw, synth, played, dropped, faults>>

\* Mutant: the counter is read and not counted up.
NumberNotTaken(s, parts) ==
    /\ sock' = [sock EXCEPT ![s].in = "publish", ![s].num = Counter(s),
                            ![s].left = parts]
    /\ UNCHANGED counter

\* _next_sequence, synchronous with what comes before the next await.
TakeNumber(s, parts) ==
    /\ sock' = [sock EXCEPT ![s].in = "publish", ![s].num = Counter(s),
                            ![s].left = parts]
    /\ counter' = [counter EXCEPT ![WorkerOf[s]][UserOf[s]] = @ + 1]

\* A message of the client is cut into chunks; the first one is numbered.
Receive(s, parts) ==
    /\ s \in Talkers
    /\ In(s, "read")
    /\ Len(raw) + parts <= MaxChunks
    /\ TakeNumber(s, parts - 1)
    /\ UNCHANGED <<high, raw, synth, played, dropped, faults>>

\* The disconnect, after the messages that came before it.
ReceiveDisconnect(s) ==
    /\ In(s, "read")
    /\ sock[s].gone
    /\ sock' = [sock EXCEPT ![s].in = "done"]
    /\ UNCHANGED <<counter, high, raw, synth, played, dropped, faults>>

Publish(s) ==
    /\ In(s, "publish")
    /\ raw' = Written(s)
    /\ IF sock[s].left > 0
         THEN TakeNumber(s, sock[s].left - 1)
         ELSE /\ sock' = [sock EXCEPT ![s].in = "read", ![s].num = 0]
              /\ UNCHANGED counter
    /\ UNCHANGED <<high, synth, played, dropped, faults>>

\* KafkaPublishError is not caught: the task fails.
PublishFails(s) ==
    /\ In(s, "publish")
    /\ Fault
    /\ raw' \in PerhapsWritten(s)
    /\ sock' = [sock EXCEPT ![s].in = "done", ![s].num = 0, ![s].left = 0]
    /\ UNCHANGED <<counter, high, synth, played, dropped>>

-----------------------------------------------------------------------------
(* Egress.                                                                 *)

EgressGoto(s, place) ==
    /\ sock' = [sock EXCEPT ![s].out = place]
    /\ UNCHANGED <<counter, high, raw, synth, played, dropped>>

\* egress_ready is set after a start, and after one that failed.
ConsumerStarts(s) == Out(s, "start") /\ EgressGoto(s, "seek") /\ UNCHANGED faults
ConsumerFails(s) == Out(s, "start") /\ Fault /\ EgressGoto(s, "done")

\* A group nobody knew begins at the tail (auto_offset_reset = latest).
Seek(s) ==
    /\ Out(s, "seek")
    /\ sock' = [sock EXCEPT ![s].out = "poll", ![s].pos = Len(synth)]
    /\ UNCHANGED <<counter, high, raw, synth, played, dropped, faults>>

TakeFrame(s) ==
    /\ Out(s, "poll")
    /\ sock[s].pos < Len(synth)
    /\ sock' = [sock EXCEPT ![s].out = "filter", ![s].pos = @ + 1]
    /\ UNCHANGED <<counter, high, raw, synth, played, dropped, faults>>

\* The chunk of the frame in hand, its speaker and its number.
InHand(s) == synth[sock[s].pos].chunk
Speaker(s) == raw[InHand(s)].user
Number(s) == raw[InHand(s)].seq

\* With more than one participant, only the listener's language is played.
OtherLanguage(s) == synth[sock[s].pos].lang # LanguageOf[s]
Skip(s) == Out(s, "filter") /\ OtherLanguage(s) /\ EgressGoto(s, "poll") /\ UNCHANGED faults

\* Reading the roster or decoding the event fails: logged, the frame is lost.
FrameFails(s) == Out(s, "filter") /\ Fault /\ EgressGoto(s, "poll")

\* Mutant: a frame as new as the highest is dropped.
TooStaleAtOnce(s) == Number(s) <= high[s][Speaker(s)]

\* Mutant: one number more may lag.
TooStaleLater(s) == Number(s) < high[s][Speaker(s)] - Window - 1

\* Mutant: a frame ahead of the highest is dropped.
TooStaleAhead(s) == Number(s) > high[s][Speaker(s)] + Window

TooStale(s) == Number(s) < high[s][Speaker(s)] - Window

\* (Whoever is alone hears every language: either way with no other to skip.)
Drop(s) ==
    /\ Out(s, "filter")
    /\ TooStale(s)
    /\ dropped' = [dropped EXCEPT ![s] = @ \cup {InHand(s)}]
    /\ sock' = [sock EXCEPT ![s].out = "poll"]
    /\ UNCHANGED <<counter, high, raw, synth, played, faults>>

Highest(s) ==
    IF Number(s) > high[s][Speaker(s)] THEN Number(s) ELSE high[s][Speaker(s)]

\* (Whether send_bytes succeeds or fails, which is logged, the loop goes on.)
Play(s) ==
    /\ Out(s, "filter")
    /\ ~TooStale(s)
    /\ sock' = [sock EXCEPT ![s].out = "poll"]
    /\ high' = [high EXCEPT ![s][Speaker(s)] = Highest(s)]
    /\ played' = [played EXCEPT ![s] = Append(@, InHand(s))]
    /\ UNCHANGED <<counter, raw, synth, dropped, faults>>

\* The iteration raises (the broker, a value that is no JSON).
EgressFails(s) == Out(s, "poll") /\ Fault /\ EgressGoto(s, "stop")

ConsumerStops(s) == Out(s, "stop") /\ EgressGoto(s, "done") /\ UNCHANGED faults

-----------------------------------------------------------------------------
(* The workers between the topics (external).                              *)

\* The workers make a frame, as SpeechPipeline is shown to: in turn while
\* nothing has failed, after that of any chunk, again and behind later ones.
Channel == INSTANCE SpeechChannel WITH said <- Len(raw), spoken <- synth

Synthesize(k, l) ==
    /\ Len(synth) < MaxFrames
    /\ UNCHANGED <<counter, sock, high, raw, played, dropped, faults>>
    /\ Channel!Speak(k, l)

PipelineFails == Fault /\ UNCHANGED <<counter, sock, high, raw, synth, played, dropped>>

-----------------------------------------------------------------------------
Ingest(s) ==
    \/ IngestBegins(s) \/ ReceiveDisconnect(s) \/ Publish(s)
    \/ \E parts \in 1..MaxParts : Receive(s, parts)

Egress(s) ==
    \/ ConsumerStarts(s) \/ Seek(s) \/ TakeFrame(s)
    \/ Skip(s) \/ Drop(s) \/ Play(s) \/ ConsumerStops(s)

Fail(s) == PublishFails(s) \/ ConsumerFails(s) \/ FrameFails(s) \/ EgressFails(s)

Next ==
    \/ \E s \in Sockets :
        Connect(s) \/ Leave(s) \/ EndSession(s) \/ Ingest(s) \/ Egress(s) \/ Fail(s)
    \/ \E k \in 1..Len(raw), l \in Languages : Synthesize(k, l)
    \/ PipelineFails

Spec == Init /\ [][Next]_vars

\* The event loop serves what is ready, and Kafka, Redis and the client's
\* transport answer.  Nobody has to connect, to speak or to leave.
FairSpec ==
    /\ Spec
    /\ \A s \in Sockets :
        WF_vars(Ingest(s)) /\ WF_vars(Egress(s)) /\ WF_vars(EndSession(s))

-----------------------------------------------------------------------------
(* Properties.                                                             *)

\* The user has had one connection only, so nobody has reset the counter.
Alone(u) == \A s, t \in Sockets :
    UserOf[s] = u /\ UserOf[t] = u /\ sock[s].at # "idle" /\ sock[t].at # "idle" => s = t

\* The numbers of a user's chunks grow along audio.raw, whatever fails, as long
\* as the user has connected once (_next_sequence, AudioChunkPayload).  (A send
\* is written once or not at all: that the producer, which is not idempotent,
\* may write a chunk twice when it repeats a send by itself is left out.)
NumbersGrow ==
    \A i, j \in 1..Len(raw) :
        i < j /\ raw[i].user = raw[j].user /\ Alone(raw[i].user) => raw[i].seq < raw[j].seq

\* Something the user said later than chunk k has been played to s.
LaterPlayed(s, k) ==
    \E i \in 1..Len(played[s]) : played[s][i] > k /\ raw[played[s][i]].user = raw[k].user

\* The stale frame guard drops a frame only when one spoken later has been
\* played: it is about frames out of order.
OnlyStaleDropped == \A s \in Sockets : \A k \in dropped[s] : LaterPlayed(s, k)

\* That much is true of the speakers who have not reconnected.
StaleUnlessReconnected ==
    \A s \in Sockets : \A k \in dropped[s] : Alone(raw[k].user) => LaterPlayed(s, k)

\* However the pipeline repeats and reorders frames, what is played of a
\* speaker never jumps back by more than the window.
LagBounded ==
    \A s \in Sockets : \A i, j \in 1..Len(played[s]) :
        LET a == raw[played[s][i]]
            b == raw[played[s][j]]
        IN i < j /\ a.user = b.user => a.seq - Window <= b.seq

\* A session that ends without a failing call leaves no consumer behind: the
\* cancellation never meets egress in its start or its stop, where `finally`
\* does not help.
NoConsumerLeft == faults = 0 => \A s \in Sockets : sock[s].out # "leaked"

\* When the client leaves, both tasks end, whatever fails, and the consumer is
\* stopped unless a call has failed: then the cancellation may meet egress in
\* the stop after its failure, and the consumer is left behind.
SessionEnds ==
    \A s \in Sockets :
        sock[s].gone ~>
            /\ sock[s].in = "done"
            /\ sock[s].out = "done" \/ (sock[s].out = "leaked" /\ faults > 0)

\* What the pipeline says in the listener's language is heard by every session
\* that is open: no frame is taken for stale while nothing fails.
EveryFrameHeard ==
    \A s \in Sockets, i \in 1..MaxFrames :
        (/\ Out(s, "poll")
         /\ sock[s].pos < i
         /\ i <= Len(synth)
         /\ synth[i].lang = LanguageOf[s])
        ~> (\/ faults > 0
            \/ Ended(s)
            \/ i <= Len(synth) /\ \E j \in 1..Len(played[s]) : played[s][j] = synth[i].chunk)

-----------------------------------------------------------------------------
(* The inductive invariant.                                                *)

\* What a chunk in hand is numbered is behind the counter and ahead of what
\* the user has published; the counter is ahead of both.
Numbered ==
    /\ NumbersGrow
    /\ \A s \in Sockets : Alone(UserOf[s]) /\ sock[s].at # "idle" =>
        /\ \A i \in 1..Len(raw) :
            raw[i].user = UserOf[s] => raw[i].seq < Counter(s)
        /\ In(s, "publish") =>
            /\ sock[s].num < Counter(s)
            /\ \A i \in 1..Len(raw) :
                raw[i].user = UserOf[s] => raw[i].seq < sock[s].num
    /\ \A i \in 1..Len(raw) : \E s \in Sockets :
        sock[s].at # "idle" /\ UserOf[s] = raw[i].user

\* highest_seq is a number that has been played, and none played is higher.
HighInv(s) ==
    /\ \A u \in Users : high[s][u] # -1 =>
        \E i \in 1..Len(played[s]) :
            raw[played[s][i]].user = u /\ raw[played[s][i]].seq = high[s][u]
    /\ \A i \in 1..Len(played[s]) :
        raw[played[s][i]].seq <= high[s][raw[played[s][i]].user]

\* Positions, frames and histories point at what exists.
Pointers ==
    /\ \A i \in 1..Len(synth) : synth[i].chunk \in 1..Len(raw)
    /\ \A s \in Sockets :
        /\ sock[s].pos <= Len(synth)
        /\ Out(s, "filter") => sock[s].pos > 0
        /\ \A i \in 1..Len(played[s]) : played[s][i] \in 1..Len(raw)
        /\ dropped[s] \subseteq 1..Len(raw)

\* The start of egress is over before ingest can end, and without a fault
\* egress stops because it is cancelled.
Gated(s) ==
    /\ sock[s].out = "start" => sock[s].in = "wait" /\ sock[s].at # "over"
    /\ sock[s].at = "idle" => sock[s].out = "start" /\ ~sock[s].gone
    /\ faults = 0 /\ sock[s].at # "over" => sock[s].out \notin {"stop", "done", "leaked"}

IInv ==
    /\ TypeOK
    /\ Numbered
    /\ Pointers
    /\ \A s \in Sockets : HighInv(s) /\ Gated(s)
    /\ StaleUnlessReconnected
    /\ LagBounded
    /\ NoConsumerLeft
=============================================================================
