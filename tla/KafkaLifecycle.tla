--------------------------- MODULE KafkaLifecycle ---------------------------
(***************************************************************************)
(* The lifespan of a server process (app/main.py) and what it does to      *)
(* Kafka: KafkaManager.start and stop (app/kafka/manager.py), start and    *)
(* stop of the producer (producer.py) and of every registered consumer     *)
(* (consumer.py).                                                          *)
(*                                                                         *)
(* The lifespan is one coroutine: it stands before one await at a time,    *)
(* and the loops of the consumers that have been started run beside it.    *)
(* A start that fails is logged and the process serves without Kafka.      *)
(***************************************************************************)
EXTENDS Naturals

CONSTANTS
    NumConsumers,   \* registered consumers, in their order: e-mail is the first
    MaxBoots,       \* bound on the times the process is started
    MaxFaults       \* bound on failing calls and crashes

ASSUME LifecycleAssumption ==
    /\ NumConsumers \in Nat \ {0}
    /\ MaxBoots \in Nat
    /\ MaxFaults \in Nat

Consumers == 1..NumConsumers

VARIABLES
    at,             \* where the lifespan stands
    turn,           \* the consumer that start() or stop() is at
    kafka_started,
    producer,       \* KafkaProducer._producer
    client,         \* _consumer of every consumer
    running,        \* _running of every consumer
    loop,           \* _task of every consumer
    boots,          \* the number of starts of the process so far
    faults          \* the number of faults so far

memory == <<kafka_started, producer, client, running, loop>>
lifecycle == <<at, turn, memory, boots, faults>>

-----------------------------------------------------------------------------
\* No process; in _init_topics; awaiting the start of the producer, or of the
\* consumer whose turn it is; serving; cancelling the task of the consumer
\* whose turn it is; awaiting the end of its client, or of the producer; the
\* process has ended after its shutdown, or by an exception in it.
Starting == {"topics", "producer", "consumer"}
Stopping == {"cancel", "close", "closeProducer"}
Places == {"off", "serving", "exited", "aborted"} \cup Starting \cup Stopping

\* A client is assigned to its attribute before its start is awaited.
Clients == {"none", "made", "started"}

\* Not created; running; ended by a cancellation, or by an exception.
Loops == {"none", "alive", "cancelled", "failed"}

LifecycleTypeOK ==
    /\ at \in Places
    /\ turn \in Consumers
    /\ kafka_started \in BOOLEAN
    /\ producer \in Clients
    /\ client \in [Consumers -> Clients]
    /\ running \in [Consumers -> BOOLEAN]
    /\ loop \in [Consumers -> Loops]
    /\ boots \in 0..MaxBoots
    /\ faults \in 0..MaxFaults

Up == at \notin {"off", "exited", "aborted"}
Alive(c) == Up /\ loop[c] = "alive"

Fault == faults < MaxFaults /\ faults' = faults + 1

\* get_kafka_manager() of a new process.
Fresh ==
    /\ turn' = 1
    /\ kafka_started' = FALSE
    /\ producer' = "none"
    /\ client' = [c \in Consumers |-> "none"]
    /\ running' = [c \in Consumers |-> FALSE]
    /\ loop' = [c \in Consumers |-> "none"]

LifecycleInit ==
    /\ at = "off"
    /\ turn = 1
    /\ kafka_started = FALSE
    /\ producer = "none"
    /\ client = [c \in Consumers |-> "none"]
    /\ running = [c \in Consumers |-> FALSE]
    /\ loop = [c \in Consumers |-> "none"]
    /\ boots = 0
    /\ faults = 0

-----------------------------------------------------------------------------
(* Startup.                                                                *)

Boot ==
    /\ ~Up
    /\ boots < MaxBoots
    /\ at' = "topics"
    /\ boots' = boots + 1
    /\ Fresh
    /\ UNCHANGED faults

\* An exception of manager.start(), which the lifespan logs.
SkipKafka ==
    /\ Fault
    /\ at' = "serving"
    /\ UNCHANGED <<turn, memory, boots>>

\* _init_topics returns, also when listing, creating or configuring topics has
\* failed; producer.start() assigns the client.
TopicsReady ==
    /\ at = "topics"
    /\ at' = "producer"
    /\ producer' = "made"
    /\ UNCHANGED <<turn, kafka_started, client, running, loop, boots, faults>>

\* The admin client fails to start or to close.
TopicsFail == at = "topics" /\ SkipKafka

\* The synchronous piece of consumer.start() before its await.
Prepare(c) ==
    /\ at' = "consumer"
    /\ turn' = c
    /\ running' = [running EXCEPT ![c] = TRUE]

ProducerStarts ==
    /\ at = "producer"
    /\ producer' = "started"
    /\ Prepare(1)
    /\ client' = [client EXCEPT ![1] = "made"]
    /\ UNCHANGED <<kafka_started, loop, boots, faults>>

ProducerFails == at = "producer" /\ SkipKafka

\* Mutant: the flag is set before the last consumer runs.
ConsumerStartsEarlyFlag ==
    /\ at = "consumer"
    /\ loop' = [loop EXCEPT ![turn] = "alive"]
    /\ client' = [client EXCEPT ![turn] = "started"]
    /\ at' = "serving"
    /\ kafka_started' = TRUE
    /\ UNCHANGED <<turn, running, producer, boots, faults>>

\* The loop runs; the next consumer begins, or manager.start() returns.
ConsumerStarts ==
    /\ at = "consumer"
    /\ loop' = [loop EXCEPT ![turn] = "alive"]
    /\ IF turn < NumConsumers
         THEN /\ Prepare(turn + 1)
              /\ client' = [client EXCEPT ![turn] = "started", ![turn + 1] = "made"]
              /\ UNCHANGED kafka_started
         ELSE /\ at' = "serving"
              /\ client' = [client EXCEPT ![turn] = "started"]
              /\ kafka_started' = TRUE
              /\ UNCHANGED <<turn, running>>
    /\ UNCHANGED <<producer, boots, faults>>

\* Those before it keep running, and so does the producer.
ConsumerFails == at = "consumer" /\ SkipKafka

-----------------------------------------------------------------------------
(* Shutdown.                                                               *)

\* Mutant: the producer is stopped before the consumers.
ShutdownProducerFirst ==
    /\ at = "serving"
    /\ at' = IF kafka_started THEN "cancel" ELSE "exited"
    /\ producer' = IF kafka_started THEN "none" ELSE producer
    /\ turn' = 1
    /\ UNCHANGED <<kafka_started, client, running, loop, boots, faults>>

Shutdown ==
    /\ at = "serving"
    /\ at' = IF kafka_started THEN "cancel" ELSE "exited"
    /\ turn' = 1
    /\ UNCHANGED <<memory, boots, faults>>

\* consumer.stop(): the task is cancelled and awaited.
CancelTask ==
    /\ at = "cancel"
    /\ at' = "close"
    /\ running' = [running EXCEPT ![turn] = FALSE]
    /\ loop' = [loop EXCEPT ![turn] = IF @ = "alive" THEN "cancelled" ELSE @]
    /\ UNCHANGED <<turn, kafka_started, producer, client, boots, faults>>

\* Mutant: the last consumer is left out.
CloseClientNotLast ==
    /\ at = "close"
    /\ client' = [client EXCEPT ![turn] = "none"]
    /\ IF turn + 1 < NumConsumers
         THEN at' = "cancel" /\ turn' = turn + 1
         ELSE at' = "closeProducer" /\ UNCHANGED turn
    /\ UNCHANGED <<kafka_started, producer, running, loop, boots, faults>>

CloseClient ==
    /\ at = "close"
    /\ client' = [client EXCEPT ![turn] = "none"]
    /\ IF turn < NumConsumers
         THEN at' = "cancel" /\ turn' = turn + 1
         ELSE at' = "closeProducer" /\ UNCHANGED turn
    /\ UNCHANGED <<kafka_started, producer, running, loop, boots, faults>>

CloseProducer ==
    /\ at = "closeProducer"
    /\ at' = "exited"
    /\ producer' = "none"
    /\ UNCHANGED <<turn, kafka_started, client, running, loop, boots, faults>>

\* Nothing catches an exception of a stop: the rest is not stopped.
StopFails ==
    /\ at \in {"close", "closeProducer"}
    /\ Fault
    /\ at' = "aborted"
    /\ UNCHANGED <<turn, memory, boots>>

-----------------------------------------------------------------------------
\* The loop raises (the client, a value that is no JSON): logged, and over.
LoopFails(c) ==
    /\ Alive(c)
    /\ Fault
    /\ loop' = [loop EXCEPT ![c] = "failed"]
    /\ UNCHANGED <<at, turn, kafka_started, producer, client, running, boots>>

Crash ==
    /\ Up
    /\ Fault
    /\ at' = "off"
    /\ Fresh
    /\ UNCHANGED boots

Proceed ==
    \/ Boot \/ TopicsReady \/ ProducerStarts \/ ConsumerStarts
    \/ CancelTask \/ CloseClient \/ CloseProducer

LifecycleNext ==
    \/ Proceed \/ Shutdown
    \/ TopicsFail \/ ProducerFails \/ ConsumerFails \/ StopFails \/ Crash
    \/ \E c \in Consumers : LoopFails(c)

LifecycleSpec == LifecycleInit /\ [][LifecycleNext]_lifecycle

-----------------------------------------------------------------------------
(* Properties.                                                             *)

\* As long as a loop runs the producer does: a handler can always publish and
\* dead-letter, through every failed start and every shutdown.
LoopsHaveProducer == \A c \in Consumers : Alive(c) => producer = "started"

\* When the lifespan believes that Kafka has started, every consumer runs, or
\* its loop has failed; shutdown may rely on the flag.
StartedMeansRunning ==
    at = "serving" /\ kafka_started =>
        /\ producer = "started"
        /\ \A c \in Consumers :
            running[c] /\ client[c] = "started" /\ loop[c] \in {"alive", "failed"}

\* A shutdown that ends without an exception after a start that succeeded has
\* stopped every loop, every client and the producer.
ShutdownStopsAll ==
    at = "exited" /\ kafka_started =>
        /\ producer = "none"
        /\ \A c \in Consumers :
            ~running[c] /\ client[c] = "none" /\ loop[c] \notin {"none", "alive"}

-----------------------------------------------------------------------------
(* The inductive invariant.                                                *)

\* The consumer has been started, or stopped.
IsRunning(c) == running[c] /\ client[c] = "started" /\ loop[c] \in {"alive", "failed"}
IsStopped(c) == ~running[c] /\ client[c] = "none" /\ loop[c] \in {"cancelled", "failed"}

\* What start() and stop() have got through, by the place of the lifespan.
Progress ==
    /\ at \in {"topics", "producer"} => \A c \in Consumers : loop[c] = "none"
    /\ at = "consumer" =>
        /\ producer = "started"
        /\ running[turn]
        /\ \A c \in Consumers :
            /\ c < turn => IsRunning(c)
            /\ c >= turn => loop[c] = "none"
    /\ at \in Stopping =>
        /\ kafka_started
        /\ producer = "started"
        /\ \A c \in Consumers :
            /\ c < turn => IsStopped(c)
            /\ c > turn => IF at = "closeProducer" THEN FALSE ELSE IsRunning(c)
    /\ at = "cancel" => IsRunning(turn)
    /\ at = "close" => ~running[turn] /\ loop[turn] \in {"cancelled", "failed"}
    /\ at = "closeProducer" => IsStopped(turn)
    /\ at \in Starting \cup {"off"} => ~kafka_started

LifecycleInv ==
    /\ LifecycleTypeOK
    /\ LoopsHaveProducer
    /\ StartedMeansRunning
    /\ ShutdownStopsAll
    /\ Progress
=============================================================================
