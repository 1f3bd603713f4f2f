------------------------ MODULE KafkaLifecycleProofs ------------------------
(* Theorems about KafkaLifecycle, for every number of consumers, starts    *)
(* and faults.                                                             *)
EXTENDS KafkaLifecycle, TLAPS

\* There is a first consumer.
LEMMA FirstConsumer == 1 \in Consumers
BY LifecycleAssumption DEF Consumers

\* Before the first start there is no process.
LEMMA LifecycleInitial == LifecycleInit => LifecycleInv
<1> SUFFICES ASSUME LifecycleInit PROVE LifecycleInv
  OBVIOUS
<1>1. LifecycleTypeOK
  <2>1. boots \in 0..MaxBoots /\ faults \in 0..MaxFaults
    BY LifecycleAssumption DEF LifecycleInit
  <2> QED
    BY <2>1, FirstConsumer DEF LifecycleInit, LifecycleTypeOK, Places, Clients, Loops
<1>2. Progress
  BY DEF LifecycleInit, Progress, Starting, Stopping
<1> QED
  BY <1>1, <1>2
     DEF LifecycleInit, LifecycleInv, LoopsHaveProducer, StartedMeansRunning, ShutdownStopsAll,
         Alive, Up

\* A process that begins, or is gone, has a fresh memory.
LEMMA FreshKeeps ==
    ASSUME LifecycleInv, Fresh, at' \in {"topics", "off"},
           boots' \in 0..MaxBoots, faults' \in 0..MaxFaults
    PROVE  LifecycleInv'
<1>1. LifecycleTypeOK'
  BY FirstConsumer DEF Fresh, LifecycleTypeOK, Places, Starting, Clients, Loops
<1>2. Progress'
  BY DEF Fresh, Progress, Starting, Stopping
<1> QED
  BY <1>1, <1>2
     DEF Fresh, LifecycleInv, LoopsHaveProducer, StartedMeansRunning, ShutdownStopsAll, Alive, Up

\* A failed start leaves everything as it stands.
LEMMA SkipKeeps ==
    ASSUME LifecycleInv, SkipKafka, at \in Starting
    PROVE  LifecycleInv'
BY LifecycleAssumption
   DEF SkipKafka, Fault, memory, LifecycleInv, LifecycleTypeOK, LoopsHaveProducer,
       StartedMeansRunning, ShutdownStopsAll, Progress, Places, Starting, Stopping, Alive, Up

\* Every step of startup keeps the invariant.
LEMMA StartupKeeps ==
    ASSUME LifecycleInv, TopicsReady \/ ProducerStarts \/ ConsumerStarts
    PROVE  LifecycleInv'
<1>1. CASE TopicsReady
  BY <1>1
     DEF TopicsReady, LifecycleInv, LifecycleTypeOK, LoopsHaveProducer, StartedMeansRunning,
         ShutdownStopsAll, Progress, Places, Starting, Stopping, Clients, Alive, Up
<1>2. CASE ProducerStarts
  BY <1>2, LifecycleAssumption
     DEF ProducerStarts, Prepare, LifecycleInv, LifecycleTypeOK, LoopsHaveProducer,
         StartedMeansRunning, ShutdownStopsAll, Progress, Places, Starting, Stopping, Clients,
         Consumers, Alive, Up
<1>3. CASE ConsumerStarts
  <2>1. CASE turn < NumConsumers
    <3>1. turn + 1 \in Consumers /\ turn' = turn + 1
      BY <1>3, <2>1, LifecycleAssumption
         DEF ConsumerStarts, Prepare, LifecycleInv, LifecycleTypeOK, Consumers
    <3>2. LifecycleTypeOK'
      BY <1>3, <2>1, <3>1
         DEF ConsumerStarts, Prepare, LifecycleInv, LifecycleTypeOK, Places, Starting, Clients, Loops
    <3>3. Progress'
      <4>1. /\ at' = "consumer" /\ UNCHANGED <<producer, kafka_started>>
            /\ producer = "started" /\ ~kafka_started
            /\ running' = [running EXCEPT ![turn + 1] = TRUE]
            /\ loop' = [loop EXCEPT ![turn] = "alive"]
            /\ client' = [client EXCEPT ![turn] = "started", ![turn + 1] = "made"]
        BY <1>3, <2>1, <3>1 DEF ConsumerStarts, Prepare, LifecycleInv, Progress, Starting
      <4>2. ASSUME NEW c \in Consumers
            PROVE  /\ c < turn' => IsRunning(c)'
                   /\ c >= turn' => loop'[c] = "none"
        BY <1>3, <3>1, <4>1, LifecycleAssumption
           DEF ConsumerStarts, IsRunning, LifecycleInv, LifecycleTypeOK, Progress, Consumers
      <4>3. running'[turn']
        BY <3>1, <4>1 DEF LifecycleInv, LifecycleTypeOK
      <4> QED
        BY <4>1, <4>2, <4>3 DEF Progress, Starting, Stopping
    <3> QED
      BY <1>3, <2>1, <3>2, <3>3
         DEF ConsumerStarts, Prepare, LifecycleInv, LifecycleTypeOK, LoopsHaveProducer,
             StartedMeansRunning, ShutdownStopsAll, Progress, Alive, Up
  <2>2. CASE ~(turn < NumConsumers)
    BY <1>3, <2>2, LifecycleAssumption
       DEF ConsumerStarts, IsRunning, LifecycleInv, LifecycleTypeOK, LoopsHaveProducer,
           StartedMeansRunning, ShutdownStopsAll, Progress, Places, Starting, Stopping, Clients,
           Loops, Consumers, Alive, Up
  <2> QED
    BY <2>1, <2>2
<1> QED
  BY <1>1, <1>2, <1>3

\* Every step of shutdown keeps the invariant.
LEMMA ShutdownKeeps ==
    ASSUME LifecycleInv, Shutdown \/ CancelTask \/ CloseClient \/ CloseProducer \/ StopFails
    PROVE  LifecycleInv'
<1>1. CASE Shutdown
  BY <1>1, LifecycleAssumption
     DEF Shutdown, memory, IsRunning, IsStopped, LifecycleInv, LifecycleTypeOK,
         LoopsHaveProducer, StartedMeansRunning, ShutdownStopsAll, Progress, Places, Starting,
         Stopping, Consumers, Alive, Up
<1>2. CASE CancelTask
  BY <1>2, LifecycleAssumption
     DEF CancelTask, IsRunning, IsStopped, LifecycleInv, LifecycleTypeOK, LoopsHaveProducer,
         StartedMeansRunning, ShutdownStopsAll, Progress, Places, Starting, Stopping, Loops,
         Consumers, Alive, Up
<1>3. CASE CloseClient
  BY <1>3, LifecycleAssumption
     DEF CloseClient, IsRunning, IsStopped, LifecycleInv, LifecycleTypeOK, LoopsHaveProducer,
         StartedMeansRunning, ShutdownStopsAll, Progress, Places, Starting, Stopping, Clients,
         Consumers, Alive, Up
<1>4. CASE CloseProducer
  BY <1>4, LifecycleAssumption
     DEF CloseProducer, IsStopped, LifecycleInv, LifecycleTypeOK, LoopsHaveProducer,
         StartedMeansRunning, ShutdownStopsAll, Progress, Places, Starting, Stopping, Clients,
         Consumers, Alive, Up
<1>5. CASE StopFails
  BY <1>5, LifecycleAssumption
     DEF StopFails, Fault, memory, LifecycleInv, LifecycleTypeOK, LoopsHaveProducer,
         StartedMeansRunning, ShutdownStopsAll, Progress, Places, Starting, Stopping, Alive, Up
<1> QED
  BY <1>1, <1>2, <1>3, <1>4, <1>5

\* A loop that fails, alone or with anything else that only counts a fault.
LEMMA LoopFailsKeeps ==
    ASSUME LifecycleInv, NEW c \in Consumers, LoopFails(c)
    PROVE  LifecycleInv'
BY LifecycleAssumption
   DEF LoopFails, Fault, IsRunning, IsStopped, LifecycleInv, LifecycleTypeOK, LoopsHaveProducer,
       StartedMeansRunning, ShutdownStopsAll, Progress, Places, Starting, Stopping, Loops,
       Alive, Up

\* A step that at most counts a fault keeps it.
LEMMA FaultKeeps ==
    ASSUME LifecycleInv, UNCHANGED <<at, turn, memory, boots>>, Fault \/ UNCHANGED faults
    PROVE  LifecycleInv'
BY LifecycleAssumption
   DEF Fault, memory, IsRunning, IsStopped, LifecycleInv, LifecycleTypeOK, LoopsHaveProducer,
       StartedMeansRunning, ShutdownStopsAll, Progress, Alive, Up

\* Every step of the lifespan keeps it.
LEMMA LifecycleKeeps ==
    ASSUME LifecycleInv, LifecycleNext
    PROVE  LifecycleInv'
<1>1. CASE Boot
  <2>1. boots' \in 0..MaxBoots /\ faults' \in 0..MaxFaults
    BY <1>1, LifecycleAssumption DEF Boot, LifecycleInv, LifecycleTypeOK
  <2> QED
    BY <1>1, <2>1, FreshKeeps DEF Boot
<1>2. CASE Crash
  <2>1. boots' \in 0..MaxBoots /\ faults' \in 0..MaxFaults
    BY <1>2, LifecycleAssumption DEF Crash, Fault, LifecycleInv, LifecycleTypeOK
  <2> QED
    BY <1>2, <2>1, FreshKeeps DEF Crash
<1>3. CASE TopicsFail \/ ProducerFails \/ ConsumerFails
  BY <1>3, SkipKeeps DEF TopicsFail, ProducerFails, ConsumerFails, Starting
<1> QED
  BY <1>1, <1>2, <1>3, StartupKeeps, ShutdownKeeps, LoopFailsKeeps DEF LifecycleNext, Proceed

\* The invariant holds of every process by itself.
THEOREM LifecycleInvariant == LifecycleSpec => []LifecycleInv
<1>1. LifecycleInv /\ [LifecycleNext]_lifecycle => LifecycleInv'
  BY LifecycleKeeps, FaultKeeps DEF lifecycle
<1> QED
  BY LifecycleInitial, <1>1, PTL DEF LifecycleSpec
=============================================================================
