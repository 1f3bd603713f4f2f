------------------------ MODULE SpeechPipelineProofs ------------------------
(* Theorems about SpeechPipeline, for every set of languages and number of *)
(* chunks, retries and faults.                                             *)
EXTENDS SpeechPipeline, TLAPS

Places == {"poll", "handle", "publish", "commit"}

LEMMA PlaceFacts ==
    "poll" \in Places /\ "handle" \in Places /\ "publish" \in Places /\ "commit" \in Places
BY DEF Places

\* The topics of the workers.
LEMMA TopicFacts ==
    /\ \A w \in WorkerNames : Source[w] \in Topics /\ Target[w] \in Topics
    /\ \A w \in WorkerNames : Target[w] # "raw" /\ Source[w] # Target[w]
    /\ \A v, w \in WorkerNames : Target[v] = Target[w] => v = w
    /\ "raw" \in Topics
BY DEF Source, Target, Topics, WorkerNames

LEMMA NameFacts ==
    "stt" \in WorkerNames /\ "translation" \in WorkerNames /\ "tts" \in WorkerNames
BY DEF WorkerNames

LEMMA WorkerFields ==
    ASSUME TypeOK, NEW w \in WorkerNames
    PROVE  /\ worker[w] \in Worker
           /\ worker[w].at \in Places
           /\ worker[w].pos \in Nat
           /\ worker[w].done \in Nat
           /\ worker[w].tries \in 0..MaxRetries
           /\ worker[w].todo \subseteq Languages
           /\ Input(w) \in Seq(Message)
           /\ Output(w) \in Seq(Message)
BY TopicFacts DEF TypeOK, Worker, Input, Output, Places

LEMMA FaultFacts ==
    ASSUME TypeOK, Fault
    PROVE  faults' \in 0..MaxEvents
<1>1. topic["raw"] \in Seq(Message) /\ faults \in Nat
  BY TopicFacts, SpeechAssumption DEF TypeOK
<1>2. Len(topic["raw"]) \in Nat
  BY <1>1
<1> QED
  BY <1>1, <1>2, SpeechAssumption DEF Fault, MayHappen

\* Worker w becomes this; the others stay as they are.
Becomes(w, at, pos, done, tries, todo) ==
    /\ worker' \in [WorkerNames -> Worker]
    /\ \A v \in WorkerNames \ {w} : worker'[v] = worker[v]
    /\ worker'[w].at = at
    /\ worker'[w].pos = pos
    /\ worker'[w].done = done
    /\ worker'[w].tries = tries
    /\ worker'[w].todo = todo

-----------------------------------------------------------------------------
(* What each action does to its worker.                                    *)

LEMMA TakeEffect ==
    ASSUME TypeOK, NEW w \in WorkerNames, Take(w)
    PROVE  Becomes(w, "handle", worker[w].pos + 1, worker[w].done, 0, worker[w].todo)
<1> DEFINE next == worker[w].pos + 1
           first == [worker EXCEPT ![w].at = "handle"]
           second == [first EXCEPT ![w].pos = next]
           third == [second EXCEPT ![w].tries = 0]
<1>1. next \in Nat /\ 0 \in 0..MaxRetries
  BY WorkerFields, SpeechAssumption
<1>2. worker \in [WorkerNames -> Worker]
  BY DEF TypeOK
<1>3. worker' = third
  BY DEF Take
<1> HIDE DEF next
<1>4. first \in [WorkerNames -> Worker]
  BY <1>2 DEF Worker
<1>5. second \in [WorkerNames -> Worker]
  BY <1>1, <1>4 DEF Worker
<1>6. third \in [WorkerNames -> Worker]
  <2> HIDE DEF second
  <2> QED BY <1>1, <1>5 DEF Worker
<1>7. first[w].pos = worker[w].pos /\ first[w].done = worker[w].done /\ first[w].todo = worker[w].todo
      /\ first[w].at = "handle" /\ \A v \in WorkerNames \ {w} : first[v] = worker[v]
  BY <1>2 DEF Worker
<1>8. second[w].pos = next /\ second[w].done = worker[w].done /\ second[w].todo = worker[w].todo
      /\ second[w].at = "handle" /\ \A v \in WorkerNames \ {w} : second[v] = worker[v]
  BY <1>4, <1>7 DEF Worker
<1>9. third[w].pos = next /\ third[w].done = worker[w].done /\ third[w].todo = worker[w].todo
      /\ third[w].at = "handle" /\ third[w].tries = 0
      /\ \A v \in WorkerNames \ {w} : third[v] = worker[v]
  BY <1>5, <1>8 DEF Worker
<1> QED
  BY <1>3, <1>6, <1>9 DEF Becomes, next

LEMMA TakeStaleEffect ==
    ASSUME TypeOK, NEW w \in WorkerNames, TakeStale(w)
    PROVE  Becomes(w, "commit", worker[w].pos + 1, worker[w].done, worker[w].tries,
                   worker[w].todo)
<1>1. worker' = [worker EXCEPT ![w].at = "commit", ![w].pos = @ + 1]
  BY DEF TakeStale
<1>2. worker \in [WorkerNames -> Worker] /\ worker[w].pos + 1 \in Nat
  BY WorkerFields DEF TypeOK
<1> QED
  BY <1>1, <1>2 DEF Becomes, Worker

LEMMA ResolvedEffect ==
    ASSUME TypeOK, NEW w \in WorkerNames, NEW languages \in SUBSET Languages,
           Resolved(w, languages)
    PROVE  Becomes(w, IF languages = {} THEN "commit" ELSE "publish", worker[w].pos,
                   worker[w].done, worker[w].tries, languages)
<1> DEFINE place == IF languages = {} THEN "commit" ELSE "publish"
<1>1. worker' = [worker EXCEPT ![w].at = place, ![w].todo = languages]
  BY DEF Resolved
<1>2. worker \in [WorkerNames -> Worker] /\ place \in {"poll", "handle", "publish", "commit"}
  BY DEF TypeOK
<1> HIDE DEF place
<1>3. Becomes(w, place, worker[w].pos, worker[w].done, worker[w].tries, languages)
  BY <1>1, <1>2 DEF Becomes, Worker
<1> QED
  BY <1>3 DEF place

LEMMA SettledEffect ==
    ASSUME TypeOK, NEW w \in WorkerNames, NEW l, Settled(w, l)
    PROVE  LET rest == worker[w].todo \ {l}
           IN Becomes(w, IF rest = {} THEN "commit" ELSE "publish", worker[w].pos,
                      worker[w].done, worker[w].tries, rest)
<1> DEFINE rest == worker[w].todo \ {l}
<1>1. rest \in SUBSET Languages
  BY WorkerFields
<1>2. Resolved(w, rest)
  BY DEF Settled, Resolved
<1> QED
  BY <1>1, <1>2, ResolvedEffect

LEMMA RetryEffect ==
    ASSUME TypeOK, NEW w \in WorkerNames, Retry(w)
    PROVE  \/ /\ Becomes(w, "handle", worker[w].pos, worker[w].done,
                         worker[w].tries + 1, {})
              /\ UNCHANGED excused
           \/ /\ Becomes(w, "commit", worker[w].pos, worker[w].done, worker[w].tries, {})
              /\ Excuse(w, Due(w, InHand(w)))
<1>1. worker \in [WorkerNames -> Worker]
  BY DEF TypeOK
<1>2. CASE worker[w].tries < MaxRetries
  <2> DEFINE more == worker[w].tries + 1
             first == [worker EXCEPT ![w].at = "handle", ![w].todo = {}]
             second == [first EXCEPT ![w].tries = more]
  <2>1. more \in 0..MaxRetries
    BY <1>2, WorkerFields, SpeechAssumption
  <2>2. worker' = second /\ UNCHANGED excused
    BY <1>2 DEF Retry
  <2> HIDE DEF more
  <2>3. first \in [WorkerNames -> Worker]
    BY <1>1 DEF Worker
  <2>4. first[w].pos = worker[w].pos /\ first[w].done = worker[w].done /\ first[w].todo = {}
        /\ first[w].at = "handle" /\ \A v \in WorkerNames \ {w} : first[v] = worker[v]
    BY <1>1 DEF Worker
  <2>5. Becomes(w, "handle", worker[w].pos, worker[w].done, more, {})
    <3> HIDE DEF first
    <3> QED BY <2>1, <2>2, <2>3, <2>4 DEF Becomes, Worker
  <2> QED
    BY <2>2, <2>5 DEF more
<1>3. CASE ~(worker[w].tries < MaxRetries)
  <2>1. worker' = [worker EXCEPT ![w].at = "commit", ![w].todo = {}]
        /\ Excuse(w, Due(w, InHand(w)))
    BY <1>3 DEF Retry
  <2> QED
    BY <1>1, <2>1 DEF Becomes, Worker
<1> QED
  BY <1>2, <1>3

LEMMA CommitEffect ==
    ASSUME TypeOK, NEW w \in WorkerNames, Commit(w)
    PROVE  Becomes(w, "poll", worker[w].pos, worker[w].pos, worker[w].tries, worker[w].todo)
<1>1. worker' = [worker EXCEPT ![w].at = "poll", ![w].done = worker[w].pos]
  BY DEF Commit
<1>2. worker \in [WorkerNames -> Worker] /\ worker[w].pos \in Nat
  BY WorkerFields DEF TypeOK
<1> QED
  BY <1>1, <1>2 DEF Becomes, Worker

LEMMA CommitFailsEffect ==
    ASSUME TypeOK, NEW w \in WorkerNames, CommitFails(w)
    PROVE  Becomes(w, "poll", worker[w].pos, worker[w].done, worker[w].tries, worker[w].todo)
<1>1. worker' = [worker EXCEPT ![w].at = "poll"]
  BY DEF CommitFails
<1>2. worker \in [WorkerNames -> Worker]
  BY DEF TypeOK
<1> QED
  BY <1>1, <1>2 DEF Becomes, Worker

LEMMA RestartEffect ==
    ASSUME TypeOK, NEW w \in WorkerNames, Restart(w)
    PROVE  Becomes(w, "poll", worker[w].done, worker[w].done, worker[w].tries, {})
<1> DEFINE back == worker[w].done
           first == [worker EXCEPT ![w].at = "poll", ![w].pos = back]
           second == [first EXCEPT ![w].todo = {}]
<1>1. worker' = second
  BY DEF Restart
<1>2. worker \in [WorkerNames -> Worker] /\ back \in Nat
  BY WorkerFields DEF TypeOK
<1> HIDE DEF back
<1>3. first \in [WorkerNames -> Worker]
  BY <1>2 DEF Worker
<1>4. first[w].pos = back /\ first[w].done = worker[w].done /\ first[w].tries = worker[w].tries
      /\ first[w].at = "poll" /\ \A v \in WorkerNames \ {w} : first[v] = worker[v]
  BY <1>2 DEF Worker
<1> HIDE DEF first
<1>5. Becomes(w, "poll", back, worker[w].done, worker[w].tries, {})
  BY <1>1, <1>2, <1>3, <1>4 DEF Becomes, Worker
<1> QED
  BY <1>5 DEF back

-----------------------------------------------------------------------------
(* What a step of worker w leaves to the others.                           *)

LEMMA InHandFacts ==
    ASSUME TypeOK, NEW w \in WorkerNames, Bounds(w), ~At(w, "poll")
    PROVE  /\ worker[w].pos \in 1..Len(Input(w))
           /\ InHand(w) \in Message
<1>1. worker[w].pos \in 1..Len(Input(w))
  BY WorkerFields DEF Bounds, At
<1> QED
  BY <1>1, WorkerFields DEF InHand

\* The step writes nothing, or one message of those worker w has to publish.
Grows(w) ==
    \/ topic' = topic
    \/ At(w, "publish") /\ \E l \in worker[w].todo : topic' = Written(w, l)

\* Topics only grow.
Extended ==
    /\ topic' \in [Topics -> Seq(Message)]
    /\ \A t \in Topics :
        /\ Len(topic[t]) \in Nat /\ Len(topic'[t]) \in Nat
        /\ Len(topic[t]) <= Len(topic'[t])
        /\ \A i \in 1..Len(topic[t]) : topic'[t][i] = topic[t][i]

LEMMA WrittenFacts ==
    ASSUME TypeOK, NEW w \in WorkerNames, Bounds(w), At(w, "publish"),
           NEW l \in worker[w].todo, topic' = Written(w, l)
    PROVE  /\ Extended
           /\ \A t \in Topics \ {Target[w]} : topic'[t] = topic[t]
           /\ Len(Output(w)') = Len(Output(w)) + 1
           /\ Output(w)'[Len(Output(w)) + 1] = [chunk |-> InHand(w).chunk, lang |-> l]
<1> DEFINE new == [chunk |-> InHand(w).chunk, lang |-> l]
           t == Target[w]
<1>1. new \in Message
  BY InHandFacts, WorkerFields DEF At, Message
<1>2. topic \in [Topics -> Seq(Message)] /\ t \in Topics
  BY TopicFacts DEF TypeOK
<1>3. topic' = [topic EXCEPT ![t] = Append(@, new)]
  BY DEF Written
<1> HIDE DEF new, t
<1>4. topic' \in [Topics -> Seq(Message)]
  BY <1>1, <1>2, <1>3
<1>5. topic'[t] = Append(topic[t], new) /\ \A u \in Topics \ {t} : topic'[u] = topic[u]
  BY <1>2, <1>3
<1>6. /\ Len(Append(topic[t], new)) = Len(topic[t]) + 1
      /\ Append(topic[t], new)[Len(topic[t]) + 1] = new
      /\ \A i \in 1..Len(topic[t]) : Append(topic[t], new)[i] = topic[t][i]
  BY <1>1, <1>2
<1>7. Extended
  <2> SUFFICES ASSUME NEW u \in Topics
               PROVE  /\ Len(topic[u]) \in Nat /\ Len(topic'[u]) \in Nat
                      /\ Len(topic[u]) <= Len(topic'[u])
                      /\ \A i \in 1..Len(topic[u]) : topic'[u][i] = topic[u][i]
    BY <1>4 DEF Extended
  <2>1. CASE u = t
    BY <1>2, <1>5, <1>6, <2>1
  <2>2. CASE u # t
    BY <1>2, <1>5, <2>2
  <2> QED
    BY <2>1, <2>2
<1> QED
  BY <1>5, <1>6, <1>7 DEF Output, t, new

LEMMA GrowsExtends ==
    ASSUME TypeOK, NEW w \in WorkerNames, Bounds(w), Grows(w)
    PROVE  /\ Extended
           /\ \A t \in Topics \ {Target[w]} : topic'[t] = topic[t]
<1>1. CASE topic' = topic
  BY <1>1 DEF TypeOK, Extended
<1>2. CASE At(w, "publish") /\ \E l \in worker[w].todo : topic' = Written(w, l)
  BY <1>2, WrittenFacts
<1> QED
  BY <1>1, <1>2 DEF Grows

\* What has been published and answered stays so.
LEMMA AnsweredKept ==
    ASSUME TypeOK, Extended, excused \subseteq excused', NEW v \in WorkerNames, NEW m
    PROVE  /\ \A l : Published(v, m, l) => Published(v, m, l)'
           /\ Answered(v, m) => Answered(v, m)'
<1>1. \A l : Published(v, m, l) => Published(v, m, l)'
  <2> SUFFICES ASSUME NEW l, Published(v, m, l)
               PROVE  Published(v, m, l)'
    OBVIOUS
  <2>1. PICK j \in 1..Len(Output(v)) :
            Output(v)[j].chunk = m.chunk /\ (v = "stt" \/ Output(v)[j].lang = l)
    BY DEF Published
  <2>2. Output(v)'[j] = Output(v)[j] /\ j \in 1..Len(Output(v)')
    BY <2>1, TopicFacts DEF Extended, Output
  <2> QED
    BY <2>1, <2>2 DEF Published
<1> QED
  BY <1>1 DEF Answered, Due

LEMMA OthersKept ==
    ASSUME TypeOK, Extended, excused \subseteq excused',
           NEW v \in WorkerNames, worker'[v] = worker[v],
           Bounds(v), Task(v), Progress(v)
    PROVE  Bounds(v)' /\ Task(v)' /\ Progress(v)'
<1>1. /\ Len(Input(v)) \in Nat /\ Len(Input(v)') \in Nat
      /\ Len(Input(v)) <= Len(Input(v)')
      /\ \A i \in 1..Len(Input(v)) : Input(v)'[i] = Input(v)[i]
  BY TopicFacts DEF Extended, Input
<1>2. worker[v].pos \in Nat /\ worker[v].done \in Nat
  BY WorkerFields
<1>3. Bounds(v)'
  BY <1>1, <1>2 DEF Bounds
<1>4. ~At(v, "poll") => InHand(v)' = InHand(v)
  BY <1>1, InHandFacts DEF InHand
<1>5. Task(v)'
  BY <1>4 DEF Task, At
<1>6. ASSUME NEW i \in 1..worker'[v].pos
      PROVE  (i = worker'[v].pos /\ Busy(v)') \/ Answered(v, Input(v)[i])'
  <2>1. i \in 1..Len(Input(v)) /\ i \in 1..worker[v].pos
    BY <1>1, <1>2 DEF Bounds
  <2>2. (i = worker[v].pos /\ Busy(v)) \/ Answered(v, Input(v)[i])
    BY <2>1 DEF Progress
  <2>3. ASSUME NEW m, m = Input(v)[i], Answered(v, m)
        PROVE  Answered(v, Input(v)[i])'
    <3>1. Input(v)'[i] = m
      BY <1>1, <2>1, <2>3
    <3>2. Answered(v, m)'
      BY <2>3, AnsweredKept
    <3> QED
      BY <3>1, <3>2 DEF Answered, Published
  <2> QED
    BY <2>2, <2>3 DEF Busy
<1>7. ASSUME At(v, "publish")', v # "stt",
             NEW l \in (Due(v, InHand(v)) \ worker[v].todo)'
      PROVE  (<<InHand(v).chunk, l>> \in excused \/ Published(v, InHand(v), l))'
  <2> DEFINE m == InHand(v)
  <2>1. At(v, "publish") /\ ~At(v, "poll")
    BY <1>7 DEF At
  <2>2. m' = m
    BY <2>1, <1>4
  <2>3. l \in Due(v, m) \ worker[v].todo
    BY <1>7, <2>2 DEF Due
  <2>4. <<m.chunk, l>> \in excused \/ Published(v, m, l)
    BY <1>7, <2>1, <2>3 DEF Progress
  <2>5. ASSUME NEW n, n = m, Published(v, n, l)
        PROVE  Published(v, m, l)'
    <3>1. Published(v, n, l)'
      BY <2>5, AnsweredKept
    <3> QED
      BY <2>2, <2>5, <3>1 DEF Published
  <2> QED
    BY <2>2, <2>4, <2>5
<1> QED
  BY <1>3, <1>5, <1>6, <1>7 DEF Progress

LEMMA ChunksKept ==
    ASSUME TypeOK, Chunks, NEW w \in WorkerNames, Bounds(w), Grows(w)
    PROVE  Chunks'
<1>1. Extended /\ topic'["raw"] = topic["raw"]
  BY GrowsExtends, TopicFacts
<1>2. CASE topic' = topic
  BY <1>2 DEF Chunks
<1>3. ASSUME At(w, "publish"), NEW l \in worker[w].todo, topic' = Written(w, l)
      PROVE  Chunks'
  <2>1. /\ \A t \in Topics \ {Target[w]} : topic'[t] = topic[t]
        /\ Len(Output(w)') = Len(Output(w)) + 1
        /\ Output(w)'[Len(Output(w)) + 1] = [chunk |-> InHand(w).chunk, lang |-> l]
    BY <1>3, WrittenFacts
  <2>2. InHand(w).chunk <= Len(topic["raw"])
    BY <1>3, InHandFacts, TopicFacts DEF Chunks, InHand, At, Input
  <2>3. ASSUME NEW t \in Topics, NEW i \in 1..Len(topic'[t])
        PROVE  topic'[t][i].chunk <= Len(topic'["raw"])
    <3>1. CASE t # Target[w]
      BY <1>1, <2>1, <2>3, <3>1 DEF Chunks
    <3>2. CASE t = Target[w] /\ i \in 1..Len(topic[t])
      BY <1>1, <3>2 DEF Chunks, Extended
    <3>3. CASE t = Target[w] /\ i \notin 1..Len(topic[t])
      <4>1. i = Len(topic[t]) + 1
        BY <1>1, <2>1, <2>3, <3>3 DEF Output, Extended
      <4> QED
        BY <1>1, <2>1, <2>2, <3>3, <4>1 DEF Output
    <3> QED
      BY <3>1, <3>2, <3>3
  <2> QED
    BY <1>1, <2>3 DEF Chunks
<1> QED
  BY <1>2, <1>3 DEF Grows

LEMMA DueFacts ==
    ASSUME NEW w \in WorkerNames, NEW m \in Message
    PROVE  Due(w, m) \subseteq Languages
BY DEF Due, Message

LEMMA ExcuseFacts ==
    ASSUME TypeOK, NEW w \in WorkerNames, Bounds(w), ~At(w, "poll"),
           NEW languages \in SUBSET Languages, Excuse(w, languages)
    PROVE  /\ excused \subseteq excused'
           /\ excused' \subseteq (Nat \X Languages)
           /\ \A l \in languages : <<InHand(w).chunk, l>> \in excused'
<1>1. InHand(w).chunk \in Nat
  BY InHandFacts DEF Message
<1> QED
  BY <1>1 DEF Excuse, TypeOK

\* Everything but the orders, apart from worker w itself.
Core ==
    /\ TypeOK
    /\ Chunks
    /\ \A w \in WorkerNames : Bounds(w) /\ Task(w) /\ Progress(w)

\* What a step must leave behind for worker w.
Own(w) == Bounds(w) /\ Task(w) /\ Progress(w)

LEMMA CoreStep ==
    ASSUME Core, NEW w \in WorkerNames, Grows(w),
           worker' \in [WorkerNames -> Worker],
           \A v \in WorkerNames \ {w} : worker'[v] = worker[v],
           excused \subseteq excused', excused' \subseteq (Nat \X Languages),
           faults' \in 0..MaxEvents, Own(w)'
    PROVE  Core'
<1>1. Extended
  BY GrowsExtends DEF Core
<1>2. TypeOK'
  BY <1>1 DEF TypeOK, Extended
<1>3. Chunks'
  BY ChunksKept DEF Core
<1>4. ASSUME NEW v \in WorkerNames
      PROVE  Bounds(v)' /\ Task(v)' /\ Progress(v)'
  <2>1. CASE v = w
    BY <2>1 DEF Own
  <2>2. CASE v # w
    BY <1>1, <2>2, OthersKept DEF Core
  <2> QED
    BY <2>1, <2>2
<1> QED
  BY <1>2, <1>3, <1>4 DEF Core

-----------------------------------------------------------------------------
(* What a step leaves to worker w itself.                                  *)

\* A message of the worker's input stays answered.
LEMMA ItemKept ==
    ASSUME TypeOK, NEW w \in WorkerNames, Bounds(w), Extended, excused \subseteq excused',
           NEW i \in 1..worker[w].pos, Answered(w, Input(w)[i])
    PROVE  Answered(w, Input(w)[i])'
<1>1. i \in 1..Len(Input(w)) /\ Input(w)'[i] = Input(w)[i]
  BY WorkerFields, TopicFacts DEF Extended, Bounds, Input
<1>2. ASSUME NEW m, m = Input(w)[i], Answered(w, m)
      PROVE  Answered(w, Input(w)[i])'
  <2>1. Answered(w, m)'
    BY <1>2, AnsweredKept
  <2> QED
    BY <1>1, <1>2, <2>1 DEF Answered, Published
<1> QED
  BY <1>2

LEMMA InHandKept ==
    ASSUME TypeOK, NEW w \in WorkerNames, Bounds(w), Extended, ~At(w, "poll"),
           worker'[w].pos = worker[w].pos
    PROVE  InHand(w)' = InHand(w)
BY InHandFacts, TopicFacts DEF Extended, InHand, Input

\* The worker goes on with the message it has in hand.
LEMMA OwnGoesOn ==
    ASSUME Core, NEW w \in WorkerNames, Extended, excused \subseteq excused', ~At(w, "poll"),
           worker'[w].pos = worker[w].pos, worker'[w].done = worker[w].done,
           Busy(w)', Task(w)',
           (At(w, "publish") /\ w # "stt" =>
               \A l \in Due(w, InHand(w)) \ worker[w].todo :
                   <<InHand(w).chunk, l>> \in excused \/ Published(w, InHand(w), l))'
    PROVE  Own(w)'
<1>0. TypeOK /\ Bounds(w) /\ Progress(w)
  BY DEF Core
<1>1. /\ Len(Input(w)) \in Nat /\ Len(Input(w)') \in Nat
      /\ Len(Input(w)) <= Len(Input(w)')
  BY TopicFacts DEF Extended, Input
<1>2. Bounds(w)'
  BY <1>0, <1>1, WorkerFields DEF Bounds, At
<1>3. ASSUME NEW i \in 1..worker'[w].pos
      PROVE  (i = worker'[w].pos /\ Busy(w)') \/ Answered(w, Input(w)[i])'
  <2>1. CASE i = worker[w].pos
    BY <2>1
  <2>2. CASE i # worker[w].pos
    <3>1. i \in 1..worker[w].pos /\ Answered(w, Input(w)[i])
      BY <1>0, <1>3, <2>2 DEF Progress
    <3> QED
      BY <1>0, <3>1, ItemKept
  <2> QED
    BY <2>1, <2>2
<1>4. Progress(w)'
  BY <1>3 DEF Progress
<1> QED
  BY <1>2, <1>4 DEF Own

\* The worker is done with the message it has in hand.
LEMMA OwnEnds ==
    ASSUME Core, NEW w \in WorkerNames, Extended, excused \subseteq excused', ~At(w, "poll"),
           worker'[w].pos = worker[w].pos,
           \/ worker'[w].at = "commit" /\ worker'[w].done = worker[w].done
           \/ worker'[w].at = "poll" /\ worker'[w].done \in {worker[w].done, worker[w].pos},
           Answered(w, InHand(w))'
    PROVE  Own(w)'
<1>0. TypeOK /\ Bounds(w) /\ Progress(w)
  BY DEF Core
<1>1. /\ Len(Input(w)) \in Nat /\ Len(Input(w)') \in Nat
      /\ Len(Input(w)) <= Len(Input(w)')
  BY TopicFacts DEF Extended, Input
<1>2. Bounds(w)'
  BY <1>0, <1>1, WorkerFields DEF Bounds, At
<1>3. ASSUME NEW i \in 1..worker'[w].pos
      PROVE  Answered(w, Input(w)[i])'
  <2>1. CASE i = worker[w].pos
    BY <2>1 DEF InHand
  <2>2. CASE i # worker[w].pos
    <3>1. i \in 1..worker[w].pos /\ Answered(w, Input(w)[i])
      BY <1>0, <1>3, <2>2 DEF Progress
    <3> QED
      BY <1>0, <3>1, ItemKept
  <2> QED
    BY <2>1, <2>2
<1>4. Progress(w)'
  BY <1>3 DEF Progress, At
<1>5. Task(w)'
  BY DEF Task, At
<1> QED
  BY <1>2, <1>4, <1>5 DEF Own

-----------------------------------------------------------------------------
(* Every action keeps the core of the invariant.                           *)

LEMMA UnchangedExtends ==
    ASSUME TypeOK, topic' = topic
    PROVE  Extended
BY DEF TypeOK, Extended

LEMMA CoreTake ==
    ASSUME Core, NEW w \in WorkerNames, Take(w)
    PROVE  Core'
<1>0. TypeOK /\ Bounds(w) /\ Progress(w)
  BY DEF Core
<1>1. Becomes(w, "handle", worker[w].pos + 1, worker[w].done, 0, worker[w].todo)
  BY <1>0, TakeEffect
<1>2. /\ At(w, "poll") /\ worker[w].pos < Len(Input(w)) /\ topic' = topic
      /\ excused' = excused /\ faults' = faults
  BY DEF Take
<1>3. Input(w)' = Input(w) /\ Len(Input(w)) \in Nat /\ Extended
  BY <1>0, <1>2, WorkerFields, UnchangedExtends DEF Input
<1>4. Bounds(w)'
  BY <1>0, <1>1, <1>2, <1>3, WorkerFields DEF Bounds, Becomes
<1>5. Task(w)'
  BY <1>1 DEF Task, At, Becomes
<1>6. ASSUME NEW i \in 1..worker'[w].pos
      PROVE  (i = worker'[w].pos /\ Busy(w)') \/ Answered(w, Input(w)[i])'
  <2>1. CASE i = worker'[w].pos
    BY <1>1, <2>1 DEF Busy, Becomes
  <2>2. CASE i # worker'[w].pos
    <3>1. i \in 1..worker[w].pos /\ Answered(w, Input(w)[i])
      BY <1>0, <1>1, <1>2, <2>2, WorkerFields DEF Progress, Becomes, Busy, At
    <3> QED
      BY <1>0, <1>2, <1>3, <3>1, ItemKept
  <2> QED
    BY <2>1, <2>2
<1>7. Progress(w)'
  BY <1>1, <1>6 DEF Progress, At, Becomes
<1> QED
  BY <1>0, <1>1, <1>2, <1>4, <1>5, <1>7, CoreStep DEF Own, Becomes, Grows, TypeOK

LEMMA CoreTakeStale ==
    ASSUME Core, NEW w \in WorkerNames, TakeStale(w)
    PROVE  Core'
<1> DEFINE m == Input(w)[worker[w].pos + 1]
<1>0. TypeOK /\ Bounds(w) /\ Progress(w)
  BY DEF Core
<1>1. Becomes(w, "commit", worker[w].pos + 1, worker[w].done, worker[w].tries,
              worker[w].todo)
  BY <1>0, TakeStaleEffect
<1>2. /\ At(w, "poll") /\ worker[w].pos < Len(Input(w)) /\ topic' = topic
      /\ excused' = excused \cup {<<m.chunk, l>> : l \in Due(w, m)}
      /\ Fault
  BY DEF TakeStale
<1>3. Input(w)' = Input(w) /\ Len(Input(w)) \in Nat /\ Extended
  BY <1>0, <1>2, WorkerFields, UnchangedExtends DEF Input
<1>4. m \in Message
  BY <1>0, <1>2, WorkerFields
<1>5. excused \subseteq excused' /\ excused' \subseteq (Nat \X Languages)
  <2>1. m.chunk \in Nat /\ Due(w, m) \subseteq Languages
    BY <1>4, DueFacts DEF Message
  <2> HIDE DEF m
  <2> QED
    BY <1>0, <1>2, <2>1 DEF TypeOK
<1>6. Bounds(w)'
  BY <1>0, <1>1, <1>2, <1>3, WorkerFields DEF Bounds, Becomes
<1>7. Task(w)'
  BY <1>1 DEF Task, At, Becomes
<1>8. ASSUME NEW i \in 1..worker'[w].pos
      PROVE  Answered(w, Input(w)[i])'
  <2>1. CASE i = worker'[w].pos
    <3>1. Input(w)'[i] = m
      BY <1>1, <1>3, <2>1 DEF Becomes
    <3> HIDE DEF m
    <3> QED
      BY <1>2, <3>1 DEF Answered, Due
  <2>2. CASE i # worker'[w].pos
    <3>1. i \in 1..worker[w].pos /\ Answered(w, Input(w)[i])
      BY <1>0, <1>1, <1>2, <2>2, WorkerFields DEF Progress, Becomes, Busy, At
    <3> QED
      BY <1>0, <1>3, <1>5, <3>1, ItemKept
  <2> QED
    BY <2>1, <2>2
<1>9. Progress(w)'
  BY <1>1, <1>8 DEF Progress, At, Becomes
<1>10. faults' \in 0..MaxEvents
  BY <1>0, <1>2, FaultFacts
<1> QED
  BY <1>0, <1>1, <1>2, <1>5, <1>6, <1>7, <1>9, <1>10, CoreStep DEF Own, Becomes, Grows

\* handle() finds that it has nothing to publish and excuses what is due, or
\* finds something to publish and excuses the rest.
LEMMA CoreResolved ==
    ASSUME Core, NEW w \in WorkerNames, At(w, "handle"),
           NEW languages \in SUBSET Languages, Resolved(w, languages),
           excused \subseteq excused', excused' \subseteq (Nat \X Languages),
           topic' = topic, faults' = faults,
           languages = {} \/ w # "stt" =>
               \A l \in Due(w, InHand(w)) \ languages : <<InHand(w).chunk, l>> \in excused',
           w = "stt" /\ languages # {} => \E l \in Languages : languages = {l},
           w = "translation" => InHand(w).lang \notin languages,
           w = "tts" /\ languages # {} => languages = {InHand(w).lang}
    PROVE  Core'
<1>0. TypeOK /\ Bounds(w) /\ ~At(w, "poll")
  BY DEF Core, At
<1>1. Becomes(w, IF languages = {} THEN "commit" ELSE "publish", worker[w].pos,
              worker[w].done, worker[w].tries, languages)
  BY <1>0, ResolvedEffect
<1>2. Extended
  BY <1>0, UnchangedExtends
<1>3. InHand(w)' = InHand(w)
  BY <1>0, <1>1, <1>2, InHandKept DEF Becomes
<1>4. Own(w)'
  <2>1. CASE languages = {}
    <3>1. Answered(w, InHand(w))'
      BY <1>3, <2>1 DEF Answered, Due
    <3> QED
      BY <1>0, <1>1, <1>2, <2>1, <3>1, OwnEnds DEF Becomes
  <2>2. CASE languages # {}
    <3>1. Busy(w)'
      BY <1>1, <2>2 DEF Becomes, Busy
    <3>2. Task(w)'
      BY <1>1, <1>3, <2>2 DEF Task, Becomes, At
    <3>3. (At(w, "publish") /\ w # "stt" =>
               \A l \in Due(w, InHand(w)) \ worker[w].todo :
                   <<InHand(w).chunk, l>> \in excused \/ Published(w, InHand(w), l))'
      BY <1>1, <1>3, <2>2 DEF Becomes, Due
    <3> QED
      BY <1>0, <1>1, <1>2, <3>1, <3>2, <3>3, OwnGoesOn DEF Becomes
  <2> QED
    BY <2>1, <2>2
<1> QED
  BY <1>0, <1>1, <1>4, CoreStep DEF Becomes, Grows, TypeOK

LEMMA CoreTranscribe ==
    ASSUME Core, Transcribe
    PROVE  Core'
<1>0. TypeOK /\ Bounds("stt") /\ At("stt", "handle") /\ ~At("stt", "poll")
      /\ topic' = topic /\ faults' = faults
  BY NameFacts DEF Core, Transcribe, At
<1>1. ASSUME NEW l \in Tongues, Resolved("stt", {l}), UNCHANGED excused
      PROVE  Core'
  <2>1. {l} \in SUBSET Languages /\ {l} # {} /\ l \in Languages
    BY SpeechAssumption
  <2> QED
    BY <1>0, <1>1, <2>1, CoreResolved, NameFacts DEF TypeOK
<1>2. ASSUME Resolved("stt", {}), Excuse("stt", Languages)
      PROVE  Core'
  <2>1. /\ excused \subseteq excused' /\ excused' \subseteq (Nat \X Languages)
        /\ \A l \in Languages : <<InHand("stt").chunk, l>> \in excused'
    BY <1>0, <1>2, ExcuseFacts, NameFacts
  <2>2. \A l \in Due("stt", InHand("stt")) \ {} : <<InHand("stt").chunk, l>> \in excused'
    BY <2>1 DEF Due
  <2> QED
    BY <1>0, <1>2, <2>1, <2>2, CoreResolved, NameFacts
<1> QED
  BY <1>1, <1>2 DEF Transcribe

LEMMA CoreResolveTargets ==
    ASSUME Core, NEW present \in SUBSET Languages, ResolveTargets(present)
    PROVE  Core'
<1> DEFINE w == "translation"
           targets == present \ {InHand(w).lang}
<1>0. TypeOK /\ Bounds(w) /\ At(w, "handle") /\ ~At(w, "poll")
      /\ topic' = topic /\ faults' = faults
  BY NameFacts DEF Core, ResolveTargets, At
<1>1. Resolved(w, targets) /\ Excuse(w, Languages \ targets)
  BY DEF ResolveTargets
<1>2. /\ excused \subseteq excused' /\ excused' \subseteq (Nat \X Languages)
      /\ \A l \in Languages \ targets : <<InHand(w).chunk, l>> \in excused'
  BY <1>0, <1>1, ExcuseFacts, NameFacts
<1>3. \A l \in Due(w, InHand(w)) \ targets : <<InHand(w).chunk, l>> \in excused'
  BY <1>2 DEF Due
<1>4. targets \in SUBSET Languages /\ InHand(w).lang \notin targets
  OBVIOUS
<1> HIDE DEF targets
<1> QED
  BY <1>0, <1>1, <1>2, <1>3, <1>4, CoreResolved, NameFacts

LEMMA CoreSynthesize ==
    ASSUME Core, Synthesize
    PROVE  Core'
<1> DEFINE l == InHand("tts").lang
<1>0. TypeOK /\ Bounds("tts") /\ At("tts", "handle") /\ ~At("tts", "poll")
      /\ topic' = topic /\ faults' = faults
  BY NameFacts DEF Core, Synthesize, At
<1>1. l \in Languages
  BY <1>0, InHandFacts, NameFacts DEF Message
<1>2. CASE Resolved("tts", {l}) /\ UNCHANGED excused
  <2>1. \A k \in Due("tts", InHand("tts")) \ {l} : <<InHand("tts").chunk, k>> \in excused'
    BY DEF Due
  <2>2. {l} \in SUBSET Languages /\ {l} # {}
    BY <1>1
  <2> QED
    BY <1>0, <1>2, <2>1, <2>2, CoreResolved, NameFacts DEF TypeOK
<1>3. CASE Resolved("tts", {}) /\ Excuse("tts", {l})
  <2>1. /\ excused \subseteq excused' /\ excused' \subseteq (Nat \X Languages)
        /\ \A k \in {l} : <<InHand("tts").chunk, k>> \in excused'
    BY <1>0, <1>1, <1>3, ExcuseFacts, NameFacts
  <2>2. \A k \in Due("tts", InHand("tts")) \ {} : <<InHand("tts").chunk, k>> \in excused'
    BY <2>1 DEF Due
  <2> QED
    BY <1>0, <1>3, <2>1, <2>2, CoreResolved, NameFacts
<1> QED
  BY <1>2, <1>3 DEF Synthesize

\* One language is done with: it has been published or excused.
LEMMA CoreSettled ==
    ASSUME Core, NEW w \in WorkerNames, At(w, "publish"), NEW l \in worker[w].todo,
           Settled(w, l), Grows(w), faults' = faults,
           excused \subseteq excused', excused' \subseteq (Nat \X Languages),
           (<<InHand(w).chunk, l>> \in excused \/ Published(w, InHand(w), l))',
           w = "stt" => Published(w, InHand(w), l)'
    PROVE  Core'
<1> DEFINE rest == worker[w].todo \ {l}
           m == InHand(w)
<1>0. TypeOK /\ Bounds(w) /\ Task(w) /\ Progress(w) /\ ~At(w, "poll")
  BY DEF Core, At
<1>1. Becomes(w, IF rest = {} THEN "commit" ELSE "publish", worker[w].pos,
              worker[w].done, worker[w].tries, rest)
  BY <1>0, SettledEffect
<1>2. Extended
  BY <1>0, GrowsExtends
<1>3. m' = m
  BY <1>0, <1>1, <1>2, InHandKept DEF Becomes
<1>4. ASSUME w # "stt", NEW k \in Due(w, m) \ rest
      PROVE  (<<m.chunk, k>> \in excused \/ Published(w, m, k))'
  <2>1. CASE k = l
    BY <2>1
  <2>2. CASE k # l
    <3>1. <<m.chunk, k>> \in excused \/ Published(w, m, k)
      BY <1>0, <1>4, <2>2 DEF Progress
    <3>2. ASSUME NEW n, n = m, Published(w, n, k)
          PROVE  Published(w, m, k)'
      <4>1. Published(w, n, k)'
        BY <1>0, <1>2, <3>2, AnsweredKept
      <4> QED
        BY <1>3, <3>2, <4>1 DEF Published
    <3> QED
      BY <1>3, <3>1, <3>2
  <2> QED
    BY <2>1, <2>2
<1>5. Due(w, m)' = Due(w, m)
  BY <1>3 DEF Due
<1>6. Own(w)'
  <2>1. CASE rest = {}
    <3>1. Answered(w, m)'
      <4>1. CASE w = "stt"
        BY <4>1 DEF Answered, Published
      <4>2. CASE w # "stt"
        BY <1>4, <1>5, <2>1, <4>2 DEF Answered
      <4> QED
        BY <4>1, <4>2
    <3> QED
      BY <1>0, <1>1, <1>2, <2>1, <3>1, OwnEnds DEF Becomes
  <2>2. CASE rest # {}
    <3>1. Busy(w)'
      BY <1>1, <2>2 DEF Becomes, Busy
    <3>2. Task(w)'
      <4>1. worker'[w].todo = rest /\ rest \subseteq worker[w].todo
        BY <1>1 DEF Becomes
      <4>2. w = "stt" => rest = {}
        BY <1>0 DEF Task
      <4>3. w = "tts" => rest = {}
        BY <1>0 DEF Task
      <4> HIDE DEF rest
      <4> QED
        BY <1>0, <1>3, <2>2, <4>1, <4>2, <4>3 DEF Task
    <3>3. (At(w, "publish") /\ w # "stt" =>
               \A k \in Due(w, InHand(w)) \ worker[w].todo :
                   <<InHand(w).chunk, k>> \in excused \/ Published(w, InHand(w), k))'
      BY <1>1, <1>4, <1>5 DEF Becomes
    <3> QED
      BY <1>0, <1>1, <1>2, <3>1, <3>2, <3>3, OwnGoesOn DEF Becomes
  <2> QED
    BY <2>1, <2>2
<1> QED
  BY <1>0, <1>1, <1>6, CoreStep DEF Becomes, TypeOK

LEMMA CorePublish ==
    ASSUME Core, NEW w \in WorkerNames, NEW l, Publish(w, l)
    PROVE  Core'
<1>0. TypeOK /\ Bounds(w) /\ At(w, "publish") /\ ~At(w, "poll")
      /\ l \in worker[w].todo /\ topic' = Written(w, l) /\ Settled(w, l)
      /\ excused' = excused /\ faults' = faults
  BY DEF Core, Publish, At
<1>1. /\ Extended
      /\ Len(Output(w)') = Len(Output(w)) + 1
      /\ Output(w)'[Len(Output(w)) + 1] = [chunk |-> InHand(w).chunk, lang |-> l]
  BY <1>0, WrittenFacts
<1>2. InHand(w)' = InHand(w)
  BY <1>0, <1>1, SettledEffect, InHandKept DEF Becomes
<1>3. Published(w, InHand(w), l)'
  BY <1>0, <1>1, <1>2, WorkerFields DEF Published
<1> QED
  BY <1>0, <1>3, CoreSettled DEF Grows, TypeOK

LEMMA CorePassOver ==
    ASSUME Core, NEW l, PassOver(l)
    PROVE  Core'
<1> DEFINE w == "translation"
<1>0. TypeOK /\ Bounds(w) /\ At(w, "publish") /\ ~At(w, "poll")
      /\ l \in worker[w].todo /\ topic' = topic /\ Settled(w, l)
      /\ Excuse(w, {l}) /\ faults' = faults
  BY NameFacts DEF Core, PassOver, At
<1>1. {l} \in SUBSET Languages
  BY <1>0, WorkerFields, NameFacts
<1>2. /\ excused \subseteq excused' /\ excused' \subseteq (Nat \X Languages)
      /\ \A k \in {l} : <<InHand(w).chunk, k>> \in excused'
  BY <1>0, <1>1, ExcuseFacts, NameFacts
<1>3. InHand(w)' = InHand(w)
  BY <1>0, UnchangedExtends, SettledEffect, InHandKept, NameFacts DEF Becomes
<1> QED
  BY <1>0, <1>2, <1>3, CoreSettled, NameFacts DEF Grows

LEMMA CoreRetry ==
    ASSUME Core, NEW w \in WorkerNames, ~At(w, "poll"), Grows(w), Retry(w), Fault
    PROVE  Core'
<1>0. TypeOK /\ Bounds(w)
  BY DEF Core
<1>1. Extended
  BY <1>0, GrowsExtends
<1>2. faults' \in 0..MaxEvents
  BY <1>0, FaultFacts
<1>3. CASE /\ Becomes(w, "handle", worker[w].pos, worker[w].done, worker[w].tries + 1, {})
           /\ UNCHANGED excused
  <2>1. Busy(w)' /\ Task(w)' /\ ~At(w, "publish")'
    BY <1>3 DEF Becomes, Busy, Task, At
  <2>2. Own(w)'
    BY <1>1, <1>3, <2>1, OwnGoesOn DEF Becomes
  <2> QED
    BY <1>0, <1>2, <1>3, <2>2, CoreStep DEF Becomes, TypeOK
<1>4. CASE /\ Becomes(w, "commit", worker[w].pos, worker[w].done, worker[w].tries, {})
           /\ Excuse(w, Due(w, InHand(w)))
  <2>1. Due(w, InHand(w)) \in SUBSET Languages
    BY <1>0, InHandFacts, DueFacts
  <2>2. /\ excused \subseteq excused' /\ excused' \subseteq (Nat \X Languages)
        /\ \A l \in Due(w, InHand(w)) : <<InHand(w).chunk, l>> \in excused'
    BY <1>0, <1>4, <2>1, ExcuseFacts
  <2>3. InHand(w)' = InHand(w)
    BY <1>0, <1>1, <1>4, InHandKept DEF Becomes
  <2>4. Answered(w, InHand(w))'
    BY <2>2, <2>3 DEF Answered, Due
  <2>5. Own(w)'
    BY <1>1, <1>4, <2>2, <2>4, OwnEnds DEF Becomes
  <2> QED
    BY <1>2, <1>4, <2>2, <2>5, CoreStep DEF Becomes
<1> QED
  BY <1>0, <1>3, <1>4, RetryEffect

LEMMA CoreHandleFails ==
    ASSUME Core, NEW w \in WorkerNames, HandleFails(w)
    PROVE  Core'
BY CoreRetry DEF HandleFails, Grows, At

LEMMA CorePublishFails ==
    ASSUME Core, NEW w \in WorkerNames, PublishFails(w)
    PROVE  Core'
BY CoreRetry DEF PublishFails, Grows, At

\* The commit, and the commit that fails.
LEMMA CoreCommits ==
    ASSUME Core, NEW w \in WorkerNames, At(w, "commit"), topic' = topic, excused' = excused,
           faults' \in 0..MaxEvents, NEW done \in {worker[w].done, worker[w].pos},
           Becomes(w, "poll", worker[w].pos, done, worker[w].tries, worker[w].todo)
    PROVE  Core'
<1>0. TypeOK /\ Bounds(w) /\ Progress(w) /\ ~At(w, "poll")
  BY DEF Core, At
<1>1. Extended
  BY <1>0, UnchangedExtends
<1>2. InHand(w)' = InHand(w)
  BY <1>0, <1>1, InHandKept DEF Becomes
<1>3. worker[w].pos \in 1..worker[w].pos /\ ~Busy(w)
  BY <1>0, InHandFacts DEF At, Busy
<1>4. Answered(w, InHand(w))
  BY <1>0, <1>3 DEF Progress, InHand
<1>5. ASSUME NEW n, n = InHand(w), Answered(w, n)
      PROVE  Answered(w, InHand(w))'
  <2>1. Answered(w, n)'
    BY <1>0, <1>1, <1>5, AnsweredKept
  <2> QED
    BY <1>2, <1>5, <2>1 DEF Answered, Published
<1>6. Own(w)'
  BY <1>0, <1>1, <1>4, <1>5, OwnEnds DEF Becomes
<1> QED
  BY <1>0, <1>6, CoreStep DEF Becomes, Grows, TypeOK

LEMMA CoreCommit ==
    ASSUME Core, NEW w \in WorkerNames, Commit(w)
    PROVE  Core'
BY CommitEffect, CoreCommits DEF Commit, Core, TypeOK

LEMMA CoreCommitFails ==
    ASSUME Core, NEW w \in WorkerNames, CommitFails(w)
    PROVE  Core'
<1>1. faults' \in 0..MaxEvents
  BY FaultFacts DEF CommitFails, Core
<1> QED
  BY <1>1, CommitFailsEffect, CoreCommits DEF CommitFails, Core

LEMMA CoreRestart ==
    ASSUME Core, NEW w \in WorkerNames, Restart(w)
    PROVE  Core'
<1>0. TypeOK /\ Bounds(w) /\ Progress(w)
  BY DEF Core
<1>1. Becomes(w, "poll", worker[w].done, worker[w].done, worker[w].tries, {})
  BY <1>0, RestartEffect
<1>2. topic' = topic /\ excused' = excused /\ faults' \in 0..MaxEvents
  BY <1>0, FaultFacts DEF Restart
<1>3. Input(w)' = Input(w) /\ Extended
  BY <1>0, <1>2, UnchangedExtends DEF Input
<1>4. Bounds(w)'
  BY <1>0, <1>1, <1>3, WorkerFields DEF Bounds, Becomes
<1>5. Task(w)'
  BY <1>1 DEF Task, At, Becomes
<1>6. ASSUME NEW i \in 1..worker'[w].pos
      PROVE  Answered(w, Input(w)[i])'
  <2>1. i \in 1..worker[w].pos /\ Answered(w, Input(w)[i])
    BY <1>0, <1>1, WorkerFields DEF Progress, Becomes, Bounds, Busy
  <2> QED
    BY <1>0, <1>2, <1>3, <2>1, ItemKept
<1>7. Progress(w)'
  BY <1>1, <1>6 DEF Progress, At, Becomes
<1> QED
  BY <1>0, <1>1, <1>2, <1>4, <1>5, <1>7, CoreStep DEF Own, Becomes, Grows, TypeOK

LEMMA CoreSay ==
    ASSUME Core, NEW l \in Tongues, Say(l)
    PROVE  Core'
<1> DEFINE next == [chunk |-> Len(topic["raw"]) + 1, lang |-> l]
<1>0. TypeOK /\ Chunks /\ topic["raw"] \in Seq(Message) /\ topic \in [Topics -> Seq(Message)]
  BY TopicFacts DEF Core, TypeOK
<1>1. next \in Message
  BY <1>0, SpeechAssumption DEF Message
<1>2. topic' = [topic EXCEPT !["raw"] = Append(@, next)]
      /\ worker' = worker /\ excused' = excused /\ faults' = faults
  BY DEF Say
<1>3. /\ topic' \in [Topics -> Seq(Message)]
      /\ topic'["raw"] = Append(topic["raw"], next)
      /\ \A t \in Topics \ {"raw"} : topic'[t] = topic[t]
  <2> HIDE DEF next
  <2> QED BY <1>0, <1>1, <1>2, TopicFacts
<1>4. /\ Len(topic'["raw"]) = Len(topic["raw"]) + 1
      /\ topic'["raw"][Len(topic["raw"]) + 1] = next
      /\ \A i \in 1..Len(topic["raw"]) : topic'["raw"][i] = topic["raw"][i]
  BY <1>0, <1>1, <1>3
<1>5. Extended
  <2> SUFFICES ASSUME NEW t \in Topics
               PROVE  /\ Len(topic[t]) \in Nat /\ Len(topic'[t]) \in Nat
                      /\ Len(topic[t]) <= Len(topic'[t])
                      /\ \A i \in 1..Len(topic[t]) : topic'[t][i] = topic[t][i]
    BY <1>3 DEF Extended
  <2>1. CASE t = "raw"
    BY <1>0, <1>4, <2>1
  <2>2. CASE t # "raw"
    BY <1>0, <1>3, <2>2
  <2> QED
    BY <2>1, <2>2
<1>6. Chunks'
  <2>1. \A i \in 1..Len(topic'["raw"]) : topic'["raw"][i].chunk = i
    BY <1>0, <1>4 DEF Chunks
  <2>2. ASSUME NEW t \in Topics, NEW i \in 1..Len(topic'[t])
        PROVE  topic'[t][i].chunk <= Len(topic'["raw"])
    <3>1. CASE t = "raw"
      BY <2>1, <2>2, <3>1, <1>0, <1>4
    <3>2. CASE t # "raw"
      <4>1. topic'[t] = topic[t] /\ topic[t][i] \in Message
        BY <1>0, <1>3, <2>2, <3>2
      <4>2. topic[t][i].chunk <= Len(topic["raw"])
        BY <1>0, <2>2, <4>1 DEF Chunks
      <4> QED
        BY <1>0, <1>4, <4>1, <4>2 DEF Message
    <3> QED
      BY <3>1, <3>2
  <2> QED
    BY <2>1, <2>2 DEF Chunks
<1>7. ASSUME NEW v \in WorkerNames
      PROVE  Bounds(v)' /\ Task(v)' /\ Progress(v)'
  BY <1>2, <1>5, OthersKept DEF Core
<1> QED
  BY <1>2, <1>3, <1>6, <1>7 DEF Core, TypeOK

LEMMA CoreNext ==
    ASSUME Core, [Next]_vars
    PROVE  Core'
<1>1. ASSUME NEW w \in WorkerNames, Work(w)
      PROVE  Core'
  <2>1. CASE Take(w)
    BY <1>1, <2>1, CoreTake
  <2>2. CASE Commit(w)
    BY <1>1, <2>2, CoreCommit
  <2>3. CASE Handle(w)
    BY <2>3, CoreTranscribe, CoreResolveTargets, CoreSynthesize, CorePublish, CorePassOver,
       NameFacts
       DEF Handle, PublishText, PublishTranslation, PublishAudio
  <2> QED
    BY <1>1, <2>1, <2>2, <2>3 DEF Work
<1>2. ASSUME NEW w \in WorkerNames, Fail(w)
      PROVE  Core'
  BY <1>2, CoreTakeStale, CoreHandleFails, CorePublishFails, CoreCommitFails, CoreRestart
     DEF Fail
<1>3. CASE UNCHANGED vars
  <2>1. topic' = topic /\ worker' = worker /\ excused' = excused /\ faults' = faults
    BY <1>3 DEF vars
  <2>2. Extended /\ TypeOK' /\ Chunks'
    BY <2>1, UnchangedExtends DEF Core, TypeOK, Chunks
  <2> QED
    BY <2>1, <2>2, OthersKept DEF Core
<1> QED
  BY <1>1, <1>2, <1>3, CoreSay DEF Next

LEMMA CoreInit ==
    ASSUME Init
    PROVE  Core
<1>1. TypeOK
  BY SpeechAssumption DEF Init, TypeOK, Worker
<1>2. \A t \in Topics : Len(topic[t]) = 0
  BY DEF Init
<1>3. Chunks
  BY <1>2, TopicFacts DEF Chunks
<1>4. ASSUME NEW w \in WorkerNames
      PROVE  Bounds(w) /\ Task(w) /\ Progress(w)
  <2>1. worker[w].at = "poll" /\ worker[w].pos = 0 /\ worker[w].done = 0
    BY DEF Init
  <2>2. Len(Input(w)) = 0
    BY <1>2, TopicFacts DEF Input
  <2> QED
    BY <2>1, <2>2 DEF Bounds, Task, Progress, At
<1> QED
  BY <1>1, <1>3, <1>4 DEF Core

\* The core of the invariant, on which the theorems about what is committed
\* and spoken rest, holds for any languages, retries and faults.
THEOREM CoreInvariant == Spec => []Core
BY CoreInit, CoreNext, PTL DEF Spec

\* The types of the variables.
THEOREM PipelineTypes == Spec => []TypeOK
<1>1. Core => TypeOK
  BY DEF Core
<1> QED
  BY <1>1, CoreInvariant, PTL

\* No worker commits a message before every language due for it has been
\* published or excused, through any number of retries and restarts.
THEOREM NothingOwed == Spec => []CommittedIsAnswered
<1>1. Core => CommittedIsAnswered
  <2> SUFFICES ASSUME Core, NEW w \in WorkerNames, NEW i \in 1..worker[w].done
               PROVE  Answered(w, Input(w)[i])
    BY DEF CommittedIsAnswered
  <2>1. i \in 1..worker[w].pos /\ ~(i = worker[w].pos /\ Busy(w))
    BY WorkerFields DEF Core, Bounds, Busy
  <2> QED
    BY <2>1 DEF Core, Progress
<1> QED
  BY <1>1, CoreInvariant, PTL

\* When the workers have nothing more to do, all that was said has been spoken
\* in every language or there was a reason not to.
THEOREM NothingForgotten == Spec => []SpokenWhenIdle
<1>1. Core => SpokenWhenIdle
  <2> SUFFICES ASSUME Core, Idle, NEW k \in 1..Len(topic["raw"]), NEW l \in Languages,
                      <<k, l>> \notin excused
               PROVE  Spoken(k, l)
    BY DEF SpokenWhenIdle
  <2>1. ASSUME NEW w \in WorkerNames, NEW i \in 1..Len(Input(w)),
               l \in Due(w, Input(w)[i]), Input(w)[i].chunk = k
        PROVE  Published(w, Input(w)[i], l)
    <3>1. i \in 1..worker[w].pos /\ ~Busy(w)
      BY <2>1 DEF Idle, Busy, At
    <3>2. Answered(w, Input(w)[i])
      BY <3>1 DEF Core, Progress
    <3> QED
      BY <2>1, <3>2 DEF Answered
  <2>2. /\ Input("stt") = topic["raw"] /\ Output("stt") = topic["text"]
        /\ Input("translation") = topic["text"] /\ Output("translation") = topic["translated"]
        /\ Input("tts") = topic["translated"] /\ Output("tts") = topic["synthesized"]
    BY DEF Source, Target, Input, Output
  <2>3. Published("stt", topic["raw"][k], l)
    <3>1. topic["raw"][k].chunk = k
      BY DEF Core, Chunks
    <3> QED
      BY <2>1, <2>2, <3>1, NameFacts DEF Due
  <2>4. PICK i \in 1..Len(topic["text"]) : topic["text"][i].chunk = k
    <3>1. topic["raw"][k].chunk = k
      BY DEF Core, Chunks
    <3> QED
      BY <2>2, <2>3, <3>1 DEF Published
  <2>5. Published("translation", topic["text"][i], l)
    BY <2>1, <2>2, <2>4, NameFacts DEF Due
  <2>6. PICK j \in 1..Len(topic["translated"]) :
            topic["translated"][j].chunk = k /\ topic["translated"][j].lang = l
    BY <2>2, <2>4, <2>5 DEF Published
  <2>7. Published("tts", topic["translated"][j], l)
    BY <2>1, <2>2, <2>6, NameFacts DEF Due
  <2>8. PICK f \in 1..Len(topic["synthesized"]) :
            topic["synthesized"][f].chunk = k /\ topic["synthesized"][f].lang = l
    BY <2>2, <2>6, <2>7 DEF Published
  <2>9. topic["synthesized"][f] \in Message
    <3>1. topic["synthesized"] \in Seq(Message)
      BY WorkerFields, NameFacts, <2>2 DEF Core
    <3> QED
      BY <2>8, <3>1
  <2> QED
    BY <2>8, <2>9 DEF Spoken, Message
<1> QED
  BY <1>1, CoreInvariant, PTL

-----------------------------------------------------------------------------
(* The order of the topics while nothing fails.                            *)

Ordered == TextOrder /\ TranslationOrder /\ FrameOrder

\* The topics of the workers, by name.
LEMMA TopicNames ==
    /\ \A w \in WorkerNames : w = "stt" \/ w = "translation" \/ w = "tts"
    /\ Input("stt") = topic["raw"] /\ Output("stt") = topic["text"]
    /\ Input("translation") = topic["text"] /\ Output("translation") = topic["translated"]
    /\ Input("tts") = topic["translated"] /\ Output("tts") = topic["synthesized"]
    /\ Input("tts")' = topic'["translated"] /\ Input("translation")' = topic'["text"]
    /\ Output("stt")' = topic'["text"] /\ Output("translation")' = topic'["translated"]
    /\ Output("tts")' = topic'["synthesized"]
    /\ "text" \in Topics /\ "translated" \in Topics /\ "synthesized" \in Topics
BY DEF WorkerNames, Source, Target, Input, Output, Topics

LEMMA TopicTypes ==
    ASSUME TypeOK
    PROVE  /\ topic["raw"] \in Seq(Message) /\ topic["text"] \in Seq(Message)
           /\ topic["translated"] \in Seq(Message) /\ topic["synthesized"] \in Seq(Message)
BY TopicNames, TopicFacts DEF TypeOK

LEMMA ChunkNumbers ==
    ASSUME NEW messages \in Seq(Message)
    PROVE  \A i \in 1..Len(messages) : messages[i].chunk \in Nat
<1> SUFFICES ASSUME NEW i \in 1..Len(messages)
             PROVE  messages[i].chunk \in Nat
  OBVIOUS
<1>1. messages[i] \in Message
  OBVIOUS
<1> QED
  BY <1>1 DEF Message

\* A step that publishes nothing: the worker goes on from where it stood, or
\* takes the next message.
LEMMA OrderedQuiet ==
    ASSUME Core, Ordered, NEW w \in WorkerNames, Own(w)',
           \A t \in Topics \ {"raw"} : topic'[t] = topic[t],
           \A v \in WorkerNames \ {w} : worker'[v] = worker[v],
           \/ /\ At(w, "poll")
              /\ worker'[w].at = "handle" /\ worker'[w].pos = worker[w].pos + 1
              /\ worker'[w].pos <= Len(Input(w))
           \/ /\ worker'[w].pos = worker[w].pos
              /\ \/ At(w, "handle") /\ worker'[w].at = "publish"
                 \/ At(w, "publish") /\ worker'[w].at = "publish"
                    /\ worker'[w].todo \subseteq worker[w].todo
                 \/ worker'[w].at \in {"commit", "poll"}
    PROVE  Ordered'
<1> DEFINE text == topic["text"]
           translated == topic["translated"]
           frames == topic["synthesized"]
           at == worker["translation"].pos
<1>0. TypeOK /\ text' = text /\ translated' = translated /\ frames' = frames
  BY TopicNames DEF Core
<1>1. worker["stt"].pos \in Nat /\ worker["translation"].pos \in Nat /\ worker["tts"].pos \in Nat
  BY <1>0, WorkerFields, NameFacts
<1>2. text \in Seq(Message) /\ translated \in Seq(Message) /\ frames \in Seq(Message)
  BY <1>0, TopicTypes
<1>3. TextOrder'
  <2>1. /\ worker'["stt"].pos = worker["stt"].pos /\ (Busy("stt")' => Busy("stt"))
        \/ worker'["stt"].pos = worker["stt"].pos + 1
    BY NameFacts DEF At, Busy
  <2>2. \A i \in 1..Len(text) : text[i].chunk \in Nat
    BY <1>2, ChunkNumbers
  <2>3. \A i \in 1..Len(text) :
            /\ text[i].chunk <= worker'["stt"].pos
            /\ Busy("stt")' => text[i].chunk < worker'["stt"].pos
    BY <1>1, <2>1, <2>2 DEF Ordered, TextOrder
  <2> QED
    BY <1>0, <2>3 DEF Ordered, TextOrder
<1>4. FrameOrder'
  <2>1. \/ /\ worker'["tts"].pos = worker["tts"].pos /\ (Busy("tts")' => Busy("tts"))
        \/ worker'["tts"].pos = worker["tts"].pos + 1
    BY NameFacts DEF At, Busy
  <2>2. ASSUME NEW i \in 1..Len(frames)
        PROVE  \E j \in 1..worker'["tts"].pos :
                   frames[i] = translated[j] /\ (Busy("tts")' => j < worker'["tts"].pos)
    <3>1. PICK j \in 1..worker["tts"].pos :
              frames[i] = translated[j] /\ (Busy("tts") => j < worker["tts"].pos)
      BY DEF Ordered, FrameOrder
    <3>2. j \in 1..worker'["tts"].pos /\ (Busy("tts")' => j < worker'["tts"].pos)
      BY <1>1, <2>1, <3>1
    <3> QED
      BY <3>1, <3>2
  <2> QED
    BY <1>0, <2>2 DEF Ordered, FrameOrder
<1>5. TranslationOrder'
  <2>1. CASE w = "translation" /\ At(w, "poll") /\ worker'[w].pos = at + 1
             /\ worker'[w].at = "handle"
    <3>1. at + 1 <= Len(text)
      BY <2>1, TopicNames DEF At
    <3>2. ASSUME NEW i \in 1..Len(translated)
          PROVE  translated[i].chunk < text[at + 1].chunk
      <4>1. at > 0 /\ translated[i].chunk <= text[at].chunk
        BY DEF Ordered, TranslationOrder
      <4>2. at \in 1..Len(text) /\ at + 1 \in 1..Len(text) /\ at < at + 1
        BY <1>1, <1>2, <3>1, <4>1
      <4>3. text[at].chunk < text[at + 1].chunk
        BY <4>2 DEF Ordered, TextOrder
      <4>4. translated[i] \in Message /\ text[at] \in Message /\ text[at + 1] \in Message
        BY <1>2, <4>2
      <4> QED
        BY SMTT(30), <4>1, <4>3, <4>4 DEF Message
    <3>3. \A i \in 1..Len(translated) : translated[i].chunk \in Nat
      BY <1>2, ChunkNumbers
    <3>4. text[at + 1].chunk \in Nat
      BY <1>1, <1>2, <3>1, ChunkNumbers
    <3>5. ASSUME NEW i \in 1..Len(translated)
          PROVE  worker'["translation"].pos > 0
                 /\ translated[i].chunk <= text[worker'["translation"].pos].chunk
                 /\ translated[i].chunk < text[worker'["translation"].pos].chunk
      BY SMTT(30), <1>1, <2>1, <3>2, <3>3, <3>4
    <3>6. /\ \A i, j \in 1..Len(translated) : i < j =>
              translated[i].chunk <= translated[j].chunk /\ translated[i] # translated[j]
          /\ \A i \in 1..Len(text), j \in 1..Len(translated) : text[i] # translated[j]
      BY DEF Ordered, TranslationOrder
    <3>7. text' = topic'["text"] /\ translated' = topic'["translated"]
          /\ worker'["translation"].at = "handle"
      BY <2>1
    <3> HIDE DEF text, translated, at
    <3>8. ASSUME NEW i \in 1..Len(topic'["translated"])
          PROVE  /\ worker'["translation"].pos > 0
                 /\ topic'["translated"][i].chunk <= topic'["text"][worker'["translation"].pos].chunk
                 /\ topic'["translated"][i].chunk < topic'["text"][worker'["translation"].pos].chunk
      BY <1>0, <3>5, <3>7
    <3> QED
      BY <1>0, <3>6, <3>7, <3>8 DEF TranslationOrder, At
  <2>2. CASE w = "translation" /\ worker'[w].pos = at
    <3>1. \/ At(w, "handle") /\ worker'[w].at = "publish"
          \/ At(w, "publish") /\ worker'[w].at = "publish"
             /\ worker'[w].todo \subseteq worker[w].todo
          \/ worker'[w].at \in {"commit", "poll"}
      BY <1>1, <2>2
    <3>2. ASSUME NEW i \in 1..Len(translated)
          PROVE  /\ at > 0 /\ translated[i].chunk <= text[at].chunk
                 /\ worker'[w].at # "handle"
                 /\ worker'[w].at = "publish" =>
                      \/ translated[i].chunk < text[at].chunk
                      \/ translated[i].lang \notin worker'[w].todo
      BY <2>2, <3>1 DEF Ordered, TranslationOrder, At
    <3> QED
      BY <1>0, <2>2, <3>2 DEF Ordered, TranslationOrder, At
  <2>3. CASE w # "translation"
    BY <1>0, <2>3, NameFacts DEF Ordered, TranslationOrder, At
  <2> QED
    BY <2>1, <2>2, <2>3
<1> QED
  BY <1>3, <1>4, <1>5 DEF Ordered

LEMMA TextPublished ==
    ASSUME Core, Core', Ordered, NEW l, Publish("stt", l)
    PROVE  Ordered'
<1> DEFINE text == topic["text"]
           translated == topic["translated"]
           pos == worker["stt"].pos
           new == [chunk |-> pos, lang |-> l]
           at == worker["translation"].pos
<1>0. /\ TypeOK /\ Bounds("stt") /\ Task("stt") /\ Bounds("translation")
      /\ At("stt", "publish") /\ ~At("stt", "poll") /\ l \in worker["stt"].todo
      /\ topic' = Written("stt", l) /\ Settled("stt", l)
  BY NameFacts DEF Core, Publish, At
<1>1. pos \in 1..Len(topic["raw"]) /\ InHand("stt").chunk = pos
  BY <1>0, InHandFacts, NameFacts, TopicNames DEF Core, Chunks, InHand
<1>2. /\ \A t \in Topics \ {"text"} : topic'[t] = topic[t]
      /\ Len(topic'["text"]) = Len(text) + 1
      /\ topic'["text"][Len(text) + 1] = new
      /\ \A i \in 1..Len(text) : topic'["text"][i] = text[i]
  <2>1. Target["stt"] = "text"
    BY DEF Target
  <2> QED
    BY <1>0, <1>1, <2>1, WrittenFacts, NameFacts, TopicNames DEF Extended
<1>3. /\ worker'["stt"].at = "commit" /\ worker'["stt"].pos = pos
      /\ worker'["translation"] = worker["translation"] /\ worker'["tts"] = worker["tts"]
  <2>1. worker["stt"].todo \ {l} = {}
    BY <1>0 DEF Task
  <2> QED
    BY <1>0, <2>1, SettledEffect, NameFacts DEF Becomes
<1>4. text \in Seq(Message) /\ translated \in Seq(Message) /\ at \in Nat /\ at <= Len(text)
  BY <1>0, TopicTypes, TopicNames, WorkerFields, NameFacts DEF Bounds
<1>5. \A i \in 1..Len(text) : text[i].chunk < pos
  BY <1>0 DEF Ordered, TextOrder, Busy, At
<1>6. TextOrder'
  <2>1. ASSUME NEW i \in 1..Len(topic'["text"])
        PROVE  topic'["text"][i].chunk <= pos
               /\ (i # Len(text) + 1 => topic'["text"][i].chunk < pos)
    <3>1. CASE i = Len(text) + 1
      BY <1>1, <1>2, <3>1
    <3>2. CASE i # Len(text) + 1
      <4>1. i \in 1..Len(text) /\ pos \in Nat
        BY <1>1, <1>2, <1>4, <2>1, <3>2, TopicTypes
      <4>2. text[i].chunk \in Nat /\ text[i].chunk < pos /\ topic'["text"][i] = text[i]
        BY <1>2, <1>4, <1>5, <4>1, ChunkNumbers
      <4> HIDE DEF text, pos
      <4> QED
        BY <4>1, <4>2
    <3> QED
      BY <3>1, <3>2
  <2>2. ASSUME NEW i \in 1..Len(topic'["text"]), NEW j \in 1..Len(topic'["text"]), i < j
        PROVE  topic'["text"][i].chunk < topic'["text"][j].chunk
    <3>1. CASE j = Len(text) + 1
      BY <1>2, <1>4, <2>1, <2>2, <3>1
    <3>2. CASE j # Len(text) + 1
      <4>1. i \in 1..Len(text) /\ j \in 1..Len(text)
        BY <1>2, <1>4, <2>2, <3>2
      <4> QED
        BY <1>2, <2>2, <4>1 DEF Ordered, TextOrder
    <3> QED
      BY <3>1, <3>2
  <2>3. ~Busy("stt")'
    BY <1>3 DEF Busy
  <2> QED
    BY <1>3, <2>1, <2>2, <2>3 DEF TextOrder
<1>7. TranslationOrder'
  <2>1. topic'["translated"] = translated
    BY <1>2, TopicNames
  <2>2. ASSUME NEW j \in 1..Len(translated)
        PROVE  at \in 1..Len(text) /\ translated[j] # new
    <3>1. at \in 1..Len(text) /\ translated[j].chunk <= text[at].chunk
      BY <1>4 DEF Ordered, TranslationOrder
    <3>2. text[at].chunk < pos /\ translated[j] \in Message /\ text[at] \in Message
      BY <1>4, <1>5, <3>1
    <3> QED
      BY SMTT(30), <1>1, <3>1, <3>2 DEF Message
  <2>3. ASSUME NEW i \in 1..Len(topic'["text"]), NEW j \in 1..Len(translated)
        PROVE  topic'["text"][i] # translated[j]
    <3>1. CASE i = Len(text) + 1
      BY <1>2, <2>2, <3>1
    <3>2. CASE i # Len(text) + 1
      <4>1. i \in 1..Len(text)
        BY <1>2, <1>4, <3>2
      <4> QED
        BY <1>2, <4>1 DEF Ordered, TranslationOrder
    <3> QED
      BY <3>1, <3>2
  <2>4. \A j \in 1..Len(translated) : topic'["text"][at] = text[at]
    BY <1>2, <2>2
  <2> QED
    BY <1>3, <2>1, <2>3, <2>4 DEF Ordered, TranslationOrder, At
<1>8. FrameOrder'
  <2>1. topic'["translated"] = translated /\ topic'["synthesized"] = topic["synthesized"]
    BY <1>2, TopicNames
  <2> QED
    BY <1>3, <2>1 DEF Ordered, FrameOrder, Busy
<1> QED
  BY <1>6, <1>7, <1>8 DEF Ordered

LEMMA TranslationPublished ==
    ASSUME Core, Ordered, NEW l, Publish("translation", l)
    PROVE  Ordered'
<1> DEFINE w == "translation"
           text == topic["text"]
           translated == topic["translated"]
           at == worker[w].pos
           new == [chunk |-> text[at].chunk, lang |-> l]
           rest == worker[w].todo \ {l}
<1>0. /\ TypeOK /\ Bounds(w) /\ Task(w) /\ Bounds("tts")
      /\ At(w, "publish") /\ ~At(w, "poll") /\ l \in worker[w].todo
      /\ topic' = Written(w, l) /\ Settled(w, l)
  BY NameFacts DEF Core, Publish, At
<1>1. at \in 1..Len(text) /\ InHand(w) = text[at] /\ text[at].lang \notin worker[w].todo
  BY <1>0, InHandFacts, NameFacts, TopicNames DEF InHand, Task
<1>2. /\ \A t \in Topics \ {"translated"} : topic'[t] = topic[t]
      /\ Len(topic'["translated"]) = Len(translated) + 1
      /\ topic'["translated"][Len(translated) + 1] = new
      /\ \A i \in 1..Len(translated) : topic'["translated"][i] = translated[i]
  <2>1. Target[w] = "translated"
    BY DEF Target
  <2> QED
    BY <1>0, <1>1, <2>1, WrittenFacts, NameFacts, TopicNames DEF Extended
<1>3. /\ worker'[w].at \in {"commit", "publish"} /\ worker'[w].pos = at
      /\ worker'[w].todo = rest
      /\ worker'["stt"] = worker["stt"] /\ worker'["tts"] = worker["tts"]
  BY <1>0, SettledEffect, NameFacts DEF Becomes
<1>4. text \in Seq(Message) /\ translated \in Seq(Message)
  BY <1>0, TopicTypes
<1>5. text[at].chunk \in Nat /\ \A i \in 1..Len(translated) : translated[i].chunk \in Nat
  BY <1>1, <1>4, ChunkNumbers
<1>6. \A i \in 1..Len(translated) :
          /\ translated[i].chunk <= text[at].chunk
          /\ translated[i].chunk < text[at].chunk \/ translated[i].lang \notin worker[w].todo
  BY <1>0 DEF Ordered, TranslationOrder
<1>7. \A i \in 1..Len(text) : text[i] # new
  <2> SUFFICES ASSUME NEW i \in 1..Len(text), text[i] = new
               PROVE  FALSE
    OBVIOUS
  <2>1. text[i].chunk = text[at].chunk /\ text[i].lang = l
    BY <1>4
  <2>2. i = at
    <3>1. ~(text[i].chunk < text[at].chunk) /\ ~(text[at].chunk < text[i].chunk)
      BY <1>5, <2>1
    <3>2. ~(i < at) /\ ~(at < i)
      BY <1>1, <3>1 DEF Ordered, TextOrder
    <3> QED
      BY <1>1, <3>2
  <2> QED
    BY <1>0, <1>1, <2>1, <2>2
<1>8. ASSUME NEW i \in 1..Len(topic'["translated"])
      PROVE  \/ i \in 1..Len(translated) /\ topic'["translated"][i] = translated[i]
             \/ i = Len(translated) + 1 /\ topic'["translated"][i] = new
  BY <1>2, <1>4
<1>9. TranslationOrder'
  <2>1. ASSUME NEW i \in 1..Len(topic'["translated"]), NEW j \in 1..Len(topic'["translated"]),
               i < j
        PROVE  /\ topic'["translated"][i].chunk <= topic'["translated"][j].chunk
               /\ topic'["translated"][i] # topic'["translated"][j]
    <3>1. i \in 1..Len(translated) /\ topic'["translated"][i] = translated[i]
      BY <1>2, <1>4, <2>1
    <3>2. CASE j \in 1..Len(translated)
      BY <1>2, <2>1, <3>1, <3>2 DEF Ordered, TranslationOrder
    <3>3. CASE j = Len(translated) + 1
      <4>1. translated[i] # new
        BY <1>0, <1>5, <1>6, <3>1
      <4> QED
        BY SMTT(30), <1>2, <1>6, <3>1, <3>3, <4>1
    <3> QED
      BY <1>8, <3>2, <3>3
  <2>2. ASSUME NEW i \in 1..Len(topic'["translated"])
        PROVE  /\ topic'["translated"][i].chunk <= text[at].chunk
               /\ \/ topic'["translated"][i].chunk < text[at].chunk
                  \/ topic'["translated"][i].lang \notin rest
    <3>1. CASE topic'["translated"][i] = new
      BY <1>5, <3>1
    <3>2. CASE i \in 1..Len(translated) /\ topic'["translated"][i] = translated[i]
      BY <1>6, <3>2
    <3> QED
      BY <1>8, <3>1, <3>2
  <2>3. ASSUME NEW i \in 1..Len(text), NEW j \in 1..Len(topic'["translated"])
        PROVE  text[i] # topic'["translated"][j]
    <3>1. CASE topic'["translated"][j] = new
      BY <1>7, <3>1
    <3>2. CASE j \in 1..Len(translated) /\ topic'["translated"][j] = translated[j]
      BY <3>2 DEF Ordered, TranslationOrder
    <3> QED
      BY <1>8, <3>1, <3>2
  <2>4. topic'["text"] = text /\ at > 0 /\ worker'[w].at # "handle"
    BY <1>1, <1>2, <1>3, TopicNames
  <2> QED
    BY <1>3, <2>1, <2>2, <2>3, <2>4 DEF TranslationOrder, At
<1>10. TextOrder'
  <2>1. topic'["text"] = text
    BY <1>2, TopicNames
  <2> QED
    BY <1>3, <2>1 DEF Ordered, TextOrder, Busy
<1>11. FrameOrder'
  <2>1. topic'["synthesized"] = topic["synthesized"]
    BY <1>2, TopicNames
  <2>2. \A j \in 1..worker["tts"].pos : topic'["translated"][j] = translated[j]
    BY SMTT(30), <1>0, <1>2, <1>4, TopicNames, WorkerFields, NameFacts DEF Bounds
  <2> QED
    BY <1>3, <2>1, <2>2 DEF Ordered, FrameOrder, Busy
<1> QED
  BY <1>9, <1>10, <1>11 DEF Ordered

\* What the TTS worker publishes comes behind all frames there are.
LEMMA FrameInTurn ==
    ASSUME Core, Ordered, At("tts", "publish"), NEW l \in worker["tts"].todo
    PROVE  LET pos == worker["tts"].pos
               translated == topic["translated"]
               frames == topic["synthesized"]
           IN /\ pos \in 1..Len(translated)
              /\ InHand("tts") = translated[pos]
              /\ translated[pos] = [chunk |-> InHand("tts").chunk, lang |-> l]
              /\ worker["tts"].todo = {l}
              /\ \A i \in 1..Len(frames) :
                  frames[i].chunk <= translated[pos].chunk /\ frames[i] # translated[pos]
<1> DEFINE pos == worker["tts"].pos
           translated == topic["translated"]
           frames == topic["synthesized"]
<1>0. TypeOK /\ Bounds("tts") /\ Task("tts") /\ ~At("tts", "poll")
  BY NameFacts DEF Core, At
<1>1. pos \in 1..Len(translated) /\ InHand("tts") = translated[pos] /\ translated[pos] \in Message
  BY <1>0, InHandFacts, NameFacts, TopicNames DEF InHand
<1>2. translated[pos].lang = l /\ worker["tts"].todo = {l}
  BY <1>0, <1>1 DEF Task
<1>3. translated[pos] = [chunk |-> translated[pos].chunk, lang |-> l]
  BY <1>1, <1>2 DEF Message
<1>4. ASSUME NEW i \in 1..Len(frames)
      PROVE  frames[i].chunk <= translated[pos].chunk /\ frames[i] # translated[pos]
  <2>1. PICK j \in 1..pos : frames[i] = translated[j] /\ j < pos
    BY DEF Ordered, FrameOrder, Busy, At
  <2>2. j \in 1..Len(translated)
    BY <1>1, <2>1
  <2> QED
    BY <1>1, <2>1, <2>2 DEF Ordered, TranslationOrder
<1> QED
  BY <1>1, <1>2, <1>3, <1>4

LEMMA AudioPublished ==
    ASSUME Core, Ordered, NEW l, Publish("tts", l)
    PROVE  Ordered'
<1> DEFINE w == "tts"
           translated == topic["translated"]
           frames == topic["synthesized"]
           pos == worker[w].pos
<1>0. /\ TypeOK /\ Bounds(w)
      /\ At(w, "publish") /\ ~At(w, "poll") /\ l \in worker[w].todo
      /\ topic' = Written(w, l) /\ Settled(w, l)
  BY NameFacts DEF Core, Publish, At
<1>1. /\ pos \in 1..Len(translated)
      /\ translated[pos] = [chunk |-> InHand(w).chunk, lang |-> l]
      /\ worker[w].todo = {l}
      /\ \A i \in 1..Len(frames) :
          frames[i].chunk <= translated[pos].chunk /\ frames[i] # translated[pos]
  BY <1>0, FrameInTurn
<1>2. /\ \A t \in Topics \ {"synthesized"} : topic'[t] = topic[t]
      /\ Len(topic'["synthesized"]) = Len(frames) + 1
      /\ topic'["synthesized"][Len(frames) + 1] = translated[pos]
      /\ \A i \in 1..Len(frames) : topic'["synthesized"][i] = frames[i]
  <2>1. Target[w] = "synthesized"
    BY DEF Target
  <2> QED
    BY <1>0, <1>1, <2>1, WrittenFacts, NameFacts, TopicNames DEF Extended
<1>3. /\ worker'[w].at = "commit" /\ worker'[w].pos = pos
      /\ worker'["stt"] = worker["stt"] /\ worker'["translation"] = worker["translation"]
  <2>1. worker[w].todo \ {l} = {}
    BY <1>1
  <2> QED
    BY <1>0, <2>1, SettledEffect, NameFacts DEF Becomes
<1>4. frames \in Seq(Message) /\ pos \in Nat
  BY <1>0, TopicTypes, WorkerFields, NameFacts
<1>5. ASSUME NEW i \in 1..Len(topic'["synthesized"])
      PROVE  \/ i \in 1..Len(frames) /\ topic'["synthesized"][i] = frames[i]
             \/ i = Len(frames) + 1 /\ topic'["synthesized"][i] = translated[pos]
  BY <1>2, <1>4
<1>6. FrameOrder'
  <2>1. ASSUME NEW i \in 1..Len(topic'["synthesized"]),
               NEW j \in 1..Len(topic'["synthesized"]), i < j
        PROVE  /\ topic'["synthesized"][i].chunk <= topic'["synthesized"][j].chunk
               /\ topic'["synthesized"][i] # topic'["synthesized"][j]
    <3>1. i \in 1..Len(frames) /\ topic'["synthesized"][i] = frames[i]
      BY <1>2, <1>4, <2>1
    <3>2. CASE j \in 1..Len(frames)
      BY <1>2, <2>1, <3>1, <3>2 DEF Ordered, FrameOrder
    <3>3. CASE j = Len(frames) + 1
      BY <1>1, <1>2, <3>1, <3>3
    <3> QED
      BY <1>5, <3>2, <3>3
  <2>2. ASSUME NEW i \in 1..Len(topic'["synthesized"])
        PROVE  \E j \in 1..pos : topic'["synthesized"][i] = translated[j]
    <3>1. CASE i \in 1..Len(frames) /\ topic'["synthesized"][i] = frames[i]
      BY <3>1 DEF Ordered, FrameOrder
    <3>2. CASE topic'["synthesized"][i] = translated[pos]
      BY <1>1, <3>2
    <3> QED
      BY <1>5, <3>1, <3>2
  <2>3. topic'["translated"] = translated
    BY <1>2, TopicNames
  <2> QED
    BY <1>3, <2>1, <2>2, <2>3 DEF FrameOrder, Busy
<1>7. TextOrder' /\ TranslationOrder'
  <2>1. topic'["text"] = topic["text"] /\ topic'["translated"] = translated
    BY <1>2, TopicNames
  <2> QED
    BY <1>3, <2>1 DEF Ordered, TextOrder, TranslationOrder, Busy, At
<1> QED
  BY <1>6, <1>7 DEF Ordered

LEMMA FaultsGrow ==
    ASSUME TypeOK, [Next]_vars
    PROVE  faults' \in {faults, faults + 1} /\ faults \in Nat
<1>1. faults \in Nat
  BY SpeechAssumption DEF TypeOK
<1>2. ASSUME NEW w \in WorkerNames, Work(w)
      PROVE  faults' = faults
  BY <1>2 DEF Work, Take, Handle, Commit, Transcribe, ResolveTargets, PassOver, Synthesize,
              PublishText, PublishTranslation, PublishAudio, Publish
<1>3. ASSUME NEW w \in WorkerNames, Fail(w)
      PROVE  faults' = faults + 1
  BY <1>3 DEF Fail, TakeStale, HandleFails, PublishFails, CommitFails, Restart, Fault
<1>4. ASSUME NEW l, Say(l)
      PROVE  faults' = faults
  BY <1>4 DEF Say
<1> QED
  BY <1>1, <1>2, <1>3, <1>4 DEF Next, vars

LEMMA FailureCounts ==
    ASSUME TypeOK, NEW w \in WorkerNames, Fail(w)
    PROVE  faults' # 0
<1>1. Fault
  BY DEF Fail, TakeStale, HandleFails, PublishFails, CommitFails, Restart
<1> QED
  BY <1>1, SpeechAssumption DEF Fault, TypeOK

LEMMA OrderedWork ==
    ASSUME Core, Core', Ordered, NEW w \in WorkerNames, Work(w)
    PROVE  Ordered'
<1>0. TypeOK /\ Bounds(w) /\ Own(w)'
  BY DEF Core, Own
<1>1. CASE Take(w)
  <2>1. Becomes(w, "handle", worker[w].pos + 1, worker[w].done, 0, worker[w].todo)
    BY <1>0, <1>1, TakeEffect
  <2>2. At(w, "poll") /\ worker[w].pos < Len(Input(w)) /\ topic' = topic
    BY <1>1 DEF Take
  <2>3. worker[w].pos + 1 <= Len(Input(w))
    BY <1>0, <2>2, WorkerFields
  <2> QED
    BY <1>0, <2>1, <2>2, <2>3, OrderedQuiet DEF Becomes
<1>2. CASE Commit(w)
  <2>1. Becomes(w, "poll", worker[w].pos, worker[w].pos, worker[w].tries, worker[w].todo)
        /\ topic' = topic
    BY <1>0, <1>2, CommitEffect DEF Commit
  <2> QED
    BY <1>0, <2>1, OrderedQuiet DEF Becomes
<1>3. ASSUME At(w, "handle"), NEW languages \in SUBSET Languages, Resolved(w, languages),
             topic' = topic
      PROVE  Ordered'
  <2>1. Becomes(w, IF languages = {} THEN "commit" ELSE "publish", worker[w].pos,
                worker[w].done, worker[w].tries, languages)
    BY <1>0, <1>3, ResolvedEffect
  <2>2. worker'[w].at = "publish" \/ worker'[w].at \in {"commit", "poll"}
    BY <2>1 DEF Becomes
  <2> QED
    BY <1>0, <1>3, <2>1, <2>2, OrderedQuiet DEF Becomes
<1>4. CASE w = "stt" /\ Transcribe
  <2>1. \A l \in Tongues : {l} \in SUBSET Languages
    BY SpeechAssumption
  <2> QED
    BY <1>3, <1>4, <2>1 DEF Transcribe
<1>5. ASSUME w = "translation", NEW present \in SUBSET Languages, ResolveTargets(present)
      PROVE  Ordered'
  <2> DEFINE targets == present \ {InHand(w).lang}
  <2>1. targets \in SUBSET Languages /\ At(w, "handle") /\ Resolved(w, targets) /\ topic' = topic
    BY <1>5 DEF ResolveTargets
  <2> HIDE DEF targets
  <2> QED
    BY <1>3, <2>1
<1>6. CASE w = "tts" /\ Synthesize
  <2>1. {InHand("tts").lang} \in SUBSET Languages
    BY <1>0, <1>6, InHandFacts DEF Synthesize, At, Message
  <2> QED
    BY <1>3, <1>6, <2>1 DEF Synthesize
<1>7. ASSUME w = "translation", NEW l \in Languages, PassOver(l)
      PROVE  Ordered'
  <2> DEFINE rest == worker[w].todo \ {l}
  <2>1. At(w, "publish") /\ Settled(w, l) /\ topic' = topic
    BY <1>7 DEF PassOver
  <2>2. Becomes(w, IF rest = {} THEN "commit" ELSE "publish", worker[w].pos,
                worker[w].done, worker[w].tries, rest)
    BY <1>0, <2>1, SettledEffect
  <2>3. /\ worker'[w].at = "publish" \/ worker'[w].at \in {"commit", "poll"}
        /\ worker'[w].todo \subseteq worker[w].todo
    BY <2>2 DEF Becomes
  <2> QED
    BY <1>0, <2>1, <2>2, <2>3, OrderedQuiet DEF Becomes
<1>8. ASSUME NEW l \in Languages, Publish(w, l)
      PROVE  Ordered'
  BY <1>8, TopicNames, TextPublished, TranslationPublished, AudioPublished
<1> QED
  BY <1>1, <1>2, <1>4, <1>5, <1>6, <1>7, <1>8
     DEF Work, Handle, PublishText, PublishTranslation, PublishAudio

LEMMA OrderedSay ==
    ASSUME Core, Core', Ordered, NEW l \in Tongues, Say(l)
    PROVE  Ordered'
<1>1. /\ topic' = [topic EXCEPT !["raw"] = Append(@, [chunk |-> Len(@) + 1, lang |-> l])]
      /\ worker' = worker
  BY DEF Say
<1>2. topic'["text"] = topic["text"] /\ topic'["translated"] = topic["translated"]
      /\ topic'["synthesized"] = topic["synthesized"]
  BY <1>1, TopicNames DEF Core, TypeOK
<1> QED
  BY <1>1, <1>2 DEF Ordered, TextOrder, TranslationOrder, FrameOrder, Busy, At

LEMMA InductiveStep ==
    ASSUME IInv, [Next]_vars
    PROVE  IInv'
<1>1. Core /\ Core'
  BY CoreNext DEF IInv, Core
<1>2. ASSUME faults' = 0
      PROVE  Ordered'
  <2>1. faults = 0 /\ Ordered
    BY <1>1, <1>2, FaultsGrow DEF IInv, Ordered, Core
  <2>2. CASE UNCHANGED vars
    BY <2>1, <2>2 DEF vars, Ordered, TextOrder, TranslationOrder, FrameOrder, Busy, At
  <2> QED
    BY <1>1, <1>2, <2>1, <2>2, OrderedWork, OrderedSay, FailureCounts DEF Next, Core
<1> QED
  BY <1>1, <1>2 DEF IInv, Core, Ordered

\* The inductive invariant.
THEOREM PipelineInvariant == Spec => []IInv
<1>1. Init => IInv
  <2> SUFFICES ASSUME Init PROVE IInv
    OBVIOUS
  <2>1. Len(topic["text"]) = 0 /\ Len(topic["translated"]) = 0 /\ Len(topic["synthesized"]) = 0
    BY TopicNames DEF Init
  <2>2. TextOrder /\ TranslationOrder /\ FrameOrder
    BY <2>1 DEF TextOrder, TranslationOrder, FrameOrder
  <2> QED
    BY <2>2, CoreInit DEF IInv, Core
<1> QED
  BY <1>1, InductiveStep, PTL DEF Spec

\* While nothing fails nobody hears a chunk in the language it was said in.
THEOREM NobodyHearsEcho == Spec => []NoEcho
<1>1. IInv => NoEcho
  <2> SUFFICES ASSUME IInv, faults = 0,
                      NEW i \in 1..Len(topic["text"]), NEW j \in 1..Len(topic["synthesized"])
               PROVE  topic["text"][i] # topic["synthesized"][j]
    BY DEF NoEcho
  <2>1. PICK k \in 1..worker["tts"].pos : topic["synthesized"][j] = topic["translated"][k]
    BY DEF IInv, FrameOrder
  <2>2. k \in 1..Len(topic["translated"])
    BY <2>1, NameFacts, TopicNames, TopicTypes, WorkerFields DEF IInv, Bounds
  <2> QED
    BY <2>1, <2>2 DEF IInv, TranslationOrder
<1> QED
  BY <1>1, PipelineInvariant, PTL

-----------------------------------------------------------------------------
(* The workers implement SpeechChannel.                                    *)

LEMMA ChannelStep ==
    ASSUME IInv, Next
    PROVE  Channel!Next \/ UNCHANGED Channel!vars
<1> DEFINE raw == topic["raw"]
           frames == topic["synthesized"]
<1>0. TypeOK /\ Core
  BY DEF IInv, Core
<1>1. faults' \in {faults, faults + 1}
  BY <1>0, FaultsGrow
<1>2. ASSUME topic'["raw"] = raw, topic'["synthesized"] = frames
      PROVE  Channel!Next
  BY <1>1, <1>2 DEF Channel!Next, Channel!Rest
<1>3. ASSUME NEW l \in Tongues, Say(l)
      PROVE  Channel!Next
  <2> DEFINE next == [chunk |-> Len(raw) + 1, lang |-> l]
  <2>1. topic' = [topic EXCEPT !["raw"] = Append(@, next)]
    BY <1>3 DEF Say
  <2>2. topic'["raw"] = Append(raw, next) /\ topic'["synthesized"] = frames
    BY <1>0, <2>1, TopicFacts, TopicNames DEF TypeOK
  <2>3. Len(topic'["raw"]) = Len(raw) + 1
    BY <1>0, <2>2, TopicTypes
  <2> QED
    BY <1>1, <2>2, <2>3 DEF Channel!Next, Channel!Say
<1>4. ASSUME NEW w \in WorkerNames, Grows(w)
      PROVE  Channel!Next
  <2>1. Bounds(w)
    BY <1>0 DEF Core
  <2>2. CASE w # "tts" \/ topic' = topic
    <3>1. Target["stt"] = "text" /\ Target["translation"] = "translated"
      BY DEF Target
    <3>2. topic'["raw"] = raw /\ topic'["synthesized"] = frames
      BY <1>0, <1>4, <2>1, <2>2, <3>1, GrowsExtends, TopicFacts, TopicNames
    <3> QED
      BY <1>2, <3>2
  <2>3. CASE w = "tts" /\ topic' # topic
    <3>1. PICK l \in worker["tts"].todo :
              At("tts", "publish") /\ topic' = Written("tts", l)
      BY <1>4, <2>3 DEF Grows
    <3> DEFINE k == InHand("tts").chunk
               new == [chunk |-> k, lang |-> l]
    <3>2. Target["tts"] = "synthesized"
      BY DEF Target
    <3>3. topic'["raw"] = raw
      BY <1>0, <1>4, <2>1, <2>3, GrowsExtends, TopicFacts
    <3>4. ~At("tts", "poll") /\ InHand("tts") \in Message
      BY <1>0, <2>1, <2>3, <3>1, InHandFacts DEF At
    <3>5. l \in Languages /\ new \in Message
      BY <1>0, <3>4, WorkerFields, NameFacts DEF Message
    <3>6. topic'["synthesized"] = Append(frames, new)
      BY <1>0, <3>1, <3>2, TopicNames DEF Written, TypeOK
    <3>7. k \in 1..Len(raw)
      <4>1. worker["tts"].pos \in 1..Len(topic["translated"])
            /\ InHand("tts") = topic["translated"][worker["tts"].pos]
        BY <1>0, <2>1, <2>3, <3>4, InHandFacts, TopicNames DEF InHand
      <4>2. k <= Len(raw)
        BY <1>0, <4>1, TopicNames DEF Core, Chunks
      <4> QED
        BY <1>0, <3>4, <4>2, TopicTypes DEF Message
    <3>8. ASSUME faults' = 0
          PROVE  \A i \in 1..Len(frames) : frames[i].chunk <= k /\ frames[i] # new
      <4>1. Ordered
        BY <1>0, <1>1, <3>8, FaultsGrow, SpeechAssumption DEF IInv, Ordered, TypeOK
      <4> QED
        BY <1>0, <3>1, <4>1, FrameInTurn
    <3>9. Channel!Speak(k, l)
      <4> HIDE DEF k
      <4> QED
        BY <3>3, <3>6, <3>7, <3>8 DEF Channel!Speak, Channel!Frame, Channel!InTurn
    <3> QED
      BY <1>1, <3>5, <3>7, <3>9 DEF Channel!Next
  <2> QED
    BY <2>2, <2>3
<1>5. ASSUME NEW w \in WorkerNames, Work(w)
      PROVE  Grows(w)
  BY <1>5 DEF Work, Take, Handle, Commit, Transcribe, ResolveTargets, PassOver, Synthesize,
              PublishText, PublishTranslation, PublishAudio, Publish, Grows
<1>6. ASSUME NEW w \in WorkerNames, Fail(w)
      PROVE  Grows(w)
  BY <1>6 DEF Fail, TakeStale, HandleFails, PublishFails, CommitFails, Restart, Grows
<1> QED
  BY <1>3, <1>4, <1>5, <1>6 DEF Next

\* The three workers implement SpeechChannel: the sockets get frames in the
\* order of the chunks and none twice, as long as nothing fails.
THEOREM PipelineIsChannel == Spec => ImplementsChannel
<1>1. Init => Channel!Init
  <2> SUFFICES ASSUME Init PROVE Channel!Init
    OBVIOUS
  <2>1. topic["raw"] = <<>> /\ topic["synthesized"] = <<>> /\ faults = 0
    BY TopicFacts, TopicNames DEF Init
  <2> QED
    BY <2>1 DEF Channel!Init
<1>2. ASSUME IInv, [Next]_vars
      PROVE  [Channel!Next]_Channel!vars
  <2>1. CASE Next
    BY <1>2, <2>1, ChannelStep
  <2>2. CASE UNCHANGED vars
    BY <2>2 DEF vars, Channel!vars
  <2> QED
    BY <1>2, <2>1, <2>2
<1> QED
  BY <1>1, <1>2, PipelineInvariant, PTL DEF Spec, ImplementsChannel, Channel!Spec
=============================================================================
