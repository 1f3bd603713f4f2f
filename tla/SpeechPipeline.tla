--------------------------- MODULE SpeechPipeline ---------------------------
(***************************************************************************)
(* The workers between the audio sockets of one room: STTWorker,           *)
(* TranslationWorker and TTSWorker of app/services, each a BaseConsumer    *)
(* whose handle() reads one topic and publishes to the next.               *)
(*                                                                         *)
(* A message is the chunk it stems from and its language; sound and words  *)
(* are left out.  The loop under handle() is the one of KafkaConsumer, of  *)
(* which this module keeps the retries, the giving up (the dead-letter     *)
(* queue), the commit after handling and the restart from what has been    *)
(* committed.                                                              *)
(***************************************************************************)
EXTENDS Naturals, Sequences

CONSTANTS
    Languages,
    Tongues,        \* those the speaker is set to or heard to speak
    MaxRetries,     \* settings.KAFKA_MAX_RETRIES
    MaxEvents       \* bound on what is said and what goes wrong, together:
                    \* failing calls, restarts and delays of two minutes

ASSUME SpeechAssumption ==
    /\ Tongues \subseteq Languages
    /\ MaxRetries \in Nat
    /\ MaxEvents \in Nat

VARIABLES
    topic,      \* the four topics
    worker,     \* the three workers
    excused,    \* history: the chunks and languages that need not be spoken
    faults      \* the number of faults so far

vars == <<topic, worker, excused, faults>>

-----------------------------------------------------------------------------
Topics == {"raw", "text", "translated", "synthesized"}
WorkerNames == {"stt", "translation", "tts"}

Source == [stt |-> "raw", translation |-> "text", tts |-> "translated"]
Target == [stt |-> "text", translation |-> "translated", tts |-> "synthesized"]

Message == [chunk: Nat \ {0}, lang: Languages]

\* Awaiting a message; before or in the call of handle() that finds out what
\* has to be published; publishing; awaiting the commit.  `pos` and `done`: the
\* messages taken and those committed.  `tries`: the attempts that have failed.
\* `todo`: the languages still to be published.
Worker == [at: {"poll", "handle", "publish", "commit"}, pos: Nat, done: Nat,
           tries: 0..MaxRetries, todo: SUBSET Languages]

TypeOK ==
    /\ topic \in [Topics -> Seq(Message)]
    /\ worker \in [WorkerNames -> Worker]
    /\ excused \subseteq (Nat \X Languages)
    /\ faults \in 0..MaxEvents

At(w, place) == worker[w].at = place
Input(w) == topic[Source[w]]
Output(w) == topic[Target[w]]
InHand(w) == Input(w)[worker[w].pos]

MayHappen == faults + Len(topic["raw"]) < MaxEvents
Fault == MayHappen /\ faults' = faults + 1

Init ==
    /\ topic = [t \in Topics |-> <<>>]
    /\ worker = [w \in WorkerNames |->
                    [at |-> "poll", pos |-> 0, done |-> 0, tries |-> 0, todo |-> {}]]
    /\ excused = {}
    /\ faults = 0

-----------------------------------------------------------------------------
(* The room.                                                               *)

\* A chunk of the speaker reaches audio.raw (AudioSession).
Say(l) ==
    /\ MayHappen
    /\ topic' = [topic EXCEPT !["raw"] =
                    Append(@, [chunk |-> Len(@) + 1, lang |-> l])]
    /\ UNCHANGED <<worker, excused, faults>>

-----------------------------------------------------------------------------
(* The loop of a worker.                                                   *)

\* The languages in which the workers from w on would have to speak message m.
Due(w, m) == IF w = "tts" THEN {m.lang} ELSE Languages

Excuse(w, languages) ==
    excused' = excused \cup {<<InHand(w).chunk, l>> : l \in languages}

\* Mutant: the offset is committed as the message is taken.
TakeAndCommit(w) ==
    /\ At(w, "poll")
    /\ worker[w].pos < Len(Input(w))
    /\ worker' = [worker EXCEPT ![w].at = "handle", ![w].pos = @ + 1,
                                ![w].done = worker[w].pos + 1, ![w].tries = 0]
    /\ UNCHANGED <<topic, excused, faults>>

Take(w) ==
    /\ At(w, "poll")
    /\ worker[w].pos < Len(Input(w))
    /\ worker' = [worker EXCEPT ![w].at = "handle", ![w].pos = @ + 1, ![w].tries = 0]
    /\ UNCHANGED <<topic, excused, faults>>

\* max_message_age_ms: a message delayed by more than two minutes is skipped.
TakeStale(w) ==
    /\ At(w, "poll")
    /\ worker[w].pos < Len(Input(w))
    /\ Fault
    /\ worker' = [worker EXCEPT ![w].at = "commit", ![w].pos = @ + 1]
    /\ LET m == Input(w)[worker[w].pos + 1]
       IN excused' = excused \cup {<<m.chunk, l>> : l \in Due(w, m)}
    /\ UNCHANGED topic

\* handle() knows what it has to publish; when it is nothing, it returns.
Resolved(w, languages) ==
    worker' = [worker EXCEPT ![w].at = IF languages = {} THEN "commit" ELSE "publish",
                             ![w].todo = languages]

\* Mutant: the attempts go on after one that succeeded.
SettledOnceMore(w, l) ==
    LET rest == worker[w].todo \ {l}
        again == rest = {} /\ worker[w].tries < MaxRetries
    IN worker' = [worker EXCEPT ![w].at = CASE again -> "handle"
                                            [] rest = {} -> "commit"
                                            [] OTHER -> "publish",
                                ![w].tries = IF again THEN @ + 1 ELSE @,
                                ![w].todo = rest]

\* Language l is done with; after the last one handle() returns.
Settled(w, l) ==
    LET rest == worker[w].todo \ {l}
    IN worker' = [worker EXCEPT ![w].at = IF rest = {} THEN "commit" ELSE "publish",
                                ![w].todo = rest]

Written(w, l) ==
    [topic EXCEPT ![Target[w]] = Append(@, [chunk |-> InHand(w).chunk, lang |-> l])]

Publish(w, l) ==
    /\ At(w, "publish")
    /\ l \in worker[w].todo
    /\ topic' = Written(w, l)
    /\ Settled(w, l)
    /\ UNCHANGED <<excused, faults>>

\* Mutant: the exception is logged and the loop over the languages goes on.
RetrySwallowed(w) ==
    /\ worker' = [worker EXCEPT ![w].at = "commit", ![w].todo = {}]
    /\ UNCHANGED excused

\* handle() raises: it is called again, from its beginning, or given up.
Retry(w) ==
    IF worker[w].tries < MaxRetries
      THEN /\ worker' = [worker EXCEPT ![w].at = "handle", ![w].todo = {},
                                       ![w].tries = @ + 1]
           /\ UNCHANGED excused
      ELSE /\ worker' = [worker EXCEPT ![w].at = "commit", ![w].todo = {}]
           /\ Excuse(w, Due(w, InHand(w)))

\* Redis, the provider, or the decoding of the sound fails.
HandleFails(w) ==
    /\ At(w, "handle")
    /\ Fault
    /\ Retry(w)
    /\ UNCHANGED topic

\* A send fails that may have written the message all the same.
PublishFails(w) ==
    /\ At(w, "publish")
    /\ Fault
    /\ topic' \in {topic} \cup {Written(w, l) : l \in worker[w].todo}
    /\ Retry(w)

Commit(w) ==
    /\ At(w, "commit")
    /\ worker' = [worker EXCEPT ![w].at = "poll", ![w].done = worker[w].pos]
    /\ UNCHANGED <<topic, excused, faults>>

CommitFails(w) ==
    /\ At(w, "commit")
    /\ Fault
    /\ worker' = [worker EXCEPT ![w].at = "poll"]
    /\ UNCHANGED <<topic, excused>>

\* The process restarts: the worker goes on behind what it has committed.
Restart(w) ==
    /\ Fault
    /\ worker' = [worker EXCEPT ![w].at = "poll", ![w].pos = worker[w].done, ![w].todo = {}]
    /\ UNCHANGED <<topic, excused>>

-----------------------------------------------------------------------------
(* What handle() of each worker does first.                                *)

\* The provider hears a language, or no speech; empty sound is skipped.
Transcribe ==
    /\ At("stt", "handle")
    /\ \/ /\ \E l \in Tongues : Resolved("stt", {l})
          /\ UNCHANGED excused
       \/ /\ Resolved("stt", {})
          /\ Excuse("stt", Languages)
    /\ UNCHANGED <<topic, faults>>

\* The targets are the languages of those present in the room (MeetingRoom:
\* anyone at every attempt) but for the one spoken.
ResolveTargets(present) ==
    /\ At("translation", "handle")
    /\ LET targets == present \ {InHand("translation").lang}
       IN /\ Resolved("translation", targets)
          /\ Excuse("translation", Languages \ targets)
    /\ UNCHANGED <<topic, faults>>

\* A translation that came out empty is not published.
PassOver(l) ==
    /\ At("translation", "publish")
    /\ l \in worker["translation"].todo
    /\ Settled("translation", l)
    /\ Excuse("translation", {l})
    /\ UNCHANGED <<topic, faults>>

\* The text is spoken in its language; a blank one is skipped.
Synthesize ==
    /\ At("tts", "handle")
    /\ \/ /\ Resolved("tts", {InHand("tts").lang})
          /\ UNCHANGED excused
       \/ /\ Resolved("tts", {})
          /\ Excuse("tts", {InHand("tts").lang})
    /\ UNCHANGED <<topic, faults>>

PublishText == \E l \in Languages : Publish("stt", l)
PublishTranslation == \E l \in Languages : Publish("translation", l)
PublishAudio == \E l \in Languages : Publish("tts", l)

-----------------------------------------------------------------------------
Handle(w) ==
    \/ w = "stt" /\ (Transcribe \/ PublishText)
    \/ w = "translation" /\ (PublishTranslation \/ \E l \in Languages : PassOver(l))
    \/ w = "translation" /\ \E present \in SUBSET Languages : ResolveTargets(present)
    \/ w = "tts" /\ (Synthesize \/ PublishAudio)

Work(w) == Take(w) \/ Handle(w) \/ Commit(w)

Fail(w) ==
    TakeStale(w) \/ HandleFails(w) \/ PublishFails(w) \/ CommitFails(w) \/ Restart(w)

Next ==
    \/ \E l \in Tongues : Say(l)
    \/ \E w \in WorkerNames : Work(w) \/ Fail(w)

Spec == Init /\ [][Next]_vars

-----------------------------------------------------------------------------
(* Properties.                                                             *)

\* The worker has published message m in language l (the STT worker: at all).
Published(w, m, l) ==
    \E j \in 1..Len(Output(w)) :
        Output(w)[j].chunk = m.chunk /\ (w = "stt" \/ Output(w)[j].lang = l)

\* It has published for message m what it was due to.
Answered(w, m) ==
    \A l \in Due(w, m) : <<m.chunk, l>> \in excused \/ Published(w, m, l)

\* A message is committed only when every language of the room has been
\* published for it or there was a reason not to: no failure between two
\* languages and no restart loses one.
CommittedIsAnswered ==
    \A w \in WorkerNames : \A i \in 1..worker[w].done : Answered(w, Input(w)[i])

\* Of a chunk there are frames only in languages that were listened to: none in
\* the language it was spoken in, unless it was transcribed more than once.
NoEcho ==
    faults = 0 =>
        \A i \in 1..Len(topic["text"]), j \in 1..Len(topic["synthesized"]) :
            topic["text"][i] # topic["synthesized"][j]

Spoken(k, l) ==
    \E j \in 1..Len(topic["synthesized"]) :
        topic["synthesized"][j] = [chunk |-> k, lang |-> l]

\* When the workers have nothing more to do, what was said has been spoken in
\* every language of the room, through retries and restarts, unless a worker
\* has found nothing to say or has given up.  (That they come to have nothing
\* more to do is EverySettled of KafkaConsumer.)
Idle == \A w \in WorkerNames : At(w, "poll") /\ worker[w].pos = Len(Input(w))
SpokenWhenIdle ==
    Idle => \A k \in 1..Len(topic["raw"]), l \in Languages :
                Spoken(k, l) \/ <<k, l>> \in excused

\* The workers implement what the audio sockets rely on.
Channel == INSTANCE SpeechChannel WITH
    said <- Len(topic["raw"]), spoken <- topic["synthesized"]
ImplementsChannel == Channel!Spec

-----------------------------------------------------------------------------
(* The inductive invariant.                                                *)

Busy(w) == worker[w].at \in {"handle", "publish"}

Bounds(w) ==
    /\ worker[w].done <= worker[w].pos
    /\ worker[w].pos <= Len(Input(w))
    /\ worker[w].at # "poll" => worker[w].done < worker[w].pos

\* Messages are of chunks that have been said.
Chunks ==
    /\ \A i \in 1..Len(topic["raw"]) : topic["raw"][i].chunk = i
    /\ \A t \in Topics : \A i \in 1..Len(topic[t]) :
        topic[t][i].chunk <= Len(topic["raw"])

\* What is being published: the text, in languages other than its own, or the
\* translation.
Task(w) ==
    At(w, "publish") =>
        /\ w = "stt" => \E l \in Languages : worker[w].todo = {l}
        /\ w = "translation" => InHand(w).lang \notin worker[w].todo
        /\ w = "tts" => worker[w].todo = {InHand(w).lang}

\* All that has been taken is answered, the message in hand in part.
Progress(w) ==
    /\ \A i \in 1..worker[w].pos :
        (i = worker[w].pos /\ Busy(w)) \/ Answered(w, Input(w)[i])
    /\ At(w, "publish") /\ w # "stt" =>
        \A l \in Due(w, InHand(w)) \ worker[w].todo :
            <<InHand(w).chunk, l>> \in excused \/ Published(w, InHand(w), l)

\* While nothing fails, every topic is in the order of the chunks, a chunk has
\* one text and a text one translation into each language but its own.
TextOrder ==
    LET text == topic["text"]
    IN /\ \A i, j \in 1..Len(text) : i < j => text[i].chunk < text[j].chunk
       /\ \A i \in 1..Len(text) :
           /\ text[i].chunk <= worker["stt"].pos
           /\ Busy("stt") => text[i].chunk < worker["stt"].pos

TranslationOrder ==
    LET text == topic["text"]
        translated == topic["translated"]
        at == worker["translation"].pos
    IN /\ \A i, j \in 1..Len(translated) : i < j =>
           translated[i].chunk <= translated[j].chunk /\ translated[i] # translated[j]
       /\ \A i \in 1..Len(translated) :
           /\ at > 0
           /\ translated[i].chunk <= text[at].chunk
           /\ At("translation", "handle") => translated[i].chunk < text[at].chunk
           /\ At("translation", "publish") =>
               \/ translated[i].chunk < text[at].chunk
               \/ translated[i].lang \notin worker["translation"].todo
       /\ \A i \in 1..Len(text), j \in 1..Len(translated) : text[i] # translated[j]

FrameOrder ==
    LET translated == topic["translated"]
        frames == topic["synthesized"]
    IN /\ \A i, j \in 1..Len(frames) : i < j =>
           frames[i].chunk <= frames[j].chunk /\ frames[i] # frames[j]
       /\ \A i \in 1..Len(frames) : \E j \in 1..worker["tts"].pos :
           /\ frames[i] = translated[j]
           /\ Busy("tts") => j < worker["tts"].pos

IInv ==
    /\ TypeOK
    /\ Chunks
    /\ \A w \in WorkerNames : Bounds(w) /\ Task(w) /\ Progress(w)
    /\ faults = 0 => TextOrder /\ TranslationOrder /\ FrameOrder
=============================================================================
