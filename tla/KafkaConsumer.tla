--------------------------- MODULE KafkaConsumer ---------------------------
(***************************************************************************)
(* BaseConsumer of app/kafka/consumer.py: the loop that every worker       *)
(* (email, STT, translation, TTS) runs over one topic, with its retries,   *)
(* its dead-letter queue and its manual commits.                           *)
(*                                                                         *)
(* A topic has one partition (KafkaManager._init_topics), so it is an      *)
(* immutable log of the offsets 1..LastOffset.  Each server process runs   *)
(* one instance of the consumer in the same group; the group coordinator   *)
(* gives the partition to one of them.  The client library (position,      *)
(* fencing of a former owner's commits) and the coordinator are external   *)
(* and modelled as the code uses them.                                     *)
(***************************************************************************)
EXTENDS Naturals, FiniteSets

CONSTANTS
    Instances,      \* the processes that run the consumer
    LastOffset,     \* length of the log
    Kinds,          \* the kinds of messages that occur in the log
    MaxRetries,     \* settings.KAFKA_MAX_RETRIES
    MaxAge,         \* TRUE when the worker sets max_message_age_ms
    MaxFaults,      \* bound on crashes, rebalances and failing commits
    None            \* no instance

AllKinds == {"valid", "invalid", "garbage"}
Offsets == 1..LastOffset

ASSUME ConsumerAssumption ==
    /\ LastOffset \in Nat
    /\ MaxRetries \in Nat
    /\ MaxFaults \in Nat
    /\ MaxAge \in BOOLEAN
    /\ Kinds \subseteq AllKinds
    /\ None \notin Instances

VARIABLES
    kind,        \* of every message: an event, JSON that is no event, or no JSON
    old,         \* the messages older than max_message_age_ms
    committed,   \* the group's committed offset: the last offset done with
    owner,       \* the instance the coordinator counts as the partition's owner
    inst,        \* the instances
    fate,        \* history: what has become of every message
    repeated,    \* history: the messages something became of more than once
    faults       \* the number of faults so far

log == <<kind, old>>
vars == <<kind, old, committed, owner, inst, fate, repeated, faults>>

-----------------------------------------------------------------------------
Fates == {"handled", "deadLettered", "lost", "stale", "rejected"}

\* Where the loop of an instance stands: not running; awaiting a message;
\* in handle() or the sleep before a retry; sending to the dead-letter topic;
\* awaiting the commit of a message done with, or of a stale one; ended by an
\* exception.
Places == {"down", "poll", "handle", "deadLetter", "commit", "commitStale", "ended"}

\* `mine`: the instance believes the partition is its own.  `pos`: the last
\* offset the client has delivered under that assignment.  `cur`: the message
\* in hand.  `tries`: the attempts of it that have failed.
Instance == [at: Places, mine: BOOLEAN, pos: 0..LastOffset, cur: 0..LastOffset,
             tries: 0..MaxRetries]
Down == [at |-> "down", mine |-> FALSE, pos |-> 0, cur |-> 0, tries |-> 0]

TypeOK ==
    /\ kind \in [Offsets -> Kinds]
    /\ old \subseteq Offsets
    /\ committed \in 0..LastOffset
    /\ owner \in Instances \cup {None}
    /\ inst \in [Instances -> Instance]
    /\ fate \in [Offsets -> SUBSET Fates]
    /\ repeated \subseteq Offsets
    /\ faults \in 0..MaxFaults

-----------------------------------------------------------------------------
At(i, place) == inst[i].at = place
Goto(i, place) == inst' = [inst EXCEPT ![i].at = place]

\* Something becomes of message o.
Settle(o, what) ==
    /\ fate' = [fate EXCEPT ![o] = @ \cup {what}]
    /\ repeated' = IF fate[o] = {} THEN repeated ELSE repeated \cup {o}

Fault == faults < MaxFaults /\ faults' = faults + 1

\* Where a new assignment starts: after the committed offset, and at the
\* beginning when there is none (auto_offset_reset = earliest).
StartPosition == committed

Init ==
    /\ kind \in [Offsets -> Kinds]
    /\ old = {}
    /\ committed = 0
    /\ owner = None
    /\ inst = [i \in Instances |-> Down]
    /\ fate = [o \in Offsets |-> {}]
    /\ repeated = {}
    /\ faults = 0

-----------------------------------------------------------------------------
(* The process and the group.                                              *)

\* start(): the process comes up and joins the group.
Start(i) ==
    /\ At(i, "down")
    /\ Goto(i, "poll")
    /\ UNCHANGED <<log, committed, owner, fate, repeated, faults>>

\* stop() cancels the loop wherever it stands (CancelledError passes every
\* `except Exception`); a crash ends it as well.  The coordinator takes the
\* partition back, after a stop at once, after a crash by a session timeout.
Halt(i) ==
    /\ ~At(i, "down")
    /\ Fault
    /\ inst' = [inst EXCEPT ![i] = Down]
    /\ owner' = IF owner = i THEN None ELSE owner
    /\ UNCHANGED <<log, committed, fate, repeated>>

\* The coordinator gives the partition to a member.
Give(i) ==
    /\ ~At(i, "down")
    /\ owner' = i
    /\ inst' = [inst EXCEPT ![i].mine = TRUE, ![i].pos = StartPosition]
    /\ UNCHANGED <<log, committed, fate, repeated>>

Assign(i) == owner = None /\ Give(i) /\ UNCHANGED faults

\* A member joins or its heartbeat is late: the partition moves to another
\* member.  The former owner keeps the message in hand.
Rebalance(i) == owner \notin {None, i} /\ Fault /\ Give(i)

\* A former owner learns that it has lost the partition.
Revoke(i) ==
    /\ inst[i].mine
    /\ owner # i
    /\ inst' = [inst EXCEPT ![i].mine = FALSE]
    /\ UNCHANGED <<log, committed, owner, fate, repeated, faults>>

\* Time passes.
GrowOld(o) ==
    /\ MaxAge
    /\ o \notin old
    /\ old' = old \cup {o}
    /\ UNCHANGED <<kind, committed, owner, inst, fate, repeated, faults>>

-----------------------------------------------------------------------------
(* _consume_loop.                                                          *)

\* `async for msg`: the next message that the deserializer accepts.
Deliver(i, place) ==
    inst' = [inst EXCEPT ![i].at = place, ![i].pos = @ + 1,
                         ![i].cur = inst[i].pos + 1, ![i].tries = 0]

\* Mutant: the client commits what it delivers (enable_auto_commit).
ReceiveAutoCommit(i) ==
    /\ At(i, "poll")
    /\ inst[i].mine
    /\ inst[i].pos < LastOffset
    /\ kind[inst[i].pos + 1] = "valid"
    /\ Deliver(i, "handle")
    /\ committed' = IF owner = i THEN inst[i].pos + 1 ELSE committed
    /\ UNCHANGED <<log, owner, fate, repeated, faults>>

\* A fresh event goes to handle().
Receive(i) ==
    /\ At(i, "poll")
    /\ inst[i].mine
    /\ inst[i].pos < LastOffset
    /\ kind[inst[i].pos + 1] = "valid"
    /\ inst[i].pos + 1 \notin old
    /\ Deliver(i, "handle")
    /\ UNCHANGED <<log, committed, owner, fate, repeated, faults>>

\* The staleness guard comes before the validation.
ReceiveStale(i) ==
    /\ At(i, "poll")
    /\ inst[i].mine
    /\ inst[i].pos < LastOffset
    /\ kind[inst[i].pos + 1] # "garbage"
    /\ inst[i].pos + 1 \in old
    /\ Deliver(i, "commitStale")
    /\ Settle(inst[i].pos + 1, "stale")
    /\ UNCHANGED <<log, committed, owner, faults>>

\* Mutant: the validation stands outside the inner try.
ReceiveInvalidEnds(i) ==
    /\ At(i, "poll")
    /\ inst[i].mine
    /\ inst[i].pos < LastOffset
    /\ kind[inst[i].pos + 1] = "invalid"
    /\ inst[i].pos + 1 \notin old
    /\ Goto(i, "ended")
    /\ UNCHANGED <<log, committed, owner, fate, repeated, faults>>

\* model_validate raises: logged, not committed, and the loop goes on.
ReceiveInvalid(i) ==
    /\ At(i, "poll")
    /\ inst[i].mine
    /\ inst[i].pos < LastOffset
    /\ kind[inst[i].pos + 1] = "invalid"
    /\ inst[i].pos + 1 \notin old
    /\ Deliver(i, "poll")
    /\ Settle(inst[i].pos + 1, "rejected")
    /\ UNCHANGED <<log, committed, owner, faults>>

\* value_deserializer raises inside the `async for`: the outer handler logs
\* it and the loop is over, with _running still TRUE and the membership alive.
ReceiveGarbage(i) ==
    /\ At(i, "poll")
    /\ inst[i].mine
    /\ inst[i].pos < LastOffset
    /\ kind[inst[i].pos + 1] = "garbage"
    /\ Goto(i, "ended")
    /\ UNCHANGED <<log, committed, owner, fate, repeated, faults>>

-----------------------------------------------------------------------------
(* _process_with_retry and _send_to_dlq.                                   *)

\* Mutant: no return after a successful attempt.
HandleNoReturn(i) ==
    /\ At(i, "handle")
    /\ Settle(inst[i].cur, "handled")
    /\ inst' = IF inst[i].tries < MaxRetries
                 THEN [inst EXCEPT ![i].tries = @ + 1]
                 ELSE [inst EXCEPT ![i].at = "commit"]
    /\ UNCHANGED <<log, committed, owner, faults>>

Handle(i) ==
    /\ At(i, "handle")
    /\ Settle(inst[i].cur, "handled")
    /\ Goto(i, "commit")
    /\ UNCHANGED <<log, committed, owner, faults>>

HandleFails(i) ==
    /\ At(i, "handle")
    /\ inst' = IF inst[i].tries < MaxRetries
                 THEN [inst EXCEPT ![i].tries = @ + 1]
                 ELSE [inst EXCEPT ![i].at = "deadLetter"]
    /\ UNCHANGED <<log, committed, owner, fate, repeated, faults>>

\* The message and the error go to topic dlq.<topic>, which nothing consumes.
SendToDlq(i) ==
    /\ At(i, "deadLetter")
    /\ Settle(inst[i].cur, "deadLettered")
    /\ Goto(i, "commit")
    /\ UNCHANGED <<log, committed, owner, faults>>

\* The send raises: logged, swallowed, and the offset is committed.
SendToDlqFails(i) ==
    /\ At(i, "deadLetter")
    /\ Settle(inst[i].cur, "lost")
    /\ Goto(i, "commit")
    /\ UNCHANGED <<log, committed, owner, faults>>

-----------------------------------------------------------------------------
(* commit().                                                               *)

\* commit() without arguments commits the position of the assigned partition;
\* the coordinator ignores or refuses anyone who does not own it.
Commits(i) == IF owner = i THEN inst[i].pos ELSE committed

\* After a message done with: an exception is logged and the loop goes on.
Commit(i) ==
    /\ At(i, "commit")
    /\ committed' = Commits(i)
    /\ Goto(i, "poll")
    /\ UNCHANGED <<log, owner, fate, repeated, faults>>

\* (Commit is also what happens when only the broker's answer is lost.)
CommitFails(i) ==
    /\ At(i, "commit")
    /\ Fault
    /\ Goto(i, "poll")
    /\ UNCHANGED <<log, committed, owner, fate, repeated>>

\* After a stale message, outside the inner try: an exception ends the loop.
CommitStale(i) ==
    /\ At(i, "commitStale")
    /\ committed' = Commits(i)
    /\ Goto(i, "poll")
    /\ UNCHANGED <<log, owner, fate, repeated, faults>>

CommitStaleRefused(i) ==
    /\ At(i, "commitStale")
    /\ owner # i
    /\ Goto(i, "ended")
    /\ UNCHANGED <<log, committed, owner, fate, repeated, faults>>

\* The commit may have reached the broker all the same.
CommitStaleFails(i) ==
    /\ At(i, "commitStale")
    /\ Fault
    /\ committed' \in {committed, Commits(i)}
    /\ Goto(i, "ended")
    /\ UNCHANGED <<log, owner, fate, repeated>>

-----------------------------------------------------------------------------
\* What an instance does by itself.
Step(i) ==
    \/ Receive(i) \/ ReceiveStale(i) \/ ReceiveInvalid(i) \/ ReceiveGarbage(i)
    \/ Handle(i) \/ HandleFails(i)
    \/ SendToDlq(i) \/ SendToDlqFails(i)
    \/ Commit(i) \/ CommitStale(i) \/ CommitStaleRefused(i)

Disturb(i) == Halt(i) \/ Rebalance(i) \/ CommitFails(i) \/ CommitStaleFails(i)

Next ==
    \/ \E i \in Instances :
        Start(i) \/ Assign(i) \/ Revoke(i) \/ Step(i) \/ Disturb(i)
    \/ \E o \in Offsets : GrowOld(o)

Spec == Init /\ [][Next]_vars

\* A container that stops is started again (restart: always), the event loop
\* serves what is ready, and the coordinator hands a free partition to a member.
FairSpec ==
    /\ Spec
    /\ \A i \in Instances : WF_vars(Start(i)) /\ WF_vars(Step(i))
    /\ WF_vars(\E i \in Instances : Assign(i))

-----------------------------------------------------------------------------
(* Properties.                                                             *)

Settled == {o \in Offsets : fate[o] # {}}

\* No offset is committed before something has become of its message, whatever
\* rebalances, crashes and late commits of former owners come in between.
CommittedAreSettled == \A o \in Offsets : o <= committed => o \in Settled

\* Messages are settled in the order of the log, also across instances: a
\* message is never overtaken by a later one of its topic.
SettledInOrder ==
    \A o, p \in Offsets : o \in Settled /\ p < o => p \in Settled

\* A message is handled, dead-lettered or dropped twice only after a halt, a
\* rebalance or a failed commit; retries alone never repeat one.
OnceUnlessDisturbed == faults = 0 => repeated = {}

\* The group never moves back, so what one instance has committed is not
\* delivered again to the next.
CommittedNeverBack == [][committed <= committed']_vars

\* Whatever happens to its instances, the group behaves as an ordered log:
\* each message in turn, the committed offset behind what is settled.
Log == INSTANCE OrderedLog WITH done <- Settled, mark <- committed
ImplementsOrderedLog == Log!Spec

\* Every message of the topic is settled in the end, however handle() and the
\* dead-letter topic fail, when faults cease.
EverySettled == \A o \in Offsets : <>(o \in Settled)

\* The partition is with an instance whose loop has ended, which only a message
\* that is no JSON and the failed commit of a stale one bring about.
Stalled ==
    \E i \in Instances :
        /\ owner = i
        /\ At(i, "ended")
        /\ inst[i].cur \in old \/ \E o \in Offsets : kind[o] = "garbage"

\* A message waits for ever behind such a loop only: no retry, no message that
\* is no event, no dead-letter topic, and neither crashes, rebalances nor failed
\* commits, when they cease, keep the group from getting through its topic.
SettledUnlessStalled ==
    (\A o \in Offsets : <>(o \in Settled)) \/ <>[]Stalled

\* What an instance has got past is settled but for the message in hand, and
\* everything before that message is.
InstanceInv(i) ==
    LET w == inst[i] IN
    /\ \A o \in Offsets :
        o <= w.pos => o \in Settled \/ (o = w.cur /\ w.at \in {"handle", "deadLetter"})
    /\ w.at \in {"handle", "deadLetter"} =>
        /\ w.cur \in Offsets
        /\ \A o \in Offsets : o < w.cur => o \in Settled
    /\ owner = i => committed <= w.pos

IInv ==
    /\ TypeOK
    /\ CommittedAreSettled
    /\ SettledInOrder
    /\ \A i \in Instances : InstanceInv(i)
=============================================================================
