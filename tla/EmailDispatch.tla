---------------------------- MODULE EmailDispatch ----------------------------
(***************************************************************************)
(* Invitations by e-mail, from the request to the provider:                *)
(* invite_participants of app/modules/meeting/service.py publishes one     *)
(* event per address to notifications.email (services/email_producer.py),  *)
(* and EmailConsumerWorker (services/email_consumer.py) sends them through *)
(* Mailgun.  Both live in the process of module KafkaLifecycle, whose      *)
(* starts, shutdowns and crashes come in between; the database and the     *)
(* broker outlive it.                                                      *)
(*                                                                         *)
(* An invitation is named by its row.  The events are valid and their      *)
(* templates exist, so that every one has a body to send.                  *)
(***************************************************************************)
EXTENDS KafkaLifecycle, Sequences

CONSTANTS
    Requests,       \* the requests that are ever made
    MaxEmails,      \* addresses in one request
    MaxMails,       \* bound on the events
    MaxRetries      \* settings.KAFKA_MAX_RETRIES

ASSUME EmailAssumption ==
    /\ MaxEmails \in Nat
    /\ MaxMails \in Nat
    /\ MaxRetries \in Nat

VARIABLES
    configured,     \* Mailgun's credentials are set
    request,        \* the requests
    rows,           \* the number of rows of meeting_invitations
    mails,          \* notifications.email: the invitation of every event
    committed,      \* the group's committed offset
    worker,         \* the loop of the e-mail consumer
    fate            \* history: what has become of every event

email == <<configured, request, rows, mails, committed, worker, fate>>
vars == <<lifecycle, email>>

-----------------------------------------------------------------------------
Offsets == 1..MaxMails
Fates == {"sent", "skipped", "rejected", "deadLettered", "lost"}

\* Not made yet; before the row of the next address; awaiting producer.send for
\* it; answered; without an answer that says what was sent.
RequestPlaces == {"idle", "insert", "send", "answered", "error"}

\* `left`: addresses not dealt with.  `token`: the invitation in hand.
\* `tokens`: all of the request.  `sent`, `failed`: what the answer says.
Request == [at: RequestPlaces, left: Nat, token: Nat,
            tokens: SUBSET Nat, sent: SUBSET Nat, failed: SUBSET Nat]

\* As in KafkaConsumer; `pos` is also the event in hand.
Worker == [at: {"poll", "handle", "deadLetter", "commit"}, pos: 0..MaxMails,
           tries: 0..MaxRetries]

TypeOK ==
    /\ LifecycleTypeOK
    /\ configured \in BOOLEAN
    /\ request \in [Requests -> Request]
    /\ rows \in Nat
    /\ mails \in Seq(Nat)
    /\ Len(mails) <= MaxMails
    /\ committed \in 0..MaxMails
    /\ worker \in Worker
    /\ fate \in [Offsets -> SUBSET Fates]

Unmade == [at |-> "idle", left |-> 0, token |-> 0, tokens |-> {}, sent |-> {}, failed |-> {}]

Init ==
    /\ LifecycleInit
    /\ configured \in BOOLEAN
    /\ request = [r \in Requests |-> Unmade]
    /\ rows = 0
    /\ mails = <<>>
    /\ committed = 0
    /\ worker = [at |-> "poll", pos |-> 0, tries |-> 0]
    /\ fate = [o \in Offsets |-> {}]

-----------------------------------------------------------------------------
(* invite_participants.                                                    *)

InFlight(r) == request[r].at \in {"insert", "send"}

\* The room exists and the caller is its host.
Invite(r, n) ==
    /\ at = "serving"
    /\ request[r].at = "idle"
    /\ request' = [request EXCEPT ![r].at = IF n = 0 THEN "answered" ELSE "insert",
                                  ![r].left = n]
    /\ UNCHANGED <<lifecycle, configured, rows, mails, committed, worker, fate>>

\* create_invitation commits the row.
Insert(r) ==
    /\ request[r].at = "insert"
    /\ rows' = rows + 1
    /\ request' = [request EXCEPT ![r].at = "send", ![r].token = rows',
                                  ![r].tokens = @ \cup {rows'}]
    /\ UNCHANGED <<lifecycle, configured, mails, committed, worker, fate>>

\* The database fails: error 500, whatever was sent before.
InsertFails(r) ==
    /\ request[r].at = "insert"
    /\ Fault
    /\ request' = [request EXCEPT ![r].at = "error"]
    /\ UNCHANGED <<at, turn, memory, boots, configured, rows, mails, committed, worker, fate>>

\* The address in hand is dealt with.
NextAddress(r) ==
    [request[r] EXCEPT !.at = IF request[r].left > 1 THEN "insert" ELSE "answered", !.left = @ - 1]

Sent(r) == [NextAddress(r) EXCEPT !.sent = @ \cup {request[r].token}]
Failed(r) == [NextAddress(r) EXCEPT !.failed = @ \cup {request[r].token}]
Queued(r) == Append(mails, request[r].token)
HasRoom == Len(mails) < MaxMails

\* send_and_wait returns: every replica has the event (acks = all).
Queue(r) ==
    /\ request[r].at = "send"
    /\ producer = "started"
    /\ HasRoom
    /\ mails' = Queued(r)
    /\ request' = [request EXCEPT ![r] = Sent(r)]
    /\ UNCHANGED <<lifecycle, configured, rows, committed, worker, fate>>

\* Mutant: the failure is logged and counted as sent.
NotQueuedCounted(r) ==
    /\ request[r].at = "send"
    /\ producer # "started"
    /\ request' = [request EXCEPT ![r] = Sent(r)]
    /\ UNCHANGED <<lifecycle, configured, rows, mails, committed, worker, fate>>

\* KafkaPublishError: the producer never started.
NotQueued(r) ==
    /\ request[r].at = "send"
    /\ producer # "started"
    /\ request' = [request EXCEPT ![r] = Failed(r)]
    /\ UNCHANGED <<lifecycle, configured, rows, mails, committed, worker, fate>>

\* The send fails: the event may have been written all the same.
QueueFails(r) ==
    /\ request[r].at = "send"
    /\ producer = "started"
    /\ HasRoom
    /\ Fault
    /\ mails' \in {mails, Queued(r)}
    /\ request' = [request EXCEPT ![r] = Failed(r)]
    /\ UNCHANGED <<at, turn, memory, boots, configured, rows, committed, worker, fate>>

-----------------------------------------------------------------------------
(* The loop of the e-mail consumer, the first of the list.                 *)

Working(place) == Alive(1) /\ worker.at = place
WorkerGoto(place) == worker' = [worker EXCEPT !.at = place]
Becomes(what) == fate' = [fate EXCEPT ![worker.pos] = @ \cup {what}]
Rest == <<configured, request, rows, mails>>

Take ==
    /\ Working("poll")
    /\ worker.pos < Len(mails)
    /\ worker' = [at |-> "handle", pos |-> worker.pos + 1, tries |-> 0]
    /\ UNCHANGED <<lifecycle, Rest, committed, fate>>

\* handle() returns: Mailgun has the mail, or refuses it for good (4xx), or
\* there are no credentials.
Handled == IF configured THEN {"sent", "rejected"} ELSE {"skipped"}

Handle ==
    /\ Working("handle")
    /\ \E what \in Handled : Becomes(what)
    /\ WorkerGoto("commit")
    /\ UNCHANGED <<lifecycle, Rest, committed>>

\* Mutant: after the last attempt the event is dropped.
HandleFailsDropped ==
    /\ Working("handle")
    /\ configured
    /\ worker' = IF worker.tries < MaxRetries
                   THEN [worker EXCEPT !.tries = @ + 1]
                   ELSE [worker EXCEPT !.at = "commit"]
    /\ UNCHANGED <<lifecycle, Rest, committed, fate>>

\* Mutant: after the last attempt the attempts begin again.
HandleFailsForever ==
    /\ Working("handle")
    /\ configured
    /\ worker' = [worker EXCEPT !.tries = IF @ < MaxRetries THEN @ + 1 ELSE 0]
    /\ UNCHANGED <<lifecycle, Rest, committed, fate>>

\* A transient answer (408, 425, 429, 5xx) or none in time: a retry after the
\* backoff, or the dead-letter queue.  Mailgun may have the mail.
HandleFails ==
    /\ Working("handle")
    /\ configured
    /\ worker' = IF worker.tries < MaxRetries
                   THEN [worker EXCEPT !.tries = @ + 1]
                   ELSE [worker EXCEPT !.at = "deadLetter"]
    /\ Becomes("sent") \/ UNCHANGED fate
    /\ UNCHANGED <<lifecycle, Rest, committed>>

DeadLetter ==
    /\ Working("deadLetter")
    /\ producer = "started"
    /\ Becomes("deadLettered")
    /\ WorkerGoto("commit")
    /\ UNCHANGED <<lifecycle, Rest, committed>>

\* The send fails, or there is no producer: swallowed.
DeadLetterLost ==
    /\ Working("deadLetter")
    /\ IF producer = "started" THEN Fault ELSE UNCHANGED faults
    /\ Becomes("lost")
    /\ WorkerGoto("commit")
    /\ UNCHANGED <<at, turn, memory, boots, Rest, committed>>

Commit ==
    /\ Working("commit")
    /\ committed' = worker.pos
    /\ WorkerGoto("poll")
    /\ UNCHANGED <<lifecycle, Rest, fate>>

CommitFails ==
    /\ Working("commit")
    /\ Fault
    /\ WorkerGoto("poll")
    /\ UNCHANGED <<at, turn, memory, boots, Rest, committed, fate>>

-----------------------------------------------------------------------------
(* The lifespan around them.                                               *)

\* A new loop begins behind the committed offset (auto_offset_reset = earliest).
Begins == committed'

\* What the call that the loop was cancelled in may have done.
Interrupted ==
    \/ UNCHANGED <<committed, fate>>
    \/ worker.at = "handle" /\ configured /\ Becomes("sent") /\ UNCHANGED committed
    \/ worker.at = "deadLetter" /\ Becomes("deadLettered") /\ UNCHANGED committed
    \/ worker.at = "commit" /\ committed' = worker.pos /\ UNCHANGED fate

WorkerAlong ==
    /\ IF Alive(1) /\ ~Alive(1)' THEN Interrupted ELSE UNCHANGED <<committed, fate>>
    /\ worker' = IF Alive(1) = Alive(1)' THEN worker
                 ELSE [at |-> "poll", pos |-> Begins, tries |-> 0]

\* A process that dies answers nobody.
RequestsAlong ==
    request' = [r \in Requests |->
        IF InFlight(r) /\ ~Up' THEN [request[r] EXCEPT !.at = "error"] ELSE request[r]]

\* The server ends the requests before the lifespan; the loop raises where it
\* awaits the client, everything else in it is caught.
LifecycleStep ==
    /\ \/ Proceed \/ TopicsFail \/ ProducerFails \/ ConsumerFails \/ StopFails \/ Crash
       \/ Shutdown /\ \A r \in Requests : ~InFlight(r)
       \/ \E c \in Consumers : LoopFails(c) /\ (c = 1 => worker.at = "poll")
    /\ WorkerAlong
    /\ RequestsAlong
    /\ UNCHANGED <<configured, rows, mails>>

InviteStep(r) ==
    \/ \E n \in 0..MaxEmails : Invite(r, n)
    \/ Insert(r) \/ InsertFails(r) \/ Queue(r) \/ NotQueued(r) \/ QueueFails(r)

Work == Take \/ Handle \/ HandleFails \/ DeadLetter \/ DeadLetterLost \/ Commit

Next ==
    \/ LifecycleStep
    \/ \E r \in Requests : InviteStep(r)
    \/ Work \/ CommitFails

Spec == Init /\ [][Next]_vars

\* The container restarts, Kafka answers and the event loop serves what is
\* ready.  Nobody has to invite, and no process has to end.
FairSpec ==
    /\ Spec
    /\ WF_vars(LifecycleStep /\ Proceed)
    /\ WF_vars(Work)
    /\ \A r \in Requests : WF_vars(Queue(r) \/ Insert(r))

-----------------------------------------------------------------------------
(* Properties.                                                             *)

Settled == {o \in Offsets : fate[o] # {}}

\* No event names the invitation.
Unwritten(t) == \A o \in 1..Len(mails) : mails[o] # t

\* The answer to the host is true: every address is told as sent or as failed
\* and not as both, all have a row that their link can name, and what is told
\* as sent is in the topic, whatever has failed and restarted since.  What is
\* told as failed is in no event, unless a call failed: a send that raises may
\* have written the event.
AnswersAreTrue ==
    \A r \in Requests :
        /\ request[r].at = "answered" => request[r].sent \cup request[r].failed = request[r].tokens
        /\ request[r].sent \cap request[r].failed = {}
        /\ request[r].tokens \subseteq 1..rows
        /\ \A t \in request[r].sent : \E o \in 1..Len(mails) : mails[o] = t
        /\ faults = 0 => \A t \in request[r].failed : Unwritten(t)

\* Without a failing call no mail is lost: a loop that dead-letters always has
\* the producer, also while the process starts and shuts down.
NothingLost == faults = 0 => \A o \in Offsets : "lost" \notin fate[o]

\* The mails are dealt with in turn and the group never claims more, through
\* every restart of the process: the worker is an ordered log.
Log == INSTANCE OrderedLog WITH LastOffset <- MaxMails, done <- Settled, mark <- committed
ImplementsOrderedLog == Log!Spec

\* Every mail in the topic is dealt with in the end, unless from some time on
\* no process runs the loop.
MailsAreSettled ==
    \A o \in Offsets : [](o <= Len(mails) => <>(o \in Settled \/ []~Alive(1)))

-----------------------------------------------------------------------------
(* The inductive invariant.                                                *)

\* What a request has in hand is neither told nor sent yet.
RequestInv(r) ==
    LET q == request[r] IN
    /\ q.tokens \subseteq 1..rows
    /\ q.sent \cap q.failed = {}
    /\ q.sent \cup q.failed \subseteq q.tokens
    /\ q.at # "error" => q.tokens = q.sent \cup q.failed \cup (IF q.at = "send" THEN {q.token} ELSE {})
    /\ q.at = "send" => q.token \in 1..rows /\ q.token \notin q.sent \cup q.failed
    /\ \A t \in q.sent : \E o \in 1..Len(mails) : mails[o] = t
    /\ InFlight(r) => Up /\ q.left > 0

\* What the loop has got past is settled, but for the mail in hand.
WorkerInv ==
    /\ worker.pos <= Len(mails)
    /\ \A o \in Offsets : o <= committed => o \in Settled
    /\ \A o, p \in Offsets : o \in Settled /\ p < o => p \in Settled
    /\ committed <= worker.pos
    /\ worker.at \in {"handle", "deadLetter"} => worker.pos > 0
    /\ \A o \in Offsets : o <= worker.pos =>
        o \in Settled \/ (o = worker.pos /\ worker.at \in {"handle", "deadLetter"})

IInv ==
    /\ TypeOK
    /\ LifecycleInv
    /\ \A r \in Requests : RequestInv(r)
    /\ WorkerInv
    /\ NothingLost

\* The events name invitations that have a row; what is in hand or was told as
\* failed, and belongs to one request, is in none of them.
TruthInv ==
    /\ \A o \in 1..Len(mails) : mails[o] \in 1..rows
    /\ \A q, r \in Requests : q # r => request[q].tokens \cap request[r].tokens = {}
    /\ \A r \in Requests : request[r].at = "send" => Unwritten(request[r].token)
    /\ faults = 0 => \A r \in Requests : \A t \in request[r].failed : Unwritten(t)
=============================================================================
