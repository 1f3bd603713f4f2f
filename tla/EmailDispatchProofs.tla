------------------------- MODULE EmailDispatchProofs -------------------------
(* Theorems about EmailDispatch, for every number of consumers, requests,  *)
(* addresses, retries, starts and faults.                                  *)
EXTENDS EmailDispatch, KafkaLifecycleProofs

-----------------------------------------------------------------------------
(* What a step does to the parts of the state.                             *)

\* A step other than LifecycleStep leaves the lifespan where it is and at most
\* counts a fault.
Beside == UNCHANGED <<at, turn, memory, boots>> /\ (Fault \/ UNCHANGED faults)

\* The topic and the table only grow.
Grows ==
    /\ rows' \in Nat /\ rows <= rows'
    /\ mails' \in Seq(Nat) /\ Len(mails) <= Len(mails') /\ Len(mails') <= MaxMails
    /\ \A i \in 1..Len(mails) : mails'[i] = mails[i]

\* The steps of the requests and of the loop.
RequestStep(r) ==
    \/ \E n \in 0..MaxEmails : Invite(r, n)
    \/ Insert(r) \/ InsertFails(r) \/ Queue(r) \/ NotQueued(r) \/ QueueFails(r)
LoopStep == Work \/ CommitFails

LEMMA BesideAlive ==
    ASSUME Beside
    PROVE  /\ at' = at /\ producer' = producer /\ Up' = Up
           /\ \A c \in Consumers : Alive(c)' = Alive(c)
           /\ faults' # 0 \/ faults' = faults \/ faults \notin Nat
BY DEF Beside, Fault, memory, Alive, Up

\* The steps of the requests and of the loop run beside the lifespan.
LEMMA StepsBeside ==
    ASSUME IInv, (\E r \in Requests : RequestStep(r)) \/ LoopStep
    PROVE  Beside
<1>1. ASSUME NEW r \in Requests, RequestStep(r) PROVE Beside
  BY <1>1 DEF RequestStep, Invite, Insert, InsertFails, Queue, NotQueued, QueueFails, Beside, lifecycle
<1>2. CASE LoopStep
  <2>1. CASE DeadLetterLost
    BY <2>1 DEF DeadLetterLost, Beside
  <2> QED
    BY <1>2, <2>1
       DEF LoopStep, Work, Take, Handle, HandleFails, DeadLetter, Commit, CommitFails, Beside, lifecycle
<1> QED
  BY <1>1, <1>2

\* The lifespan keeps its invariant whatever runs beside it.
LEMMA LifecycleKept ==
    ASSUME IInv, [Next]_vars
    PROVE  LifecycleInv'
<1>1. LifecycleInv
  BY DEF IInv
<1>2. CASE LifecycleStep
  BY <1>1, <1>2, LifecycleKeeps DEF LifecycleStep, LifecycleNext
<1>3. CASE (\E r \in Requests : RequestStep(r)) \/ LoopStep
  BY <1>1, <1>3, StepsBeside, FaultKeeps DEF Beside
<1>4. CASE UNCHANGED vars
  BY <1>1, <1>4, FaultKeeps DEF vars, lifecycle
<1> QED
  BY <1>2, <1>3, <1>4 DEF Next, InviteStep, RequestStep, LoopStep

-----------------------------------------------------------------------------
(* Requests.                                                               *)

\* The fields of the request in hand.
LEMMA RequestFields ==
    ASSUME TypeOK, NEW r \in Requests
    PROVE  /\ request[r] \in Request
           /\ request[r].left \in Nat /\ request[r].token \in Nat
           /\ request[r].tokens \in SUBSET Nat
           /\ request[r].sent \in SUBSET Nat /\ request[r].failed \in SUBSET Nat
BY DEF TypeOK, Request

\* What is told as sent stays in the topic.
LEMMA SentStays ==
    ASSUME TypeOK, Grows, NEW q \in Requests, RequestInv(q)
    PROVE  \A t \in request[q].sent : \E o \in 1..Len(mails') : mails'[o] = t
<1>1. Len(mails) \in Nat /\ Len(mails') \in Nat /\ Len(mails) <= Len(mails')
  BY DEF TypeOK, Grows
<1> SUFFICES ASSUME NEW t \in request[q].sent PROVE \E o \in 1..Len(mails') : mails'[o] = t
  OBVIOUS
<1>2. PICK o \in 1..Len(mails) : mails[o] = t
  BY DEF RequestInv
<1>3. o \in 1..Len(mails') /\ mails'[o] = t
  BY <1>1, <1>2 DEF Grows
<1> QED
  BY <1>3

\* A request that is not touched keeps what is said of it.
LEMMA RequestKept ==
    ASSUME TypeOK, Grows, NEW q \in Requests, RequestInv(q),
           request'[q] = request[q], InFlight(q) => Up'
    PROVE  RequestInv(q)'
<1>1. /\ rows \in Nat /\ mails \in Seq(Nat) /\ Len(mails) \in Nat /\ Len(mails') \in Nat
      /\ request[q].left \in Nat
  BY RequestFields DEF TypeOK, Grows
<1>2. \A t \in request[q].sent : \E o \in 1..Len(mails') : mails'[o] = t
  BY SentStays
<1>3. 1..rows \subseteq 1..rows'
  BY <1>1 DEF Grows
<1> QED
  BY <1>1, <1>2, <1>3 DEF RequestInv, InFlight

\* A step of a request keeps the types, and what is said of every request.
LEMMA RequestKeeps ==
    ASSUME IInv, NEW r \in Requests, RequestStep(r)
    PROVE  /\ Grows /\ request' \in [Requests -> Request]
           /\ \A q \in Requests : RequestInv(q)'
           /\ UNCHANGED <<configured, committed, worker, fate>>
<1>0. /\ TypeOK /\ RequestInv(r) /\ Up' = Up /\ at' = at
      /\ rows \in Nat /\ mails \in Seq(Nat) /\ Len(mails) <= MaxMails /\ Len(mails) \in Nat
      /\ request \in [Requests -> Request]
      /\ request[r].left \in Nat /\ request[r].token \in Nat
      /\ request[r].tokens \in SUBSET Nat
      /\ request[r].sent \in SUBSET Nat /\ request[r].failed \in SUBSET Nat
  BY StepsBeside, BesideAlive, RequestFields DEF IInv, TypeOK
<1> DEFINE new == request'[r]
           Good == /\ Grows
                   /\ request' = [request EXCEPT ![r] = new]
                   /\ new \in Request
                   /\ RequestInv(r)'
                   /\ UNCHANGED <<configured, committed, worker, fate>>
<1>11. /\ Queued(r) \in Seq(Nat) /\ Len(Queued(r)) = Len(mails) + 1
       /\ \A i \in 1..Len(mails) : Queued(r)[i] = mails[i]
       /\ Queued(r)[Len(mails) + 1] = request[r].token
  BY <1>0 DEF Queued
<1>10. UNCHANGED <<rows, mails>> => Grows
  BY <1>0 DEF Grows
<1>1. ASSUME NEW n \in 0..MaxEmails, Invite(r, n) PROVE Good
  <2>1. /\ n \in Nat /\ request[r].at = "idle" /\ Up
        /\ request' = [request EXCEPT ![r].at = IF n = 0 THEN "answered" ELSE "insert",
                                      ![r].left = n]
        /\ UNCHANGED <<rows, mails, configured, committed, worker, fate>>
    BY <1>1, EmailAssumption DEF Invite, Up
  <2>2. /\ new.at = IF n = 0 THEN "answered" ELSE "insert"
        /\ new.left = n /\ new.token = request[r].token /\ new.tokens = request[r].tokens
        /\ new.sent = request[r].sent /\ new.failed = request[r].failed
        /\ new \in Request /\ request' = [request EXCEPT ![r] = new]
    BY <1>0, <2>1 DEF Request, RequestPlaces
  <2>3. RequestInv(r)'
    BY <1>0, <2>1, <2>2 DEF RequestInv, InFlight
  <2> QED
    BY <1>10, <2>1, <2>2, <2>3
<1>2. ASSUME Insert(r) PROVE Good
  <2>1. rows' = rows + 1 /\ mails' = mails /\ rows' \in Nat
    BY <1>0, <1>2 DEF Insert
  <2>2. /\ new = [request[r] EXCEPT !.at = "send", !.token = rows', !.tokens = @ \cup {rows'}]
        /\ request' = [request EXCEPT ![r] = new]
    BY <1>0, <1>2 DEF Insert
  <2>3. /\ new \in Request /\ new.at = "send" /\ new.left = request[r].left
        /\ new.token = rows' /\ new.tokens = request[r].tokens \cup {rows'}
        /\ new.sent = request[r].sent /\ new.failed = request[r].failed
    <3>1. request[r] \in Request
      BY <1>0
    <3>2. request[r].tokens \cup {rows'} \in SUBSET Nat
      BY <1>0, <2>1
    <3> HIDE DEF new
    <3> QED
      BY <2>1, <2>2, <3>1, <3>2 DEF Request, RequestPlaces
  <2>4. request[r].at = "insert" /\ rows' \notin request[r].tokens
    BY <1>0, <1>2, <2>1 DEF Insert, RequestInv
  <2>5. Grows
    BY <1>0, <2>1 DEF Grows
  <2>6. new.tokens \subseteq 1..rows' /\ rows' \in 1..rows'
    BY <1>0, <2>1, <2>3 DEF RequestInv
  <2>7. new.left > 0
    BY <1>0, <2>3, <2>4 DEF RequestInv, InFlight
  <2>8. RequestInv(r)'
    BY <1>0, <2>1, <2>3, <2>4, <2>5, <2>6, <2>7, SentStays DEF RequestInv, InFlight
  <2>9. UNCHANGED <<configured, committed, worker, fate>>
    BY <1>2 DEF Insert
  <2> HIDE DEF new
  <2> QED
    BY <2>2, <2>3, <2>5, <2>8, <2>9
<1>3. ASSUME InsertFails(r) PROVE Good
  <2>1. /\ request' = [request EXCEPT ![r].at = "error"]
        /\ UNCHANGED <<rows, mails, configured, committed, worker, fate>>
    BY <1>3 DEF InsertFails
  <2>2. /\ new.at = "error" /\ new.left = request[r].left /\ new.tokens = request[r].tokens
        /\ new.sent = request[r].sent /\ new.failed = request[r].failed
        /\ new \in Request /\ request' = [request EXCEPT ![r] = new]
    BY <1>0, <2>1 DEF Request, RequestPlaces
  <2>3. RequestInv(r)'
    BY <1>0, <1>10, <2>1, <2>2, SentStays DEF RequestInv, InFlight
  <2> HIDE DEF new
  <2> QED
    BY <1>10, <2>1, <2>2, <2>3
<1>4. ASSUME NEW told \in {"sent", "failed"}, request[r].at = "send",
             mails' \in {mails, Queued(r)}, Len(mails') <= MaxMails,
             told = "sent" => mails' = Queued(r),
             request' = [request EXCEPT ![r] = IF told = "sent" THEN Sent(r) ELSE Failed(r)],
             UNCHANGED <<rows, configured, committed, worker, fate>>
      PROVE  Good
  <2>1. /\ mails' \in Seq(Nat) /\ Len(mails) <= Len(mails')
        /\ \A i \in 1..Len(mails) : mails'[i] = mails[i]
        /\ told = "sent" => \E o \in 1..Len(mails') : mails'[o] = request[r].token
    <3>1. CASE mails' = mails
      BY <1>0, <1>4, <3>1, <1>11
    <3>2. CASE mails' = Queued(r)
      BY SMTT(30), <1>0, <1>11, <3>2
    <3> QED
      BY <1>4, <3>1, <3>2
  <2>2. Grows
    <3>1. rows' = rows /\ rows \in Nat
      BY <1>0, <1>4
    <3>2. rows' \in Nat /\ rows <= rows'
      BY <3>1
    <3>3. Len(mails') <= MaxMails
      BY <1>4
    <3> QED
      BY <2>1, <3>2, <3>3 DEF Grows
  <2>3. request[r].left > 0 /\ InFlight(r) /\ Up
    BY <1>0, <1>4 DEF RequestInv, InFlight
  <2>4. /\ new \in Request
        /\ new.at \in {"insert", "answered"}
        /\ new.at = "insert" => new.left > 0
        /\ new.tokens = request[r].tokens
        /\ told = "sent" => /\ new.sent = request[r].sent \cup {request[r].token}
                            /\ new.failed = request[r].failed
        /\ told = "failed" => /\ new.failed = request[r].failed \cup {request[r].token}
                              /\ new.sent = request[r].sent
        /\ request' = [request EXCEPT ![r] = new]
    <3>1. request[r] \in Request /\ new = IF told = "sent" THEN Sent(r) ELSE Failed(r)
      BY <1>0, <1>4
    <3>2. /\ NextAddress(r) \in Request
          /\ NextAddress(r).at \in {"insert", "answered"}
          /\ NextAddress(r).at = "insert" => NextAddress(r).left > 0
          /\ NextAddress(r).tokens = request[r].tokens
          /\ NextAddress(r).sent = request[r].sent
          /\ NextAddress(r).failed = request[r].failed
      <4>1. request[r].left - 1 \in Nat
        BY <1>0, <2>3
      <4>2. request[r].left > 1 => request[r].left - 1 > 0
        BY <1>0
      <4>3. NextAddress(r).at = (IF request[r].left > 1 THEN "insert" ELSE "answered")
        BY <3>1 DEF NextAddress, Request
      <4> QED
        BY <3>1, <4>1, <4>2, <4>3 DEF NextAddress, Request, RequestPlaces
    <3>3. /\ request[r].sent \cup {request[r].token} \in SUBSET Nat
          /\ request[r].failed \cup {request[r].token} \in SUBSET Nat
      BY <1>0
    <3>6. request' = [request EXCEPT ![r] = new]
      BY <1>4, <3>1
    <3> HIDE DEF new
    <3>4. CASE told = "sent"
      <4>1. new = [NextAddress(r) EXCEPT !.sent = request[r].sent \cup {request[r].token}]
        BY <3>1, <3>2, <3>4 DEF Sent, Request
      <4> QED
        BY <3>2, <3>3, <3>4, <3>6, <4>1 DEF Request
    <3>5. CASE told = "failed"
      <4>1. new = [NextAddress(r) EXCEPT !.failed = request[r].failed \cup {request[r].token}]
        BY <3>1, <3>2, <3>5 DEF Failed, Request
      <4> QED
        BY <3>2, <3>3, <3>5, <3>6, <4>1 DEF Request
    <3> QED
      BY <1>4, <3>4, <3>5
  <2>5. RequestInv(r)'
    <3>1. /\ request[r].tokens = request[r].sent \cup request[r].failed \cup {request[r].token}
          /\ request[r].token \in 1..rows
          /\ request[r].token \notin request[r].sent \cup request[r].failed
          /\ request[r].sent \cap request[r].failed = {}
          /\ request[r].tokens \subseteq 1..rows
      BY <1>0, <1>4 DEF RequestInv
    <3>2. /\ new.sent \cap new.failed = {}
          /\ new.sent \cup new.failed = new.tokens
          /\ new.tokens \subseteq 1..rows'
      BY <1>4, <2>4, <3>1
    <3>3. \A t \in new.sent : \E o \in 1..Len(mails') : mails'[o] = t
      BY <1>0, <1>4, <2>1, <2>2, <2>4, SentStays
    <3> QED
      BY <1>0, <2>3, <2>4, <3>2, <3>3 DEF RequestInv, InFlight
  <2> QED
    BY <1>4, <2>2, <2>4, <2>5
<1>5. ASSUME Queue(r) \/ NotQueued(r) \/ QueueFails(r) PROVE Good
  <2>1. Len(Queued(r)) = Len(mails) + 1 /\ MaxMails \in Nat
    BY <1>11, EmailAssumption
  <2>2. CASE Queue(r)
    <3>1. /\ request[r].at = "send" /\ mails' = Queued(r) /\ Len(mails) < MaxMails
          /\ request' = [request EXCEPT ![r] = Sent(r)]
          /\ UNCHANGED <<rows, configured, committed, worker, fate>>
      BY <2>2 DEF Queue, HasRoom
    <3>2. Len(mails') <= MaxMails
      BY <1>0, <2>1, <3>1
    <3> QED
      BY <3>1, <3>2, <1>4
  <2>3. CASE NotQueued(r)
    <3>1. /\ request[r].at = "send" /\ mails' = mails
          /\ request' = [request EXCEPT ![r] = Failed(r)]
          /\ UNCHANGED <<rows, configured, committed, worker, fate>>
      BY <2>3 DEF NotQueued
    <3> QED
      BY <1>0, <3>1, <1>4
  <2>4. CASE QueueFails(r)
    <3>1. /\ request[r].at = "send" /\ mails' \in {mails, Queued(r)} /\ Len(mails) < MaxMails
          /\ request' = [request EXCEPT ![r] = Failed(r)]
          /\ UNCHANGED <<rows, configured, committed, worker, fate>>
      BY <2>4 DEF QueueFails, HasRoom
    <3>2. Len(mails') <= MaxMails
      BY <1>0, <2>1, <3>1
    <3> QED
      BY <3>1, <3>2, <1>4
  <2> QED
    BY <1>5, <2>2, <2>3, <2>4
<1>6. Good
  BY <1>1, <1>2, <1>3, <1>5 DEF RequestStep
<1>7. ASSUME NEW q \in Requests, q # r PROVE RequestInv(q)'
  <2>1. RequestInv(q) /\ request'[q] = request[q] /\ (InFlight(q) => Up')
    BY <1>0, <1>6, <1>7 DEF IInv, RequestInv
  <2> QED
    BY <1>0, <1>6, <2>1, RequestKept
<1> QED
  BY <1>0, <1>6, <1>7

-----------------------------------------------------------------------------
(* The loop.                                                               *)

\* What the loop makes of the mail in hand.
Settles(what) == what \in Fates /\ worker.pos \in Offsets /\ Becomes(what)

LEMMA SettlesMeans ==
    ASSUME TypeOK, NEW what, Settles(what)
    PROVE  /\ fate' \in [Offsets -> SUBSET Fates]
           /\ Settled' = Settled \cup {worker.pos}
           /\ what # "lost" => \A o \in Offsets : "lost" \in fate'[o] => "lost" \in fate[o]
BY DEF Settles, Becomes, TypeOK, Settled

\* The fields of the worker, and its invariant in terms of them.
LEMMA WorkerFields ==
    ASSUME IInv
    PROVE  /\ worker \in Worker
           /\ worker.at \in {"poll", "handle", "deadLetter", "commit"}
           /\ worker.pos \in Nat /\ worker.pos <= MaxMails /\ worker.pos <= Len(mails)
           /\ worker.tries \in 0..MaxRetries
           /\ committed \in Nat /\ committed <= worker.pos
           /\ mails \in Seq(Nat) /\ Len(mails) \in Nat /\ Len(mails) <= MaxMails
           /\ MaxMails \in Nat /\ MaxRetries \in Nat
           /\ fate \in [Offsets -> SUBSET Fates]
           /\ Settled \subseteq Offsets
           /\ worker.at \in {"handle", "deadLetter"} => worker.pos \in Offsets
           /\ worker.at \in {"poll", "commit"} =>
                \A o \in Offsets : o <= worker.pos => o \in Settled
           /\ \A o \in Offsets : o < worker.pos => o \in Settled
           /\ \A o, p \in Offsets : o \in Settled /\ p < o => p \in Settled
           /\ \A o \in Offsets : o <= committed => o \in Settled
<1>1. /\ worker \in Worker /\ committed \in 0..MaxMails /\ MaxMails \in Nat
      /\ MaxRetries \in Nat /\ mails \in Seq(Nat) /\ Len(mails) <= MaxMails
      /\ fate \in [Offsets -> SUBSET Fates]
  BY EmailAssumption DEF IInv, TypeOK
<1>2. /\ worker.at \in {"poll", "handle", "deadLetter", "commit"}
      /\ worker.pos \in 0..MaxMails /\ worker.tries \in 0..MaxRetries
  BY <1>1 DEF Worker
<1>3. WorkerInv
  BY DEF IInv
<1>4. worker.at \in {"handle", "deadLetter"} => worker.pos \in Offsets
  BY <1>1, <1>2, <1>3 DEF WorkerInv, Offsets
<1>5. /\ worker.at \in {"poll", "commit"} => \A o \in Offsets : o <= worker.pos => o \in Settled
      /\ \A o \in Offsets : o < worker.pos => o \in Settled
  BY <1>1, <1>2, <1>3 DEF WorkerInv, Offsets
<1>6. Settled \subseteq Offsets
  BY DEF Settled
<1> QED
  BY <1>1, <1>2, <1>3, <1>4, <1>5, <1>6 DEF WorkerInv

\* What a step of the loop does: it takes the next mail; something becomes of the
\* mail in hand, which it keeps or is done with; or it commits.
Takes == /\ worker' = [at |-> "handle", pos |-> worker.pos + 1, tries |-> 0]
         /\ worker.at = "poll" /\ worker.pos < Len(mails)
         /\ UNCHANGED <<committed, fate>>
Decides == /\ worker.at \in {"handle", "deadLetter"}
           /\ worker' \in Worker /\ worker'.pos = worker.pos
           /\ UNCHANGED committed
           /\ \/ \E what \in Fates : Settles(what)
              \/ worker'.at \in {"handle", "deadLetter"} /\ UNCHANGED fate
Commits == /\ worker.at = "commit"
           /\ worker' = [worker EXCEPT !.at = "poll"]
           /\ committed' \in {committed, worker.pos}
           /\ UNCHANGED fate

LEMMA LoopMoves ==
    ASSUME IInv, LoopStep
    PROVE  Takes \/ Decides \/ Commits
<1>1. CASE Take
  BY <1>1 DEF Take, Takes, Working
<1>2. CASE Commit \/ CommitFails
  BY <1>2 DEF Commit, CommitFails, Commits, Working, WorkerGoto
<1>3. CASE Handle
  <2>1. /\ worker.at = "handle" /\ worker' = [worker EXCEPT !.at = "commit"]
        /\ committed' = committed
    BY <1>3 DEF Handle, Working, WorkerGoto
  <2>2. \E what \in Fates : Settles(what)
    BY <1>3, <2>1, WorkerFields DEF Handle, Handled, Settles, Fates
  <2> QED
    BY <2>1, <2>2, WorkerFields DEF Decides, Worker
<1>4. CASE HandleFails
  <2>1. /\ worker.at = "handle" /\ committed' = committed
        /\ worker' = IF worker.tries < MaxRetries
                       THEN [worker EXCEPT !.tries = @ + 1]
                       ELSE [worker EXCEPT !.at = "deadLetter"]
    BY <1>4 DEF HandleFails, Working
  <2>2. (\E what \in Fates : Settles(what)) \/ UNCHANGED fate
    BY <1>4, <2>1, WorkerFields DEF HandleFails, Settles, Fates
  <2>3. worker' \in Worker /\ worker'.pos = worker.pos /\ worker'.at \in {"handle", "deadLetter"}
    BY <2>1, WorkerFields DEF Worker
  <2> QED
    BY <2>1, <2>2, <2>3 DEF Decides
<1>5. CASE DeadLetter \/ DeadLetterLost
  <2>1. /\ worker.at = "deadLetter" /\ worker' = [worker EXCEPT !.at = "commit"]
        /\ committed' = committed
    BY <1>5 DEF DeadLetter, DeadLetterLost, Working, WorkerGoto
  <2>2. \E what \in Fates : Settles(what)
    BY <1>5, <2>1, WorkerFields DEF DeadLetter, DeadLetterLost, Settles, Fates
  <2> QED
    BY <2>1, <2>2, WorkerFields DEF Decides, Worker
<1> QED
  BY <1>1, <1>2, <1>3, <1>4, <1>5 DEF LoopStep, Work

\* A cancelled loop begins anew behind what is committed.
Restarts ==
    /\ worker' = [at |-> "poll", pos |-> committed', tries |-> 0]
    /\ \/ UNCHANGED <<committed, fate>>
       \/ /\ worker.at \in {"handle", "deadLetter"} /\ UNCHANGED committed
          /\ \E what \in Fates \ {"lost"} : Settles(what)
       \/ worker.at = "commit" /\ committed' = worker.pos /\ UNCHANGED fate

LEMMA LifecycleMoves ==
    ASSUME IInv, LifecycleStep
    PROVE  Restarts \/ UNCHANGED <<worker, committed, fate>>
<1>1. /\ IF Alive(1) /\ ~Alive(1)' THEN Interrupted ELSE UNCHANGED <<committed, fate>>
      /\ worker' = IF Alive(1) = Alive(1)' THEN worker
                   ELSE [at |-> "poll", pos |-> committed', tries |-> 0]
  BY DEF LifecycleStep, WorkerAlong, Begins
<1>2. ASSUME Interrupted
      PROVE  \/ UNCHANGED <<committed, fate>>
             \/ /\ worker.at \in {"handle", "deadLetter"} /\ UNCHANGED committed
                /\ \E what \in Fates \ {"lost"} : Settles(what)
             \/ worker.at = "commit" /\ committed' = worker.pos /\ UNCHANGED fate
  BY <1>2, WorkerFields DEF Interrupted, Settles, Fates
<1>3. CASE Alive(1) /\ ~Alive(1)'
  BY <1>1, <1>2, <1>3 DEF Restarts
<1>4. CASE ~(Alive(1) /\ ~Alive(1)')
  <2>1. UNCHANGED <<committed, fate>>
    BY <1>1, <1>4
  <2>2. worker' = worker \/ worker' = [at |-> "poll", pos |-> committed', tries |-> 0]
    BY <1>1
  <2> QED
    BY <2>1, <2>2 DEF Restarts
<1> QED
  BY <1>3, <1>4

\* Every move keeps the types of the loop and its invariant.
LEMMA MovesKeep ==
    ASSUME IInv, Grows,
           Takes \/ Decides \/ Commits \/ Restarts \/ UNCHANGED <<worker, committed, fate>>
    PROVE  /\ worker' \in Worker /\ committed' \in 0..MaxMails
           /\ fate' \in [Offsets -> SUBSET Fates]
           /\ WorkerInv'
<1>0. TypeOK /\ WorkerInv /\ Len(mails') \in Nat /\ Len(mails) <= Len(mails')
  BY DEF IInv, Grows
<1>1. CASE Takes
  <2>1. worker' \in Worker /\ worker'.pos = worker.pos + 1 /\ worker'.at = "handle"
    BY <1>1, WorkerFields, EmailAssumption DEF Takes, Worker
  <2>2. Settled' = Settled /\ committed' = committed
    BY <1>1 DEF Takes, Settled
  <2>3. worker.at = "poll" /\ worker.pos < Len(mails)
    BY <1>1 DEF Takes
  <2> QED
    BY SMTT(30), <1>0, <1>1, <2>1, <2>2, <2>3, WorkerFields DEF WorkerInv, Takes, Offsets
<1>2. CASE Decides
  <2>1. /\ worker.at \in {"handle", "deadLetter"} /\ worker' \in Worker
        /\ worker'.pos = worker.pos /\ committed' = committed /\ worker.pos \in Offsets
        /\ worker'.at \in {"poll", "handle", "deadLetter", "commit"}
    BY <1>2, WorkerFields DEF Decides, Worker
  <2>2. CASE \E what \in Fates : Settles(what)
    <3>1. fate' \in [Offsets -> SUBSET Fates] /\ Settled' = Settled \cup {worker.pos}
      BY <1>0, <2>2, SettlesMeans
    <3> QED
      BY <1>0, <2>1, <3>1, WorkerFields DEF WorkerInv, Offsets
  <2>3. CASE worker'.at \in {"handle", "deadLetter"} /\ UNCHANGED fate
    <3>1. Settled' = Settled
      BY <2>3 DEF Settled
    <3> QED
      BY <1>0, <2>1, <2>3, <3>1, WorkerFields DEF WorkerInv, Offsets
  <2> QED
    BY <1>2, <2>2, <2>3 DEF Decides
<1>3. CASE Commits
  <2>1. /\ worker' \in Worker /\ worker'.pos = worker.pos /\ worker'.at = "poll"
        /\ worker.at = "commit" /\ committed' \in {committed, worker.pos}
    BY <1>3, WorkerFields DEF Commits, Worker
  <2>2. Settled' = Settled /\ fate' = fate
    BY <1>3 DEF Commits, Settled
  <2> QED
    BY <1>0, <2>1, <2>2, WorkerFields DEF WorkerInv, Offsets
<1>4. CASE Restarts
  <2>1. /\ committed' \in {committed, worker.pos}
        /\ committed' = worker.pos => worker.at = "commit" \/ committed' = committed
    BY <1>4 DEF Restarts
  <2>2. committed' \in Nat /\ committed' <= MaxMails /\ committed' <= Len(mails)
    BY <2>1, WorkerFields
  <2>3. /\ worker' \in Worker /\ worker'.pos = committed' /\ worker'.at = "poll"
    BY <1>4, <2>2, WorkerFields DEF Restarts, Worker
  <2>4. /\ fate' \in [Offsets -> SUBSET Fates]
        /\ Settled \subseteq Settled'
        /\ \A o, p \in Offsets : o \in Settled' /\ p < o => p \in Settled'
    <3>1. CASE UNCHANGED fate
      BY <3>1, WorkerFields DEF Settled
    <3>2. CASE \E what \in Fates : Settles(what)
      <4>1. /\ fate' \in [Offsets -> SUBSET Fates] /\ Settled' = Settled \cup {worker.pos}
            /\ worker.pos \in Offsets
        BY <1>0, <3>2, SettlesMeans DEF Settles
      <4> QED
        BY <4>1, WorkerFields
    <3> QED
      BY <1>4, <3>1, <3>2 DEF Restarts
  <2>5. \A o \in Offsets : o <= committed' => o \in Settled'
    BY <2>1, <2>4, WorkerFields
  <2> QED
    BY <1>0, <2>2, <2>3, <2>4, <2>5 DEF WorkerInv
<1>5. CASE UNCHANGED <<worker, committed, fate>>
  <2>1. Settled' = Settled
    BY <1>5 DEF Settled
  <2> QED
    BY <1>0, <1>5, <2>1, WorkerFields DEF WorkerInv, TypeOK
<1> QED
  BY <1>1, <1>2, <1>3, <1>4, <1>5

-----------------------------------------------------------------------------
(* The lifespan and the requests.                                          *)

\* A process that dies leaves its requests without an answer, and the others
\* as they are.
LEMMA RequestsAlongKeep ==
    ASSUME IInv, LifecycleStep
    PROVE  /\ Grows /\ request' \in [Requests -> Request]
           /\ \A q \in Requests : RequestInv(q)'
<1>0. /\ TypeOK /\ rows \in Nat /\ mails \in Seq(Nat) /\ Len(mails) \in Nat
      /\ Len(mails) <= MaxMails /\ rows' = rows /\ mails' = mails
      /\ request \in [Requests -> Request]
  BY DEF IInv, TypeOK, LifecycleStep
<1>1. Grows
  BY <1>0 DEF Grows
<1>2. ASSUME NEW q \in Requests
      PROVE  /\ request'[q] = IF InFlight(q) /\ ~Up' THEN [request[q] EXCEPT !.at = "error"]
                              ELSE request[q]
             /\ request'[q] \in Request
  <2>1. request'[q] = IF InFlight(q) /\ ~Up' THEN [request[q] EXCEPT !.at = "error"]
                      ELSE request[q]
    BY DEF LifecycleStep, RequestsAlong
  <2> QED
    BY <1>0, <2>1 DEF Request, RequestPlaces
<1>3. request' \in [Requests -> Request]
  <2>1. request' = [r \in Requests |->
            IF InFlight(r) /\ ~Up' THEN [request[r] EXCEPT !.at = "error"] ELSE request[r]]
    BY DEF LifecycleStep, RequestsAlong
  <2> QED
    BY <1>2, <2>1
<1>4. ASSUME NEW q \in Requests PROVE RequestInv(q)'
  <2>0. RequestInv(q)
    BY DEF IInv
  <2>1. CASE InFlight(q) /\ ~Up'
    <3>1. request'[q] = [request[q] EXCEPT !.at = "error"]
      BY <1>2, <2>1
    <3>2. /\ request'[q].at = "error" /\ request'[q].tokens = request[q].tokens
          /\ request'[q].sent = request[q].sent /\ request'[q].failed = request[q].failed
      BY <1>0, <3>1 DEF Request
    <3> QED
      BY <1>0, <1>1, <2>0, <3>2, SentStays DEF RequestInv, InFlight
  <2>2. CASE ~(InFlight(q) /\ ~Up')
    <3>1. request'[q] = request[q] /\ (InFlight(q) => Up')
      BY <1>2, <2>2
    <3> QED
      BY <1>0, <1>1, <2>0, <3>1, RequestKept
  <2> QED
    BY <2>1, <2>2
<1> QED
  BY <1>1, <1>3, <1>4

-----------------------------------------------------------------------------
(* The invariant.                                                          *)

\* No step forgets a fault.
LEMMA FaultsCount ==
    ASSUME IInv, [Next]_vars
    PROVE  faults' = 0 => faults = 0
<1>0. faults \in Nat
  BY DEF IInv, TypeOK, LifecycleTypeOK
<1>1. CASE LifecycleStep
  BY <1>0, <1>1
     DEF LifecycleStep, Proceed, Boot, TopicsReady, ProducerStarts, ConsumerStarts, CancelTask,
         CloseClient, CloseProducer, TopicsFail, ProducerFails, ConsumerFails, SkipKafka,
         StopFails, Crash, Shutdown, LoopFails, Fault
<1>2. CASE (\E r \in Requests : RequestStep(r)) \/ LoopStep
  BY <1>0, <1>2, StepsBeside DEF Beside, Fault
<1>3. CASE UNCHANGED vars
  BY <1>3 DEF vars, lifecycle
<1> QED
  BY <1>1, <1>2, <1>3 DEF Next, InviteStep, RequestStep, LoopStep

\* A mail is lost only by a step that counts a fault: the loop that
\* dead-letters has a producer.
LEMMA LostByFault ==
    ASSUME IInv, [Next]_vars
    PROVE  NothingLost'
<1>0. /\ TypeOK /\ NothingLost /\ LoopsHaveProducer /\ faults \in Nat /\ faults' \in Nat
      /\ LifecycleInv'
  BY LifecycleKept, LifecycleAssumption
     DEF IInv, TypeOK, LifecycleInv, LifecycleTypeOK
<1>1. faults' = 0 => faults = 0
  BY FaultsCount
<1>2. ASSUME faults' = 0, UNCHANGED fate PROVE NothingLost'
  BY <1>0, <1>1, <1>2 DEF NothingLost
<1>3. ASSUME faults' = 0, NEW what \in Fates \ {"lost"}, Settles(what) PROVE NothingLost'
  BY <1>0, <1>1, <1>3, SettlesMeans DEF NothingLost
<1>4. ASSUME faults' = 0 PROVE NothingLost'
  <2>1. CASE LifecycleStep
    BY <1>2, <1>3, <1>4, <2>1, LifecycleMoves DEF Restarts
  <2>2. CASE \E r \in Requests : RequestStep(r)
    BY <1>2, <1>4, <2>2, RequestKeeps
  <2>3. CASE LoopStep
    <3>1. ~DeadLetterLost
      BY <1>0, <1>4, FirstConsumer DEF DeadLetterLost, Working, LoopsHaveProducer, Fault
    <3>2. CASE Handle
      <4>1. \E what \in Fates \ {"lost"} : Settles(what)
        BY <3>2, WorkerFields DEF Handle, Handled, Working, Settles, Fates
      <4> QED
        BY <1>3, <1>4, <4>1
    <3>3. CASE HandleFails
      <4>1. Settles("sent") \/ UNCHANGED fate
        BY <3>3, WorkerFields DEF HandleFails, Working, Settles, Fates
      <4> QED
        BY <1>2, <1>3, <1>4, <4>1 DEF Fates
    <3>4. CASE DeadLetter
      <4>1. Settles("deadLettered")
        BY <3>4, WorkerFields DEF DeadLetter, Working, Settles, Fates
      <4> QED
        BY <1>3, <1>4, <4>1 DEF Fates
    <3> QED
      BY <1>2, <1>4, <2>3, <3>1, <3>2, <3>3, <3>4
         DEF LoopStep, Work, Take, Commit, CommitFails
  <2>4. CASE UNCHANGED vars
    BY <1>2, <1>4, <2>4 DEF vars, email
  <2> QED
    BY <2>1, <2>2, <2>3, <2>4 DEF Next, InviteStep, RequestStep, LoopStep
<1> QED
  BY <1>4 DEF NothingLost

\* What one step does to the loop and the requests.
LEMMA StepMoves ==
    ASSUME IInv, [Next]_vars
    PROVE  /\ Grows
           /\ Takes \/ Decides \/ Commits \/ Restarts \/ UNCHANGED <<worker, committed, fate>>
           /\ request' \in [Requests -> Request]
           /\ \A q \in Requests : RequestInv(q)'
           /\ configured' = configured
<1>1. CASE LifecycleStep
  BY <1>1, LifecycleMoves, RequestsAlongKeep DEF LifecycleStep
<1>2. CASE \E r \in Requests : RequestStep(r)
  BY <1>2, RequestKeeps
<1>3. CASE LoopStep \/ UNCHANGED vars
  <2>1. UNCHANGED <<configured, request, rows, mails>> /\ Up' = Up
    <3>1. CASE LoopStep
      <4>1. UNCHANGED <<configured, request, rows, mails>>
        BY <3>1
           DEF LoopStep, Work, Take, Handle, HandleFails, DeadLetter, DeadLetterLost, Commit,
               CommitFails, Rest
      <4> QED
        BY <3>1, <4>1, StepsBeside, BesideAlive
    <3>2. CASE UNCHANGED vars
      BY <3>2 DEF vars, email, lifecycle, Up
    <3> QED
      BY <1>3, <3>1, <3>2
  <2>2. TypeOK /\ Grows
    BY <2>1 DEF IInv, TypeOK, Grows
  <2>3. ASSUME NEW q \in Requests PROVE RequestInv(q)'
    <3>1. RequestInv(q) /\ (InFlight(q) => Up') /\ request'[q] = request[q]
      BY <2>1 DEF IInv, RequestInv
    <3> QED
      BY <2>2, <3>1, RequestKept
  <2>4. Takes \/ Decides \/ Commits \/ Restarts \/ UNCHANGED <<worker, committed, fate>>
    BY <1>3, LoopMoves DEF vars, email
  <2> QED
    BY <2>1, <2>2, <2>3, <2>4 DEF TypeOK
<1> QED
  BY <1>1, <1>2, <1>3 DEF Next, InviteStep, RequestStep, LoopStep

\* Nothing is invited or taken at first.
LEMMA InvInit == Init => IInv
<1> SUFFICES ASSUME Init PROVE IInv
  OBVIOUS
<1>1. LifecycleInv
  BY LifecycleInitial DEF Init
<1>2. TypeOK
  <2>1. Unmade \in Request
    BY DEF Unmade, Request, RequestPlaces
  <2>2. worker \in Worker /\ committed \in 0..MaxMails
    BY EmailAssumption DEF Init, Worker
  <2> QED
    BY <1>1, <2>1, <2>2, EmailAssumption DEF Init, TypeOK, LifecycleInv
<1>3. \A r \in Requests : RequestInv(r)
  BY DEF Init, Unmade, RequestInv, InFlight
<1>4. WorkerInv /\ NothingLost
  BY DEF Init, WorkerInv, NothingLost, Settled, Offsets
<1> QED
  BY <1>1, <1>2, <1>3, <1>4 DEF IInv

\* Every step keeps the invariant.
LEMMA InvStep == IInv /\ [Next]_vars => IInv'
<1> SUFFICES ASSUME IInv, [Next]_vars PROVE IInv'
  OBVIOUS
<1>1. LifecycleInv' /\ NothingLost'
  BY LifecycleKept, LostByFault
<1>2. /\ worker' \in Worker /\ committed' \in 0..MaxMails
      /\ fate' \in [Offsets -> SUBSET Fates] /\ WorkerInv'
  BY StepMoves, MovesKeep
<1>3. TypeOK'
  BY <1>1, <1>2, StepMoves DEF IInv, TypeOK, LifecycleInv, Grows
<1> QED
  BY <1>1, <1>2, <1>3, StepMoves DEF IInv

-----------------------------------------------------------------------------
(* What the host is told.                                                  *)

\* A step that writes nothing and takes no address in hand keeps the truth.
LEMMA QuietIsTrue ==
    ASSUME TruthInv, UNCHANGED <<mails, rows>>, faults' = 0 => faults = 0,
           \A q \in Requests :
               /\ request'[q].tokens = request[q].tokens /\ request'[q].failed = request[q].failed
               /\ request'[q].at = "send" =>
                     request[q].at = "send" /\ request'[q].token = request[q].token
    PROVE  TruthInv'
BY DEF TruthInv, Unwritten

\* The row of a new invitation is in no event and of no other request.
LEMMA InsertIsTrue ==
    ASSUME IInv, TruthInv, NEW r \in Requests, Insert(r)
    PROVE  TruthInv'
<1> DEFINE Absent(t) == \A o \in 1..Len(mails') : mails'[o] # t
<1>1. /\ rows \in Nat /\ rows' = rows + 1 /\ mails' = mails /\ faults' = faults
      /\ request \in [Requests -> Request]
      /\ \A q \in Requests : request[q].tokens \subseteq 1..rows
  BY DEF IInv, TypeOK, Insert, lifecycle, RequestInv
<1>2. /\ request'[r].at = "send" /\ request'[r].token = rows'
      /\ request'[r].tokens = request[r].tokens \cup {rows'}
      /\ request'[r].failed = request[r].failed
  BY <1>1 DEF Insert, Request
<1>3. ASSUME NEW q \in Requests, q # r PROVE request'[q] = request[q]
  BY <1>1, <1>3 DEF Insert
<1>4. \A o \in 1..Len(mails) : mails[o] \in 1..rows
  BY DEF TruthInv
<1>5. Unwritten(rows')
  BY <1>1, <1>4 DEF Unwritten
<1>6. ASSUME NEW p \in Requests, NEW q \in Requests, p # q
      PROVE  request'[p].tokens \cap request'[q].tokens = {}
  <2>1. request[p].tokens \cap request[q].tokens = {}
    BY <1>6 DEF TruthInv
  <2>2. rows' \notin request[p].tokens /\ rows' \notin request[q].tokens
    BY <1>1
  <2> QED
    BY <1>2, <1>3, <1>6, <2>1, <2>2
<1>7. \A o \in 1..Len(mails') : mails'[o] \in 1..rows'
  BY <1>1, <1>4
<1>8. ASSUME NEW q \in Requests, request'[q].at = "send" PROVE Absent(request'[q].token)
  <2>1. CASE q = r
    BY <1>1, <1>2, <1>5, <2>1 DEF Unwritten
  <2>2. CASE q # r
    BY <1>1, <1>3, <1>8, <2>2 DEF TruthInv, Unwritten
  <2> QED
    BY <2>1, <2>2
<1>9. ASSUME faults' = 0, NEW q \in Requests, NEW t \in request'[q].failed PROVE Absent(t)
  <2>1. t \in request[q].failed
    BY <1>2, <1>3, <1>9
  <2> QED
    BY <1>1, <1>9, <2>1 DEF TruthInv, Unwritten
<1> QED
  BY <1>6, <1>7, <1>8, <1>9 DEF TruthInv, Unwritten

\* The event names the address in hand, which no one was told of; it is told
\* as failed with the event written only by a send that counts a fault.
LEMMA AnswerIsTrue ==
    ASSUME IInv, TruthInv, NEW r \in Requests, Queue(r) \/ NotQueued(r) \/ QueueFails(r)
    PROVE  TruthInv'
<1> DEFINE mine == request[r].token
           Absent(t) == \A o \in 1..Len(mails') : mails'[o] # t
<1>1. /\ request \in [Requests -> Request] /\ mails \in Seq(Nat) /\ Len(mails) \in Nat
      /\ request[r] \in Request /\ rows' = rows /\ faults \in Nat
  BY DEF IInv, TypeOK, LifecycleTypeOK, Queue, NotQueued, QueueFails
<1>2. /\ request[r].at = "send" /\ mine \in 1..rows /\ mine \in request[r].tokens
      /\ mine \notin request[r].failed
      /\ \A q \in Requests : request[q].failed \subseteq request[q].tokens
      /\ \A q \in Requests : request[q].at = "send" => request[q].token \in request[q].tokens
  BY DEF IInv, RequestInv, Queue, NotQueued, QueueFails
<1>3. /\ mails' \in {mails, Queued(r)}
      /\ faults' = 0 => faults = 0 /\ (Queue(r) \/ NotQueued(r))
      /\ request' = [request EXCEPT ![r] = Sent(r)] \/ request' = [request EXCEPT ![r] = Failed(r)]
      /\ Queue(r) => request' = [request EXCEPT ![r] = Sent(r)]
      /\ NotQueued(r) => mails' = mails
  BY <1>1 DEF Queue, NotQueued, QueueFails, Fault, lifecycle
<1>4. /\ request'[r].at # "send" /\ request'[r].tokens = request[r].tokens
      /\ request'[r].failed \subseteq request[r].failed \cup {mine}
      /\ Queue(r) => request'[r].failed = request[r].failed
  <2>1. /\ NextAddress(r) \in [at : {"insert", "answered"}, left : {request[r].left - 1},
                               token : {mine}, tokens : {request[r].tokens},
                               sent : {request[r].sent}, failed : {request[r].failed}]
    BY <1>1 DEF NextAddress, Request
  <2>2. /\ Sent(r).at # "send" /\ Sent(r).tokens = request[r].tokens
        /\ Sent(r).failed = request[r].failed
    BY <2>1 DEF Sent
  <2>3. /\ Failed(r).at # "send" /\ Failed(r).tokens = request[r].tokens
        /\ Failed(r).failed = request[r].failed \cup {mine}
    BY <2>1 DEF Failed
  <2>4. request'[r] \in {Sent(r), Failed(r)} /\ (Queue(r) => request'[r] = Sent(r))
    BY <1>1, <1>3
  <2> QED
    BY <2>2, <2>3, <2>4
<1>5. ASSUME NEW q \in Requests, q # r PROVE request'[q] = request[q]
  BY <1>1, <1>3, <1>5
<1>6. ASSUME NEW t, Unwritten(t), t # mine \/ mails' = mails PROVE Absent(t)
  <2>1. CASE mails' = mails
    BY <1>6, <2>1 DEF Unwritten
  <2>2. CASE mails' = Queued(r) /\ t # mine
    BY <1>1, <1>6, <2>2 DEF Unwritten, Queued
  <2> QED
    BY <1>3, <1>6, <2>1, <2>2
<1>7. ASSUME NEW q \in Requests, q # r PROVE mine \notin request[q].tokens
  BY <1>2, <1>7 DEF TruthInv
<1>8. \A o \in 1..Len(mails') : mails'[o] \in 1..rows'
  <2>1. \A o \in 1..Len(mails) : mails[o] \in 1..rows
    BY DEF TruthInv
  <2>2. CASE mails' = mails
    BY <1>1, <2>1, <2>2
  <2>3. CASE mails' = Queued(r)
    BY <1>1, <1>2, <2>1, <2>3 DEF Queued
  <2> QED
    BY <1>3, <2>2, <2>3
<1>9. \A p, q \in Requests : p # q => request'[p].tokens \cap request'[q].tokens = {}
  BY <1>4, <1>5 DEF TruthInv
<1>10. ASSUME NEW q \in Requests, request'[q].at = "send" PROVE Absent(request'[q].token)
  <2>1. q # r /\ request'[q] = request[q]
    BY <1>4, <1>5, <1>10
  <2>2. Unwritten(request[q].token) /\ request[q].token # mine
    BY <1>2, <1>7, <1>10, <2>1 DEF TruthInv
  <2> QED
    BY <1>6, <2>1, <2>2
<1>11. ASSUME faults' = 0, NEW q \in Requests, NEW t \in request'[q].failed PROVE Absent(t)
  <2>1. faults = 0 /\ (Queue(r) \/ NotQueued(r))
    BY <1>3, <1>11
  <2>2. CASE t \in request[q].failed
    <3>1. Unwritten(t)
      BY <2>1, <2>2 DEF TruthInv
    <3>2. t # mine
      BY <1>2, <1>7, <2>2
    <3> QED
      BY <1>6, <3>1, <3>2
  <2>3. CASE t \notin request[q].failed
    <3>1. q = r /\ t = mine /\ ~Queue(r)
      BY <1>4, <1>5, <1>11, <2>3
    <3>2. Unwritten(t) /\ mails' = mails
      BY <1>2, <1>3, <2>1, <3>1 DEF TruthInv
    <3> QED
      BY <1>6, <3>2
  <2> QED
    BY <2>2, <2>3
<1> QED
  BY <1>8, <1>9, <1>10, <1>11 DEF TruthInv, Unwritten

\* Every step keeps the truth.
LEMMA TruthStep == IInv /\ TruthInv /\ [Next]_vars => TruthInv'
<1> SUFFICES ASSUME IInv, TruthInv, [Next]_vars PROVE TruthInv'
  OBVIOUS
<1>0. request \in [Requests -> Request] /\ (faults' = 0 => faults = 0)
  BY FaultsCount DEF IInv, TypeOK
<1> DEFINE Quiet == /\ UNCHANGED <<mails, rows>>
                    /\ \A q \in Requests :
                        /\ request'[q].tokens = request[q].tokens
                        /\ request'[q].failed = request[q].failed
                        /\ request'[q].at = "send" =>
                              request[q].at = "send" /\ request'[q].token = request[q].token
<1>1. CASE LifecycleStep
  <2>1. ASSUME NEW q \in Requests
        PROVE  request'[q] \in {request[q], [request[q] EXCEPT !.at = "error"]}
    BY <1>1 DEF LifecycleStep, RequestsAlong
  <2>2. UNCHANGED <<mails, rows>>
    BY <1>1 DEF LifecycleStep
  <2>3. Quiet
    BY <1>0, <2>1, <2>2 DEF Request
  <2> QED
    BY <1>0, <2>3, QuietIsTrue
<1>2. CASE LoopStep \/ UNCHANGED vars
  <2>1. UNCHANGED <<request, mails, rows>>
    BY <1>2
       DEF LoopStep, Work, Take, Handle, HandleFails, DeadLetter, DeadLetterLost, Commit,
           CommitFails, Rest, vars, email
  <2> QED
    BY <1>0, <2>1, QuietIsTrue
<1>3. ASSUME NEW r \in Requests, RequestStep(r) PROVE TruthInv'
  <2>1. ASSUME NEW n \in 0..MaxEmails, Invite(r, n) PROVE TruthInv'
    <3>1. /\ request' = [request EXCEPT ![r].at = IF n = 0 THEN "answered" ELSE "insert",
                                        ![r].left = n]
          /\ UNCHANGED <<mails, rows>>
      BY <2>1 DEF Invite
    <3>2. ASSUME NEW q \in Requests
          PROVE  /\ request'[q].tokens = request[q].tokens
                 /\ request'[q].failed = request[q].failed
                 /\ request'[q].at = "send" =>
                       request[q].at = "send" /\ request'[q].token = request[q].token
      <4>1. request[q] \in Request /\ request[r] \in Request
        BY <1>0
      <4> QED
        BY <1>0, <3>1, <4>1 DEF Request
    <3>3. Quiet
      BY <3>1, <3>2
    <3> QED
      BY <1>0, <3>3, QuietIsTrue
  <2>2. CASE InsertFails(r)
    <3>1. request' = [request EXCEPT ![r].at = "error"] /\ UNCHANGED <<mails, rows>>
      BY <2>2 DEF InsertFails
    <3>2. Quiet
      BY <1>0, <3>1 DEF Request
    <3> QED
      BY <1>0, <3>2, QuietIsTrue
  <2> QED
    BY <1>3, <2>1, <2>2, InsertIsTrue, AnswerIsTrue DEF RequestStep
<1> QED
  BY <1>1, <1>2, <1>3 DEF Next, InviteStep, RequestStep, LoopStep

-----------------------------------------------------------------------------
(* Theorems.                                                               *)

\* The inductive invariant holds of every behaviour.
THEOREM EmailInvariant == Spec => []IInv
BY InvInit, InvStep, PTL DEF Spec

\* Every variable stays of its type, whatever starts, fails and restarts.
THEOREM EmailTypes == Spec => []TypeOK
<1>1. IInv => TypeOK
  BY DEF IInv
<1> QED
  BY EmailInvariant, <1>1, PTL

\* A running loop always has a producer (KafkaManager.start and stop).
THEOREM LoopsPublish == Spec => []LoopsHaveProducer
<1>1. IInv => LoopsHaveProducer
  BY DEF IInv, LifecycleInv
<1> QED
  BY EmailInvariant, <1>1, PTL

\* kafka_started means that every consumer has been started.
THEOREM FlagIsTrue == Spec => []StartedMeansRunning
<1>1. IInv => StartedMeansRunning
  BY DEF IInv, LifecycleInv
<1> QED
  BY EmailInvariant, <1>1, PTL

\* A shutdown after a start that succeeded stops everything, unless it raises.
THEOREM ShutdownIsComplete == Spec => []ShutdownStopsAll
<1>1. IInv => ShutdownStopsAll
  BY DEF IInv, LifecycleInv
<1> QED
  BY EmailInvariant, <1>1, PTL

\* The host is told the truth about every address (invite_participants): what
\* is told as sent is in the topic, and what is told as failed is in no event
\* unless a call failed.
THEOREM HostIsToldTruth == Spec => []AnswersAreTrue
<1>1. Init => TruthInv
  BY DEF Init, Unmade, TruthInv, Unwritten
<1>2. IInv /\ TruthInv => AnswersAreTrue
  BY DEF IInv, RequestInv, TruthInv, AnswersAreTrue
<1> QED
  BY EmailInvariant, <1>1, <1>2, TruthStep, PTL DEF Spec

\* Without a failing call no mail is lost on the way to the dead-letter topic.
THEOREM NoMailLost == Spec => []NothingLost
<1>1. IInv => NothingLost
  BY DEF IInv
<1> QED
  BY EmailInvariant, <1>1, PTL

\* The loop of the e-mail worker, over all its restarts, is an ordered log.
THEOREM EmailIsOrderedLog == Spec => ImplementsOrderedLog
<1>1. Init => Log!Init
  BY DEF Init, Log!Init, Settled
<1>2. IInv /\ [Next]_vars => [Log!Next]_<<Settled, committed>>
  <2> SUFFICES ASSUME IInv, [Next]_vars PROVE [Log!Next]_<<Settled, committed>>
    OBVIOUS
  <2>1. ASSUME UNCHANGED committed, NEW what \in Fates, Settles(what),
               worker.at \in {"handle", "deadLetter"}
        PROVE  Log!Next
    <3>1. Settled' = Settled \cup {worker.pos}
      BY <2>1, SettlesMeans DEF IInv
    <3>2. worker.pos \in Offsets /\ \A p \in Offsets : p < worker.pos => p \in Settled
      BY <2>1, WorkerFields
    <3>3. Log!Settle(worker.pos)
      BY <2>1, <3>1, <3>2 DEF Log!Settle, Log!Offsets, Offsets
    <3> QED
      BY <3>2, <3>3 DEF Log!Next, Log!Offsets, Offsets
  <2>2. ASSUME UNCHANGED fate, worker.at = "commit", committed' = worker.pos
        PROVE  [Log!Next]_<<Settled, committed>>
    <3>1. Settled' = Settled
      BY <2>2 DEF Settled
    <3>2. CASE worker.pos \in Offsets
      <4>1. Log!Advance(worker.pos)
        BY <2>2, <3>1, WorkerFields DEF Log!Advance, Log!Offsets, Offsets
      <4> QED
        BY <3>2, <4>1 DEF Log!Next, Log!Offsets, Offsets
    <3>3. CASE worker.pos \notin Offsets
      <4>1. committed' = committed
        BY <2>2, <3>3, WorkerFields DEF Offsets
      <4> QED
        BY <3>1, <4>1
    <3> QED
      BY <3>2, <3>3
  <2>3. CASE UNCHANGED <<committed, fate>>
    BY <2>3 DEF Settled
  <2> QED
    BY <2>1, <2>2, <2>3, StepMoves DEF Takes, Decides, Commits, Restarts
<1> QED
  BY <1>1, <1>2, EmailInvariant, PTL DEF Spec, ImplementsOrderedLog, Log!Spec
=============================================================================
