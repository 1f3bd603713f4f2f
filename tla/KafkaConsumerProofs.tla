------------------------ MODULE KafkaConsumerProofs ------------------------
(* Theorems about KafkaConsumer, for every log, every number of instances, *)
(* retries and faults.                                                     *)
EXTENDS KafkaConsumer, TLAPS

\* The delivery of the message after the position to an instance that polls.
LEMMA DeliverType ==
    ASSUME TypeOK, NEW i \in Instances, NEW place \in Places,
           inst[i].pos < LastOffset, Deliver(i, place)
    PROVE  /\ inst' \in [Instances -> Instance]
           /\ inst[i].pos + 1 \in Offsets
<1>1. inst[i].pos \in Nat /\ inst[i].pos + 1 \in 1..LastOffset
  BY ConsumerAssumption DEF TypeOK, Instance
<1>2. inst[i].pos + 1 \in 0..LastOffset /\ 0 \in 0..MaxRetries
  BY <1>1, ConsumerAssumption
<1>3. inst' \in [Instances -> Instance]
  BY <1>2 DEF TypeOK, Deliver, Instance
<1> QED
  BY <1>1, <1>3 DEF Offsets

LEMMA SettleType ==
    ASSUME TypeOK, NEW o \in Offsets, NEW what \in Fates, Settle(o, what)
    PROVE  /\ fate' \in [Offsets -> SUBSET Fates]
           /\ repeated' \subseteq Offsets
           /\ Settled' = Settled \cup {o}
<1>1. fate' \in [Offsets -> SUBSET Fates] /\ repeated' \subseteq Offsets
  BY DEF TypeOK, Settle
<1>2. Settled' = Settled \cup {o}
  BY DEF TypeOK, Settle, Settled
<1> QED
  BY <1>1, <1>2

LEMMA TypeInit == Init => TypeOK
BY ConsumerAssumption DEF Init, TypeOK, Instance, Down, Places

\* The group's side: the process, the coordinator, the clock.
LEMMA TypeGroup ==
    ASSUME TypeOK, NEW i \in Instances,
           Start(i) \/ Halt(i) \/ Assign(i) \/ Rebalance(i) \/ Revoke(i)
    PROVE  TypeOK'
<1> USE DEF TypeOK, log
<1>1. CASE Start(i)
  BY <1>1 DEF Start, Goto, Instance, Places
<1>2. CASE Halt(i)
  <2>1. Down \in Instance
    BY ConsumerAssumption DEF Down, Instance, Places
  <2> QED
    BY <1>2, <2>1, ConsumerAssumption DEF Halt, Fault
<1>3. ASSUME Give(i) PROVE inst' \in [Instances -> Instance] /\ owner' \in Instances
  BY <1>3 DEF Give, StartPosition, Instance
<1>4. CASE Assign(i)
  BY <1>4, <1>3 DEF Assign, Give
<1>5. CASE Rebalance(i)
  BY <1>5, <1>3, ConsumerAssumption DEF Rebalance, Give, Fault
<1>6. CASE Revoke(i)
  BY <1>6 DEF Revoke, Instance
<1> QED
  BY <1>1, <1>2, <1>4, <1>5, <1>6

LEMMA CommitsType ==
    ASSUME TypeOK, NEW i \in Instances
    PROVE  Commits(i) \in 0..LastOffset
BY DEF TypeOK, Commits, Instance

LEMMA TypeLoop ==
    ASSUME IInv, NEW i \in Instances,
           Step(i) \/ CommitFails(i) \/ CommitStaleFails(i)
    PROVE  TypeOK'
<1> USE DEF log
<1>0. TypeOK /\ InstanceInv(i)
  BY DEF IInv
<1>1. ASSUME At(i, "handle") \/ At(i, "deadLetter") PROVE inst[i].cur \in Offsets
  BY <1>0, <1>1 DEF InstanceInv, At
<1>2. CASE Receive(i)
  BY <1>0, <1>2, DeliverType DEF Receive, TypeOK, Places
<1>3. CASE ReceiveStale(i)
  <2>1. inst' \in [Instances -> Instance] /\ inst[i].pos + 1 \in Offsets
    BY <1>0, <1>3, DeliverType DEF ReceiveStale, Places
  <2> QED
    BY <1>0, <1>3, <2>1, SettleType DEF ReceiveStale, TypeOK, Fates
<1>4. CASE ReceiveInvalid(i)
  <2>1. inst' \in [Instances -> Instance] /\ inst[i].pos + 1 \in Offsets
    BY <1>0, <1>4, DeliverType DEF ReceiveInvalid, Places
  <2> QED
    BY <1>0, <1>4, <2>1, SettleType DEF ReceiveInvalid, TypeOK, Fates
<1>5. CASE ReceiveGarbage(i)
  BY <1>0, <1>5 DEF ReceiveGarbage, TypeOK, Goto, Instance, Places
<1>6. CASE Handle(i)
  BY <1>0, <1>1, <1>6, SettleType DEF Handle, TypeOK, Fates, Goto, Instance, Places
<1>7. CASE HandleFails(i)
  BY <1>0, <1>7, ConsumerAssumption
     DEF HandleFails, TypeOK, Goto, Instance, Places
<1>8. CASE SendToDlq(i)
  <2>1. fate' \in [Offsets -> SUBSET Fates] /\ repeated' \subseteq Offsets
    BY <1>0, <1>1, <1>8, SettleType DEF SendToDlq, Fates
  <2> QED
    BY <1>0, <1>8, <2>1 DEF SendToDlq, TypeOK, Goto, Instance, Places
<1>9. CASE SendToDlqFails(i)
  BY <1>0, <1>1, <1>9, SettleType
     DEF SendToDlqFails, TypeOK, Fates, Goto, Instance, Places
<1>10. CASE Commit(i) \/ CommitStale(i)
  BY <1>0, <1>10, CommitsType
     DEF Commit, CommitStale, TypeOK, Goto, Instance, Places
<1>11. CASE CommitFails(i) \/ CommitStaleFails(i) \/ CommitStaleRefused(i)
  BY <1>0, <1>11, ConsumerAssumption, CommitsType
     DEF CommitFails, CommitStaleFails, CommitStaleRefused, Fault, TypeOK, Goto,
         Instance, Places
<1> QED
  BY <1>2, <1>3, <1>4, <1>5, <1>6, <1>7, <1>8, <1>9, <1>10, <1>11 DEF Step

-----------------------------------------------------------------------------
LEMMA InvInit == Init => IInv
<1> SUFFICES ASSUME Init PROVE IInv
  OBVIOUS
<1>1. Settled = {} /\ committed = 0
  BY DEF Init, Settled
<1>2. CommittedAreSettled /\ SettledInOrder
  BY <1>1, ConsumerAssumption DEF CommittedAreSettled, SettledInOrder, Offsets
<1>3. ASSUME NEW i \in Instances PROVE InstanceInv(i)
  BY ConsumerAssumption DEF Init, InstanceInv, Down, Offsets
<1> QED
  BY <1>2, <1>3, TypeInit DEF IInv

\* A step that settles no message keeps the invariant if the instances do and
\* the committed offset stays, or becomes the position of an instance with no
\* message in hand.
LEMMA SettlesNothing ==
    ASSUME IInv, TypeOK', fate' = fate,
           \/ committed' = committed
           \/ \E i \in Instances : /\ committed' = inst[i].pos
                                   /\ inst[i].at \notin {"handle", "deadLetter"},
           \A j \in Instances : InstanceInv(j)'
    PROVE  IInv'
<1>1. Settled' = Settled
  BY DEF Settled
<1>2. SettledInOrder'
  BY <1>1 DEF IInv, SettledInOrder
<1>3. CommittedAreSettled'
  BY <1>1 DEF IInv, CommittedAreSettled, InstanceInv
<1> QED
  BY <1>2, <1>3 DEF IInv

\* A step that settles a message all of whose predecessors are settled.
LEMMA SettlesNext ==
    ASSUME IInv, TypeOK', NEW i \in Instances, NEW o \in Offsets, NEW what \in Fates,
           Settle(o, what), UNCHANGED <<committed, owner>>,
           \A p \in Offsets : p < o => p \in Settled,
           \A j \in Instances \ {i} : inst'[j] = inst[j],
           InstanceInv(i)'
    PROVE  IInv'
<1>1. Settled' = Settled \cup {o}
  BY SettleType DEF IInv
<1>2. SettledInOrder'
  BY <1>1 DEF IInv, SettledInOrder
<1>3. CommittedAreSettled'
  BY <1>1 DEF IInv, CommittedAreSettled
<1>4. ASSUME NEW j \in Instances \ {i} PROVE InstanceInv(j)'
  BY <1>1, <1>4 DEF IInv, InstanceInv
<1> QED
  BY <1>2, <1>3, <1>4 DEF IInv

LEMMA InvGroup ==
    ASSUME IInv, NEW i \in Instances,
           Start(i) \/ Halt(i) \/ Assign(i) \/ Rebalance(i) \/ Revoke(i)
    PROVE  IInv'
<1>1. TypeOK'
  BY TypeGroup DEF IInv
<1>2. fate' = fate /\ committed' = committed
  BY DEF Start, Halt, Assign, Rebalance, Give, Revoke, Fault
<1>3. Settled' = Settled
  BY <1>2 DEF Settled
<1>4. ASSUME NEW j \in Instances PROVE InstanceInv(j)'
  <2> USE <1>2, <1>3 DEF IInv, TypeOK, InstanceInv, At
  <2>1. CASE Start(i)
    BY <2>1 DEF Start, Goto
  <2>2. CASE Halt(i)
    BY <2>2, ConsumerAssumption DEF Halt, Down, Offsets
  <2>3. CASE Give(i)
    BY <2>3 DEF Give, StartPosition, CommittedAreSettled
  <2>4. CASE Revoke(i)
    BY <2>4 DEF Revoke
  <2> QED
    BY <2>1, <2>2, <2>3, <2>4 DEF Assign, Rebalance
<1> QED
  BY <1>1, <1>2, <1>4, SettlesNothing

LEMMA InvLoop ==
    ASSUME IInv, NEW i \in Instances,
           Step(i) \/ CommitFails(i) \/ CommitStaleFails(i)
    PROVE  IInv'
<1>0. TypeOK /\ TypeOK' /\ InstanceInv(i)
  BY TypeLoop DEF IInv
<1>1. inst[i] \in Instance /\ inst[i].pos \in Nat
  BY <1>0 DEF TypeOK, Instance
\* Between two messages everything up to the position is settled.
<1>2. ASSUME At(i, "poll")
      PROVE  \A p \in Offsets : p < inst[i].pos + 1 => p \in Settled
  BY <1>0, <1>1, <1>2 DEF InstanceInv, At, Offsets
\* So is everything before the message in hand.
<1>3. ASSUME At(i, "handle") \/ At(i, "deadLetter")
      PROVE  /\ inst[i].cur \in Offsets
             /\ \A p \in Offsets : p < inst[i].cur => p \in Settled
  BY <1>0, <1>3 DEF InstanceInv, At
<1>4. CASE Receive(i)
  <2>1. fate' = fate /\ committed' = committed /\ owner' = owner
    BY <1>4 DEF Receive
  <2>2. Settled' = Settled
    BY <2>1 DEF Settled
  <2>3. inst[i].pos + 1 \in Offsets
    BY <1>0, <1>4, DeliverType DEF Receive, Places
  <2>4. InstanceInv(i)'
    BY <1>0, <1>1, <1>2, <1>4, <2>1, <2>2, <2>3
       DEF Receive, Deliver, InstanceInv, TypeOK, Offsets
  <2>5. ASSUME NEW j \in Instances \ {i} PROVE InstanceInv(j)'
    BY <1>0, <1>4, <2>1, <2>2, <2>5 DEF Receive, Deliver, IInv, InstanceInv, TypeOK
  <2> QED
    BY <1>0, <2>1, <2>4, <2>5, SettlesNothing
<1>5. ASSUME NEW place \in {"poll", "commitStale"}, NEW what \in Fates,
             At(i, "poll"), inst[i].pos < LastOffset, Deliver(i, place),
             Settle(inst[i].pos + 1, what), UNCHANGED <<committed, owner>>
      PROVE  IInv'
  <2>1. inst[i].pos + 1 \in Offsets
    BY <1>0, <1>5, DeliverType DEF Places
  <2>2. Settled' = Settled \cup {inst[i].pos + 1}
    BY <1>0, <1>5, <2>1, SettleType
  <2>3. InstanceInv(i)'
    BY <1>0, <1>1, <1>2, <1>5, <2>2 DEF Deliver, InstanceInv, TypeOK, Offsets
  <2>4. \A j \in Instances \ {i} : inst'[j] = inst[j]
    BY <1>0, <1>5 DEF Deliver, TypeOK
  <2> QED
    BY <1>0, <1>2, <1>5, <2>1, <2>3, <2>4, SettlesNext
<1>6. CASE ReceiveStale(i) \/ ReceiveInvalid(i)
  BY <1>5, <1>6 DEF ReceiveStale, ReceiveInvalid, Fates
<1>7. ASSUME NEW what \in Fates, At(i, "handle") \/ At(i, "deadLetter"),
             Settle(inst[i].cur, what), Goto(i, "commit"), UNCHANGED <<committed, owner>>
      PROVE  IInv'
  <2>1. Settled' = Settled \cup {inst[i].cur}
    BY <1>0, <1>3, <1>7, SettleType
  <2>2. InstanceInv(i)'
    BY <1>0, <1>7, <2>1 DEF Goto, InstanceInv, TypeOK
  <2>3. \A j \in Instances \ {i} : inst'[j] = inst[j]
    BY <1>0, <1>7 DEF Goto, TypeOK
  <2> QED
    BY <1>0, <1>3, <1>7, <2>2, <2>3, SettlesNext
<1>8. CASE Handle(i) \/ SendToDlq(i) \/ SendToDlqFails(i)
  BY <1>7, <1>8 DEF Handle, SendToDlq, SendToDlqFails, Fates
<1>9. CASE Commit(i) \/ CommitStale(i) \/ CommitStaleFails(i)
  <2>1. fate' = fate /\ owner' = owner /\ Settled' = Settled
    BY <1>9 DEF Commit, CommitStale, CommitStaleFails, Settled
  <2>2. committed' = committed \/ (committed' = inst[i].pos /\ owner = i)
    BY <1>9 DEF Commit, CommitStale, CommitStaleFails, Commits
  <2>3. inst[i].at \notin {"handle", "deadLetter"}
    BY <1>9 DEF Commit, CommitStale, CommitStaleFails, At
  <2>4. /\ inst'[i].pos = inst[i].pos
        /\ inst'[i].at \in {"poll", "ended"}
        /\ \A j \in Instances \ {i} : inst'[j] = inst[j]
    BY <1>0, <1>9 DEF Commit, CommitStale, CommitStaleFails, Goto, TypeOK, Instance
  <2>5. InstanceInv(i)'
    BY <1>0, <1>1, <2>1, <2>2, <2>3, <2>4 DEF InstanceInv, TypeOK
  <2>6. ASSUME NEW j \in Instances \ {i} PROVE InstanceInv(j)'
    BY <2>1, <2>2, <2>4, <2>6 DEF IInv, InstanceInv
  <2>7. \/ committed' = committed
        \/ \E j \in Instances : /\ committed' = inst[j].pos
                                /\ inst[j].at \notin {"handle", "deadLetter"}
    BY <2>2, <2>3
  <2> QED
    BY <1>0, <2>1, <2>5, <2>6, <2>7, SettlesNothing
<1>10. CASE HandleFails(i) \/ ReceiveGarbage(i) \/ CommitStaleRefused(i)
            \/ CommitFails(i)
  <2>1. fate' = fate /\ committed' = committed /\ owner' = owner
    BY <1>10
       DEF HandleFails, ReceiveGarbage, CommitStaleRefused, CommitFails
  <2>2. Settled' = Settled
    BY <2>1 DEF Settled
  <2>3. /\ inst'[i].pos = inst[i].pos /\ inst'[i].cur = inst[i].cur
        /\ inst'[i].at \in {"handle", "deadLetter"} =>
              inst[i].at = "handle"
        /\ inst[i].at = "handle" => inst'[i].at \in {"handle", "deadLetter"}
        /\ inst[i].at # "deadLetter"
        /\ \A j \in Instances \ {i} : inst'[j] = inst[j]
    BY <1>0, <1>10
       DEF HandleFails, ReceiveGarbage, CommitStaleRefused, CommitFails,
           Goto, At, TypeOK, Instance
  <2>4. ASSUME NEW j \in Instances PROVE InstanceInv(j)'
    <3>1. InstanceInv(j)
      BY DEF IInv
    <3>2. CASE j = i
      BY <2>1, <2>2, <2>3, <3>1, <3>2 DEF InstanceInv
    <3>3. CASE j # i
      BY <2>1, <2>2, <2>3, <3>1, <3>3 DEF InstanceInv
    <3> QED
      BY <3>2, <3>3
  <2> QED
    BY <1>0, <2>1, <2>4, SettlesNothing
<1> QED
  BY <1>4, <1>6, <1>8, <1>9, <1>10 DEF Step

LEMMA InvStep == IInv /\ [Next]_vars => IInv'
<1> SUFFICES ASSUME IInv, [Next]_vars PROVE IInv'
  OBVIOUS
<1>1. CASE UNCHANGED vars
  BY <1>1 DEF vars, log, IInv, TypeOK, CommittedAreSettled, SettledInOrder, Settled,
              InstanceInv
<1>2. ASSUME NEW o \in Offsets, GrowOld(o) PROVE IInv'
  <2>1. TypeOK'
    BY <1>2 DEF GrowOld, IInv, TypeOK
  <2> QED
    BY <1>2, <2>1
       DEF GrowOld, IInv, CommittedAreSettled, SettledInOrder, Settled, InstanceInv
<1>3. ASSUME NEW i \in Instances,
             Start(i) \/ Assign(i) \/ Revoke(i) \/ Step(i) \/ Disturb(i)
      PROVE  IInv'
  BY <1>3, InvGroup, InvLoop DEF Disturb
<1> QED
  BY <1>1, <1>2, <1>3 DEF Next

-----------------------------------------------------------------------------
\* The inductive invariant holds in every reachable state.
THEOREM ConsumerInvariant == Spec => []IInv
BY InvInit, InvStep, PTL DEF Spec

\* Attempts never pass the retries, and positions never pass the log.
THEOREM ConsumerTypes == Spec => []TypeOK
<1>1. IInv => TypeOK
  BY DEF IInv
<1> QED
  BY <1>1, ConsumerInvariant, PTL

\* No offset is committed before something has become of its message: a crash,
\* a rebalance or a late commit never makes the group skip a message silently.
THEOREM NothingSkipped == Spec => []CommittedAreSettled
<1>1. IInv => CommittedAreSettled
  BY DEF IInv
<1> QED
  BY <1>1, ConsumerInvariant, PTL

\* Messages of a topic are settled in the order they were published, across
\* all instances of the group.
THEOREM LogOrder == Spec => []SettledInOrder
<1>1. IInv => SettledInOrder
  BY DEF IInv
<1> QED
  BY <1>1, ConsumerInvariant, PTL

\* The committed offset changes only by a commit, and only the owner's
\* position is ever committed, which is never behind.
LEMMA CommittedStep ==
    ASSUME IInv, Next
    PROVE  committed' \in Nat /\ committed <= committed'
<1>1. committed \in Nat /\ committed' \in Nat
  BY InvStep DEF IInv, TypeOK
<1>2. ASSUME NEW i \in Instances PROVE committed <= Commits(i)
  BY <1>1, <1>2 DEF Commits, IInv, InstanceInv
<1>3. committed' = committed \/ \E i \in Instances : committed' = Commits(i)
  BY DEF Next, Start, Assign, Rebalance, Give, Revoke, GrowOld, Step, Disturb, Halt,
         Receive, ReceiveStale, ReceiveInvalid, ReceiveGarbage, Handle, HandleFails,
         SendToDlq, SendToDlqFails, Commit, CommitFails, CommitStale,
         CommitStaleRefused, CommitStaleFails
<1> QED
  BY <1>1, <1>2, <1>3

\* The committed offset never moves back.
THEOREM CommitsAdvance == Spec => CommittedNeverBack
<1>1. IInv /\ [Next]_vars => [committed <= committed']_vars
  BY CommittedStep DEF vars
<1> QED
  BY <1>1, ConsumerInvariant, PTL DEF Spec, CommittedNeverBack

-----------------------------------------------------------------------------
(* Refinement of OrderedLog.                                               *)

\* A step settles one message at most, and a step that commits settles none.
LEMMA SettledStep ==
    ASSUME IInv, Next
    PROVE  \/ Settled' = Settled
           \/ committed' = committed /\ \E o \in Offsets : Settled' = Settled \cup {o}
<1>0. TypeOK
  BY DEF IInv
<1>1. CASE fate' = fate
  BY <1>1 DEF Settled
<1>2. ASSUME NEW i \in Instances, ReceiveStale(i) \/ ReceiveInvalid(i)
      PROVE  committed' = committed /\ \E o \in Offsets : Settled' = Settled \cup {o}
  <2>1. inst[i].pos + 1 \in Offsets
    BY <1>0, <1>2, DeliverType DEF ReceiveStale, ReceiveInvalid, Places
  <2> QED
    BY <1>0, <1>2, <2>1, SettleType DEF ReceiveStale, ReceiveInvalid, Fates
<1>3. ASSUME NEW i \in Instances, Handle(i) \/ SendToDlq(i) \/ SendToDlqFails(i)
      PROVE  committed' = committed /\ \E o \in Offsets : Settled' = Settled \cup {o}
  <2>1. inst[i].cur \in Offsets
    BY <1>3 DEF IInv, InstanceInv, Handle, SendToDlq, SendToDlqFails, At
  <2> QED
    BY <1>0, <1>3, <2>1, SettleType DEF Handle, SendToDlq, SendToDlqFails, Fates
<1>4. \/ fate' = fate
      \/ \E i \in Instances : \/ ReceiveStale(i) \/ ReceiveInvalid(i)
                              \/ Handle(i) \/ SendToDlq(i) \/ SendToDlqFails(i)
  BY DEF Next, Start, Assign, Rebalance, Give, Revoke, GrowOld, Step, Disturb, Halt,
         Receive, ReceiveGarbage, HandleFails, Commit, CommitFails, CommitStale,
         CommitStaleRefused, CommitStaleFails
<1> QED
  BY <1>1, <1>2, <1>3, <1>4

LEMMA LogStep == IInv /\ [Next]_vars => [Log!Next]_<<Settled, committed>>
<1> SUFFICES ASSUME IInv, Next,
                    ~(Settled' = Settled /\ committed' = committed)
             PROVE  Log!Next
  BY DEF vars, Settled
<1> USE DEF Log!Next, Log!Offsets
<1>0. IInv' /\ committed' \in 0..LastOffset /\ committed <= committed'
  <2>1. IInv'
    BY InvStep
  <2> QED
    BY <2>1, CommittedStep DEF IInv, TypeOK
<1>1. CASE Settled' = Settled
  <2>1. committed' \in Offsets
    BY <1>0, <1>1 DEF Offsets, IInv, TypeOK
  <2>2. Log!Advance(committed')
    BY <1>0, <1>1 DEF Log!Advance, IInv, CommittedAreSettled, Offsets
  <2> QED
    BY <2>1, <2>2 DEF Offsets
<1>2. CASE Settled' # Settled
  <2>1. committed' = committed
    BY <1>2, SettledStep
  <2>2. PICK o \in Offsets : Settled' = Settled \cup {o}
    BY <1>2, SettledStep
  <2>3. \A p \in Offsets : p < o => p \in Settled
    <3>1. \A p \in Offsets : p < o => p \in Settled'
      BY <1>0, <2>2 DEF IInv, SettledInOrder
    <3> QED
      BY <2>2, <3>1 DEF Offsets
  <2>4. Log!Settle(o)
    BY <2>1, <2>2, <2>3 DEF Log!Settle, Offsets
  <2> QED
    BY <2>4 DEF Offsets
<1> QED
  BY <1>1, <1>2

\* The consumer group implements the ordered log, whatever its instances, the
\* coordinator and the handlers do.
THEOREM GroupIsOrderedLog == Spec => ImplementsOrderedLog
<1>1. Init => Log!Init
  BY DEF Init, Log!Init, Settled
<1> QED
  BY <1>1, LogStep, ConsumerInvariant, PTL DEF Spec, ImplementsOrderedLog, Log!Spec

-----------------------------------------------------------------------------
\* While nothing has disturbed the group one instance has the partition for
\* good: all that is settled lies up to its position, the message in hand is
\* not settled, and no other instance has ever had a message.
Undisturbed ==
    faults = 0 =>
        /\ repeated = {}
        /\ owner = None => Settled = {}
        /\ \A i \in Instances :
            /\ owner # i => ~inst[i].mine /\ inst[i].at \in {"down", "poll"}
            /\ owner = i => \A o \in Settled : o <= inst[i].pos
            /\ owner = i /\ inst[i].at \in {"handle", "deadLetter"} =>
                inst[i].cur = inst[i].pos /\ inst[i].cur \notin Settled

LEMMA UndisturbedGroup ==
    ASSUME IInv, Undisturbed, NEW i \in Instances,
           Start(i) \/ Halt(i) \/ Assign(i) \/ Rebalance(i) \/ Revoke(i)
    PROVE  Undisturbed'
<1>1. CASE Start(i)
  BY <1>1 DEF Start, Goto, At, Undisturbed, Settled, IInv, TypeOK
<1>2. CASE Assign(i)
  <2>1. owner = None /\ owner' = i /\ UNCHANGED <<fate, repeated, faults>>
    BY <1>2 DEF Assign, Give
  <2>2. \A j \in Instances : inst'[j].at = inst[j].at /\ (j # i => inst'[j] = inst[j])
    BY <1>2 DEF Assign, Give, IInv, TypeOK, Instance
  <2>3. None \notin Instances
    BY ConsumerAssumption
  <2>4. faults = 0 => Settled = {} /\ Settled' = {}
    BY <2>1 DEF Undisturbed, Settled
  <2>5. faults = 0 => \A j \in Instances : inst[j].at \in {"down", "poll"} /\ ~inst[j].mine
    BY <2>1, <2>3 DEF Undisturbed
  <2> QED
    BY <2>1, <2>2, <2>3, <2>4, <2>5 DEF Undisturbed
<1>3. CASE Halt(i) \/ Rebalance(i)
  <2>1. faults' # 0
    BY <1>3 DEF Halt, Rebalance, Fault, IInv, TypeOK
  <2> QED
    BY <2>1 DEF Undisturbed
<1>4. CASE Revoke(i)
  BY <1>4 DEF Revoke, Undisturbed, Settled, IInv, TypeOK
<1> QED
  BY <1>1, <1>2, <1>3, <1>4

\* A step of the loop that settles nothing.
LEMMA UndisturbedQuiet ==
    ASSUME IInv, Undisturbed, NEW i \in Instances,
           UNCHANGED <<owner, fate, repeated, faults>>, owner = i \/ faults # 0,
           \A j \in Instances \ {i} : inst'[j] = inst[j],
           inst[i].pos \in Nat, inst'[i].pos \in Nat, inst[i].pos <= inst'[i].pos,
           faults = 0 /\ inst'[i].at \in {"handle", "deadLetter"} =>
                inst'[i].cur = inst'[i].pos /\ inst'[i].cur \notin Settled
    PROVE  Undisturbed'
<1>1. Settled' = Settled /\ Settled \subseteq Offsets
  BY DEF Settled
<1>2. \A o \in Settled : o \in Nat
  BY <1>1 DEF Offsets
<1> QED
  BY <1>1, <1>2 DEF Undisturbed

\* A step of the loop that settles a message for the first time.
LEMMA UndisturbedSettles ==
    ASSUME IInv, Undisturbed, NEW i \in Instances, NEW o \in Offsets, NEW what \in Fates,
           Settle(o, what), UNCHANGED owner, faults' = faults \/ faults' # 0,
           owner = i \/ faults # 0,
           \A j \in Instances \ {i} : inst'[j] = inst[j],
           inst[i].pos \in Nat, inst'[i].pos \in Nat, inst[i].pos <= inst'[i].pos,
           faults = 0 => o = inst'[i].pos /\ o \notin Settled,
           inst'[i].at \notin {"handle", "deadLetter"}
    PROVE  Undisturbed'
<1>1. Settled' = Settled \cup {o}
  BY SettleType DEF IInv
<1>2. \A p \in Settled : p \in Nat
  BY DEF Settled, Offsets
<1>3. faults = 0 => repeated' = {}
  BY DEF Settle, Settled, Undisturbed
<1>4. None \notin Instances /\ o \in Nat
  BY ConsumerAssumption DEF Offsets
<1>5. CASE faults' = 0
  <2>1. faults = 0 /\ owner = i /\ owner' = i
    BY <1>5
  <2>2. \A p \in Settled' : p <= inst'[i].pos
    BY <1>1, <1>2, <1>4, <2>1 DEF Undisturbed
  <2> QED
    BY <1>3, <1>4, <2>1, <2>2 DEF Undisturbed
<1>6. CASE faults' # 0
  BY <1>6 DEF Undisturbed
<1> QED
  BY <1>5, <1>6

LEMMA UndisturbedLoop ==
    ASSUME IInv, Undisturbed, NEW i \in Instances,
           Step(i) \/ CommitFails(i) \/ CommitStaleFails(i)
    PROVE  Undisturbed'
<1>0. /\ TypeOK
      /\ inst[i] \in Instance
      /\ inst[i].pos \in Nat
      /\ faults \in Nat
  BY ConsumerAssumption DEF IInv, TypeOK, Instance
\* Whoever has a message, or may get one, has the partition.
<1>1. inst[i].mine \/ inst[i].at \notin {"down", "poll"} => owner = i \/ faults # 0
  BY DEF Undisturbed
<1>2. owner = i /\ faults = 0 => inst[i].pos + 1 \notin Settled
  BY <1>0 DEF Undisturbed
<1>3. CASE Receive(i)
  <2>1. /\ inst'[i].at = "handle" /\ inst'[i].cur = inst[i].pos + 1
        /\ inst'[i].pos = inst[i].pos + 1
        /\ \A j \in Instances \ {i} : inst'[j] = inst[j]
    BY <1>0, <1>3 DEF Receive, Deliver, TypeOK, Instance
  <2>2. UNCHANGED <<owner, fate, repeated, faults>> /\ inst[i].mine
    BY <1>3 DEF Receive
  <2> QED
    BY <1>0, <1>1, <1>2, <2>1, <2>2, UndisturbedQuiet
<1>4. ASSUME NEW place \in {"poll", "commitStale"}, NEW what \in Fates, inst[i].mine,
             inst[i].pos < LastOffset, Deliver(i, place),
             Settle(inst[i].pos + 1, what), UNCHANGED <<owner, faults>>
      PROVE  Undisturbed'
  <2>1. inst[i].pos + 1 \in Offsets
    BY <1>0, <1>4, DeliverType DEF Places
  <2>2. /\ inst'[i].at = place /\ inst'[i].pos = inst[i].pos + 1
        /\ \A j \in Instances \ {i} : inst'[j] = inst[j]
    BY <1>0, <1>4 DEF Deliver, TypeOK, Instance
  <2> QED
    BY <1>0, <1>1, <1>2, <1>4, <2>1, <2>2, UndisturbedSettles
<1>5. CASE ReceiveStale(i) \/ ReceiveInvalid(i)
  BY <1>4, <1>5 DEF ReceiveStale, ReceiveInvalid, Fates
<1>6. ASSUME NEW what \in Fates, At(i, "handle") \/ At(i, "deadLetter"),
             Settle(inst[i].cur, what), Goto(i, "commit"), UNCHANGED owner,
             faults' = faults \/ faults' # 0
      PROVE  Undisturbed'
  <2>1. inst[i].cur \in Offsets
    BY <1>6 DEF IInv, InstanceInv, At
  <2>2. /\ inst'[i].at = "commit" /\ inst'[i].pos = inst[i].pos
        /\ \A j \in Instances \ {i} : inst'[j] = inst[j]
    BY <1>0, <1>6 DEF Goto, TypeOK, Instance
  <2>3. owner = i \/ faults # 0
    BY <1>1, <1>6 DEF At
  <2>4. faults = 0 => inst[i].cur = inst[i].pos /\ inst[i].cur \notin Settled
    BY <1>6, <2>3 DEF Undisturbed, At
  <2> QED
    BY <1>0, <1>6, <2>1, <2>2, <2>3, <2>4, UndisturbedSettles
<1>7. CASE Handle(i) \/ SendToDlq(i) \/ SendToDlqFails(i)
  <2>1. faults' = faults \/ faults' # 0
    BY <1>0, <1>7 DEF Handle, SendToDlq, SendToDlqFails, Fault
  <2> QED
    BY <1>6, <1>7, <2>1 DEF Handle, SendToDlq, SendToDlqFails, Fates
<1>8. CASE HandleFails(i)
  <2>1. /\ inst'[i].cur = inst[i].cur /\ inst'[i].pos = inst[i].pos
        /\ \A j \in Instances \ {i} : inst'[j] = inst[j]
    BY <1>0, <1>8 DEF HandleFails, TypeOK, Instance
  <2>2. UNCHANGED <<owner, fate, repeated, faults>> /\ inst[i].at = "handle"
    BY <1>8 DEF HandleFails, At
  <2> QED
    BY <1>0, <1>1, <2>1, <2>2, UndisturbedQuiet DEF Undisturbed
<1>9. CASE Commit(i) \/ CommitStale(i) \/ CommitStaleRefused(i) \/ ReceiveGarbage(i)
  <2>1. /\ inst'[i].at \in {"poll", "ended"} /\ inst'[i].pos = inst[i].pos
        /\ \A j \in Instances \ {i} : inst'[j] = inst[j]
    BY <1>0, <1>9
       DEF Commit, CommitStale, CommitStaleRefused, ReceiveGarbage, Goto, TypeOK, Instance
  <2>2. UNCHANGED <<owner, fate, repeated, faults>>
    BY <1>9 DEF Commit, CommitStale, CommitStaleRefused, ReceiveGarbage
  <2>3. inst[i].mine \/ inst[i].at \notin {"down", "poll"}
    BY <1>9 DEF Commit, CommitStale, CommitStaleRefused, ReceiveGarbage, At
  <2> QED
    BY <1>0, <1>1, <2>1, <2>2, <2>3, UndisturbedQuiet
<1>10. CASE CommitFails(i) \/ CommitStaleFails(i)
  <2>1. faults' # 0
    BY <1>0, <1>10 DEF CommitFails, CommitStaleFails, Fault
  <2> QED
    BY <2>1 DEF Undisturbed
<1> QED
  BY <1>3, <1>5, <1>7, <1>8, <1>9, <1>10 DEF Step

LEMMA UndisturbedStep == IInv /\ Undisturbed /\ [Next]_vars => Undisturbed'
<1> SUFFICES ASSUME IInv, Undisturbed, [Next]_vars PROVE Undisturbed'
  OBVIOUS
<1>1. CASE UNCHANGED vars
  BY <1>1 DEF vars, log, Undisturbed, Settled
<1>2. ASSUME NEW o \in Offsets, GrowOld(o) PROVE Undisturbed'
  BY <1>2 DEF GrowOld, Undisturbed, Settled
<1>3. ASSUME NEW i \in Instances,
             Start(i) \/ Assign(i) \/ Revoke(i) \/ Step(i) \/ Disturb(i)
      PROVE  Undisturbed'
  BY <1>3, UndisturbedGroup, UndisturbedLoop DEF Disturb
<1> QED
  BY <1>1, <1>2, <1>3 DEF Next

\* Retries alone never repeat a message: what is handled, dead-lettered or
\* dropped twice was so after a halt, a rebalance or a failed commit.
THEOREM RetriesRepeatNothing == Spec => []OnceUnlessDisturbed
<1>1. Init => Undisturbed
  BY DEF Init, Undisturbed, Settled, Down
<1>2. Undisturbed => OnceUnlessDisturbed
  BY DEF Undisturbed, OnceUnlessDisturbed
<1> QED
  BY <1>1, <1>2, UndisturbedStep, ConsumerInvariant, PTL DEF Spec
=============================================================================
