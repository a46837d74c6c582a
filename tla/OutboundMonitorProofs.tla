------------------------ MODULE OutboundMonitorProofs ------------------------
(***************************************************************************)
(* For every set of outbounds, every number of workers and every capacity  *)
(* of the queues: the flags that keep an outbound from being tested are    *)
(* backed by a task (FlagsBacked), and a stage of a cycle waits for        *)
(* exactly the results that are still to come (StageAccounting): those in  *)
(* resultCh and those of tasks that are queued, delayed or at a worker.    *)
(* MonitorInv is the inductive invariant of the first, AccountInv that of  *)
(* the second, relative to MonitorInv.                                     *)
(***************************************************************************)
EXTENDS OutboundMonitor, SequenceTheorems, FiniteSetTheorems, TLAPS

(* What a send, a receive and the removal of one element do to the         *)
(* elements of a queue of tasks.                                           *)
LEMMA QueueAppend ==
  ASSUME NEW q \in Seq(Task), NEW t \in Task
  PROVE  /\ Append(q, t) \in Seq(Task)
         /\ Elements(q) \subseteq Elements(Append(q, t))
         /\ t \in Elements(Append(q, t))
<1>1. /\ Append(q, t) \in Seq(Task) /\ Len(Append(q, t)) = Len(q) + 1
      /\ \A i \in 1 .. Len(q) : Append(q, t)[i] = q[i]
      /\ Append(q, t)[Len(q) + 1] = t
  OBVIOUS
<1> QED  BY <1>1 DEF Elements

(* A receive takes the head out of a queue and leaves the others in.       *)
LEMMA QueueTake ==
  ASSUME NEW q \in Seq(Task), q # <<>>
  PROVE  /\ Head(q) \in Task
         /\ Tail(q) \in Seq(Task)
         /\ Elements(q) \subseteq {Head(q)} \cup Elements(Tail(q))
<1>1. Head(q) \in Task /\ Tail(q) \in Seq(Task) /\ Len(Tail(q)) = Len(q) - 1
      /\ Head(q) = q[1]
  BY HeadTailProperties
<1>2. ASSUME NEW i \in 1 .. Len(q), i # 1
      PROVE  i - 1 \in 1 .. Len(Tail(q)) /\ Tail(q)[i - 1] = q[i]
  BY <1>1, <1>2
<1> QED  BY <1>1, <1>2 DEF Elements

(* A timer that fires takes its task out of `delayed': the later ones move *)
(* up by one place.                                                        *)
LEMMA Removal ==
  ASSUME NEW q \in Seq(Task), NEW k \in 1 .. Len(q)
  PROVE  LET r == SubSeq(q, 1, k - 1) \o SubSeq(q, k + 1, Len(q)) IN
         /\ r \in Seq(Task) /\ Len(r) = Len(q) - 1
         /\ \A j \in 1 .. Len(r) : r[j] = IF j < k THEN q[j] ELSE q[j + 1]
<1> DEFINE a == SubSeq(q, 1, k - 1)
           b == SubSeq(q, k + 1, Len(q))
           r == a \o b
<1>1. a \in Seq(Task) /\ Len(a) = k - 1 /\ \A i \in 1 .. k - 1 : a[i] = q[i]
  <2>1. \A i \in 1 .. k - 1 : q[i] \in Task
    BY ElementOfSeq
  <2> QED  BY <2>1, SubSeqProperties
<1>2. /\ b \in Seq(Task) /\ Len(b) = Len(q) - k
      /\ \A i \in 1 .. Len(q) - k : b[i] = q[k + i]
  <2>1. \A i \in (k + 1) .. Len(q) : q[i] \in Task
    BY ElementOfSeq
  <2> QED  BY <2>1, SubSeqProperties
<1> HIDE DEF a, b
<1>3. /\ r \in Seq(Task) /\ Len(r) = Len(a) + Len(b)
      /\ \A i \in 1 .. Len(r) :
           r[i] = IF i <= Len(a) THEN a[i] ELSE b[i - Len(a)]
  <2>1. a \in Seq(Task) /\ b \in Seq(Task)
    BY Zenon, <1>1, <1>2
  <2> QED  BY <2>1, ConcatProperties
<1>4. Len(r) = Len(q) - 1
  BY <1>1, <1>2, <1>3
<1> HIDE DEF r
<1>5. ASSUME NEW j \in 1 .. Len(r)
      PROVE  r[j] = IF j < k THEN q[j] ELSE q[j + 1]
  <2>1. CASE j < k
    BY <1>1, <1>3, <2>1
  <2>2. CASE ~(j < k)
    <3>1. r[j] = b[j - (k - 1)] /\ j - (k - 1) \in 1 .. Len(q) - k
      BY <1>1, <1>3, <1>4, <2>2
    <3>2. b[j - (k - 1)] = q[k + (j - (k - 1))] /\ k + (j - (k - 1)) = j + 1
      BY <3>1, <1>2
    <3> QED  BY Zenon, <3>1, <3>2, <2>2
  <2> QED  BY Zenon, <2>1, <2>2
<1> QED  BY Zenon, <1>3, <1>4, <1>5 DEF r, a, b

(* No other task is lost.                                                  *)
LEMMA QueueRemove ==
  ASSUME NEW q \in Seq(Task), NEW k \in 1 .. Len(q)
  PROVE  LET r == SubSeq(q, 1, k - 1) \o SubSeq(q, k + 1, Len(q)) IN
         /\ r \in Seq(Task)
         /\ Elements(q) \subseteq {q[k]} \cup Elements(r)
<1> DEFINE r == SubSeq(q, 1, k - 1) \o SubSeq(q, k + 1, Len(q))
<1>1. /\ r \in Seq(Task) /\ Len(r) = Len(q) - 1
      /\ \A j \in 1 .. Len(r) : r[j] = IF j < k THEN q[j] ELSE q[j + 1]
  BY Zenon, Removal
<1> HIDE DEF r
<1>2. \A i \in 1 .. Len(q) : i = k \/ \E j \in 1 .. Len(r) : r[j] = q[i]
  <2> TAKE i \in 1 .. Len(q)
  <2>1. CASE i < k
    <3>1. i \in 1 .. Len(r) /\ r[i] = q[i]
      BY <1>1, <2>1
    <3> QED  BY Zenon, <3>1
  <2>2. CASE i > k
    <3>1. i - 1 \in 1 .. Len(r) /\ ~(i - 1 < k) /\ (i - 1) + 1 = i
      BY <1>1, <2>2
    <3>2. r[i - 1] = q[i]
      BY Zenon, <1>1, <3>1
    <3> QED  BY Zenon, <3>1, <3>2
  <2> QED  BY <2>1, <2>2
<1>3. Elements(q) \subseteq {q[k]} \cup Elements(r)
  BY Zenon, <1>2 DEF Elements
<1> QED  BY Zenon, <1>1, <1>3 DEF r
-----------------------------------------------------------------------------
(* The initial states satisfy the invariant: no flag is up.                *)
LEMMA MonitorInvInit == Init => MonitorInv
<1> SUFFICES ASSUME Init PROVE MonitorInv
  OBVIOUS
<1>1. 0 \in 0 .. NumURLs - 1
  BY MonitorAssumption
<1>2. NoCycle \in Cycle
  BY Zenon DEF NoCycle, Cycle
<1>3. /\ wpc \in [Workers -> WPCs] /\ cpc \in CPCs
      /\ wtask \in [Workers -> Task \cup {NoTask}]
  BY Zenon DEF Init, WPCs, CPCs
<1>4. /\ priorityQueue \in Seq(Task) /\ normalQueue \in Seq(Task)
      /\ delayed \in Seq(Task) /\ resultCh \in Seq(BOOLEAN)
  BY Zenon, EmptySeq DEF Init
<1>5. TypeOK
  BY Zenon, <1>1, <1>2, <1>3, <1>4 DEF Init, TypeOK
<1> QED  BY Zenon, <1>5 DEF Init, MonitorInv, FlagsBacked

(* A step that loses no pending task and leaves the flags alone preserves  *)
(* FlagsBacked.                                                            *)
LEMMA NothingLost ==
  ASSUME FlagsBacked, Pending \subseteq Pending', UNCHANGED cancelled,
         priorityQueued' \subseteq priorityQueued, queued' \subseteq queued,
         dropped \subseteq dropped'
  PROVE  FlagsBacked'
  BY Zenon DEF FlagsBacked, Outstanding

(* enqueueTask raises a flag only with the task in the queue or, if the    *)
(* queue is full, with the outbound among the dropped ones.                *)
LEMMA EnqueueKeeps ==
  ASSUME TypeOK, FlagsBacked, NEW t \in Task,
         Accepted(t) \/ Overflow(t) \/ (Refused(t) /\ UNCHANGED dropped),
         UNCHANGED <<workerVars, delayed, cancelled>>
  PROVE  /\ invalid' = invalid /\ testing' = testing
         /\ queued' \subseteq Outbounds /\ priorityQueued' \subseteq Outbounds
         /\ enqueuedCycle' \in [Outbounds -> Nat]
         /\ priorityQueue' \in Seq(Task) /\ normalQueue' \in Seq(Task)
         /\ dropped' \subseteq Outbounds
         /\ FlagsBacked'
<1>0. t.tag \in Outbounds /\ t.cycleID \in Nat /\ t.priority \in BOOLEAN
  BY Zenon DEF Task
<1>1. CASE Accepted(t)
  <2>1. CASE t.priority
    <3>1. /\ priorityQueue' = Append(priorityQueue, t)
          /\ normalQueue' = normalQueue
          /\ priorityQueued' = priorityQueued \cup {t.tag}
          /\ UNCHANGED <<enqueuedCycle, queued, invalid, testing, dropped>>
      BY Zenon, <1>1, <2>1 DEF Accepted, Mark
    <3>2. /\ priorityQueue' \in Seq(Task)
          /\ Elements(priorityQueue) \subseteq Elements(priorityQueue')
          /\ t \in Elements(priorityQueue')
      BY Zenon, <3>1, QueueAppend DEF TypeOK
    <3>3. Pending \subseteq Pending' /\ t \in Pending'
      BY Zenon, <3>1, <3>2 DEF Pending, Elements, AtHand, workerVars
    <3>4. FlagsBacked'
      BY <3>1, <3>3, <2>1, <1>0 DEF FlagsBacked, Outstanding
    <3> QED  BY Zenon, <3>1, <3>2, <3>4, <1>0 DEF TypeOK
  <2>2. CASE ~t.priority
    <3>1. /\ normalQueue' = Append(normalQueue, t)
          /\ priorityQueue' = priorityQueue
          /\ queued' = queued \cup {t.tag}
          /\ enqueuedCycle' = [enqueuedCycle EXCEPT ![t.tag] = t.cycleID]
          /\ UNCHANGED <<priorityQueued, invalid, testing, dropped>>
      BY Zenon, <1>1, <2>2 DEF Accepted, Mark
    <3>2. /\ normalQueue' \in Seq(Task)
          /\ Elements(normalQueue) \subseteq Elements(normalQueue')
          /\ t \in Elements(normalQueue')
      BY Zenon, <3>1, QueueAppend DEF TypeOK
    <3>3. Pending \subseteq Pending' /\ t \in Pending'
      BY Zenon, <3>1, <3>2 DEF Pending, Elements, AtHand, workerVars
    <3>4. t.priority = FALSE
      BY Zenon, <2>2, <1>0
    <3>5. FlagsBacked'
      BY <3>1, <3>3, <3>4, <1>0 DEF FlagsBacked, Outstanding
    <3> QED  BY Zenon, <3>1, <3>2, <3>5, <1>0 DEF TypeOK
  <2> QED  BY Zenon, <2>1, <2>2
<1>2. CASE Overflow(t)
  <2>1. /\ UNCHANGED <<invalid, testing, priorityQueue, normalQueue>>
        /\ dropped' = dropped \cup {t.tag}
        /\ priorityQueued' \subseteq priorityQueued \cup {t.tag}
        /\ queued' \subseteq queued \cup {t.tag}
        /\ enqueuedCycle' \in [Outbounds -> Nat]
    BY Zenon, <1>2, <1>0 DEF Overflow, Mark, queues, TypeOK
  <2>2. Pending' = Pending
    BY <2>1 DEF Pending, AtHand, workerVars, Elements
  <2>3. FlagsBacked'
    BY Zenon, <2>1, <2>2 DEF FlagsBacked, Outstanding
  <2> QED  BY Zenon, <2>1, <2>3, <1>0 DEF TypeOK
<1>3. CASE Refused(t) /\ UNCHANGED dropped
  <2>1. UNCHANGED <<flags, queues, dropped>>
    BY Zenon, <1>3 DEF Refused
  <2>2. Pending' = Pending
    BY Zenon, <2>1 DEF Pending, AtHand, workerVars, Elements, queues
  <2> QED  BY Zenon, <2>1, <2>2, NothingLost DEF TypeOK, flags, queues
<1> QED  BY Zenon, <1>1, <1>2, <1>3

(* A put-off task comes back through enqueueTask or its outbound is among  *)
(* the dropped ones.                                                       *)
LEMMA RetryKeeps ==
  ASSUME MonitorInv, NEW k \in 1 .. Len(delayed), Retry(k)
  PROVE  MonitorInv'
<1> DEFINE t == [delayed[k] EXCEPT !.cycleID = @ + 1]
<1> USE DEF MonitorInv
<1>0. delayed \in Seq(Task) /\ delayed[k] \in Task
  BY Zenon, ElementOfSeq DEF TypeOK
<1>1. /\ t \in Task /\ t.tag = delayed[k].tag
      /\ t.priority = delayed[k].priority /\ t.tag \in Outbounds
  BY <1>0 DEF Task
<1> HIDE DEF t
<1>2. /\ delayed' = SubSeq(delayed, 1, k - 1) \o SubSeq(delayed, k + 1, Len(delayed))
      /\ UNCHANGED <<ready, workerVars, callerVars, cycleVars, cancelled>>
      /\ lostReplies' \in Nat
      /\ Accepted(t) \/ Overflow(t) \/ (Refused(t) /\ dropped' = dropped \cup {t.tag})
  <2>1. /\ delayed' = SubSeq(delayed, 1, k - 1) \o SubSeq(delayed, k + 1, Len(delayed))
        /\ UNCHANGED <<ready, workerVars, callerVars, cycleVars, cancelled>>
    BY Zenon DEF Retry
  <2>2. \/ Accepted(t) /\ UNCHANGED lostReplies
        \/ Overflow(t) /\ lostReplies' = lostReplies + (IF t.reply THEN 1 ELSE 0)
        \/ /\ Refused(t) /\ dropped' = dropped \cup {t.tag}
           /\ lostReplies' = lostReplies + (IF t.reply THEN 1 ELSE 0)
    BY Zenon DEF Retry, t
  <2>3. lostReplies' \in Nat
    BY <2>2 DEF TypeOK
  <2> QED  BY Zenon, <2>1, <2>2, <2>3
<1>3. /\ delayed' \in Seq(Task)
      /\ Elements(delayed) \subseteq {delayed[k]} \cup Elements(delayed')
  BY Zenon, <1>0, <1>2, QueueRemove
<1>4. CASE Accepted(t)
  <2>1. /\ invalid' = invalid /\ testing' = testing /\ dropped' = dropped
        /\ queued' \subseteq queued \cup (IF t.priority THEN {} ELSE {t.tag})
        /\ priorityQueued' \subseteq priorityQueued \cup (IF t.priority THEN {t.tag} ELSE {})
        /\ enqueuedCycle' \in [Outbounds -> Nat]
    BY Zenon, <1>4, <1>1 DEF Accepted, Mark, TypeOK, Task
  <2>2. /\ priorityQueue' \in Seq(Task) /\ normalQueue' \in Seq(Task)
        /\ Elements(priorityQueue) \subseteq Elements(priorityQueue')
        /\ Elements(normalQueue) \subseteq Elements(normalQueue')
        /\ t \in Elements(priorityQueue') \/ t \in Elements(normalQueue')
    BY Zenon, <1>4, <1>1, QueueAppend DEF Accepted, TypeOK
  <2>3. Pending \subseteq Pending' \cup {delayed[k]} /\ t \in Pending'
    BY Zenon, <2>2, <1>2, <1>3 DEF Pending, AtHand, workerVars
  <2>4. FlagsBacked'
    <3>1. SUFFICES ASSUME ~cancelled', NEW o \in Outbounds \ dropped'
                   PROVE  /\ o \in priorityQueued' => Outstanding(o, TRUE)'
                          /\ o \in queued' => Outstanding(o, FALSE)'
      BY Zenon DEF FlagsBacked
    <3>2. ~cancelled /\ o \in Outbounds \ dropped
      BY Zenon, <3>1, <2>1, <1>2
    <3>3. t.priority \in BOOLEAN
      BY Zenon, <1>1 DEF Task
    <3>4. o \in priorityQueued' => Outstanding(o, TRUE)'
      BY <3>2, <3>3, <2>1, <2>3, <1>1 DEF FlagsBacked, Outstanding
    <3>5. o \in queued' => Outstanding(o, FALSE)'
      BY <3>2, <3>3, <2>1, <2>3, <1>1 DEF FlagsBacked, Outstanding
    <3> QED  BY Zenon, <3>4, <3>5
  <2> QED
    BY Zenon, <2>1, <2>2, <2>4, <1>1, <1>2, <1>3
    DEF TypeOK, workerVars, callerVars, cycleVars
<1>5. CASE Overflow(t) \/ (Refused(t) /\ dropped' = dropped \cup {t.tag})
  <2>1. /\ UNCHANGED <<invalid, testing, priorityQueue, normalQueue>>
        /\ dropped' = dropped \cup {t.tag}
        /\ priorityQueued' \subseteq priorityQueued \cup {t.tag}
        /\ queued' \subseteq queued \cup {t.tag}
        /\ enqueuedCycle' \in [Outbounds -> Nat]
    BY Zenon, <1>5, <1>1 DEF Overflow, Refused, Mark, queues, flags, TypeOK, Task
  <2>2. Pending \subseteq Pending' \cup {delayed[k]}
    BY Zenon, <2>1, <1>2, <1>3 DEF Pending, AtHand, workerVars
  <2>3. FlagsBacked'
    BY <2>1, <2>2, <1>1, <1>2 DEF FlagsBacked, Outstanding
  <2> QED
    BY Zenon, <2>1, <2>3, <1>1, <1>2, <1>3 DEF TypeOK, workerVars, callerVars, cycleVars
<1> QED  BY Zenon, <1>2, <1>4, <1>5

(* Every step preserves the invariant, for any constants.                  *)
LEMMA MonitorInvStep == MonitorInv /\ [Next]_vars => MonitorInv'
<1> SUFFICES ASSUME MonitorInv, [Next]_vars PROVE MonitorInv'
  OBVIOUS
<1> USE DEF MonitorInv
<1>t. TypeOK /\ FlagsBacked
  OBVIOUS
<1>u. /\ todo \subseteq [tag : Outbounds, priority : BOOLEAN]
      /\ calls \in Nat /\ invalid \subseteq Outbounds
      /\ cycleSeq \in Nat /\ cpc \in CPCs /\ cycle \in Cycle
      /\ resultCh \in Seq(BOOLEAN) /\ currentLinkIndex \in 0 .. NumURLs - 1
  BY Zenon, <1>t DEF TypeOK
<1>1. ASSUME NEW t \in Tags, TestNow(t) PROVE MonitorInv'
  <2>1. todo' \subseteq [tag : Outbounds, priority : BOOLEAN] /\ calls' \in Nat
    BY <1>1, <1>t DEF TestNow, TypeOK, Request
  <2>2. UNCHANGED <<flags, ready, queues, workerVars, delayed, request,
                    cycleVars, cancelled, historyVars>>
    BY Zenon, <1>1 DEF TestNow
  <2>3. Pending' = Pending
    BY Zenon, <2>2 DEF Pending, Elements, AtHand, queues, workerVars
  <2>4. FlagsBacked'
    BY Zenon, <2>2, <2>3, NothingLost DEF flags, historyVars
  <2> QED
    BY Zenon, <2>1, <2>2, <2>4
    DEF TypeOK, flags, queues, workerVars, cycleVars, historyVars
<1>2. ASSUME NEW o \in Outbounds, InvalidateTest(o) PROVE MonitorInv'
  <2>1. /\ todo' \subseteq [tag : Outbounds, priority : BOOLEAN]
        /\ calls' \in Nat /\ invalid' \subseteq Outbounds
    <3>1. [tag |-> o, priority |-> TRUE] \in [tag : Outbounds, priority : BOOLEAN]
      OBVIOUS
    <3>2. /\ todo' = todo \cup {[tag |-> o, priority |-> TRUE]}
          /\ calls' = calls + 1 /\ invalid' = invalid \cup {o}
      BY Zenon, <1>2 DEF InvalidateTest
    <3>3. todo' \subseteq [tag : Outbounds, priority : BOOLEAN]
      <4> HIDE DEF MonitorInv
      <4> DEFINE R == [tag : Outbounds, priority : BOOLEAN]
                 r == [tag |-> o, priority |-> TRUE]
      <4>1. r \in R /\ todo \subseteq R /\ todo' = todo \cup {r}
        BY Zenon, <3>1, <3>2, <1>u
      <4> HIDE DEF R, r
      <4>2. todo' \subseteq R
        BY Zenon, <4>1
      <4> QED  BY Zenon, <4>2 DEF R
    <3>4. calls' \in Nat /\ invalid' \subseteq Outbounds
      BY <3>2, <1>u
    <3> QED  BY Zenon, <3>3, <3>4
  <2>2. UNCHANGED <<queued, priorityQueued, testing, enqueuedCycle, ready,
                    queues, workerVars, delayed, request, cycleVars, cancelled,
                    historyVars>>
    BY Zenon, <1>2 DEF InvalidateTest
  <2>3. Pending' = Pending
    BY Zenon, <2>2 DEF Pending, Elements, AtHand, queues, workerVars
  <2>4. FlagsBacked'
    BY Zenon, <2>2, <2>3, NothingLost DEF historyVars
  <2> QED
    BY Zenon, <2>1, <2>2, <2>4 DEF TypeOK, queues, workerVars, cycleVars, historyVars
<1>3. ASSUME NEW o \in Outbounds, BecomeReady(o) \/ BecomeUnready(o)
      PROVE  MonitorInv'
  <2>1. ready' \subseteq Outbounds
    BY Zenon, <1>3, <1>t DEF BecomeReady, BecomeUnready, TypeOK
  <2>2. UNCHANGED <<flags, queues, workerVars, delayed, callerVars, cycleVars,
                    cancelled, historyVars>>
    BY Zenon, <1>3 DEF BecomeReady, BecomeUnready
  <2>3. Pending' = Pending
    BY Zenon, <2>2 DEF Pending, Elements, AtHand, queues, workerVars
  <2>4. FlagsBacked'
    BY Zenon, <2>2, <2>3, NothingLost DEF flags, historyVars
  <2> QED
    BY Zenon, <2>1, <2>2, <2>4
    DEF TypeOK, flags, queues, workerVars, callerVars, cycleVars, historyVars
<1>4. ASSUME NEW r \in todo, MakeTask(r) PROVE MonitorInv'
  <2>1. r \in [tag : Outbounds, priority : BOOLEAN] /\ cycleSeq \in Nat
    BY Zenon, <1>t DEF TypeOK
  <2>2. request' \in Task /\ todo' \subseteq todo
    BY Zenon, <1>4, <2>1 DEF MakeTask, Task
  <2>3. UNCHANGED <<flags, ready, queues, workerVars, delayed, calls,
                    cycleVars, cancelled, historyVars>>
    BY Zenon, <1>4 DEF MakeTask
  <2>4. Pending' = Pending
    BY Zenon, <2>3 DEF Pending, Elements, AtHand, queues, workerVars
  <2>5. FlagsBacked'
    BY Zenon, <2>3, <2>4, NothingLost DEF flags, historyVars
  <2> QED
    BY Zenon, <2>2, <2>3, <2>5
    DEF TypeOK, flags, queues, workerVars, cycleVars, historyVars
<1>5. ASSUME EnqueueRequest PROVE MonitorInv'
  <2>1. request \in Task
    BY Zenon, <1>5, <1>t DEF EnqueueRequest, TypeOK
  <2>2. /\ Accepted(request) \/ Overflow(request)
             \/ (Refused(request) /\ UNCHANGED dropped)
        /\ request' = NoTask
        /\ UNCHANGED <<ready, workerVars, delayed, todo, calls, cycleVars,
                       cancelled, lostReplies>>
    BY Zenon, <1>5 DEF EnqueueRequest
  <2>3. /\ invalid' = invalid /\ testing' = testing
        /\ queued' \subseteq Outbounds /\ priorityQueued' \subseteq Outbounds
        /\ enqueuedCycle' \in [Outbounds -> Nat]
        /\ priorityQueue' \in Seq(Task) /\ normalQueue' \in Seq(Task)
        /\ dropped' \subseteq Outbounds
        /\ FlagsBacked'
    BY Zenon, <2>1, <2>2, EnqueueKeeps
  <2> QED  BY Zenon, <2>2, <2>3 DEF TypeOK, workerVars, cycleVars
<1>6. ASSUME NEW o \in Outbounds, StageEnqueue(o) PROVE MonitorInv'
  <2> DEFINE t == [tag |-> o, cycleID |-> cycle.id, priority |-> FALSE,
                   reply |-> TRUE]
  <2>1. t \in Task /\ cycle \in Cycle
    BY Zenon, <1>t DEF TypeOK, Cycle, Task
  <2>2. /\ Accepted(t) \/ Overflow(t) \/ (Refused(t) /\ UNCHANGED dropped)
        /\ \/ cycle' = [cycle EXCEPT !.todo = @ \ {o}, !.expected = @ + 1]
           \/ cycle' = [cycle EXCEPT !.todo = @ \ {o}]
        /\ UNCHANGED <<ready, workerVars, delayed, callerVars, cycleSeq, cpc,
                       resultCh, currentLinkIndex, cancelled, lostReplies>>
    BY Zenon, <1>6 DEF StageEnqueue
  <2>3. cycle' \in Cycle
    <3>1. cycle.todo \ {o} \subseteq Outbounds /\ cycle.expected + 1 \in Nat
      BY <2>1 DEF Cycle
    <3>2. CASE cycle' = [cycle EXCEPT !.todo = @ \ {o}, !.expected = @ + 1]
      BY Zenon, <3>1, <3>2, <2>1 DEF Cycle
    <3>3. CASE cycle' = [cycle EXCEPT !.todo = @ \ {o}]
      BY Zenon, <3>1, <3>3, <2>1 DEF Cycle
    <3> QED  BY Zenon, <3>2, <3>3, <2>2
  <2> HIDE DEF t
  <2>4. /\ invalid' = invalid /\ testing' = testing
        /\ queued' \subseteq Outbounds /\ priorityQueued' \subseteq Outbounds
        /\ enqueuedCycle' \in [Outbounds -> Nat]
        /\ priorityQueue' \in Seq(Task) /\ normalQueue' \in Seq(Task)
        /\ dropped' \subseteq Outbounds
        /\ FlagsBacked'
    BY Zenon, <2>1, <2>2, EnqueueKeeps
  <2> QED  BY Zenon, <2>2, <2>3, <2>4 DEF TypeOK, workerVars, callerVars
<1>7. ASSUME NEW w \in Workers, TakePriority(w) \/ TakeNormal(w)
      PROVE  MonitorInv'
  <2>1. /\ wpc[w] \in {"outer", "inner"}
        /\ UNCHANGED <<flags, ready, delayed, callerVars, cycleVars, cancelled,
                       historyVars>>
        /\ \/ /\ priorityQueue # <<>> /\ Take(w, Head(priorityQueue))
              /\ priorityQueue' = Tail(priorityQueue) /\ normalQueue' = normalQueue
           \/ /\ normalQueue # <<>> /\ Take(w, Head(normalQueue))
              /\ normalQueue' = Tail(normalQueue) /\ priorityQueue' = priorityQueue
    BY Zenon, <1>7 DEF TakePriority, TakeNormal
  <2>2. PICK t \in Task :
          /\ priorityQueue' \in Seq(Task) /\ normalQueue' \in Seq(Task)
          /\ wpc' = [wpc EXCEPT ![w] = "start"]
          /\ wtask' = [wtask EXCEPT ![w] = t]
          /\ Elements(priorityQueue) \subseteq {t} \cup Elements(priorityQueue')
          /\ Elements(normalQueue) \subseteq {t} \cup Elements(normalQueue')
    BY Zenon, <2>1, <1>t, QueueTake DEF TypeOK, Take
  <2>3. /\ wpc' \in [Workers -> WPCs] /\ wpc'[w] = "start" /\ wtask'[w] = t
        /\ wtask' \in [Workers -> Task \cup {NoTask}]
        /\ \A v \in Workers \ {w} : wpc'[v] = wpc[v] /\ wtask'[v] = wtask[v]
    BY Zenon, <2>2, <1>t DEF TypeOK, WPCs
  <2>4. Pending \subseteq Pending'
    <3>1. \A v \in Workers : AtHand(v) => AtHand(v)' /\ wtask'[v] = wtask[v]
      BY Zenon, <2>1, <2>3 DEF AtHand
    <3>2. AtHand(w)' /\ delayed' = delayed
      BY Zenon, <2>1, <2>3 DEF AtHand
    <3>3. t \in Pending'
      BY Zenon, <3>2, <2>3 DEF Pending
    <3> QED  BY Zenon, <3>1, <3>2, <3>3, <2>2 DEF Pending
  <2>5. FlagsBacked'
    BY Zenon, <2>1, <2>4, <1>t, NothingLost DEF flags, historyVars
  <2> QED
    BY Zenon, <2>1, <2>2, <2>3, <2>5
    DEF TypeOK, flags, callerVars, cycleVars, historyVars
<1>8. ASSUME NEW w \in Workers, NoPriority(w) \/ WorkerExit(w) \/ SkipTask(w)
      PROVE  MonitorInv'
  <2>1. UNCHANGED <<flags, ready, queues, delayed, callerVars, cycleVars,
                    cancelled, historyVars>>
    BY Zenon, <1>8 DEF NoPriority, WorkerExit, SkipTask
  <2>2. \E p \in {"inner", "exit", "outer"} : wpc' = [wpc EXCEPT ![w] = p]
    BY Zenon, <1>8 DEF NoPriority, WorkerExit, SkipTask
  <2>3. wtask' \in [Workers -> Task \cup {NoTask}]
        /\ \A v \in Workers \ {w} : wtask'[v] = wtask[v]
    BY Zenon, <1>8, <1>t DEF NoPriority, WorkerExit, SkipTask, TypeOK
  <2>4. /\ wpc' \in [Workers -> WPCs] /\ wpc'[w] \in {"inner", "exit", "outer"}
        /\ \A v \in Workers \ {w} : wpc'[v] = wpc[v]
    BY Zenon, <2>2, <1>t DEF TypeOK, WPCs
  <2>5. FlagsBacked'
    <3>1. CASE SkipTask(w)
      BY <3>1, <2>1 DEF SkipTask, FlagsBacked
    <3>2. CASE NoPriority(w) \/ WorkerExit(w)
      <4>1. \A v \in Workers : AtHand(v) => AtHand(v)' /\ wtask'[v] = wtask[v]
        BY Zenon, <3>2, <2>3, <2>4 DEF NoPriority, WorkerExit, AtHand
      <4>2. Pending \subseteq Pending'
        BY Zenon, <4>1, <2>1 DEF Pending, queues, Elements
      <4> QED  BY Zenon, <4>2, <2>1, <1>t, NothingLost DEF flags, historyVars
    <3> QED  BY Zenon, <3>1, <3>2, <1>8
  <2> QED
    BY Zenon, <2>1, <2>3, <2>4, <2>5
    DEF TypeOK, flags, queues, callerVars, cycleVars, historyVars
<1>9. ASSUME NEW w \in Workers, ExecuteTask(w) PROVE MonitorInv'
  <2>1. wpc[w] = "start" /\ wtask[w] \in Task /\ wtask[w].tag \in Outbounds
    BY Zenon, <1>9 DEF ExecuteTask, Task
  <2>2. /\ UNCHANGED <<invalid, queued, priorityQueued, enqueuedCycle, ready,
                       queues, wtask, callerVars, cycleVars, cancelled,
                       historyVars>>
        /\ testing' \subseteq Outbounds
    BY Zenon, <1>9, <2>1, <1>t DEF ExecuteTask, TypeOK
  <2>3. CASE /\ delayed' = Append(delayed, wtask[w])
             /\ wpc' = [wpc EXCEPT ![w] = "finish"]
    <3>1. /\ wpc' \in [Workers -> WPCs] /\ wpc'[w] = "finish"
          /\ \A v \in Workers \ {w} : wpc'[v] = wpc[v]
      BY Zenon, <2>3, <1>t DEF TypeOK, WPCs
    <3>2. /\ delayed' \in Seq(Task) /\ wtask[w] \in Elements(delayed')
          /\ Elements(delayed) \subseteq Elements(delayed')
      BY Zenon, <2>1, <2>3, <1>t, QueueAppend DEF TypeOK
    <3>3. Pending \subseteq Pending'
      <4>1. \A v \in Workers \ {w} : AtHand(v) => AtHand(v)' /\ wtask'[v] = wtask[v]
        BY Zenon, <2>2, <3>1 DEF AtHand
      <4> QED  BY Zenon, <4>1, <3>2, <2>2 DEF Pending, queues, Elements
    <3>4. FlagsBacked'
      BY Zenon, <3>3, <2>2, <1>t, NothingLost DEF historyVars
    <3> QED
      BY Zenon, <2>1, <2>2, <3>1, <3>2, <3>4
      DEF TypeOK, queues, callerVars, cycleVars, historyVars
  <2>4. CASE wpc' = [wpc EXCEPT ![w] = "test"] /\ UNCHANGED delayed
    <3>1. /\ wpc' \in [Workers -> WPCs] /\ wpc'[w] = "test"
          /\ \A v \in Workers \ {w} : wpc'[v] = wpc[v]
      BY Zenon, <2>4, <1>t DEF TypeOK, WPCs
    <3>2. \A v \in Workers : AtHand(v) => AtHand(v)' /\ wtask'[v] = wtask[v]
      BY Zenon, <2>2, <3>1 DEF AtHand
    <3>3. Pending \subseteq Pending'
      BY Zenon, <3>2, <2>2, <2>4 DEF Pending, queues, Elements
    <3>4. FlagsBacked'
      BY Zenon, <3>3, <2>2, <1>t, NothingLost DEF historyVars
    <3> QED
      BY Zenon, <2>1, <2>2, <2>4, <3>1, <3>4
      DEF TypeOK, queues, callerVars, cycleVars, historyVars
  <2> QED  BY Zenon, <1>9, <2>3, <2>4 DEF ExecuteTask
<1>10. ASSUME NEW w \in Workers, ApplyResult(w) PROVE MonitorInv'
  <2>1. wpc[w] = "test" /\ wtask[w] \in Task /\ wtask[w].tag \in Outbounds
    BY Zenon, <1>10 DEF ApplyResult, Task
  <2> DEFINE o == wtask[w].tag
  <2>2. /\ queued' = queued \ {o} /\ priorityQueued' = priorityQueued \ {o}
        /\ enqueuedCycle' = [enqueuedCycle EXCEPT ![o] = 0]
        /\ dropped' = dropped \ {o}
        /\ wpc' = [wpc EXCEPT ![w] = "finish"]
        /\ UNCHANGED <<testing, ready, queues, wtask, delayed, callerVars,
                       cycleSeq, cpc, cycle, currentLinkIndex, cancelled,
                       lostReplies>>
    BY Zenon, <1>10 DEF ApplyResult
  <2>3. invalid' \subseteq Outbounds /\ resultCh' \in Seq(BOOLEAN)
    <3>1. PICK ok \in BOOLEAN :
            /\ invalid' = IF ok THEN invalid \ {o} ELSE invalid \cup {o}
            /\ Reply(wtask[w], ok)
      BY Zenon, <1>10 DEF ApplyResult
    <3>2. resultCh \in Seq(BOOLEAN) /\ Append(resultCh, ok) \in Seq(BOOLEAN)
      BY Zenon, <1>t, AppendProperties DEF TypeOK
    <3>3. resultCh' \in Seq(BOOLEAN)
      BY Zenon, <3>1, <3>2 DEF Reply
    <3> QED  BY Zenon, <3>1, <3>3, <2>1, <1>t DEF TypeOK
  <2>4. /\ wpc' \in [Workers -> WPCs] /\ wpc'[w] = "finish"
        /\ \A v \in Workers \ {w} : wpc'[v] = wpc[v]
    BY Zenon, <2>2, <1>t DEF TypeOK, WPCs
  <2>5. \A t \in Pending : t.tag # o => t \in Pending'
    <3>1. \A v \in Workers \ {w} : AtHand(v) => AtHand(v)' /\ wtask'[v] = wtask[v]
      BY Zenon, <2>2, <2>4 DEF AtHand
    <3> QED  BY Zenon, <3>1, <2>2 DEF Pending, queues, Elements
  <2>6. FlagsBacked'
    BY Zenon, <2>1, <2>2, <2>5, <1>t DEF FlagsBacked, Outstanding
  <2>7. enqueuedCycle' \in [Outbounds -> Nat]
    BY Zenon, <2>1, <2>2, <1>t DEF TypeOK
  <2> QED
    BY Zenon, <2>1, <2>2, <2>3, <2>4, <2>6, <2>7 DEF TypeOK, queues, callerVars
<1>11. ASSUME NEW w \in Workers, Abandon(w) PROVE MonitorInv'
  <2>1. /\ cancelled /\ wpc[w] = "test" /\ wpc' = [wpc EXCEPT ![w] = "finish"]
        /\ UNCHANGED <<flags, ready, queues, wtask, delayed, callerVars,
                       cycleVars, cancelled, historyVars>>
    BY Zenon, <1>11 DEF Abandon
  <2>2. /\ wpc' \in [Workers -> WPCs] /\ wpc'[w] = "finish"
        /\ \A v \in Workers \ {w} : wpc'[v] = wpc[v]
    BY Zenon, <2>1, <1>t DEF TypeOK, WPCs
  <2>3. FlagsBacked'
    BY Zenon, <2>1 DEF FlagsBacked
  <2> QED
    BY Zenon, <2>1, <2>2, <2>3
    DEF TypeOK, flags, queues, callerVars, cycleVars, historyVars
<1>12. ASSUME NEW w \in Workers, Finish(w) PROVE MonitorInv'
  <2>1. /\ wpc[w] = "finish" /\ wpc' = [wpc EXCEPT ![w] = "outer"]
        /\ wtask' = [wtask EXCEPT ![w] = NoTask]
        /\ testing' \subseteq testing
        /\ UNCHANGED <<invalid, queued, priorityQueued, enqueuedCycle, ready,
                       queues, delayed, callerVars, cycleVars, cancelled,
                       historyVars>>
    BY Zenon, <1>12 DEF Finish
  <2>2. /\ wpc' \in [Workers -> WPCs] /\ wpc'[w] = "outer"
        /\ wtask' \in [Workers -> Task \cup {NoTask}]
        /\ \A v \in Workers \ {w} : wpc'[v] = wpc[v] /\ wtask'[v] = wtask[v]
    BY Zenon, <2>1, <1>t DEF TypeOK, WPCs
  <2>3. \A v \in Workers : AtHand(v) => AtHand(v)' /\ wtask'[v] = wtask[v]
    BY Zenon, <2>1, <2>2 DEF AtHand
  <2>4. Pending \subseteq Pending'
    BY Zenon, <2>1, <2>3 DEF Pending, queues, Elements
  <2>5. FlagsBacked'
    BY Zenon, <2>1, <2>4, <1>t, NothingLost DEF historyVars
  <2> QED
    BY Zenon, <2>1, <2>2, <2>5 DEF TypeOK, queues, callerVars, cycleVars, historyVars
<1>13. ASSUME NEW k \in 1 .. Len(delayed), Retry(k) PROVE MonitorInv'
  BY Zenon, <1>13, RetryKeeps
<1>14. ASSUME StartCycleOnce \/ CollectCycleTargets \/ StageReceive \/ StageEnd
       PROVE  MonitorInv'
  <2>1. UNCHANGED <<flags, ready, queues, workerVars, delayed, callerVars,
                    cancelled, historyVars>>
    BY Zenon, <1>14 DEF StartCycleOnce, CollectCycleTargets, StageReceive, StageEnd
  <2>2. cycleSeq' \in Nat /\ cpc' \in CPCs
    <3>1. cycleSeq' \in {cycleSeq, cycleSeq + 1}
      BY Zenon, <1>14 DEF StartCycleOnce, CollectCycleTargets, StageReceive, StageEnd
    <3>2. cpc' \in {cpc, "idle", "collect", "stage"}
      BY Zenon, <1>14 DEF StartCycleOnce, CollectCycleTargets, StageReceive, StageEnd
    <3> QED  BY <3>1, <3>2, <1>u DEF CPCs
  <2>3. NoCycle \in Cycle /\ cycle \in Cycle
    BY Zenon, <1>t DEF TypeOK, NoCycle, Cycle
  <2>4. cycle' \in Cycle
    <3>1. CASE StartCycleOnce
      <4>1. cycle' = [NoCycle EXCEPT !.id = cycleSeq']
        BY Zenon, <3>1 DEF StartCycleOnce
      <4> QED  BY Zenon, <4>1, <2>2, <2>3 DEF Cycle
    <3>2. CASE CollectCycleTargets
      <4>1. PICK tags \in SUBSET Outbounds :
              cycle' = NoCycle \/ cycle' = [cycle EXCEPT !.tags = tags, !.todo = tags]
        BY Zenon, <3>2 DEF CollectCycleTargets, Eligible
      <4> QED  BY Zenon, <4>1, <2>3 DEF Cycle
    <3>3. CASE StageReceive
      <4>1. PICK b \in BOOLEAN :
              cycle' = [cycle EXCEPT !.expected = @ - 1, !.success = b]
        <5>1. resultCh \in Seq(BOOLEAN) /\ resultCh # <<>>
          BY Zenon, <3>3, <1>t DEF StageReceive, TypeOK
        <5>2. Head(resultCh) \in BOOLEAN /\ cycle.success \in BOOLEAN
          BY Zenon, <5>1, <2>3, HeadTailProperties DEF Cycle
        <5>3. (cycle.success \/ Head(resultCh)) \in BOOLEAN
          BY Zenon
        <5>4. cycle' = [cycle EXCEPT !.expected = @ - 1,
                                     !.success = @ \/ Head(resultCh)]
          BY Zenon, <3>3 DEF StageReceive
        <5> QED  BY Zenon, <5>3, <5>4
      <4>2. cycle.expected - 1 \in Nat
        <5>1. cycle.expected > 0 /\ cycle.expected \in Nat
          BY Zenon, <3>3, <2>3 DEF StageReceive, Cycle
        <5> QED  BY <5>1
      <4> QED  BY Zenon, <4>1, <4>2, <2>3 DEF Cycle
    <3>4. CASE StageEnd
      <4>1. \/ cycle' = NoCycle
            \/ cycle' = [cycle EXCEPT !.todo = cycle.tags, !.expected = 0,
                                      !.success = FALSE, !.url = @ + 1]
        BY Zenon, <3>4 DEF StageEnd
      <4>2. cycle.url + 1 \in Nat /\ cycle.tags \in SUBSET Outbounds
        BY <2>3 DEF Cycle
      <4>3. ASSUME cycle' = [cycle EXCEPT !.todo = cycle.tags, !.expected = 0,
                                          !.success = FALSE, !.url = @ + 1]
            PROVE  cycle' \in Cycle
        BY Zenon, <4>2, <4>3, <2>3 DEF Cycle
      <4> QED  BY Zenon, <4>1, <4>3, <2>3
    <3> QED  BY Zenon, <1>14, <3>1, <3>2, <3>3, <3>4
  <2>5. resultCh' \in Seq(BOOLEAN)
    <3>1. \/ resultCh' = resultCh \/ resultCh' = <<>>
          \/ resultCh # <<>> /\ resultCh' = Tail(resultCh)
      BY Zenon, <1>14 DEF StartCycleOnce, CollectCycleTargets, StageReceive, StageEnd
    <3>2. resultCh # <<>> => Tail(resultCh) \in Seq(BOOLEAN)
      BY Zenon, <1>u, HeadTailProperties
    <3> QED  BY Zenon, <3>1, <3>2, <1>u, EmptySeq
  <2>6. currentLinkIndex' \in 0 .. NumURLs - 1
    <3>1. currentLinkIndex' \in {currentLinkIndex, (currentLinkIndex + 1) % NumURLs}
      BY Zenon, <1>14 DEF StartCycleOnce, CollectCycleTargets, StageReceive, StageEnd
    <3>2. NumURLs \in Nat \ {0}
      BY Zenon, MonitorAssumption
    <3>3. (currentLinkIndex + 1) % NumURLs \in 0 .. NumURLs - 1
      BY <3>2, <1>u
    <3> QED  BY Zenon, <3>1, <3>3, <1>u
  <2>7. Pending' = Pending
    BY Zenon, <2>1 DEF Pending, Elements, AtHand, queues, workerVars
  <2>8. FlagsBacked'
    BY Zenon, <2>1, <2>7, <1>t, NothingLost DEF flags, historyVars
  <2> QED
    BY Zenon, <2>1, <2>2, <2>4, <2>5, <2>6, <2>8
    DEF TypeOK, flags, queues, workerVars, callerVars, historyVars
<1>15. ASSUME Cancel PROVE MonitorInv'
  <2>1. /\ cancelled' = TRUE
        /\ UNCHANGED <<flags, ready, queues, workerVars, delayed, callerVars,
                       cycleVars, historyVars>>
    BY Zenon, <1>15 DEF Cancel
  <2> QED
    BY Zenon, <2>1 DEF FlagsBacked, TypeOK, flags, queues, workerVars, callerVars,
                cycleVars, historyVars
<1>16. ASSUME UNCHANGED vars PROVE MonitorInv'
  <2>1. Pending' = Pending
    BY Zenon, <1>16 DEF vars, Pending, Elements, AtHand, queues, workerVars
  <2>2. FlagsBacked'
    BY Zenon, <1>16, <2>1, <1>t, NothingLost DEF vars, flags, historyVars
  <2> QED
    BY Zenon, <1>16, <2>2 DEF vars, TypeOK, flags, queues, workerVars, callerVars,
                       cycleVars, historyVars
<1> QED
  BY Zenon, <1>1, <1>2, <1>3, <1>4, <1>5, <1>6, <1>7, <1>8, <1>9, <1>10, <1>11, <1>12,
     <1>13, <1>14, <1>15, <1>16 DEF Next, CallerStep, WorkerStep, CycleStep
-----------------------------------------------------------------------------
(* In every reachable state of the monitor a flag that is up has its task  *)
(* on the way, unless the task was dropped.                                *)
THEOREM MonitorFlagsBacked == Spec => []FlagsBacked
<1>1. MonitorInv => FlagsBacked
  BY Zenon DEF MonitorInv
<1> QED  BY <1>1, MonitorInvInit, MonitorInvStep, PTL DEF Spec
-----------------------------------------------------------------------------
(* How the operations on a queue change the number of tasks in it that     *)
(* want a reply.                                                           *)
Want(t) == IF t.reply THEN 1 ELSE 0

(* The tasks that want a reply can be counted.                             *)
LEMMA ReplyCount ==
  ASSUME NEW q \in Seq(Task)
  PROVE  /\ IsFiniteSet({i \in 1 .. Len(q) : q[i].reply})
         /\ ReplyTasks(q) \in Nat
<1>1. IsFiniteSet(1 .. Len(q))
  BY FS_Interval, LenProperties
<1>2. IsFiniteSet({i \in 1 .. Len(q) : q[i].reply})
  BY Zenon, <1>1, FS_Subset
<1> QED  BY Zenon, <1>2, FS_CardinalityType DEF ReplyTasks

(* A send adds one task.                                                   *)
LEMMA ReplyAppend ==
  ASSUME NEW q \in Seq(Task), NEW t \in Task
  PROVE  /\ ReplyTasks(Append(q, t)) = ReplyTasks(q) + Want(t)
         /\ Elements(Append(q, t)) = Elements(q) \cup {t}
<1> DEFINE r == Append(q, t)
           A == {i \in 1 .. Len(q) : q[i].reply}
           B == {i \in 1 .. Len(r) : r[i].reply}
           n == Len(q) + 1
<1>1. /\ r \in Seq(Task) /\ Len(r) = n /\ Len(q) \in Nat
      /\ \A i \in 1 .. Len(q) : r[i] = q[i]
      /\ r[n] = t
  OBVIOUS
<1>2. t.reply \in BOOLEAN /\ n \notin A
  BY <1>1 DEF Task
<1>3. IsFiniteSet(A) /\ ReplyTasks(q) = Cardinality(A) /\ ReplyTasks(r) = Cardinality(B)
      /\ Cardinality(A) \in Nat
  BY Zenon, ReplyCount DEF ReplyTasks
<1>4. Elements(r) = Elements(q) \cup {t}
  BY <1>1 DEF Elements
<1>5. CASE t.reply
  <2>1. B = A \cup {n}
    BY <1>1, <1>5
  <2> HIDE DEF A, B, n, r
  <2>2. Cardinality(B) = Cardinality(A) + 1
    BY Zenon, <1>2, <1>3, <2>1, FS_AddElement
  <2> QED  BY Zenon, <1>3, <1>4, <1>5, <2>2 DEF Want, r
<1>6. CASE ~t.reply
  <2>1. B = A
    BY <1>1, <1>6
  <2> HIDE DEF A, B
  <2> QED  BY <1>3, <1>4, <1>6, <2>1 DEF Want
<1> QED  BY Zenon, <1>2, <1>5, <1>6

(* What is left of a queue without its k-th task has one task less.        *)
LEMMA ReplyDrop ==
  ASSUME NEW q \in Seq(Task), NEW r \in Seq(Task), NEW k \in 1 .. Len(q),
         Len(r) = Len(q) - 1,
         \A j \in 1 .. Len(r) : r[j] = IF j < k THEN q[j] ELSE q[j + 1]
  PROVE  /\ ReplyTasks(q) = ReplyTasks(r) + Want(q[k])
         /\ Elements(r) \subseteq Elements(q) /\ q[k] \in Elements(q)
<1> DEFINE A == {i \in 1 .. Len(q) : q[i].reply}
           B == {i \in 1 .. Len(r) : r[i].reply}
           f == [i \in A \ {k} |-> IF i < k THEN i ELSE i - 1]
<1>0. Len(q) \in Nat /\ Len(r) \in Nat /\ k \in Nat
  BY LenProperties
<1>1. /\ IsFiniteSet(A) /\ ReplyTasks(q) = Cardinality(A) /\ Cardinality(A) \in Nat
      /\ IsFiniteSet(B) /\ ReplyTasks(r) = Cardinality(B) /\ Cardinality(B) \in Nat
  BY Zenon, ReplyCount DEF ReplyTasks
<1>2. \A i \in A \ {k} : f[i] \in B
  <2> SUFFICES ASSUME NEW i \in 1 .. Len(q), q[i].reply, i # k
               PROVE  (IF i < k THEN i ELSE i - 1) \in B
    OBVIOUS
  <2>1. CASE i < k
    BY <1>0, <2>1
  <2>2. CASE i > k
    <3>1. i - 1 \in 1 .. Len(r) /\ ~(i - 1 < k) /\ (i - 1) + 1 = i
      BY <1>0, <2>2
    <3>2. r[i - 1] = q[(i - 1) + 1]
      BY Zenon, <3>1
    <3> QED  BY <1>0, <2>2, <3>1, <3>2
  <2> QED  BY <1>0, <2>1, <2>2
<1>3. \A i, j \in A \ {k} : f[i] = f[j] => i = j
  BY <1>0
<1>4. \A j \in B : \E i \in A \ {k} : f[i] = j
  <2> SUFFICES ASSUME NEW j \in 1 .. Len(r), r[j].reply
               PROVE  \E i \in A \ {k} : f[i] = j
    BY Zenon
  <2>1. CASE j < k
    <3>1. j \in A \ {k} /\ f[j] = j
      BY <1>0, <2>1
    <3> QED  BY Zenon, <3>1
  <2>2. CASE ~(j < k)
    <3>1. j + 1 \in A \ {k}
      BY <1>0, <2>2
    <3>2. f[j + 1] = j
      BY <1>0, <2>2, <3>1
    <3> QED  BY Zenon, <3>1, <3>2
  <2> QED  BY Zenon, <2>1, <2>2
<1>5. f \in Bijection(A \ {k}, B)
  <2>1. f \in [A \ {k} -> B]
    BY Zenon, <1>2
  <2> HIDE DEF A, B, f
  <2> QED  BY <2>1, <1>3, <1>4 DEF Bijection, Injection, Surjection, IsInjective
<1>6. Cardinality(B) = Cardinality(A \ {k})
  <2>1. ExistsBijection(A \ {k}, B)
    BY Zenon, <1>5 DEF ExistsBijection
  <2> HIDE DEF A, B
  <2> QED  BY Zenon, <1>1, <2>1, FS_RemoveElement, FS_Bijection
<1>7. Elements(r) \subseteq Elements(q) /\ q[k] \in Elements(q)
  BY <1>0 DEF Elements
<1>8. q[k].reply \in BOOLEAN /\ (k \in A <=> q[k].reply)
  <2>1. q[k] \in Task
    BY Zenon, ElementOfSeq
  <2> QED  BY Zenon, <2>1 DEF Task
<1> HIDE DEF A, B, f
<1>9. Cardinality(A \ {k}) = IF k \in A THEN Cardinality(A) - 1 ELSE Cardinality(A)
  BY Zenon, <1>1, FS_RemoveElement
<1> QED  BY <1>1, <1>6, <1>7, <1>8, <1>9 DEF Want

(* A receive takes the first task out.                                     *)
LEMMA ReplyTake ==
  ASSUME NEW q \in Seq(Task), q # <<>>
  PROVE  /\ ReplyTasks(q) = ReplyTasks(Tail(q)) + Want(Head(q))
         /\ Elements(Tail(q)) \subseteq Elements(q) /\ Head(q) \in Elements(q)
         /\ Tail(q) \in Seq(Task) /\ Head(q) \in Task
<1>1. /\ Head(q) \in Task /\ Tail(q) \in Seq(Task) /\ Len(Tail(q)) = Len(q) - 1
      /\ Head(q) = q[1] /\ 1 \in 1 .. Len(q)
  BY HeadTailProperties
<1>2. \A j \in 1 .. Len(Tail(q)) : Tail(q)[j] = IF j < 1 THEN q[j] ELSE q[j + 1]
  BY <1>1
<1>3. /\ ReplyTasks(q) = ReplyTasks(Tail(q)) + Want(q[1])
      /\ Elements(Tail(q)) \subseteq Elements(q) /\ q[1] \in Elements(q)
  <2> DEFINE r == Tail(q)
  <2>1. r \in Seq(Task) /\ Len(r) = Len(q) - 1
        /\ \A j \in 1 .. Len(r) : r[j] = IF j < 1 THEN q[j] ELSE q[j + 1]
    BY Zenon, <1>1, <1>2
  <2> HIDE DEF r
  <2>2. /\ ReplyTasks(q) = ReplyTasks(r) + Want(q[1])
        /\ Elements(r) \subseteq Elements(q) /\ q[1] \in Elements(q)
    BY Zenon, <2>1, <1>1, ReplyDrop
  <2> QED  BY Zenon, <2>2 DEF r
<1> QED  BY Zenon, <1>1, <1>3

(* A timer that fires takes its own task out of `delayed'.                 *)
LEMMA ReplyRemove ==
  ASSUME NEW q \in Seq(Task), NEW k \in 1 .. Len(q)
  PROVE  LET r == SubSeq(q, 1, k - 1) \o SubSeq(q, k + 1, Len(q)) IN
         /\ r \in Seq(Task)
         /\ ReplyTasks(q) = ReplyTasks(r) + Want(q[k])
         /\ Elements(r) \subseteq Elements(q) /\ q[k] \in Elements(q)
<1> DEFINE r == SubSeq(q, 1, k - 1) \o SubSeq(q, k + 1, Len(q))
<1>1. /\ r \in Seq(Task) /\ Len(r) = Len(q) - 1
      /\ \A j \in 1 .. Len(r) : r[j] = IF j < k THEN q[j] ELSE q[j + 1]
  BY Zenon, Removal
<1> HIDE DEF r
<1>2. /\ ReplyTasks(q) = ReplyTasks(r) + Want(q[k])
      /\ Elements(r) \subseteq Elements(q) /\ q[k] \in Elements(q)
  BY Zenon, <1>1, ReplyDrop
<1> QED  BY Zenon, <1>1, <1>2 DEF r

(* enqueueTask puts the task into the queue of its kind, or nowhere.       *)
LEMMA ReplyEnqueue ==
  ASSUME TypeOK, NEW t \in Task, Accepted(t) \/ Overflow(t) \/ Refused(t)
  PROVE  /\ \A s \in Elements(priorityQueue') : s \in Elements(priorityQueue)
                                                  \/ (s = t /\ t.priority)
         /\ Elements(normalQueue') \subseteq Elements(normalQueue) \cup {t}
         /\ \/ Accepted(t) /\ ~t.priority
                /\ ReplyTasks(normalQueue') = ReplyTasks(normalQueue) + Want(t)
            \/ (t.priority \/ ~Accepted(t)) /\ UNCHANGED normalQueue
<1>1. CASE Accepted(t) /\ t.priority
  <2>1. priorityQueue' = Append(priorityQueue, t) /\ UNCHANGED normalQueue
    BY Zenon, <1>1 DEF Accepted
  <2> QED  BY <1>1, <2>1, ReplyAppend DEF TypeOK
<1>2. CASE Accepted(t) /\ ~t.priority
  <2>1. normalQueue' = Append(normalQueue, t) /\ UNCHANGED priorityQueue
    BY Zenon, <1>2 DEF Accepted
  <2> QED  BY Zenon, <1>2, <2>1, ReplyAppend DEF TypeOK
<1>3. CASE ~Accepted(t)
  <2>1. UNCHANGED <<priorityQueue, normalQueue>>
    BY Zenon, <1>3 DEF Overflow, Refused, queues
  <2> QED  BY Zenon, <1>3, <2>1
<1> QED  BY Zenon, <1>1, <1>2, <1>3

(* The workers that have a task with a reply at hand, and all tasks there. *)
Replying == {w \in Workers : AtHand(w) /\ wtask[w].reply}
Hands    == {wtask[w] : w \in {v \in Workers : AtHand(v)}}

(* There are finitely many of them.                                        *)
LEMMA ReplyingCount ==
  IsFiniteSet(Replying) /\ ReplyWorkers = Cardinality(Replying) /\ ReplyWorkers \in Nat
<1>1. IsFiniteSet(Replying)
  BY Zenon, MonitorAssumption, FS_Subset DEF Replying
<1> QED  BY Zenon, <1>1, FS_CardinalityType DEF ReplyWorkers, Replying

(* A worker that takes task t.                                             *)
LEMMA ReplyingTake ==
  ASSUME MonitorInv, NEW w \in Workers, wpc[w] \in {"outer", "inner"},
         NEW t \in Task, Take(w, t)
  PROVE  /\ ReplyWorkers' = ReplyWorkers + Want(t)
         /\ Hands' \subseteq Hands \cup {t}
<1>1. /\ wpc'[w] = "start" /\ wtask'[w] = t /\ t.reply \in BOOLEAN
      /\ \A v \in Workers \ {w} : wpc'[v] = wpc[v] /\ wtask'[v] = wtask[v]
  BY Zenon DEF MonitorInv, TypeOK, Take, Task
<1>2. w \notin Replying /\ Replying' = IF t.reply THEN Replying \cup {w} ELSE Replying
  BY Zenon, <1>1 DEF Replying, AtHand
<1>3. Hands' \subseteq Hands \cup {t}
  BY Zenon, <1>1 DEF Hands, AtHand
<1>4. IsFiniteSet(Replying) /\ ReplyWorkers = Cardinality(Replying) /\ ReplyWorkers \in Nat
  BY Zenon, ReplyingCount
<1>5. ReplyWorkers' = Cardinality(Replying')
  BY Zenon DEF ReplyWorkers, Replying
<1> HIDE DEF Replying
<1>6. Cardinality(Replying \cup {w}) = Cardinality(Replying) + 1
  BY Zenon, <1>2, <1>4, FS_AddElement
<1> QED  BY <1>1, <1>2, <1>3, <1>4, <1>5, <1>6 DEF Want

(* A worker that is through with its task.                                 *)
LEMMA ReplyingLeave ==
  ASSUME MonitorInv, NEW w \in Workers, AtHand(w), UNCHANGED wtask,
         NEW p \in {"finish", "outer"}, wpc' = [wpc EXCEPT ![w] = p]
  PROVE  /\ ReplyWorkers = ReplyWorkers' + Want(wtask[w]) /\ ReplyWorkers' \in Nat
         /\ Hands' \subseteq Hands /\ wtask[w] \in Hands
<1>1. /\ wpc'[w] = p
      /\ \A v \in Workers \ {w} : wpc'[v] = wpc[v]
  BY Zenon DEF MonitorInv, TypeOK
<1>2. wtask[w].reply \in BOOLEAN
  BY Zenon DEF MonitorInv, AtHand, Task
<1>3. /\ w \in Replying <=> wtask[w].reply
      /\ Replying' = Replying \ {w}
  BY Zenon, <1>1 DEF Replying, AtHand
<1>4. Hands' \subseteq Hands /\ wtask[w] \in Hands
  BY Zenon, <1>1 DEF Hands, AtHand
<1>5. IsFiniteSet(Replying) /\ ReplyWorkers = Cardinality(Replying) /\ ReplyWorkers \in Nat
  BY Zenon, ReplyingCount
<1>6. ReplyWorkers' = Cardinality(Replying')
  BY Zenon DEF ReplyWorkers, Replying
<1> HIDE DEF Replying
<1>7. /\ IsFiniteSet(Replying \ {w})
      /\ Cardinality(Replying \ {w}) =
           IF w \in Replying THEN Cardinality(Replying) - 1 ELSE Cardinality(Replying)
  BY Zenon, <1>5, FS_RemoveElement
<1>8. Cardinality(Replying \ {w}) \in Nat
  BY Zenon, <1>7, FS_CardinalityType
<1> QED  BY <1>2, <1>3, <1>4, <1>5, <1>6, <1>7, <1>8 DEF Want

(* A step of a worker that has the same task at hand after it, or none.    *)
LEMMA ReplyingStays ==
  ASSUME \A v \in Workers : AtHand(v)' = AtHand(v)
                             /\ (AtHand(v) => wtask'[v] = wtask[v])
  PROVE  ReplyWorkers' = ReplyWorkers /\ Hands' = Hands
<1>1. {w \in Workers : AtHand(w)' /\ wtask'[w].reply}
        = {w \in Workers : AtHand(w) /\ wtask[w].reply}
  OBVIOUS
<1> QED  BY Zenon, <1>1 DEF ReplyWorkers, Hands
-----------------------------------------------------------------------------
(* A step that adds no task to the queues, to the timers and to what the   *)
(* workers have, but at most moves them, keeps their kinds.                *)
LEMMA KindsMove ==
  ASSUME ReplyKinds, Pending' \subseteq Pending,
         Elements(priorityQueue)' \subseteq Elements(priorityQueue),
         request' \in {request, NoTask}
  PROVE  ReplyKinds'
  BY Zenon DEF ReplyKinds

(* Whoever enqueues a task, the replies go to the tasks of a stage.        *)
LEMMA KindsEnqueue ==
  ASSUME ReplyKinds, TypeOK, NEW t \in Task, Accepted(t) \/ Overflow(t) \/ Refused(t),
         t.reply => ~t.priority, Hands' = Hands,
         Elements(delayed)' \subseteq Elements(delayed), request' \in {request, NoTask}
  PROVE  ReplyKinds'
<1>1. /\ \A s \in Elements(priorityQueue') : s \in Elements(priorityQueue)
                                               \/ (s = t /\ t.priority)
      /\ Elements(normalQueue') \subseteq Elements(normalQueue) \cup {t}
  BY Zenon, ReplyEnqueue
<1>2. /\ Elements(priorityQueue)' = Elements(priorityQueue')
      /\ Elements(normalQueue)' = Elements(normalQueue')
  BY Zenon DEF Elements
<1>3. Pending' \subseteq Pending \cup {t}
  BY Zenon, <1>1, <1>2 DEF Pending, Hands
<1> QED  BY Zenon, <1>1, <1>2, <1>3 DEF ReplyKinds

(* Every step keeps which tasks want a reply.                              *)
LEMMA KindsStep ==
  ASSUME MonitorInv, ReplyKinds, [Next]_vars
  PROVE  ReplyKinds'
<1> USE DEF flags, queues, workerVars, callerVars, cycleVars, historyVars
<1>t. /\ priorityQueue \in Seq(Task) /\ normalQueue \in Seq(Task) /\ delayed \in Seq(Task)
      /\ request \in Task \cup {NoTask} /\ wpc \in [Workers -> WPCs]
      /\ wtask \in [Workers -> Task \cup {NoTask}] /\ TypeOK
  BY Zenon DEF MonitorInv, TypeOK
<1>p. Pending = Elements(priorityQueue) \cup Elements(normalQueue)
                  \cup Elements(delayed) \cup Hands
  BY Zenon DEF Pending, Hands
<1>q. Pending' = Elements(priorityQueue') \cup Elements(normalQueue')
                   \cup Elements(delayed') \cup Hands'
  BY Zenon DEF Pending, Hands, Elements
<1>r. /\ Elements(priorityQueue)' = Elements(priorityQueue')
      /\ Elements(delayed)' = Elements(delayed')
  BY Zenon DEF Elements
<1>1. ASSUME \/ \E t \in Tags : TestNow(t)
             \/ \E o \in Outbounds : InvalidateTest(o) \/ BecomeReady(o) \/ BecomeUnready(o)
             \/ StartCycleOnce \/ CollectCycleTargets \/ StageReceive \/ StageEnd
             \/ Cancel \/ UNCHANGED vars
      PROVE  ReplyKinds'
  <2>1. UNCHANGED <<priorityQueue, normalQueue, delayed, wpc, wtask, request>>
    BY Zenon, <1>1 DEF TestNow, InvalidateTest, BecomeReady, BecomeUnready, StartCycleOnce,
                CollectCycleTargets, StageReceive, StageEnd, Cancel, vars
  <2> QED  BY Zenon, <2>1, <1>p, <1>q, <1>r, KindsMove DEF Hands, AtHand
<1>2. ASSUME NEW r \in todo, MakeTask(r) PROVE ReplyKinds'
  <2>1. UNCHANGED <<priorityQueue, normalQueue, delayed, wpc, wtask>> /\ ~request'.reply
    BY Zenon, <1>2 DEF MakeTask
  <2>2. Pending' = Pending /\ Elements(priorityQueue)' = Elements(priorityQueue)
    BY Zenon, <2>1, <1>p, <1>q, <1>r DEF Hands, AtHand
  <2> QED  BY Zenon, <2>1, <2>2 DEF ReplyKinds
<1>3. ASSUME EnqueueRequest PROVE ReplyKinds'
  <2>1. /\ request \in Task /\ request' = NoTask /\ UNCHANGED <<delayed, wpc, wtask>>
        /\ Accepted(request) \/ Overflow(request) \/ Refused(request)
    BY Zenon, <1>3, <1>t DEF EnqueueRequest
  <2>2. Hands' = Hands /\ ~request.reply
    BY Zenon, <2>1, NoTaskAssumption DEF Hands, AtHand, ReplyKinds
  <2> QED  BY Zenon, <2>1, <2>2, <1>t, <1>r, KindsEnqueue
<1>4. ASSUME NEW w \in Workers, WorkerStep(w) PROVE ReplyKinds'
  <2>1. CASE TakePriority(w)
    <3>1. /\ wpc[w] \in {"outer", "inner"} /\ priorityQueue # <<>>
          /\ Take(w, Head(priorityQueue)) /\ priorityQueue' = Tail(priorityQueue)
          /\ UNCHANGED <<normalQueue, delayed, request>>
      BY Zenon, <2>1 DEF TakePriority
    <3>2. Head(priorityQueue) \in Task /\ Head(priorityQueue) \in Elements(priorityQueue)
          /\ Elements(priorityQueue') \subseteq Elements(priorityQueue)
      BY Zenon, <3>1, <1>t, ReplyTake
    <3>3. Hands' \subseteq Hands \cup {Head(priorityQueue)}
      BY Zenon, <3>1, <3>2, ReplyingTake
    <3> QED  BY Zenon, <3>1, <3>2, <3>3, <1>p, <1>q, <1>r, KindsMove
  <2>2. CASE TakeNormal(w)
    <3>1. /\ wpc[w] = "inner" /\ normalQueue # <<>>
          /\ Take(w, Head(normalQueue)) /\ normalQueue' = Tail(normalQueue)
          /\ UNCHANGED <<priorityQueue, delayed, request>>
      BY Zenon, <2>2 DEF TakeNormal
    <3>2. Head(normalQueue) \in Task /\ Head(normalQueue) \in Elements(normalQueue)
          /\ Elements(normalQueue') \subseteq Elements(normalQueue)
      BY Zenon, <3>1, <1>t, ReplyTake
    <3>3. Hands' \subseteq Hands \cup {Head(normalQueue)}
      BY Zenon, <3>1, <3>2, ReplyingTake
    <3> QED  BY Zenon, <3>1, <3>2, <3>3, <1>p, <1>q, <1>r, KindsMove
  <2>3. CASE \/ NoPriority(w) \/ WorkerExit(w) \/ SkipTask(w) \/ ApplyResult(w)
             \/ Abandon(w) \/ Finish(w)
    <3>1. UNCHANGED <<priorityQueue, normalQueue, delayed, request>>
      BY Zenon, <2>3 DEF NoPriority, WorkerExit, SkipTask, ApplyResult, Abandon, Finish
    <3>2. \A v \in Workers : AtHand(v)' => AtHand(v) /\ wtask'[v] = wtask[v]
      BY Zenon, <2>3, <1>t DEF NoPriority, WorkerExit, SkipTask, ApplyResult, Abandon, Finish,
                        AtHand
    <3>3. Hands' \subseteq Hands
      BY Zenon, <3>2 DEF Hands
    <3> QED  BY Zenon, <3>1, <3>3, <1>p, <1>q, <1>r, KindsMove
  <2>4. CASE ExecuteTask(w)
    <3>1. /\ wpc[w] = "start" /\ UNCHANGED <<priorityQueue, normalQueue, request, wtask>>
          /\ wpc' \in {[wpc EXCEPT ![w] = "finish"], [wpc EXCEPT ![w] = "test"]}
          /\ delayed' \in {delayed, Append(delayed, wtask[w])}
      BY Zenon, <2>4 DEF ExecuteTask
    <3>2. wtask[w] \in Task /\ wtask[w] \in Hands
      BY Zenon, <3>1 DEF MonitorInv, Hands, AtHand
    <3>3. Hands' \subseteq Hands
      BY Zenon, <3>1, <1>t DEF Hands, AtHand
    <3>4. Elements(delayed') \subseteq Elements(delayed) \cup {wtask[w]}
      BY ZenonT(30), <3>1, <3>2, <1>t, ReplyAppend
    <3> QED  BY Zenon, <3>1, <3>2, <3>3, <3>4, <1>p, <1>q, <1>r, KindsMove
  <2> QED  BY Zenon, <1>4, <2>1, <2>2, <2>3, <2>4 DEF WorkerStep
<1>5. ASSUME NEW i \in 1 .. Len(delayed), Retry(i) PROVE ReplyKinds'
  <2> DEFINE t == [delayed[i] EXCEPT !.cycleID = @ + 1]
  <2>1. /\ delayed' = SubSeq(delayed, 1, i - 1) \o SubSeq(delayed, i + 1, Len(delayed))
        /\ Accepted(t) \/ Overflow(t) \/ Refused(t)
        /\ UNCHANGED <<wpc, wtask, request>>
    BY Zenon, <1>5 DEF Retry
  <2>2. /\ Elements(delayed') \subseteq Elements(delayed)
        /\ delayed[i] \in Elements(delayed) /\ delayed[i] \in Task
    BY Zenon, <2>1, <1>t, ReplyRemove, ElementOfSeq
  <2>3. t \in Task /\ t.reply = delayed[i].reply /\ t.priority = delayed[i].priority
    BY <2>2 DEF Task
  <2>4. Hands' = Hands
    BY Zenon, <2>1 DEF Hands, AtHand
  <2>5. t.reply => ~t.priority
    BY Zenon, <2>2, <2>3, <1>p DEF ReplyKinds
  <2> HIDE DEF t
  <2> QED  BY Zenon, <2>1, <2>2, <2>3, <2>4, <2>5, <1>t, <1>r, KindsEnqueue
<1>6. ASSUME NEW o \in Outbounds, StageEnqueue(o) PROVE ReplyKinds'
  <2> DEFINE t == [tag |-> o, cycleID |-> cycle.id, priority |-> FALSE, reply |-> TRUE]
  <2>1. /\ Accepted(t) \/ Overflow(t) \/ Refused(t)
        /\ UNCHANGED <<delayed, wpc, wtask, request>>
    BY Zenon, <1>6 DEF StageEnqueue
  <2>2. t \in Task /\ ~t.priority
    BY Zenon DEF MonitorInv, TypeOK, Cycle, Task
  <2>3. Hands' = Hands
    BY Zenon, <2>1 DEF Hands, AtHand
  <2> HIDE DEF t
  <2> QED  BY Zenon, <2>1, <2>2, <2>3, <1>t, <1>r, KindsEnqueue
<1> QED  BY Zenon, <1>1, <1>2, <1>3, <1>4, <1>5, <1>6 DEF Next, CallerStep, CycleStep

(* The targets of a cycle can be counted.                                  *)
LEMMA TagsCount ==
  ASSUME TypeOK, StagePlan
  PROVE  /\ IsFiniteSet(cycle.tags) /\ Cardinality(cycle.tags) \in Nat
         /\ IsFiniteSet(cycle.todo) /\ Cardinality(cycle.todo) \in Nat
         /\ cycle.expected \in Nat
<1>1. cycle.tags \subseteq Outbounds /\ cycle.todo \subseteq Outbounds
      /\ cycle.expected \in Nat
  BY Zenon DEF TypeOK, Cycle
<1>2. IsFiniteSet(cycle.tags) /\ IsFiniteSet(cycle.todo)
  BY Zenon, <1>1, MonitorAssumption, FS_Subset
<1> QED  BY Zenon, <1>1, <1>2, FS_CardinalityType

(* runStage is never ahead of its list of targets.                         *)
LEMMA PlanStep ==
  ASSUME TypeOK, StagePlan, [Next]_vars
  PROVE  StagePlan'
<1> USE DEF flags, queues, workerVars, callerVars, cycleVars, historyVars
<1>c. /\ IsFiniteSet(cycle.tags) /\ Cardinality(cycle.tags) \in Nat
      /\ IsFiniteSet(cycle.todo) /\ Cardinality(cycle.todo) \in Nat
      /\ cycle.expected \in Nat
  BY Zenon, TagsCount
<1>e. Cardinality({}) = 0
  BY Zenon, FS_EmptySet
<1>t. cycle \in Cycle
  BY Zenon DEF TypeOK
<1>1. ASSUME \/ \E t \in Tags : TestNow(t)
             \/ \E o \in Outbounds : InvalidateTest(o) \/ BecomeReady(o) \/ BecomeUnready(o)
             \/ CallerStep
             \/ \E w \in Workers : WorkerStep(w)
             \/ \E i \in 1 .. Len(delayed) : Retry(i)
             \/ Cancel \/ UNCHANGED vars
      PROVE  StagePlan'
  <2>1. UNCHANGED <<cpc, cycle>>
    BY Zenon, <1>1 DEF TestNow, InvalidateTest, BecomeReady, BecomeUnready, CallerStep, MakeTask,
         EnqueueRequest, WorkerStep, TakePriority, NoPriority, TakeNormal, WorkerExit,
         SkipTask, ExecuteTask, ApplyResult, Abandon, Finish, Retry, Cancel, vars
  <2> QED  BY Zenon, <2>1 DEF StagePlan
<1>2. CASE StartCycleOnce
  <2>1. cycle'.expected = 0 /\ cycle'.todo = {} /\ cycle'.tags = {}
    BY Zenon, <1>2 DEF StartCycleOnce, NoCycle
  <2> QED  BY <2>1, <1>e DEF StagePlan
<1>3. CASE CollectCycleTargets
  <2>1. cycle.expected = 0
    BY Zenon, <1>3 DEF CollectCycleTargets, StagePlan
  <2>2. PICK tags \in SUBSET Eligible :
          \/ cpc' = "idle" /\ cycle' = NoCycle
          \/ cpc' = "stage" /\ cycle' = [cycle EXCEPT !.tags = tags, !.todo = tags]
    BY Zenon, <1>3 DEF CollectCycleTargets
  <2>3. CASE cycle' = NoCycle
    BY <2>3, <1>e DEF StagePlan, NoCycle
  <2>4. CASE cpc' = "stage" /\ cycle' = [cycle EXCEPT !.tags = tags, !.todo = tags]
    <3>1. cycle'.tags = tags /\ cycle'.todo = tags /\ cycle'.expected = 0
      BY Zenon, <2>1, <2>4, <1>t DEF Cycle
    <3>2. IsFiniteSet(tags) /\ Cardinality(tags) \in Nat
      BY Zenon, MonitorAssumption, FS_Subset, FS_CardinalityType DEF Eligible
    <3> QED  BY <2>4, <3>1, <3>2 DEF StagePlan
  <2> QED  BY Zenon, <2>2, <2>3, <2>4
<1>4. ASSUME NEW o \in Outbounds, StageEnqueue(o) PROVE StagePlan'
  <2>1. /\ cpc = "stage" /\ cpc' = cpc /\ o \in cycle.todo
        /\ \/ cycle' = [cycle EXCEPT !.todo = @ \ {o}, !.expected = @ + 1]
           \/ cycle' = [cycle EXCEPT !.todo = @ \ {o}]
    BY Zenon, <1>4 DEF StageEnqueue
  <2>2. /\ cycle'.todo = cycle.todo \ {o} /\ cycle'.tags = cycle.tags
        /\ cycle'.expected \in {cycle.expected, cycle.expected + 1}
    BY Zenon, <2>1, <1>t DEF Cycle
  <2>3. Cardinality(cycle.todo \ {o}) = Cardinality(cycle.todo) - 1
    BY Zenon, <2>1, <1>c, FS_RemoveElement
  <2> QED  BY <2>1, <2>2, <2>3, <1>c DEF StagePlan
<1>5. CASE StageReceive
  <2>1. /\ cpc' = cpc /\ cpc = "stage" /\ cycle.expected > 0
        /\ cycle'.todo = cycle.todo /\ cycle'.tags = cycle.tags
        /\ cycle'.expected = cycle.expected - 1
    BY Zenon, <1>5, <1>t DEF StageReceive, Cycle
  <2> QED  BY <2>1, <1>c DEF StagePlan
<1>6. CASE StageEnd
  <2>1. \/ cycle' = NoCycle
        \/ /\ cpc' = cpc /\ cpc = "stage" /\ cycle'.expected = 0
           /\ cycle'.todo = cycle.tags /\ cycle'.tags = cycle.tags
    BY Zenon, <1>6, <1>t DEF StageEnd, Cycle
  <2> QED  BY <2>1, <1>c, <1>e DEF StagePlan, NoCycle
<1> QED  BY Zenon, <1>1, <1>2, <1>3, <1>4, <1>5, <1>6 DEF Next, CycleStep

Awaited == cycle.expected
Sent    == Len(resultCh)

(* A result that is lost leaves the timers and joins the lost ones.        *)
LEMMA Regroup ==
  ASSUME NEW n \in Nat, NEW d \in Nat, NEW w \in Nat, NEW s \in Nat, NEW l \in Nat,
         NEW c \in Nat, NEW k \in Nat, d + l = c + k
  PROVE  n + d + w + s + l = n + c + w + s + k
  OBVIOUS

(* While the monitor runs, every step keeps the account.                   *)
LEMMA AccountStep ==
  ASSUME MonitorInv, ReplyKinds, StagePlan, StageAccounting, [Next]_vars
  PROVE  StageAccounting'
<1> USE DEF flags, queues, workerVars, callerVars, cycleVars, historyVars
<1>t. /\ priorityQueue \in Seq(Task) /\ normalQueue \in Seq(Task) /\ delayed \in Seq(Task)
      /\ request \in Task \cup {NoTask} /\ wpc \in [Workers -> WPCs]
      /\ wtask \in [Workers -> Task \cup {NoTask}] /\ TypeOK
      /\ resultCh \in Seq(BOOLEAN) /\ cycle \in Cycle /\ cancelled \in BOOLEAN
  BY Zenon DEF MonitorInv, TypeOK
<1>n. /\ ReplyTasks(normalQueue) \in Nat /\ ReplyTasks(delayed) \in Nat
      /\ ReplyWorkers \in Nat /\ Len(resultCh) \in Nat /\ lostReplies \in Nat
      /\ cycle.expected \in Nat
  BY Zenon, <1>t, ReplyCount, ReplyingCount, LenProperties DEF TypeOK, Cycle
<1> SUFFICES ASSUME ~cancelled'
             PROVE  cycle'.expected = ReplyTasks(normalQueue') + ReplyTasks(delayed')
                                       + ReplyWorkers' + Len(resultCh') + lostReplies'
  BY Zenon DEF StageAccounting, ReplyTasks
<1>k. ~cancelled
  BY Zenon, <1>t DEF Next, TestNow, InvalidateTest, BecomeReady, BecomeUnready, CallerStep,
       MakeTask, EnqueueRequest, WorkerStep, TakePriority, NoPriority, TakeNormal,
       WorkerExit, SkipTask, ExecuteTask, ApplyResult, Abandon, Finish, Retry, Cancel,
       StartCycleOnce, CycleStep, CollectCycleTargets, StageEnqueue, StageReceive,
       StageEnd, vars
<1>s. cycle.expected = ReplyTasks(normalQueue) + ReplyTasks(delayed) + ReplyWorkers
                       + Len(resultCh) + lostReplies
  BY Zenon, <1>k DEF StageAccounting
<1>a. /\ ReplyTasks(normalQueue) \in Nat /\ ReplyTasks(delayed) \in Nat
      /\ ReplyWorkers \in Nat /\ Sent \in Nat /\ lostReplies \in Nat
      /\ Awaited = ReplyTasks(normalQueue) + ReplyTasks(delayed) + ReplyWorkers
                    + Sent + lostReplies
  BY Zenon, <1>n, <1>s DEF Sent, Awaited
<1>d. \A c, k \in Nat : ReplyTasks(delayed) + lostReplies = c + k =>
        Awaited = ReplyTasks(normalQueue) + c + ReplyWorkers + Sent + k
  BY <1>a, Regroup
<1> DEFINE Balanced == cycle'.expected = ReplyTasks(normalQueue') + ReplyTasks(delayed')
                         + ReplyWorkers' + Len(resultCh') + lostReplies'
<1>b. SUFFICES Balanced
  OBVIOUS
<1>1. ASSUME \/ \E t \in Tags : TestNow(t)
             \/ \E o \in Outbounds : InvalidateTest(o) \/ BecomeReady(o) \/ BecomeUnready(o)
             \/ \E r \in todo : MakeTask(r)
             \/ UNCHANGED vars
      PROVE  Balanced
  <2>1. UNCHANGED <<normalQueue, delayed, wpc, wtask, resultCh, cycle, lostReplies>>
    BY Zenon, <1>1 DEF TestNow, InvalidateTest, BecomeReady, BecomeUnready, MakeTask, vars
  <2>2. ReplyWorkers' = ReplyWorkers
    BY Zenon, <2>1, ReplyingStays DEF AtHand
  <2> QED  BY Zenon, <2>1, <2>2, <1>s
<1>2. ASSUME EnqueueRequest PROVE Balanced
  <2>1. /\ request \in Task /\ ~request.reply
        /\ UNCHANGED <<delayed, wpc, wtask, resultCh, cycle, lostReplies>>
        /\ Accepted(request) \/ Overflow(request) \/ Refused(request)
    BY Zenon, <1>2, <1>t DEF EnqueueRequest, ReplyKinds
  <2>2. ReplyTasks(normalQueue') = ReplyTasks(normalQueue)
    BY <2>1, <1>t, <1>n, ReplyEnqueue DEF Want
  <2>3. ReplyWorkers' = ReplyWorkers
    BY Zenon, <2>1, ReplyingStays DEF AtHand
  <2> QED  BY Zenon, <2>1, <2>2, <2>3, <1>s
<1>3. ASSUME NEW w \in Workers, WorkerStep(w) PROVE Balanced
  <2>1. CASE TakePriority(w)
    <3>1. /\ wpc[w] \in {"outer", "inner"} /\ priorityQueue # <<>>
          /\ Take(w, Head(priorityQueue))
          /\ UNCHANGED <<normalQueue, delayed, resultCh, cycle, lostReplies>>
      BY Zenon, <2>1 DEF TakePriority
    <3>2. Head(priorityQueue) \in Task /\ Head(priorityQueue) \in Elements(priorityQueue)
      BY Zenon, <3>1, <1>t, ReplyTake
    <3>3. Want(Head(priorityQueue)) = 0
      BY <3>2 DEF ReplyKinds, Pending, Want
    <3>4. ReplyWorkers' = ReplyWorkers
      BY <3>1, <3>2, <3>3, <1>n, ReplyingTake
    <3> QED  BY Zenon, <3>1, <3>4, <1>s
  <2>2. CASE TakeNormal(w)
    <3>1. /\ wpc[w] = "inner" /\ normalQueue # <<>>
          /\ Take(w, Head(normalQueue)) /\ normalQueue' = Tail(normalQueue)
          /\ UNCHANGED <<delayed, resultCh, cycle, lostReplies>>
      BY Zenon, <2>2 DEF TakeNormal
    <3>2. /\ Head(normalQueue) \in Task /\ normalQueue' \in Seq(Task)
          /\ ReplyTasks(normalQueue) = ReplyTasks(normalQueue') + Want(Head(normalQueue))
      BY Zenon, <3>1, <1>t, ReplyTake
    <3>3. ReplyWorkers' = ReplyWorkers + Want(Head(normalQueue))
      BY Zenon, <3>1, <3>2, ReplyingTake
    <3>4. ReplyTasks(normalQueue') \in Nat /\ Want(Head(normalQueue)) \in Nat
      BY Zenon, <3>2, ReplyCount DEF Want
    <3> QED  BY <3>1, <3>2, <3>3, <3>4, <1>n, <1>s
  <2>3. CASE NoPriority(w) \/ WorkerExit(w) \/ Finish(w)
    <3>1. UNCHANGED <<normalQueue, delayed, resultCh, cycle, lostReplies>>
      BY Zenon, <2>3 DEF NoPriority, WorkerExit, Finish
    <3>2. \A v \in Workers : AtHand(v)' = AtHand(v) /\ (AtHand(v) => wtask'[v] = wtask[v])
      BY <2>3, <1>t DEF NoPriority, WorkerExit, Finish, AtHand
    <3>3. ReplyWorkers' = ReplyWorkers
      BY Zenon, <3>2, ReplyingStays
    <3> QED  BY Zenon, <3>1, <3>3, <1>s
  <2>4. CASE SkipTask(w) \/ Abandon(w)
    BY Zenon, <2>4, <1>k DEF SkipTask, Abandon
  <2>5. CASE ExecuteTask(w)
    <3>1. /\ wpc[w] = "start" /\ AtHand(w) /\ wtask[w] \in Task
          /\ UNCHANGED <<normalQueue, resultCh, cycle, lostReplies, wtask>>
      BY Zenon, <2>5 DEF ExecuteTask, AtHand, MonitorInv
    <3>2. CASE /\ delayed' = Append(delayed, wtask[w])
               /\ wpc' = [wpc EXCEPT ![w] = "finish"]
      <4>1. ReplyTasks(delayed') = ReplyTasks(delayed) + Want(wtask[w])
        BY Zenon, <3>1, <3>2, <1>t, ReplyAppend
      <4>2. ReplyWorkers = ReplyWorkers' + Want(wtask[w]) /\ ReplyWorkers' \in Nat
        BY Zenon, <3>1, <3>2, ReplyingLeave
      <4>3. Want(wtask[w]) \in Nat
        BY Zenon DEF Want
      <4> QED  BY <3>1, <4>1, <4>2, <4>3, <1>n, <1>s
    <3>3. CASE UNCHANGED delayed /\ wpc' = [wpc EXCEPT ![w] = "test"]
      <4>1. ReplyWorkers' = ReplyWorkers
        BY <3>1, <3>3, <1>t, ReplyingStays DEF AtHand
      <4> QED  BY Zenon, <3>1, <3>3, <4>1, <1>s
    <3> QED  BY Zenon, <2>5, <3>2, <3>3 DEF ExecuteTask
  <2>6. CASE ApplyResult(w)
    <3>1. /\ AtHand(w) /\ wtask[w] \in Task /\ wpc' = [wpc EXCEPT ![w] = "finish"]
          /\ UNCHANGED <<normalQueue, delayed, cycle, lostReplies, wtask>>
      BY Zenon, <2>6 DEF ApplyResult, AtHand, MonitorInv
    <3>2. PICK ok \in BOOLEAN : Reply(wtask[w], ok)
      BY Zenon, <2>6 DEF ApplyResult
    <3>3. ReplyWorkers = ReplyWorkers' + Want(wtask[w]) /\ ReplyWorkers' \in Nat
      BY Zenon, <3>1, ReplyingLeave
    <3>4. CASE wtask[w].reply
      <4>1. Len(resultCh) < cycle.expected
        BY <3>3, <3>4, <1>n, <1>s DEF Want
      <4>2. Len(resultCh) < Cardinality(cycle.tags)
        BY <4>1, <1>n, <1>t, TagsCount DEF StagePlan
      <4>3. Len(resultCh') = Len(resultCh) + 1
        BY <3>2, <3>4, <4>2, <1>t DEF Reply
      <4>4. ReplyWorkers = ReplyWorkers' + 1
        BY Zenon, <3>3, <3>4 DEF Want
      <4>5. /\ cycle'.expected = cycle.expected /\ lostReplies' = lostReplies
            /\ ReplyTasks(normalQueue') = ReplyTasks(normalQueue)
            /\ ReplyTasks(delayed') = ReplyTasks(delayed) /\ ReplyWorkers' \in Nat
        BY Zenon, <3>1, <3>3
      <4>6. Sent \in Nat /\ Sent' = Sent + 1
        BY Zenon, <4>3, <1>n DEF Sent
      <4>7. Awaited = ReplyTasks(normalQueue) + ReplyTasks(delayed) + ReplyWorkers'
                      + Sent' + lostReplies
        BY <4>4, <4>5, <4>6, <1>a
      <4> QED  BY Zenon, <4>5, <4>7 DEF Sent, Awaited
    <3>5. CASE ~wtask[w].reply
      <4>1. resultCh' = resultCh
        BY Zenon, <3>2, <3>5 DEF Reply
      <4> QED  BY <3>1, <3>3, <3>5, <4>1, <1>n, <1>s DEF Want
    <3> QED  BY Zenon, <3>4, <3>5
  <2> QED  BY Zenon, <1>3, <2>1, <2>2, <2>3, <2>4, <2>5, <2>6 DEF WorkerStep
<1>4. ASSUME NEW i \in 1 .. Len(delayed), Retry(i) PROVE Balanced
  <2> DEFINE t == [delayed[i] EXCEPT !.cycleID = @ + 1]
  <2>1. /\ delayed' = SubSeq(delayed, 1, i - 1) \o SubSeq(delayed, i + 1, Len(delayed))
        /\ UNCHANGED <<wpc, wtask, resultCh, cycle>>
        /\ \/ Accepted(t) /\ UNCHANGED lostReplies
           \/ /\ Overflow(t) \/ Refused(t)
              /\ lostReplies' = lostReplies + Want(t)
    BY Zenon, <1>4 DEF Retry, Want
  <2>2. /\ delayed' \in Seq(Task)
        /\ ReplyTasks(delayed) = ReplyTasks(delayed') + Want(delayed[i])
        /\ delayed[i] \in Elements(delayed)
    BY Zenon, <2>1, <1>t, ReplyRemove
  <2>3. t \in Task /\ t.reply = delayed[i].reply /\ t.priority = delayed[i].priority
    <3>1. delayed[i] \in Task
      BY Zenon, <1>t, ElementOfSeq
    <3> QED  BY <3>1 DEF Task
  <2>4. ReplyWorkers' = ReplyWorkers
    BY Zenon, <2>1, ReplyingStays DEF AtHand
  <2>5. t.reply => ~t.priority
    BY Zenon, <2>2, <2>3 DEF ReplyKinds, Pending
  <2>6. /\ ReplyTasks(delayed') \in Nat /\ Want(t) \in Nat /\ Want(t) = Want(delayed[i])
        /\ t.priority => Want(t) = 0
    BY Zenon, <2>2, <2>3, <2>5, ReplyCount DEF Want
  <2> HIDE DEF t
  <2>7. CASE Accepted(t) /\ UNCHANGED lostReplies
    <3>1. ReplyTasks(normalQueue') = ReplyTasks(normalQueue) + Want(t)
      BY <2>3, <2>6, <2>7, <1>n, <1>t, ReplyEnqueue
    <3> QED  BY <3>1, <2>1, <2>2, <2>4, <2>6, <2>7, <1>n, <1>s
  <2>8. CASE (Overflow(t) \/ Refused(t)) /\ lostReplies' = lostReplies + Want(t)
    <3>1. normalQueue' = normalQueue
      BY Zenon, <2>8 DEF Overflow, Refused
    <3>2. lostReplies' = lostReplies + Want(t)
      BY Zenon, <2>8
    <3>3. Len(resultCh') = Len(resultCh) /\ cycle'.expected = cycle.expected
      BY Zenon, <2>1
    <3>4. ReplyTasks(delayed) = ReplyTasks(delayed') + Want(t)
      BY Zenon, <2>2, <2>6
    <3>5. ReplyTasks(normalQueue') = ReplyTasks(normalQueue)
      BY Zenon, <3>1
    <3>6. ReplyTasks(delayed') \in Nat /\ Want(t) \in Nat
      BY Zenon, <2>6
    <3>7. lostReplies' \in Nat /\ ReplyTasks(delayed') \in Nat
      BY <3>2, <3>6, <1>n
    <3>8. Awaited = ReplyTasks(normalQueue) + ReplyTasks(delayed') + ReplyWorkers
                    + Sent + lostReplies'
      <4>1. ReplyTasks(delayed) + lostReplies = ReplyTasks(delayed') + lostReplies'
        BY <3>2, <3>4, <3>6, <1>a
      <4> QED  BY Zenon, <4>1, <3>7, <1>d
    <3> QED  BY Zenon, <3>3, <3>5, <3>8, <2>4 DEF Sent, Awaited
  <2> QED  BY Zenon, <2>1, <2>7, <2>8
<1>5. ASSUME NEW o \in Outbounds, StageEnqueue(o) PROVE Balanced
  <2> DEFINE t == [tag |-> o, cycleID |-> cycle.id, priority |-> FALSE, reply |-> TRUE]
  <2>1. /\ UNCHANGED <<delayed, wpc, wtask, resultCh, lostReplies>>
        /\ \/ /\ Accepted(t)
              /\ cycle' = [cycle EXCEPT !.todo = @ \ {o}, !.expected = @ + 1]
           \/ /\ Overflow(t) \/ Refused(t)
              /\ cycle' = [cycle EXCEPT !.todo = @ \ {o}]
    BY Zenon, <1>5 DEF StageEnqueue
  <2>2. t \in Task /\ ~t.priority /\ Want(t) = 1
    BY Zenon, <1>t DEF Cycle, Task, Want
  <2>3. ReplyWorkers' = ReplyWorkers
    BY Zenon, <2>1, ReplyingStays DEF AtHand
  <2> HIDE DEF t
  <2>4. CASE /\ Accepted(t)
             /\ cycle' = [cycle EXCEPT !.todo = @ \ {o}, !.expected = @ + 1]
    <3>1. ReplyTasks(normalQueue') = ReplyTasks(normalQueue) + 1
      BY Zenon, <2>2, <2>4, <1>t, ReplyEnqueue
    <3>2. cycle'.expected = cycle.expected + 1
      BY Zenon, <2>4, <1>t DEF Cycle
    <3> QED  BY <3>1, <3>2, <2>1, <2>3, <1>n, <1>s
  <2>5. CASE (Overflow(t) \/ Refused(t)) /\ cycle' = [cycle EXCEPT !.todo = @ \ {o}]
    <3>1. normalQueue' = normalQueue /\ cycle'.expected = cycle.expected
      BY Zenon, <2>5, <1>t DEF Overflow, Refused, Cycle
    <3> QED  BY Zenon, <3>1, <2>1, <2>3, <1>s
  <2> QED  BY Zenon, <2>1, <2>4, <2>5
<1>6. ASSUME StartCycleOnce \/ CollectCycleTargets \/ StageEnd PROVE Balanced
  <2>1. cycle.expected = 0
    BY Zenon, <1>6, <1>k DEF StartCycleOnce, CollectCycleTargets, StageEnd, StagePlan
  <2>2. cycle'.expected = 0
    <3>1. ASSUME StartCycleOnce PROVE cycle'.expected = 0
      BY Zenon, <3>1 DEF StartCycleOnce, NoCycle
    <3>2. ASSUME CollectCycleTargets PROVE cycle'.expected = 0
      <4>1. \/ cycle' = NoCycle
            \/ \E tags : cycle' = [cycle EXCEPT !.tags = tags, !.todo = tags]
        BY Zenon, <3>2 DEF CollectCycleTargets
      <4>2. CASE cycle' = NoCycle
        BY Zenon, <4>2 DEF NoCycle
      <4>3. ASSUME NEW tags, cycle' = [cycle EXCEPT !.tags = tags, !.todo = tags]
            PROVE  cycle'.expected = 0
        BY Zenon, <4>3, <2>1, <1>t DEF Cycle
      <4> QED  BY Zenon, <4>1, <4>2, <4>3
    <3>3. ASSUME StageEnd PROVE cycle'.expected = 0
      <4>1. \/ cycle' = NoCycle
            \/ cycle' = [cycle EXCEPT !.todo = cycle.tags, !.expected = 0,
                                      !.success = FALSE, !.url = @ + 1]
        BY Zenon, <3>3 DEF StageEnd
      <4>2. CASE cycle' = NoCycle
        BY Zenon, <4>2 DEF NoCycle
      <4>3. CASE cycle' = [cycle EXCEPT !.todo = cycle.tags, !.expected = 0,
                                        !.success = FALSE, !.url = @ + 1]
        BY Zenon, <4>3, <1>t DEF Cycle
      <4> QED  BY <4>1, <4>2, <4>3
    <3> QED  BY Zenon, <1>6, <3>1, <3>2, <3>3
  <2>3. /\ UNCHANGED <<normalQueue, delayed, wpc, wtask, lostReplies>>
        /\ resultCh' \in {resultCh, <<>>}
    BY Zenon, <1>6 DEF StartCycleOnce, CollectCycleTargets, StageEnd
  <2>4. ReplyWorkers' = ReplyWorkers
    BY Zenon, <2>3, ReplyingStays DEF AtHand
  <2>5. Len(resultCh) = 0 /\ Len(resultCh') = 0
    BY <2>1, <2>3, <1>n, <1>s
  <2> QED  BY Zenon, <2>1, <2>2, <2>3, <2>4, <2>5, <1>s
<1>7. CASE StageReceive
  <2>1. /\ cycle.expected > 0 /\ cycle'.expected = cycle.expected - 1
        /\ resultCh # <<>> /\ resultCh' = Tail(resultCh)
        /\ UNCHANGED <<normalQueue, delayed, wpc, wtask, lostReplies>>
    BY Zenon, <1>7, <1>t DEF StageReceive, Cycle
  <2>2. Len(resultCh') = Len(resultCh) - 1
    BY Zenon, <2>1, <1>t, HeadTailProperties
  <2>3. ReplyWorkers' = ReplyWorkers
    BY Zenon, <2>1, ReplyingStays DEF AtHand
  <2> QED  BY <2>1, <2>2, <2>3, <1>n, <1>s
<1>8. CASE Cancel
  BY <1>8 DEF Cancel
<1> HIDE DEF Balanced
<1>9. ASSUME Next PROVE Balanced
  <2>1. CASE CallerStep
    BY Zenon, <2>1, <1>1, <1>2 DEF CallerStep
  <2>2. CASE CycleStep
    BY Zenon, <2>2, <1>5, <1>6, <1>7 DEF CycleStep
  <2> QED  BY Zenon, <2>1, <2>2, <1>1, <1>3, <1>4, <1>6, <1>8, <1>9 DEF Next
<1> QED  BY Zenon, <1>1, <1>9

(* Initially nothing is expected and nothing is on its way.                *)
LEMMA AccountInvInit == Init => AccountInv
<1> SUFFICES ASSUME Init PROVE AccountInv
  OBVIOUS
<1>1. /\ Elements(priorityQueue) = {} /\ Pending = {}
  BY DEF Init, Elements, Pending, AtHand
<1>2. ReplyTasks(<<>>) = 0 /\ ReplyWorkers = 0 /\ Cardinality({}) = 0
  <2>1. {i \in 1 .. Len(<<>>) : <<>>[i].reply} = {}
    OBVIOUS
  <2>2. {w \in Workers : AtHand(w) /\ wtask[w].reply} = {}
    BY Zenon DEF Init, AtHand
  <2> QED  BY Zenon, <2>1, <2>2, FS_EmptySet DEF ReplyTasks, ReplyWorkers
<1> QED
  BY <1>1, <1>2 DEF Init, AccountInv, ReplyKinds, StagePlan, StageAccounting, NoCycle

(* runStage waits for exactly the results that are still to come.          *)
THEOREM MonitorStageAccounting == Spec => []StageAccounting
<1>1. MonitorInv /\ AccountInv /\ [Next]_vars => AccountInv'
  BY Zenon, KindsStep, PlanStep, AccountStep DEF AccountInv, MonitorInv
<1>2. AccountInv => StageAccounting
  BY Zenon DEF AccountInv
<1> QED
  BY <1>1, <1>2, MonitorInvInit, MonitorInvStep, AccountInvInit, PTL DEF Spec
=============================================================================
