--------------------------- MODULE OutboundMonitor ---------------------------
(***************************************************************************)
(* Test scheduling of the outbound monitor:                                *)
(* common/monitoring/outbound_monitoring.go.                               *)
(*                                                                         *)
(* Tests are requested by callers (TestNow, InvalidateTest) and by the     *)
(* cycle goroutine; they travel through two bounded channels to a pool of  *)
(* workers.  Per-outbound flags, each under its own mutex, keep a test     *)
(* from being queued twice and a cycle from picking an outbound whose test *)
(* is on its way.  An outbound that is not ready has its test put off by   *)
(* a timer goroutine that enqueues the same task again.                    *)
(*                                                                         *)
(* One action is one critical section of a state.mu, one channel operation *)
(* or one atomic operation.  The delays themselves, the history file and   *)
(* the group events that a result also causes are not kept here.           *)
(***************************************************************************)
EXTENDS Integers, Sequences, FiniteSets

CONSTANTS Outbounds,            \* tags of the outbounds that are not groups
          Groups,               \* tags of the groups, "" among them
          Members,              \* groupState.outbounds
          DependenciesInverse,  \* outboundState.dependenciesInverse
          Workers,
          PriorityCap,          \* capacity of priorityQueue (1000)
          NormalCap,            \* capacity of normalQueue (10000)
          ReadyLimit,           \* a task of this cycleID is not put off (10)
          NumURLs,              \* len(m.urls)
          Flaky,                \* outbounds that may cease to be ready
          MaxCycleID,           \* bound: later cycles share this number
          MaxCalls,             \* bound on the calls of TestNow etc.
          MaxDelayed,           \* bound on the tasks put off at a time
          NoTask

Tags == Outbounds \cup Groups

ASSUME MonitorAssumption ==
  /\ IsFiniteSet(Outbounds) /\ IsFiniteSet(Workers)
  /\ Outbounds \cap Groups = {}
  /\ Members \in [Groups -> SUBSET Tags]
  /\ DependenciesInverse \in [Tags -> SUBSET Tags]
  /\ PriorityCap \in Nat /\ NormalCap \in Nat
  /\ ReadyLimit \in Nat /\ NumURLs \in Nat \ {0}
  /\ MaxCycleID \in Nat \ {0} /\ ReadyLimit <= MaxCycleID
  /\ MaxCalls \in Nat /\ MaxDelayed \in Nat
  /\ Flaky \subseteq Outbounds

Task == [tag : Outbounds, cycleID : Nat, priority : BOOLEAN, reply : BOOLEAN]

ASSUME NoTaskAssumption == NoTask \notin Task

VARIABLES
  invalid, queued, priorityQueued, testing,  \* outbounds with the flag set
  enqueuedCycle,                             \* outboundState.enqueuedCycle
  ready,                                     \* outbounds with IsReady()
  priorityQueue, normalQueue,                \* the two channels
  wpc, wtask,                                \* workers: control, task at hand
  delayed,                                   \* tasks held by timer goroutines
  todo, request,                             \* callers: targets, task being made
  cycleSeq, cpc, cycle, resultCh,            \* the cycle goroutine
  currentLinkIndex,
  cancelled,                                 \* m.ctx is done
  calls,                                     \* calls made so far
  dropped, lostReplies                       \* history: see the properties

flags       == <<invalid, queued, priorityQueued, testing, enqueuedCycle>>
queues      == <<priorityQueue, normalQueue>>
workerVars  == <<wpc, wtask>>
callerVars  == <<todo, request, calls>>
cycleVars   == <<cycleSeq, cpc, cycle, resultCh, currentLinkIndex>>
historyVars == <<dropped, lostReplies>>
vars == <<flags, ready, queues, workerVars, delayed, callerVars, cycleVars,
          cancelled, historyVars>>

WPCs  == {"outer", "inner", "start", "test", "finish", "exit"}
CPCs  == {"idle", "collect", "stage"}
Cycle == [id : Nat, tags : SUBSET Outbounds, todo : SUBSET Outbounds,
          expected : Nat, success : BOOLEAN, url : Nat]

TypeOK ==
  /\ invalid \subseteq Outbounds
  /\ queued \subseteq Outbounds
  /\ priorityQueued \subseteq Outbounds
  /\ testing \subseteq Outbounds
  /\ enqueuedCycle \in [Outbounds -> Nat]
  /\ ready \subseteq Outbounds
  /\ priorityQueue \in Seq(Task)
  /\ normalQueue \in Seq(Task)
  /\ wpc \in [Workers -> WPCs]
  /\ wtask \in [Workers -> Task \cup {NoTask}]
  /\ delayed \in Seq(Task)
  /\ todo \in SUBSET [tag : Outbounds, priority : BOOLEAN]
  /\ request \in Task \cup {NoTask}
  /\ cycleSeq \in Nat
  /\ cpc \in CPCs
  /\ cycle \in Cycle
  /\ resultCh \in Seq(BOOLEAN)
  /\ currentLinkIndex \in 0 .. NumURLs - 1
  /\ cancelled \in BOOLEAN
  /\ calls \in Nat
  /\ dropped \subseteq Outbounds
  /\ lostReplies \in Nat

NoCycle == [id |-> 0, tags |-> {}, todo |-> {}, expected |-> 0,
            success |-> FALSE, url |-> 0]

Init ==
  /\ invalid = Outbounds
  /\ queued = {}
  /\ priorityQueued = {}
  /\ testing = {}
  /\ enqueuedCycle = [o \in Outbounds |-> 0]
  /\ ready \in SUBSET Outbounds
  /\ priorityQueue = <<>>
  /\ normalQueue = <<>>
  /\ wpc = [w \in Workers |-> "outer"]
  /\ wtask = [w \in Workers |-> NoTask]
  /\ delayed = <<>>
  /\ todo = {}
  /\ request = NoTask
  /\ cycleSeq = 0
  /\ cpc = "idle"
  /\ cycle = NoCycle
  /\ resultCh = <<>>
  /\ currentLinkIndex = 0
  /\ cancelled = FALSE
  /\ calls = 0
  /\ dropped = {}
  /\ lostReplies = 0
-----------------------------------------------------------------------------
(* enqueueTask: a flag first, then a non-blocking send.  Its three ends are *)
(* apart because only the first one returns true.                          *)

Mark(t) ==
  IF t.priority
  THEN /\ priorityQueued' = priorityQueued \cup {t.tag}
       /\ UNCHANGED <<enqueuedCycle, queued>>
  ELSE /\ enqueuedCycle' = [enqueuedCycle EXCEPT ![t.tag] = t.cycleID]
       /\ queued' = queued \cup {t.tag}
       /\ UNCHANGED priorityQueued

Duplicate(t) ==
  IF t.priority THEN t.tag \in priorityQueued
                ELSE enqueuedCycle[t.tag] = t.cycleID

HasRoom(t) ==
  IF t.priority THEN Len(priorityQueue) < PriorityCap
                ELSE Len(normalQueue) < NormalCap

Accepted(t) ==
  /\ ~cancelled
  /\ ~Duplicate(t)
  /\ HasRoom(t)
  /\ Mark(t)
  /\ IF t.priority
     THEN priorityQueue' = Append(priorityQueue, t) /\ UNCHANGED normalQueue
     ELSE normalQueue' = Append(normalQueue, t) /\ UNCHANGED priorityQueue
  /\ UNCHANGED <<invalid, testing, dropped>>

Overflow(t) ==
  /\ ~cancelled
  /\ ~Duplicate(t)
  /\ ~HasRoom(t)
  /\ Mark(t)
  /\ dropped' = dropped \cup {t.tag}
  /\ UNCHANGED <<invalid, testing, queues>>

Refused(t) ==
  /\ cancelled \/ Duplicate(t)
  /\ UNCHANGED <<flags, queues>>
-----------------------------------------------------------------------------
(* Callers.                                                                *)

\* testNow of a group goes down to the members that are not groups.
leaves[t \in Tags] ==
  IF t \in Groups THEN UNION {leaves[m] : m \in Members[t]} ELSE {t}

\* testParents goes up the dependencies; groups on the way are not tested.
parents[t \in Tags] ==
  UNION {({p} \ Groups) \cup parents[p] : p \in DependenciesInverse[t]}

Request == [tag : Outbounds, priority : BOOLEAN]

TestNow(t) ==
  /\ calls < MaxCalls
  /\ calls' = calls + 1
  /\ todo' = todo \cup
       {r \in Request : \/ r.priority /\ r.tag \in parents[t]
                        \/ r.tag \in leaves[t] /\ (r.priority <=> t \notin Groups)}
  /\ UNCHANGED <<flags, ready, queues, workerVars, delayed, request, cycleVars,
                 cancelled, historyVars>>

InvalidateTest(o) ==
  /\ calls < MaxCalls
  /\ calls' = calls + 1
  /\ invalid' = invalid \cup {o}
  /\ todo' = todo \cup {[tag |-> o, priority |-> TRUE]}
  /\ UNCHANGED <<queued, priorityQueued, testing, enqueuedCycle, ready, queues,
                 workerVars, delayed, request, cycleVars, cancelled,
                 historyVars>>

\* The task takes m.cycleSeq as it is now; it is enqueued in a later step.
MakeTask(r) ==
  /\ r \in todo
  /\ request = NoTask
  /\ todo' = todo \ {r}
  /\ request' = [tag |-> r.tag, cycleID |-> cycleSeq, priority |-> r.priority,
                 reply |-> FALSE]
  /\ UNCHANGED <<flags, ready, queues, workerVars, delayed, calls, cycleVars,
                 cancelled, historyVars>>

EnqueueRequest ==
  /\ request # NoTask
  /\ \/ Accepted(request)
     \/ Overflow(request)
     \/ Refused(request) /\ UNCHANGED dropped
  /\ request' = NoTask
  /\ UNCHANGED <<ready, workerVars, delayed, todo, calls, cycleVars, cancelled,
                 lostReplies>>
-----------------------------------------------------------------------------
(* Workers.                                                                *)

Take(w, t) ==
  /\ wpc' = [wpc EXCEPT ![w] = "start"]
  /\ wtask' = [wtask EXCEPT ![w] = t]

TakePriority(w) ==
  /\ wpc[w] \in {"outer", "inner"}
  /\ priorityQueue # <<>>
  /\ Take(w, Head(priorityQueue))
  /\ priorityQueue' = Tail(priorityQueue)
  /\ UNCHANGED <<flags, ready, normalQueue, delayed, callerVars, cycleVars,
                 cancelled, historyVars>>

\* The default case of the outer select.
NoPriority(w) ==
  /\ wpc[w] = "outer"
  /\ ~cancelled
  /\ priorityQueue = <<>>
  /\ wpc' = [wpc EXCEPT ![w] = "inner"]
  /\ UNCHANGED <<flags, ready, queues, wtask, delayed, callerVars, cycleVars,
                 cancelled, historyVars>>

TakeNormal(w) ==
  /\ wpc[w] = "inner"
  /\ normalQueue # <<>>
  /\ Take(w, Head(normalQueue))
  /\ normalQueue' = Tail(normalQueue)
  /\ UNCHANGED <<flags, ready, priorityQueue, delayed, callerVars, cycleVars,
                 cancelled, historyVars>>

WorkerExit(w) ==
  /\ wpc[w] \in {"outer", "inner"}
  /\ cancelled
  /\ wpc' = [wpc EXCEPT ![w] = "exit"]
  /\ UNCHANGED <<flags, ready, queues, wtask, delayed, callerVars, cycleVars,
                 cancelled, historyVars>>

\* executeTask returns at once when m.ctx is done.
SkipTask(w) ==
  /\ wpc[w] = "start"
  /\ cancelled
  /\ wpc' = [wpc EXCEPT ![w] = "outer"]
  /\ wtask' = [wtask EXCEPT ![w] = NoTask]
  /\ UNCHANGED <<flags, ready, queues, delayed, callerVars, cycleVars,
                 cancelled, historyVars>>

PutOff(t) == t.cycleID < ReadyLimit /\ t.tag \notin ready

\* A task that is put off goes to a timer goroutine and no result is sent.
ExecuteTask(w) ==
  /\ wpc[w] = "start"
  /\ ~cancelled
  /\ testing' = testing \cup {wtask[w].tag}
  /\ \/ /\ PutOff(wtask[w])
        /\ Len(delayed) < MaxDelayed
        /\ delayed' = Append(delayed, wtask[w])
        /\ wpc' = [wpc EXCEPT ![w] = "finish"]
     \/ /\ ~PutOff(wtask[w])
        /\ wpc' = [wpc EXCEPT ![w] = "test"]
        /\ UNCHANGED delayed
  /\ UNCHANGED <<invalid, queued, priorityQueued, enqueuedCycle, ready, queues,
                 wtask, callerVars, cycleVars, cancelled, historyVars>>

\* The non-blocking send of the outcome.
Reply(t, ok) ==
  resultCh' = IF t.reply /\ Len(resultCh) < Cardinality(cycle.tags)
              THEN Append(resultCh, ok) ELSE resultCh

\* As if applyResult left priorityQueued to the next request.
ApplyResultKeepsPriority(w) ==
  /\ wpc[w] = "test"
  /\ ~cancelled
  /\ LET o == wtask[w].tag IN
       /\ queued' = queued \ {o}
       /\ enqueuedCycle' = [enqueuedCycle EXCEPT ![o] = 0]
       /\ dropped' = dropped \ {o}
       /\ \E ok \in BOOLEAN :
            /\ invalid' = IF ok THEN invalid \ {o} ELSE invalid \cup {o}
            /\ Reply(wtask[w], ok)
  /\ wpc' = [wpc EXCEPT ![w] = "finish"]
  /\ UNCHANGED <<priorityQueued, testing, ready, queues, wtask, delayed,
                 callerVars, cycleSeq, cpc, cycle, currentLinkIndex, cancelled,
                 lostReplies>>

\* The tester goroutine ends: applyResult under state.mu, then the reply.
ApplyResult(w) ==
  /\ wpc[w] = "test"
  /\ ~cancelled
  /\ LET o == wtask[w].tag IN
       /\ queued' = queued \ {o}
       /\ priorityQueued' = priorityQueued \ {o}
       /\ enqueuedCycle' = [enqueuedCycle EXCEPT ![o] = 0]
       /\ dropped' = dropped \ {o}
       /\ \E ok \in BOOLEAN :
            /\ invalid' = IF ok THEN invalid \ {o} ELSE invalid \cup {o}
            /\ Reply(wtask[w], ok)
  /\ wpc' = [wpc EXCEPT ![w] = "finish"]
  /\ UNCHANGED <<testing, ready, queues, wtask, delayed, callerVars, cycleSeq,
                 cpc, cycle, currentLinkIndex, cancelled, lostReplies>>

\* The worker stops waiting for the tester goroutine, whose result is then
\* turned away by applyResult.
Abandon(w) ==
  /\ wpc[w] = "test"
  /\ cancelled
  /\ wpc' = [wpc EXCEPT ![w] = "finish"]
  /\ UNCHANGED <<flags, ready, queues, wtask, delayed, callerVars, cycleVars,
                 cancelled, historyVars>>

\* The deferred reset of `testing', also after NotReady.
Finish(w) ==
  /\ wpc[w] = "finish"
  /\ testing' = testing \ {wtask[w].tag}
  /\ wpc' = [wpc EXCEPT ![w] = "outer"]
  /\ wtask' = [wtask EXCEPT ![w] = NoTask]
  /\ UNCHANGED <<invalid, queued, priorityQueued, enqueuedCycle, ready, queues,
                 delayed, callerVars, cycleVars, cancelled, historyVars>>

\* As if the task kept its number and went straight back to its queue.
RetryUnnumbered(i) ==
  LET t == delayed[i] IN
  /\ delayed' = SubSeq(delayed, 1, i - 1) \o SubSeq(delayed, i + 1, Len(delayed))
  /\ IF t.priority
     THEN priorityQueue' = Append(priorityQueue, t) /\ UNCHANGED normalQueue
     ELSE normalQueue' = Append(normalQueue, t) /\ UNCHANGED priorityQueue
  /\ UNCHANGED <<flags, ready, workerVars, callerVars, cycleVars, cancelled,
                 historyVars>>

\* A timer goroutine wakes up: the task is numbered up and enqueued again.
Retry(i) ==
  LET t == [delayed[i] EXCEPT !.cycleID = @ + 1] IN
  /\ delayed' = SubSeq(delayed, 1, i - 1) \o SubSeq(delayed, i + 1, Len(delayed))
  /\ \/ Accepted(t) /\ UNCHANGED lostReplies
     \/ Overflow(t) /\ lostReplies' = lostReplies + (IF t.reply THEN 1 ELSE 0)
     \/ /\ Refused(t)
        /\ dropped' = dropped \cup {t.tag}
        /\ lostReplies' = lostReplies + (IF t.reply THEN 1 ELSE 0)
  /\ UNCHANGED <<ready, workerVars, callerVars, cycleVars, cancelled>>
-----------------------------------------------------------------------------
(* The cycle goroutine.                                                    *)

\* cycleRunning goes up and the new goroutine takes its number.  Numbers from
\* ReadyLimit on are only compared for equality, so the bound makes two late
\* cycles indistinct and nothing else.
StartCycleOnce ==
  /\ cpc = "idle"
  /\ cycleSeq' = IF cycleSeq < MaxCycleID THEN cycleSeq + 1 ELSE cycleSeq
  /\ cycle' = [NoCycle EXCEPT !.id = cycleSeq']
  /\ cpc' = "collect"
  /\ UNCHANGED <<flags, ready, queues, workerVars, delayed, callerVars,
                 resultCh, currentLinkIndex, cancelled, historyVars>>

Eligible == Outbounds \ (testing \cup queued \cup priorityQueued)

\* Any eligible outbound may have a history older than the interval.
CollectCycleTargets ==
  /\ cpc = "collect"
  /\ \E tags \in SUBSET Eligible :
       /\ Eligible \cap invalid \subseteq tags
       /\ IF tags = {}
          THEN cpc' = "idle" /\ cycle' = NoCycle
          ELSE /\ cpc' = "stage"
               /\ cycle' = [cycle EXCEPT !.tags = tags, !.todo = tags]
  /\ resultCh' = <<>>
  /\ UNCHANGED <<flags, ready, queues, workerVars, delayed, callerVars,
                 cycleSeq, currentLinkIndex, cancelled, historyVars>>

\* As if a task counted before enqueueTask said that it was taken.
StageEnqueueCountsAll(o) ==
  LET t == [tag |-> o, cycleID |-> cycle.id, priority |-> FALSE, reply |-> TRUE]
  IN
  /\ cpc = "stage"
  /\ o \in cycle.todo
  /\ Accepted(t) \/ Overflow(t) \/ (Refused(t) /\ UNCHANGED dropped)
  /\ cycle' = [cycle EXCEPT !.todo = @ \ {o}, !.expected = @ + 1]
  /\ UNCHANGED <<ready, workerVars, delayed, callerVars, cycleSeq, cpc,
                 resultCh, currentLinkIndex, cancelled, lostReplies>>

\* One iteration of the first loop of runStage (in order of delay).
StageEnqueue(o) ==
  LET t == [tag |-> o, cycleID |-> cycle.id, priority |-> FALSE, reply |-> TRUE]
  IN
  /\ cpc = "stage"
  /\ o \in cycle.todo
  /\ \/ /\ Accepted(t)
        /\ cycle' = [cycle EXCEPT !.todo = @ \ {o}, !.expected = @ + 1]
     \/ /\ Overflow(t) \/ (Refused(t) /\ UNCHANGED dropped)
        /\ cycle' = [cycle EXCEPT !.todo = @ \ {o}]
  /\ UNCHANGED <<ready, workerVars, delayed, callerVars, cycleSeq, cpc,
                 resultCh, currentLinkIndex, cancelled, lostReplies>>

StageReceive ==
  /\ cpc = "stage"
  /\ cycle.todo = {}
  /\ cycle.expected > 0
  /\ resultCh # <<>>
  /\ cycle' = [cycle EXCEPT !.expected = @ - 1,
                            !.success = @ \/ Head(resultCh)]
  /\ resultCh' = Tail(resultCh)
  /\ UNCHANGED <<flags, ready, queues, workerVars, delayed, callerVars,
                 cycleSeq, cpc, currentLinkIndex, cancelled, historyVars>>

\* runStage returns; runCycle ends or goes on with the next URL.
StageEnd ==
  /\ cpc = "stage"
  /\ cycle.todo = {}
  /\ cycle.expected = 0 \/ cancelled
  /\ IF cycle.success \/ cycle.url = NumURLs - 1
     THEN /\ cpc' = "idle"
          /\ cycle' = NoCycle
          /\ UNCHANGED currentLinkIndex
     ELSE /\ currentLinkIndex' = (currentLinkIndex + 1) % NumURLs
          /\ cycle' = [cycle EXCEPT !.todo = cycle.tags, !.expected = 0,
                                    !.success = FALSE, !.url = @ + 1]
          /\ UNCHANGED cpc
  /\ resultCh' = <<>>
  /\ UNCHANGED <<flags, ready, queues, workerVars, delayed, callerVars,
                 cycleSeq, cancelled, historyVars>>
-----------------------------------------------------------------------------
(* The surroundings.                                                       *)

BecomeReady(o) ==
  /\ o \notin ready
  /\ ready' = ready \cup {o}
  /\ UNCHANGED <<flags, queues, workerVars, delayed, callerVars, cycleVars,
                 cancelled, historyVars>>

BecomeUnready(o) ==
  /\ o \in Flaky \cap ready
  /\ ready' = ready \ {o}
  /\ UNCHANGED <<flags, queues, workerVars, delayed, callerVars, cycleVars,
                 cancelled, historyVars>>

\* m.cancel() in Close.
Cancel ==
  /\ ~cancelled
  /\ cancelled' = TRUE
  /\ UNCHANGED <<flags, ready, queues, workerVars, delayed, callerVars,
                 cycleVars, historyVars>>

WorkerStep(w) ==
  \/ TakePriority(w) \/ NoPriority(w) \/ TakeNormal(w) \/ WorkerExit(w)
  \/ SkipTask(w) \/ ExecuteTask(w) \/ ApplyResult(w) \/ Abandon(w) \/ Finish(w)

CycleStep ==
  \/ CollectCycleTargets
  \/ \E o \in Outbounds : StageEnqueue(o)
  \/ StageReceive \/ StageEnd

CallerStep == (\E r \in todo : MakeTask(r)) \/ EnqueueRequest

Next ==
  \/ \E t \in Tags : TestNow(t)
  \/ \E o \in Outbounds : InvalidateTest(o) \/ BecomeReady(o) \/ BecomeUnready(o)
  \/ CallerStep
  \/ \E w \in Workers : WorkerStep(w)
  \/ \E i \in 1 .. Len(delayed) : Retry(i)
  \/ StartCycleOnce \/ CycleStep \/ Cancel

Spec == Init /\ [][Next]_vars

\* Goroutines run, tests end (they have a timeout), timers fire, the ticker
\* starts cycles; a worker in the inner select does not pass over normal
\* tasks for ever.  Nothing makes callers call or readiness change.
Fairness ==
  /\ \A w \in Workers : WF_vars(WorkerStep(w))
  /\ \A w \in Workers : SF_vars(TakeNormal(w))
  /\ \A i \in 1 .. MaxDelayed : WF_vars(i <= Len(delayed) /\ Retry(i))
  /\ WF_vars(CallerStep)
  /\ WF_vars(StartCycleOnce)
  /\ WF_vars(CycleStep)

FairSpec == Spec /\ Fairness

\* The same where every outbound gets ready.
ReadySpec == FairSpec /\ \A o \in Outbounds : WF_vars(BecomeReady(o))
-----------------------------------------------------------------------------
AtHand(w) == wpc[w] \in {"start", "test"}

(* The tasks on their way to applyResult.                                  *)
Elements(q) == {q[i] : i \in 1 .. Len(q)}

Pending ==
  Elements(priorityQueue) \cup Elements(normalQueue) \cup Elements(delayed)
    \cup {wtask[w] : w \in {v \in Workers : AtHand(v)}}

Outstanding(o, prio) == \E t \in Pending : t.tag = o /\ t.priority = prio

(* The flags queued and priorityQueued keep an outbound out of every cycle *)
(* and turn requests away; only a result clears them.  So each of them is  *)
(* backed by a task on its way to a result, or its enqueueTask found the   *)
(* queue full, or its put-off task was turned away by its own flag.        *)
FlagsBacked ==
  ~cancelled =>
    \A o \in Outbounds \ dropped :
      /\ o \in priorityQueued => Outstanding(o, TRUE)
      /\ o \in queued => Outstanding(o, FALSE)

\* Inductive: a worker past the queues has a task.
MonitorInv ==
  /\ TypeOK
  /\ \A w \in Workers :
       wpc[w] \in {"start", "test", "finish"} => wtask[w] \in Task
  /\ FlagsBacked

ReplyTasks(q) == Cardinality({i \in 1 .. Len(q) : q[i].reply})
ReplyWorkers ==
  Cardinality({w \in Workers : AtHand(w) /\ wtask[w].reply})

(* runStage waits for exactly the results that are still to come: each of  *)
(* them belongs to one task that is queued, put off or being tested, or is *)
(* in resultCh, or belongs to a put-off task that could not be enqueued    *)
(* again and will never be sent.                                           *)
StageAccounting ==
  ~cancelled => cycle.expected = ReplyTasks(normalQueue) + ReplyTasks(delayed)
                                 + ReplyWorkers + Len(resultCh) + lostReplies

(* The inductive invariant behind StageAccounting.  Only the tasks of a    *)
(* cycle want a reply and they are never priority tasks; runStage expects  *)
(* nothing outside a stage, and no more than one result for each target it *)
(* is through with, so resultCh, made for all targets, is never full when  *)
(* a result is sent.                                                       *)
ReplyKinds ==
  /\ request # NoTask => ~request.reply
  /\ \A t \in Elements(priorityQueue) : t.priority
  /\ \A t \in Pending : t.reply => ~t.priority

StagePlan ==
  /\ cpc # "stage" => cycle.expected = 0
  /\ cycle.todo \subseteq cycle.tags
  /\ Cardinality(cycle.todo) + cycle.expected <= Cardinality(cycle.tags)

AccountInv == ReplyKinds /\ StagePlan /\ StageAccounting

(* Every cycle ends, so that the next tick can start one: an outbound that *)
(* stays not ready is put off only ReadyLimit times.  The exceptions are a *)
(* put-off task that finds the queue full or its number taken, for whose   *)
(* result runStage waits for ever.                                         *)
CycleEnds == (cpc # "idle") ~> (cpc = "idle" \/ lostReplies > 0)

(* A requested test that is accepted is carried out: the flag that turns   *)
(* later requests away comes down, unless its task was lost on the way.    *)
PriorityServed ==
  \A o \in Outbounds :
    o \in priorityQueued ~> (o \notin priorityQueued \/ o \in dropped \/ cancelled)

(* "InvalidateTest marks the cached test result as invalid so it will be   *)
(* retested."                                                              *)
Retested ==
  \A o \in Outbounds :
    (o \in invalid /\ [tag |-> o, priority |-> TRUE] \in todo)
      ~> (cancelled \/ \E w \in Workers : wpc[w] = "test" /\ wtask[w].tag = o)
=============================================================================
