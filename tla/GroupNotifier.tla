---------------------------- MODULE GroupNotifier ----------------------------
(***************************************************************************)
(* How a change reaches those who watch a group: the notification half of  *)
(* common/monitoring/outbound_monitoring.go for one group, its Broadcaster *)
(* and the worker goroutines of protocol/group/balancer.                   *)
(*                                                                         *)
(* A result of a test of a member (applyResult) puts a token into          *)
(* notifyCh, which holds one, and so does SignalChange, which a selector   *)
(* calls for its own group; the notifier's loop arms a debounce timer, and *)
(* when it fires publishes an event; a worker that gets an event reads the *)
(* group's members one by one.  Every stage may drop: the token when there *)
(* is one already, the event when the worker's channel is full.  What      *)
(* changes in a member that is itself a group puts no token here.          *)
(*                                                                         *)
(* The data of a member is abstracted to owed: the members that changed    *)
(* since a worker subscribed and that it has not read since.               *)
(***************************************************************************)
EXTENDS Integers

CONSTANTS Outbounds,  \* members of the group that are tested
          Nested,     \* members that are groups
          Selectors,  \* goroutines in SelectOutbound, if this is a selector
          Workers,    \* goroutines that watch the group
          Buffer      \* capacity of a subscription, 1 in SubscribeGroup

ASSUME NotifierAssumption ==
  Buffer \in Nat \ {0} /\ Outbounds \cap (Nested \cup Selectors) = {}

Items == Outbounds \cup Nested

VARIABLES notifyCh,    \* tokens in grp.notifyCh, of capacity 1
          loop,        \* where groupNotifierLoop is
          timer,       \* the timer of the loop: nil or armed
          monitorDone, \* m.ctx is cancelled
          boxDone,     \* the context of the whole instance is cancelled
          closer,      \* where Close is
          change,      \* where each goroutine that notifies is
          worker,      \* where each worker is
          toRead,      \* members a worker has yet to read in OutboundsHistory
          owed,        \* members changed and not read since, per worker
          ctxDone, subs, closedAll, chan, buffered, rlocked, left

O == INSTANCE Broadcaster WITH Channels <- Workers

bvars == <<ctxDone, subs, closedAll, chan, buffered, rlocked, left>>
loopVars == <<notifyCh, loop, timer>>
closeVars == <<monitorDone, boxDone, closer>>
workerVars == <<worker, toRead, owed>>
vars == <<loopVars, closeVars, change, workerVars, bvars>>

TypeOK ==
  /\ O!TypeOK
  /\ notifyCh \in 0..1
  /\ loop \in {"select", "emit", "publish", "exit"}
  /\ timer \in {"nil", "armed"}
  /\ monitorDone \in BOOLEAN
  /\ boxDone \in BOOLEAN
  /\ closer \in {"out", "cancel", "wait", "done"}
  /\ change \in [Outbounds \cup Selectors -> {"idle", "emit"}]
  /\ worker \in [Workers -> {"out", "select", "reading", "leaving", "done"}]
  /\ toRead \in [Workers -> SUBSET Items]
  /\ owed \in [Workers -> SUBSET Items]

Init ==
  /\ O!Init
  /\ notifyCh = 0
  /\ loop = "select"
  /\ timer = "nil"
  /\ monitorDone = FALSE
  /\ boxDone = FALSE
  /\ closer = "out"
  /\ change = [i \in Outbounds \cup Selectors |-> "idle"]
  /\ worker = [w \in Workers |-> "out"]
  /\ toRead = [w \in Workers |-> {}]
  /\ owed = [w \in Workers |-> {}]
-----------------------------------------------------------------------------
(* The sources of changes.                                                 *)

Watching(w) == worker[w] \in {"select", "reading"}

Changed(i) ==
  owed' = [w \in Workers |-> IF Watching(w) THEN owed[w] \cup {i} ELSE owed[w]]

\* applyResult takes the outbound's lock, which it holds until the event is
\* emitted, and stores the result.
applyResult(o) ==
  /\ ~monitorDone
  /\ change[o] = "idle"
  /\ change' = [change EXCEPT ![o] = "emit"]
  /\ Changed(o)
  /\ UNCHANGED <<loopVars, closeVars, worker, toRead, bvars>>

\* emitGroupEvent: a token, unless there is one already.
emitGroupEvent(o) ==
  /\ change[o] = "emit"
  /\ notifyCh' = 1
  /\ change' = [change EXCEPT ![o] = "idle"]
  /\ UNCHANGED <<loop, timer, closeVars, workerVars, bvars>>

\* A result or a choice further down: applyResult notifies the groups that
\* hold the outbound itself, SignalChange only the selector's own group.
NestedChanges(n) ==
  /\ Changed(n)
  /\ UNCHANGED <<loopVars, closeVars, change, worker, toRead, bvars>>

\* SelectOutbound: the new choice is stored, and leads to a group.
SelectOutbound(s) ==
  /\ change[s] = "idle"
  /\ change' = [change EXCEPT ![s] = "emit"]
  /\ UNCHANGED <<loopVars, closeVars, workerVars, bvars>>

\* SignalChange waits until there is room for the token.
SignalChange(s) ==
  /\ change[s] = "emit"
  /\ notifyCh = 0
  /\ notifyCh' = 1
  /\ change' = [change EXCEPT ![s] = "idle"]
  /\ UNCHANGED <<loop, timer, closeVars, workerVars, bvars>>
-----------------------------------------------------------------------------
(* groupNotifierLoop.                                                      *)

Notified ==
  /\ loop = "select"
  /\ notifyCh = 1
  /\ notifyCh' = 0
  /\ timer' = "armed"
  /\ UNCHANGED <<loop, closeVars, change, workerVars, bvars>>

TimerFires ==
  /\ loop = "select"
  /\ timer = "armed"
  /\ loop' = "emit"
  /\ UNCHANGED <<notifyCh, timer, closeVars, change, workerVars, bvars>>

\* emitGroupEventThrottled: its list of tags is never read, so that it comes
\* to Publish.
emitGroupEventThrottled ==
  /\ loop = "emit"
  /\ loop' = "publish"
  /\ O!Publish
  /\ UNCHANGED <<notifyCh, timer, closeVars, change, workerVars>>

Publishing ==
  /\ loop = "publish"
  /\ \E w \in Workers : O!PublishTo(w)
  /\ UNCHANGED <<loopVars, closeVars, change, workerVars>>

\* As if the loop emptied notifyCh after it published.
PublishedDrains ==
  /\ loop = "publish"
  /\ O!PublishReturn
  /\ loop' = "select"
  /\ timer' = "nil"
  /\ notifyCh' = 0
  /\ UNCHANGED <<closeVars, change, workerVars>>

\* The timer goes after the event is out.
Published ==
  /\ loop = "publish"
  /\ O!PublishReturn
  /\ loop' = "select"
  /\ timer' = "nil"
  /\ UNCHANGED <<notifyCh, closeVars, change, workerVars>>

NotifierExit ==
  /\ loop = "select"
  /\ monitorDone
  /\ loop' = "exit"
  /\ timer' = "nil"
  /\ UNCHANGED <<notifyCh, closeVars, change, workerVars, bvars>>
-----------------------------------------------------------------------------
(* A balancer's worker.                                                    *)

\* As if the channel were registered without a look at the context.
SubscribeGroupLate(w) ==
  /\ worker[w] = "out"
  /\ ~rlocked
  /\ worker' = [worker EXCEPT ![w] = "select"]
  /\ chan' = [chan EXCEPT ![w] = "open"]
  /\ subs' = subs \cup {w}
  /\ UNCHANGED <<loopVars, closeVars, change, toRead, owed, ctxDone, closedAll,
                 buffered, rlocked, left>>

SubscribeGroup(w) ==
  /\ worker[w] = "out"
  /\ worker' = [worker EXCEPT ![w] = "select"]
  /\ O!Subscribe(w)
  /\ UNCHANGED <<loopVars, closeVars, change, toRead, owed>>

\* An event: the worker calls OutboundsHistory.
GetEvent(w) ==
  /\ worker[w] = "select"
  /\ O!Receive(w)
  /\ worker' = [worker EXCEPT ![w] = "reading"]
  /\ toRead' = [toRead EXCEPT ![w] = Items]
  /\ UNCHANGED <<loopVars, closeVars, change, owed>>

\* getUrlTest reads a member, an outbound under its lock.
getUrlTest(w, i) ==
  /\ worker[w] = "reading"
  /\ i \in toRead[w]
  /\ i \in Outbounds => change[i] = "idle"
  /\ toRead' = [toRead EXCEPT ![w] = @ \ {i}]
  /\ owed' = [owed EXCEPT ![w] = @ \ {i}]
  /\ UNCHANGED <<loopVars, closeVars, change, worker, bvars>>

UpdateOutboundsInfo(w) ==
  /\ worker[w] = "reading"
  /\ toRead[w] = {}
  /\ worker' = [worker EXCEPT ![w] = "select"]
  /\ UNCHANGED <<loopVars, closeVars, change, toRead, owed, bvars>>

\* The other two cases of the worker's select; its close channel is nil and
\* never ready.
Leave(w) ==
  /\ worker[w] = "select"
  /\ boxDone \/ O!Finished(w)
  /\ worker' = [worker EXCEPT ![w] = "leaving"]
  /\ UNCHANGED <<loopVars, closeVars, change, toRead, owed, bvars>>

\* The deferred UnsubscribeGroup.
UnsubscribeGroup(w) ==
  /\ worker[w] = "leaving"
  /\ O!Unsubscribe(w)
  /\ worker' = [worker EXCEPT ![w] = "done"]
  /\ UNCHANGED <<loopVars, closeVars, change, toRead, owed>>
-----------------------------------------------------------------------------
(* The end: Close, or a cancellation from outside, which goes down from    *)
(* context to context.                                                     *)

CloseObserver ==
  /\ closer = "out"
  /\ closer' = "cancel"
  /\ O!Close
  /\ UNCHANGED <<loopVars, monitorDone, boxDone, change, workerVars>>

CloseCancel ==
  /\ closer = "cancel"
  /\ closer' = "wait"
  /\ monitorDone' = TRUE
  /\ UNCHANGED <<loopVars, boxDone, change, workerVars, bvars>>

\* schedulerWG.Wait.
CloseReturn ==
  /\ closer = "wait"
  /\ loop = "exit"
  /\ closer' = "done"
  /\ UNCHANGED <<loopVars, monitorDone, boxDone, change, workerVars, bvars>>

CancelBox ==
  /\ ~boxDone
  /\ boxDone' = TRUE
  /\ UNCHANGED <<loopVars, monitorDone, closer, change, workerVars, bvars>>

CancelMonitor ==
  /\ boxDone /\ ~monitorDone
  /\ monitorDone' = TRUE
  /\ UNCHANGED <<loopVars, boxDone, closer, change, workerVars, bvars>>

CancelObserver ==
  /\ monitorDone /\ ~ctxDone
  /\ O!Close
  /\ UNCHANGED <<loopVars, closeVars, change, workerVars>>

watchContext ==
  /\ O!closeAll
  /\ UNCHANGED <<loopVars, closeVars, change, workerVars>>

Notifier ==
  \/ Notified \/ TimerFires \/ emitGroupEventThrottled
  \/ Publishing \/ Published \/ NotifierExit

Worker(w) ==
  \/ GetEvent(w) \/ UpdateOutboundsInfo(w)
  \/ Leave(w) \/ UnsubscribeGroup(w)

Next ==
  \/ \E o \in Outbounds : applyResult(o) \/ emitGroupEvent(o)
  \/ \E n \in Nested : NestedChanges(n)
  \/ \E s \in Selectors : SelectOutbound(s) \/ SignalChange(s)
  \/ Notifier
  \/ \E w \in Workers : SubscribeGroup(w) \/ Worker(w)
  \/ \E w \in Workers, i \in Items : getUrlTest(w, i)
  \/ CloseObserver \/ CloseCancel \/ CloseReturn
  \/ CancelBox \/ CancelMonitor \/ CancelObserver \/ watchContext

Spec == Init /\ [][Next]_vars

\* Goroutines that can go on do.  Locks and channels serve those who wait in
\* turn and a select picks any of its ready cases, so what such a step waits
\* for again and again it gets.  Nothing is assumed of changes, of Close or
\* of the cancellation of the box.
Fairness ==
  /\ WF_vars(\E o \in Outbounds : emitGroupEvent(o))
  /\ \A s \in Selectors : SF_vars(SignalChange(s))
  /\ WF_vars(Notified \/ emitGroupEventThrottled \/ Publishing \/ Published)
  /\ WF_vars(TimerFires) /\ SF_vars(NotifierExit)
  /\ \A w \in Workers :
       /\ WF_vars(GetEvent(w) \/ UpdateOutboundsInfo(w))
       /\ SF_vars(\E i \in Items : getUrlTest(w, i))
       /\ SF_vars(Leave(w) \/ UnsubscribeGroup(w))
  /\ WF_vars(CloseCancel \/ CloseReturn \/ CancelMonitor \/ CancelObserver)
  /\ SF_vars(watchContext)

FairSpec == Spec /\ Fairness
-----------------------------------------------------------------------------
(* What a worker has not read is still on its way to it: in the hands of   *)
(* the tester that changed it, as the token, in the timer, in the loop of  *)
(* Publish, in the worker's channel or in its reading.                     *)
OnItsWay(w, i) ==
  \/ change[i] = "emit"
  \/ notifyCh = 1
  \/ timer = "armed" /\ loop \in {"select", "emit"}
  \/ loop = "publish" /\ w \in left
  \/ buffered[w] > 0
  \/ worker[w] = "reading" /\ i \in toRead[w]

(* No change is lost, although the token, the event and the timer all may  *)
(* be dropped for one that is there already: as long as the monitor is     *)
(* open, a test result that a worker has not read since will make it read. *)
(* It is not so for what changes in a nested group.                        *)
NoLostChange ==
  \A w \in Workers : Watching(w) /\ ~ctxDone /\ loop # "exit" =>
    \A i \in owed[w] \cap Outbounds : OnItsWay(w, i)

(* Every test result of a member is read by every balancer that watches,   *)
(* unless the monitor is closed.                                           *)
ChangeSeen ==
  \A w \in Workers, i \in Outbounds :
    i \in owed[w] ~> (i \notin owed[w] \/ ctxDone \/ monitorDone \/ boxDone)

(* The broadcaster's map and its channels stay in step, whoever subscribes, *)
(* leaves, publishes or closes, and in whatever order.                     *)
MapHoldsOpen == O!MapHoldsOpen

(* How the loop, the lock and the subscriptions hang together.             *)
Frame ==
  /\ TypeOK
  /\ rlocked <=> loop = "publish"
  /\ loop = "emit" => timer = "armed"
  /\ loop = "exit" => monitorDone
  /\ \A w \in Workers :
       /\ worker[w] = "out" <=> chan[w] = "none"
       /\ worker[w] = "out" => owed[w] = {}
       /\ Watching(w) /\ ~ctxDone => chan[w] = "open"

(* The inductive invariant behind NoLostChange.                            *)
NotifierInv == O!BroadcasterInv /\ Frame /\ NoLostChange
=============================================================================
