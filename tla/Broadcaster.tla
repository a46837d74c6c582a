----------------------------- MODULE Broadcaster -----------------------------
(***************************************************************************)
(* The fan-out of group events: common/monitoring/brodcaster.go.  Every    *)
(* subscriber has a buffered channel; Publish never waits for a slow one;  *)
(* cancelling ctx closes all channels, which a goroutine of its own does.  *)
(*                                                                         *)
(* Subscribe, Unsubscribe and closeAll hold the write lock and are one     *)
(* action each.  Publish holds the read lock over its loop, one action per *)
(* channel, since readers and the cancellation do not take the lock.       *)
(* There is one publisher at a time, as in the monitor.                    *)
(***************************************************************************)
EXTENDS Integers

CONSTANTS Channels,  \* the channels that calls of Subscribe make
          Buffer     \* their capacity

VARIABLES ctxDone,   \* b.ctx is cancelled
          subs,      \* b.subs; empty when it is nil
          closedAll, \* closeAll has run: b.subs is nil
          chan,      \* "none" before Subscribe, then open or closed
          buffered,  \* number of events in each channel
          rlocked,   \* Publish holds the read lock
          left       \* channels its loop has yet to visit

vars == <<ctxDone, subs, closedAll, chan, buffered, rlocked, left>>

TypeOK ==
  /\ ctxDone \in BOOLEAN
  /\ subs \subseteq Channels
  /\ closedAll \in BOOLEAN
  /\ chan \in [Channels -> {"none", "open", "closed"}]
  /\ buffered \in [Channels -> 0..Buffer]
  /\ rlocked \in BOOLEAN
  /\ left \subseteq Channels

Init ==
  /\ ctxDone = FALSE
  /\ subs = {}
  /\ closedAll = FALSE
  /\ chan = [ch \in Channels |-> "none"]
  /\ buffered = [ch \in Channels |-> 0]
  /\ rlocked = FALSE
  /\ left = {}
-----------------------------------------------------------------------------
Subscribe(ch) ==
  /\ ~rlocked
  /\ chan[ch] = "none"
  /\ IF ctxDone
     THEN chan' = [chan EXCEPT ![ch] = "closed"] /\ UNCHANGED subs
     ELSE chan' = [chan EXCEPT ![ch] = "open"] /\ subs' = subs \cup {ch}
  /\ UNCHANGED <<ctxDone, closedAll, buffered, rlocked, left>>

\* A channel that is no longer registered is left alone.
Unsubscribe(ch) ==
  /\ ~rlocked
  /\ chan[ch] # "none"
  /\ subs' = subs \ {ch}
  /\ chan' = [chan EXCEPT ![ch] = IF ch \in subs THEN "closed" ELSE @]
  /\ UNCHANGED <<ctxDone, closedAll, buffered, rlocked, left>>

\* Publish takes the read lock and starts its loop.
Publish ==
  /\ ~rlocked
  /\ rlocked' = TRUE
  /\ left' = subs
  /\ UNCHANGED <<ctxDone, subs, closedAll, chan, buffered>>

\* The select for one channel: send, or drop the event if there is no room
\* and ctx is not done.
PublishTo(ch) ==
  /\ rlocked
  /\ ch \in left
  /\ left' = left \ {ch}
  /\ \/ buffered[ch] < Buffer /\ buffered' = [buffered EXCEPT ![ch] = @ + 1]
     \/ buffered[ch] = Buffer /\ ~ctxDone /\ UNCHANGED buffered
  /\ UNCHANGED <<ctxDone, subs, closedAll, chan, rlocked>>

\* The loop is over, or the select sees that ctx is done.
PublishReturn ==
  /\ rlocked
  /\ left = {} \/ ctxDone
  /\ rlocked' = FALSE
  /\ left' = {}
  /\ UNCHANGED <<ctxDone, subs, closedAll, chan, buffered>>

\* Close, or the cancellation of the parent.
Close ==
  /\ ctxDone' = TRUE
  /\ UNCHANGED <<subs, closedAll, chan, buffered, rlocked, left>>

\* watchContext: the goroutine waits for ctx and closes every channel.
closeAll ==
  /\ ctxDone
  /\ ~closedAll
  /\ ~rlocked
  /\ chan' = [ch \in Channels |-> IF ch \in subs THEN "closed" ELSE chan[ch]]
  /\ subs' = {}
  /\ closedAll' = TRUE
  /\ UNCHANGED <<ctxDone, buffered, rlocked, left>>

\* A subscriber receives; a closed channel still hands out what it holds.
Receive(ch) ==
  /\ buffered[ch] > 0
  /\ buffered' = [buffered EXCEPT ![ch] = @ - 1]
  /\ UNCHANGED <<ctxDone, subs, closedAll, chan, rlocked, left>>

\* What a subscriber sees once a closed channel is empty.
Finished(ch) == chan[ch] = "closed" /\ buffered[ch] = 0

Next ==
  \/ \E ch \in Channels :
       Subscribe(ch) \/ Unsubscribe(ch) \/ PublishTo(ch) \/ Receive(ch)
  \/ Publish \/ PublishReturn \/ Close \/ closeAll

Spec == Init /\ [][Next]_vars

\* The goroutine of watchContext runs, and a Publish that has begun goes on;
\* the write lock is granted to a waiter (sync.RWMutex holds new readers
\* back), so closeAll is not overtaken for ever.
Fairness ==
  /\ WF_vars((\E ch \in Channels : PublishTo(ch)) \/ PublishReturn)
  /\ SF_vars(closeAll)

FairSpec == Spec /\ Fairness
-----------------------------------------------------------------------------
(* The map holds exactly the open channels.  So Publish never sends on a   *)
(* closed channel and neither Unsubscribe nor closeAll closes one twice    *)
(* (both would panic), whatever their order; and no open channel is out of *)
(* closeAll's reach: who subscribes after it gets a closed one.            *)
MapHoldsOpen ==
  /\ \A ch \in Channels : ch \in subs <=> chan[ch] = "open"
  /\ left \subseteq subs
  /\ closedAll => subs = {}

(* The inductive invariant behind MapHoldsOpen.                            *)
BroadcasterInv ==
  /\ TypeOK
  /\ MapHoldsOpen
  /\ closedAll => ctxDone
  /\ ~rlocked => left = {}
=============================================================================
