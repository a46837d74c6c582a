---------------------------- MODULE BaseTransport ----------------------------
(***************************************************************************)
(* Life cycle of a DNS transport: dns/transport/base.go, type              *)
(* BaseTransport.  Queries announce themselves with BeginQuery and         *)
(* EndQuery; Shutdown refuses new ones, cancels closeCtx and waits for     *)
(* those in flight.                                                        *)
(*                                                                         *)
(* One action is one critical section of t.mutex, or the select at the end *)
(* of Shutdown.  The channel queriesComplete is made at most once, because *)
(* the state leaves StateStarted at most once; it is nil, open or closed.  *)
(***************************************************************************)
EXTENDS Integers, FiniteSets

CONSTANTS Queries,  \* goroutines in Exchange
          Closers   \* goroutines that call Close

VARIABLES state,            \* t.state
          inFlight,         \* t.inFlight
          queriesComplete,  \* t.queriesComplete: nil or the channel
          completed,        \* the channel is closed
          closeCtxDone,     \* t.closeCtx is cancelled
          running,          \* queries between BeginQuery and EndQuery
          shutdown,         \* where each closer is in Shutdown
          expired           \* closers whose ctx has expired

vars == <<state, inFlight, queriesComplete, completed, closeCtxDone, running,
          shutdown, expired>>

States == {"new", "started", "closing", "closed"}

(* "cancel" and "drain": about to cancel closeCtx, without and with a wait *)
(* after it.  "nothing", "drained" and "timeout" are returns: nil because  *)
(* another call came first, nil, and ctx.Err().                            *)
SPCs == {"out", "cancel", "drain", "wait", "nothing", "drained", "timeout"}

TypeOK ==
  /\ state \in States
  /\ inFlight \in Nat
  /\ queriesComplete \in BOOLEAN
  /\ completed \in BOOLEAN
  /\ closeCtxDone \in BOOLEAN
  /\ running \subseteq Queries
  /\ shutdown \in [Closers -> SPCs]
  /\ expired \subseteq Closers

Init ==
  /\ state = "new"
  /\ inFlight = 0
  /\ queriesComplete = FALSE
  /\ completed = FALSE
  /\ closeCtxDone = FALSE
  /\ running = {}
  /\ shutdown = [c \in Closers |-> "out"]
  /\ expired = {}
-----------------------------------------------------------------------------
SetStarted ==
  /\ state = "new"
  /\ state' = "started"
  /\ UNCHANGED <<inFlight, queriesComplete, completed, closeCtxDone, running,
                 shutdown, expired>>

\* BeginQuery returns true; where it returns false it changes nothing.
BeginQuery(q) ==
  /\ q \notin running
  /\ state = "started"
  /\ inFlight' = inFlight + 1
  /\ running' = running \cup {q}
  /\ UNCHANGED <<state, queriesComplete, completed, closeCtxDone, shutdown,
                 expired>>

\* As if EndQuery looked at the count before it is lowered.
EndQueryEarly(q) ==
  /\ q \in running
  /\ running' = running \ {q}
  /\ inFlight' = IF inFlight > 0 THEN inFlight - 1 ELSE inFlight
  /\ IF inFlight = 0 /\ queriesComplete
     THEN completed' = TRUE /\ queriesComplete' = FALSE
     ELSE UNCHANGED <<completed, queriesComplete>>
  /\ UNCHANGED <<state, closeCtxDone, shutdown, expired>>

EndQuery(q) ==
  /\ q \in running
  /\ running' = running \ {q}
  /\ inFlight' = IF inFlight > 0 THEN inFlight - 1 ELSE inFlight
  /\ IF inFlight' = 0 /\ queriesComplete
     THEN completed' = TRUE /\ queriesComplete' = FALSE
     ELSE UNCHANGED <<completed, queriesComplete>>
  /\ UNCHANGED <<state, closeCtxDone, shutdown, expired>>

At(c, p) == shutdown' = [shutdown EXCEPT ![c] = p]

\* The critical section at the head of Shutdown.
Shutdown(c) ==
  /\ shutdown[c] = "out"
  /\ \/ /\ state \in {"closing", "closed"}
        /\ At(c, "nothing")
        /\ UNCHANGED <<state, queriesComplete>>
     \/ /\ state = "new" \/ (state = "started" /\ inFlight = 0)
        /\ state' = "closed"
        /\ At(c, "cancel")
        /\ UNCHANGED queriesComplete
     \/ /\ state = "started"
        /\ inFlight # 0
        /\ state' = "closing"
        /\ queriesComplete' = TRUE
        /\ At(c, "drain")
  /\ UNCHANGED <<inFlight, completed, closeCtxDone, running, expired>>

CloseCancel(c) ==
  /\ \/ shutdown[c] = "cancel" /\ At(c, "drained")
     \/ shutdown[c] = "drain" /\ At(c, "wait")
  /\ closeCtxDone' = TRUE
  /\ UNCHANGED <<state, inFlight, queriesComplete, completed, running, expired>>

Drained(c) ==
  /\ shutdown[c] = "wait"
  /\ completed
  /\ state' = "closed"
  /\ At(c, "drained")
  /\ UNCHANGED <<inFlight, queriesComplete, completed, closeCtxDone, running,
                 expired>>

\* As if the select had no case for ctx.
TimedOutNever(c) ==
  /\ shutdown[c] = "wait"
  /\ c \in expired
  /\ completed
  /\ state' = "closed"
  /\ At(c, "timeout")
  /\ UNCHANGED <<inFlight, queriesComplete, completed, closeCtxDone, running,
                 expired>>

TimedOut(c) ==
  /\ shutdown[c] = "wait"
  /\ c \in expired
  /\ state' = "closed"
  /\ At(c, "timeout")
  /\ UNCHANGED <<inFlight, queriesComplete, completed, closeCtxDone, running,
                 expired>>

CtxExpires(c) ==
  /\ shutdown[c] = "wait"
  /\ c \notin expired
  /\ expired' = expired \cup {c}
  /\ UNCHANGED <<state, inFlight, queriesComplete, completed, closeCtxDone,
                 running, shutdown>>

CloserStep(c) == Shutdown(c) \/ CloseCancel(c) \/ Drained(c) \/ TimedOut(c)

Next ==
  \/ SetStarted
  \/ \E q \in Queries : BeginQuery(q) \/ EndQuery(q)
  \/ \E c \in Closers : CloserStep(c) \/ CtxExpires(c)

Spec == Init /\ [][Next]_vars

\* Shutdown goes on; a query ends because it watches closeCtx.  Nothing is
\* assumed of the timeout of Close.
Fairness ==
  /\ \A c \in Closers : WF_vars(CloseCancel(c) \/ Drained(c) \/ TimedOut(c))
  /\ \A q \in Queries : WF_vars(closeCtxDone /\ EndQuery(q))

FairSpec == Spec /\ Fairness
-----------------------------------------------------------------------------
(* A Close that returns nil after its own shutdown leaves no query behind, *)
(* then and for ever after: a query that slips in between its BeginQuery   *)
(* and the change of state is always waited for.                           *)
CloseDrains ==
  \A c \in Closers : shutdown[c] = "drained" => running = {}

(* The closer in the select has a channel that somebody will close, or     *)
(* that is closed: nobody but the last query sets it to nil, and a second  *)
(* Close does not replace it.                                              *)
WaiterBacked ==
  \A c \in Closers :
    shutdown[c] = "wait" => completed \/ (queriesComplete /\ running # {})

(* Close returns when the queries it waits for have ended, before its      *)
(* timeout, and closeCtx does make them end.                               *)
CloseReturns ==
  \A c \in Closers : shutdown[c] \in {"cancel", "drain", "wait"}
    ~> shutdown[c] \in {"drained", "timeout"}

(* The inductive invariant behind CloseDrains and WaiterBacked: inFlight   *)
(* counts the queries that run, and ShutdownStages is what is true of them *)
(* and of the channel at each stage of a shutdown.                         *)
ShutdownStages ==
  /\ state = "new" => running = {}
  /\ queriesComplete => running # {} /\ ~completed
  /\ completed => running = {}
  /\ (completed \/ queriesComplete) => state \in {"closing", "closed"}
  /\ \A c \in Closers :
       /\ shutdown[c] # "out" => state \in {"closing", "closed"}
       /\ shutdown[c] \in {"cancel", "drained"} => running = {}
       /\ shutdown[c] \in {"drain", "wait"} => completed \/ queriesComplete

BaseInv ==
  /\ TypeOK
  /\ IsFiniteSet(running) /\ inFlight = Cardinality(running)
  /\ ShutdownStages
=============================================================================
