------------------------------ MODULE Connector ------------------------------
(***************************************************************************)
(* Single-flight connection cache of the DNS transports:                   *)
(* dns/transport/connector.go, type Connector, instantiated for            *)
(* *Connection by NewSingleflightConnector.                                *)
(*                                                                         *)
(* Each caller is a goroutine that calls Get over and over.  One action is *)
(* one critical section of c.access, or one step outside of it (the wait   *)
(* on the channel `connecting', the dial).  A Connection is a model value; *)
(* the ones whose `done' channel is not closed are in `open'.              *)
(***************************************************************************)
EXTENDS FiniteSets, Naturals

CONSTANTS Callers,  \* goroutines that call Get
          Conns,    \* identities of connections
          NoConn    \* the zero T

ASSUME NoConnAssumption == NoConn \notin Conns

VARIABLES connection,     \* c.connection
          hasConnection,  \* c.hasConnection
          connecting,     \* c.connecting # nil
          closed,         \* c.closed
          closeCtxDone,   \* c.closeCtx is cancelled
          open,           \* connections that are not closed
          pc,             \* where each caller is in Get
          signaled,       \* waiters whose captured channel has been closed
          ctxDone,        \* callers whose ctx is cancelled or expired
          got             \* what the dial, or Get, handed to the caller

slotVars   == <<connection, hasConnection, connecting, closed>>
callerVars == <<pc, signaled, ctxDone, got>>
vars       == <<slotVars, closeCtxDone, open, callerVars>>

PCs == {"idle", "loop", "wait", "dial", "dialed", "returned"}

InGet   == {"loop", "wait", "dial", "dialed"}
Dialing == {c \in Callers : pc[c] \in {"dial", "dialed"}}

TypeOK ==
  /\ connection \in Conns \cup {NoConn}
  /\ hasConnection \in BOOLEAN
  /\ connecting \in BOOLEAN
  /\ closed \in BOOLEAN
  /\ closeCtxDone \in BOOLEAN
  /\ open \subseteq Conns
  /\ pc \in [Callers -> PCs]
  /\ signaled \subseteq Callers
  /\ ctxDone \subseteq Callers
  /\ got \in [Callers -> Conns \cup {NoConn}]

Init ==
  /\ connection = NoConn
  /\ hasConnection = FALSE
  /\ connecting = FALSE
  /\ closed = FALSE
  /\ closeCtxDone = FALSE
  /\ open = {}
  /\ pc = [c \in Callers |-> "idle"]
  /\ signaled = {}
  /\ ctxDone = {}
  /\ got = [c \in Callers |-> NoConn]
-----------------------------------------------------------------------------
Return(c, x) ==
  /\ pc' = [pc EXCEPT ![c] = "returned"]
  /\ got' = [got EXCEPT ![c] = x]

CallGet(c) ==
  /\ pc[c] = "idle"
  /\ pc' = [pc EXCEPT ![c] = "loop"]
  /\ UNCHANGED <<slotVars, closeCtxDone, open, signaled, ctxDone, got>>

Usable == hasConnection /\ connection \in open

\* The four ways through the first critical section of an iteration.
GetClosed(c) ==
  /\ pc[c] = "loop"
  /\ closed
  /\ Return(c, NoConn)
  /\ UNCHANGED <<slotVars, closeCtxDone, open, signaled, ctxDone>>

GetCurrent(c) ==
  /\ pc[c] = "loop"
  /\ ~closed
  /\ Usable
  /\ Return(c, connection)
  /\ UNCHANGED <<slotVars, closeCtxDone, open, signaled, ctxDone>>

GetWait(c) ==
  /\ pc[c] = "loop"
  /\ ~closed
  /\ ~Usable
  /\ connecting
  /\ hasConnection' = FALSE
  /\ pc' = [pc EXCEPT ![c] = "wait"]
  /\ UNCHANGED <<connection, connecting, closed, closeCtxDone, open,
                 signaled, ctxDone, got>>

\* Mutant: `connecting' is never set.
GetDialUnmarked(c) ==
  /\ pc[c] = "loop"
  /\ ~closed
  /\ ~Usable
  /\ ~connecting
  /\ hasConnection' = FALSE
  /\ pc' = [pc EXCEPT ![c] = "dial"]
  /\ UNCHANGED <<connection, connecting, closed, closeCtxDone, open,
                 signaled, ctxDone, got>>

GetDial(c) ==
  /\ pc[c] = "loop"
  /\ ~closed
  /\ ~Usable
  /\ ~connecting
  /\ hasConnection' = FALSE
  /\ connecting' = TRUE
  /\ pc' = [pc EXCEPT ![c] = "dial"]
  /\ UNCHANGED <<connection, closed, closeCtxDone, open, signaled, ctxDone,
                 got>>

\* The select on connecting, ctx and closeCtx: any ready case may be taken.
WaitSignaled(c) ==
  /\ pc[c] = "wait"
  /\ c \in signaled
  /\ pc' = [pc EXCEPT ![c] = "loop"]
  /\ signaled' = signaled \ {c}
  /\ UNCHANGED <<slotVars, closeCtxDone, open, ctxDone, got>>

WaitCancelled(c) ==
  /\ pc[c] = "wait"
  /\ c \in ctxDone \/ closeCtxDone
  /\ Return(c, NoConn)
  /\ signaled' = signaled \ {c}
  /\ UNCHANGED <<slotVars, closeCtxDone, open, ctxDone>>

\* An identity may be taken again once nothing refers to it any more.
Fresh == Conns \ (open \cup {connection} \cup {got[c] : c \in Callers})

\* dialWithCancellation: the dial is outside the lock; a cancelled one may
\* still have succeeded.
DialSucceeds(c) ==
  /\ pc[c] = "dial"
  /\ \E x \in Fresh :
       /\ open' = open \cup {x}
       /\ got' = [got EXCEPT ![c] = x]
  /\ pc' = [pc EXCEPT ![c] = "dialed"]
  /\ UNCHANGED <<slotVars, closeCtxDone, signaled, ctxDone>>

DialFails(c) ==
  /\ pc[c] = "dial"
  /\ pc' = [pc EXCEPT ![c] = "dialed"]
  /\ UNCHANGED <<slotVars, closeCtxDone, open, signaled, ctxDone, got>>

\* Mutant: the channel is forgotten and not closed.
CloseConnectingSilently ==
  /\ connecting' = FALSE
  /\ UNCHANGED signaled

\* Everybody in "wait" holds the channel of the dial in progress, or an
\* older one that is closed already.
CloseConnecting ==
  /\ connecting' = FALSE
  /\ signaled' = {c \in Callers : pc[c] = "wait"}

\* The second critical section, after the dial.
AfterDial(c) ==
  /\ pc[c] = "dialed"
  /\ CloseConnecting
  /\ \/ /\ got[c] = NoConn
        /\ Return(c, NoConn)
        /\ UNCHANGED <<connection, hasConnection, open>>
     \/ /\ got[c] # NoConn
        /\ closed
        /\ open' = open \ {got[c]}
        /\ Return(c, NoConn)
        /\ UNCHANGED <<connection, hasConnection>>
     \/ /\ got[c] # NoConn
        /\ ~closed
        /\ connection' = got[c]
        /\ hasConnection' = TRUE
        /\ Return(c, got[c])
        /\ UNCHANGED open
  /\ UNCHANGED <<closed, closeCtxDone, ctxDone>>

\* The caller is done with what Get returned, and with its ctx.
Release(c) ==
  /\ pc[c] = "returned"
  /\ pc' = [pc EXCEPT ![c] = "idle"]
  /\ got' = [got EXCEPT ![c] = NoConn]
  /\ ctxDone' = ctxDone \ {c}
  /\ UNCHANGED <<slotVars, closeCtxDone, open, signaled>>

\* Mutant: the connection is dropped without being closed.
DropConnection == open

CloseConnection == IF hasConnection THEN open \ {connection} ELSE open

Close ==
  /\ ~closed
  /\ closed' = TRUE
  /\ open' = CloseConnection
  /\ hasConnection' = FALSE
  /\ UNCHANGED <<connection, connecting, closeCtxDone, callerVars>>

Reset ==
  /\ hasConnection
  /\ open' = CloseConnection
  /\ hasConnection' = FALSE
  /\ UNCHANGED <<connection, connecting, closed, closeCtxDone, callerVars>>

\* The owner cancels closeCtx (BaseTransport.Shutdown).
CancelCloseCtx ==
  /\ ~closeCtxDone
  /\ closeCtxDone' = TRUE
  /\ UNCHANGED <<slotVars, open, callerVars>>

CtxExpires(c) ==
  /\ c \notin ctxDone
  /\ ctxDone' = ctxDone \cup {c}
  /\ UNCHANGED <<slotVars, closeCtxDone, open, pc, signaled, got>>

\* A user of the connection calls CloseWithError (a read or a write failed).
ConnectionFails(x) ==
  /\ x \in open
  /\ open' = open \ {x}
  /\ UNCHANGED <<slotVars, closeCtxDone, callerVars>>

CallerStep(c) ==
  \/ GetClosed(c) \/ GetCurrent(c) \/ GetWait(c) \/ GetDial(c)
  \/ WaitSignaled(c) \/ WaitCancelled(c)
  \/ DialSucceeds(c) \/ DialFails(c) \/ AfterDial(c)

Next ==
  \/ \E c \in Callers : CallGet(c) \/ CallerStep(c) \/ Release(c)
                          \/ CtxExpires(c)
  \/ Close \/ Reset \/ CancelCloseCtx
  \/ \E x \in Conns : ConnectionFails(x)

\* A goroutine in Get keeps running and a dial ends.
Running == \A c \in Callers : WF_vars(CallerStep(c))

Spec     == Init /\ [][Next]_vars
FairSpec == Spec /\ Running
-----------------------------------------------------------------------------
(* At most one goroutine dials, and `connecting' is non-nil exactly while  *)
(* one does: Get is single-flight, and no dial ever closes the channel of  *)
(* another one (close of a nil or closed channel would panic).             *)
SingleFlight ==
  /\ \A c, d \in Dialing : c = d
  /\ connecting <=> Dialing # {}

(* No connection leaks: one that is open is the one the connector would    *)
(* close in Close or Reset, or is still in the hands of the dialing        *)
(* goroutine, which will install or close it.                              *)
NoOrphan ==
  \A x \in open : \/ hasConnection /\ connection = x
                  \/ \E c \in Dialing : pc[c] = "dialed" /\ got[c] = x

(* After Close, as soon as the dial that was in progress is over, nothing  *)
(* is open, whatever the order of Close, Reset, dial and failure.          *)
ClosedDrains == closed /\ ~connecting => open = {}

(* No lost wake-up: a goroutine that waits for somebody else's dial leaves *)
(* the wait once that dial is over, without any help from its deadline.    *)
NoLostWakeup == \A c \in Callers : pc[c] = "wait" ~> pc[c] # "wait"

(* The inductive invariant behind SingleFlight, NoOrphan and ClosedDrains. *)
ConnInv ==
  /\ TypeOK
  /\ SingleFlight
  /\ NoOrphan
  /\ connecting => ~hasConnection
  /\ closed => ~hasConnection
  /\ hasConnection => connection # NoConn
  /\ \A c \in Callers : pc[c] = "dial" => got[c] = NoConn
  /\ \A c \in Callers : pc[c] \in {"idle", "loop", "wait"} => got[c] = NoConn
=============================================================================
