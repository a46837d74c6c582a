---------------------------- MODULE UDPTransport ----------------------------
(***************************************************************************)
(* The UDP DNS transport, dns/transport/udp.go, composed of the life cycle *)
(* BaseTransport and the connection cache Connector, which share closeCtx. *)
(*                                                                         *)
(* Each query is one call of Exchange.  Requests are multiplexed over one  *)
(* socket by a 16-bit query id (IDs here) that is free for reuse as soon   *)
(* as its exchange has returned, while its answer may still be on the way. *)
(* Datagrams may be lost, duplicated and reordered.                        *)
(***************************************************************************)
EXTENDS Integers, FiniteSets

CONSTANTS Queries, Closers, Conns, NoConn,
          NumIDs,   \* 2^16
          Large,    \* queries whose EDNS0 size is above the current udpSize
          NoQuery

ASSUME UDPAssumption ==
  NumIDs \in Nat \ {0} /\ Large \subseteq Queries /\ NoQuery \notin Queries
  /\ NoConn \notin Conns

VARIABLES
  state, inFlight, queriesComplete, completed, closeCtxDone, running,
  shutdown, expired,                                     \* BaseTransport
  connection, hasConnection, connecting, closed, open, pc, signaled, ctxDone,
  got,                                                   \* Connector
  grown,      \* t.udpSize has been raised
  queryId,    \* t.queryId
  callbacks,  \* t.callbacks: the exchange that owns each id
  qpc, qid,   \* queries: control, id taken
  answer,     \* callback.response: the exchange it answers; `done' is closed
  net,        \* answers on the way: connection, id, exchange asked by
  received,   \* the datagram each recvLoop has in its hands
  finished    \* closers whose Close has returned

B == INSTANCE BaseTransport
C == INSTANCE Connector WITH Callers <- Queries

baseVars == <<state, inFlight, queriesComplete, completed, running, shutdown,
              expired>>
connVars == <<connection, hasConnection, connecting, closed, open, pc, signaled,
              ctxDone, got>>
udpVars  == <<grown, queryId, callbacks, qpc, qid, answer, net, received,
              finished>>
vars == <<baseVars, closeCtxDone, connVars, udpVars>>

IDs      == 0 .. NumIDs - 1
Datagram == [conn : Conns, id : IDs, of : Queries]
None     == [conn |-> NoConn]
QPCs     == {"idle", "size", "reset", "get", "got", "send", "wait", "truncated",
             "unregister", "tcp", "end", "done"}

TypeOK ==
  /\ B!TypeOK /\ C!TypeOK
  /\ grown \in BOOLEAN
  /\ queryId \in IDs
  /\ callbacks \in [IDs -> Queries \cup {NoQuery}]
  /\ qpc \in [Queries -> QPCs]
  /\ qid \in [Queries -> IDs]
  /\ answer \in [Queries -> Queries \cup {NoQuery}]
  /\ net \subseteq Datagram
  /\ received \in [Conns -> Datagram \cup {None}]
  /\ finished \subseteq Closers

Init ==
  /\ B!Init /\ C!Init
  /\ grown = FALSE
  /\ queryId = 0
  /\ callbacks = [i \in IDs |-> NoQuery]
  /\ qpc = [q \in Queries |-> "idle"]
  /\ qid = [q \in Queries |-> 0]
  /\ answer = [q \in Queries |-> NoQuery]
  /\ net = {}
  /\ received = [x \in Conns |-> None]
  /\ finished = {}
-----------------------------------------------------------------------------
Goto(q, p) == qpc' = [qpc EXCEPT ![q] = p]

\* What is in the socket goes with the connection.
Sockets == net' = {m \in net : m.conn \in open'}

Start ==
  /\ B!SetStarted
  /\ UNCHANGED <<connVars, udpVars>>

\* As if Exchange did not look at what BeginQuery returns.
ExchangeUnchecked(q) ==
  /\ qpc[q] = "idle"
  /\ inFlight' = inFlight + 1
  /\ running' = running \cup {q}
  /\ Goto(q, "size")
  /\ UNCHANGED <<state, queriesComplete, completed, closeCtxDone, shutdown,
                 expired, connVars, grown, queryId, callbacks, qid, answer, net,
                 received, finished>>

Exchange(q) ==
  /\ qpc[q] = "idle"
  /\ \/ B!BeginQuery(q) /\ Goto(q, "size")
     \/ state # "started" /\ Goto(q, "done") /\ UNCHANGED <<baseVars, closeCtxDone>>
  /\ UNCHANGED <<connVars, grown, queryId, callbacks, qid, answer, net, received,
                 finished>>

\* The loop that raises udpSize: one of several queries does it, and only
\* that one resets the connector, in a step of its own.
RaiseSize(q) ==
  /\ qpc[q] = "size"
  /\ IF q \in Large /\ ~grown
     THEN grown' = TRUE /\ Goto(q, "reset")
     ELSE UNCHANGED grown /\ Goto(q, "get")
  /\ UNCHANGED <<baseVars, closeCtxDone, connVars, queryId, callbacks, qid,
                 answer, net, received, finished>>

ResetConnector(q) ==
  /\ qpc[q] = "reset"
  /\ C!Reset \/ (~hasConnection /\ UNCHANGED <<connVars, closeCtxDone>>)
  /\ Goto(q, "get")
  /\ Sockets
  /\ UNCHANGED <<baseVars, grown, queryId, callbacks, qid, answer, received,
                 finished>>

CallGet(q) ==
  /\ qpc[q] = "get"
  /\ C!CallGet(q)
  /\ Goto(q, "got")
  /\ UNCHANGED <<baseVars, grown, queryId, callbacks, qid, answer, net, received,
                 finished>>

\* A step of Connector.Get; a dial also starts a recvLoop.
InGet(q) ==
  /\ C!CallerStep(q)
  /\ Sockets
  /\ UNCHANGED <<baseVars, grown, queryId, callbacks, qpc, qid, answer, received,
                 finished>>

GetFailed(q) ==
  /\ qpc[q] = "got"
  /\ pc[q] = "returned"
  /\ got[q] = NoConn
  /\ Goto(q, "end")
  /\ UNCHANGED <<baseVars, closeCtxDone, connVars, grown, queryId, callbacks,
                 qid, answer, net, received, finished>>
-----------------------------------------------------------------------------
\* As if the id after the last one were always free.
nextBlindQueryId == (queryId + 1) % NumIDs

\* The loop tries the ids after queryId in turn, queryId itself last.
nextAvailableQueryId ==
  LET free == {k \in 1 .. NumIDs : callbacks[(queryId + k) % NumIDs] = NoQuery}
  IN IF free = {} THEN NumIDs
     ELSE (queryId + CHOOSE k \in free : \A j \in free : k <= j) % NumIDs

Register(q) ==
  /\ qpc[q] = "got"
  /\ pc[q] = "returned"
  /\ got[q] # NoConn
  /\ IF nextAvailableQueryId \in IDs
     THEN /\ queryId' = nextAvailableQueryId
          /\ callbacks' = [callbacks EXCEPT ![queryId'] = q]
          /\ qid' = [qid EXCEPT ![q] = queryId']
          /\ Goto(q, "send")
     ELSE /\ Goto(q, "end")
          /\ UNCHANGED <<queryId, callbacks, qid>>
  /\ UNCHANGED <<baseVars, closeCtxDone, connVars, grown, answer, net, received,
                 finished>>

\* The datagram goes out, or packing it fails.
Send(q) ==
  /\ qpc[q] = "send"
  /\ \/ /\ got[q] \in open
        /\ net' = net \cup {[conn |-> got[q], id |-> qid[q], of |-> q]}
        /\ Goto(q, "wait")
     \/ /\ Goto(q, "unregister")
        /\ UNCHANGED net
  /\ UNCHANGED <<baseVars, closeCtxDone, connVars, grown, queryId, callbacks,
                 qid, answer, received, finished>>

\* A failing write closes the connection for everybody.
WriteFails(q) ==
  /\ qpc[q] = "send"
  /\ C!ConnectionFails(got[q])
  /\ Sockets
  /\ Goto(q, "unregister")
  /\ UNCHANGED <<baseVars, grown, queryId, callbacks, qid, answer, received,
                 finished>>

\* The select: the answer, truncated or not, or one of three reasons to stop.
Answered(q) ==
  /\ qpc[q] = "wait"
  /\ answer[q] # NoQuery
  /\ Goto(q, "truncated") \/ Goto(q, "unregister")
  /\ UNCHANGED <<baseVars, closeCtxDone, connVars, grown, queryId, callbacks,
                 qid, answer, net, received, finished>>

\* As if the select had no case for ctx.
GiveUpOnClose(q) ==
  /\ qpc[q] = "wait"
  /\ got[q] \notin open \/ closeCtxDone
  /\ Goto(q, "unregister")
  /\ UNCHANGED <<baseVars, closeCtxDone, connVars, grown, queryId, callbacks,
                 qid, answer, net, received, finished>>

GiveUp(q) ==
  /\ qpc[q] = "wait"
  /\ got[q] \notin open \/ closeCtxDone \/ q \in ctxDone
  /\ Goto(q, "unregister")
  /\ UNCHANGED <<baseVars, closeCtxDone, connVars, grown, queryId, callbacks,
                 qid, answer, net, received, finished>>

\* As if the deferred function deleted the id last given out.
UnregisterLatest(q) ==
  /\ qpc[q] \in {"truncated", "unregister"}
  /\ callbacks' = [callbacks EXCEPT ![queryId] = NoQuery]
  /\ Goto(q, IF qpc[q] = "truncated" THEN "tcp" ELSE "end")
  /\ UNCHANGED <<baseVars, closeCtxDone, connVars, grown, queryId, qid, answer,
                 net, received, finished>>

\* The deferred delete of exchange.
Unregister(q) ==
  /\ qpc[q] \in {"truncated", "unregister"}
  /\ callbacks' = [callbacks EXCEPT ![qid[q]] = NoQuery]
  /\ Goto(q, IF qpc[q] = "truncated" THEN "tcp" ELSE "end")
  /\ UNCHANGED <<baseVars, closeCtxDone, connVars, grown, queryId, qid, answer,
                 net, received, finished>>

\* exchangeTCP uses a connection of its own, which closeCtx does not reach.
ExchangeTCP(q) ==
  /\ qpc[q] = "tcp"
  /\ Goto(q, "end")
  /\ UNCHANGED <<baseVars, closeCtxDone, connVars, grown, queryId, callbacks,
                 qid, answer, net, received, finished>>

\* The deferred EndQuery of Exchange.
Return(q) ==
  /\ qpc[q] = "end"
  /\ B!EndQuery(q)
  /\ IF pc[q] = "returned"
     THEN C!Release(q)
     ELSE UNCHANGED connVars
  /\ Goto(q, "done")
  /\ UNCHANGED <<grown, queryId, callbacks, qid, answer, net, received, finished>>
-----------------------------------------------------------------------------
(* recvLoop of connection x, and the network.                              *)

\* The datagram read may come a second time.
Receive(x) ==
  /\ x \in open
  /\ received[x] = None
  /\ \E m \in net :
       /\ m.conn = x
       /\ received' = [received EXCEPT ![x] = m]
       /\ net' \in {net, net \ {m}}
  /\ UNCHANGED <<baseVars, closeCtxDone, connVars, grown, queryId, callbacks,
                 qpc, qid, answer, finished>>

\* The callback is looked up by id and filled unless it is done.
Dispatch(x) ==
  LET q == callbacks[received[x].id] IN
  /\ received[x] # None
  /\ answer' = IF q # NoQuery /\ answer[q] = NoQuery
               THEN [answer EXCEPT ![q] = received[x].of] ELSE answer
  /\ received' = [received EXCEPT ![x] = None]
  /\ UNCHANGED <<baseVars, closeCtxDone, connVars, grown, queryId, callbacks,
                 qpc, qid, net, finished>>

ReadFails(x) ==
  /\ C!ConnectionFails(x)
  /\ Sockets
  /\ UNCHANGED <<baseVars, grown, queryId, callbacks, qpc, qid, answer, received,
                 finished>>

Lose(m) ==
  /\ net' = net \ {m}
  /\ UNCHANGED <<baseVars, closeCtxDone, connVars, grown, queryId, callbacks,
                 qpc, qid, answer, received, finished>>
-----------------------------------------------------------------------------
\* Close: first BaseTransport.Close, then connector.Close.
CloseBase(k) ==
  /\ B!CloserStep(k)
  /\ UNCHANGED <<connVars, udpVars>>

CloseConnector(k) ==
  /\ shutdown[k] \in {"nothing", "drained", "timeout"}
  /\ k \notin finished
  /\ C!Close \/ (closed /\ UNCHANGED <<connVars, closeCtxDone>>)
  /\ Sockets
  /\ finished' = finished \cup {k}
  /\ UNCHANGED <<baseVars, grown, queryId, callbacks, qpc, qid, answer, received>>

CloseExpires(k) ==
  /\ B!CtxExpires(k)
  /\ UNCHANGED <<connVars, udpVars>>

Reset ==
  /\ C!Reset
  /\ Sockets
  /\ UNCHANGED <<baseVars, grown, queryId, callbacks, qpc, qid, answer, received,
                 finished>>

CtxExpires(q) ==
  /\ qpc[q] \notin {"idle", "done"}
  /\ C!CtxExpires(q)
  /\ UNCHANGED <<baseVars, udpVars>>

QueryStep(q) ==
  \/ RaiseSize(q) \/ ResetConnector(q) \/ CallGet(q) \/ InGet(q)
  \/ GetFailed(q) \/ Register(q) \/ Send(q) \/ WriteFails(q) \/ Answered(q)
  \/ GiveUp(q) \/ Unregister(q) \/ Return(q)

Next ==
  \/ Start
  \/ \E q \in Queries : Exchange(q) \/ QueryStep(q) \/ ExchangeTCP(q) \/ CtxExpires(q)
  \/ \E x \in Conns : Receive(x) \/ Dispatch(x) \/ ReadFails(x)
  \/ \E m \in net : Lose(m)
  \/ \E k \in Closers : CloseBase(k) \/ CloseConnector(k) \/ CloseExpires(k)
  \/ Reset

Spec == Init /\ [][Next]_vars

\* Goroutines run; the ctx of a query and that of Close have deadlines, and a
\* select does not pass over a cancelled ctx for ever.  Nothing is assumed of
\* the network or of exchangeTCP, whose reads have no deadline.
Fairness ==
  /\ \A q \in Queries : /\ WF_vars(QueryStep(q))
                        /\ WF_vars(CtxExpires(q))
                        /\ SF_vars(InGet(q) /\ C!WaitCancelled(q))
  /\ \A k \in Closers : WF_vars(shutdown[k] # "out"
                        /\ (CloseBase(k) \/ CloseConnector(k) \/ CloseExpires(k)))

FairSpec == Spec /\ Fairness
-----------------------------------------------------------------------------
(* While an exchange has an id, the entry of that id is its own: ids in    *)
(* use are distinct, and the deferred delete of one exchange never takes   *)
(* away the callback of another.                                           *)
Registered == {q \in Queries : qpc[q] \in {"send", "wait", "truncated", "unregister"}}

OwnCallback == \A q \in Registered : callbacks[qid[q]] = q

(* An exchange can be given the answer to another one only if that one had *)
(* returned, or was returning, before this one took the id over: exchanges *)
(* that run side by side never get each other's answers.                   *)
NoCrossTalk ==
  \A q \in Queries :
    answer[q] \notin {NoQuery, q} =>
      /\ answer[q] \notin Registered
      /\ qid[answer[q]] = qid[q]

(* After a Close that drained the queries has returned, nothing is left:   *)
(* no exchange, no callback, no dial in progress and no open socket.       *)
CloseLeavesNothing ==
  \A k \in finished :
    shutdown[k] = "drained" =>
      /\ running = {} /\ open = {} /\ ~connecting
      /\ \A i \in IDs : callbacks[i] = NoQuery

(* Every exchange returns, or is in the TCP retry of a truncated answer.   *)
ExchangeReturns ==
  \A q \in Queries :
    qpc[q] \notin {"idle", "done", "tcp"} ~> qpc[q] \in {"done", "tcp"}

(* Close returns, also while a TCP retry hangs.                            *)
CloseFinishes ==
  \A k \in Closers : shutdown[k] # "out" ~> k \in finished

(* A Close that waits in Shutdown has somebody to wake it: the channel is  *)
(* closed already, or it is there and an exchange is still to end, whatever *)
(* exchange comes or goes between the lock of Shutdown and its select.     *)
(* Otherwise every Close would take its whole timeout.                     *)
WaiterBacked == B!WaiterBacked

(* The inductive invariant behind OwnCallback and NoCrossTalk.  A datagram *)
(* carries the id of an exchange that took it and has not changed it since. *)
Asked == {q \in Queries : qpc[q] \in {"wait", "truncated", "unregister", "tcp", "end", "done"}}

UDPInv ==
  /\ callbacks \in [IDs -> Queries \cup {NoQuery}]
  /\ qpc \in [Queries -> QPCs]
  /\ qid \in [Queries -> IDs]
  /\ answer \in [Queries -> Queries \cup {NoQuery}]
  /\ net \subseteq Datagram
  /\ received \in [Conns -> Datagram \cup {None}]
  /\ queryId \in IDs
  /\ OwnCallback
  /\ \A i \in IDs : callbacks[i] # NoQuery =>
       callbacks[i] \in Registered /\ qid[callbacks[i]] = i
  /\ \A m \in net \cup {received[x] : x \in Conns} :
       m # None => m.of \in Asked /\ m.id = qid[m.of]
  /\ NoCrossTalk
  /\ \A q \in Queries :
       answer[q] # NoQuery => answer[q] \in Asked /\ (q \in Asked \/ qpc[q] = "send")

(* The inductive invariant behind CloseLeavesNothing.  The queries that    *)
(* run are those between the two ends of Exchange, those inside            *)
(* Connector.Get are at the call, and a Close that has returned has closed *)
(* the connector.                                                          *)
Counted == IsFiniteSet(running) /\ inFlight = Cardinality(running)

CloseInv ==
  /\ B!TypeOK /\ B!ShutdownStages /\ Counted
  /\ C!ConnInv
  /\ qpc \in [Queries -> QPCs]
  /\ \A q \in Queries :
       /\ q \in running <=> qpc[q] \notin {"idle", "done"}
       /\ pc[q] \in C!InGet => qpc[q] = "got"
  /\ finished \subseteq Closers /\ (finished # {} => closed)
=============================================================================
