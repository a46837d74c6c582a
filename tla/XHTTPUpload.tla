---------------------------- MODULE XHTTPUpload ----------------------------
(***************************************************************************)
(* The upload half of an XHTTP connection in packet-up mode                *)
(* (transport/v2rayxhttp).  On the client, what the application writes     *)
(* goes through a pipe (module Pipe) to a goroutine of DialContext, which  *)
(* sends each chunk as a POST of its own, numbered, without waiting for    *)
(* the answer.  On the server the handlers of the POSTs push the chunks    *)
(* into the queue of the session (module UploadQueue), from which the      *)
(* handler of the GET reads the stream.  A session is made by whichever    *)
(* request comes first and reaped if no GET comes.                         *)
(*                                                                         *)
(* POSTs overtake one another, fail, lose their answer or are sent again   *)
(* by PostPacket; one may also be lost, or turned down by the server,      *)
(* without the client learning of it.  The GET may be late, fail, or end   *)
(* at any time.  The loop of the client waits for WroteRequest or for the  *)
(* context of the dial: the latter may be over at any time, so the model   *)
(* does not wait.                                                          *)
(***************************************************************************)
EXTENDS ChunkPipe, UploadQueue

CONSTANTS MaxRetries, \* bound on the POSTs that are sent again
          Modes       \* subset of {"resend", "reap"}

ASSUME UploadAssumption ==
  /\ MaxRetries \in Nat
  /\ Queues \subseteq Nat \ {0} /\ Queues = 1..Cardinality(Queues)
  /\ Modes \subseteq {"resend", "reap"}

VARIABLES seq,        \* seq of the client's goroutine
          resent,     \* seq of the POSTs that were sent again
          flight,     \* packets of the POSTs under way to the server
          serving,    \* packet and session of each POST being handled
          lost,       \* buffers of the POSTs that were lost unnoticed
          session,    \* s.sessions: the session of this connection, 0 if none
          made,       \* number of sessions made
          connected,  \* isFullyConnected of each session is closed
          reaper,     \* where the reaper of each session is
          get,        \* where the handler of the GET is
          getSession, \* its session
          delivered,  \* the buffers that Read has returned
          torn,       \* seq of the packets that were read in parts
          mode        \* "resend": POSTs are sent again; "reap": sessions are
                      \* made again (a bound: not both in one behaviour)

clientVars == <<seq, resent>>
postVars == <<flight, serving, lost>>
sessionVars == <<session, made, connected, reaper>>
getVars == <<get, getSession, delivered, torn>>
vars == <<pipeVars, queueVars, clientVars, postVars, sessionVars, getVars, mode>>

Sessions == Queues
None == 0

\* Bound on the sessions that the requests of the connection make.
MaxSessions == IF mode = "reap" THEN Cardinality(Sessions) ELSE 1

Init ==
  /\ PipeInit
  /\ QueueInit
  /\ seq = 0 /\ resent = {}
  /\ flight = {} /\ serving = {} /\ lost = {}
  /\ session = None /\ made = 0
  /\ connected = [s \in Sessions |-> FALSE]
  /\ reaper = [s \in Sessions |-> "none"]
  /\ get = "flight" /\ getSession = None /\ delivered = <<>> /\ torn = {}
  /\ mode \in Modes
-----------------------------------------------------------------------------
(* The client.                                                             *)

\* The application writes and closes (splitConn.Close); that the GET ends
\* with it is a GetEnd.
AppStep ==
  /\ PipeWrite \/ PipeClose
  /\ UNCHANGED <<queueVars, clientVars, postVars, sessionVars, getVars, mode>>

\* The loop reads a chunk and starts the goroutine of its POST.
PostPacket ==
  /\ PipeRead
  /\ flight' = flight \cup {[seq |-> seq, copy |-> 0, payload |-> data]}
  /\ seq' = seq + 1
  /\ UNCHANGED <<queueVars, resent, serving, lost, sessionVars, getVars, mode>>

\* HTTP/1.1: the write to a pooled connection fails, however much of it has
\* arrived, and the request is sent over another one.
PostRetry(packet) ==
  /\ mode = "resend"
  /\ packet.copy = 0 /\ packet.seq \notin resent
  /\ Cardinality(resent) < MaxRetries
  /\ resent' = resent \cup {packet.seq}
  /\ flight' = flight \cup {[packet EXCEPT !.copy = 1]}
  /\ UNCHANGED <<pipeVars, queueVars, seq, serving, lost, sessionVars, getVars, mode>>

\* PostPacket returns an error: the request, or only its answer, is lost.
PostFail ==
  /\ seq > 0
  /\ \/ UNCHANGED flight
     \/ \E packet \in flight : flight' = flight \ {packet}
  /\ PipeInterrupt
  /\ UNCHANGED <<queueVars, clientVars, serving, lost, sessionVars, getVars, mode>>

Lose(packet) ==
  /\ flight' = flight \ {packet}
  /\ lost' = lost \cup {packet.payload[i] : i \in 1..Len(packet.payload)}

\* HTTP/1.1: PostPacket returns nil once the request is written, and the
\* connection that carries it may still be lost.
PostLost(packet) ==
  /\ Lose(packet)
  /\ UNCHANGED <<pipeVars, queueVars, clientVars, serving, sessionVars, getVars,
                 mode>>
-----------------------------------------------------------------------------
(* The server: sessions.                                                   *)

upsertSession(s) ==
  IF session # None
  THEN s = session /\ UNCHANGED <<session, made, reaper>>
  ELSE /\ made < MaxSessions
       /\ s = made + 1
       /\ session' = s
       /\ made' = s
       /\ reaper' = [reaper EXCEPT ![s] = "wait"]

\* 30 seconds are over: the entry of the id is deleted, then the queue closed.
ReapTimeout(s) ==
  /\ reaper[s] = "wait"
  /\ reaper' = [reaper EXCEPT ![s] = "close"]
  /\ session' = None
  /\ UNCHANGED <<pipeVars, queueVars, clientVars, postVars, made, connected,
                 getVars, mode>>

ReapClose(s) ==
  /\ reaper[s] = "close"
  /\ reaper' = [reaper EXCEPT ![s] = "done"]
  /\ QueueClose(s)
  /\ UNCHANGED <<pipeVars, clientVars, postVars, session, made, connected,
                 getVars, mode>>

ReapOff(s) ==
  /\ reaper[s] = "wait"
  /\ connected[s]
  /\ reaper' = [reaper EXCEPT ![s] = "off"]
  /\ UNCHANGED <<pipeVars, queueVars, clientVars, postVars, session, made,
                 connected, getVars, mode>>
-----------------------------------------------------------------------------
(* The server: ServeHTTP.                                                  *)

ServePost(packet) ==
  /\ flight' = flight \ {packet}
  /\ \E s \in Sessions :
       /\ upsertSession(s)
       /\ serving' = serving \cup {[packet |-> packet, session |-> s]}
  /\ UNCHANGED <<pipeVars, queueVars, clientVars, lost, connected, getVars, mode>>

\* The payload is larger than the server takes, or cannot be read: the POST is
\* answered with an error, and the session goes on without it.  Over HTTP/2
\* and 3 PostPacket does not look at the status of the answer.
ServeDrop(packet) ==
  /\ Lose(packet)
  /\ \E s \in Sessions : upsertSession(s)
  /\ UNCHANGED <<pipeVars, queueVars, clientVars, serving, connected, getVars,
                 mode>>

ServePush(p) ==
  /\ \/ PushLock(p.session, p.packet) /\ UNCHANGED serving
     \/ /\ PushRefused(p.session) \/ PushSend(p.session, p.packet)
        /\ serving' = serving \ {p}
  /\ UNCHANGED <<pipeVars, clientVars, flight, lost, sessionVars, getVars, mode>>

ServeGet ==
  /\ get = "flight"
  /\ get' = "serving"
  /\ \E s \in Sessions :
       /\ upsertSession(s)
       /\ getSession' = s
       /\ connected' = [connected EXCEPT ![s] = TRUE]
  /\ UNCHANGED <<pipeVars, queueVars, clientVars, postVars, delivered, torn, mode>>

GetFail ==
  /\ get = "flight"
  /\ get' = "failed"
  /\ UNCHANGED <<pipeVars, queueVars, clientVars, postVars, sessionVars,
                 getSession, delivered, torn, mode>>

GetOnly == UNCHANGED <<pipeVars, clientVars, postVars, sessionVars, get, getSession, mode>>

\* The handler's connection reads the queue.
GetRead ==
  /\ get = "serving"
  /\ LET q == getSession
     IN \/ /\ QueueRead(q) \/ ReadEOF(q) \/ ReadReceive(q) \/ ReadNothing(q)
              \/ ReadMore(q) \/ ReadTooLarge(q)
           /\ UNCHANGED <<delivered, torn>>
        \/ \E pk \in heap[q] : \E n \in 1..Len(pk.payload) :
             /\ ReadPacket(q, pk, n)
             /\ delivered' = delivered \o SubSeq(pk.payload, 1, n)
             /\ torn' = IF n < Len(pk.payload) THEN torn \cup {pk.seq} ELSE torn
  /\ GetOnly

\* The client is gone, or the connection behind the server is: ServeHTTP
\* goes on to conn.Close, and nobody reads any more.
GetEnd ==
  /\ get = "serving"
  /\ get' = "closing"
  /\ UNCHANGED <<pipeVars, queueVars, clientVars, postVars, sessionVars,
                 getSession, delivered, torn, mode>>

GetClose ==
  /\ get = "closing"
  /\ QueueClose(getSession)
  /\ get' = "delete"
  /\ UNCHANGED <<pipeVars, clientVars, postVars, sessionVars, getSession,
                 delivered, torn, mode>>

\* The deferred sessions.Delete.
GetDelete ==
  /\ get = "delete"
  /\ get' = "done"
  /\ session' = None
  /\ UNCHANGED <<pipeVars, queueVars, clientVars, postVars, made, connected,
                 reaper, getSession, delivered, torn, mode>>
-----------------------------------------------------------------------------
Next ==
  \/ AppStep \/ PostPacket \/ PostFail
  \/ \E packet \in flight : PostRetry(packet) \/ PostLost(packet)
                             \/ ServePost(packet) \/ ServeDrop(packet)
  \/ \E p \in serving : ServePush(p)
  \/ \E s \in Sessions : ReapTimeout(s) \/ ReapClose(s) \/ ReapOff(s)
  \/ ServeGet \/ GetFail \/ GetRead \/ GetEnd \/ GetClose \/ GetDelete

Spec == Init /\ [][Next]_vars

\* Goroutines go on, requests arrive or fail, timers fire; a connection that
\* has met an error or the end is closed.  Nothing is assumed of the
\* application nor of when the GET ends otherwise.
Fairness ==
  /\ WF_vars(PostPacket)
  /\ WF_vars(\E packet \in flight : ServePost(packet))
  /\ WF_vars(\E p \in serving : ServePush(p))
  /\ \A s \in Sessions :
       WF_vars(ReapTimeout(s) \/ ReapOff(s)) /\ WF_vars(ReapClose(s))
  /\ WF_vars(ServeGet \/ GetFail) /\ WF_vars(GetRead)
  /\ WF_vars(GetEnd /\ reading[getSession] \in {"end", "toolarge"})
  /\ WF_vars(GetClose) /\ WF_vars(GetDelete)

FairSpec == Spec /\ Fairness
-----------------------------------------------------------------------------
(* However the POSTs overtake one another, fail, are lost or are repeated, *)
(* what the server reads is a prefix of what the application wrote:        *)
(* uploadQueue leaves nothing out, repeats nothing and swaps nothing.  The *)
(* exception is a POST that is sent twice and read in parts as well: its   *)
(* second copy is as current as what is left of the first.                 *)
InOrder ==
  resent \cap torn = {} =>
    /\ Len(delivered) <= written
    /\ \A i \in 1..Len(delivered) : delivered[i] = i

Broken ==
  \/ get \notin {"flight", "serving"}
  \/ state # "open"
  \/ \E s \in Sessions : reaper[s] \in {"close", "done"}
  \/ \E q \in Queues : reading[q] = "toolarge"

Delivered(b) == \E i \in 1..Len(delivered) : delivered[i] = b
LostBefore(b) == \E l \in lost : l <= b
AllDelivered == \A b \in 1..written : Delivered(b) \/ LostBefore(b)

(* What a Write has accepted reaches the server's reader, even if POSTs    *)
(* after it are lost, unless a POST fails, the connection is closed on     *)
(* either side, the session is reaped or the gap grows too large.  A POST  *)
(* that is lost unnoticed takes with it all that comes after it: nothing   *)
(* tells the application, and the queue waits for it.                      *)
AcceptedDelivered == ~AllDelivered ~> (AllDelivered \/ Broken)

(* After the GET is done the session is deleted.  The code says so of the  *)
(* deferred Delete; conn.Close comes before it.                            *)
SessionDeleted == get = "closing" ~> session # getSession
-----------------------------------------------------------------------------
(* The inductive invariant behind InOrder.  The seq-th POST carries the    *)
(* buffers after the cut[seq]-th, as far as the cut[seq + 1]-th.           *)

Packets == [seq : Nat, copy : {0, 1}, payload : Seq(Nat)]

UploadTypes ==
  /\ data \in Seq(Nat) /\ written \in Nat /\ seq \in Nat
  /\ flight \subseteq Packets
  /\ serving \subseteq [packet : Packets, session : Sessions]
  /\ pushed \in [Queues -> Seq(Packets)]
  /\ heap \in [Queues -> SUBSET Packets]
  /\ nextSeq \in [Queues -> Nat]
  /\ delivered \in Seq(Nat)
  /\ getSession \in Sessions \cup {None}
  /\ get = "flight" => getSession = None
  /\ get = "serving" => getSession # None
  /\ getSession = None => delivered = <<>>
  /\ \A q \in Queues : q # getSession => heap[q] = {} /\ nextSeq[q] = 0

Handled == {r.packet : r \in serving}
Queued == UNION {{pushed[q][i] : i \in 1..Len(pushed[q])} : q \in Queues}
Heaped == UNION {heap[q] : q \in Queues}
Unread == flight \cup Handled \cup Queued

Same(p, r) == p.seq = r.seq /\ p.copy = r.copy
Distinct(packets) == \A p, r \in packets : Same(p, r) => p = r
Apart(packets, others) == \A p \in packets, r \in others : ~Same(p, r)

HandledOnce == \A r, s \in serving : r.packet = s.packet => r = s
QueuedOnce ==
  \A q, o \in Queues : \A i \in 1..Len(pushed[q]), j \in 1..Len(pushed[o]) :
    Same(pushed[q][i], pushed[o][j]) => q = o /\ i = j

\* A POST, and its copy, is in one place.
OnePlace ==
  /\ Distinct(flight) /\ Distinct(Handled) /\ Distinct(Heaped)
  /\ HandledOnce /\ QueuedOnce
  /\ Apart(flight, Handled) /\ Apart(flight, Queued) /\ Apart(Handled, Queued)
  /\ Apart(Unread, Heaped)

\* The client has numbered them, and only those sent again have copies.
Numbered ==
  \A p \in Unread \cup Heaped : p.seq < seq /\ (p.copy = 1 => p.seq \in resent)

Spans(buffers, from, to) ==
  Len(buffers) = to - from /\ \A i \in 1..Len(buffers) : buffers[i] = from + i

Cuts == [0..MaxWrites -> 0..MaxWrites]

\* What was written is in the POSTs and, after those, in the pipe.
Sent(cut) ==
  /\ written <= MaxWrites
  /\ cut[0] = 0 /\ seq <= MaxWrites /\ seq <= cut[seq]
  /\ \A i, j \in 0..seq : i <= j => cut[i] <= cut[j]
  /\ Spans(data, cut[seq], cut[seq] + Len(data))
  /\ cut[seq] + Len(data) <= written
  /\ state = "open" => cut[seq] + Len(data) = written
  /\ \A p \in Unread : Spans(p.payload, cut[p.seq], cut[p.seq + 1])

\* The queue q of the GET has delivered n buffers and goes on with the rest of
\* the k-th POST; if it has begun it, nobody else has that POST.
Resumes(q, k, n, cut) ==
  /\ k <= seq /\ cut[k] <= n
  /\ \A i \in 1..n : delivered[i] = i
  /\ n # cut[k] =>
       /\ k < seq /\ k \in torn /\ n < cut[k + 1]
       /\ \A p \in Unread : p.seq # k
  /\ \A p \in heap[q] :
       /\ p.seq = k => Spans(p.payload, n, cut[k + 1])
       /\ p.seq > k => Spans(p.payload, cut[p.seq], cut[p.seq + 1])

Delivers(cut) ==
  resent \cap torn = {} /\ getSession # None =>
    Resumes(getSession, nextSeq[getSession], Len(delivered), cut)

UploadInv ==
  /\ UploadTypes /\ OnePlace /\ Numbered
  /\ \E cut \in Cuts : Sent(cut) /\ Delivers(cut)
=============================================================================
