------------------------- MODULE UDPTransportProofs -------------------------
(***************************************************************************)
(* For any number of queries, ids and connections, and whatever the        *)
(* network does: ids in use are distinct, exchanges that run side by side  *)
(* never get each other's answers, a Close that returns nil leaves nothing *)
(* behind, and the transport uses its base and its connector as they are   *)
(* modelled on their own.                                                  *)
(***************************************************************************)
EXTENDS UDPTransport, WellFoundedInduction, FiniteSetTheorems,
        TLAPS

(* The id that nextAvailableQueryId returns is free.                       *)
LEMMA NextIdFree ==
  ASSUME queryId \in IDs, nextAvailableQueryId \in IDs
  PROVE  callbacks[nextAvailableQueryId] = NoQuery
<1> DEFINE free == {k \in 1 .. NumIDs : callbacks[(queryId + k) % NumIDs] = NoQuery}
<1>1. free # {}
  <2>1. NumIDs \notin IDs
    BY UDPAssumption DEF IDs
  <2> QED  BY Zenon, <2>1 DEF nextAvailableQueryId
<1>2. free \subseteq Nat
  OBVIOUS
<1>3. \E k \in free : \A j \in free : k <= j
  <2> DEFINE R == OpToRel(<, Nat)
  <2>1. IsWellFoundedOn(R, Nat)
    BY Zenon, NatLessThanWellFounded
  <2> HIDE DEF free, R
  <2>2. PICK k \in free : \A j \in free : ~(<<j, k>> \in R)
    BY Zenon, <2>1, <1>1, <1>2, WFMin
  <2>3. \A j \in free : ~(j < k)
    BY Zenon, <2>2, <1>2 DEF R, OpToRel
  <2> QED  BY <2>3, <1>2
<1>4. PICK k \in free : nextAvailableQueryId = (queryId + k) % NumIDs
  BY Zenon, <1>1, <1>3 DEF nextAvailableQueryId
<1> QED  BY Zenon, <1>4

(* What an exchange asked, and which exchanges are registered, depends on  *)
(* control alone.                                                          *)
LEMMA UDPInvInit == Init => UDPInv
<1> SUFFICES ASSUME Init PROVE UDPInv
  OBVIOUS
<1>1. 0 \in IDs
  BY UDPAssumption DEF IDs
<1>2. Registered = {}
  BY Zenon DEF Init, Registered
<1> QED  BY Zenon, <1>1, <1>2 DEF Init, UDPInv, OwnCallback, NoCrossTalk, QPCs

(* A step that leaves the ids and the answers alone, and moves a query only *)
(* between points of the same kind, preserves the invariant.               *)
LEMMA Bystander ==
  ASSUME UDPInv, UNCHANGED <<queryId, callbacks, qid, answer, received>>,
         net' \subseteq net, qpc' \in [Queries -> QPCs],
         Registered' = Registered, Asked \subseteq Asked',
         \A q \in Queries : qpc[q] = "send" => qpc'[q] = "send" \/ q \in Asked'
  PROVE  UDPInv'
<1>1. /\ callbacks' \in [IDs -> Queries \cup {NoQuery}]
      /\ qid' \in [Queries -> IDs]
      /\ answer' \in [Queries -> Queries \cup {NoQuery}]
      /\ net' \subseteq Datagram
      /\ received' \in [Conns -> Datagram \cup {None}]
      /\ queryId' \in IDs
  BY Zenon DEF UDPInv
<1>2. OwnCallback'
  BY Zenon DEF UDPInv, OwnCallback
<1>3. \A i \in IDs : callbacks'[i] # NoQuery =>
        callbacks'[i] \in Registered' /\ qid'[callbacks'[i]] = i
  BY Zenon DEF UDPInv
<1>4. \A m \in net' \cup {received'[x] : x \in Conns} :
        m # None => m.of \in Asked' /\ m.id = qid'[m.of]
  BY DEF UDPInv
<1>5. NoCrossTalk'
  BY Zenon DEF UDPInv, NoCrossTalk
<1>6. \A q \in Queries : answer'[q] # NoQuery =>
        answer'[q] \in Asked' /\ (q \in Asked' \/ qpc'[q] = "send")
  BY Zenon DEF UDPInv
<1> QED  BY Zenon, <1>1, <1>2, <1>3, <1>4, <1>5, <1>6 DEF UDPInv

RPCs == {"send", "wait", "truncated", "unregister"}
APCs == {"wait", "truncated", "unregister", "tcp", "end", "done"}

(* The same for one query that goes on to p.                               *)
LEMMA Moves ==
  ASSUME UDPInv, UNCHANGED <<queryId, callbacks, qid, answer, received>>,
         net' \subseteq net, NEW q \in Queries, NEW p \in QPCs, Goto(q, p),
         qpc[q] \in RPCs <=> p \in RPCs,
         qpc[q] \in APCs \cup {"send"} => p \in APCs
  PROVE  UDPInv'
<1>1. /\ qpc \in [Queries -> QPCs] /\ qpc' \in [Queries -> QPCs]
      /\ qpc'[q] = p /\ \A r \in Queries \ {q} : qpc'[r] = qpc[r]
  BY Zenon DEF UDPInv, Goto
<1>2. Registered' = Registered
  BY Zenon, <1>1 DEF Registered, RPCs
<1>3. Asked \subseteq Asked'
  BY Zenon, <1>1 DEF Asked, APCs
<1>4. \A r \in Queries : qpc[r] = "send" => qpc'[r] = "send" \/ r \in Asked'
  BY Zenon, <1>1 DEF Asked, APCs
<1> QED  BY Zenon, <1>1, <1>2, <1>3, <1>4, Bystander

(* Every step of the transport and of the network preserves the invariant. *)
LEMMA UDPInvStep == UDPInv /\ open \subseteq Conns /\ [Next]_vars => UDPInv'
<1> SUFFICES ASSUME UDPInv, open \subseteq Conns, [Next]_vars PROVE UDPInv'
  OBVIOUS
<1>a. ASSUME UNCHANGED <<queryId, callbacks, qpc, qid, answer, received>>,
             net' \subseteq net
      PROVE  UDPInv'
  BY <1>a, Bystander DEF UDPInv, Registered, Asked
<1>1. ASSUME \/ Start
             \/ \E q \in Queries : InGet(q) \/ CtxExpires(q)
             \/ \E x \in Conns : ReadFails(x)
             \/ \E m \in net : Lose(m)
             \/ \E k \in Closers : CloseBase(k) \/ CloseConnector(k) \/ CloseExpires(k)
             \/ Reset
             \/ UNCHANGED vars
      PROVE  UDPInv'
  <2>1. UNCHANGED <<queryId, callbacks, qpc, qid, answer, received>>
    BY Zenon, <1>1 DEF Start, InGet, CtxExpires, ReadFails, Lose, CloseBase,
                CloseConnector, CloseExpires, Reset, vars, udpVars
  <2>2. net' \subseteq net
    BY Zenon, <1>1 DEF Start, InGet, CtxExpires, ReadFails, Lose, CloseBase, Sockets,
                CloseConnector, CloseExpires, Reset, vars, udpVars
  <2> QED  BY Zenon, <2>1, <2>2, <1>a
<1>2. ASSUME NEW q \in Queries,
             \/ Exchange(q) \/ RaiseSize(q) \/ ResetConnector(q) \/ CallGet(q)
             \/ GetFailed(q) \/ WriteFails(q) \/ Answered(q) \/ GiveUp(q)
             \/ ExchangeTCP(q) \/ Return(q)
      PROVE  UDPInv'
  <2>1. UNCHANGED <<queryId, callbacks, qid, answer, received>>
    BY Zenon, <1>2 DEF Exchange, RaiseSize, ResetConnector, CallGet, GetFailed,
                WriteFails, Answered, GiveUp, ExchangeTCP, Return
  <2>2. net' \subseteq net
    BY Zenon, <1>2 DEF Exchange, RaiseSize, ResetConnector, CallGet, GetFailed, Sockets,
                WriteFails, Answered, GiveUp, ExchangeTCP, Return
  <2>3. \/ qpc[q] = "idle" /\ (Goto(q, "size") \/ Goto(q, "done"))
        \/ qpc[q] = "size" /\ (Goto(q, "reset") \/ Goto(q, "get"))
        \/ qpc[q] = "reset" /\ Goto(q, "get")
        \/ qpc[q] = "get" /\ Goto(q, "got")
        \/ qpc[q] = "got" /\ Goto(q, "end")
        \/ qpc[q] = "send" /\ Goto(q, "unregister")
        \/ qpc[q] = "wait" /\ (Goto(q, "truncated") \/ Goto(q, "unregister"))
        \/ qpc[q] = "tcp" /\ Goto(q, "end")
        \/ qpc[q] = "end" /\ Goto(q, "done")
    BY Zenon, <1>2 DEF Exchange, RaiseSize, ResetConnector, CallGet, GetFailed,
                WriteFails, Answered, GiveUp, ExchangeTCP, Return
  <2> QED
    BY Zenon, <2>1, <2>2, <2>3, Moves DEF RPCs, APCs, QPCs
<1>t. /\ callbacks \in [IDs -> Queries \cup {NoQuery}]
      /\ qpc \in [Queries -> QPCs] /\ qid \in [Queries -> IDs]
      /\ answer \in [Queries -> Queries \cup {NoQuery}]
      /\ net \subseteq Datagram /\ received \in [Conns -> Datagram \cup {None}]
      /\ queryId \in IDs /\ OwnCallback /\ NoCrossTalk
  BY Zenon DEF UDPInv
<1>u. \A i \in IDs : callbacks[i] # NoQuery =>
        callbacks[i] \in Registered /\ qid[callbacks[i]] = i
  BY Zenon DEF UDPInv
<1>v. \A m \in net \cup {received[x] : x \in Conns} :
        m # None => m.of \in Asked /\ m.id = qid[m.of]
  BY Zenon DEF UDPInv
<1>w. \A q \in Queries : answer[q] # NoQuery =>
        answer[q] \in Asked /\ (q \in Asked \/ qpc[q] = "send")
  BY Zenon DEF UDPInv
<1>3. ASSUME NEW q \in Queries, Register(q) PROVE UDPInv'
  <2>1. qpc[q] = "got" /\ UNCHANGED <<answer, net, received>>
    BY Zenon, <1>3 DEF Register
  <2>2. CASE nextAvailableQueryId \notin IDs
    <3>1. Goto(q, "end") /\ UNCHANGED <<queryId, callbacks, qid>>
      BY Zenon, <1>3, <2>2 DEF Register
    <3> QED  BY Zenon, <3>1, <2>1, Moves DEF RPCs, APCs, QPCs
  <2>3. CASE nextAvailableQueryId \in IDs
    <3> DEFINE i == nextAvailableQueryId
    <3>1. /\ i \in IDs /\ queryId' = i
          /\ callbacks' = [callbacks EXCEPT ![i] = q]
          /\ qid' = [qid EXCEPT ![q] = i]
          /\ qpc' = [qpc EXCEPT ![q] = "send"]
      BY Zenon, <1>3, <2>3 DEF Register, Goto
    <3>2. callbacks[i] = NoQuery
      BY Zenon, <2>3, <1>t, NextIdFree
    <3> HIDE DEF i
    <3>3. /\ callbacks' \in [IDs -> Queries \cup {NoQuery}]
          /\ qid' \in [Queries -> IDs] /\ qpc' \in [Queries -> QPCs]
          /\ callbacks'[i] = q /\ qid'[q] = i /\ qpc'[q] = "send"
          /\ \A r \in Queries \ {q} : qpc'[r] = qpc[r] /\ qid'[r] = qid[r]
          /\ \A j \in IDs \ {i} : callbacks'[j] = callbacks[j]
      BY Zenon, <3>1, <1>t DEF QPCs
    <3>4. Registered' = Registered \cup {q} /\ q \notin Registered
      BY <3>3, <2>1 DEF Registered
    <3>5. Asked' = Asked /\ q \notin Asked
      BY Zenon, <3>3, <2>1 DEF Asked
    <3>6. \A r \in Registered : qid[r] # i /\ callbacks[qid[r]] = r
      BY <3>2, <1>t, UDPAssumption DEF OwnCallback, Registered
    <3>7. OwnCallback'
      BY <3>3, <3>4, <3>6, <1>t DEF OwnCallback, Registered
    <3>8. \A j \in IDs : callbacks'[j] # NoQuery =>
            callbacks'[j] \in Registered' /\ qid'[callbacks'[j]] = j
      BY <3>3, <3>4, <1>u
    <3>9. \A m \in net' \cup {received'[x] : x \in Conns} :
            m # None => m.of \in Asked' /\ m.id = qid'[m.of]
      BY <3>3, <3>5, <2>1, <1>v DEF Asked
    <3>10. answer[q] = NoQuery
      BY Zenon, <3>5, <2>1, <1>w
    <3>11. NoCrossTalk'
      BY <3>3, <3>4, <3>5, <3>10, <2>1, <1>t, <1>w DEF NoCrossTalk, Asked
    <3>12. \A r \in Queries : answer'[r] # NoQuery =>
             answer'[r] \in Asked' /\ (r \in Asked' \/ qpc'[r] = "send")
      BY <3>3, <3>5, <2>1, <1>w
    <3> QED
      BY <3>1, <3>3, <3>7, <3>8, <3>9, <3>11, <3>12, <2>1, <1>t DEF UDPInv
  <2> QED  BY Zenon, <2>2, <2>3
<1>4. ASSUME NEW q \in Queries, Send(q) PROVE UDPInv'
  <2>1. qpc[q] = "send" /\ UNCHANGED <<queryId, callbacks, qid, answer, received>>
    BY Zenon, <1>4 DEF Send
  <2>2. CASE Goto(q, "unregister") /\ UNCHANGED net
    BY Zenon, <2>1, <2>2, Moves DEF RPCs, APCs, QPCs
  <2>3. CASE /\ got[q] \in open /\ Goto(q, "wait")
             /\ net' = net \cup {[conn |-> got[q], id |-> qid[q], of |-> q]}
    <3> DEFINE d == [conn |-> got[q], id |-> qid[q], of |-> q]
    <3>1. d \in Datagram /\ d.of = q /\ d.id = qid[q]
      BY Zenon, <2>3, <1>t DEF Datagram
    <3>2. /\ qpc' \in [Queries -> QPCs] /\ qpc'[q] = "wait"
          /\ \A r \in Queries \ {q} : qpc'[r] = qpc[r]
      BY Zenon, <2>3, <1>t DEF Goto, QPCs
    <3>3. Registered' = Registered
      BY Zenon, <3>2, <2>1 DEF Registered
    <3>4. Asked' = Asked \cup {q}
      BY Zenon, <3>2 DEF Asked
    <3> HIDE DEF d
    <3>5. net' = net \cup {d}
      BY Zenon, <2>3 DEF d
    <3>6. \A m \in net' \cup {received'[x] : x \in Conns} :
            m # None => m.of \in Asked' /\ m.id = qid'[m.of]
      BY Zenon, <3>1, <3>4, <3>5, <2>1, <1>v
    <3>7. OwnCallback' /\ NoCrossTalk'
      BY Zenon, <3>3, <2>1, <1>t DEF OwnCallback, NoCrossTalk
    <3>8. \A r \in Queries : answer'[r] # NoQuery =>
            answer'[r] \in Asked' /\ (r \in Asked' \/ qpc'[r] = "send")
      BY <3>2, <3>4, <2>1, <1>w
    <3> QED
      BY <3>1, <3>2, <3>3, <3>5, <3>6, <3>7, <3>8, <2>1, <1>t, <1>u DEF UDPInv
  <2> QED  BY Zenon, <1>4, <2>2, <2>3 DEF Send
<1>5. ASSUME NEW q \in Queries, Unregister(q) PROVE UDPInv'
  <2>1. /\ qpc[q] \in {"truncated", "unregister"}
        /\ callbacks' = [callbacks EXCEPT ![qid[q]] = NoQuery]
        /\ UNCHANGED <<queryId, qid, answer, net, received>>
        /\ \E p \in {"tcp", "end"} : qpc' = [qpc EXCEPT ![q] = p]
    BY Zenon, <1>5 DEF Unregister, Goto
  <2>2. /\ callbacks' \in [IDs -> Queries \cup {NoQuery}]
        /\ qpc' \in [Queries -> QPCs]
        /\ callbacks'[qid[q]] = NoQuery /\ qpc'[q] \in {"tcp", "end"}
        /\ qid[q] \in IDs
        /\ \A r \in Queries \ {q} : qpc'[r] = qpc[r]
        /\ \A j \in IDs \ {qid[q]} : callbacks'[j] = callbacks[j]
    BY Zenon, <2>1, <1>t DEF QPCs
  <2>3. q \in Registered /\ Registered' = Registered \ {q}
    BY Zenon, <2>1, <2>2 DEF Registered
  <2>4. Asked' = Asked
    BY <2>1, <2>2 DEF Asked
  <2>5. \A r \in Registered : callbacks[qid[r]] = r /\ qid[r] \in IDs
    BY Zenon, <1>t DEF OwnCallback, Registered
  <2>6. OwnCallback'
    BY <2>1, <2>2, <2>3, <2>5 DEF OwnCallback
  <2>7. \A j \in IDs : callbacks'[j] # NoQuery =>
          callbacks'[j] \in Registered' /\ qid'[callbacks'[j]] = j
    BY <2>1, <2>2, <2>3, <1>u
  <2>8. NoCrossTalk'
    BY Zenon, <2>1, <2>3, <1>t DEF NoCrossTalk
  <2>9. \A m \in net' \cup {received'[x] : x \in Conns} :
          m # None => m.of \in Asked' /\ m.id = qid'[m.of]
    BY Zenon, <2>1, <2>4, <1>v
  <2>10. \A r \in Queries : answer'[r] # NoQuery =>
           answer'[r] \in Asked' /\ (r \in Asked' \/ qpc'[r] = "send")
    BY <2>1, <2>2, <2>4, <1>w
  <2> QED
    BY Zenon, <2>1, <2>2, <2>6, <2>7, <2>8, <2>9, <2>10, <1>t DEF UDPInv
<1>6. ASSUME NEW x \in Conns, Receive(x) PROVE UDPInv'
  <2>1. PICK m \in net : /\ received' = [received EXCEPT ![x] = m]
                         /\ net' \subseteq net
    BY Zenon, <1>6 DEF Receive
  <2>2. UNCHANGED <<queryId, callbacks, qpc, qid, answer>>
    BY Zenon, <1>6 DEF Receive
  <2>3. Registered' = Registered /\ Asked' = Asked
    BY Zenon, <2>2 DEF Registered, Asked
  <2>4. /\ received' \in [Conns -> Datagram \cup {None}]
        /\ \A y \in Conns : received'[y] \in {m, received[y]}
    BY Zenon, <2>1, <1>t
  <2>5. \A n \in net' \cup {received'[y] : y \in Conns} :
          n # None => n.of \in Asked' /\ n.id = qid'[n.of]
    BY <2>1, <2>2, <2>3, <2>4, <1>v
  <2>6. OwnCallback' /\ NoCrossTalk'
    BY Zenon, <2>2, <2>3, <1>t DEF OwnCallback, NoCrossTalk
  <2> QED
    BY Zenon, <2>1, <2>2, <2>3, <2>4, <2>5, <2>6, <1>t, <1>u, <1>w DEF UDPInv
<1>7. ASSUME NEW x \in Conns, Dispatch(x) PROVE UDPInv'
  <2> DEFINE m == received[x]
             q == callbacks[m.id]
  <2>1. /\ m # None /\ received' = [received EXCEPT ![x] = None]
        /\ answer' = IF q # NoQuery /\ answer[q] = NoQuery
                     THEN [answer EXCEPT ![q] = m.of] ELSE answer
        /\ UNCHANGED <<queryId, callbacks, qpc, qid, net>>
    BY Zenon, <1>7 DEF Dispatch
  <2>2. Registered' = Registered /\ Asked' = Asked
    BY Zenon, <2>1 DEF Registered, Asked
  <2>3. m.of \in Asked /\ m.id = qid[m.of] /\ m.of \in Queries /\ m.id \in IDs
    BY Zenon, <2>1, <1>v, <1>t DEF Asked
  <2> HIDE DEF m
  <2>4. /\ received' \in [Conns -> Datagram \cup {None}]
        /\ \A y \in Conns : received'[y] \in {None, received[y]}
    BY Zenon, <2>1, <1>t
  <2>5. \A n \in net' \cup {received'[y] : y \in Conns} :
          n # None => n.of \in Asked' /\ n.id = qid'[n.of]
    BY <2>1, <2>2, <2>4, <1>v
  <2>6. OwnCallback'
    BY Zenon, <2>1, <2>2, <1>t DEF OwnCallback
  <2>7. CASE ~(q # NoQuery /\ answer[q] = NoQuery)
    <3>1. answer' = answer
      BY Zenon, <2>1, <2>7
    <3>2. NoCrossTalk'
      BY Zenon, <3>1, <2>1, <2>2, <1>t DEF NoCrossTalk
    <3> QED
      BY Zenon, <3>1, <3>2, <2>1, <2>2, <2>4, <2>5, <2>6, <1>t, <1>u, <1>w DEF UDPInv
  <2>8. CASE q # NoQuery /\ answer[q] = NoQuery
    <3>1. q \in Registered /\ qid[q] = m.id /\ q \in Queries
      BY Zenon, <2>3, <2>8, <1>u DEF Registered
    <3> HIDE DEF q
    <3>2. /\ answer' \in [Queries -> Queries \cup {NoQuery}]
          /\ answer'[q] = m.of
          /\ \A r \in Queries \ {q} : answer'[r] = answer[r]
      BY Zenon, <2>1, <2>3, <2>8, <3>1, <1>t
    <3>3. m.of # q => m.of \notin Registered
      BY <2>3, <3>1, <1>t DEF OwnCallback
    <3>4. NoCrossTalk'
      BY Zenon, <3>1, <3>2, <3>3, <2>1, <2>2, <2>3, <1>t DEF NoCrossTalk
    <3>5. q \in Asked \/ qpc[q] = "send"
      BY Zenon, <3>1 DEF Registered, Asked
    <3>6. \A r \in Queries : answer'[r] # NoQuery =>
            answer'[r] \in Asked' /\ (r \in Asked' \/ qpc'[r] = "send")
      BY Zenon, <3>2, <3>5, <2>1, <2>2, <2>3, <1>w
    <3> QED
      BY Zenon, <3>2, <3>4, <3>6, <2>1, <2>2, <2>4, <2>5, <2>6, <1>t, <1>u DEF UDPInv
  <2> QED  BY Zenon, <2>7, <2>8
<1> QED  BY Zenon, <1>1, <1>2, <1>3, <1>4, <1>5, <1>6, <1>7 DEF Next, QueryStep

-----------------------------------------------------------------------------
(* The initial state of a connector satisfies the invariant.               *)
LEMMA UDPConnInit == C!Init => C!ConnInv
  BY Zenon, UDPAssumption
  DEF C!Init, C!ConnInv, C!TypeOK, C!SingleFlight, C!NoOrphan, C!Dialing, C!PCs

(* Every critical section of Get, Close and Reset, every dial and every    *)
(* failure preserves the invariant.                                        *)
LEMMA UDPConnStep == C!ConnInv /\ [C!Next]_C!vars => C!ConnInv'
<1> SUFFICES ASSUME C!ConnInv, [C!Next]_C!vars PROVE C!ConnInv'
  OBVIOUS
<1> USE UDPAssumption
    DEF C!ConnInv, C!TypeOK, C!SingleFlight, C!NoOrphan, C!Dialing, C!PCs, C!slotVars,
        C!callerVars, C!Return, C!Usable
<1>1. ASSUME NEW c \in Queries, C!CallGet(c) PROVE C!ConnInv'
  BY <1>1 DEF C!CallGet
<1>2. ASSUME NEW c \in Queries, C!GetClosed(c) PROVE C!ConnInv'
  BY <1>2 DEF C!GetClosed
<1>3. ASSUME NEW c \in Queries, C!GetCurrent(c) PROVE C!ConnInv'
  BY <1>3 DEF C!GetCurrent
<1>4. ASSUME NEW c \in Queries, C!GetWait(c) PROVE C!ConnInv'
  <2>1. ~hasConnection' /\ UNCHANGED <<connection, connecting, closed, closeCtxDone, open, signaled, ctxDone, got>>
    BY Zenon, <1>4 DEF C!GetWait
  <2>2. pc[c] = "loop" /\ connecting /\ pc' = [pc EXCEPT ![c] = "wait"]
    BY Zenon, <1>4 DEF C!GetWait
  <2>3. ~hasConnection
    BY Zenon, <2>2
  <2>4. C!Dialing' = C!Dialing
    BY Zenon, <2>2
  <2>5. hasConnection' \in BOOLEAN
    BY Zenon, <1>4 DEF C!GetWait
  <2>6. C!TypeOK'
    BY Zenon, <2>1, <2>2, <2>5
  <2>7. C!SingleFlight' /\ C!NoOrphan'
    BY <2>1, <2>2, <2>3, <2>4
  <2> QED
    BY <2>1, <2>2, <2>6, <2>7
<1>5. ASSUME NEW c \in Queries, C!GetDial(c) PROVE C!ConnInv'
  BY ZenonT(30), <1>5 DEF C!GetDial
<1>6. ASSUME NEW c \in Queries, C!WaitSignaled(c) \/ C!WaitCancelled(c)
      PROVE  C!ConnInv'
  BY <1>6 DEF C!WaitSignaled, C!WaitCancelled
<1>7. ASSUME NEW c \in Queries, C!DialSucceeds(c) PROVE C!ConnInv'
  BY <1>7 DEF C!DialSucceeds, C!Fresh
<1>8. ASSUME NEW c \in Queries, C!DialFails(c) PROVE C!ConnInv'
  BY <1>8 DEF C!DialFails
<1>9. ASSUME NEW c \in Queries, C!AfterDial(c) PROVE C!ConnInv'
  <2>1. /\ pc[c] = "dialed" /\ connecting' = FALSE
        /\ pc' = [pc EXCEPT ![c] = "returned"]
        /\ signaled' = {d \in Queries : pc[d] = "wait"}
        /\ UNCHANGED <<closed, closeCtxDone, ctxDone>>
    BY Zenon, <1>9 DEF C!AfterDial, C!CloseConnecting
  <2>2. /\ C!Dialing = {c} /\ C!Dialing' = {} /\ ~hasConnection
        /\ open \subseteq {got[c]}
    BY <2>1
  <2>3. /\ C!SingleFlight' /\ ~connecting'
        /\ pc' \in [Queries -> C!PCs] /\ signaled' \subseteq Queries
        /\ \A d \in Queries : pc'[d] = "dial" => FALSE
        /\ \A d \in Queries : pc'[d] \in {"idle", "loop", "wait"}
                                => d # c /\ got[d] = NoConn
    BY <2>1, <2>2
  <2>4. CASE /\ got' = [got EXCEPT ![c] = NoConn]
             /\ UNCHANGED <<connection, hasConnection>>
             /\ open' = open \ {got[c]}
    <3>1. open' = {} /\ got' \in [Queries -> Conns \cup {NoConn}]
      BY <2>2, <2>4
    <3>2. C!TypeOK'
      BY Zenon, <2>1, <2>3, <2>4, <3>1
    <3>3. C!NoOrphan'
      BY Zenon, <3>1
    <3> QED
      BY <2>1, <2>2, <2>3, <2>4, <3>2, <3>3
  <2>5. CASE /\ got[c] # NoConn /\ ~closed
             /\ got' = [got EXCEPT ![c] = got[c]]
             /\ connection' = got[c] /\ hasConnection' = TRUE
             /\ UNCHANGED open
    <3>1. got[c] \in Conns /\ got' = got
      BY Zenon, <2>5
    <3>2. C!TypeOK'
      <4>1. connection' \in Conns \cup {NoConn} /\ open' \subseteq Conns
        BY Zenon, <2>5, <3>1
      <4>2. connecting' \in BOOLEAN /\ hasConnection' \in BOOLEAN
        BY <2>1, <2>5, Zenon
      <4>3. closed' \in BOOLEAN /\ closeCtxDone' \in BOOLEAN /\ ctxDone' \subseteq Queries
        BY Zenon, <2>1
      <4>4. got' \in [Queries -> Conns \cup {NoConn}]
        BY Zenon, <3>1
      <4> QED BY Zenon, <2>3, <4>1, <4>2, <4>3, <4>4
    <3>3. C!NoOrphan'
      BY <2>2, <2>5
    <3> QED
      BY <2>1, <2>3, <2>5, <3>1, <3>2, <3>3
  <2>6. CASE got[c] = NoConn
    <3>1. open' = open /\ open = open \ {got[c]}
      BY <1>9, <2>6 DEF C!AfterDial
    <3> QED
      BY Zenon, <1>9, <2>4, <2>6, <3>1 DEF C!AfterDial
  <2>7. CASE got[c] # NoConn /\ closed
    BY Zenon, <1>9, <2>4, <2>7 DEF C!AfterDial
  <2>8. CASE got[c] # NoConn /\ ~closed
    BY Zenon, <1>9, <2>5, <2>8 DEF C!AfterDial
  <2> QED
    BY Zenon, <2>6, <2>7, <2>8
<1>10. ASSUME NEW c \in Queries, C!Release(c) PROVE C!ConnInv'
  BY <1>10 DEF C!Release
<1>11. ASSUME NEW c \in Queries, C!CtxExpires(c) PROVE C!ConnInv'
  BY Zenon, <1>11 DEF C!CtxExpires
<1>12. CASE C!Close
  BY Zenon, <1>12 DEF C!Close, C!CloseConnection
<1>13. CASE C!Reset
  BY Zenon, <1>13 DEF C!Reset, C!CloseConnection
<1>14. CASE C!CancelCloseCtx
  BY Zenon, <1>14 DEF C!CancelCloseCtx
<1>15. ASSUME NEW x \in Conns, C!ConnectionFails(x) PROVE C!ConnInv'
  BY Zenon, <1>15 DEF C!ConnectionFails
<1>16. CASE UNCHANGED C!vars
  BY Zenon, <1>16 DEF C!vars
<1> QED
  BY ZenonT(30), <1>1, <1>2, <1>3, <1>4, <1>5, <1>6, <1>7, <1>8, <1>9, <1>10, <1>11,
     <1>12, <1>13, <1>14, <1>15, <1>16 DEF C!Next, C!CallerStep


BaseOK == B!TypeOK /\ B!ShutdownStages /\ Counted

(* No query runs in the initial state.                                     *)
LEMMA UDPBaseInit == B!Init => BaseOK
<1> SUFFICES ASSUME B!Init PROVE BaseOK
  OBVIOUS
<1>1. IsFiniteSet({}) /\ Cardinality({}) = 0
  BY Zenon, FS_EmptySet
<1> QED  BY Zenon, <1>1 DEF B!Init, BaseOK, Counted, B!ShutdownStages, B!TypeOK, B!States, B!SPCs

(* Every critical section of t.mutex preserves the invariant.              *)
LEMMA UDPBaseStep == BaseOK /\ [B!Next]_B!vars => BaseOK'
<1> SUFFICES ASSUME BaseOK, [B!Next]_B!vars PROVE BaseOK'
  OBVIOUS
<1> USE DEF BaseOK, Counted, B!ShutdownStages, B!TypeOK
<1>0. Cardinality(running) = 0 <=> running = {}
  BY Zenon, FS_EmptySet
<1>1. ASSUME B!SetStarted PROVE BaseOK'
  BY Zenon, <1>1 DEF B!SetStarted, B!States
<1>2. ASSUME NEW q \in Queries, B!BeginQuery(q) PROVE BaseOK'
  <2>1. IsFiniteSet(running') /\ Cardinality(running') = Cardinality(running) + 1
    BY Zenon, <1>2, FS_AddElement DEF B!BeginQuery
  <2> QED  BY <1>2, <2>1 DEF B!BeginQuery
<1>3. ASSUME NEW q \in Queries, B!EndQuery(q) PROVE BaseOK'
  <2>1. /\ running' = running \ {q} /\ running # {}
        /\ UNCHANGED <<state, closeCtxDone, shutdown, expired>>
    BY Zenon, <1>3 DEF B!EndQuery
  <2>2. IsFiniteSet(running') /\ Cardinality(running') = Cardinality(running) - 1
    BY Zenon, <1>3, FS_RemoveElement DEF B!EndQuery
  <2>3. inFlight' = Cardinality(running') /\ inFlight' \in Nat
    BY <1>3, <1>0, <2>1, <2>2 DEF B!EndQuery
  <2>4. inFlight' = 0 <=> running' = {}
    BY Zenon, <2>2, <2>3, FS_EmptySet
  <2>5. CASE inFlight' = 0 /\ queriesComplete
    <3>1. completed' = TRUE /\ queriesComplete' = FALSE
      BY Zenon, <1>3, <2>5 DEF B!EndQuery
    <3> QED  BY Zenon, <2>1, <2>2, <2>3, <2>4, <2>5, <3>1
  <2>6. CASE ~(inFlight' = 0 /\ queriesComplete)
    <3>1. UNCHANGED <<completed, queriesComplete>>
      BY Zenon, <1>3, <2>6 DEF B!EndQuery
    <3> QED  BY Zenon, <2>1, <2>2, <2>3, <2>4, <2>6, <3>1
  <2> QED  BY Zenon, <2>5, <2>6
<1>4. ASSUME NEW c \in Closers, B!Shutdown(c) PROVE BaseOK'
  <2>1. UNCHANGED <<inFlight, completed, closeCtxDone, running, expired>>
    BY Zenon, <1>4 DEF B!Shutdown
  <2>2. CASE state \in {"closing", "closed"}
    <3>1. shutdown' = [shutdown EXCEPT ![c] = "nothing"]
          /\ UNCHANGED <<state, queriesComplete>>
      BY Zenon, <1>4, <2>2 DEF B!Shutdown, B!At
    <3> QED  BY Zenon, <2>1, <2>2, <3>1 DEF B!SPCs
  <2>3. CASE state = "new" \/ (state = "started" /\ inFlight = 0)
    <3>1. shutdown' = [shutdown EXCEPT ![c] = "cancel"] /\ state' = "closed"
          /\ UNCHANGED queriesComplete
      BY Zenon, <1>4, <2>3 DEF B!Shutdown, B!At
    <3>2. running = {}
      BY Zenon, <2>3, <1>0
    <3> QED  BY Zenon, <2>1, <2>3, <3>1, <3>2 DEF B!SPCs, B!States
  <2>4. CASE state = "started" /\ inFlight # 0
    <3>1. shutdown' = [shutdown EXCEPT ![c] = "drain"] /\ state' = "closing"
          /\ queriesComplete' = TRUE
      BY Zenon, <1>4, <2>4 DEF B!Shutdown, B!At
    <3>2. running # {} /\ ~completed
      BY Zenon, <2>4, <1>0
    <3> QED  BY Zenon, <2>1, <2>4, <3>1, <3>2 DEF B!SPCs, B!States
  <2> QED  BY Zenon, <1>4, <2>2, <2>3, <2>4 DEF B!Shutdown
<1>5. ASSUME NEW c \in Closers, B!CloseCancel(c) PROVE BaseOK'
  BY Zenon, <1>5 DEF B!CloseCancel, B!At, B!SPCs
<1>6. ASSUME NEW c \in Closers, B!Drained(c) PROVE BaseOK'
  BY Zenon, <1>6 DEF B!Drained, B!At, B!SPCs, B!States
<1>7. ASSUME NEW c \in Closers, B!TimedOut(c) PROVE BaseOK'
  BY Zenon, <1>7 DEF B!TimedOut, B!At, B!SPCs, B!States
<1>8. ASSUME NEW c \in Closers, B!CtxExpires(c) PROVE BaseOK'
  BY Zenon, <1>8 DEF B!CtxExpires
<1>9. ASSUME UNCHANGED B!vars PROVE BaseOK'
  BY Zenon, <1>9 DEF B!vars
<1> QED  BY Zenon, <1>1, <1>2, <1>3, <1>4, <1>5, <1>6, <1>7, <1>8, <1>9
         DEF B!Next, B!CloserStep


(* Every step of the transport is a step of its life cycle or leaves that  *)
(* alone.                                                                  *)
LEMMA UDPBaseSteps == ASSUME [Next]_vars PROVE [B!Next]_B!vars
<1> USE DEF baseVars, B!vars, B!Next
<1>1. CASE Start
  BY Zenon, <1>1 DEF Start
<1>2. ASSUME NEW q \in Queries, Exchange(q) PROVE [B!Next]_B!vars
  BY Zenon, <1>2 DEF Exchange
<1>3. ASSUME NEW q \in Queries, Return(q) PROVE [B!Next]_B!vars
  BY Zenon, <1>3 DEF Return
<1>4. ASSUME NEW k \in Closers, CloseBase(k) \/ CloseExpires(k) PROVE [B!Next]_B!vars
  BY Zenon, <1>4 DEF CloseBase, CloseExpires
<1>5. ASSUME NEW q \in Queries, C!CallerStep(q) \/ C!CallGet(q) \/ C!CtxExpires(q)
      PROVE  UNCHANGED closeCtxDone
  BY Zenon, <1>5 DEF C!CallerStep, C!GetClosed, C!GetCurrent, C!GetWait, C!GetDial,
       C!WaitSignaled, C!WaitCancelled, C!DialSucceeds, C!DialFails, C!AfterDial,
       C!CallGet, C!CtxExpires
<1>6. ASSUME C!Reset \/ C!Close \/ \E x : C!ConnectionFails(x)
      PROVE  UNCHANGED closeCtxDone
  BY Zenon, <1>6 DEF C!Reset, C!Close, C!ConnectionFails
<1>7. ASSUME NEW q \in Queries,
             \/ RaiseSize(q) \/ ResetConnector(q) \/ CallGet(q) \/ InGet(q)
             \/ GetFailed(q) \/ Register(q) \/ Send(q) \/ WriteFails(q) \/ Answered(q)
             \/ GiveUp(q) \/ Unregister(q) \/ ExchangeTCP(q) \/ CtxExpires(q)
      PROVE  UNCHANGED B!vars
  BY Zenon, <1>5, <1>6, <1>7 DEF RaiseSize, ResetConnector, CallGet, InGet, GetFailed,
       Register, Send, WriteFails, Answered, GiveUp, Unregister, ExchangeTCP, CtxExpires
<1>8. ASSUME \/ \E x \in Conns : Receive(x) \/ Dispatch(x) \/ ReadFails(x)
             \/ \E m \in net : Lose(m)
             \/ \E k \in Closers : CloseConnector(k)
             \/ Reset \/ UNCHANGED vars
      PROVE  UNCHANGED B!vars
  BY Zenon, <1>6, <1>8 DEF Receive, Dispatch, ReadFails, Lose, CloseConnector, Reset, vars
<1> HIDE DEF B!Next, B!vars
<1> QED  BY Zenon, <1>1, <1>2, <1>3, <1>4, <1>7, <1>8 DEF Next, QueryStep

(* Every step is one of the connector, or leaves that alone; cancelling    *)
(* closeCtx, which the two parts share, is a step of both.                 *)
LEMMA UDPConnectorSteps ==
  ASSUME open \subseteq Conns, closeCtxDone \in BOOLEAN, [Next]_vars
  PROVE  [C!Next]_C!vars
<1> USE DEF connVars, C!vars, C!slotVars, C!callerVars
<1>1. ASSUME UNCHANGED connVars,
             \/ UNCHANGED closeCtxDone \/ closeCtxDone'
      PROVE  [C!Next]_C!vars
  <2>1. CASE UNCHANGED closeCtxDone
    BY Zenon, <1>1, <2>1
  <2>2. CASE closeCtxDone' # closeCtxDone
    <3>1. ~closeCtxDone /\ closeCtxDone' = TRUE
      BY Zenon, <1>1, <2>2
    <3> QED  BY Zenon, <1>1, <3>1 DEF C!Next, C!CancelCloseCtx
  <2> QED  BY Zenon, <2>1, <2>2
<1>2. ASSUME NEW k \in Closers, CloseBase(k) \/ CloseExpires(k)
      PROVE  [C!Next]_C!vars
  <2>1. UNCHANGED connVars
    BY Zenon, <1>2 DEF CloseBase, CloseExpires
  <2>2. UNCHANGED closeCtxDone \/ closeCtxDone' = TRUE
    BY Zenon, <1>2 DEF CloseBase, CloseExpires, B!CloserStep, B!Shutdown, B!CloseCancel,
                B!Drained, B!TimedOut, B!CtxExpires
  <2> QED  BY Zenon, <2>1, <2>2, <1>1
<1>3. ASSUME \/ Start
             \/ \E q \in Queries :
                  \/ Exchange(q) \/ RaiseSize(q) \/ GetFailed(q) \/ Register(q)
                  \/ Send(q) \/ Answered(q) \/ GiveUp(q) \/ Unregister(q)
                  \/ ExchangeTCP(q)
             \/ \E x \in Conns : Receive(x) \/ Dispatch(x)
             \/ \E m \in net : Lose(m)
             \/ UNCHANGED vars
      PROVE  [C!Next]_C!vars
  <2>1. UNCHANGED connVars /\ UNCHANGED closeCtxDone
    BY Zenon, <1>3 DEF Start, Exchange, RaiseSize, GetFailed, Register, Send, Answered,
                GiveUp, Unregister, ExchangeTCP, Receive, Dispatch, Lose, vars,
                B!SetStarted, B!BeginQuery
  <2> QED  BY Zenon, <2>1, <1>1
<1>4. ASSUME NEW q \in Queries, ResetConnector(q) PROVE [C!Next]_C!vars
  BY Zenon, <1>4 DEF ResetConnector, C!Next
<1>5. ASSUME NEW q \in Queries, CallGet(q) \/ InGet(q) \/ CtxExpires(q)
      PROVE  [C!Next]_C!vars
  BY Zenon, <1>5 DEF CallGet, InGet, CtxExpires, C!Next
<1>6. ASSUME NEW q \in Queries, WriteFails(q) PROVE [C!Next]_C!vars
  <2>1. C!ConnectionFails(got[q]) /\ got[q] \in Conns
    BY Zenon, <1>6 DEF WriteFails, C!ConnectionFails
  <2> QED  BY Zenon, <2>1 DEF C!Next
<1>7. ASSUME NEW q \in Queries, Return(q) PROVE [C!Next]_C!vars
  <2>1. UNCHANGED closeCtxDone
    BY Zenon, <1>7 DEF Return, B!EndQuery
  <2>2. C!Release(q) \/ UNCHANGED connVars
    BY Zenon, <1>7 DEF Return
  <2> QED  BY Zenon, <2>1, <2>2, <1>1 DEF C!Next
<1>8. ASSUME \/ \E x \in Conns : ReadFails(x)
             \/ \E k \in Closers : CloseConnector(k)
             \/ Reset
      PROVE  [C!Next]_C!vars
  BY Zenon, <1>8 DEF ReadFails, CloseConnector, Reset, C!Next
<1> HIDE DEF C!vars
<1> QED
  BY Zenon, <1>2, <1>3, <1>4, <1>5, <1>6, <1>7, <1>8 DEF Next, QueryStep

(* Initially no query is in Exchange and nobody has called Close.          *)
LEMMA CloseInvInit == Init => CloseInv
<1> SUFFICES ASSUME Init PROVE CloseInv
  OBVIOUS
<1>1. BaseOK /\ C!ConnInv
  BY Zenon, UDPBaseInit, UDPConnInit DEF Init
<1>2. running = {} /\ pc = [q \in Queries |-> "idle"]
  BY Zenon DEF Init, B!Init, C!Init
<1>3. qpc \in [Queries -> QPCs] /\ \A q \in Queries : qpc[q] = "idle"
  BY Zenon DEF Init, QPCs
<1> QED  BY Zenon, <1>1, <1>2, <1>3 DEF Init, CloseInv, BaseOK, C!InGet

(* Where the exchanges are, and that connector.Close came before the end   *)
(* of Close, is kept by every step.                                        *)
LEMMA CloseInvStep == CloseInv /\ [Next]_vars => CloseInv'
<1> SUFFICES ASSUME CloseInv, [Next]_vars PROVE CloseInv'
  OBVIOUS
<1>1. BaseOK'
  BY Zenon, UDPBaseSteps, UDPBaseStep DEF CloseInv, BaseOK
<1>2. C!ConnInv'
  <2>1. open \subseteq Conns /\ closeCtxDone \in BOOLEAN
    BY Zenon DEF CloseInv, B!TypeOK, C!ConnInv, C!TypeOK
  <2> QED  BY Zenon, <2>1, UDPConnectorSteps, UDPConnStep DEF CloseInv
<1>t. qpc \in [Queries -> QPCs] /\ pc \in [Queries -> C!PCs]
  BY Zenon DEF CloseInv, C!ConnInv, C!TypeOK
<1>i. \A q \in Queries : /\ q \in running <=> qpc[q] \notin {"idle", "done"}
                         /\ pc[q] \in C!InGet => qpc[q] = "got"
  BY Zenon DEF CloseInv
<1>f. finished \subseteq Closers /\ (finished # {} => closed)
  BY Zenon DEF CloseInv
<1> DEFINE Placed == \A q \in Queries :
                       /\ q \in running <=> qpc[q] \notin {"idle", "done"}
                       /\ pc[q] \in C!InGet => qpc[q] = "got"
           Over   == finished \subseteq Closers /\ (finished # {} => closed)
<1>3. SUFFICES /\ qpc' \in [Queries -> QPCs] /\ Placed'
               /\ Over'
  BY Zenon, <1>1, <1>2 DEF CloseInv, BaseOK
<1> USE <1>t, <1>i, <1>f DEF QPCs, Goto, baseVars, connVars, udpVars
<1>4. CASE Start
  BY Zenon, <1>4 DEF Start, B!SetStarted
<1>5. ASSUME NEW q \in Queries, Exchange(q)
      PROVE  qpc' \in [Queries -> QPCs] /\ Placed' /\ Over'
  BY Zenon, <1>5 DEF Exchange, B!BeginQuery, C!InGet
<1>6. ASSUME NEW q \in Queries, RaiseSize(q)
      PROVE  qpc' \in [Queries -> QPCs] /\ Placed' /\ Over'
  BY Zenon, <1>6 DEF RaiseSize, C!InGet
<1>7. ASSUME NEW q \in Queries, ResetConnector(q)
      PROVE  qpc' \in [Queries -> QPCs] /\ Placed' /\ Over'
  BY <1>7 DEF ResetConnector, C!Reset, C!callerVars, C!InGet
<1>8. ASSUME NEW q \in Queries, CallGet(q)
      PROVE  qpc' \in [Queries -> QPCs] /\ Placed' /\ Over'
  BY Zenon, <1>8 DEF CallGet, C!CallGet, C!InGet, C!slotVars
<1>9. ASSUME NEW q \in Queries, InGet(q)
      PROVE  qpc' \in [Queries -> QPCs] /\ Placed' /\ Over'
  <2>1. UNCHANGED <<qpc, running, finished, closed>>
    BY Zenon, <1>9 DEF InGet, C!CallerStep, C!GetClosed, C!GetCurrent, C!GetWait, C!GetDial,
         C!WaitSignaled, C!WaitCancelled, C!DialSucceeds, C!DialFails, C!AfterDial,
         C!slotVars
  <2>2. pc[q] \in C!InGet /\ \E p \in C!PCs : pc' = [pc EXCEPT ![q] = p]
    BY Zenon, <1>9 DEF InGet, C!CallerStep, C!GetClosed, C!GetCurrent, C!GetWait, C!GetDial,
         C!WaitSignaled, C!WaitCancelled, C!DialSucceeds, C!DialFails, C!AfterDial,
         C!InGet, C!PCs, C!Return
  <2> QED  BY Zenon, <2>1, <2>2
<1>10. ASSUME NEW q \in Queries, GetFailed(q) \/ Register(q)
       PROVE  qpc' \in [Queries -> QPCs] /\ Placed' /\ Over'
  <2>1. /\ UNCHANGED <<pc, running, finished, closed>>
        /\ qpc[q] = "got" /\ pc[q] = "returned"
        /\ \E p \in {"send", "end"} : qpc' = [qpc EXCEPT ![q] = p]
    BY Zenon, <1>10 DEF GetFailed, Register
  <2> QED  BY Zenon, <2>1 DEF C!InGet
<1>11. ASSUME NEW q \in Queries,
              \/ Send(q) \/ WriteFails(q) \/ Answered(q) \/ GiveUp(q)
              \/ Unregister(q) \/ ExchangeTCP(q)
       PROVE  qpc' \in [Queries -> QPCs] /\ Placed' /\ Over'
  <2>1. UNCHANGED <<pc, running, finished, closed>>
    BY Zenon, <1>11 DEF Send, WriteFails, Answered, GiveUp, Unregister, ExchangeTCP,
                 C!ConnectionFails, C!slotVars, C!callerVars
  <2>2. /\ qpc[q] \notin {"idle", "done", "got"}
        /\ \E p \in {"wait", "truncated", "unregister", "tcp", "end"} :
             qpc' = [qpc EXCEPT ![q] = p]
    BY Zenon, <1>11 DEF Send, WriteFails, Answered, GiveUp, Unregister, ExchangeTCP
  <2> QED  BY <2>1, <2>2 DEF C!InGet
<1>12. ASSUME NEW q \in Queries, Return(q)
       PROVE  qpc' \in [Queries -> QPCs] /\ Placed' /\ Over'
  <2>1. /\ qpc[q] = "end" /\ running' = running \ {q}
        /\ qpc' = [qpc EXCEPT ![q] = "done"] /\ UNCHANGED finished
    BY Zenon, <1>12 DEF Return, B!EndQuery
  <2>2. UNCHANGED closed /\ (UNCHANGED pc \/ pc' = [pc EXCEPT ![q] = "idle"])
    BY Zenon, <1>12 DEF Return, C!Release, C!slotVars
  <2> QED  BY Zenon, <2>1, <2>2 DEF C!InGet
<1>13. ASSUME \/ \E q \in Queries : CtxExpires(q)
              \/ \E x \in Conns : Receive(x) \/ Dispatch(x) \/ ReadFails(x)
              \/ \E m \in net : Lose(m)
              \/ \E k \in Closers : CloseBase(k) \/ CloseExpires(k)
              \/ Reset \/ UNCHANGED vars
       PROVE  qpc' \in [Queries -> QPCs] /\ Placed' /\ Over'
  <2>1. UNCHANGED <<qpc, pc, running, finished, closed>>
    BY Zenon, <1>13 DEF CtxExpires, Receive, Dispatch, ReadFails, Lose, CloseBase, CloseExpires,
         Reset, vars, C!CtxExpires, C!ConnectionFails, C!Reset, C!slotVars, C!callerVars,
         B!CloserStep, B!Shutdown, B!CloseCancel, B!Drained, B!TimedOut, B!CtxExpires
  <2> QED  BY Zenon, <2>1
<1>14. ASSUME NEW k \in Closers, CloseConnector(k)
       PROVE  qpc' \in [Queries -> QPCs] /\ Placed' /\ Over'
  BY <1>14 DEF CloseConnector, C!Close, C!callerVars
<1> HIDE DEF Placed, Over
<1> QED
  BY <1>4, <1>5, <1>6, <1>7, <1>8, <1>9, <1>10, <1>11, <1>12, <1>13, <1>14
  DEF Next, QueryStep

(* The invariant and that of the ids leave nothing behind a Close that     *)
(* drained the queries.                                                    *)
LEMMA NothingLeft == CloseInv /\ UDPInv => CloseLeavesNothing
<1> SUFFICES ASSUME CloseInv, UDPInv, NEW k \in finished, k \in Closers,
                    shutdown[k] = "drained"
             PROVE  /\ running = {} /\ open = {} /\ ~connecting
                    /\ \A i \in IDs : callbacks[i] = NoQuery
  BY Zenon DEF CloseLeavesNothing, CloseInv
<1>1. running = {} /\ closed
  BY Zenon DEF CloseInv, B!ShutdownStages
<1>2. \A q \in Queries : qpc[q] \in {"idle", "done"} /\ pc[q] \notin C!InGet
  BY Zenon, <1>1 DEF CloseInv
<1>3. C!Dialing = {}
  BY Zenon, <1>2 DEF C!Dialing, C!InGet
<1>4. ~connecting
  BY Zenon, <1>3 DEF CloseInv, C!ConnInv, C!SingleFlight
<1>5. open = {}
  BY Zenon, <1>1, <1>3 DEF CloseInv, C!ConnInv, C!NoOrphan
<1>6. \A i \in IDs : callbacks[i] = NoQuery
  BY <1>2 DEF UDPInv, Registered
<1> QED  BY Zenon, <1>1, <1>4, <1>5, <1>6
-----------------------------------------------------------------------------
(* The connections that are open are connections of the connector.         *)
LEMMA CloseTypes == CloseInv => open \subseteq Conns /\ closeCtxDone \in BOOLEAN
  BY Zenon DEF CloseInv, C!ConnInv, C!TypeOK, B!TypeOK

(* Ids in use are distinct, and an exchange deletes only its own entry.    *)
THEOREM UDPOwnCallback == Spec => []OwnCallback
<1>1. UDPInv => OwnCallback
  BY Zenon DEF UDPInv
<1> QED
  BY <1>1, UDPInvInit, UDPInvStep, CloseInvInit, CloseInvStep, CloseTypes, PTL DEF Spec

(* Exchanges that run side by side never get each other's answers.         *)
THEOREM UDPNoCrossTalk == Spec => []NoCrossTalk
<1>1. UDPInv => NoCrossTalk
  BY Zenon DEF UDPInv
<1> QED
  BY <1>1, UDPInvInit, UDPInvStep, CloseInvInit, CloseInvStep, CloseTypes, PTL DEF Spec

(* When the Close of a transport has returned nil, no exchange is left     *)
(* running, no callback registered and no connection open.                 *)
THEOREM UDPCloseLeavesNothing == Spec => []CloseLeavesNothing
  BY UDPInvInit, UDPInvStep, CloseInvInit, CloseInvStep, CloseTypes, NothingLeft, PTL
  DEF Spec

(* A Close in the select of Shutdown is woken by the last exchange to end, *)
(* for any number of exchanges and closers: BeginQuery, EndQuery and       *)
(* Shutdown leave no wake-up out.                                          *)
THEOREM UDPWaiterBacked == Spec => []WaiterBacked
<1>1. CloseInv => WaiterBacked
  BY Zenon DEF CloseInv, B!TypeOK, B!ShutdownStages, WaiterBacked, B!WaiterBacked
<1> QED
  BY <1>1, CloseInvInit, CloseInvStep, PTL DEF Spec
=============================================================================
