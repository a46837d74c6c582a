--------------------------- MODULE ConnectorProofs ---------------------------
(***************************************************************************)
(* Proofs about Connector for any number of callers and connections, and   *)
(* about the urltest group for any number of outbounds; the two are apart. *)
(*                                                                         *)
(* The inductive invariant ConnInv adds to the properties of interest that *)
(* the slot is empty while a dial is in progress and after Close, so the   *)
(* one place that fills it (AfterDial) can never overwrite an open         *)
(* connection.  ScanInv of URLTestGroup says what a Select knows in the    *)
(* middle of its loop, ChoiceInv that a selection which replaced another   *)
(* is remembered until the connections on the other are interrupted.       *)
(***************************************************************************)
EXTENDS Connector, URLTesting, WellFoundedInduction, TLAPS

(* The initial state of a connector satisfies the invariant.               *)
LEMMA ConnInvInit == Init => ConnInv
  BY NoConnAssumption
  DEF Init, ConnInv, TypeOK, SingleFlight, NoOrphan, Dialing, PCs

(* Every critical section of Get, Close and Reset, every dial and every    *)
(* failure preserves the invariant.                                        *)
LEMMA ConnInvStep == ConnInv /\ [Next]_vars => ConnInv'
<1> SUFFICES ASSUME ConnInv, [Next]_vars PROVE ConnInv'
  OBVIOUS
<1> USE NoConnAssumption
    DEF ConnInv, TypeOK, SingleFlight, NoOrphan, Dialing, PCs, slotVars,
        callerVars, Return, Usable
<1>1. ASSUME NEW c \in Callers, CallGet(c) PROVE ConnInv'
  BY <1>1 DEF CallGet
<1>2. ASSUME NEW c \in Callers, GetClosed(c) PROVE ConnInv'
  BY <1>2 DEF GetClosed
<1>3. ASSUME NEW c \in Callers, GetCurrent(c) PROVE ConnInv'
  BY <1>3 DEF GetCurrent
<1>4. ASSUME NEW c \in Callers, GetWait(c) PROVE ConnInv'
  <2>1. ~hasConnection' /\ UNCHANGED <<connection, connecting, closed, closeCtxDone, open, signaled, ctxDone, got>>
    BY Zenon, <1>4 DEF GetWait
  <2>2. pc[c] = "loop" /\ connecting /\ pc' = [pc EXCEPT ![c] = "wait"]
    BY Zenon, <1>4 DEF GetWait
  <2>3. ~hasConnection
    BY Zenon, <2>2
  <2>4. Dialing' = Dialing
    BY Zenon, <2>2
  <2>5. hasConnection' \in BOOLEAN
    BY Zenon, <1>4 DEF GetWait
  <2>6. TypeOK'
    BY Zenon, <2>1, <2>2, <2>5
  <2>7. SingleFlight' /\ NoOrphan'
    BY <2>1, <2>2, <2>3, <2>4
  <2> QED
    BY <2>1, <2>2, <2>6, <2>7
<1>5. ASSUME NEW c \in Callers, GetDial(c) PROVE ConnInv'
  BY Zenon, <1>5 DEF GetDial
<1>6. ASSUME NEW c \in Callers, WaitSignaled(c) \/ WaitCancelled(c)
      PROVE  ConnInv'
  BY <1>6 DEF WaitSignaled, WaitCancelled
<1>7. ASSUME NEW c \in Callers, DialSucceeds(c) PROVE ConnInv'
  BY <1>7 DEF DialSucceeds, Fresh
<1>8. ASSUME NEW c \in Callers, DialFails(c) PROVE ConnInv'
  BY <1>8 DEF DialFails
<1>9. ASSUME NEW c \in Callers, AfterDial(c) PROVE ConnInv'
  <2>1. /\ pc[c] = "dialed" /\ connecting' = FALSE
        /\ pc' = [pc EXCEPT ![c] = "returned"]
        /\ signaled' = {d \in Callers : pc[d] = "wait"}
        /\ UNCHANGED <<closed, closeCtxDone, ctxDone>>
    BY Zenon, <1>9 DEF AfterDial, CloseConnecting
  <2>2. /\ Dialing = {c} /\ Dialing' = {} /\ ~hasConnection
        /\ open \subseteq {got[c]}
    BY <2>1
  <2>3. /\ SingleFlight' /\ ~connecting'
        /\ pc' \in [Callers -> PCs] /\ signaled' \subseteq Callers
        /\ \A d \in Callers : pc'[d] = "dial" => FALSE
        /\ \A d \in Callers : pc'[d] \in {"idle", "loop", "wait"}
                                => d # c /\ got[d] = NoConn
    BY <2>1, <2>2
  <2>4. CASE /\ got' = [got EXCEPT ![c] = NoConn]
             /\ UNCHANGED <<connection, hasConnection>>
             /\ open' = open \ {got[c]}
    <3>1. open' = {} /\ got' \in [Callers -> Conns \cup {NoConn}]
      BY Zenon, <2>2, <2>4
    <3>2. TypeOK'
      BY Zenon, <2>1, <2>3, <2>4, <3>1
    <3>3. NoOrphan'
      BY Zenon, <3>1
    <3> QED
      BY <2>1, <2>2, <2>3, <2>4, <3>2, <3>3
  <2>5. CASE /\ got[c] # NoConn /\ ~closed
             /\ got' = [got EXCEPT ![c] = got[c]]
             /\ connection' = got[c] /\ hasConnection' = TRUE
             /\ UNCHANGED open
    <3>1. got[c] \in Conns /\ got' = got
      BY Zenon, <2>5
    <3>2. TypeOK'
      <4>1. connection' \in Conns \cup {NoConn} /\ open' \subseteq Conns
        BY Zenon, <2>5, <3>1
      <4>2. connecting' \in BOOLEAN /\ hasConnection' \in BOOLEAN
        BY <2>1, <2>5, Zenon
      <4>3. closed' \in BOOLEAN /\ closeCtxDone' \in BOOLEAN /\ ctxDone' \subseteq Callers
        BY Zenon, <2>1
      <4>4. got' \in [Callers -> Conns \cup {NoConn}]
        BY Zenon, <3>1
      <4> QED BY Zenon, <2>3, <4>1, <4>2, <4>3, <4>4
    <3>3. NoOrphan'
      BY Zenon, <2>2, <2>5
    <3> QED
      BY Zenon, <2>1, <2>3, <2>5, <3>1, <3>2, <3>3
  <2>6. CASE got[c] = NoConn
    <3>1. open' = open /\ open = open \ {got[c]}
      BY <1>9, <2>6 DEF AfterDial
    <3> QED
      BY Zenon, <1>9, <2>4, <2>6, <3>1 DEF AfterDial
  <2>7. CASE got[c] # NoConn /\ closed
    BY Zenon, <1>9, <2>4, <2>7 DEF AfterDial
  <2>8. CASE got[c] # NoConn /\ ~closed
    BY Zenon, <1>9, <2>5, <2>8 DEF AfterDial
  <2> QED
    BY Zenon, <2>6, <2>7, <2>8
<1>10. ASSUME NEW c \in Callers, Release(c) PROVE ConnInv'
  BY <1>10 DEF Release
<1>11. ASSUME NEW c \in Callers, CtxExpires(c) PROVE ConnInv'
  BY Zenon, <1>11 DEF CtxExpires
<1>12. CASE Close
  BY Zenon, <1>12 DEF Close, CloseConnection
<1>13. CASE Reset
  BY Zenon, <1>13 DEF Reset, CloseConnection
<1>14. CASE CancelCloseCtx
  BY Zenon, <1>14 DEF CancelCloseCtx
<1>15. ASSUME NEW x \in Conns, ConnectionFails(x) PROVE ConnInv'
  BY Zenon, <1>15 DEF ConnectionFails
<1>16. CASE UNCHANGED vars
  BY Zenon, <1>16 DEF vars
<1> QED
  BY Zenon, <1>1, <1>2, <1>3, <1>4, <1>5, <1>6, <1>7, <1>8, <1>9, <1>10, <1>11,
     <1>12, <1>13, <1>14, <1>15, <1>16 DEF Next, CallerStep

(* Get is single-flight for any number of concurrent callers.              *)
THEOREM ConnectorSingleFlight == Spec => []SingleFlight
<1>1. ConnInv => SingleFlight
  BY Zenon DEF ConnInv
<1> QED
  BY <1>1, ConnInvInit, ConnInvStep, PTL DEF Spec

(* No open connection is ever out of reach of Close and Reset.             *)
THEOREM ConnectorNoOrphan == Spec => []NoOrphan
<1>1. ConnInv => NoOrphan
  BY Zenon DEF ConnInv
<1> QED
  BY <1>1, ConnInvInit, ConnInvStep, PTL DEF Spec

(* A closed connector with no dial in progress holds no open connection.   *)
THEOREM ConnectorClosedDrains == Spec => []ClosedDrains
<1>1. ConnInv => ClosedDrains
  BY Zenon DEF ConnInv, SingleFlight, NoOrphan, ClosedDrains
<1> QED
  BY <1>1, ConnInvInit, ConnInvStep, PTL DEF Spec
-----------------------------------------------------------------------------
(* What Select returns without a history supports the network.               *)
LEMMA URLResult ==
  ASSUME NEW s \in U!Scans, U!Result(s) # None,
         s.minOutbound # None => U!Supports(s.minOutbound, s.network)
  PROVE  U!Result(s) \in U!Members /\ U!Supports(U!Result(s), s.network)
<1>1. CASE s.minOutbound # None
  BY Zenon, <1>1 DEF U!Result, U!Scans
<1>2. CASE s.minOutbound = None
  <2> DEFINE able == {o \in U!Members : U!Supports(o, s.network)}
  <2>1. able # {} /\ U!Result(s) = CHOOSE o \in able : \A x \in able : o <= x
    BY Zenon, <1>2 DEF U!Result
  <2>2. able \subseteq Nat
    BY URLTestAssumption DEF U!Members
  <2> HIDE DEF able
  <2>3. PICK m \in able : \A x \in able : ~(<<x, m>> \in OpToRel(<, Nat))
    BY Zenon, <2>1, <2>2, NatLessThanWellFounded, WFMin
  <2>4. \A x \in able : m <= x
    <3>1. \A x \in able : ~(x < m)
      BY Zenon, <2>2, <2>3 DEF OpToRel
    <3> QED BY <2>2, <3>1
  <2>5. U!Result(s) \in able
    BY Zenon, <2>1, <2>4
  <2> QED BY Zenon, <2>5 DEF able
<1> QED BY Zenon, <1>1, <1>2

(* A Select that a store has overtaken is otherwise the same.                *)
LEMMA URLUnstable ==
  ASSUME NEW s \in U!Scans
  PROVE  LET t == [s EXCEPT !.stable = FALSE]
         IN  /\ t \in U!Scans /\ ~t.stable
             /\ t.network = s.network /\ t.next = s.next /\ t.from = s.from
             /\ t.minOutbound = s.minOutbound /\ t.compared = s.compared
  BY Zenon DEF U!Scans

(* A stored delay is a delay.                                                *)
LEMMA URLStore ==
  ASSUME U!TypeOK, U!OfNetwork, NEW o, NEW d \in TestedDelays \cup {U!Failed}, U!Store(o, d),
         UNCHANGED <<chosen, writing, tolerance>>
  PROVE  /\ measured' \in [U!Members -> TestedDelays \cup {U!Failed, None}]
         /\ scan' \in [U!Actors -> U!Scans \cup {None}]
         /\ U!OfNetwork'
         /\ \A p \in U!Actors : scan'[p] # None => ~scan'[p].stable
<1>1. measured' \in [U!Members -> TestedDelays \cup {U!Failed, None}]
  BY Zenon DEF U!Store, U!TypeOK
<1>3. \A x \in U!Members : measured[x] # None => measured'[x] # None
  BY URLTestAssumption DEF U!Store, U!TypeOK, U!Failed
<1>4. ASSUME NEW p \in U!Actors, scan'[p] # None
      PROVE  /\ scan[p] # None /\ scan[p] \in U!Scans
             /\ scan'[p] = [scan[p] EXCEPT !.stable = FALSE]
  BY Zenon, <1>4 DEF U!Store, U!TypeOK
<1>5. ASSUME NEW p \in U!Actors, scan'[p] # None
      PROVE  /\ scan[p] # None /\ scan[p] \in U!Scans /\ scan'[p] \in U!Scans /\ ~scan'[p].stable
             /\ scan'[p].network = scan[p].network /\ scan'[p].next = scan[p].next
             /\ scan'[p].from = scan[p].from /\ scan'[p].minOutbound = scan[p].minOutbound
             /\ scan'[p].compared = scan[p].compared
  BY <1>4, <1>5, URLUnstable
<1>6. scan' \in [U!Actors -> U!Scans \cup {None}]
  BY Zenon, <1>5 DEF U!Store
<1>7. U!OfNetwork'
  <2>1. ASSUME NEW p \in U!Actors, scan'[p] # None, scan'[p].compared # None
        PROVE  scan[p].next \in U!Members
    BY <1>5, <2>1, URLTestAssumption DEF U!OfNetwork, U!Members, U!Scans
  <2> QED BY <1>3, <1>5, <2>1 DEF U!OfNetwork
<1> QED BY Zenon, <1>1, <1>5, <1>6, <1>7

(* A history that is there has a delay.                                      *)
LEMMA URLDelay ==
  ASSUME U!TypeOK, NEW o \in U!Members, measured[o] # None
  PROVE  measured[o] \in Nat /\ measured[o] <= MaxUint16
<1>1. measured[o] \in TestedDelays \/ measured[o] = MaxUint16
  BY Zenon DEF U!TypeOK, U!Failed
<1>2. TestedDelays \subseteq 0 .. MaxUint16 /\ MaxUint16 \in Nat
  BY Zenon, URLTestAssumption
<1>3. CASE measured[o] \in TestedDelays
  <2>1. measured[o] \in 0 .. MaxUint16
    BY Zenon, <1>2, <1>3
  <2> QED BY <1>2, <2>1
<1>4. CASE measured[o] = MaxUint16
  BY <1>2, <1>4
<1> QED BY Zenon, <1>1, <1>3, <1>4

(* A step that gives one actor another Select, or none, and stores nothing.  *)
LEMMA URLScanStep ==
  ASSUME U!ScanInv, NEW p \in U!Actors, NEW t \in U!Scans \cup {None},
         scan' = [scan EXCEPT ![p] = t],
         UNCHANGED <<measured, chosen, writing, tolerance>>,
         t # None =>
           /\ t.from # None => U!Supports(t.from, t.network)
           /\ t.minOutbound # None => U!Supports(t.minOutbound, t.network)
           /\ t.compared # None =>
                t.next <= Size /\ measured[t.next] # None /\ U!Supports(t.next, t.network)
           /\ t.stable /\ U!Comparable(t.network) => U!Scanning(t)
  PROVE  /\ scan' \in [U!Actors -> U!Scans \cup {None}]
         /\ U!OfNetwork'
         /\ U!ScansRight'
<1>1. scan'[p] = t /\ \A x \in U!Actors : x # p => scan'[x] = scan[x]
  BY Zenon DEF U!ScanInv, U!TypeOK
<1>2. scan' \in [U!Actors -> U!Scans \cup {None}]
  BY Zenon DEF U!ScanInv, U!TypeOK
<1>3. U!OfNetwork'
  BY <1>1 DEF U!ScanInv, U!OfNetwork
<1>4. U!ScansRight'
  <2>1. ASSUME NEW n PROVE U!Comparable(n)' <=> U!Comparable(n)
    BY Zenon DEF U!Comparable
  <2>2. ASSUME NEW s PROVE U!Scanning(s)' <=> U!Scanning(s)
    BY Zenon DEF U!Scanning
  <2>3. ASSUME NEW x \in U!Actors, scan'[x] # None, scan'[x].stable, U!Comparable(scan'[x].network)
        PROVE  U!Scanning(scan'[x])
    BY Zenon, <1>1, <2>3 DEF U!ScanInv, U!ScansRight
  <2> QED BY Zenon, <2>1, <2>2, <2>3 DEF U!ScansRight
<1> QED BY Zenon, <1>2, <1>3, <1>4

(* The head of Select.                                                       *)
LEMMA URLBegin ==
  ASSUME U!ScanInv, NEW p \in U!Actors, NEW n \in U!Networks, NEW from \in U!Members \cup {None},
         from # None => U!Supports(from, n), U!Begin(p, n, from),
         UNCHANGED <<measured, chosen, writing, tolerance>>
  PROVE  /\ scan' \in [U!Actors -> U!Scans \cup {None}]
         /\ U!OfNetwork'
         /\ U!ScansRight'
<1> DEFINE known == from # None /\ measured[from] # None
           t == [network |-> n, next |-> 1, from |-> from,
                 minOutbound |-> IF known THEN from ELSE None,
                 minDelay |-> IF known THEN measured[from] ELSE 0,
                 compared |-> None, stable |-> TRUE]
<1>1. known => measured[from] \in Nat
  BY Zenon, URLDelay DEF U!ScanInv
<1>2. t \in U!Scans
  BY <1>1, URLTestAssumption DEF U!Scans
<1>3. scan' = [scan EXCEPT ![p] = t]
  BY Zenon DEF U!Begin
<1>4. /\ t.from = from /\ t.network = n /\ t.compared = None /\ t.next = 1
      /\ t.minOutbound = (IF known THEN from ELSE None)
      /\ t.minDelay = (IF known THEN measured[from] ELSE 0)
  OBVIOUS
<1> HIDE DEF t
<1>5. U!Comparable(n) => U!Scanning(t)
  BY <1>1, <1>4, URLTestAssumption DEF U!Scanning, U!Comparable, U!Members
<1> QED BY Zenon, <1>2, <1>3, <1>4, <1>5, URLScanStep

(* One outbound of the loop.                                                 *)
LEMMA URLCompare ==
  ASSUME U!ScanInv, NEW p \in U!Actors, U!Compare(p)
  PROVE  /\ scan' \in [U!Actors -> U!Scans \cup {None}]
         /\ U!OfNetwork'
         /\ U!ScansRight'
<1> DEFINE s == scan[p]
           o == s.next
<1>1. /\ s \in U!Scans /\ o \in U!Members /\ o <= Size /\ s.compared = None /\ s # None
      /\ tolerance \in Nat /\ o \in Nat
  BY URLTestAssumption DEF U!Compare, U!ScanInv, U!TypeOK, U!Scans, U!Members
<1>2. UNCHANGED <<measured, chosen, writing, tolerance>>
  BY Zenon DEF U!Compare, U!check, U!options
<1>3. /\ s.from # None => U!Supports(s.from, s.network)
      /\ s.minOutbound # None => U!Supports(s.minOutbound, s.network)
      /\ s.stable /\ U!Comparable(s.network) => U!Scanning(s)
  BY Zenon, <1>1 DEF U!ScanInv, U!OfNetwork, U!ScansRight
<1>4. CASE U!Supports(o, s.network) /\ measured[o] # None /\ U!Better(s, measured[o])
  <2> DEFINE t == [s EXCEPT !.compared = measured[o]]
  <2>1. scan' = [scan EXCEPT ![p] = t]
    BY Zenon, <1>4 DEF U!Compare
  <2>2. measured[o] \in Nat
    BY Zenon, <1>1, <1>4, URLDelay DEF U!ScanInv
  <2>3. /\ t \in U!Scans
        /\ t.network = s.network /\ t.next = s.next /\ t.from = s.from /\ t.stable = s.stable
        /\ t.minOutbound = s.minOutbound /\ t.minDelay = s.minDelay /\ t.compared = measured[o]
    BY Zenon, <1>1, <2>2 DEF U!Scans
  <2> HIDE DEF t
  <2>4. ASSUME U!Comparable(s.network) PROVE s.minDelay = 0 \/ s.minDelay > measured[o] + tolerance
    <3>1. measured[o] + tolerance <= MaxUint16 /\ measured[o] + tolerance \in Nat /\ MaxUint16 \in Nat
      BY <1>1, <1>4, <2>2, <2>4, URLTestAssumption DEF U!Comparable
    <3>2. (measured[o] + tolerance) % (MaxUint16 + 1) = measured[o] + tolerance
      BY <3>1
    <3> QED BY Zenon, <1>4, <3>2 DEF U!Better
  <2>5. t.stable /\ U!Comparable(t.network) => U!Scanning(t)
    BY Zenon, <1>3, <2>3, <2>4 DEF U!Scanning
  <2> QED BY Zenon, <1>1, <1>2, <1>3, <1>4, <2>1, <2>3, <2>5, URLScanStep
<1>5. CASE ~(U!Supports(o, s.network) /\ measured[o] # None /\ U!Better(s, measured[o]))
  <2> DEFINE t == [s EXCEPT !.next = o + 1]
  <2>1. scan' = [scan EXCEPT ![p] = t]
    BY Zenon, <1>5 DEF U!Compare
  <2>2. /\ t \in U!Scans
        /\ t.network = s.network /\ t.next = o + 1 /\ t.from = s.from /\ t.stable = s.stable
        /\ t.minOutbound = s.minOutbound /\ t.minDelay = s.minDelay /\ t.compared = None
    BY <1>1, URLTestAssumption DEF U!Scans
  <2> HIDE DEF t
  <2>3. ASSUME U!Comparable(s.network), U!Supports(o, s.network), measured[o] # None,
               U!Scanning(s)
        PROVE  s.minOutbound # None /\ s.minDelay <= measured[o] + tolerance
    <3>1. /\ measured[o] \in Nat /\ measured[o] + tolerance <= MaxUint16
          /\ measured[o] + tolerance \in Nat /\ MaxUint16 \in Nat /\ s.minDelay \in Nat
      BY <1>1, <2>3, URLDelay, URLTestAssumption DEF U!Comparable, U!ScanInv, U!Scans
    <3>2. (measured[o] + tolerance) % (MaxUint16 + 1) = measured[o] + tolerance
      BY <3>1
    <3>3. s.minDelay # 0 /\ ~(s.minDelay > measured[o] + tolerance)
      BY Zenon, <1>5, <2>3, <3>2 DEF U!Better
    <3> QED BY <2>3, <3>1, <3>3 DEF U!Scanning
  <2>4. ASSUME U!Comparable(s.network), U!Scanning(s)
        PROVE  U!Scanning(t)
    <3>1. ASSUME NEW x \in U!Members, x < o + 1, U!Supports(x, s.network), measured[x] # None
          PROVE  s.minOutbound # None /\ s.minDelay <= measured[x] + tolerance
      <4>1. x = o \/ x < o
        BY <1>1, <3>1, URLTestAssumption DEF U!Members
      <4> QED BY Zenon, <2>3, <2>4, <3>1, <4>1 DEF U!Scanning
    <3> QED BY Zenon, <2>2, <2>4, <3>1 DEF U!Scanning
  <2> QED BY Zenon, <1>1, <1>2, <1>3, <2>1, <2>2, <2>4, URLScanStep
<1> QED BY Zenon, <1>4, <1>5

(* The assignment in the loop.                                               *)
LEMMA URLTake ==
  ASSUME U!ScanInv, NEW p \in U!Actors, U!Take(p)
  PROVE  /\ scan' \in [U!Actors -> U!Scans \cup {None}]
         /\ U!OfNetwork'
         /\ U!ScansRight'
<1> DEFINE s == scan[p]
           o == s.next
<1>1. /\ s \in U!Scans /\ s.compared # None /\ s # None /\ tolerance \in Nat
  BY URLTestAssumption DEF U!Take, U!ScanInv, U!TypeOK
<1>2. /\ o \in U!Members /\ o \in Nat /\ o + 1 \in 1 .. Size + 1
      /\ measured[o] # None /\ U!Supports(o, s.network)
  BY <1>1, URLTestAssumption DEF U!ScanInv, U!OfNetwork, U!Scans, U!Members
<1>3. measured[o] \in Nat
  BY Zenon, <1>2, URLDelay DEF U!ScanInv
<1>4. UNCHANGED <<measured, chosen, writing, tolerance>>
  BY Zenon DEF U!Take, U!check, U!options
<1>5. PICK d \in {s.compared, measured[o]} :
        scan' = [scan EXCEPT ![p] = [s EXCEPT !.minDelay = d, !.minOutbound = o,
                                              !.compared = None, !.next = o + 1]]
  BY Zenon DEF U!Take
<1> DEFINE t == [s EXCEPT !.minDelay = d, !.minOutbound = o, !.compared = None, !.next = o + 1]
<1>6. d \in Nat
  BY Zenon, <1>1, <1>3, <1>5 DEF U!Scans
<1>7. /\ t \in U!Scans
      /\ t.network = s.network /\ t.next = o + 1 /\ t.from = s.from /\ t.stable = s.stable
      /\ t.minOutbound = o /\ t.minDelay = d /\ t.compared = None
  BY Zenon, <1>1, <1>2, <1>6 DEF U!Scans
<1>8. scan' = [scan EXCEPT ![p] = t]
  BY Zenon, <1>5
<1> HIDE DEF t
<1>9. /\ s.from # None => U!Supports(s.from, s.network)
      /\ s.stable /\ U!Comparable(s.network) => U!Scanning(s)
  BY Zenon, <1>1 DEF U!ScanInv, U!OfNetwork, U!ScansRight
<1>10. ASSUME U!Comparable(s.network), U!Scanning(s)
       PROVE  U!Scanning(t)
  <2>1. d = measured[o] /\ d # 0 /\ s.minDelay \in Nat
    BY Zenon, <1>1, <1>2, <1>5, <1>10 DEF U!Scanning, U!Comparable, U!Scans
  <2>2. s.minOutbound = None \/ s.minDelay > d + tolerance
    BY Zenon, <1>1, <1>10, <2>1 DEF U!Scanning
  <2>3. ASSUME NEW x \in U!Members, x < o + 1, U!Supports(x, s.network), measured[x] # None
        PROVE  d <= measured[x] + tolerance
    <3>1. x = o \/ x < o
      BY <1>2, <2>3, URLTestAssumption DEF U!Members
    <3>2. measured[x] \in Nat
      BY Zenon, <2>3, URLDelay DEF U!ScanInv
    <3>3. CASE x = o
      BY <1>1, <1>3, <2>1, <3>3
    <3>4. CASE x < o
      <4>1. s.minOutbound # None /\ s.minDelay <= measured[x] + tolerance
        BY Zenon, <1>10, <2>3, <3>4 DEF U!Scanning
      <4> QED BY <1>1, <1>6, <2>1, <2>2, <3>2, <4>1
    <3> QED BY Zenon, <3>1, <3>3, <3>4
  <2>4. ASSUME s.from # None, measured[s.from] # None
        PROVE  s.from = o \/ d + tolerance < measured[s.from]
    <3>1. s.from \in U!Members
      BY Zenon, <1>1, <2>4 DEF U!Scans
    <3>2. measured[s.from] \in Nat
      BY Zenon, <2>4, <3>1, URLDelay DEF U!ScanInv
    <3>3. /\ s.minOutbound # None /\ s.minDelay = measured[s.minOutbound]
          /\ s.from = s.minOutbound \/ s.minDelay + tolerance < measured[s.from]
      BY Zenon, <1>10, <2>4 DEF U!Scanning
    <3> QED BY <1>1, <1>6, <2>1, <2>2, <3>2, <3>3
  <2> QED BY Zenon, <1>2, <1>7, <2>1, <2>3, <2>4, URLTestAssumption DEF U!Scanning
<1> QED BY Zenon, <1>1, <1>2, <1>4, <1>7, <1>8, <1>9, <1>10, URLScanStep

(* A step of Select itself.                                                  *)
LEMMA URLSelecting ==
  ASSUME U!ScanInv, NEW p \in U!Actors, U!Compare(p) \/ U!Take(p)
  PROVE  U!ScanInv'
<1>1. scan' \in [U!Actors -> U!Scans \cup {None}] /\ U!OfNetwork' /\ U!ScansRight'
  BY Zenon, URLCompare, URLTake
<1>2. UNCHANGED <<measured, chosen, writing, checking, pending, updated, testConn, stores,
                  tolerance, interruptAll>>
  BY Zenon DEF U!Compare, U!Take, U!check, U!options
<1>3. U!TypeOK'
  BY Zenon, <1>1, <1>2 DEF U!ScanInv, U!TypeOK
<1> QED BY Zenon, <1>1, <1>3 DEF U!ScanInv

(* A step that stores a history.                                             *)
LEMMA URLStoring ==
  ASSUME U!ScanInv,
         \/ \E o \in U!Members : U!TestDone(o) \/ U!OtherStores(o)
         \/ \E c \in TestConns : U!DialFails(c)
  PROVE  U!ScanInv'
<1>1. \E d \in TestedDelays \cup {U!Failed} : \E o : U!Store(o, d)
  BY Zenon DEF U!TestDone, U!OtherStores, U!DialFails
<1>2. UNCHANGED <<chosen, writing, checking, updated, tolerance, interruptAll>>
  BY Zenon DEF U!TestDone, U!OtherStores, U!DialFails, U!check, U!options
<1>3. /\ measured' \in [U!Members -> TestedDelays \cup {U!Failed, None}]
      /\ scan' \in [U!Actors -> U!Scans \cup {None}]
      /\ U!OfNetwork'
      /\ \A p \in U!Actors : scan'[p] # None => ~scan'[p].stable
  BY Zenon, <1>1, <1>2, URLStore DEF U!ScanInv
<1>4. pending' \subseteq U!Members
  BY Zenon DEF U!TestDone, U!OtherStores, U!DialFails, U!check, U!ScanInv, U!TypeOK
<1>5. testConn' \in [TestConns -> U!Connections \cup {None}]
  BY Zenon DEF U!TestDone, U!OtherStores, U!DialFails, U!ScanInv, U!TypeOK
<1>6. stores' \in 0 .. MaxStores
  BY URLTestAssumption DEF U!TestDone, U!OtherStores, U!DialFails, U!ScanInv, U!TypeOK
<1>7. U!TypeOK'
  BY Zenon, <1>2, <1>3, <1>4, <1>5, <1>6 DEF U!ScanInv, U!TypeOK
<1>8. U!ScansRight'
  BY Zenon, <1>3 DEF U!ScansRight
<1> QED BY Zenon, <1>3, <1>7, <1>8 DEF U!ScanInv

(* A step that leaves histories, selections and Selects alone.               *)
LEMMA URLApart ==
  ASSUME U!ScanInv, UNCHANGED <<measured, chosen, writing, scan, tolerance, interruptAll, stores>>,
         U!TypeOK'
  PROVE  U!ScanInv'
<1>1. U!OfNetwork'
  BY Zenon DEF U!ScanInv, U!OfNetwork
<1>2. ASSUME NEW n PROVE U!Comparable(n)' <=> U!Comparable(n)
  BY Zenon DEF U!Comparable
<1>3. ASSUME NEW s PROVE U!Scanning(s)' <=> U!Scanning(s)
  BY Zenon DEF U!Scanning
<1>4. U!ScansRight'
  BY Zenon, <1>2, <1>3 DEF U!ScanInv, U!ScansRight
<1> QED BY Zenon, <1>1, <1>4 DEF U!ScanInv

(* A Select that begins.                                                     *)
LEMMA URLBeginning ==
  ASSUME U!ScanInv, U!SelectNetwork \/ \E c \in TestConns : U!DialSelect(c)
  PROVE  U!ScanInv'
<1>1. CASE U!SelectNetwork
  <2>1. PICK n \in U!Networks : U!Begin(Checker, n, chosen[n])
    BY Zenon, <1>1 DEF U!SelectNetwork, U!Networks
  <2>2. /\ Checker \in U!Actors /\ chosen[n] \in U!Members \cup {None}
        /\ chosen[n] # None => U!Supports(chosen[n], n)
    BY Zenon DEF U!ScanInv, U!TypeOK, U!OfNetwork, U!Actors
  <2>3. /\ UNCHANGED <<measured, chosen, writing, pending, updated, testConn, stores,
                       tolerance, interruptAll>>
        /\ checking' \in {"tcp", "udp"}
    BY Zenon, <1>1 DEF U!SelectNetwork, U!options
  <2>4. scan' \in [U!Actors -> U!Scans \cup {None}] /\ U!OfNetwork' /\ U!ScansRight'
    BY Zenon, <2>1, <2>2, <2>3, URLBegin
  <2>5. U!TypeOK'
    BY Zenon, <2>3, <2>4 DEF U!ScanInv, U!TypeOK
  <2> QED BY Zenon, <2>4, <2>5 DEF U!ScanInv
<1>2. ASSUME NEW c \in TestConns, U!DialSelect(c) PROVE U!ScanInv'
  <2> DEFINE n == testConn[c].network
  <2>1. /\ n \in U!Networks /\ c \in U!Actors
    BY Zenon, <1>2 DEF U!DialSelect, U!At, U!ScanInv, U!TypeOK, U!Connections, U!Actors
  <2>2. /\ UNCHANGED <<measured, chosen, writing, pending, updated, testConn, stores,
                       tolerance, interruptAll>>
        /\ checking' = checking \/ checking' = "panic"
    BY Zenon, <1>2 DEF U!DialSelect, U!options
  <2>3. PICK o \in U!Seen(n) :
          \/ o # Torn /\ U!Begin(c, n, o)
          \/ o = Torn /\ UNCHANGED scan
    BY Zenon, <1>2 DEF U!DialSelect
  <2>4. CASE o # Torn /\ U!Begin(c, n, o)
    <3>1. o = chosen[n] \/ (writing # None /\ writing.network = n /\ o = writing.to)
      BY Zenon, <2>3, <2>4 DEF U!Seen
    <3>2. o \in U!Members \cup {None} /\ (o # None => U!Supports(o, n))
      BY Zenon, <2>1, <3>1 DEF U!ScanInv, U!TypeOK, U!OfNetwork
    <3> HIDE DEF n
    <3>3. scan' \in [U!Actors -> U!Scans \cup {None}] /\ U!OfNetwork' /\ U!ScansRight'
      BY Zenon, <2>1, <2>2, <2>4, <3>2, URLBegin
    <3>4. U!TypeOK'
      BY Zenon, <2>2, <3>3 DEF U!ScanInv, U!TypeOK
    <3> QED BY Zenon, <3>3, <3>4 DEF U!ScanInv
  <2>5. CASE UNCHANGED scan
    <3>1. U!TypeOK'
      BY Zenon, <2>2, <2>5 DEF U!ScanInv, U!TypeOK
    <3> QED BY Zenon, <2>2, <2>5, <3>1, URLApart
  <2> QED BY Zenon, <2>3, <2>4, <2>5
<1> QED BY Zenon, <1>1, <1>2

(* The decision of performUpdateCheck takes what Select returned.            *)
LEMMA URLDeciding ==
  ASSUME U!ScanInv, U!UpdateBegin \/ U!UpdateEnd
  PROVE  U!ScanInv'
<1>1. ASSUME U!OfNetwork', UNCHANGED <<measured, tolerance>>, U!TypeOK',
             \A p \in U!Actors : scan'[p] \in {None, scan[p]}
      PROVE  U!ScanInv'
  <2>1. ASSUME NEW n PROVE U!Comparable(n)' <=> U!Comparable(n)
    BY Zenon, <1>1 DEF U!Comparable
  <2>2. ASSUME NEW s PROVE U!Scanning(s)' <=> U!Scanning(s)
    BY Zenon, <1>1 DEF U!Scanning
  <2>3. U!ScansRight'
    BY Zenon, <1>1, <2>1, <2>2 DEF U!ScanInv, U!ScansRight
  <2> QED BY Zenon, <1>1, <2>3 DEF U!ScanInv
<1>2. CASE U!UpdateBegin
  <2> DEFINE s == scan[Checker]
  <2>1. /\ s # None /\ s \in U!Scans /\ s.network \in U!Networks
        /\ s.minOutbound # None => U!Supports(s.minOutbound, s.network)
    BY Zenon, <1>2 DEF U!UpdateBegin, U!Selected, U!Actors, U!ScanInv, U!TypeOK, U!OfNetwork, U!Scans
  <2>2. /\ UNCHANGED <<measured, chosen, pending, testConn, stores, tolerance, interruptAll>>
        /\ scan' = [scan EXCEPT ![Checker] = None]
    BY Zenon, <1>2 DEF U!UpdateBegin, U!options
  <2>3. \/ /\ U!Result(s) # None
           /\ writing' = [network |-> s.network, to |-> U!Result(s)]
        \/ UNCHANGED writing
    BY Zenon, <1>2 DEF U!UpdateBegin
  <2>4. writing' \in [network : U!Networks, to : U!Members] \cup {None}
    <3>1. U!Result(s) # None => U!Result(s) \in U!Members
      BY Zenon, <2>1, URLResult
    <3>2. writing \in [network : U!Networks, to : U!Members] \cup {None}
      BY Zenon DEF U!ScanInv, U!TypeOK
    <3> HIDE DEF s
    <3> QED BY <2>1, <2>3, <3>1, <3>2
  <2>5. writing' # None => U!Supports(writing'.to, writing'.network)
    BY <2>1, <2>3, URLResult DEF U!ScanInv, U!OfNetwork
  <2>6. updated' \in BOOLEAN /\ checking' \in {checking, "udp", "interrupt"}
    BY Zenon, <1>2 DEF U!UpdateBegin, U!AfterNetwork, U!ScanInv, U!TypeOK
  <2>7. /\ scan' \in [U!Actors -> U!Scans \cup {None}]
        /\ \A p \in U!Actors : scan'[p] \in {None, scan[p]}
    BY Zenon, <2>2 DEF U!ScanInv, U!TypeOK
  <2>8. U!TypeOK'
    BY Zenon, <2>2, <2>4, <2>6, <2>7 DEF U!ScanInv, U!TypeOK
  <2>9. U!OfNetwork'
    BY Zenon, <2>2, <2>5, <2>7 DEF U!ScanInv, U!OfNetwork
  <2> QED BY Zenon, <1>1, <2>2, <2>7, <2>8, <2>9
<1>3. CASE U!UpdateEnd
  <2>1. /\ UNCHANGED <<measured, pending, updated, scan, testConn, stores, tolerance, interruptAll>>
        /\ writing # None /\ writing' = None /\ checking' \in {"udp", "interrupt"}
        /\ chosen' = [chosen EXCEPT ![writing.network] = writing.to]
    BY Zenon, <1>3 DEF U!UpdateEnd, U!options, U!AfterNetwork
  <2>2. U!TypeOK'
    BY Zenon, <2>1 DEF U!ScanInv, U!TypeOK
  <2>3. U!OfNetwork'
    BY Zenon, <2>1 DEF U!ScanInv, U!TypeOK, U!OfNetwork
  <2> QED BY Zenon, <1>1, <2>1, <2>2, <2>3
<1> QED BY Zenon, <1>2, <1>3

(* A connection that is dialled, registered, closed or interrupted.          *)
LEMMA URLConns ==
  ASSUME U!ScanInv,
         \/ U!UrlTest \/ U!Interrupt
         \/ \E c \in TestConns :
              \/ \E n \in U!Networks, e \in BOOLEAN : U!Dial(c, n, e)
              \/ U!NewConn(c) \/ U!CloseConn(c)
  PROVE  U!ScanInv'
<1>1. UNCHANGED <<measured, chosen, writing, scan, tolerance, interruptAll, stores>>
  BY Zenon DEF U!UrlTest, U!Interrupt, U!Dial, U!NewConn, U!CloseConn, U!check, U!options
<1>2. /\ pending' \subseteq U!Members /\ updated' \in BOOLEAN
      /\ checking' \in {"idle", "test", "tcp", "udp", "interrupt", "panic"}
  BY DEF U!UrlTest, U!Interrupt, U!Dial, U!NewConn, U!CloseConn, U!check, U!ScanInv, U!TypeOK
<1>3. testConn' \in [TestConns -> U!Connections \cup {None}]
  <2>1. CASE U!UrlTest
    BY Zenon, <2>1 DEF U!UrlTest, U!ScanInv, U!TypeOK
  <2>2. CASE U!Interrupt
    BY Zenon, <2>2 DEF U!Interrupt, U!ScanInv, U!TypeOK
  <2>3. ASSUME NEW c \in TestConns, NEW n \in U!Networks, NEW e \in BOOLEAN, U!Dial(c, n, e)
        PROVE  testConn' \in [TestConns -> U!Connections \cup {None}]
    <3>1. \A o \in U!Seen(n) : o # Torn => o \in U!Members \cup {None}
      BY Zenon DEF U!Seen, U!ScanInv, U!TypeOK
    <3>2. PICK o \in U!Seen(n) :
            \/ /\ o # Torn
               /\ testConn' = [testConn EXCEPT ![c] =
                    [at |-> IF o = None THEN "select" ELSE "dialing", network |-> n,
                     external |-> e, via |-> o, late |-> FALSE]]
            \/ UNCHANGED testConn
      BY Zenon, <2>3 DEF U!Dial
    <3>3. o # Torn => [at |-> IF o = None THEN "select" ELSE "dialing", network |-> n,
                       external |-> e, via |-> o, late |-> FALSE] \in U!Connections
      BY Zenon, <3>1 DEF U!Connections
    <3> QED BY Zenon, <3>2, <3>3 DEF U!ScanInv, U!TypeOK
  <2>4. ASSUME NEW c \in TestConns, U!NewConn(c) \/ U!CloseConn(c)
        PROVE  testConn' \in [TestConns -> U!Connections \cup {None}]
    <3>1. testConn[c] \in U!Connections
      BY Zenon, <2>4 DEF U!NewConn, U!CloseConn, U!At, U!ScanInv, U!TypeOK
    <3>2. \A b \in BOOLEAN : [testConn[c] EXCEPT !.at = "open", !.late = b] \in U!Connections
      BY Zenon, <3>1 DEF U!Connections
    <3>3. CASE U!NewConn(c)
      <4>1. testConn' = [testConn EXCEPT ![c] = [testConn[c] EXCEPT
              !.at = "open", !.late = testConn[c].via # chosen[testConn[c].network]]]
        BY Zenon, <3>3 DEF U!NewConn
      <4> DEFINE b == testConn[c].via # chosen[testConn[c].network]
      <4>2. b \in BOOLEAN
        OBVIOUS
      <4> HIDE DEF b
      <4>3. [testConn[c] EXCEPT !.at = "open", !.late = b] \in U!Connections
        BY Zenon, <3>2, <4>2
      <4> QED BY Zenon, <4>1, <4>3 DEF U!ScanInv, U!TypeOK, b
    <3>4. CASE U!CloseConn(c)
      BY Zenon, <3>4 DEF U!CloseConn, U!ScanInv, U!TypeOK
    <3> QED BY Zenon, <2>4, <3>3, <3>4
  <2> QED BY Zenon, <2>1, <2>2, <2>3, <2>4
<1>4. U!TypeOK'
  BY Zenon, <1>1, <1>2, <1>3 DEF U!ScanInv, U!TypeOK
<1> QED BY Zenon, <1>1, <1>4, URLApart

(* A dial that takes what Select returned.                                   *)
LEMMA URLDialling ==
  ASSUME U!ScanInv, NEW c \in TestConns, U!DialSelected(c)
  PROVE  U!ScanInv'
<1>1. /\ UNCHANGED <<measured, chosen, writing, checking, pending, updated, stores,
                     tolerance, interruptAll>>
      /\ scan' = [scan EXCEPT ![c] = None] /\ c \in U!Actors
  BY Zenon DEF U!DialSelected, U!check, U!options, U!Actors
<1>2. scan' \in [U!Actors -> U!Scans \cup {None}] /\ U!OfNetwork' /\ U!ScansRight'
  BY Zenon, <1>1, URLScanStep
<1>3. /\ scan[c] \in U!Scans /\ scan[c] # None
      /\ scan[c].minOutbound # None => U!Supports(scan[c].minOutbound, scan[c].network)
  BY Zenon, <1>1 DEF U!DialSelected, U!Selected, U!ScanInv, U!TypeOK, U!OfNetwork
<1>4. U!Result(scan[c]) \in U!Members \cup {None}
  BY Zenon, <1>3, URLResult
<1>5. testConn' \in [TestConns -> U!Connections \cup {None}]
  <2> DEFINE r == U!Result(scan[c])
  <2>1. testConn[c] \in U!Connections
    BY Zenon DEF U!DialSelected, U!At, U!ScanInv, U!TypeOK
  <2>2. testConn' = [testConn EXCEPT ![c] =
          IF r = None THEN None ELSE [testConn[c] EXCEPT !.at = "dialing", !.via = r]]
    BY Zenon DEF U!DialSelected
  <2>3. r \in U!Members \cup {None}
    BY Zenon, <1>4
  <2> HIDE DEF r
  <2>4. [testConn[c] EXCEPT !.at = "dialing", !.via = r] \in U!Connections
    BY Zenon, <2>1, <2>3 DEF U!Connections
  <2> QED BY Zenon, <2>2, <2>4 DEF U!ScanInv, U!TypeOK
<1>6. U!TypeOK'
  BY Zenon, <1>1, <1>2, <1>5 DEF U!ScanInv, U!TypeOK
<1> QED BY Zenon, <1>2, <1>6 DEF U!ScanInv

(* Every step of the group keeps the invariant.                              *)
LEMMA URLSteps == U!ScanInv /\ [U!Next]_U!vars => U!ScanInv'
<1> SUFFICES ASSUME U!ScanInv, [U!Next]_U!vars PROVE U!ScanInv'
  OBVIOUS
<1>1. CASE U!Next
  BY Zenon, <1>1, URLSelecting, URLStoring, URLBeginning, URLDeciding, URLConns, URLDialling DEF U!Next
<1>2. CASE UNCHANGED U!vars
  <2>1. UNCHANGED <<measured, chosen, writing, checking, pending, updated, scan, testConn, stores,
                    tolerance, interruptAll>>
    BY Zenon, <1>2 DEF U!vars, U!check, U!options
  <2>2. U!TypeOK'
    BY Zenon, <2>1 DEF U!ScanInv, U!TypeOK
  <2> QED BY Zenon, <2>1, <2>2, URLApart
<1> QED BY Zenon, <1>1, <1>2

(* Before the first check there is no history, no selection and no Select.   *)
LEMMA URLInit == U!Init => U!ScanInv
<1> SUFFICES ASSUME U!Init PROVE U!ScanInv
  OBVIOUS
<1>1. U!TypeOK
  <2>1. tolerance \in Tolerance /\ interruptAll \in BOOLEAN /\ stores \in 0 .. MaxStores
    BY URLTestAssumption DEF U!Init
  <2>2. writing = None /\ updated \in BOOLEAN /\ checking = "idle" /\ pending = {}
    BY Zenon DEF U!Init
  <2>3. /\ measured = [o \in U!Members |-> None] /\ chosen = [n \in U!Networks |-> None]
        /\ scan = [p \in U!Actors |-> None] /\ testConn = [c \in TestConns |-> None]
    BY Zenon DEF U!Init
  <2> QED BY Zenon, <2>1, <2>2, <2>3 DEF U!TypeOK
<1>2. U!OfNetwork /\ U!ScansRight
  BY Zenon DEF U!Init, U!OfNetwork, U!ScansRight
<1> QED BY Zenon, <1>1, <1>2 DEF U!ScanInv

(* For every number of outbounds, delays and tolerances: a Select that no    *)
(* store overtakes leaves the selected outbound only for one that beats it   *)
(* by more than the tolerance, and returns one that no other so beats        *)
(* (Select of protocol/group/urltest.go).                                    *)
THEOREM URLSteadyChoice == U!Spec => []SteadyChoice
<1>1. U!ScanInv => SteadyChoice
  <2> SUFFICES ASSUME U!ScanInv, NEW p \in U!Actors, U!Selected(p), scan[p].stable,
                      U!Comparable(scan[p].network), scan[p].minOutbound # None
               PROVE  /\ \A o \in U!Members : U!Supports(o, scan[p].network) /\ measured[o] # None =>
                           measured[scan[p].minOutbound] <= measured[o] + tolerance
                      /\ scan[p].from \notin {scan[p].minOutbound, None}
                           /\ measured[scan[p].from] # None =>
                           measured[scan[p].minOutbound] + tolerance < measured[scan[p].from]
    BY Zenon DEF SteadyChoice, U!SteadyChoice
  <2>1. U!Scanning(scan[p]) /\ scan[p].next = Size + 1
    BY Zenon DEF U!ScanInv, U!ScansRight, U!Selected
  <2>2. \A o \in U!Members : o < Size + 1
    BY URLTestAssumption DEF U!Members
  <2> QED BY Zenon, <2>1, <2>2 DEF U!Scanning
<1> QED BY <1>1, URLInit, URLSteps, PTL DEF U!Spec
-----------------------------------------------------------------------------
(* A step that selects nothing and registers no connection.                  *)
LEMMA URLQuiet ==
  ASSUME U!ChoiceInv, UNCHANGED <<chosen, writing, updated, interruptAll>>,
         checking' \in {checking, "panic"},
         \A c \in TestConns : testConn'[c] \in {None, testConn[c]},
         writing # None => scan'[Checker] = scan[Checker]
  PROVE  U!ChoiceInv'
<1>1. \A c \in TestConns, s \in {"dialing", "open"} :
        U!At(c, s)' => U!At(c, s) /\ testConn'[c] = testConn[c]
  BY Zenon DEF U!At
<1>2. \A c \in TestConns : U!LeftBehind(c)' => U!LeftBehind(c)
  BY Zenon, <1>1 DEF U!LeftBehind
<1> QED BY Zenon, <1>1, <1>2 DEF U!ChoiceInv

(* A step of one dial: what it registers is late unless it was dialled       *)
(* through the selected outbound.                                            *)
LEMMA URLDial ==
  ASSUME U!ScanInv, U!ChoiceInv, NEW c \in TestConns,
         \/ \E n \in U!Networks, e \in BOOLEAN : U!Dial(c, n, e)
         \/ U!DialSelected(c) \/ U!NewConn(c)
  PROVE  U!ChoiceInv'
<1>1. /\ UNCHANGED <<chosen, writing, updated, interruptAll>>
      /\ checking' \in {checking, "panic"}
      /\ \A d \in TestConns \ {c} : testConn'[d] = testConn[d]
  BY Zenon DEF U!Dial, U!DialSelected, U!NewConn, U!check, U!options, U!ScanInv, U!TypeOK
<1>2. writing # None => scan'[Checker] = scan[Checker]
  BY Zenon, URLTestAssumption
  DEF U!Dial, U!DialSelected, U!NewConn, U!ScanInv, U!TypeOK, U!Actors
<1>3. U!At(c, "dialing")' \/ U!At(c, "open")' => testConn'[c].via # None
  <2>1. CASE \E n \in U!Networks, e \in BOOLEAN : U!Dial(c, n, e)
    BY <2>1 DEF U!Dial, U!At, U!ScanInv, U!TypeOK
  <2>2. CASE U!DialSelected(c)
    <3>1. testConn[c] \in U!Connections
      BY Zenon, <2>2 DEF U!DialSelected, U!At, U!ScanInv, U!TypeOK
    <3> QED BY Zenon, <2>2, <3>1 DEF U!DialSelected, U!At, U!ScanInv, U!TypeOK, U!Connections
  <2>3. CASE U!NewConn(c)
    <3>1. testConn[c] \in U!Connections /\ testConn[c].via # None
      BY Zenon, <2>3 DEF U!NewConn, U!At, U!ScanInv, U!TypeOK, U!ChoiceInv
    <3> QED BY Zenon, <2>3, <3>1 DEF U!NewConn, U!ScanInv, U!TypeOK, U!Connections
  <2> QED BY Zenon, <2>1, <2>2, <2>3
<1>4. ~U!LeftBehind(c)'
  <2>1. CASE \E n \in U!Networks, e \in BOOLEAN : U!Dial(c, n, e)
    BY <2>1 DEF U!Dial, U!At, U!LeftBehind, U!ScanInv, U!TypeOK
  <2>2. CASE U!DialSelected(c)
    <3>1. testConn[c] \in U!Connections
      BY Zenon, <2>2 DEF U!DialSelected, U!At, U!ScanInv, U!TypeOK
    <3> QED
      BY Zenon, <2>2, <3>1 DEF U!DialSelected, U!At, U!LeftBehind, U!ScanInv, U!TypeOK, U!Connections
  <2>3. CASE U!NewConn(c)
    <3> DEFINE b == testConn[c].via # chosen[testConn[c].network]
    <3>1. testConn[c] \in U!Connections
      BY Zenon, <2>3 DEF U!NewConn, U!At, U!ScanInv, U!TypeOK
    <3>2. testConn'[c] = [testConn[c] EXCEPT !.at = "open", !.late = b]
      BY Zenon, <2>3 DEF U!NewConn, U!ScanInv, U!TypeOK
    <3> HIDE DEF b
    <3>3. /\ testConn'[c].late = b /\ testConn'[c].via = testConn[c].via
          /\ testConn'[c].network = testConn[c].network
      BY Zenon, <3>1, <3>2 DEF U!Connections
    <3>4. ~b => testConn'[c].via = chosen'[testConn'[c].network]
      BY Zenon, <1>1, <3>3 DEF b
    <3> QED BY Zenon, <3>3, <3>4 DEF U!LeftBehind
  <2> QED BY Zenon, <2>1, <2>2, <2>3
<1>5. \A d \in TestConns \ {c} : U!LeftBehind(d)' => U!LeftBehind(d)
  BY Zenon, <1>1 DEF U!LeftBehind, U!At
<1>6. \A d \in TestConns : U!At(d, "dialing")' \/ U!At(d, "open")' => testConn'[d].via # None
  BY Zenon, <1>1, <1>3 DEF U!At, U!ChoiceInv
<1> QED BY Zenon, <1>1, <1>2, <1>4, <1>5, <1>6 DEF U!ChoiceInv

(* Every step of the group keeps the invariant.                              *)
LEMMA URLChoice == U!ScanInv /\ U!ChoiceInv /\ [U!Next]_U!vars => U!ChoiceInv'
<1> SUFFICES ASSUME U!ScanInv, U!ChoiceInv, [U!Next]_U!vars PROVE U!ChoiceInv'
  OBVIOUS
<1>1. ASSUME NEW p \in U!Actors, U!Compare(p) \/ U!Take(p) PROVE U!ChoiceInv'
  <2>1. UNCHANGED <<chosen, writing, checking, updated, testConn, interruptAll>>
    BY Zenon, <1>1 DEF U!Compare, U!Take, U!check, U!options
  <2>2. writing # None => scan'[Checker] = scan[Checker]
    BY Zenon, <1>1 DEF U!Compare, U!Take, U!ChoiceInv, U!ScanInv, U!TypeOK, U!Actors
  <2> QED BY Zenon, <2>1, <2>2, URLQuiet
<1>2. ASSUME \/ \E o \in U!Members : U!TestDone(o) \/ U!OtherStores(o)
             \/ \E c \in TestConns : U!DialFails(c)
      PROVE  U!ChoiceInv'
  <2>1. /\ UNCHANGED <<chosen, writing, checking, updated, interruptAll>>
        /\ \A c \in TestConns : testConn'[c] \in {None, testConn[c]}
    BY Zenon, <1>2 DEF U!TestDone, U!OtherStores, U!DialFails, U!check, U!options, U!ScanInv, U!TypeOK
  <2>2. writing # None => scan'[Checker] = scan[Checker]
    BY Zenon, <1>2 DEF U!TestDone, U!OtherStores, U!DialFails, U!Store, U!ChoiceInv, U!Actors
  <2> QED BY Zenon, <2>1, <2>2, URLQuiet
<1>3. ASSUME NEW c \in TestConns, U!DialSelect(c) \/ U!CloseConn(c) PROVE U!ChoiceInv'
  <2>1. /\ UNCHANGED <<chosen, writing, updated, interruptAll>>
        /\ checking' \in {checking, "panic"}
        /\ \A d \in TestConns : testConn'[d] \in {None, testConn[d]}
    BY Zenon, <1>3 DEF U!DialSelect, U!CloseConn, U!check, U!options, U!ScanInv, U!TypeOK
  <2>2. scan'[Checker] = scan[Checker]
    BY Zenon, <1>3, URLTestAssumption
    DEF U!DialSelect, U!CloseConn, U!Begin, U!ScanInv, U!TypeOK, U!Actors
  <2> QED BY Zenon, <2>1, <2>2, URLQuiet
<1>4. CASE U!SelectNetwork
  <2>1. /\ writing = None /\ UNCHANGED <<chosen, writing, updated, testConn, interruptAll>>
        /\ checking' \in {"tcp", "udp"}
    BY Zenon, <1>4 DEF U!SelectNetwork, U!options
  <2>2. \A c \in TestConns : U!LeftBehind(c)' => U!LeftBehind(c)
    BY Zenon, <2>1 DEF U!LeftBehind, U!At
  <2> QED BY Zenon, <2>1, <2>2 DEF U!ChoiceInv, U!At
<1>5. CASE U!UpdateBegin
  <2> DEFINE n == scan[Checker].network
  <2>1. /\ writing = None /\ checking \in {"tcp", "udp"}
        /\ UNCHANGED <<chosen, testConn, interruptAll>> /\ scan'[Checker] = None
    BY Zenon, <1>5 DEF U!UpdateBegin, U!Selected, U!options, U!ChoiceInv, U!ScanInv, U!TypeOK, U!Actors
  <2>2. \/ /\ writing'.network = n /\ UNCHANGED checking
           /\ updated' = (updated \/ chosen[n] # None)
        \/ UNCHANGED <<updated, writing>> /\ checking' \in {"udp", "interrupt"}
    BY <1>5 DEF U!UpdateBegin, U!AfterNetwork
  <2>3. \A c \in TestConns : U!LeftBehind(c)' => U!LeftBehind(c)
    BY Zenon, <2>1 DEF U!LeftBehind, U!At
  <2> HIDE DEF n
  <2> QED BY Zenon, <2>1, <2>2, <2>3 DEF U!ChoiceInv, U!At
<1>6. CASE U!UpdateEnd
  <2>1. /\ writing # None /\ writing' = None /\ checking' \in {"udp", "interrupt"}
        /\ UNCHANGED <<updated, testConn, interruptAll>>
        /\ chosen' = [chosen EXCEPT ![writing.network] = writing.to]
    BY Zenon, <1>6 DEF U!UpdateEnd, U!AfterNetwork, U!options
  <2>2. ASSUME NEW c \in TestConns, U!LeftBehind(c)' PROVE updated
    <3>1. /\ U!At(c, "open") /\ testConn[c].via # None
          /\ testConn[c] \in U!Connections /\ testConn[c].network \in U!Networks
      BY Zenon, <2>1, <2>2 DEF U!LeftBehind, U!At, U!ChoiceInv, U!ScanInv, U!TypeOK, U!Connections
    <3>2. CASE testConn[c].via # chosen[testConn[c].network]
      BY Zenon, <2>1, <2>2, <3>1, <3>2 DEF U!LeftBehind, U!ChoiceInv
    <3>3. CASE testConn[c].via = chosen[testConn[c].network]
      <4>1. testConn[c].network = writing.network
        BY Zenon, <2>1, <2>2, <3>1, <3>3 DEF U!LeftBehind, U!ScanInv, U!TypeOK
      <4> QED BY Zenon, <2>1, <3>1, <3>3, <4>1 DEF U!ChoiceInv
    <3> QED BY Zenon, <3>2, <3>3
  <2> QED BY Zenon, <2>1, <2>2 DEF U!ChoiceInv, U!At
<1>7. CASE U!Interrupt
  <2>1. /\ checking = "interrupt" /\ UNCHANGED <<chosen, writing, updated, interruptAll>>
        /\ \A c \in TestConns :
             testConn'[c] = IF /\ updated /\ U!At(c, "open")
                               /\ testConn[c].external => interruptAll
                            THEN None ELSE testConn[c]
    BY Zenon, <1>7 DEF U!Interrupt, U!options
  <2>2. \A c \in TestConns : ~U!LeftBehind(c)'
    BY Zenon, <2>1 DEF U!LeftBehind, U!At, U!ChoiceInv
  <2>3. \A c \in TestConns : testConn'[c] \in {None, testConn[c]}
    BY Zenon, <2>1
  <2> QED BY Zenon, <2>1, <2>2, <2>3 DEF U!ChoiceInv, U!At
<1>8. CASE U!UrlTest
  <2>1. checking = "idle" /\ UNCHANGED <<chosen, writing, testConn, interruptAll>>
    BY Zenon, <1>8 DEF U!UrlTest, U!options
  <2>2. \A c \in TestConns : ~U!LeftBehind(c)'
    BY Zenon, <2>1 DEF U!LeftBehind, U!At, U!ChoiceInv
  <2> QED BY Zenon, <2>1, <2>2 DEF U!ChoiceInv, U!At
<1>9. CASE UNCHANGED U!vars
  BY Zenon, <1>9, URLQuiet DEF U!vars, U!check, U!options
<1> QED
  BY Zenon, <1>1, <1>2, <1>3, <1>4, <1>5, <1>6, <1>7, <1>8, <1>9, URLDial DEF U!Next

(* After a check no connection is left behind on an outbound that it         *)
(* replaced, but for late and spared ones, for any number of outbounds and   *)
(* connections (performUpdateCheck and Interrupt).                           *)
THEOREM URLFollowsChoice == U!Spec => []FollowsChoice
<1>1. U!Init => U!ChoiceInv
  BY Zenon DEF U!Init, U!ChoiceInv, U!LeftBehind, U!At
<1>2. U!ChoiceInv => FollowsChoice
  BY Zenon DEF U!ChoiceInv, FollowsChoice, U!FollowsChoice, U!LeftBehind
<1> QED BY <1>1, <1>2, URLInit, URLSteps, URLChoice, PTL DEF U!Spec
=============================================================================
