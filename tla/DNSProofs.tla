------------------------------ MODULE DNSProofs ------------------------------
(***************************************************************************)
(* Proofs about the parts of dns/: a Close that drained a transport leaves *)
(* no query behind (module BaseTransport), DNS over TLS gives a query its  *)
(* own answer and loses no connection (TLSTransport), and the client asks  *)
(* one question once (DNSClient).                                          *)
(***************************************************************************)
EXTENDS TLSTransport, Naming, FiniteSetTheorems, TLAPS
-----------------------------------------------------------------------------
(* The transports.                                                           *)

(* A new transport has no query and no closer.                             *)
LEMMA BaseInvInit == Init => BaseInv
<1> SUFFICES ASSUME Init PROVE BaseInv
  OBVIOUS
<1>1. IsFiniteSet({}) /\ Cardinality({}) = 0
  BY Zenon, FS_EmptySet
<1> QED  BY Zenon, <1>1 DEF Init, BaseInv, ShutdownStages, TypeOK, States, SPCs

(* Every critical section of t.mutex preserves the invariant.              *)
LEMMA BaseInvStep == BaseInv /\ [Next]_vars => BaseInv'
<1> SUFFICES ASSUME BaseInv, [Next]_vars PROVE BaseInv'
  OBVIOUS
<1> USE DEF BaseInv, ShutdownStages, TypeOK
<1>0. Cardinality(running) = 0 <=> running = {}
  BY Zenon, FS_EmptySet
<1>1. ASSUME SetStarted PROVE BaseInv'
  BY Zenon, <1>1 DEF SetStarted, States
<1>2. ASSUME NEW q \in Queries, BeginQuery(q) PROVE BaseInv'
  <2>1. IsFiniteSet(running') /\ Cardinality(running') = Cardinality(running) + 1
    BY Zenon, <1>2, FS_AddElement DEF BeginQuery
  <2> QED  BY <1>2, <2>1 DEF BeginQuery
<1>3. ASSUME NEW q \in Queries, EndQuery(q) PROVE BaseInv'
  <2>1. /\ running' = running \ {q} /\ running # {}
        /\ UNCHANGED <<state, closeCtxDone, shutdown, expired>>
    BY Zenon, <1>3 DEF EndQuery
  <2>2. IsFiniteSet(running') /\ Cardinality(running') = Cardinality(running) - 1
    BY Zenon, <1>3, FS_RemoveElement DEF EndQuery
  <2>3. inFlight' = Cardinality(running') /\ inFlight' \in Nat
    BY <1>3, <1>0, <2>1, <2>2 DEF EndQuery
  <2>4. inFlight' = 0 <=> running' = {}
    BY Zenon, <2>2, <2>3, FS_EmptySet
  <2>5. CASE inFlight' = 0 /\ queriesComplete
    <3>1. completed' = TRUE /\ queriesComplete' = FALSE
      BY Zenon, <1>3, <2>5 DEF EndQuery
    <3> QED  BY Zenon, <2>1, <2>2, <2>3, <2>4, <2>5, <3>1
  <2>6. CASE ~(inFlight' = 0 /\ queriesComplete)
    <3>1. UNCHANGED <<completed, queriesComplete>>
      BY Zenon, <1>3, <2>6 DEF EndQuery
    <3> QED  BY Zenon, <2>1, <2>2, <2>3, <2>4, <2>6, <3>1
  <2> QED  BY Zenon, <2>5, <2>6
<1>4. ASSUME NEW c \in Closers, Shutdown(c) PROVE BaseInv'
  <2>1. UNCHANGED <<inFlight, completed, closeCtxDone, running, expired>>
    BY Zenon, <1>4 DEF Shutdown
  <2>2. CASE state \in {"closing", "closed"}
    <3>1. shutdown' = [shutdown EXCEPT ![c] = "nothing"]
          /\ UNCHANGED <<state, queriesComplete>>
      BY Zenon, <1>4, <2>2 DEF Shutdown, At
    <3> QED  BY Zenon, <2>1, <2>2, <3>1 DEF SPCs
  <2>3. CASE state = "new" \/ (state = "started" /\ inFlight = 0)
    <3>1. shutdown' = [shutdown EXCEPT ![c] = "cancel"] /\ state' = "closed"
          /\ UNCHANGED queriesComplete
      BY Zenon, <1>4, <2>3 DEF Shutdown, At
    <3>2. running = {}
      BY Zenon, <2>3, <1>0
    <3> QED  BY Zenon, <2>1, <2>3, <3>1, <3>2 DEF SPCs, States
  <2>4. CASE state = "started" /\ inFlight # 0
    <3>1. shutdown' = [shutdown EXCEPT ![c] = "drain"] /\ state' = "closing"
          /\ queriesComplete' = TRUE
      BY Zenon, <1>4, <2>4 DEF Shutdown, At
    <3>2. running # {} /\ ~completed
      BY Zenon, <2>4, <1>0
    <3> QED  BY Zenon, <2>1, <2>4, <3>1, <3>2 DEF SPCs, States
  <2> QED  BY Zenon, <1>4, <2>2, <2>3, <2>4 DEF Shutdown
<1>5. ASSUME NEW c \in Closers, CloseCancel(c) PROVE BaseInv'
  BY Zenon, <1>5 DEF CloseCancel, At, SPCs
<1>6. ASSUME NEW c \in Closers, Drained(c) PROVE BaseInv'
  BY Zenon, <1>6 DEF Drained, At, SPCs, States
<1>7. ASSUME NEW c \in Closers, TimedOut(c) PROVE BaseInv'
  BY Zenon, <1>7 DEF TimedOut, At, SPCs, States
<1>8. ASSUME NEW c \in Closers, CtxExpires(c) PROVE BaseInv'
  BY Zenon, <1>8 DEF CtxExpires
<1>9. ASSUME UNCHANGED vars PROVE BaseInv'
  BY Zenon, <1>9 DEF vars
<1> QED  BY Zenon, <1>1, <1>2, <1>3, <1>4, <1>5, <1>6, <1>7, <1>8, <1>9
         DEF Next, CloserStep

(* A Close that returns nil after its own shutdown leaves no query.        *)
THEOREM BaseCloseDrains == Spec => []CloseDrains
<1>1. BaseInv => CloseDrains
  BY Zenon DEF BaseInv, ShutdownStages, CloseDrains
<1> QED  BY <1>1, BaseInvInit, BaseInvStep, PTL DEF Spec

(* The closer in the select of Shutdown is or will be woken.               *)
THEOREM BaseWaiterBacked == Spec => []WaiterBacked
<1>1. BaseInv => WaiterBacked
  BY Zenon DEF BaseInv, ShutdownStages, WaiterBacked
<1> QED  BY <1>1, BaseInvInit, BaseInvStep, PTL DEF Spec
-----------------------------------------------------------------------------
(* DNS over TLS.                                                             *)

(* Every step of the TLS transport is one of the life cycle it is built on,  *)
(* or leaves that alone.                                                     *)
LEMMA TLSUsesBase == ASSUME [TLSNext]_tlsVars PROVE [Next]_vars
<1>1. CASE Start
  BY Zenon, <1>1 DEF Start, Next
<1>2. ASSUME NEW q \in Queries, QueryStep(q) PROVE [Next]_vars
  <2>1. CASE Exchange(q)
    BY Zenon, <2>1 DEF Exchange, Next
  <2>2. CASE ReturnResponse(q)
    BY Zenon, <2>2 DEF ReturnResponse, Next
  <2>3. CASE PopFront(q) \/ DialTLS(q) \/ WriteMessage(q) \/ ReadMessage(q)
    BY Zenon, <2>3 DEF PopFront, DialTLS, WriteMessage, ReadMessage
  <2>4. CASE ExchangeFails(q) \/ CheckState(q) \/ PushBack(q)
    BY Zenon, <2>4 DEF ExchangeFails, CheckState, PushBack
  <2> QED BY Zenon, <1>2, <2>1, <2>2, <2>3, <2>4 DEF QueryStep
<1>3. CASE Reset
  BY Zenon, <1>3 DEF Reset
<1>4. ASSUME NEW c \in Closers, CloseIdle(c) \/ CloseBase(c) PROVE [Next]_vars
  BY Zenon, <1>4 DEF CloseIdle, CloseBase, Next
<1>5. CASE UNCHANGED tlsVars
  BY Zenon, <1>5 DEF tlsVars
<1> QED
  BY Zenon, <1>1, <1>2, <1>3, <1>4, <1>5 DEF TLSNext

(* Every step keeps the types of the state.                                  *)
LEMMA TLSTypes ==
  ASSUME TLSTypeOK, TypeOK', \A p \in Using : held[p] \in Streams, [TLSNext]_tlsVars
  PROVE  TLSTypeOK'
<1> USE DEF TLSTypeOK, listVars, queryVars, Goto
<1>1. CASE Start
  BY Zenon, <1>1 DEF Start
<1>2. ASSUME NEW q \in Queries, QueryStep(q) PROVE TLSTypeOK'
  <2>1. CASE Exchange(q)
    BY Zenon, <2>1 DEF Exchange
  <2>2. CASE PopFront(q)
    <3>1. ASSUME NEW x \in idle, idle' = idle \ {x}, held' = [held EXCEPT ![q] = x],
                 pooled' = [pooled EXCEPT ![q] = TRUE], Goto(q, "write")
          PROVE  TLSTypeOK'
      BY Zenon, <2>2, <3>1 DEF PopFront
    <3>2. CASE Goto(q, "dial") /\ UNCHANGED <<idle, held, pooled>>
      BY Zenon, <2>2, <3>2 DEF PopFront
    <3> QED BY Zenon, <2>2, <3>1, <3>2 DEF PopFront
  <2>3. CASE DialTLS(q)
    <3>1. ASSUME NEW x \in Streams \ dialed, dialed' = dialed \cup {x}, open' = open \cup {x},
                 held' = [held EXCEPT ![q] = x], pooled' = [pooled EXCEPT ![q] = FALSE],
                 Goto(q, "write")
          PROVE  TLSTypeOK'
      BY Zenon, <2>3, <3>1 DEF DialTLS
    <3>2. CASE Goto(q, "end") /\ UNCHANGED <<dialed, open, held, pooled>>
      BY Zenon, <2>3, <3>2 DEF DialTLS
    <3> QED BY Zenon, <2>3, <3>1, <3>2 DEF DialTLS
  <2>4. CASE WriteMessage(q)
    BY Zenon, <2>4 DEF WriteMessage
  <2>5. CASE ReadMessage(q)
    <3> PICK p \in unanswered[held[q]] :
               /\ unanswered' = [unanswered EXCEPT ![held[q]] = @ \ {p}]
               /\ answer' = [answer EXCEPT ![q] = p]
      BY Zenon, <2>5 DEF ReadMessage
    <3>1. held[q] \in Streams
      BY Zenon, <2>5 DEF ReadMessage, Using
    <3>2. p \in Queries
      BY Zenon, <3>1
    <3> QED BY Zenon, <2>5, <3>1, <3>2 DEF ReadMessage
  <2>6. CASE ExchangeFails(q)
    BY Zenon, <2>6 DEF ExchangeFails
  <2>7. CASE CheckState(q)
    <3>1. held[q] \in Streams
      BY Zenon, <2>7 DEF CheckState, Using
    <3>2. strays' \subseteq Streams
      BY <2>7, <3>1 DEF CheckState
    <3> QED BY <2>7, <3>2 DEF CheckState
  <2>8. CASE PushBack(q)
    <3>1. held[q] \in Streams
      BY Zenon, <2>8 DEF PushBack, Using
    <3> QED BY Zenon, <2>8, <3>1 DEF PushBack
  <2>9. CASE ReturnResponse(q)
    BY Zenon, <2>9 DEF ReturnResponse
  <2> QED BY Zenon, <1>2, <2>1, <2>2, <2>3, <2>4, <2>5, <2>6, <2>7, <2>8, <2>9 DEF QueryStep
<1>3. CASE Reset
  BY Zenon, <1>3 DEF Reset
<1>4. ASSUME NEW c \in Closers, CloseIdle(c) \/ CloseBase(c) PROVE TLSTypeOK'
  BY Zenon, <1>4 DEF CloseIdle, CloseBase
<1>5. CASE UNCHANGED tlsVars
  BY Zenon, <1>5 DEF tlsVars
<1> QED
  BY Zenon, <1>1, <1>2, <1>3, <1>4, <1>5 DEF TLSNext

(* Every step keeps a connection in one place: in the list, in the hands of  *)
(* one exchange, or closed.                                                  *)
LEMMA TLSSteps == ASSUME TLSInv, [TLSNext]_tlsVars PROVE TLSInv'
<1>1. BaseInv'
  BY Zenon, TLSUsesBase, BaseInvStep DEF TLSInv
<1>2. TLSTypeOK'
  <2>1. TypeOK'
    BY Zenon, <1>1 DEF BaseInv
  <2>2. \A p \in Using : held[p] \in Streams
    BY Zenon DEF TLSInv, TLSTypeOK, InHands
  <2> QED BY Zenon, <2>1, <2>2, TLSTypes DEF TLSInv
<1>0. /\ TLSTypeOK /\ OwnAnswer /\ Clean /\ InHands /\ Alone /\ Placed /\ Accounts
  BY Zenon DEF TLSInv
<1>9. /\ Using \subseteq Queries /\ Using' \subseteq Queries
      /\ \A p \in Using : held[p] \in Streams
  BY Zenon DEF Using, TLSInv, TLSTypeOK, InHands
<1> USE <1>0, <1>1, <1>2, <1>9 DEF listVars, queryVars
<1>3. CASE Start
  BY Zenon, <1>3 DEF Start, SetStarted,
      Using, AccessFree, TLSInv, OwnAnswer, Clean, InHands, Alone, Placed, Accounts
<1>4. ASSUME NEW q \in Queries, QueryStep(q) PROVE TLSInv'
  <2>1. CASE Exchange(q)
    <3>1. /\ UNCHANGED <<listVars, held, pooled, answer, emptied, strays, shutdown>>
          /\ \A p \in Queries : p # q => qpc'[p] = qpc[p]
          /\ qpc[q] = "idle" /\ running \subseteq running'
          /\ qpc'[q] = "done" \/ (qpc'[q] = "pop" /\ q \in running')
      BY Zenon, <2>1 DEF Exchange, Goto, TLSTypeOK, BeginQuery, vars
    <3>2. Using' = Using /\ q \notin Using
      BY Zenon, <3>1 DEF Using
    <3>20. OwnAnswer'
      BY Zenon, <3>1, <3>2 DEF OwnAnswer
    <3>21. Clean'
      BY Zenon, <3>1, <3>2 DEF Clean, InHands
    <3>22. InHands'
      BY <3>1, <3>2 DEF Clean, InHands, Alone
    <3>23. Alone'
      BY Zenon, <3>1, <3>2 DEF Alone, InHands, Clean
    <3>24. Placed'
      BY Zenon, <3>1, <3>2 DEF Placed, InHands, Clean
    <3>25. Accounts'
      BY Zenon, <3>1, <3>2 DEF Accounts, InHands
    <3> QED BY Zenon, <3>20, <3>21, <3>22, <3>23, <3>24, <3>25 DEF TLSInv
  <2>2. CASE PopFront(q)
    <3>1. /\ UNCHANGED <<vars, open, dialed, unanswered, answer, emptied, strays>>
          /\ \A p \in Queries : p # q => qpc'[p] = qpc[p] /\ held'[p] = held[p]
          /\ qpc[q] = "pop"
      BY <2>2 DEF PopFront, Goto, TLSTypeOK
    <3>2. ASSUME NEW x \in idle, idle' = idle \ {x}, held'[q] = x, qpc'[q] = "write"
          PROVE  TLSInv'
      <4>1. Using' = Using \cup {q} /\ q \notin Using
        BY Zenon, <3>1, <3>2 DEF Using
      <4>2. unanswered[x] = {} /\ x \in open /\ \A p \in Using : held[p] # x
        BY Zenon, <3>2 DEF InHands, Clean, TLSTypeOK
      <4>20. OwnAnswer'
        BY Zenon, <3>1, <3>2, <4>1, <4>2 DEF OwnAnswer, vars
      <4>21. Clean'
        BY Zenon, <3>1, <3>2, <4>1, <4>2 DEF Clean, InHands, vars
      <4>22. InHands'
        <5>1. ASSUME NEW p \in Using PROVE p # q /\ held'[p] = held[p] /\ qpc'[p] = qpc[p]
          BY Zenon, <3>1, <4>1 DEF Using
        <5>2. ASSUME NEW p \in Using PROVE p # q /\ held'[p] \in open' \ idle'
          BY Zenon, <3>1, <3>2, <4>1, <5>1 DEF InHands
        <5>3. ASSUME NEW p \in Using
              PROVE  /\ unanswered'[held'[p]] = IF qpc'[p] = "read" THEN {p} ELSE {}
                     /\ qpc'[p] = "push" /\ emptied' # {} => held'[p] \in strays'
          BY Zenon, <3>1, <5>1 DEF InHands
        <5>4. held'[q] \in open' \ idle' /\ unanswered'[held'[q]] = {} /\ qpc'[q] = "write"
          BY Zenon, <3>1, <3>2, <4>2 DEF Clean
        <5> QED BY Zenon, <4>1, <5>2, <5>3, <5>4 DEF InHands
      <4>23. Alone'
        BY <3>1, <3>2, <4>1, <4>2 DEF Alone, InHands, Clean, vars
      <4>24. Placed'
        BY <3>1, <3>2, <4>1, <4>2 DEF Placed, InHands, Clean, vars
      <4>25. Accounts'
        BY Zenon, <3>1, <3>2, <4>1, <4>2 DEF Accounts, InHands, vars
      <4> QED BY Zenon, <4>20, <4>21, <4>22, <4>23, <4>24, <4>25 DEF TLSInv
    <3>3. CASE UNCHANGED <<idle, held>> /\ qpc'[q] = "dial"
      <4>1. Using' = Using /\ q \notin Using
        BY Zenon, <3>1, <3>3 DEF Using
      <4>20. OwnAnswer'
        BY Zenon, <3>1, <3>3, <4>1 DEF OwnAnswer, vars
      <4>21. Clean'
        BY Zenon, <3>1, <3>3, <4>1 DEF Clean, InHands, vars
      <4>22. InHands'
        BY <3>1, <3>3, <4>1 DEF Clean, InHands, Alone, vars
      <4>23. Alone'
        BY Zenon, <3>1, <3>3, <4>1 DEF Alone, InHands, Clean, vars
      <4>24. Placed'
        BY Zenon, <3>1, <3>3, <4>1 DEF Placed, InHands, Clean, vars
      <4>25. Accounts'
        BY Zenon, <3>1, <3>3, <4>1 DEF Accounts, InHands, vars
      <4> QED BY Zenon, <4>20, <4>21, <4>22, <4>23, <4>24, <4>25 DEF TLSInv
    <3> QED BY <2>2, <3>2, <3>3 DEF PopFront, Goto, TLSTypeOK
  <2>3. CASE DialTLS(q)
    <3>1. /\ UNCHANGED <<vars, idle, unanswered, answer, emptied, strays>>
          /\ \A p \in Queries : p # q => qpc'[p] = qpc[p] /\ held'[p] = held[p]
          /\ qpc[q] = "dial"
      BY <2>3 DEF DialTLS, Goto, TLSTypeOK
    <3>2. ASSUME NEW x \in Streams \ dialed, dialed' = dialed \cup {x}, open' = open \cup {x},
                 held'[q] = x, qpc'[q] = "write"
          PROVE  TLSInv'
      <4>1. Using' = Using \cup {q} /\ q \notin Using
        BY Zenon, <3>1, <3>2 DEF Using
      <4>2. \A p \in Using : held[p] # x
        BY Zenon, <3>2 DEF InHands, Clean
      <4>3. x \notin idle /\ unanswered[x] = {}
        BY Zenon, <3>2 DEF Clean
      <4>20. OwnAnswer'
        BY Zenon, <3>1, <3>2, <4>1, <4>2, <4>3 DEF OwnAnswer, vars
      <4>21. Clean'
        BY Zenon, <3>1, <3>2, <4>1, <4>2, <4>3 DEF Clean, InHands, vars
      <4>22. InHands'
        <5>1. ASSUME NEW p \in Using PROVE p # q /\ held'[p] = held[p] /\ qpc'[p] = qpc[p]
          BY Zenon, <3>1, <4>1 DEF Using
        <5>2. ASSUME NEW p \in Using PROVE p # q /\ held'[p] \in open' \ idle'
          BY Zenon, <3>1, <3>2, <4>1, <5>1 DEF InHands
        <5>3. ASSUME NEW p \in Using
              PROVE  /\ unanswered'[held'[p]] = IF qpc'[p] = "read" THEN {p} ELSE {}
                     /\ qpc'[p] = "push" /\ emptied' # {} => held'[p] \in strays'
          BY Zenon, <3>1, <5>1 DEF InHands
        <5>4. held'[q] \in open' \ idle' /\ unanswered'[held'[q]] = {} /\ qpc'[q] = "write"
          BY Zenon, <3>1, <3>2, <4>3 DEF Clean
        <5> QED BY Zenon, <4>1, <5>2, <5>3, <5>4 DEF InHands
      <4>23. Alone'
        BY <3>1, <3>2, <4>1, <4>2, <4>3 DEF Alone, InHands, Clean, vars
      <4>24. Placed'
        BY <3>1, <3>2, <4>1, <4>2, <4>3 DEF Placed, InHands, Clean, vars
      <4>25. Accounts'
        BY Zenon, <3>1, <3>2, <4>1, <4>2, <4>3 DEF Accounts, InHands, vars
      <4> QED BY Zenon, <4>20, <4>21, <4>22, <4>23, <4>24, <4>25 DEF TLSInv
    <3>3. CASE UNCHANGED <<open, dialed, held>> /\ qpc'[q] = "end"
      <4>1. Using' = Using /\ q \notin Using
        BY Zenon, <3>1, <3>3 DEF Using
      <4>20. OwnAnswer'
        BY Zenon, <3>1, <3>3, <4>1 DEF OwnAnswer, vars
      <4>21. Clean'
        BY Zenon, <3>1, <3>3, <4>1 DEF Clean, InHands, vars
      <4>22. InHands'
        BY <3>1, <3>3, <4>1 DEF Clean, InHands, Alone, vars
      <4>23. Alone'
        BY Zenon, <3>1, <3>3, <4>1 DEF Alone, InHands, Clean, vars
      <4>24. Placed'
        BY Zenon, <3>1, <3>3, <4>1 DEF Placed, InHands, Clean, vars
      <4>25. Accounts'
        BY Zenon, <3>1, <3>3, <4>1 DEF Accounts, InHands, vars
      <4> QED BY Zenon, <4>20, <4>21, <4>22, <4>23, <4>24, <4>25 DEF TLSInv
    <3> QED BY <2>3, <3>2, <3>3 DEF DialTLS, Goto, TLSTypeOK
  <2>4. CASE WriteMessage(q)
    <3>1. /\ UNCHANGED <<vars, idle, open, dialed, held, answer, emptied, strays>>
          /\ \A p \in Queries : p # q => qpc'[p] = qpc[p]
          /\ qpc[q] = "write" /\ qpc'[q] = "read" /\ q \in Using
      BY Zenon, <2>4 DEF WriteMessage, Goto, TLSTypeOK, Using
    <3>2. Using' = Using
      BY Zenon, <3>1 DEF Using
    <3>3. /\ unanswered'[held[q]] = {q}
          /\ \A x \in Streams : x # held[q] => unanswered'[x] = unanswered[x]
      BY Zenon, <2>4, <3>1 DEF WriteMessage, Goto, TLSTypeOK, InHands
    <3>4. \A p \in Using : p # q => held[p] # held[q]
      BY Zenon, <3>1 DEF InHands, Alone
    <3>20. OwnAnswer'
      BY Zenon, <3>1, <3>2, <3>3, <3>4 DEF OwnAnswer, vars
    <3>21. Clean'
      <4>1. held[q] \in dialed \ idle
        BY Zenon, <3>1 DEF Clean, InHands
      <4>2. ASSUME NEW x \in Streams, x \in idle \/ x \notin dialed PROVE unanswered'[x] = {}
        BY Zenon, <3>3, <4>1, <4>2 DEF Clean
      <4> QED BY Zenon, <3>1, <4>2 DEF Clean
    <3>22. InHands'
      <4>1. ASSUME NEW p \in Using, p # q
            PROVE  held'[p] = held[p] /\ unanswered'[held[p]] = unanswered[held[p]] /\ qpc'[p] = qpc[p]
        BY Zenon, <3>1, <3>2, <3>3, <3>4, <4>1
      <4>2. held[q] \in open' \ idle'
        BY Zenon, <3>1 DEF InHands
      <4>3. ASSUME NEW p \in Using
            PROVE  /\ held'[p] \in open' \ idle'
                   /\ unanswered'[held'[p]] = IF qpc'[p] = "read" THEN {p} ELSE {}
                   /\ qpc'[p] = "push" /\ emptied' # {} => held'[p] \in strays'
        <5>1. CASE p = q
          BY Zenon, <3>1, <3>2, <3>3, <3>4, <4>2, <5>1
        <5>2. CASE p # q
          <6>1. held'[p] = held[p] /\ unanswered'[held[p]] = unanswered[held[p]] /\ qpc'[p] = qpc[p]
            BY Zenon, <4>1, <5>2
          <6> QED BY Zenon, <3>1, <6>1 DEF InHands
        <5> QED BY Zenon, <5>1, <5>2
      <4> QED BY Zenon, <3>2, <4>3 DEF InHands
    <3>23. Alone'
      BY Zenon, <3>1, <3>2 DEF Alone
    <3>24. Placed'
      BY Zenon, <3>1, <3>2, <3>3, <3>4 DEF Placed, InHands, Clean, vars
    <3>25. Accounts'
      BY Zenon, <3>1, <3>2, <3>3, <3>4 DEF Accounts, InHands, vars
    <3> QED BY Zenon, <3>20, <3>21, <3>22, <3>23, <3>24, <3>25 DEF TLSInv
  <2>5. CASE ReadMessage(q)
    <3>1. /\ UNCHANGED <<vars, idle, open, dialed, held, emptied, strays>>
          /\ \A p \in Queries : p # q => qpc'[p] = qpc[p] /\ answer'[p] = answer[p]
          /\ qpc[q] = "read" /\ qpc'[q] = "state" /\ q \in Using
      BY <2>5 DEF ReadMessage, Goto, TLSTypeOK, Using
    <3>2. Using' = Using
      BY Zenon, <3>1 DEF Using
    <3>3. unanswered[held[q]] = {q} /\ held[q] \in Streams
      BY Zenon, <3>1 DEF InHands, TLSTypeOK
    <3>4. /\ unanswered'[held[q]] = {} /\ answer'[q] = q
          /\ \A x \in Streams : x # held[q] => unanswered'[x] = unanswered[x]
      BY <2>5, <3>3 DEF ReadMessage, Goto, TLSTypeOK
    <3>5. \A p \in Using : p # q => held[p] # held[q]
      BY Zenon, <3>1 DEF InHands, Alone
    <3>20. OwnAnswer'
      BY Zenon, <3>1, <3>2, <3>4, <3>5 DEF OwnAnswer, vars
    <3>21. Clean'
      BY Zenon, <3>1, <3>2, <3>4, <3>5 DEF Clean, InHands, vars
    <3>22. InHands'
      <4>1. ASSUME NEW p \in Using, p # q
            PROVE  held'[p] = held[p] /\ unanswered'[held[p]] = unanswered[held[p]] /\ qpc'[p] = qpc[p]
        BY Zenon, <3>1, <3>2, <3>4, <3>5, <4>1
      <4>2. held[q] \in open' \ idle'
        BY Zenon, <3>1 DEF InHands
      <4>3. ASSUME NEW p \in Using
            PROVE  /\ held'[p] \in open' \ idle'
                   /\ unanswered'[held'[p]] = IF qpc'[p] = "read" THEN {p} ELSE {}
                   /\ qpc'[p] = "push" /\ emptied' # {} => held'[p] \in strays'
        <5>1. CASE p = q
          BY Zenon, <3>1, <3>2, <3>4, <3>5, <4>2, <5>1
        <5>2. CASE p # q
          BY <3>1, <4>1, <5>2 DEF InHands
        <5> QED BY Zenon, <5>1, <5>2
      <4> QED BY Zenon, <3>2, <4>3 DEF InHands
    <3>23. Alone'
      BY <3>1, <3>2, <3>4, <3>5 DEF Alone, InHands, Clean, vars
    <3>24. Placed'
      BY Zenon, <3>1, <3>2, <3>4, <3>5 DEF Placed, InHands, Clean, vars
    <3>25. Accounts'
      BY Zenon, <3>1, <3>2, <3>4, <3>5 DEF Accounts, InHands, vars
    <3> QED BY Zenon, <3>20, <3>21, <3>22, <3>23, <3>24, <3>25 DEF TLSInv
  <2>6. CASE ExchangeFails(q)
    <3>1. /\ UNCHANGED <<vars, idle, dialed, unanswered, answer, emptied, strays>>
          /\ \A p \in Queries : p # q => qpc'[p] = qpc[p] /\ held'[p] = held[p]
          /\ q \in Using /\ qpc'[q] \in {"dial", "end"} /\ open' = open \ {held[q]}
      BY Zenon, <2>6 DEF ExchangeFails, Goto, TLSTypeOK, Using
    <3>2. Using' = Using \ {q}
      BY Zenon, <3>1 DEF Using
    <3>3. held[q] \notin idle /\ \A p \in Using : p # q => held[p] # held[q]
      BY Zenon, <3>1 DEF InHands, Alone
    <3>4. q \in running
      BY Zenon, <3>1 DEF Using, Accounts
    <3>20. OwnAnswer'
      BY Zenon, <3>1, <3>2, <3>3, <3>4 DEF OwnAnswer, vars
    <3>21. Clean'
      BY Zenon, <3>1, <3>2, <3>3, <3>4 DEF Clean, InHands, vars
    <3>22. InHands'
      BY <3>1, <3>2, <3>3, <3>4 DEF Clean, InHands, Alone, vars
    <3>23. Alone'
      BY <3>1, <3>2, <3>3, <3>4 DEF Alone, InHands, Clean, vars
    <3>24. Placed'
      BY <3>1, <3>2, <3>3, <3>4 DEF Placed, InHands, Clean, vars
    <3>25. Accounts'
      BY Zenon, <3>1, <3>2, <3>3, <3>4 DEF Accounts, InHands, vars
    <3> QED BY Zenon, <3>20, <3>21, <3>22, <3>23, <3>24, <3>25 DEF TLSInv
  <2>7. CASE CheckState(q)
    <3>1. /\ UNCHANGED <<vars, idle, dialed, unanswered, answer, emptied>>
          /\ \A p \in Queries : p # q => qpc'[p] = qpc[p] /\ held'[p] = held[p]
          /\ qpc[q] = "state" /\ q \in Using /\ q \in running
      BY <2>7 DEF CheckState, Goto, TLSTypeOK, Using, Accounts
    <3>2. CASE open' = open \ {held[q]} /\ qpc'[q] = "end" /\ UNCHANGED strays
      <4>1. Using' = Using \ {q}
        BY Zenon, <3>1, <3>2 DEF Using
      <4>2. held[q] \notin idle /\ \A p \in Using : p # q => held[p] # held[q]
        BY Zenon, <3>1 DEF InHands, Alone
      <4>20. OwnAnswer'
        BY Zenon, <3>1, <3>2, <4>1, <4>2 DEF OwnAnswer, vars
      <4>21. Clean'
        BY Zenon, <3>1, <3>2, <4>1, <4>2 DEF Clean, InHands, vars
      <4>22. InHands'
        BY <3>1, <3>2, <4>1, <4>2 DEF Clean, InHands, Alone, vars
      <4>23. Alone'
        BY <3>1, <3>2, <4>1, <4>2 DEF Alone, InHands, Clean, vars
      <4>24. Placed'
        BY <3>1, <3>2, <4>1, <4>2 DEF Placed, InHands, Clean, vars
      <4>25. Accounts'
        BY Zenon, <3>1, <3>2, <4>1, <4>2 DEF Accounts, InHands, vars
      <4> QED BY Zenon, <4>20, <4>21, <4>22, <4>23, <4>24, <4>25 DEF TLSInv
    <3>3. CASE /\ UNCHANGED <<open, held>> /\ qpc'[q] = "push"
               /\ strays \subseteq strays'
               /\ emptied # {} => held[q] \in strays'
      <4>1. Using' = Using
        BY Zenon, <3>1, <3>3 DEF Using
      <4>20. OwnAnswer'
        BY Zenon, <3>1, <3>3, <4>1 DEF OwnAnswer, vars
      <4>21. Clean'
        BY Zenon, <3>1, <3>3, <4>1 DEF Clean, InHands, vars
      <4>22. InHands'
        BY <3>1, <3>3, <4>1 DEF Clean, InHands, Alone, vars
      <4>23. Alone'
        BY <3>1, <3>3, <4>1 DEF Alone, InHands, Clean, vars
      <4>24. Placed'
        BY Zenon, <3>1, <3>3, <4>1 DEF Placed, InHands, Clean, vars
      <4>25. Accounts'
        BY Zenon, <3>1, <3>3, <4>1 DEF Accounts, InHands, vars
      <4> QED BY Zenon, <4>20, <4>21, <4>22, <4>23, <4>24, <4>25 DEF TLSInv
    <3> QED BY Zenon, <2>7, <3>2, <3>3 DEF CheckState, Goto, TLSTypeOK
  <2>8. CASE PushBack(q)
    <3>1. /\ UNCHANGED <<vars, open, dialed, unanswered, answer, emptied, strays>>
          /\ \A p \in Queries : p # q => qpc'[p] = qpc[p] /\ held'[p] = held[p]
          /\ qpc[q] = "push" /\ q \in Using /\ qpc'[q] = "end" /\ idle' = idle \cup {held[q]}
      BY Zenon, <2>8 DEF PushBack, Goto, TLSTypeOK, Using
    <3>2. Using' = Using \ {q}
      BY Zenon, <3>1 DEF Using
    <3>3. /\ held[q] \in open /\ unanswered[held[q]] = {} /\ q \in running
          /\ \A p \in Using : p # q => held[p] # held[q]
          /\ emptied # {} => held[q] \in strays
      BY Zenon, <3>1 DEF InHands, Alone, Accounts
    <3>20. OwnAnswer'
      BY Zenon, <3>1, <3>2, <3>3 DEF OwnAnswer, vars
    <3>21. Clean'
      BY Zenon, <3>1, <3>2, <3>3 DEF Clean, InHands, vars
    <3>22. InHands'
      BY <3>1, <3>2, <3>3 DEF Clean, InHands, Alone, vars
    <3>23. Alone'
      BY <3>1, <3>2, <3>3 DEF Alone, InHands, Clean, vars
    <3>24. Placed'
      BY <3>1, <3>2, <3>3 DEF Placed, InHands, Clean, vars
    <3>25. Accounts'
      BY Zenon, <3>1, <3>2, <3>3 DEF Accounts, InHands, vars
    <3> QED BY Zenon, <3>20, <3>21, <3>22, <3>23, <3>24, <3>25 DEF TLSInv
  <2>9. CASE ReturnResponse(q)
    <3>1. /\ UNCHANGED <<listVars, held, pooled, answer, emptied, strays, shutdown>>
          /\ \A p \in Queries : p # q => qpc'[p] = qpc[p]
          /\ qpc[q] = "end" /\ qpc'[q] = "done" /\ running' = running \ {q}
      BY Zenon, <2>9 DEF ReturnResponse, Goto, TLSTypeOK, EndQuery
    <3>2. Using' = Using /\ q \notin Using
      BY Zenon, <3>1 DEF Using
    <3>20. OwnAnswer'
      BY Zenon, <3>1, <3>2 DEF OwnAnswer
    <3>21. Clean'
      BY Zenon, <3>1, <3>2 DEF Clean, InHands
    <3>22. InHands'
      BY <3>1, <3>2 DEF Clean, InHands, Alone
    <3>23. Alone'
      BY Zenon, <3>1, <3>2 DEF Alone, InHands, Clean
    <3>24. Placed'
      BY Zenon, <3>1, <3>2 DEF Placed, InHands, Clean
    <3>25. Accounts'
      BY Zenon, <3>1, <3>2 DEF Accounts, InHands
    <3> QED BY Zenon, <3>20, <3>21, <3>22, <3>23, <3>24, <3>25 DEF TLSInv
  <2> QED BY Zenon, <1>4, <2>1, <2>2, <2>3, <2>4, <2>5, <2>6, <2>7, <2>8, <2>9 DEF QueryStep
<1>5. CASE Reset
  BY Zenon, <1>5 DEF Reset, vars,
      Using, AccessFree, TLSInv, OwnAnswer, Clean, InHands, Alone, Placed, Accounts
<1>6. ASSUME NEW c \in Closers, CloseIdle(c) PROVE TLSInv'
  BY Zenon, <1>6 DEF CloseIdle, vars,
      Using, AccessFree, TLSInv, OwnAnswer, Clean, InHands, Alone, Placed, Accounts
<1>7. ASSUME NEW c \in Closers, CloseBase(c) PROVE TLSInv'
  <2>1. /\ UNCHANGED running /\ c \in emptied
        /\ \A d \in Closers : d # c => shutdown'[d] = shutdown[d]
    BY Zenon, <1>7, <1>1 DEF CloseBase, CloserStep, Shutdown, CloseCancel, Drained, TimedOut, CtxExpires,
                      At, BaseInv, ShutdownStages, TypeOK
  <2> QED BY Zenon, <1>7, <2>1 DEF CloseBase,
      Using, AccessFree, TLSInv, OwnAnswer, Clean, InHands, Alone, Placed, Accounts
<1>8. CASE UNCHANGED tlsVars
  BY Zenon, <1>8 DEF tlsVars, vars,
      Using, AccessFree, TLSInv, OwnAnswer, Clean, InHands, Alone, Placed, Accounts
<1> QED
  BY Zenon, <1>3, <1>4, <1>5, <1>6, <1>7, <1>8 DEF TLSNext

(* For any number of exchanges, closers and connections: an exchange returns *)
(* the answer to its own question (TLSTransport.exchange).                   *)
THEOREM TLSOwnAnswer == TLSSpec => []OwnAnswer
<1>1. TLSInit => TLSInv
  BY BaseInvInit
     DEF TLSInit, TLSInv, TLSTypeOK, BaseInv, ShutdownStages, OwnAnswer, Using, Clean, InHands, Alone, Placed,
         Accounts, Init
<1>2. TLSInv => OwnAnswer
  BY Zenon DEF TLSInv
<1>3. TLSInv /\ [TLSNext]_tlsVars => TLSInv'
  BY Zenon, TLSSteps
<1> QED
  BY <1>1, <1>2, <1>3, PTL DEF TLSSpec

(* For any number of exchanges, closers and connections: a Close that has    *)
(* drained the transport leaves no connection open but for those given back  *)
(* in the middle of it (TLSTransport.Close, TLSTransport.exchange).          *)
THEOREM TLSNoConnLeft == TLSSpec => []NoConnLeft
<1>1. TLSInit => TLSInv
  BY BaseInvInit
     DEF TLSInit, TLSInv, TLSTypeOK, BaseInv, ShutdownStages, OwnAnswer, Using, Clean, InHands, Alone, Placed,
         Accounts, Init
<1>2. TLSInv => NoConnLeft
  <2> SUFFICES ASSUME TLSInv, NEW c \in Closers, shutdown[c] = "drained"
               PROVE  open \subseteq strays
    BY Zenon DEF NoConnLeft
  <2>1. running = {} /\ emptied # {}
    BY Zenon DEF TLSInv, BaseInv, ShutdownStages, Accounts
  <2>2. Using = {}
    BY Zenon, <2>1 DEF TLSInv, Accounts, Using
  <2> QED BY Zenon, <2>1, <2>2 DEF TLSInv, Placed, Accounts
<1>3. TLSInv /\ [TLSNext]_tlsVars => TLSInv'
  BY Zenon, TLSSteps
<1> QED
  BY <1>1, <1>2, <1>3, PTL DEF TLSSpec
-----------------------------------------------------------------------------
(* The DNS client.                                                           *)

(* Every step of the client keeps the types of its state.                    *)
LEMMA ClientTypes ==
  ASSUME D!TypeOK, [D!Next]_(D!vars) PROVE D!TypeOK'
<1> USE DEF D!TypeOK, D!rejections
<1>1. ASSUME NEW p \in Askers, D!Exchange(p) PROVE D!TypeOK'
  BY Zenon, <1>1 DEF D!Exchange, D!Goto
<1>2. ASSUME NEW p \in Askers, D!WaitTimeout(p) PROVE D!TypeOK'
  BY Zenon, <1>2 DEF D!WaitTimeout, D!Goto
<1>3. ASSUME NEW p \in Askers, D!loadResponse(p) PROVE D!TypeOK'
  BY Zenon, <1>3 DEF D!loadResponse, D!Goto
<1>4. ASSUME NEW p \in Askers, D!LoadRDRCMark(p) PROVE D!TypeOK'
  BY Zenon, <1>4 DEF D!LoadRDRCMark, D!Goto
<1>5. ASSUME NEW p \in Askers, D!LoadRDRCView(p) PROVE D!TypeOK'
  BY Zenon, <1>5 DEF D!LoadRDRCView, D!Goto
<1>6. ASSUME NEW p \in Askers, D!LoadRDRCDelete(p) PROVE D!TypeOK'
  BY Zenon, <1>6 DEF D!LoadRDRCDelete, D!Goto
<1>7. ASSUME NEW p \in Askers, D!Accepted(p) PROVE D!TypeOK'
  BY Zenon, <1>7 DEF D!Accepted, D!Goto
<1>8. ASSUME NEW p \in Askers, D!Rejected(p) PROVE D!TypeOK'
  BY <1>8 DEF D!Rejected, D!Goto
<1>9. ASSUME NEW p \in Askers, D!Uncached(p) PROVE D!TypeOK'
  BY Zenon, <1>9 DEF D!Uncached, D!Goto
<1>10. ASSUME NEW p \in Askers, D!Return(p) PROVE D!TypeOK'
  BY Zenon, <1>10 DEF D!Return, D!Goto
<1>11. ASSUME NEW p \in Askers, D!CloseCond(p) PROVE D!TypeOK'
  BY Zenon, <1>11 DEF D!CloseCond
<1>12. CASE D!SaveRDRC
  <2>1. unsaved' \in Nat /\ unmarking' \in Nat
    BY <1>12 DEF D!SaveRDRC
  <2>2. saveRDRC' \in BOOLEAN /\ lost' \in BOOLEAN /\ rdrc' \in {"none", "fresh", "expired"}
    BY Zenon, <1>12 DEF D!SaveRDRC
  <2>3. UNCHANGED <<step, waitsFor, cacheLock, owns, cached>>
    BY Zenon, <1>12 DEF D!SaveRDRC
  <2> QED BY Zenon, <2>1, <2>2, <2>3
<1>13. CASE D!Unmark
  <2>1. unsaved' \in Nat /\ unmarking' \in Nat
    BY <1>13 DEF D!Unmark
  <2>2. saveRDRC' \in BOOLEAN /\ lost' \in BOOLEAN /\ rdrc' \in {"none", "fresh", "expired"}
    BY Zenon, <1>13 DEF D!Unmark
  <2>3. UNCHANGED <<step, waitsFor, cacheLock, owns, cached>>
    BY Zenon, <1>13 DEF D!Unmark
  <2> QED BY Zenon, <2>1, <2>2, <2>3
<1>14. CASE D!Expire
  BY Zenon, <1>14 DEF D!Expire
<1>15. CASE UNCHANGED D!vars
  BY Zenon, <1>15 DEF D!vars
<1> QED
  BY Zenon, <1>1, <1>2, <1>3, <1>4, <1>5, <1>6, <1>7, <1>8, <1>9, <1>10, <1>11, <1>12, <1>13, <1>14, <1>15
  DEF D!Next

(* Every step keeps the outcome of a query known to those who come after it, *)
(* as long as it is not lost.                                                *)
LEMMA ClientSteps ==
  ASSUME D!ClientInv, [D!Next]_(D!vars), Nobody \notin Askers
  PROVE  D!ClientInv'
<1> D!TypeOK'
  BY Zenon, ClientTypes DEF D!ClientInv
<1> USE DEF D!ClientInv, D!TypeOK, D!rejections, D!Asking, D!Known, D!Rejection
<1>1. ASSUME NEW p \in Askers, D!Exchange(p) PROVE D!ClientInv'
  BY <1>1 DEF D!Exchange, D!Goto
<1>2. ASSUME NEW p \in Askers, D!WaitTimeout(p) PROVE D!ClientInv'
  BY <1>2 DEF D!WaitTimeout, D!Goto
<1>3. ASSUME NEW p \in Askers, D!loadResponse(p) PROVE D!ClientInv'
  BY <1>3 DEF D!loadResponse, D!Goto
<1>4. ASSUME NEW p \in Askers, D!LoadRDRCMark(p) PROVE D!ClientInv'
  BY <1>4 DEF D!LoadRDRCMark, D!Goto
<1>5. ASSUME NEW p \in Askers, D!LoadRDRCView(p) PROVE D!ClientInv'
  BY <1>5 DEF D!LoadRDRCView, D!Goto
<1>6. ASSUME NEW p \in Askers, D!LoadRDRCDelete(p) PROVE D!ClientInv'
  BY <1>6 DEF D!LoadRDRCDelete, D!Goto
<1>7. ASSUME NEW p \in Askers, D!Accepted(p) PROVE D!ClientInv'
  BY <1>7 DEF D!Accepted, D!Goto
<1>8. ASSUME NEW p \in Askers, D!Rejected(p) PROVE D!ClientInv'
  BY <1>8 DEF D!Rejected, D!Goto
<1>9. ASSUME NEW p \in Askers, D!Uncached(p) PROVE D!ClientInv'
  BY <1>9 DEF D!Uncached, D!Goto
<1>10. ASSUME NEW p \in Askers, D!Return(p) PROVE D!ClientInv'
  BY <1>10 DEF D!Return, D!Goto
<1>11. ASSUME NEW p \in Askers, D!CloseCond(p) PROVE D!ClientInv'
  BY <1>11 DEF D!CloseCond
<1>12. CASE D!SaveRDRC
  BY <1>12 DEF D!SaveRDRC
<1>13. CASE D!Unmark
  BY Zenon, <1>13 DEF D!Unmark
<1>14. CASE D!Expire
  BY Zenon, <1>14 DEF D!Expire
<1>15. CASE UNCHANGED D!vars
  BY Zenon, <1>15 DEF D!vars
<1> QED
  BY Zenon, <1>1, <1>2, <1>3, <1>4, <1>5, <1>6, <1>7, <1>8, <1>9, <1>10, <1>11, <1>12, <1>13, <1>14, <1>15
  DEF D!Next

(* For any number of callers: at most one query of the same question is on   *)
(* its way, and no other follows it while its outcome is not lost            *)
(* (Exchange's cacheLock, storeCache, SaveRDRCAsync).                        *)
THEOREM ClientCoalesced ==
  ASSUME Nobody \notin Askers
  PROVE  D!Spec => []Coalesced
<1>1. D!Init => D!ClientInv
  <2> SUFFICES ASSUME D!Init PROVE D!ClientInv
    OBVIOUS
  <2>1. D!TypeOK
    BY Zenon DEF D!Init, D!TypeOK
  <2> QED BY <2>1 DEF D!Init, D!ClientInv, D!Asking
<1>2. D!ClientInv /\ [D!Next]_(D!vars) => D!ClientInv'
  BY Zenon, ClientSteps
<1>3. D!ClientInv => Coalesced
  BY Zenon DEF Coalesced, D!ClientInv, D!TypeOK, D!Coalesced, D!Asking
<1> QED
  BY <1>1, <1>2, <1>3, PTL DEF D!Spec
=============================================================================
