------------------------- MODULE GroupNotifierProofs -------------------------
(***************************************************************************)
(* The broadcaster keeps its map and its channels in step, the notifier    *)
(* uses it properly, and no change is lost between them.  First, and apart *)
(* from that: the choices of the balancer group (module Balancer).         *)
(***************************************************************************)
EXTENDS GroupNotifier, Routing, FiniteSetTheorems, WellFoundedInduction, TLAPS
-----------------------------------------------------------------------------
(* The balancer.                                                             *)

(* Every step keeps the types of the histories: the monitor's, those being   *)
(* read and those in use.                                                    *)
LEMMA BalancerTypes ==
  ASSUME B!WorkerTypes, [B!Next]_(B!vars) PROVE B!WorkerTypes'
<1>t. B!WorkerTypes
  OBVIOUS
<1> USE DEF B!WorkerTypes, B!monitor
<1>1. ASSUME NEW o \in B!Outbounds, NEW d \in Delays \cup {B!TimeoutDelay}, B!ApplyResult(o, d)
      PROVE  B!WorkerTypes'
  BY Zenon, <1>t, <1>1 DEF B!ApplyResult, B!Histories
<1>2. CASE B!UpdateOutboundsInfo
  BY Zenon, <1>t, <1>2 DEF B!UpdateOutboundsInfo, B!Apply
<1>3. ASSUME NEW o \in B!Outbounds, B!ReadHistory(o) PROVE B!WorkerTypes'
  BY Zenon, <1>t, <1>3 DEF B!ReadHistory
<1>4. CASE UNCHANGED <<known, info, used>>
  BY Zenon, <1>t, <1>4
<1> HIDE DEF B!WorkerTypes
<1> QED
  BY Zenon, <1>1, <1>2, <1>3, <1>4
  DEF B!Next, B!Broadcast, B!Subscribe, B!Receive, B!Interrupt, B!WorkerDone, B!Dial,
      B!NewConn, B!CloseConn, B!Expire, B!SelectOther, B!vars

(* Every step keeps the connections of a lowest-delay balancer on the        *)
(* outbound of its last update, until the worker is to interrupt them.       *)
LEMMA BalancerSteps ==
  ASSUME B!LowestInv, [B!Next]_(B!vars), Unset \notin [B!Outbounds -> B!Histories]
  PROVE  B!LowestInv'
<1>t. B!WorkerTypes /\ B!ConnTypes /\ B!LowestConns
  BY Zenon DEF B!LowestInv
<1>u. B!WorkerTypes'
  BY Zenon, <1>t, BalancerTypes
<1> SUFFICES B!ConnTypes' /\ B!LowestConns'
  BY Zenon, <1>u DEF B!LowestInv
<1> USE DEF B!ConnTypes, B!LowestConns, B!Spared, B!conns, B!options
<1>1. CASE B!UpdateOutboundsInfo
  <2>1. /\ balWorker = "read" /\ used' = info /\ UNCHANGED <<B!options, balVia, balConn, balLate>>
        /\ B!Changed => balWorker' = "interrupt"
    BY Zenon, <1>1 DEF B!UpdateOutboundsInfo, B!Apply
  <2>2. CASE strategy # "lowest-delay" \/ balWorker' = "interrupt"
    BY Zenon, <1>t, <2>1, <2>2
  <2>3. CASE strategy = "lowest-delay" /\ balWorker' # "interrupt"
    <3>1. B!getMinDelay(info) = B!selectedOutbound
      BY Zenon, <2>1, <2>3 DEF B!Changed
    <3>2. info \in [B!Outbounds -> B!Histories]
      BY Zenon, <1>t, <1>1 DEF B!UpdateOutboundsInfo, B!Apply, B!WorkerTypes
    <3>3. B!selectedOutbound' = B!selectedOutbound
      BY Zenon, <2>1, <3>1, <3>2 DEF B!selectedOutbound
    <3> QED BY Zenon, <1>t, <2>1, <2>3, <3>3
  <2> QED BY Zenon, <2>2, <2>3
<1>2. ASSUME UNCHANGED used PROVE B!selectedOutbound' = B!selectedOutbound
  BY Zenon, <1>2 DEF B!selectedOutbound
<1>3. CASE B!Interrupt
  BY Zenon, <1>t, <1>2, <1>3 DEF B!Interrupt
<1>4. ASSUME NEW c \in BalConns, NEW o \in B!Outbounds, B!Dial(c, o)
      PROVE  B!ConnTypes' /\ B!LowestConns'
  BY Zenon, <1>t, <1>2, <1>4 DEF B!Dial
<1>5. ASSUME NEW c \in BalConns, B!NewConn(c) PROVE B!ConnTypes' /\ B!LowestConns'
  BY Zenon, <1>t, <1>2, <1>5 DEF B!NewConn
<1>6. ASSUME NEW c \in BalConns, B!CloseConn(c) PROVE B!ConnTypes' /\ B!LowestConns'
  BY Zenon, <1>t, <1>2, <1>6 DEF B!CloseConn
<1>7. CASE UNCHANGED <<B!options, used, B!conns>> /\ (balWorker = "interrupt" => balWorker' = balWorker)
  BY Zenon, <1>t, <1>2, <1>7
<1> HIDE DEF B!ConnTypes, B!LowestConns, B!Spared, B!conns, B!options
<1> QED
  BY Zenon, <1>1, <1>3, <1>4, <1>5, <1>6, <1>7
  DEF B!Next, B!ApplyResult, B!Broadcast, B!Subscribe, B!Receive, B!WorkerDone, B!ReadHistory,
      B!Expire, B!SelectOther, B!vars

(* What loadHistory restores, or nothing, is a history.                      *)
LEMMA BalancerInit == B!Init => B!WorkerTypes
<1>1. B!Untested \in B!Histories
  BY Zenon DEF B!Untested, B!Histories
<1>2. [delay : Cached, from_cache : {TRUE}] \subseteq B!Histories
  <2> SUFFICES ASSUME NEW h \in [delay : Cached, from_cache : {TRUE}] PROVE h \in B!Histories
    OBVIOUS
  <2>1. h.delay \in {0, B!TimeoutDelay} \cup Delays \cup Cached /\ h.from_cache \in BOOLEAN
    OBVIOUS
  <2> QED BY Zenon, <2>1 DEF B!Histories
<1> QED
  BY Zenon, <1>1, <1>2 DEF B!Init, B!WorkerTypes

(* For any number of outbounds, connections and results: with lowest-delay   *)
(* no connection is left on an outbound that is no longer the best when the  *)
(* worker is idle, but for late ones and for external ones that the option   *)
(* spares (worker, LowestDelay, DialContext, Group.Interrupt).               *)
THEOREM BalancerFollowsLowest ==
  ASSUME Unset \notin [B!Outbounds -> B!Histories]
  PROVE  B!Spec => []FollowsLowest
<1>1. B!Init => B!LowestInv
  BY Zenon, BalancerInit DEF B!Init, B!LowestInv, B!ConnTypes, B!LowestConns
<1>2. B!LowestInv /\ [B!Next]_(B!vars) => B!LowestInv'
  BY Zenon, BalancerSteps
<1>3. B!LowestInv => FollowsLowest
  BY Zenon DEF FollowsLowest, B!LowestInv, B!LowestConns, B!FollowsLowest
<1> QED
  BY <1>1, <1>2, <1>3, PTL DEF B!Spec

(* Cardinality is the same in the balancer's module.                         *)
LEMMA BalancerCardinality == ASSUME NEW T PROVE B!Cardinality(T) = Cardinality(T)
  BY Zenon DEF B!Cardinality, Cardinality

(* sortOutboundsByDelay puts every outbound in one place: how many come      *)
(* before it is a number of its own, by the delay and then by the place in   *)
(* the configuration.                                                        *)
LEMMA BalancerSorted ==
  ASSUME NEW u \in [B!Outbounds -> B!Histories]
  PROVE  /\ B!Sorted(u) \in [0 .. N - 1 -> B!Outbounds]
         /\ \A i, j \in 0 .. N - 1 : B!Sorted(u)[i] = B!Sorted(u)[j] => i = j
<1> DEFINE delay == [o \in B!Outbounds |-> B!getTagDelay(o, u)]
           Before(o) == {p \in B!Outbounds :
                           delay[p] < delay[o] \/ (delay[p] = delay[o] /\ p < o)}
           place == [o \in B!Outbounds |-> B!Cardinality(Before(o))]
           places == {place[o] : o \in B!Outbounds}
<1>1. delay \in [B!Outbounds -> Nat]
  <2> SUFFICES ASSUME NEW o \in B!Outbounds PROVE B!getTagDelay(o, u) \in Nat
    OBVIOUS
  <2>1. B!TimeoutDelay \in Nat
    BY SMT DEF B!TimeoutDelay
  <2>2. u[o].delay \in {0, B!TimeoutDelay} \cup Delays \cup Cached
    BY Zenon DEF B!Histories
  <2>3. 0 \in Nat /\ Delays \subseteq Nat /\ Cached \subseteq Nat
    BY Zenon, RoutingAssumption
  <2>4. u[o].delay \in Nat
    BY <2>1, <2>2, <2>3, Zenon
  <2> QED BY <2>1, <2>4, SMT DEF B!getTagDelay, B!getModifiedDelay
<1>2. IsFiniteSet(B!Outbounds) /\ Cardinality(B!Outbounds) = N /\ B!Outbounds \subseteq Nat
  BY RoutingAssumption, FS_Interval DEF B!Outbounds
<1> HIDE DEF delay
<1>3. \A o \in B!Outbounds : IsFiniteSet(Before(o)) /\ place[o] \in 0 .. N - 1
  <2> SUFFICES ASSUME NEW o \in B!Outbounds
               PROVE  IsFiniteSet(Before(o)) /\ Cardinality(Before(o)) \in 0 .. N - 1
    BY Zenon, BalancerCardinality
  <2>1. Before(o) \subseteq B!Outbounds \ {o}
    BY <1>1, <1>2
  <2>2. IsFiniteSet(B!Outbounds \ {o}) /\ Cardinality(B!Outbounds \ {o}) = N - 1
    BY Zenon, <1>2, FS_RemoveElement
  <2> HIDE DEF Before
  <2>3. IsFiniteSet(Before(o)) /\ Cardinality(Before(o)) <= N - 1
    BY <2>1, <2>2, FS_Subset
  <2> QED BY <2>3, FS_CardinalityType, RoutingAssumption
<1>4. ASSUME NEW o \in B!Outbounds, NEW p \in B!Outbounds, o \in Before(p)
      PROVE  place[o] < place[p]
  <2>1. ASSUME NEW q \in Before(o) PROVE q \in Before(p) /\ q # o
    <3>1. delay[o] \in Nat /\ delay[p] \in Nat /\ delay[q] \in Nat
      BY Zenon, <1>1
    <3> QED BY <1>2, <1>4, <3>1
  <2> HIDE DEF Before
  <2>2. IsFiniteSet(Before(p) \ {o}) /\ Cardinality(Before(p) \ {o}) = Cardinality(Before(p)) - 1
    BY <1>3, <1>4, FS_RemoveElement, Zenon
  <2>3. Cardinality(Before(o)) <= Cardinality(Before(p)) - 1
    BY <2>1, <2>2, FS_Subset
  <2>4. place[o] = Cardinality(Before(o)) /\ place[p] = Cardinality(Before(p))
    BY Zenon, BalancerCardinality
  <2> HIDE DEF place
  <2> QED BY <1>3, <2>3, <2>4
<1>5. \A o, p \in B!Outbounds : place[o] = place[p] => o = p
  <2> SUFFICES ASSUME NEW o \in B!Outbounds, NEW p \in B!Outbounds, o # p
               PROVE  place[o] # place[p]
    OBVIOUS
  <2>1. o \in Before(p) \/ p \in Before(o)
    BY <1>1, <1>2
  <2> HIDE DEF Before, place
  <2>2. place[o] \in Int /\ place[p] \in Int
    BY <1>3
  <2> QED BY <1>4, <2>1, <2>2
<1> HIDE DEF Before, place
<1>6. places = 0 .. N - 1
  <2>1. place \in [B!Outbounds -> places]
    BY Zenon DEF place
  <2>2. place \in Bijection(B!Outbounds, places)
    <3>1. place \in Surjection(B!Outbounds, places)
      BY Zenon, <2>1 DEF Surjection
    <3> HIDE DEF places
    <3>2. place \in Injection(B!Outbounds, places)
      BY Zenon, <1>5, <2>1 DEF Injection, IsInjective
    <3> QED BY Zenon, <3>1, <3>2 DEF Bijection
  <2>3. ExistsBijection(B!Outbounds, places)
    BY Zenon, <2>2 DEF ExistsBijection
  <2>4. Cardinality(places) = N
    BY Zenon, <1>2, <2>3, FS_Bijection
  <2>5. IsFiniteSet(0 .. N - 1) /\ Cardinality(0 .. N - 1) = N
    BY RoutingAssumption, FS_Interval
  <2>6. places \subseteq 0 .. N - 1
    BY Zenon, <1>3
  <2> HIDE DEF places
  <2> QED BY <2>4, <2>5, <2>6, FS_Subset, Zenon
<1>7. B!Sorted(u) =
        [i \in 0 .. N - 1 |-> CHOOSE o \in B!Outbounds : B!Cardinality(Before(o)) = i]
  BY Zenon DEF B!Sorted, delay, Before
<1>8. \A i \in 0 .. N - 1 : B!Sorted(u)[i] \in B!Outbounds /\ place[B!Sorted(u)[i]] = i
  <2> TAKE i \in 0 .. N - 1
  <2>1. \E o \in B!Outbounds : B!Cardinality(Before(o)) = i
    BY Zenon, <1>6 DEF place
  <2>2. B!Sorted(u)[i] = CHOOSE o \in B!Outbounds : B!Cardinality(Before(o)) = i
    BY Zenon, <1>7
  <2> QED BY Zenon, <2>1, <2>2 DEF place
<1> QED BY <1>7, <1>8, Zenon

(* A place whose delay is acceptable is the last one.                        *)
LEMMA BalancerLast ==
  ASSUME NEW u PROVE B!getAcceptableIndex(u) \in 0 .. N - 1
<1> DEFINE max == B!Acceptable(B!getTagDelay(B!Sorted(u)[0], u))
           ok == {i \in 0 .. N - 1 : B!getTagDelay(B!Sorted(u)[i], u) <= max}
           back == {N - 1 - i : i \in ok}
<1>1. B!getAcceptableIndex(u) = IF ok = {} THEN 0 ELSE CHOOSE i \in ok : \A j \in ok : j <= i
  BY Zenon DEF B!getAcceptableIndex
<1>2. ok \subseteq 0 .. N - 1
  OBVIOUS
<1> HIDE DEF ok
<1>3. ASSUME ok # {} PROVE \E i \in ok : \A j \in ok : j <= i
  <2>1. back \subseteq Nat /\ back # {}
    <3>1. ASSUME NEW i \in ok PROVE N - 1 - i \in Nat
      BY <1>2, RoutingAssumption
    <3> QED BY Zenon, <1>3, <3>1
  <2>2. PICK b \in back : \A c \in back : ~(<<c, b>> \in OpToRel(<, Nat))
    BY <2>1, NatLessThanWellFounded, WFMin, Zenon
  <2>3. PICK i \in ok : b = N - 1 - i
    OBVIOUS
  <2>4. ASSUME NEW j \in ok PROVE j <= i
    <3>1. N - 1 - j \in back /\ N - 1 - j \in Nat /\ b \in Nat
      BY Zenon, <2>1
    <3>2. ~(N - 1 - j < b)
      BY <2>2, <3>1, Zenon DEF OpToRel
    <3> QED BY <1>2, <2>3, <3>2, RoutingAssumption
  <2> QED BY Zenon, <2>4
<1>4. ok # {} => (CHOOSE i \in ok : \A j \in ok : j <= i) \in ok
  BY Zenon, <1>3
<1>5. 0 \in 0 .. N - 1
  BY RoutingAssumption
<1> QED BY <1>1, <1>2, <1>4, <1>5, Zenon

(* The order and the last place in use, before and after an update.          *)
LEMMA BalancerPlaces ==
  ASSUME NEW u, u = Unset \/ u \in [B!Outbounds -> B!Histories],
         NEW s, s = IF u = Unset THEN [i \in 0 .. N - 1 |-> i + 1] ELSE B!Sorted(u),
         NEW m, m = IF u = Unset THEN N - 1 ELSE B!getAcceptableIndex(u)
  PROVE  /\ s \in [0 .. N - 1 -> B!Outbounds] /\ m \in 0 .. N - 1
         /\ \A i, j \in 0 .. N - 1 : s[i] = s[j] => i = j
<1>1. CASE u = Unset
  BY <1>1, RoutingAssumption DEF B!Outbounds
<1>2. CASE u # Unset
  BY Zenon, <1>2, BalancerSorted, BalancerLast
<1> QED BY Zenon, <1>1, <1>2

(* The turn after place x of 0 .. m.                                         *)
LEMMA NextTurn ==
  ASSUME NEW m \in Nat PROVE /\ \A a \in Nat : a % (m + 1) \in 0 .. m
                             /\ \A x \in 0 .. m : (x + 1) % (m + 1) = IF x = m THEN 0 ELSE x + 1
<1>1. \A a \in Nat : a % (m + 1) \in 0 .. m
  BY SMT
<1>2. ASSUME NEW x \in 0 .. m PROVE (x + 1) % (m + 1) = IF x = m THEN 0 ELSE x + 1
  BY SMT
<1> QED BY Zenon, <1>1, <1>2

(* A choice of RoundRobin.Select moves the turn on by one place: the place   *)
(* chosen was next, and is now the last to come.                             *)
MovesOn(m, last, id) ==
  /\ id \in 0 .. m /\ B!Ahead(id, m, last) = 0 /\ B!Ahead(id, m, id) = m
  /\ \A i \in 0 .. m : /\ B!Ahead(i, m, last) \in 0 .. m
                       /\ i # id => /\ B!Ahead(i, m, last) # 0
                                    /\ B!Ahead(i, m, id) = B!Ahead(i, m, last) - 1
  /\ \E i \in 0 .. m : B!Ahead(i, m, id) = 0

LEMMA BalancerAhead ==
  ASSUME NEW m \in Nat, NEW last \in Nat PROVE MovesOn(m, last, (last + 1) % (m + 1))
<1> DEFINE id == (last + 1) % (m + 1)
<1>1. id \in 0 .. m
  BY NextTurn
<1>2. (id + 1) % (m + 1) = IF id = m THEN 0 ELSE id + 1
  BY <1>1, NextTurn, Zenon
<1> DEFINE following == (id + 1) % (m + 1)
<1>3. \A i \in 0 .. m :
        /\ B!Ahead(i, m, last) = IF i >= id THEN i - id ELSE i + m + 1 - id
        /\ B!Ahead(i, m, id) = IF i >= following THEN i - following ELSE i + m + 1 - following
  BY Zenon DEF B!Ahead
<1>4. following = IF id = m THEN 0 ELSE id + 1
  BY Zenon, <1>2
<1> HIDE DEF following, id
<1>5. B!Ahead(following, m, id) = 0 /\ following \in 0 .. m
  BY <1>1, <1>3, <1>4
<1>6. MovesOn(m, last, id)
  BY <1>1, <1>3, <1>4, <1>5 DEF MovesOn
<1> QED BY Zenon, <1>6 DEF id

(* The counts of the places 0 .. m once place id is chosen, where a and b    *)
(* are the turns ahead of each place before and after.                       *)
LEMMA BalancerMove ==
  ASSUME NEW m \in Nat, NEW id \in 0 .. m, NEW a(_), NEW b(_), NEW u(_), NEW t(_), NEW k \in 1 .. m + 1,
         a(id) = 0, b(id) = m, t(id) = 1,
         \A i \in 0 .. m : a(i) \in 0 .. m,
         \A i \in 0 .. m : u(i) = IF a(i) < k THEN 0 ELSE 1,
         \A i \in 0 .. m : i # id => a(i) # 0 /\ b(i) = a(i) - 1 /\ t(i) = u(i)
  PROVE  \A i \in 0 .. m : b(i) \in 0 .. m /\ t(i) = IF b(i) < k - 1 THEN 0 ELSE 1
<1> TAKE i \in 0 .. m
<1>1. CASE i = id
  BY <1>1
<1>2. CASE i # id
  BY <1>2
<1> QED BY Zenon, <1>1, <1>2

(* The least of counts that are 0 or 1.                                      *)
LEMMA BalancerLeast ==
  ASSUME NEW Q, NEW t, NEW p \in Q, NEW bit \in {0, 1}, t[p] = bit,
         \A q \in Q : t[q] = bit \/ t[q] = 1
  PROVE  (CHOOSE n \in {t[q] : q \in Q} : \A q \in Q : n <= t[q]) = bit
<1>1. bit \in {t[q] : q \in Q} /\ \A q \in Q : bit <= t[q]
  OBVIOUS
<1>2. \A n \in {t[q] : q \in Q} : (\A q \in Q : n <= t[q]) => n = bit
  OBVIOUS
<1> QED BY Zenon, <1>1, <1>2

(* The places 0 .. m of the list s are outbounds of Out, each once; v counts *)
(* equal turns of them; and what v becomes when place id is chosen.          *)
Places(Out, s, m) ==
  /\ \A i \in 0 .. m : s[i] \in Out
  /\ \A i, j \in 0 .. m : s[i] = s[j] => i = j

Equal(Out, s, m, id, v) ==
  /\ v \in [Out -> Nat]
  /\ \E k \in 1 .. m + 1 : \A i \in 0 .. m : v[s[i]] = IF B!Ahead(i, m, id) < k THEN 0 ELSE 1

Chosen(Out, s, m, id, v) ==
  LET t == [v EXCEPT ![s[id]] = @ + 1]
      rotation == {s[i] : i \in 0 .. m}
      least == CHOOSE n \in {t[p] : p \in rotation} : \A p \in rotation : n <= t[p]
  IN  [p \in Out |-> IF p \in rotation THEN t[p] - least ELSE t[p]]

(* One more choice of RoundRobin.Select: one place fewer has its turn to     *)
(* come, or all have had it and are counted from 0 again.                    *)
LEMMA BalancerTurn ==
  ASSUME NEW Out, NEW s, NEW m \in Nat, NEW last \in Nat, NEW u,
         Places(Out, s, m), Equal(Out, s, m, last, u)
  PROVE  Equal(Out, s, m, (last + 1) % (m + 1), Chosen(Out, s, m, (last + 1) % (m + 1), u))
<1> DEFINE id == (last + 1) % (m + 1)
           a(i) == B!Ahead(i, m, last)
           b(i) == B!Ahead(i, m, id)
           t == [u EXCEPT ![s[id]] = @ + 1]
           rotation == {s[i] : i \in 0 .. m}
           least == CHOOSE n \in {t[p] : p \in rotation} : \A p \in rotation : n <= t[p]
           v == [p \in Out |-> IF p \in rotation THEN t[p] - least ELSE t[p]]
<1>v. v = Chosen(Out, s, m, id, u)
  BY Zenon DEF Chosen
<1>p. /\ \A i \in 0 .. m : s[i] \in Out
      /\ \A i, j \in 0 .. m : s[i] = s[j] => i = j
  BY Zenon DEF Places
<1>e. u \in [Out -> Nat]
  BY Zenon DEF Equal
<1>k. PICK k \in 1 .. m + 1 : \A i \in 0 .. m : u[s[i]] = IF a(i) < k THEN 0 ELSE 1
  BY Zenon DEF Equal
<1> SUFFICES /\ v \in [Out -> Nat]
             /\ \E l \in 1 .. m + 1 : \A i \in 0 .. m : v[s[i]] = IF b(i) < l THEN 0 ELSE 1
  BY <1>v, Zenon DEF Equal
<1>2. /\ id \in 0 .. m /\ a(id) = 0 /\ b(id) = m
      /\ \A i \in 0 .. m : a(i) \in 0 .. m /\ (i # id => a(i) # 0 /\ b(i) = a(i) - 1)
      /\ \E i \in 0 .. m : b(i) = 0
  BY BalancerAhead, Zenon DEF MovesOn
<1> HIDE DEF id, a, b
<1>3. t \in [Out -> Nat] /\ \A i \in 0 .. m : t[s[i]] = IF i = id THEN 1 ELSE u[s[i]]
  <2>1. s[id] \in Out /\ u[s[id]] = 0
    BY <1>2, <1>k, <1>p
  <2>2. \A i \in 0 .. m : s[i] \in Out /\ (s[i] = s[id] => i = id)
    BY Zenon, <1>2, <1>p
  <2> QED BY <1>e, <2>1, <2>2
<1> HIDE DEF t
<1>4. \A i \in 0 .. m : b(i) \in 0 .. m /\ t[s[i]] = IF b(i) < k - 1 THEN 0 ELSE 1
  <2> DEFINE old(i) == u[s[i]]
             new(i) == t[s[i]]
  <2>1. /\ new(id) = 1
        /\ \A i \in 0 .. m : old(i) = IF a(i) < k THEN 0 ELSE 1
        /\ \A i \in 0 .. m : i # id => new(i) = old(i)
    BY Zenon, <1>2, <1>3, <1>k
  <2> HIDE DEF old, new
  <2>2. \A i \in 0 .. m : b(i) \in 0 .. m /\ new(i) = IF b(i) < k - 1 THEN 0 ELSE 1
    BY <1>2, <1>k, <2>1, BalancerMove
  <2> QED BY Zenon, <2>2 DEF new
<1>5. \A i \in 0 .. m : s[i] \in rotation /\ s[i] \in Out
  BY Zenon, <1>p
<1>6. \A p \in rotation : t[p] = 0 \/ t[p] = 1
  BY Zenon, <1>4
<1>7. CASE k = 1
  <2>1. \A i \in 0 .. m : t[s[i]] = 1
    BY <1>4, <1>7
  <2>2. s[id] \in rotation /\ t[s[id]] = 1 /\ \A p \in rotation : t[p] = 1
    BY <1>2, <2>1
  <2> HIDE DEF rotation
  <2>3. least = 1
    BY <2>2, BalancerLeast
  <2> HIDE DEF least
  <2>4. v \in [Out -> Nat] /\ \A i \in 0 .. m : v[s[i]] = 0
    BY <1>3, <1>5, <2>2, <2>3
  <2> HIDE DEF v
  <2>5. \A i \in 0 .. m : v[s[i]] = IF b(i) < m + 1 THEN 0 ELSE 1
    BY <1>4, <2>4
  <2> QED BY <2>4, <2>5
<1>8. CASE k # 1
  <2>1. PICK j \in 0 .. m : b(j) = 0
    BY Zenon, <1>2
  <2>2. s[j] \in rotation /\ t[s[j]] = 0
    BY <1>4, <1>8, <2>1
  <2> HIDE DEF rotation
  <2>3. least = 0
    BY Zenon, <1>6, <2>2, BalancerLeast
  <2> HIDE DEF least
  <2>4. v = t
    BY <1>3, <2>3
  <2> HIDE DEF v
  <2> QED BY <1>3, <1>4, <1>8, <1>k, <2>4
<1> QED BY <1>7, <1>8, Zenon

(* Every step keeps the turns: an update counts them all from 0, a choice    *)
(* gives the next one.                                                       *)
LEMMA BalancerTurns ==
  ASSUME B!TurnsInv, [B!Next]_(B!vars), Unset \notin [B!Outbounds -> B!Histories]
  PROVE  B!TurnsInv'
<1> DEFINE m == B!maxAcceptableIndex
           s == B!sortedOutbounds
<1>t. B!WorkerTypes /\ B!TurnTypes /\ B!EqualTurns
  BY Zenon DEF B!TurnsInv
<1>u. B!WorkerTypes'
  BY Zenon, <1>t, BalancerTypes
<1> SUFFICES B!TurnTypes' /\ B!EqualTurns'
  BY Zenon, <1>u DEF B!TurnsInv
<1>1. /\ s \in [0 .. N - 1 -> B!Outbounds] /\ m \in 0 .. N - 1 /\ m \in Nat
      /\ \A i \in 0 .. m : s[i] \in B!Outbounds
      /\ \A i, j \in 0 .. m : s[i] = s[j] => i = j
  <2>1. /\ s \in [0 .. N - 1 -> B!Outbounds] /\ m \in 0 .. N - 1
        /\ \A i, j \in 0 .. N - 1 : s[i] = s[j] => i = j
    BY <1>t, BalancerPlaces, Zenon DEF B!WorkerTypes, B!maxAcceptableIndex, B!sortedOutbounds
  <2> HIDE DEF s, m
  <2> QED BY <2>1, RoutingAssumption
<1>2. m' \in Nat /\ m' + 1 \in 1 .. m' + 1
  <2> DEFINE last == m'
  <2>1. last \in 0 .. N - 1
    BY <1>u, BalancerPlaces, Zenon DEF B!WorkerTypes, B!maxAcceptableIndex, B!sortedOutbounds
  <2> HIDE DEF last
  <2>2. last \in Nat /\ last + 1 \in 1 .. last + 1
    BY <2>1, RoutingAssumption
  <2> QED BY <2>2, Zenon DEF last
<1>3. CASE B!UpdateOutboundsInfo
  <2>1. turns' = [o \in B!Outbounds |-> 0] /\ idx' = idx
    BY Zenon, <1>3 DEF B!UpdateOutboundsInfo, B!Apply
  <2>2. idx \in Nat
    BY Zenon, <1>t DEF B!TurnTypes
  <2>3. \A i \in 0 .. m' : B!Ahead(i, m', idx) < m' + 1
    <3>1. \A i \in 0 .. m' : B!Ahead(i, m', idx) \in 0 .. m'
      BY <1>2, <2>2, BalancerAhead, Zenon DEF MovesOn
    <3> QED BY <1>2, <3>1
  <2>4. \A i \in 0 .. m' : s'[i] \in B!Outbounds
    <3>1. s' \in [0 .. N - 1 -> B!Outbounds] /\ m' \in 0 .. N - 1
      BY <1>u, BalancerPlaces, Zenon DEF B!WorkerTypes, B!maxAcceptableIndex, B!sortedOutbounds
    <3> QED BY <3>1, RoutingAssumption
  <2>5. B!Behind(s, m, m + 1)'
    BY Zenon, <2>1, <2>3, <2>4 DEF B!Behind
  <2> QED BY <1>2, <2>1, <2>2, <2>5, Zenon DEF B!TurnTypes, B!EqualTurns
<1>4. ASSUME UNCHANGED used PROVE m' = m /\ s' = s
  BY Zenon, <1>4 DEF B!maxAcceptableIndex, B!sortedOutbounds
<1>5. CASE UNCHANGED <<strategy, used, idx, turns>>
  BY Zenon, <1>t, <1>4, <1>5 DEF B!TurnTypes, B!EqualTurns, B!Behind
<1>6. ASSUME NEW c \in BalConns, NEW o \in B!Outbounds, B!Dial(c, o)
      PROVE  B!TurnTypes' /\ B!EqualTurns'
  <2>1. UNCHANGED <<strategy, used>> /\ B!Select(key[c], o) /\ turns' = B!Counted(o)
    BY Zenon, <1>6 DEF B!Dial, B!options
  <2>2. CASE strategy # "round-robin"
    <3>1. UNCHANGED <<idx, turns>>
      BY Zenon, <2>1, <2>2
      DEF B!Select, B!LowestDelaySelect, B!ConsistentHashingSelect, B!StickySessionSelect, B!Counted
    <3> QED BY Zenon, <1>5, <2>1, <3>1
  <2>3. CASE strategy = "round-robin"
    <3>1. idx' = (idx + 1) % (m + 1) /\ o = s[idx']
      BY Zenon, <2>1, <2>3 DEF B!Select, B!RoundRobinSelect
    <3>2. turns' = Chosen(B!Outbounds, s, m, idx', turns)
      BY <2>1, <2>3, <3>1 DEF B!Counted, B!Rotation, Chosen
    <3>3. idx \in Nat /\ Places(B!Outbounds, s, m)
      BY Zenon, <1>t, <1>1 DEF B!TurnTypes, Places
    <3>4. Equal(B!Outbounds, s, m, idx, turns)
      BY Zenon, <1>t, <2>3 DEF B!TurnTypes, B!EqualTurns, B!Behind, Equal
    <3> HIDE DEF s, m
    <3>5. Equal(B!Outbounds, s, m, idx', turns')
      BY Zenon, <1>1, <3>1, <3>2, <3>3, <3>4, BalancerTurn
    <3>7. turns' \in [B!Outbounds -> Nat]
      BY Zenon, <3>5 DEF Equal
    <3>8. PICK l \in 1 .. m + 1 : \A i \in 0 .. m :
            turns'[s[i]] = IF B!Ahead(i, m, idx') < l THEN 0 ELSE 1
      BY Zenon, <3>5 DEF Equal
    <3>9. m' = m /\ s' = s
      BY Zenon, <1>4, <2>1
    <3>10. B!Behind(s, m, l)'
      BY Zenon, <3>8, <3>9 DEF B!Behind
    <3>11. idx' \in Nat
      BY <1>1, <3>1, <3>3, NextTurn
    <3> QED BY Zenon, <3>7, <3>9, <3>10, <3>11 DEF B!TurnTypes, B!EqualTurns, s, m
  <2> QED BY Zenon, <2>2, <2>3
<1> QED
  BY Zenon, <1>3, <1>5, <1>6
  DEF B!Next, B!ApplyResult, B!Broadcast, B!Subscribe, B!Receive, B!Interrupt, B!WorkerDone,
      B!ReadHistory, B!NewConn, B!CloseConn, B!Expire, B!SelectOther, B!options, B!vars

(* Before the first update all outbounds are in turn and none was chosen.    *)
LEMMA BalancerTurnsInit ==
  ASSUME Unset \notin [B!Outbounds -> B!Histories] PROVE B!Init => B!TurnsInv
<1> SUFFICES ASSUME B!Init PROVE B!TurnsInv
  OBVIOUS
<1>1. used = Unset /\ idx = 0 /\ turns = [o \in B!Outbounds |-> 0]
  BY Zenon DEF B!Init
<1>2. B!maxAcceptableIndex = N - 1 /\ B!sortedOutbounds = [i \in 0 .. N - 1 |-> i + 1]
  BY Zenon, <1>1 DEF B!maxAcceptableIndex, B!sortedOutbounds
<1>3. N - 1 \in Nat /\ 0 \in Nat
  BY RoutingAssumption
<1>4. \A i \in 0 .. N - 1 : B!Ahead(i, N - 1, 0) \in 0 .. N - 1
  BY <1>3, BalancerAhead, Zenon DEF MovesOn
<1>5. B!Behind([i \in 0 .. N - 1 |-> i + 1], N - 1, N)
  <2> SUFFICES ASSUME NEW i \in 0 .. N - 1 PROVE i + 1 \in B!Outbounds /\ B!Ahead(i, N - 1, 0) < N
    BY Zenon, <1>1 DEF B!Behind
  <2> QED BY <1>4, RoutingAssumption DEF B!Outbounds
<1>6. N \in 1 .. N - 1 + 1
  BY RoutingAssumption
<1>7. B!EqualTurns
  BY <1>2, <1>5, <1>6, Zenon DEF B!EqualTurns
<1>8. B!TurnTypes
  BY Zenon, <1>1 DEF B!TurnTypes
<1> QED BY Zenon, <1>7, <1>8, BalancerInit DEF B!TurnsInv

(* For any number of outbounds, any delays and any number of updates and     *)
(* connections: between two updates no outbound in turn is chosen twice more *)
(* often than another (RoundRobin.Select, UpdateOutboundsInfo).              *)
THEOREM BalancerFairTurns ==
  ASSUME Unset \notin [B!Outbounds -> B!Histories]
  PROVE  B!Spec => []FairTurns
<1>1. B!Init => B!TurnsInv
  BY Zenon, BalancerTurnsInit
<1>2. B!TurnsInv /\ [B!Next]_(B!vars) => B!TurnsInv'
  BY Zenon, BalancerTurns
<1>3. B!TurnsInv => FairTurns
  <2> SUFFICES ASSUME B!EqualTurns, strategy = "round-robin",
                      NEW o \in B!Rotation, NEW p \in B!Rotation
               PROVE  turns[o] <= turns[p] + 1
    BY Zenon DEF B!TurnsInv, FairTurns, B!FairTurns
  <2>1. \A q \in B!Rotation : turns[q] = 0 \/ turns[q] = 1
    BY DEF B!EqualTurns, B!Behind, B!Rotation
  <2> QED BY <2>1
<1> QED
  BY <1>1, <1>2, <1>3, PTL DEF B!Spec

-----------------------------------------------------------------------------
(* A new broadcaster satisfies its invariant.                              *)
LEMMA BroadcasterInvInit == O!Init => O!BroadcasterInv
<1> SUFFICES ASSUME O!Init PROVE O!BroadcasterInv
  OBVIOUS
<1>1. 0 \in 0..Buffer
  BY NotifierAssumption
<1>2. O!TypeOK
  BY Zenon, <1>1 DEF O!Init, O!TypeOK
<1> QED
  BY Zenon, <1>2 DEF O!Init, O!BroadcasterInv, O!MapHoldsOpen

(* Subscribe, Unsubscribe, Publish and closeAll, in any order, keep the    *)
(* map equal to the set of open channels.                                  *)
LEMMA BroadcasterInvStep ==
  ASSUME O!BroadcasterInv, [O!Next]_bvars
  PROVE  O!BroadcasterInv'
<1> USE NotifierAssumption
<1>u. /\ ctxDone \in BOOLEAN
      /\ subs \subseteq Workers
      /\ closedAll \in BOOLEAN
      /\ chan \in [Workers -> {"none", "open", "closed"}]
      /\ buffered \in [Workers -> 0..Buffer]
      /\ rlocked \in BOOLEAN
      /\ left \subseteq subs
      /\ \A ch \in Workers : ch \in subs <=> chan[ch] = "open"
      /\ closedAll => ctxDone /\ subs = {}
      /\ ~rlocked => left = {}
  BY Zenon DEF O!BroadcasterInv, O!TypeOK, O!MapHoldsOpen
<1>1. ASSUME NEW ch \in Workers, O!Subscribe(ch) PROVE O!BroadcasterInv'
  BY Zenon, <1>1, <1>u DEF O!Subscribe, O!BroadcasterInv, O!TypeOK, O!MapHoldsOpen
<1>2. ASSUME NEW ch \in Workers, O!Unsubscribe(ch) PROVE O!BroadcasterInv'
  BY Zenon, <1>2, <1>u DEF O!Unsubscribe, O!BroadcasterInv, O!TypeOK, O!MapHoldsOpen
<1>3. ASSUME NEW ch \in Workers, O!PublishTo(ch) PROVE O!BroadcasterInv'
  BY <1>3, <1>u DEF O!PublishTo, O!BroadcasterInv, O!TypeOK, O!MapHoldsOpen
<1>4. ASSUME NEW ch \in Workers, O!Receive(ch) PROVE O!BroadcasterInv'
  BY <1>4, <1>u DEF O!Receive, O!BroadcasterInv, O!TypeOK, O!MapHoldsOpen
<1>5. CASE O!Publish
  BY Zenon, <1>5, <1>u DEF O!Publish, O!BroadcasterInv, O!TypeOK, O!MapHoldsOpen
<1>6. CASE O!PublishReturn
  BY Zenon, <1>6, <1>u DEF O!PublishReturn, O!BroadcasterInv, O!TypeOK, O!MapHoldsOpen
<1>7. CASE O!Close
  BY Zenon, <1>7, <1>u DEF O!Close, O!BroadcasterInv, O!TypeOK, O!MapHoldsOpen
<1>8. CASE O!closeAll
  BY Zenon, <1>8, <1>u DEF O!closeAll, O!BroadcasterInv, O!TypeOK, O!MapHoldsOpen
<1>9. CASE UNCHANGED bvars
  BY Zenon, <1>9, <1>u DEF bvars, O!BroadcasterInv, O!TypeOK, O!MapHoldsOpen
<1> QED
  BY Zenon, <1>1, <1>2, <1>3, <1>4, <1>5, <1>6, <1>7, <1>8, <1>9 DEF O!Next

-----------------------------------------------------------------------------
(* Every step of the notifier and of the workers is a step of the          *)
(* broadcaster or leaves it alone.                                         *)
LEMMA NotifierUses == [Next]_vars => [O!Next]_bvars
<1> SUFFICES ASSUME [Next]_vars PROVE [O!Next]_bvars
  OBVIOUS
<1>1. CASE UNCHANGED vars
  BY Zenon, <1>1 DEF vars, bvars
<1>2. CASE \E o \in Outbounds : applyResult(o) \/ emitGroupEvent(o)
  BY Zenon, <1>2 DEF applyResult, Changed, emitGroupEvent, bvars
<1>3. CASE \E s \in Selectors : SelectOutbound(s) \/ SignalChange(s)
  BY Zenon, <1>3 DEF SelectOutbound, SignalChange, bvars
<1>9. CASE \E n \in Nested : NestedChanges(n)
  BY Zenon, <1>9 DEF NestedChanges, bvars
<1>4. CASE Notifier
  BY Zenon, <1>4 DEF Notifier, Notified, TimerFires, emitGroupEventThrottled,
              Publishing, Published, NotifierExit, bvars, O!Next
<1>5. CASE \E w \in Workers : SubscribeGroup(w) \/ Worker(w)
  BY Zenon, <1>5 DEF SubscribeGroup, Worker, GetEvent, UpdateOutboundsInfo, Leave,
              UnsubscribeGroup, bvars, O!Next
<1>6. CASE \E w \in Workers, i \in Items : getUrlTest(w, i)
  BY Zenon, <1>6 DEF getUrlTest, bvars
<1>7. CASE CloseObserver \/ CloseCancel \/ CloseReturn
  BY Zenon, <1>7 DEF CloseObserver, CloseCancel, CloseReturn, bvars, O!Next
<1>8. CASE CancelBox \/ CancelMonitor \/ CancelObserver \/ watchContext
  BY Zenon, <1>8 DEF CancelBox, CancelMonitor, CancelObserver, watchContext, bvars,
              O!Next
<1> QED
  BY Zenon, <1>1, <1>2, <1>3, <1>4, <1>5, <1>6, <1>7, <1>8, <1>9 DEF Next

(* The panics that Publish, Unsubscribe and closeAll could run into (a     *)
(* send on a closed channel, a second close) cannot happen, whatever the   *)
(* notifier, the workers and Close do, for any number of subscribers and   *)
(* any capacity; and no channel is left open for ever.                     *)
THEOREM NotifierMapHoldsOpen == Spec => []MapHoldsOpen
<1>1. Init => O!BroadcasterInv
  BY Zenon, BroadcasterInvInit DEF Init
<1>2. O!BroadcasterInv /\ [Next]_vars => O!BroadcasterInv'
  BY Zenon, BroadcasterInvStep, NotifierUses
<1>3. O!BroadcasterInv => MapHoldsOpen
  BY Zenon DEF O!BroadcasterInv, MapHoldsOpen
<1> QED
  BY <1>1, <1>2, <1>3, PTL DEF Spec
-----------------------------------------------------------------------------
(* A new notifier satisfies its invariant.                                 *)
LEMMA NotifierInvInit == Init => NotifierInv
<1> SUFFICES ASSUME Init PROVE NotifierInv
  OBVIOUS
<1>1. O!BroadcasterInv
  BY Zenon, BroadcasterInvInit DEF Init
<1>2. 0 \in 0..1
  OBVIOUS
<1>3. TypeOK
  BY <1>1, <1>2 DEF Init, TypeOK, O!BroadcasterInv
<1> QED
  BY Zenon, <1>1, <1>3 DEF Init, NotifierInv, Frame, NoLostChange, Watching, O!Init

(* A step keeps the part of the invariant that is not about lost changes.  *)
LEMMA FrameStep ==
  ASSUME NotifierInv, [Next]_vars
  PROVE  Frame'
<1>b. O!BroadcasterInv'
  BY Zenon, NotifierUses, BroadcasterInvStep DEF NotifierInv
<1>t. O!TypeOK'
  BY Zenon, <1>b DEF O!BroadcasterInv
<1>u. Frame
  BY Zenon DEF NotifierInv
<1>v. /\ subs \subseteq Workers
      /\ chan \in [Workers -> {"none", "open", "closed"}]
      /\ \A w \in Workers : w \in subs <=> chan[w] = "open"
  BY Zenon, <1>u DEF Frame, TypeOK, O!TypeOK, NotifierInv, O!BroadcasterInv,
              O!MapHoldsOpen
<1> USE DEF Frame
<1>1. CASE UNCHANGED vars
  BY Zenon, <1>1, <1>t, <1>u DEF vars, loopVars, closeVars, workerVars, bvars, TypeOK,
                     Watching
<1>2. CASE \E o \in Outbounds : applyResult(o) \/ emitGroupEvent(o)
  BY <1>2, <1>t, <1>u DEF applyResult, Changed, emitGroupEvent, TypeOK, Items,
       loopVars, closeVars, workerVars, bvars, Watching
<1>3. CASE \E s \in Selectors : SelectOutbound(s) \/ SignalChange(s)
  BY <1>3, <1>t, <1>u DEF SelectOutbound, SignalChange, TypeOK,
       loopVars, closeVars, workerVars, bvars, Watching
<1>15. CASE \E n \in Nested : NestedChanges(n)
  BY <1>15, <1>t, <1>u DEF NestedChanges, Changed, TypeOK, Items,
       loopVars, closeVars, workerVars, bvars, Watching
<1>4. CASE Notifier
  <2>1. CASE Notified \/ TimerFires \/ NotifierExit
    BY <2>1, <1>t, <1>u DEF Notified, TimerFires, NotifierExit, TypeOK,
         closeVars, workerVars, bvars, Watching
  <2>2. CASE emitGroupEventThrottled
    BY Zenon, <2>2, <1>t, <1>u DEF emitGroupEventThrottled, O!Publish, TypeOK,
         closeVars, workerVars, Watching
  <2>3. CASE Publishing
    <3>1. UNCHANGED <<loopVars, closeVars, change, workerVars>> /\ UNCHANGED <<ctxDone, chan>>
      BY Zenon, <2>3 DEF Publishing, O!PublishTo
    <3>2. left' \subseteq left /\ rlocked' = rlocked /\ subs' = subs
      BY Zenon, <2>3 DEF Publishing, O!PublishTo
    <3> QED BY Zenon, <1>t, <1>u, <3>1, <3>2 DEF TypeOK, loopVars, closeVars, workerVars, Watching
  <2>4. CASE Published
    BY Zenon, <2>4, <1>t, <1>u DEF Published, O!PublishReturn, TypeOK, closeVars, workerVars,
         Watching
  <2> HIDE DEF Frame
  <2> QED
    BY Zenon, <1>4, <2>1, <2>2, <2>3, <2>4 DEF Notifier
<1>5. ASSUME NEW w \in Workers, SubscribeGroup(w) \/ UnsubscribeGroup(w)
      PROVE  Frame'
  BY <1>5, <1>t, <1>u, <1>v DEF SubscribeGroup, UnsubscribeGroup, O!Subscribe,
       O!Unsubscribe, TypeOK, loopVars, closeVars, Watching
<1>6. ASSUME NEW w \in Workers, GetEvent(w) \/ UpdateOutboundsInfo(w) \/ Leave(w)
      PROVE  Frame'
  BY <1>6, <1>t, <1>u, <1>v DEF GetEvent, UpdateOutboundsInfo, Leave, O!Receive,
       TypeOK, loopVars, closeVars, bvars, Watching
<1>7. CASE \E w \in Workers, i \in Items : getUrlTest(w, i)
  BY <1>7, <1>t, <1>u DEF getUrlTest, TypeOK, loopVars, closeVars, bvars, Watching
<1>8. CASE CloseObserver
  BY Zenon, <1>8, <1>t, <1>u DEF CloseObserver, O!Close, TypeOK, loopVars, closeVars,
       workerVars, bvars, Watching
<1>9. CASE CloseCancel
  BY Zenon, <1>9, <1>t, <1>u DEF CloseCancel, O!Close, TypeOK, loopVars, closeVars,
       workerVars, bvars, Watching
<1>10. CASE CloseReturn
  BY Zenon, <1>10, <1>t, <1>u DEF CloseReturn, O!Close, TypeOK, loopVars, closeVars,
       workerVars, bvars, Watching
<1>11. CASE CancelBox
  BY Zenon, <1>11, <1>t, <1>u DEF CancelBox, O!Close, TypeOK, loopVars, closeVars,
       workerVars, bvars, Watching
<1>12. CASE CancelMonitor
  BY Zenon, <1>12, <1>t, <1>u DEF CancelMonitor, O!Close, TypeOK, loopVars, closeVars,
       workerVars, bvars, Watching
<1>13. CASE CancelObserver
  BY Zenon, <1>13, <1>t, <1>u DEF CancelObserver, O!Close, TypeOK, loopVars, closeVars,
       workerVars, bvars, Watching
<1>14. CASE watchContext
  BY ZenonT(60), <1>14, <1>t, <1>u, <1>v DEF watchContext, O!closeAll, TypeOK, loopVars,
       closeVars, workerVars, Watching
<1> HIDE DEF Frame
<1> QED
  BY Zenon, <1>1, <1>2, <1>3, <1>4, <1>5, <1>6, <1>7, <1>8, <1>9, <1>10, <1>11,
     <1>12, <1>13, <1>14, <1>15
     DEF Next, Worker

(* Whatever a step does with the token, the timer or the event of a        *)
(* change, it hands the change on to the next stage.                       *)
LEMMA NoLostChangeStep ==
  ASSUME NotifierInv, [Next]_vars
  PROVE  NoLostChange'
<1> SUFFICES ASSUME NEW w \in Workers, Watching(w)', ~ctxDone', loop' # "exit",
                    NEW i \in owed'[w] \cap Outbounds
             PROVE  OnItsWay(w, i)'
  BY Zenon DEF NoLostChange
<1>u. /\ notifyCh \in 0..1
      /\ change \in [Outbounds \cup Selectors -> {"idle", "emit"}]
      /\ worker \in [Workers -> {"out", "select", "reading", "leaving", "done"}]
      /\ toRead \in [Workers -> SUBSET Items]
      /\ owed \in [Workers -> SUBSET Items]
      /\ buffered \in [Workers -> 0..Buffer]
      /\ loop = "emit" => timer = "armed"
      /\ left \subseteq subs
      /\ \A x \in Workers : x \in subs <=> chan[x] = "open"
      /\ Buffer \in Nat \ {0}
      /\ ~rlocked => left = {}
      /\ Watching(w) /\ ~ctxDone => chan[w] = "open"
      /\ worker[w] = "out" => owed[w] = {}
  BY Zenon, NotifierAssumption DEF NotifierInv, Frame, TypeOK, O!BroadcasterInv,
     O!TypeOK, O!MapHoldsOpen
<1>o. ASSUME Watching(w), ~ctxDone, loop # "exit", i \in owed[w]
      PROVE  OnItsWay(w, i)
  BY Zenon, <1>o DEF NotifierInv, NoLostChange
<1>b. buffered \in [Workers -> 0..Buffer] /\ Buffer \in Nat \ {0}
  BY Zenon, <1>u
<1> USE DEF OnItsWay, Watching
<1>k. CASE UNCHANGED <<loopVars, change, workerVars, bvars>>
  BY Zenon, <1>k, <1>o DEF loopVars, workerVars, bvars
<1>1. CASE UNCHANGED vars
  <2> HIDE DEF OnItsWay, Watching
  <2> QED BY Zenon, <1>1, <1>k DEF vars
<1>2. ASSUME NEW o \in Outbounds, applyResult(o) PROVE OnItsWay(w, i)'
  <2>1. CASE i = o
    BY Zenon, <1>2, <2>1, <1>u DEF applyResult
  <2>2. CASE i # o
    BY Zenon, <1>2, <2>2, <1>u, <1>o DEF applyResult, Changed, loopVars, closeVars, bvars
  <2> QED
    BY Zenon, <2>1, <2>2
<1>3. ASSUME NEW o \in Outbounds \cup Selectors, emitGroupEvent(o) \/ SignalChange(o)
      PROVE  OnItsWay(w, i)'
  BY Zenon, <1>3 DEF emitGroupEvent, SignalChange
<1>19. ASSUME NEW s \in Selectors, SelectOutbound(s) PROVE OnItsWay(w, i)'
  BY Zenon, <1>19, <1>u, <1>o DEF SelectOutbound, loopVars, closeVars, workerVars, bvars
<1>20. ASSUME NEW n \in Nested, NestedChanges(n) PROVE OnItsWay(w, i)'
  <2>1. i # n
    BY Zenon, NotifierAssumption
  <2> QED
    BY Zenon, <1>20, <2>1, <1>u, <1>o DEF NestedChanges, Changed, loopVars, closeVars, bvars
<1>4. CASE Notified
  BY Zenon, <1>4 DEF Notified
<1>5. CASE TimerFires
  BY Zenon, <1>5, <1>o DEF TimerFires, closeVars, workerVars, bvars
<1>6. CASE emitGroupEventThrottled
  <2>1. loop' = "publish" /\ left' = subs /\ chan[w] = "open"
    BY Zenon, <1>6, <1>u DEF emitGroupEventThrottled, O!Publish, workerVars
  <2> QED
    BY Zenon, <2>1, <1>u
<1>7. CASE Publishing
  <2>1. PICK x \in Workers : O!PublishTo(x)
    BY Zenon, <1>7 DEF Publishing
  <2>2. OnItsWay(w, i)
    BY Zenon, <1>7, <1>o, <2>1 DEF Publishing, workerVars, loopVars, O!PublishTo
  <2>3. CASE x = w
    <3>1. buffered'[w] > 0
      BY <2>1, <2>3, <1>b DEF O!PublishTo
    <3> QED
      BY Zenon, <3>1
  <2>4. CASE x # w
    <3>1. buffered'[w] = buffered[w] /\ (w \in left => w \in left')
      BY Zenon, <2>1, <2>4, <1>u DEF O!PublishTo
    <3> QED
      BY Zenon, <3>1, <2>2, <1>7 DEF Publishing, loopVars, workerVars
  <2> QED
    BY Zenon, <2>3, <2>4
<1>8. CASE Published
  <2>1. left = {} /\ UNCHANGED <<buffered, notifyCh, change, workerVars>>
    BY Zenon, <1>8 DEF Published, O!PublishReturn
  <2>2. OnItsWay(w, i)
    BY Zenon, <1>8, <1>o, <2>1 DEF Published, O!PublishReturn, workerVars
  <2> QED
    BY Zenon, <2>1, <2>2, <1>8 DEF Published, workerVars
<1>9. CASE NotifierExit
  BY Zenon, <1>9 DEF NotifierExit
<1>10. ASSUME NEW x \in Workers, SubscribeGroup(x) PROVE OnItsWay(w, i)'
  <2>1. CASE x # w
    BY Zenon, <1>10, <2>1, <1>o, <1>u DEF SubscribeGroup, O!Subscribe, loopVars, closeVars
  <2>2. CASE x = w
    BY Zenon, <1>10, <2>2, <1>u DEF SubscribeGroup
  <2> QED
    BY Zenon, <2>1, <2>2
<1>11. ASSUME NEW x \in Workers, GetEvent(x) PROVE OnItsWay(w, i)'
  <2>1. CASE x = w
    BY Zenon, <1>11, <2>1, <1>u DEF GetEvent, O!Receive
  <2>2. CASE x # w
    BY Zenon, <1>11, <2>2, <1>o, <1>u DEF GetEvent, O!Receive, loopVars, closeVars
  <2> QED
    BY Zenon, <2>1, <2>2
<1>12. ASSUME NEW x \in Workers, UpdateOutboundsInfo(x) PROVE OnItsWay(w, i)'
  BY Zenon, <1>12, <1>o, <1>u DEF UpdateOutboundsInfo, loopVars, closeVars, bvars
<1>13. ASSUME NEW x \in Workers, Leave(x) PROVE OnItsWay(w, i)'
  BY Zenon, <1>13, <1>o, <1>u DEF Leave, loopVars, closeVars, bvars
<1>14. ASSUME NEW x \in Workers, UnsubscribeGroup(x) PROVE OnItsWay(w, i)'
  BY Zenon, <1>14, <1>o, <1>u DEF UnsubscribeGroup, O!Unsubscribe, loopVars, closeVars
<1>15. ASSUME NEW x \in Workers, NEW k \in Items, getUrlTest(x, k)
       PROVE  OnItsWay(w, i)'
  BY Zenon, <1>15, <1>o, <1>u DEF getUrlTest, loopVars, closeVars, bvars
<1>16. CASE CloseObserver \/ CancelObserver
  BY Zenon, <1>16 DEF CloseObserver, CancelObserver, O!Close
<1>17. CASE CloseCancel \/ CloseReturn \/ CancelBox \/ CancelMonitor
  <2> HIDE DEF OnItsWay, Watching
  <2> QED BY Zenon, <1>17, <1>k DEF CloseCancel, CloseReturn, CancelBox, CancelMonitor
<1>18. CASE watchContext
  BY Zenon, <1>18 DEF watchContext, O!closeAll
<1> HIDE DEF OnItsWay, Watching
<1> QED
  BY <1>1, <1>2, <1>3, <1>4, <1>5, <1>6, <1>7, <1>8, <1>9, <1>10, <1>11, <1>12,
     <1>13, <1>14, <1>15, <1>16, <1>17, <1>18, <1>19, <1>20
     DEF Next, Notifier, Worker

(* No test result is lost on its way to a worker, for any number of        *)
(* outbounds, nested groups and workers: the dropped tokens and events are *)
(* those for which another one is still ahead.                             *)
THEOREM NotifierNoLostChange == Spec => []NoLostChange
<1>1. NotifierInv /\ [Next]_vars => NotifierInv'
  BY Zenon, NotifierUses, BroadcasterInvStep, FrameStep, NoLostChangeStep
     DEF NotifierInv
<1>2. NotifierInv => NoLostChange
  BY Zenon DEF NotifierInv
<1> QED
  BY NotifierInvInit, <1>1, <1>2, PTL DEF Spec
=============================================================================
