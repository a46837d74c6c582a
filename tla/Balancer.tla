----------------------------- MODULE Balancer -----------------------------
(* The balancer group (protocol/group/balancer): a worker follows the        *)
(* monitor's results and feeds them to one of four strategies, which choose  *)
(* the outbound of every dial. The maps of a strategy have one entry per     *)
(* network, treated alike: the module follows one of them, and the outbounds *)
(* that filterOutbounds leaves for it.  Only the sessions of sticky-sessions *)
(* are kept for both networks together, by place in the list of either.      *)
EXTENDS Naturals, FiniteSets
CONSTANTS Strategies,  \* the strategies to start with
          N,           \* the outbounds, by place in the configuration: 1 .. N
          Delays,      \* the delays of successful tests
          Cached,      \* the delays loadHistory may restore
          Ratio,       \* delay_acceptable_ratio
          MaxRetry,    \* max_retry
          Keys,        \* what getKey tells connections apart by
          Hash,        \* jumpHash(key + i): [Keys -> [0 .. MaxRetry -> 1 .. N]]
          OtherN,      \* the number of outbounds of the other network
          Conns,       \* connections
          InterruptExternal,  \* the values of interrupt_exist_connections
          Nil,
          MaxResults   \* bound on the results of one behaviour

TimeoutDelay == 65535
Outbounds == 1 .. N

VARIABLES strategy,
          history,  \* the monitor's history of each outbound: delay, from_cache
          signal,   \* the group's notifier has an event to broadcast
          observer, \* the worker's subscription (one place) holds an event
          phase,    \* the worker: "start", "idle", "read", "interrupt", "done"
          info,     \* OutboundsHistory as read so far
          used,     \* the histories of the last UpdateOutboundsInfo
          idx,      \* RoundRobin.idx, from 0
          lruCache, \* StickySession.lruCache, with places from 1
          turns,    \* how often each was chosen since the last update (RoundRobin)
          key, via, conn,  \* per connection: its key, its outbound, its state
          late,     \* registered after its outbound had been left
          external, \* per connection: it was routed here (isExternal)
          interruptExternal,  \* s.interruptExternalConnections
          results

monitor == <<history, signal, results>>
conns == <<key, via, conn, late>>
options == <<strategy, external, interruptExternal>>
vars == <<options, monitor, observer, phase, info, used, idx, lruCache, turns, conns>>

Untested == [delay |-> 0, from_cache |-> FALSE]
Histories == [delay : {0, TimeoutDelay} \cup Delays \cup Cached, from_cache : BOOLEAN]

TypeOK ==
  /\ strategy \in Strategies
  /\ history \in [Outbounds -> Histories]
  /\ signal \in BOOLEAN /\ observer \in BOOLEAN
  /\ phase \in {"start", "idle", "read", "interrupt", "done"}
  /\ info \in [Outbounds -> Histories \cup {Nil}]
  /\ used = Nil \/ used \in [Outbounds -> Histories]
  /\ idx \in 0 .. N - 1
  /\ lruCache \in [Keys -> Outbounds \cup 1 .. OtherN \cup {Nil}]
  /\ turns \in [Outbounds -> Nat]
  /\ key \in [Conns -> Keys]
  /\ via \in [Conns -> Outbounds \cup {Nil}]
  /\ conn \in [Conns -> {"none", "dialing", "open"}]
  /\ late \in [Conns -> BOOLEAN]
  /\ external \in [Conns -> BOOLEAN] /\ interruptExternal \in InterruptExternal
  /\ results \in 0 .. MaxResults

(* Before the first test an outbound has what loadHistory restored, or none. *)
Init ==
  /\ strategy \in Strategies
  /\ history \in [Outbounds -> {Untested} \cup [delay : Cached, from_cache : {TRUE}]]
  /\ signal = FALSE /\ observer = FALSE
  /\ phase = "start"
  /\ info = [o \in Outbounds |-> Nil]
  /\ used = Nil
  /\ idx = 0
  /\ lruCache = [k \in Keys |-> Nil]
  /\ turns = [o \in Outbounds |-> 0]
  /\ key \in [Conns -> Keys]
  /\ via = [c \in Conns |-> Nil]
  /\ conn = [c \in Conns |-> "none"]
  /\ late = [c \in Conns |-> FALSE]
  /\ external \in [Conns -> BOOLEAN] /\ interruptExternal \in InterruptExternal
  /\ results = 0

-----------------------------------------------------------------------------
(* The delays the strategies compare, from a set u of histories.             *)

(* An outbound without a test counts as timed out, a delay that is only      *)
(* cached as twenty seconds longer.                                          *)
getModifiedDelay(h) ==
  LET delay == IF h.delay = 0 THEN TimeoutDelay ELSE h.delay
  IN  IF h.from_cache /\ delay < 20000 THEN delay + 20000 ELSE delay

getTagDelay(o, u) == getModifiedDelay(u[o])

(* uint16(math.Max(100, delay) * ratio): too large a product loses its high  *)
(* bits on the targets of the build.                                        *)
Acceptable(delay) == ((IF delay < 100 THEN 100 ELSE delay) * Ratio) % 65536

(* The outbound of the least delay, the last one of several.                 *)
getMinDelay(u) ==
  LET delay == [o \in Outbounds |-> getTagDelay(o, u)]
  IN  CHOOSE o \in Outbounds : \A p \in Outbounds :
        delay[o] < delay[p] \/ (delay[o] = delay[p] /\ p <= o)

(* sortOutboundsByDelay, stable: the outbound at each place, from 0.         *)
Sorted(u) ==
  LET delay == [o \in Outbounds |-> getTagDelay(o, u)]
      Before(o) == {p \in Outbounds : delay[p] < delay[o] \/ (delay[p] = delay[o] /\ p < o)}
  IN  [i \in 0 .. N - 1 |-> CHOOSE o \in Outbounds : Cardinality(Before(o)) = i]

(* The last place whose delay is acceptable beside the first one's.          *)
getAcceptableIndex(u) ==
  LET sorted == Sorted(u)
      max == Acceptable(getTagDelay(sorted[0], u))
      ok == {i \in 0 .. N - 1 : getTagDelay(sorted[i], u) <= max}
  IN  IF ok = {} THEN 0 ELSE CHOOSE i \in ok : \A j \in ok : j <= i

-----------------------------------------------------------------------------
(* What a strategy holds, as a function of the histories of its last update. *)

sortedOutbounds == IF used = Nil THEN [i \in 0 .. N - 1 |-> i + 1] ELSE Sorted(used)
maxAcceptableIndex == IF used = Nil THEN N - 1 ELSE getAcceptableIndex(used)
Rotation == LET sorted == sortedOutbounds IN {sorted[i] : i \in 0 .. maxAcceptableIndex}
selectedOutbound == IF used = Nil THEN 1 ELSE getMinDelay(used)

(* ConsistentHashing.Alive and StickySession.Alive: the delay as recorded    *)
(* (getDelayMap), against what the least modified delay makes acceptable.    *)
Alive(o) ==
  /\ used # Nil
  /\ used[o].delay <= Acceptable(getTagDelay(getMinDelay(used), used))

(* ConsistentHashing.Select: the first of the key's places that is alive,    *)
(* else the first in the list, else the place after the last retry.          *)
HashSelect(k) ==
  LET tries == {i \in 0 .. MaxRetry - 1 : Alive(Hash[k][i])}
      alive == {o \in Outbounds : Alive(o)}
      First(S) == CHOOSE i \in S : \A j \in S : i <= j
  IN  IF tries # {} THEN Hash[k][First(tries)]
      ELSE IF alive # {} THEN First(alive)
      ELSE Hash[k][MaxRetry]

-----------------------------------------------------------------------------
(* The choice o of each strategy, and what choosing it leaves behind.        *)

(* As if the turn were kept as a place of the whole list.                    *)
RoundRobinSelectAll(o) ==
  LET id == (idx + 1) % N
  IN  /\ o = sortedOutbounds[IF id > maxAcceptableIndex THEN 0 ELSE id]
      /\ idx' = id
      /\ UNCHANGED lruCache

RoundRobinSelect(o) ==
  LET id == (idx + 1) % (maxAcceptableIndex + 1)
  IN  /\ o = sortedOutbounds[id]
      /\ idx' = id
      /\ UNCHANGED lruCache

LowestDelaySelect(o) ==
  /\ o = selectedOutbound
  /\ UNCHANGED <<idx, lruCache>>

ConsistentHashingSelect(k, o) ==
  /\ o = HashSelect(k)
  /\ UNCHANGED <<idx, lruCache>>

(* The session's outbound, or one hashed with the clock if it has none or    *)
(* the list of this network is too short for it; MaxRetry - 1 times another  *)
(* such one while it is not alive. What was chosen is remembered, unless it  *)
(* is the first and the session had a place, even one beyond the list.       *)
StickySessionSelect(k, o) ==
  \E first \in IF lruCache[k] \in Outbounds THEN {lruCache[k]} ELSE Outbounds :
    LET kept == MaxRetry > 1 /\ Alive(first)
    IN  /\ o = first \/ (MaxRetry > 1 /\ ~Alive(first))
        /\ lruCache' = IF kept /\ lruCache[k] # Nil THEN lruCache
                       ELSE [lruCache EXCEPT ![k] = o]
        /\ UNCHANGED idx

Select(k, o) ==
  \/ strategy = "round-robin" /\ RoundRobinSelect(o)
  \/ strategy = "lowest-delay" /\ LowestDelaySelect(o)
  \/ strategy = "consistent-hashing" /\ ConsistentHashingSelect(k, o)
  \/ strategy = "sticky-sessions" /\ StickySessionSelect(k, o)

-----------------------------------------------------------------------------
(* A test result of the monitor: applyResult stores it and signals.          *)
ApplyResult(o, d) ==
  /\ results < MaxResults
  /\ results' = results + 1
  /\ history' = [history EXCEPT ![o] = [delay |-> d, from_cache |-> FALSE]]
  /\ signal' = TRUE
  /\ UNCHANGED <<options, observer, phase, info, used, idx, lruCache, turns, conns>>

(* The notifier broadcasts; a full or missing subscription loses the event.  *)
Broadcast ==
  /\ signal
  /\ signal' = FALSE
  /\ observer' = (observer \/ phase \notin {"start", "done"})
  /\ UNCHANGED <<options, history, results, phase, info, used, idx, lruCache, turns, conns>>

(* worker subscribes.                                                        *)
Subscribe ==
  /\ phase = "start"
  /\ phase' = "idle"
  /\ UNCHANGED <<options, monitor, observer, info, used, idx, lruCache, turns, conns>>

(* worker takes an event, after which it reads the histories.                *)
Receive ==
  /\ phase = "idle"
  /\ observer
  /\ observer' = FALSE
  /\ phase' = "read"
  /\ UNCHANGED <<options, monitor, info, used, idx, lruCache, turns, conns>>

(* OutboundsHistory reads one outbound after the other, in any order.        *)
ReadHistory(o) ==
  /\ phase = "read"
  /\ info[o] = Nil
  /\ info' = [info EXCEPT ![o] = history[o]]
  /\ UNCHANGED <<options, monitor, observer, phase, used, idx, lruCache, turns, conns>>

(* Whether the update of a strategy reports a change; the other network's    *)
(* entries may have changed too.                                             *)
Changed ==
  \/ strategy \in {"consistent-hashing", "sticky-sessions"}
  \/ strategy = "lowest-delay" /\ getMinDelay(info) # selectedOutbound
  \/ strategy = "round-robin" /\ getAcceptableIndex(info) # maxAcceptableIndex

(* The worker hands what it read to the strategy, which keeps it under its   *)
(* lock; after a change the worker goes on to interrupt.                     *)
Apply(next) ==
  /\ phase = "read"
  /\ \A o \in Outbounds : info[o] # Nil
  /\ used' = info
  /\ info' = [o \in Outbounds |-> Nil]
  /\ turns' = [o \in Outbounds |-> 0]
  /\ phase' \in next
  /\ UNCHANGED <<options, monitor, idx, lruCache, conns>>

(* As if no strategy reported a change.                                      *)
UpdateOutboundsInfoQuiet ==
  Apply({"interrupt", "idle"}) /\ UNCHANGED observer

UpdateOutboundsInfo ==
  Apply({"interrupt"} \cup (IF Changed THEN {} ELSE {"idle"})) /\ UNCHANGED observer

(* Group.Interrupt closes the registered connections, external ones only if  *)
(* the option says so.                                                       *)
Interrupt ==
  /\ phase = "interrupt"
  /\ phase' = "idle"
  /\ LET closed == {c \in Conns : conn[c] = "open" /\ (external[c] => interruptExternal)}
     IN  /\ conn' = [c \in Conns |-> IF c \in closed THEN "none" ELSE conn[c]]
         /\ via' = [c \in Conns |-> IF c \in closed THEN Nil ELSE via[c]]
         /\ late' = [c \in Conns |-> IF c \in closed THEN FALSE ELSE late[c]]
  /\ UNCHANGED <<options, monitor, observer, info, used, idx, lruCache, turns, key>>

(* The choices since the last update, counted from the least of those whose  *)
(* turn comes, with o as the next one.                                       *)
Counted(o) ==
  LET t == [turns EXCEPT ![o] = @ + 1]
      rotation == Rotation
      least == CHOOSE n \in {t[p] : p \in rotation} : \A p \in rotation : n <= t[p]
  IN  IF strategy = "round-robin" THEN [p \in Outbounds |-> IF p \in rotation THEN t[p] - least ELSE t[p]]
      ELSE turns

(* DialContext and ListenPacket select an outbound and dial it ...           *)
Dial(c, o) ==
  /\ conn[c] = "none"
  /\ Select(key[c], o)
  /\ conn' = [conn EXCEPT ![c] = "dialing"]
  /\ via' = [via EXCEPT ![c] = o]
  /\ turns' = Counted(o)
  /\ UNCHANGED <<options, monitor, observer, phase, info, used, key, late>>

(* ... and register the connection.                                          *)
NewConn(c) ==
  /\ conn[c] = "dialing"
  /\ conn' = [conn EXCEPT ![c] = "open"]
  /\ late' = [late EXCEPT ![c] = strategy = "lowest-delay" /\ via[c] # selectedOutbound]
  /\ UNCHANGED <<options, monitor, observer, phase, info, used, idx, lruCache, turns, key, via>>

(* The dial fails (the monitor is asked for a new test) or the connection is *)
(* closed.                                                                   *)
CloseConn(c) ==
  /\ conn[c] # "none"
  /\ conn' = [conn EXCEPT ![c] = "none"]
  /\ via' = [via EXCEPT ![c] = Nil]
  /\ late' = [late EXCEPT ![c] = FALSE]
  /\ UNCHANGED <<options, monitor, observer, phase, info, used, idx, lruCache, turns, key>>

(* A dial over the other network leaves the session at a place of the list   *)
(* of that network, by what is alive there.                                  *)
SelectOther(k, place) ==
  /\ strategy = "sticky-sessions"
  /\ lruCache' = [lruCache EXCEPT ![k] = place]
  /\ UNCHANGED <<options, monitor, observer, phase, info, used, idx, turns, conns>>

(* The session's entry expires or makes room for another.                    *)
Expire(k) ==
  /\ lruCache[k] # Nil
  /\ lruCache' = [lruCache EXCEPT ![k] = Nil]
  /\ UNCHANGED <<options, monitor, observer, phase, info, used, idx, turns, conns>>

(* The balancer's context ends and the worker returns; Balancer.Close does   *)
(* nothing, the channel it would close is never made.                        *)
WorkerDone ==
  /\ phase = "idle"
  /\ phase' = "done"
  /\ observer' = FALSE
  /\ UNCHANGED <<options, monitor, info, used, idx, lruCache, turns, conns>>

Next ==
  \/ \E o \in Outbounds, d \in Delays \cup {TimeoutDelay} : ApplyResult(o, d)
  \/ Broadcast \/ Subscribe \/ Receive \/ UpdateOutboundsInfo \/ Interrupt \/ WorkerDone
  \/ \E o \in Outbounds : ReadHistory(o)
  \/ \E c \in Conns, o \in Outbounds : Dial(c, o)
  \/ \E c \in Conns : NewConn(c) \/ CloseConn(c)
  \/ \E k \in Keys : Expire(k) \/ \E place \in 1 .. OtherN : SelectOther(k, place)

Spec == Init /\ [][Next]_vars

-----------------------------------------------------------------------------
(* Between two updates RoundRobin.Select gives the outbounds whose delay is  *)
(* acceptable equal turns: none gets two more than another, wherever the     *)
(* index stood when the update changed the order and the number of them.     *)
FairTurns ==
  strategy = "round-robin" =>
    LET rotation == Rotation IN \A o, p \in rotation : turns[o] <= turns[p] + 1

(* With lowest-delay, when the worker is idle no connection is left on an    *)
(* outbound that is no longer the best, but for those that were dialled      *)
(* before the update and registered after it (Balancer.DialContext) and for  *)
(* those routed to the group (NewConnectionEx) while the option to interrupt *)
(* such connections is off, as it is by default.                             *)
Spared(c) == late[c] \/ (external[c] /\ ~interruptExternal)
FollowsLowest ==
  strategy = "lowest-delay" /\ phase = "idle" =>
    \A c \in Conns : conn[c] = "open" => via[c] = selectedOutbound \/ Spared(c)

(* The inductive invariants: the histories have their types; until the       *)
(* worker is to interrupt, what was chosen is the lowest; and of the         *)
(* outbounds in turn, the k whose turn comes next are one behind the others. *)
WorkerTypes ==
  /\ history \in [Outbounds -> Histories]
  /\ info \in [Outbounds -> Histories \cup {Nil}]
  /\ used = Nil \/ used \in [Outbounds -> Histories]

ConnTypes ==
  /\ conn \in [Conns -> {"none", "dialing", "open"}]
  /\ via \in [Conns -> Outbounds \cup {Nil}]
  /\ late \in [Conns -> BOOLEAN]

LowestConns ==
  strategy = "lowest-delay" /\ phase # "interrupt" =>
    \A c \in Conns : conn[c] = "open" => via[c] = selectedOutbound \/ Spared(c)

LowestInv == WorkerTypes /\ ConnTypes /\ LowestConns

TurnTypes == idx \in Nat /\ turns \in [Outbounds -> Nat]

(* How many turns of m + 1 places come before that of place i, the last one  *)
(* having been that of place id.                                             *)
Ahead(i, m, id) ==
  LET next == (id + 1) % (m + 1)
  IN  IF i >= next THEN i - next ELSE i + m + 1 - next

Behind(sorted, m, k) ==
  \A i \in 0 .. m : turns[sorted[i]] = IF Ahead(i, m, idx) < k THEN 0 ELSE 1

EqualTurns ==
  strategy = "round-robin" =>
    \E k \in 1 .. maxAcceptableIndex + 1 : Behind(sortedOutbounds, maxAcceptableIndex, k)

TurnsInv == WorkerTypes /\ TurnTypes /\ EqualTurns
=============================================================================
