---------------------------- MODULE URLTestGroup ----------------------------
(* The urltest group (protocol/group/urltest.go): a check tests the          *)
(* outbounds, selects one per network and interrupts the connections of the  *)
(* old one; connections are dialled through the selected one, or through     *)
(* what Select says before the first check is over.                          *)
(*                                                                           *)
(* Select loads one history at a time, and the histories are shared with the *)
(* daemon, the Clash API and failing dials.  The Delay in a history is       *)
(* overwritten in place, so that Select may compare one value and keep       *)
(* another.  selectedOutboundTCP and -UDP are two words, written and read    *)
(* without a lock: a reader may see the old, the new, or half of each and    *)
(* then the program panics.  No member is a group.                           *)
EXTENDS Naturals

CONSTANTS Size,        \* the number of outbounds
          UDPOutbounds,  \* those that support UDP; all support TCP
          Delays,      \* what a test may measure
          Tolerance,   \* tolerance, as a set of choices
          Conns,
          Checker,     \* the goroutine in urlTest
          MaxStores,   \* how often others store a history
          InterruptExternal,
          MaxUint16,   \* 65535
          Nil, Torn

Members == 1 .. Size
Networks == {"tcp", "udp"}
Supports(o, n) == n = "tcp" \/ o \in UDPOutbounds

(* DeleteURLTestHistory does not delete; it stores this delay.               *)
Failed == MaxUint16
Actors == Conns \cup {Checker}

VARIABLES history,    \* the delay of each outbound, or Nil
          selected,   \* selectedOutboundTCP, selectedOutboundUDP
          writing,    \* the assignment under way: [network, to], or Nil
          phase,      \* where urlTest is
          pending,    \* outbounds under test
          updated,    \* updated of performUpdateCheck
          scan,       \* the Select of each actor, or Nil
          conn,       \* each connection, or Nil when it is not or no longer there
          stores,     \* how often others have stored one
          tolerance, interruptExternal

check == <<selected, writing, phase, pending, updated>>
options == <<tolerance, interruptExternal>>
vars == <<history, check, scan, conn, stores, options>>

Scans == [network : Networks, next : 1 .. Size + 1, from : Members \cup {Nil},
          minOutbound : Members \cup {Nil}, minDelay : Nat,
          compared : Nat \cup {Nil},  \* the comparison said yes: its delay
          stable : BOOLEAN]           \* nothing was stored since it began

(* late: registered when its outbound was not the selected one.              *)
Connections == [at : {"select", "dialing", "open"}, network : Networks, external : BOOLEAN,
                via : Members \cup {Nil}, late : BOOLEAN]

TypeOK ==
  /\ history \in [Members -> Delays \cup {Failed, Nil}]
  /\ selected \in [Networks -> Members \cup {Nil}]
  /\ writing \in [network : Networks, to : Members] \cup {Nil}
  /\ phase \in {"idle", "test", "tcp", "udp", "interrupt", "panic"}
  /\ pending \subseteq Members
  /\ updated \in BOOLEAN
  /\ scan \in [Actors -> Scans \cup {Nil}]
  /\ conn \in [Conns -> Connections \cup {Nil}]
  /\ stores \in 0 .. MaxStores
  /\ tolerance \in Tolerance /\ interruptExternal \in BOOLEAN

Init ==
  /\ history = [o \in Members |-> Nil]
  /\ selected = [n \in Networks |-> Nil]
  /\ writing = Nil
  /\ phase = "idle" /\ pending = {} /\ updated = FALSE
  /\ scan = [p \in Actors |-> Nil]
  /\ conn = [c \in Conns |-> Nil]
  /\ stores = 0
  /\ tolerance \in Tolerance /\ interruptExternal \in InterruptExternal
-----------------------------------------------------------------------------
(* StoreURLTestHistory.                                                      *)
Store(o, d) ==
  /\ history' = [history EXCEPT ![o] = d]
  /\ scan' = [p \in Actors |-> IF scan[p] = Nil THEN Nil ELSE [scan[p] EXCEPT !.stable = FALSE]]

(* What a read of the selection may give; Torn is half of each.            *)
Seen(n) ==
  {selected[n]} \cup IF writing # Nil /\ writing.network = n THEN {writing.to, Torn} ELSE {}

At(c, p) == conn[c] # Nil /\ conn[c].at = p

(* The head of Select: the selected outbound, if it has a history.           *)
Begin(p, n, from) ==
  LET known == from # Nil /\ history[from] # Nil
  IN  scan' = [scan EXCEPT ![p] =
        [network |-> n, next |-> 1, from |-> from,
         minOutbound |-> IF known THEN from ELSE Nil,
         minDelay |-> IF known THEN history[from] ELSE 0,
         compared |-> Nil, stable |-> TRUE]]

(* As if the tolerance were forgotten.                                       *)
BetterAlways(s, d) == s.minDelay = 0 \/ s.minDelay > d

(* minDelay == 0 || minDelay > history.Delay+g.tolerance, in uint16.         *)
Better(s, d) == s.minDelay = 0 \/ s.minDelay > (d + tolerance) % (MaxUint16 + 1)

(* One outbound of the loop: the comparison ...                              *)
Compare(p) ==
  /\ scan[p] # Nil /\ scan[p].next <= Size /\ scan[p].compared = Nil
  /\ LET o == scan[p].next
         taken == Supports(o, scan[p].network) /\ history[o] # Nil /\ Better(scan[p], history[o])
     IN  scan' = [scan EXCEPT ![p] = IF taken THEN [@ EXCEPT !.compared = history[o]]
                                     ELSE [@ EXCEPT !.next = o + 1]]
  /\ UNCHANGED <<history, check, conn, stores, options>>

(* ... and the assignment, which may load the delay once more.               *)
Take(p) ==
  /\ scan[p] # Nil /\ scan[p].compared # Nil
  /\ \E d \in {scan[p].compared, history[scan[p].next]} :
       scan' = [scan EXCEPT ![p] = [@ EXCEPT
         !.minDelay = d, !.minOutbound = scan[p].next, !.compared = Nil, !.next = scan[p].next + 1]]
  /\ UNCHANGED <<history, check, conn, stores, options>>

Selected(p) == scan[p] # Nil /\ scan[p].next = Size + 1

(* What Select returns: without a history, the first outbound of the         *)
(* network, and exists is false.                                             *)
Result(s) ==
  IF s.minOutbound # Nil THEN s.minOutbound
  ELSE LET able == {o \in Members : Supports(o, s.network)}
       IN  IF able = {} THEN Nil ELSE CHOOSE o \in able : \A x \in able : o <= x
-----------------------------------------------------------------------------
(* urlTest, when nobody else is checking: outbounds with a history that is   *)
(* fresh are not tested, unless forced.                                      *)
UrlTest ==
  /\ phase = "idle"
  /\ phase' = "test"
  /\ \E tested \in SUBSET Members :
       /\ {o \in Members : history[o] = Nil} \subseteq tested
       /\ pending' = tested
  /\ updated' = FALSE
  /\ UNCHANGED <<history, selected, writing, scan, conn, stores, options>>

(* A test is over; a failed one deletes the history.                         *)
TestDone(o) ==
  /\ phase = "test" /\ o \in pending
  /\ pending' = pending \ {o}
  /\ \E d \in Delays \cup {Failed} : Store(o, d)
  /\ UNCHANGED <<selected, writing, phase, updated, conn, stores, options>>

(* performUpdateCheck calls Select for TCP and then for UDP ...              *)
SelectNetwork ==
  /\ scan[Checker] = Nil /\ writing = Nil
  /\ \/ /\ phase = "test" /\ pending = {} /\ phase' = "tcp"
        /\ Begin(Checker, "tcp", selected["tcp"])
     \/ /\ phase = "udp" /\ UNCHANGED phase
        /\ Begin(Checker, "udp", selected["udp"])
  /\ UNCHANGED <<history, selected, writing, pending, updated, conn, stores, options>>

AfterNetwork == IF phase = "tcp" THEN "udp" ELSE "interrupt"

(* ... decides ...                                                           *)
UpdateBegin ==
  LET s == scan[Checker]
      old == selected[s.network]
  IN  /\ Selected(Checker) /\ phase \in {"tcp", "udp"}
      /\ scan' = [scan EXCEPT ![Checker] = Nil]
      /\ IF Result(s) # Nil /\ (old = Nil \/ (s.minOutbound # Nil /\ s.minOutbound # old))
         THEN /\ updated' = (updated \/ old # Nil)
              /\ writing' = [network |-> s.network, to |-> Result(s)]
              /\ UNCHANGED phase
         ELSE /\ phase' = AfterNetwork
              /\ UNCHANGED <<updated, writing>>
      /\ UNCHANGED <<history, selected, pending, conn, stores, options>>

(* As if both networks were assigned to selectedOutboundTCP.                 *)
UpdateEndMixed ==
  /\ writing # Nil
  /\ selected' = [selected EXCEPT !["tcp"] = writing.to]
  /\ writing' = Nil
  /\ phase' = AfterNetwork
  /\ UNCHANGED <<history, pending, updated, scan, conn, stores, options>>

(* ... assigns ...                                                           *)
UpdateEnd ==
  /\ writing # Nil
  /\ selected' = [selected EXCEPT ![writing.network] = writing.to]
  /\ writing' = Nil
  /\ phase' = AfterNetwork
  /\ UNCHANGED <<history, pending, updated, scan, conn, stores, options>>

(* ... and interrupts if an outbound was replaced.                           *)
Interrupt ==
  /\ phase = "interrupt"
  /\ phase' = "idle"
  /\ conn' = [c \in Conns |->
       IF updated /\ At(c, "open") /\ (conn[c].external => interruptExternal) THEN Nil ELSE conn[c]]
  /\ UNCHANGED <<history, selected, writing, pending, updated, scan, stores, options>>
-----------------------------------------------------------------------------
(* DialContext and ListenPacket load the selection; without one they ask     *)
(* Select, which loads it again.                                             *)
Dial(c, n, isExternal) ==
  /\ conn[c] = Nil
  /\ \E o \in Seen(n) :
       \/ /\ o # Torn
          /\ conn' = [conn EXCEPT ![c] =
               [at |-> IF o = Nil THEN "select" ELSE "dialing", network |-> n,
                external |-> isExternal, via |-> o, late |-> FALSE]]
          /\ UNCHANGED phase
       \/ o = Torn /\ phase' = "panic" /\ UNCHANGED conn
  /\ UNCHANGED <<history, selected, writing, pending, updated, scan, stores, options>>

DialSelect(c) ==
  /\ At(c, "select") /\ scan[c] = Nil
  /\ \E o \in Seen(conn[c].network) :
       \/ o # Torn /\ Begin(c, conn[c].network, o) /\ UNCHANGED phase
       \/ o = Torn /\ phase' = "panic" /\ UNCHANGED scan
  /\ UNCHANGED <<history, selected, writing, pending, updated, conn, stores, options>>

(* Without an outbound for the network the dial fails.                       *)
DialSelected(c) ==
  /\ At(c, "select") /\ Selected(c)
  /\ conn' = [conn EXCEPT ![c] =
       IF Result(scan[c]) = Nil THEN Nil ELSE [@ EXCEPT !.at = "dialing", !.via = Result(scan[c])]]
  /\ scan' = [scan EXCEPT ![c] = Nil]
  /\ UNCHANGED <<history, check, stores, options>>

(* interruptGroup.NewConn and NewPacketConn.                                 *)
NewConn(c) ==
  /\ At(c, "dialing")
  /\ conn' = [conn EXCEPT ![c] =
       [@ EXCEPT !.at = "open", !.late = conn[c].via # selected[conn[c].network]]]
  /\ UNCHANGED <<history, check, scan, stores, options>>

(* A dial that fails deletes the history of its outbound.                    *)
DialFails(c) ==
  /\ At(c, "dialing")
  /\ conn' = [conn EXCEPT ![c] = Nil]
  /\ Store(conn[c].via, Failed)
  /\ UNCHANGED <<check, stores, options>>

CloseConn(c) ==
  /\ At(c, "open")
  /\ conn' = [conn EXCEPT ![c] = Nil]
  /\ UNCHANGED <<history, check, scan, stores, options>>

(* The daemon or the Clash API has tested an outbound.                       *)
OtherStores(o) ==
  /\ stores < MaxStores
  /\ stores' = stores + 1
  /\ \E d \in Delays \cup {Failed} : Store(o, d)
  /\ UNCHANGED <<check, conn, options>>

Next ==
  /\ phase # "panic"
  /\ \/ UrlTest \/ SelectNetwork \/ UpdateBegin \/ UpdateEnd \/ Interrupt
     \/ \E o \in Members : TestDone(o) \/ OtherStores(o)
     \/ \E p \in Actors : Compare(p) \/ Take(p)
     \/ \E c \in Conns :
          \/ \E n \in Networks, e \in BOOLEAN : Dial(c, n, e)
          \/ DialSelect(c) \/ DialSelected(c) \/ NewConn(c) \/ DialFails(c) \/ CloseConn(c)

Spec == Init /\ [][Next]_vars
-----------------------------------------------------------------------------
(* The histories of a network can be compared: no delay is 0, which Select   *)
(* takes for none, and none exceeds uint16 with the tolerance, as the delay  *)
(* of a failed test always does.                                             *)
Comparable(n) ==
  \A o \in Members : Supports(o, n) /\ history[o] # Nil =>
    history[o] # 0 /\ history[o] + tolerance <= MaxUint16

(* While nothing is stored, and the delays can be compared, Select returns   *)
(* an outbound that no other beats by more than the tolerance, and leaves    *)
(* the selected one only for one that does (Select, performUpdateCheck).     *)
SteadyChoice ==
  \A p \in Actors :
    Selected(p) /\ scan[p].stable /\ Comparable(scan[p].network) /\ scan[p].minOutbound # Nil =>
      LET s == scan[p]
          delay == history[s.minOutbound]
      IN  /\ \A o \in Members : Supports(o, s.network) /\ history[o] # Nil =>
               delay <= history[o] + tolerance
          /\ s.from \notin {s.minOutbound, Nil} /\ history[s.from] # Nil =>
               delay + tolerance < history[s.from]

(* After a check no connection is left behind on an outbound that it         *)
(* replaced, whichever network changed (performUpdateCheck and Interrupt);   *)
(* except for external ones where the option spares them, and those that     *)
(* were registered too late.                                                 *)
FollowsChoice ==
  phase = "idle" =>
    \A c \in Conns : At(c, "open") =>
      \/ conn[c].via = selected[conn[c].network]
      \/ conn[c].late
      \/ conn[c].external /\ ~interruptExternal

(* Between two steps of a Select: nothing that it passed beats what it has   *)
(* by more than the tolerance, and that beats the selected one, or is it.    *)
Scanning(s) ==
  /\ IF s.minOutbound = Nil THEN s.minDelay = 0
     ELSE history[s.minOutbound] # Nil /\ s.minDelay = history[s.minOutbound] /\ s.minDelay # 0
  /\ \A o \in Members : o < s.next /\ Supports(o, s.network) /\ history[o] # Nil =>
       s.minOutbound # Nil /\ s.minDelay <= history[o] + tolerance
  /\ s.from # Nil /\ history[s.from] # Nil =>
       /\ s.minOutbound # Nil
       /\ s.from = s.minOutbound \/ s.minDelay + tolerance < history[s.from]
  /\ s.compared # Nil =>
       /\ s.compared = history[s.next]
       /\ s.minDelay = 0 \/ s.minDelay > history[s.next] + tolerance

(* Only outbounds of the network are considered and selected.                *)
OfNetwork ==
  /\ \A n \in Networks : selected[n] # Nil => Supports(selected[n], n)
  /\ writing # Nil => Supports(writing.to, writing.network)
  /\ \A p \in Actors : scan[p] # Nil =>
       /\ scan[p].from # Nil => Supports(scan[p].from, scan[p].network)
       /\ scan[p].minOutbound # Nil => Supports(scan[p].minOutbound, scan[p].network)
       /\ scan[p].compared # Nil =>
            /\ scan[p].next <= Size /\ history[scan[p].next] # Nil
            /\ Supports(scan[p].next, scan[p].network)

ScansRight ==
  \A p \in Actors :
    scan[p] # Nil /\ scan[p].stable /\ Comparable(scan[p].network) => Scanning(scan[p])

(* The inductive invariant behind SteadyChoice.                              *)
ScanInv == TypeOK /\ OfNetwork /\ ScansRight

(* A registered connection that the check under way is to interrupt.         *)
LeftBehind(c) ==
  /\ At(c, "open") /\ ~conn[c].late
  /\ conn[c].via # selected[conn[c].network]
  /\ conn[c].external => interruptExternal

(* The inductive invariant behind FollowsChoice: a selection that replaces   *)
(* another is remembered in updated until the interrupt.                     *)
ChoiceInv ==
  /\ \A c \in Conns : At(c, "dialing") \/ At(c, "open") => conn[c].via # Nil
  /\ writing # Nil =>
       /\ phase \in {"tcp", "udp", "panic"} /\ scan[Checker] = Nil
       /\ selected[writing.network] # Nil => updated
  /\ \A c \in Conns :
       LeftBehind(c) => updated /\ phase \in {"tcp", "udp", "interrupt", "panic"}
=============================================================================
