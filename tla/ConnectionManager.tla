------------------------- MODULE ConnectionManager -------------------------
(* One connection handled by the connection manager (route/conn.go), stream  *)
(* or packet, against the manager's Close: the dial, the handshakes before   *)
(* the copies, the two copies, half close, and the close handler.            *)
EXTENDS Naturals

CONSTANT Kinds  \* the kinds of connection, out of "stream" and "packet"

VARIABLES kind,       \* the kind of the connection
          duplex,     \* which ends implement CloseWrite
          manager,    \* "open" or "closed"
          listed,     \* the connection is in m.connections
          phase,      \* where NewConnection is
          open,       \* ends that are not closed
          copy,       \* where each copy is
          failed,     \* the copy has ended with an error
          done,       \* the flag both copies share
          handled,    \* calls of onClose so far
          handshakeFailed, \* preConnectionCopy has failed
          cause       \* something other than two clean ends closes the connection

vars == <<kind, duplex, manager, listed, phase, open, copy, failed, done,
          handled, handshakeFailed, cause>>

Ends == {"conn", "remote"}
Directions == {"upload", "download"}
Source(d) == IF d = "upload" THEN "conn" ELSE "remote"
Destination(d) == IF d = "upload" THEN "remote" ELSE "conn"

TypeOK ==
  /\ kind \in Kinds
  /\ duplex \subseteq Ends
  /\ manager \in {"open", "closed"}
  /\ phase \in {"dial", "report", "push", "upload", "download", "copying", "failed"}
  /\ open \subseteq Ends
  /\ copy \in [Directions -> {"off", "running", "close", "swap", "ended"}]
  /\ failed \in [Directions -> BOOLEAN]
  /\ handled \in Nat
  /\ listed \in BOOLEAN
  /\ done \in BOOLEAN
  /\ handshakeFailed \in BOOLEAN
  /\ cause \in BOOLEAN

Init ==
  /\ kind \in Kinds
  /\ duplex \in SUBSET Ends
  /\ manager = "open"
  /\ listed = FALSE
  /\ phase = "dial"
  /\ open = {"conn"}
  /\ copy = [d \in Directions |-> "off"]
  /\ failed = [d \in Directions |-> FALSE]
  /\ done = FALSE
  /\ handled = 0
  /\ handshakeFailed = FALSE
  /\ cause = FALSE

-----------------------------------------------------------------------------
(* The dial opens the remote end, or fails: CloseOnHandshakeFailure closes   *)
(* the connection and calls onClose.                                        *)
Dial ==
  /\ phase = "dial"
  /\ \/ /\ phase' = "report"
        /\ open' = open \cup {"remote"}
        /\ UNCHANGED <<handled, cause>>
     \/ /\ phase' = "failed"
        /\ open' = {}
        /\ handled' = handled + 1
        /\ cause' = TRUE
  /\ UNCHANGED <<kind, duplex, manager, listed, copy, failed, done, handshakeFailed>>

(* The success is reported to the inbound.  When that fails both ends are    *)
(* closed; onClose is called for a stream only.                             *)
Report ==
  /\ phase = "report"
  /\ \/ phase' = "push" /\ UNCHANGED <<open, handled, cause>>
     \/ /\ phase' = "failed"
        /\ open' = {}
        /\ handled' = handled + (IF kind = "stream" THEN 1 ELSE 0)
        /\ cause' = TRUE
  /\ UNCHANGED <<kind, duplex, manager, listed, copy, failed, done, handshakeFailed>>

(* The connection is added to m.connections.  A packet connection is copied  *)
(* at once.                                                                 *)
PushBack ==
  /\ phase = "push"
  /\ listed' = TRUE
  /\ IF kind = "stream"
     THEN phase' = "upload" /\ UNCHANGED copy
     ELSE phase' = "copying" /\ copy' = [d \in Directions |-> "running"]
  /\ UNCHANGED <<kind, duplex, manager, open, failed, done, handled, handshakeFailed, cause>>

(* onClose takes the connection out of m.connections.                        *)
OnClose == handled' = handled + 1 /\ listed' = FALSE

(* done.Swap(true): onClose is left to the second of the two.                *)
SwapDone ==
  /\ done' = TRUE
  /\ IF done THEN OnClose ELSE UNCHANGED <<handled, listed>>

(* preConnectionCopy, for the upload and then for the download.  A failed    *)
(* handshake closes both ends, and NewConnection goes on all the same.      *)
PreConnectionCopy(d) ==
  /\ phase = d
  /\ \/ UNCHANGED <<done, handled, listed, open, handshakeFailed, cause>>
     \/ SwapDone /\ open' = {} /\ handshakeFailed' = TRUE /\ cause' = TRUE
  /\ IF d = "upload"
     THEN phase' = "download" /\ UNCHANGED copy
     ELSE phase' = "copying" /\ copy' = [e \in Directions |-> "running"]
  /\ UNCHANGED <<kind, duplex, manager, failed>>

-----------------------------------------------------------------------------
(* The copy reaches the end of its source, or fails; it does fail once its   *)
(* source is closed.                                                        *)
CopyEOF(d) ==
  /\ copy[d] = "running"
  /\ Source(d) \in open
  /\ copy' = [copy EXCEPT ![d] = IF kind = "stream" THEN "close" ELSE "swap"]
  /\ UNCHANGED <<kind, duplex, manager, listed, phase, open, failed, done, handled, handshakeFailed, cause>>

CopyFails(d) ==
  /\ copy[d] = "running"
  /\ copy' = [copy EXCEPT ![d] = IF kind = "stream" THEN "close" ELSE "swap"]
  /\ failed' = [failed EXCEPT ![d] = TRUE]
  /\ cause' = TRUE
  /\ UNCHANGED <<kind, duplex, manager, listed, phase, open, done, handled, handshakeFailed>>

(* The payload read ahead cannot be written.                                 *)
CachedFails(d) ==
  /\ kind = "stream"
  /\ copy[d] = "running"
  /\ SwapDone
  /\ open' = {}
  /\ cause' = TRUE
  /\ copy' = [copy EXCEPT ![d] = "ended"]
  /\ UNCHANGED <<kind, duplex, manager, phase, failed, handshakeFailed>>

(* As if a failed copy left it to the other one to close the ends.           *)
CopyCloseLeft(d) ==
  /\ copy[d] = "close"
  /\ copy' = [copy EXCEPT ![d] = "swap"]
  /\ \/ failed[d] /\ UNCHANGED <<open, cause>>
     \/ ~failed[d] /\ Destination(d) \in duplex /\ UNCHANGED <<open, cause>>
     \/ ~failed[d] /\ Destination(d) \in duplex /\ open' = {} /\ cause' = TRUE
     \/ ~failed[d] /\ Destination(d) \notin duplex /\ open' = open \ {Destination(d)} /\ cause' = TRUE
  /\ UNCHANGED <<kind, duplex, manager, listed, phase, failed, done, handled, handshakeFailed>>

(* connectionCopy after the copy: an error closes both ends, as does one of  *)
(* CloseWrite; an end without CloseWrite is closed.                         *)
CopyClose(d) ==
  /\ copy[d] = "close"
  /\ copy' = [copy EXCEPT ![d] = "swap"]
  /\ \/ failed[d] /\ open' = {} /\ UNCHANGED cause
     \/ ~failed[d] /\ Destination(d) \in duplex /\ UNCHANGED <<open, cause>>
     \/ ~failed[d] /\ Destination(d) \in duplex /\ open' = {} /\ cause' = TRUE
     \/ ~failed[d] /\ Destination(d) \notin duplex /\ open' = open \ {Destination(d)} /\ cause' = TRUE
  /\ UNCHANGED <<kind, duplex, manager, listed, phase, failed, done, handled, handshakeFailed>>

(* The second copy of a stream to end calls onClose and closes both ends.    *)
StreamSwap(d) ==
  /\ kind = "stream"
  /\ copy[d] = "swap"
  /\ copy' = [copy EXCEPT ![d] = "ended"]
  /\ SwapDone
  /\ open' = IF done THEN {} ELSE open
  /\ UNCHANGED <<kind, duplex, manager, phase, failed, handshakeFailed, cause>>

(* As if each copy called onClose.                                           *)
PacketSwapAlways(d) ==
  /\ kind = "packet"
  /\ copy[d] = "swap"
  /\ copy' = [copy EXCEPT ![d] = "ended"]
  /\ done' = TRUE
  /\ OnClose
  /\ open' = {}
  /\ cause' = TRUE
  /\ UNCHANGED <<kind, duplex, manager, phase, failed, handshakeFailed>>

(* packetConnectionCopy: the first to end calls onClose, both close.         *)
PacketSwap(d) ==
  /\ kind = "packet"
  /\ copy[d] = "swap"
  /\ copy' = [copy EXCEPT ![d] = "ended"]
  /\ done' = TRUE
  /\ IF done THEN UNCHANGED <<handled, listed>> ELSE OnClose
  /\ open' = {}
  /\ cause' = TRUE
  /\ UNCHANGED <<kind, duplex, manager, phase, failed, handshakeFailed>>

(* The manager closes the connections it lists; one that is being dialled    *)
(* is not among them.                                                       *)
Close ==
  /\ manager = "open"
  /\ manager' = "closed"
  /\ open' = IF listed THEN open \ {"conn"} ELSE open
  /\ cause' = (cause \/ listed)
  /\ listed' = FALSE
  /\ UNCHANGED <<kind, duplex, phase, copy, failed, done, handled, handshakeFailed>>

Next ==
  \/ Dial \/ Report \/ PushBack
  \/ \E d \in Directions :
       \/ PreConnectionCopy(d)
       \/ CopyEOF(d)
       \/ CopyFails(d)
       \/ CachedFails(d)
       \/ CopyClose(d)
       \/ StreamSwap(d)
       \/ PacketSwap(d)
  \/ Close

Spec == Init /\ [][Next]_vars

(* A handshake has a read deadline, reading a closed end fails, and what     *)
(* follows a copy does not block.                                           *)
Fairness ==
  \A d \in Directions :
    /\ WF_vars(PreConnectionCopy(d))
    /\ WF_vars(Source(d) \notin open /\ CopyFails(d))
    /\ WF_vars(CopyClose(d) \/ StreamSwap(d) \/ PacketSwap(d))

FairSpec == Spec /\ Fairness

-----------------------------------------------------------------------------
(* onClose is called at most once, whichever copy ends first, by whatever    *)
(* error, against the manager's Close (the shared done.Swap, used one way    *)
(* for streams and the other way for packets).  After a failed handshake it  *)
(* is not: preConnectionCopy swaps done, and the copies that still start     *)
(* each find it set.                                                         *)
OnCloseOnce == handled > 1 => handshakeFailed

(* The clean end of one direction of a stream leaves the other one working:  *)
(* an end is closed only after an error, the manager's Close, an end without *)
(* CloseWrite, or the end of both directions (connectionCopy).               *)
HalfClose ==
  phase = "copying" /\ open # Ends =>
    cause \/ \A d \in Directions : copy[d] \in {"swap", "ended"}

(* Once one end is closed, both are in the end, and onClose is called, by    *)
(* whichever path.  There are two exceptions.  A packet connection whose      *)
(* inbound cannot be told of the success is closed without onClose           *)
(* (NewPacketConnection).  And Close only closes the inbound end: when the   *)
(* upload has come to a clean end before, the download goes on waiting for   *)
(* the remote end.                                                           *)
EndsTogether ==
  phase # "dial" /\ open # Ends
    ~> \/ open = {} /\ (handled > 0 \/ (kind = "packet" /\ phase = "failed"))
       \/ /\ manager = "closed" /\ open = {"remote"}
          /\ copy["upload"] = "ended" /\ ~failed["upload"] /\ copy["download"] = "running"

OneEnded == \E d \in Directions : copy[d] = "ended"
AllEnded == \A d \in Directions : copy[d] = "ended"

(* The inductive invariant behind OnCloseOnce and HalfClose: what the shared *)
(* flag tells of the copies.                                                 *)
FlagTells ==
  /\ phase # "copying" => \A d \in Directions : copy[d] = "off"
  /\ phase = "copying" => \A d \in Directions : copy[d] # "off"
  /\ phase = "dial" => open = {"conn"}
  /\ phase \in {"dial", "report", "push"} => ~handshakeFailed /\ ~listed
  /\ kind = "packet" => phase \notin Directions /\ \A d \in Directions : copy[d] # "close"
  /\ ~handshakeFailed =>
       /\ done <=> OneEnded
       /\ phase \in {"dial", "report", "push", "upload", "download"} => handled = 0
       /\ phase = "failed" => handled <= 1
       /\ phase = "copying" /\ kind = "stream" => handled = IF AllEnded THEN 1 ELSE 0
       /\ phase = "copying" /\ kind # "stream" => handled = IF OneEnded THEN 1 ELSE 0
  /\ handshakeFailed \/ (\E d \in Directions : failed[d]) => cause
  /\ ~cause /\ phase \in {"report", "push", "upload", "download", "copying"} =>
       open = Ends \/ AllEnded

ConnectionInv == TypeOK /\ FlagTells
=============================================================================
