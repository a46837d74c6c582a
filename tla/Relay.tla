------------------------------- MODULE Relay -------------------------------
(* What carries the data of a routed connection: the pipe of an upload, and  *)
(* the two copies of the connection manager, each for itself.                *)
EXTENDS Pipe

CONSTANT Kinds  \* see ConnectionManager

VARIABLES kind, duplex, manager, listed, phase, open, copy, failed, swapped, handled,
          handshakeFailed, cause

C == INSTANCE ConnectionManager WITH done <- swapped

connVars == <<kind, duplex, manager, listed, phase, open, copy, failed, swapped,
              handled, handshakeFailed, cause>>

(* onClose is called at most once (connectionCopy and packetConnectionCopy   *)
(* share the flag done).                                                     *)
OnCloseOnce == C!OnCloseOnce

(* The end of one direction leaves the other one working (connectionCopy     *)
(* calls CloseWrite, not Close, where the far end has it).                   *)
HalfClose == C!HalfClose

(* Once one end is closed both are, and onClose is called (connectionCopy).  *)
EndsTogether == C!EndsTogether
=============================================================================
