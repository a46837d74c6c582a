----------------------------- MODULE MCParts -----------------------------
(* The monitor's timer, the pipe of an upload and a routed connection, each  *)
(* for itself: a behaviour is one of the part that its first state names,    *)
(* while the others stand still in one initial state.                        *)
EXTENDS MonitorTimer, Relay

VARIABLE part

(* Four buffers of 2, 1, 2 and 2 bytes and a limit of 2 bytes.               *)
MCSize == <<2, 1, 2, 2>>

partsVars == <<part, vars, implVars, connVars>>

PartsInit ==
  /\ part \in {"timer", "pipe", "connection"}
  /\ Init /\ ImplInit /\ C!Init
  /\ part # "connection" => kind = "stream" /\ duplex = {}

PartsNext ==
  \/ part = "timer" /\ Next /\ UNCHANGED <<part, implVars, connVars>>
  \/ part = "pipe" /\ ImplNext /\ UNCHANGED <<part, vars, connVars>>
  \/ part = "connection" /\ C!Next /\ UNCHANGED <<part, vars, implVars>>

(* The fairness of the three modules; an action of a part that stands still  *)
(* is never enabled.                                                         *)
TimerStep(A) == part = "timer" /\ ~Panicked /\ A
ConnStep(A) == part = "connection" /\ A

PartsFairness ==
  /\ \A t \in Touchers : WF_vars(TimerStep(StartStep(t)))
  /\ \A r \in Runs :
       /\ WF_vars(TimerStep(LoopStep(r)))
       /\ SF_vars(TimerStep(LoopDone(r)))
       /\ WF_vars(TimerStep(Tick(r)))
  /\ \A s \in Stoppers : WF_vars(TimerStep(StopStep(s)))
  /\ WF_vars(TimerStep(CloseCancel \/ CloseReturn))
  /\ WF_implVars(part = "pipe" /\ WriterStep)
  /\ WF_implVars(part = "pipe" /\ ReaderStep)
  /\ \A d \in C!Directions :
       /\ WF_connVars(ConnStep(C!PreConnectionCopy(d)))
       /\ WF_connVars(ConnStep(C!Source(d) \notin open /\ C!CopyFails(d)))
       /\ WF_connVars(ConnStep(C!CopyClose(d) \/ C!StreamSwap(d) \/ C!PacketSwap(d)))

PartsSpec == PartsInit /\ [][PartsNext]_partsVars /\ PartsFairness
=============================================================================
