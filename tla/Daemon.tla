------------------------------- MODULE Daemon -------------------------------
(* The service of the daemon (module StartedService), under names of its own *)
(* for Init, Next and Spec.                                                  *)
EXTENDS Integers

CONSTANTS Clients, MaxInstances, NoClient

ASSUME ServiceAssumption == MaxInstances \in Nat /\ NoClient \notin Clients

VARIABLES serviceStatus, serviceAccess, instance, boxes, boxDone, boxFailed, pc, role, mine,
          err, stale, crashed

D == INSTANCE StartedService WITH
       Callers <- Clients, Nobody <- NoClient, made <- boxes, done <- boxDone,
       failed <- boxFailed

ServiceSpec == D!FairSpec

(* No instance is left running without a handle: one that is not in          *)
(* s.instance has been closed, whatever calls of startOrReloadServiceImp and *)
(* CloseService overlapped.                                                  *)
NoInstanceLeft == D!NoInstanceLeft

(* A stop that has begun (CloseService) ends, also while a start hangs.      *)
StopEnds == D!StopEnds
=============================================================================
