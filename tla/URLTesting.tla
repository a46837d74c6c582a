----------------------------- MODULE URLTesting -----------------------------
(* The urltest group, beside the other groups.                               *)
EXTENDS Naturals

CONSTANTS None, Torn, MaxUint16, Size, UDPOutbounds, TestedDelays, Tolerance, TestConns, Checker,
          MaxStores,
          SpareExternal  \* interruptExternalConnections, as a set of choices

ASSUME URLTestAssumption ==
  /\ Size \in Nat /\ MaxUint16 \in Nat
  /\ TestedDelays \subseteq 0 .. MaxUint16
  /\ Tolerance \subseteq 0 .. MaxUint16
  /\ None \notin Nat
  /\ Torn \notin 1 .. Size /\ Torn # None
  /\ SpareExternal \subseteq BOOLEAN
  /\ MaxStores \in Nat
  /\ Checker \notin TestConns

VARIABLES measured, chosen, writing, checking, pending, updated, scan, testConn, stores,
          tolerance, interruptAll

testVars == <<measured, chosen, writing, checking, pending, updated, scan, testConn, stores,
              tolerance, interruptAll>>

U == INSTANCE URLTestGroup WITH
  Nil <- None, Delays <- TestedDelays, Conns <- TestConns, InterruptExternal <- SpareExternal,
  history <- measured, selected <- chosen, phase <- checking, conn <- testConn,
  interruptExternal <- interruptAll

(* Select returns an outbound that no other beats by more than the           *)
(* tolerance, and leaves the selected one only for one that does (Select of  *)
(* protocol/group/urltest.go).                                               *)
SteadyChoice == U!SteadyChoice

(* A check leaves no connection behind on an outbound that it replaced       *)
(* (performUpdateCheck).                                                     *)
FollowsChoice == U!FollowsChoice
=============================================================================
