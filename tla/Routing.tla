------------------------------ MODULE Routing ------------------------------
(* The group that spreads connections over its outbounds (module Balancer),  *)
(* under names of its own.                                                   *)
EXTENDS Naturals, FiniteSets

CONSTANTS Strategies, N, Delays, Cached, Ratio, MaxRetry, Keys, Hash, OtherN, BalConns,
          BalInterrupt, MaxTests, Unset

ASSUME RoutingAssumption ==
  N \in Nat \ {0} /\ Delays \subseteq Nat /\ Cached \subseteq Nat

VARIABLES
  strategy, known, signal, observer, balWorker, info, used, idx, lruCache, turns,
  key, balVia, balConn, balLate, balExternal, balInterruptExternal, tests

balVars == <<strategy, known, signal, observer, balWorker, info, used, idx, lruCache, turns,
             key, balVia, balConn, balLate, balExternal, balInterruptExternal, tests>>

B == INSTANCE Balancer WITH
  Nil <- Unset, Conns <- BalConns, MaxResults <- MaxTests, history <- known,
  phase <- balWorker, via <- balVia, conn <- balConn, late <- balLate, external <- balExternal,
  InterruptExternal <- BalInterrupt, interruptExternal <- balInterruptExternal,
  results <- tests

(* Round-robin gives equal turns (Select of the round-robin strategy).       *)
FairTurns == B!FairTurns

(* Lowest-delay leaves no connection behind on a slower outbound that it is  *)
(* to interrupt (UpdateOutboundsInfo of the strategy and Group.Interrupt).   *)
FollowsLowest == B!FollowsLowest
=============================================================================
