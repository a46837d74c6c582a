---- MODULE MCOutboundMonitor ----
(* Instances of OutboundMonitor: g is a group of all outbounds, and a2     *)
(* dials through a1.                                                       *)
EXTENDS OutboundMonitor, TLC
CONSTANTS a1, a2, g
MCMembers == [x \in {g} |-> {a1, a2}]
MCDependenciesInverse ==
  [t \in {a1, a2, g} |-> CASE t = a1 -> {a2, g} [] t = a2 -> {g} [] t = g -> {}]
MCMembers1 == [x \in {g} |-> {a1}]
MCDependenciesInverse1 == [t \in {a1, g} |-> IF t = a1 THEN {g} ELSE {}]
Symmetry == Permutations(Workers)
====
