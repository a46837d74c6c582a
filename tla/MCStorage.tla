---------------------------- MODULE MCStorage ----------------------------
(* The saved test history, a remote rule-set, the groups that choose an      *)
(* outbound, and DNS over TLS: a behaviour is one of the part that its first *)
(* state names, while the others stand still in one initial state.  The      *)
(* hashing strategies, which FairTurns and FollowsLowest are not about, and  *)
(* the runs with an external connection start without a saved history.       *)
EXTENDS TestHistory, RoutingStore, Routing, URLTesting, TLSTransport

VARIABLE part

(* The hashed places of a key: 1, 2, 3 and, after the retries, 1.            *)
MCHash == [k \in Keys |-> [i \in 0 .. 3 |-> 1 + (i % 3)]]

FirstVersion == CHOOSE v \in Versions : TRUE

partsVars == <<part, historyVars, ruleVars, selVars, balVars, testVars, tlsVars>>

PartsInit ==
  /\ part \in {"history", "ruleset", "selector", "balancer", "urltest", "tls"}
  /\ H!Init /\ R!Init /\ S!Init /\ B!Init /\ U!Init /\ TLSInit
  /\ part # "ruleset" => served = FirstVersion /\ tagged /\ referenced
  /\ part # "selector" => ~interruptExternal
  /\ part # "balancer" => strategy = "round-robin" /\ \A o \in 1 .. 3 : known[o] = B!Untested
  /\ strategy # "lowest-delay" => \A c \in BalConns : ~balExternal[c]
  /\ balInterruptExternal => \A c \in BalConns : balExternal[c]
  /\ \/ strategy \in {"consistent-hashing", "sticky-sessions"}
     \/ \E c \in BalConns : balExternal[c]
     => \A o \in 1 .. 3 : known[o] = B!Untested
  /\ part # "urltest" => ~interruptAll /\ tolerance = 50

PartsNext ==
  \/ /\ part = "history" /\ H!Next
     /\ UNCHANGED <<part, ruleVars, selVars, balVars, testVars, tlsVars>>
  \/ /\ part = "ruleset" /\ R!Next
     /\ UNCHANGED <<part, historyVars, selVars, balVars, testVars, tlsVars>>
  \/ /\ part = "selector" /\ S!Next
     /\ UNCHANGED <<part, historyVars, ruleVars, balVars, testVars, tlsVars>>
  \/ /\ part = "balancer" /\ B!Next
     /\ UNCHANGED <<part, historyVars, ruleVars, selVars, testVars, tlsVars>>
  \/ /\ part = "urltest" /\ U!Next
     /\ UNCHANGED <<part, historyVars, ruleVars, selVars, balVars, tlsVars>>
  \/ /\ part = "tls" /\ TLSNext
     /\ UNCHANGED <<part, historyVars, ruleVars, selVars, balVars, testVars>>

PartsSpec == PartsInit /\ [][PartsNext]_partsVars
=============================================================================
