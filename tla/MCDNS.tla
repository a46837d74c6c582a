------------------------------- MODULE MCDNS -------------------------------
(* The identifiers of DNS over UDP, the DNS client and the FakeIP store,     *)
(* each for itself: a behaviour is one of the part that its first state      *)
(* names, while the others stand still in one initial state.                 *)
EXTENDS MCUDPTransport, Naming, FakeIP

VARIABLE part

MCConfigs == {[inet4 |-> "a4", inet6 |-> "a6"], [inet4 |-> "b4", inet6 |-> NoRange]}
MCLast == [inet4 |-> 3, inet6 |-> 2]

partsVars == <<part, vars, fakeVars, dnsVars>>

PartsInit ==
  /\ part \in {"udp", "fakeip", "dns"}
  /\ Init /\ F!Init /\ D!Init
  /\ part # "fakeip" => config.inet4 = "a4"

PartsNext ==
  \/ part = "udp" /\ Next /\ UNCHANGED <<part, fakeVars, dnsVars>>
  \/ part = "fakeip" /\ F!Next /\ UNCHANGED <<part, vars, dnsVars>>
  \/ part = "dns" /\ D!Next /\ UNCHANGED <<part, vars, fakeVars>>

PartsSpec == PartsInit /\ [][PartsNext]_partsVars
=============================================================================
