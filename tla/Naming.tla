------------------------------- MODULE Naming -------------------------------
(* The DNS client with its cache (module DNSClient), under names of its own. *)
EXTENDS Naturals

CONSTANTS Askers, Nobody, MaxSavers

VARIABLES
  step, waitsFor, cacheLock, owns, cached, saveRDRC, unsaved, unmarking, rdrc, lost

dnsVars == <<step, waitsFor, cacheLock, owns, cached, saveRDRC, unsaved, unmarking, rdrc, lost>>

D == INSTANCE DNSClient WITH Callers <- Askers

(* Concurrent callers of one question cost one query (Exchange of            *)
(* dns/client.go).                                                           *)
Coalesced == D!Coalesced
=============================================================================
