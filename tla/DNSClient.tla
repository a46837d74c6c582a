----------------------------- MODULE DNSClient -----------------------------
(* The DNS client (dns/client.go) and the rejected response cache            *)
(* (experimental/cachefile/rdrc.go), for one question asked through one      *)
(* transport by several callers with a response checker: the lock per        *)
(* question that lets one of them ask while the others wait, the answer      *)
(* cache, and the rejections remembered in memory until they are saved.      *)
EXTENDS Naturals

CONSTANTS Callers,
          Nobody,
          MaxSavers  \* bound on the goroutines of SaveRDRCAsync

VARIABLES step,      \* where each call of Exchange is
          waitsFor,  \* the call whose cond a waiter has got hold of
          cacheLock, \* the call that has its cond in the map, or Nobody
          owns,      \* the call has made a cond
          cached,    \* the answer is in the cache
          saveRDRC,  \* the mark that a rejection is being saved
          unsaved,   \* goroutines of SaveRDRCAsync before their save
          unmarking, \* ... and after it
          rdrc,      \* the rejection in the cache file: "none", "fresh", "expired"
          lost       \* an answer or a rejection is gone since nobody was at work

rejections == <<saveRDRC, unsaved, unmarking, rdrc>>
vars == <<step, waitsFor, cacheLock, owns, cached, rejections, lost>>

TypeOK ==
  /\ step \in [Callers -> {"idle", "wait", "load", "rdrc", "view", "delete", "exchange", "return", "close"}]
  /\ waitsFor \in [Callers -> Callers \cup {Nobody}]
  /\ cacheLock \in Callers \cup {Nobody}
  /\ owns \in [Callers -> BOOLEAN]
  /\ cached \in BOOLEAN
  /\ saveRDRC \in BOOLEAN
  /\ lost \in BOOLEAN
  /\ unsaved \in Nat
  /\ unmarking \in Nat
  /\ rdrc \in {"none", "fresh", "expired"}

Init ==
  /\ step = [p \in Callers |-> "idle"]
  /\ waitsFor = [p \in Callers |-> Nobody]
  /\ cacheLock = Nobody
  /\ owns = [p \in Callers |-> FALSE]
  /\ cached = FALSE
  /\ saveRDRC = FALSE
  /\ unsaved = 0
  /\ unmarking = 0
  /\ rdrc = "none"
  /\ lost = FALSE

Goto(p, s) == step' = [step EXCEPT ![p] = s]

-----------------------------------------------------------------------------
(* Exchange puts a cond into cacheLock, or waits for the one that is there.  *)
Exchange(p) ==
  /\ step[p] = "idle"
  /\ lost' = (lost /\ (unsaved + unmarking > 0 \/ \E q \in Callers : step[q] # "idle"))
  /\ IF cacheLock = Nobody
     THEN /\ cacheLock' = p
          /\ owns' = [owns EXCEPT ![p] = TRUE]
          /\ Goto(p, "load")
          /\ UNCHANGED waitsFor
     ELSE /\ waitsFor' = [waitsFor EXCEPT ![p] = cacheLock]
          /\ Goto(p, "wait")
          /\ UNCHANGED <<cacheLock, owns>>
  /\ UNCHANGED <<cached, rejections>>

(* "cache wait timeout", or the caller's context is done.                    *)
WaitTimeout(p) ==
  /\ step[p] = "wait"
  /\ waitsFor' = [waitsFor EXCEPT ![p] = Nobody]
  /\ Goto(p, "idle")
  /\ UNCHANGED <<cacheLock, owns, cached, rejections, lost>>

loadResponse(p) ==
  /\ step[p] = "load"
  /\ Goto(p, IF cached THEN "return" ELSE "rdrc")
  /\ UNCHANGED <<waitsFor, cacheLock, owns, cached, rejections, lost>>

(* LoadRDRC: the mark, then the cache file; an expired entry is deleted in a *)
(* transaction of its own.                                                  *)
LoadRDRCMark(p) ==
  /\ step[p] = "rdrc"
  /\ Goto(p, IF saveRDRC THEN "return" ELSE "view")
  /\ UNCHANGED <<waitsFor, cacheLock, owns, cached, rejections, lost>>

(* The transaction reads the entry, or fails, which counts as no entry.      *)
LoadRDRCView(p) ==
  /\ step[p] = "view"
  /\ \/ /\ Goto(p, CASE rdrc = "fresh" -> "return" [] rdrc = "expired" -> "delete" [] rdrc = "none" -> "exchange")
        /\ UNCHANGED lost
     \/ /\ Goto(p, "exchange")
        /\ lost' = (lost \/ rdrc = "fresh")
  /\ UNCHANGED <<waitsFor, cacheLock, owns, cached, rejections>>

LoadRDRCDelete(p) ==
  /\ step[p] = "delete"
  /\ rdrc' \in {"none", rdrc}
  /\ lost' = (lost \/ rdrc = "fresh")
  /\ Goto(p, "exchange")
  /\ UNCHANGED <<waitsFor, cacheLock, owns, cached, saveRDRC, unsaved, unmarking>>

(* The transport answers, and the answer is accepted and cached ...          *)
Accepted(p) ==
  /\ step[p] = "exchange"
  /\ cached' = TRUE
  /\ Goto(p, "return")
  /\ UNCHANGED <<waitsFor, cacheLock, owns, rejections, lost>>

(* As if the mark were set by the goroutine that saves.                      *)
RejectedUnmarked(p) ==
  /\ step[p] = "exchange"
  /\ unsaved + unmarking < MaxSavers
  /\ unsaved' = unsaved + 1
  /\ Goto(p, "return")
  /\ UNCHANGED <<waitsFor, cacheLock, owns, cached, saveRDRC, unmarking, rdrc, lost>>

(* ... or rejected by the checker: SaveRDRCAsync marks the rejection and     *)
(* leaves the saving to a goroutine ...                                     *)
Rejected(p) ==
  /\ step[p] = "exchange"
  /\ unsaved + unmarking < MaxSavers
  /\ saveRDRC' = TRUE
  /\ unsaved' = unsaved + 1
  /\ Goto(p, "return")
  /\ UNCHANGED <<waitsFor, cacheLock, owns, cached, unmarking, rdrc, lost>>

(* ... or there is an error, or an answer that must not be cached.           *)
Uncached(p) ==
  /\ step[p] = "exchange"
  /\ lost' = TRUE
  /\ Goto(p, "return")
  /\ UNCHANGED <<waitsFor, cacheLock, owns, cached, rejections>>

(* The deferred end of Exchange: the cond leaves the map and is then closed. *)
Return(p) ==
  /\ step[p] = "return"
  /\ IF owns[p]
     THEN cacheLock' = Nobody /\ Goto(p, "close")
     ELSE Goto(p, "idle") /\ UNCHANGED cacheLock
  /\ UNCHANGED <<waitsFor, owns, cached, rejections, lost>>

CloseCond(p) ==
  /\ step[p] = "close"
  /\ step' = [q \in Callers |-> IF q = p THEN "idle"
                                ELSE IF waitsFor[q] = p THEN "load" ELSE step[q]]
  /\ waitsFor' = [q \in Callers |-> IF waitsFor[q] = p THEN Nobody ELSE waitsFor[q]]
  /\ owns' = [owns EXCEPT ![p] = FALSE]
  /\ UNCHANGED <<cacheLock, cached, rejections, lost>>

-----------------------------------------------------------------------------
(* The goroutine of SaveRDRCAsync saves, or fails to, and removes the mark.  *)
SaveRDRC ==
  /\ unsaved > 0
  /\ unsaved' = unsaved - 1
  /\ unmarking' = unmarking + 1
  /\ \/ rdrc' = "fresh" /\ UNCHANGED lost
     \/ lost' = TRUE /\ UNCHANGED rdrc
  /\ UNCHANGED <<step, waitsFor, cacheLock, owns, cached, saveRDRC>>

Unmark ==
  /\ unmarking > 0
  /\ unmarking' = unmarking - 1
  /\ saveRDRC' = FALSE
  /\ UNCHANGED <<step, waitsFor, cacheLock, owns, cached, unsaved, rdrc, lost>>

(* Time passes for the answer or the rejection, or the cache is cleared.     *)
Expire ==
  /\ \/ cached /\ cached' = FALSE /\ UNCHANGED rdrc
     \/ rdrc = "fresh" /\ rdrc' = "expired" /\ UNCHANGED cached
  /\ lost' = TRUE
  /\ UNCHANGED <<step, waitsFor, cacheLock, owns, saveRDRC, unsaved, unmarking>>

Next ==
  \/ \E p \in Callers :
       \/ Exchange(p) \/ WaitTimeout(p) \/ loadResponse(p)
       \/ LoadRDRCMark(p) \/ LoadRDRCView(p) \/ LoadRDRCDelete(p)
       \/ Accepted(p) \/ Rejected(p) \/ Uncached(p)
       \/ Return(p) \/ CloseCond(p)
  \/ SaveRDRC \/ Unmark \/ Expire

Spec == Init /\ [][Next]_vars

-----------------------------------------------------------------------------
(* Callers of the same question at the same time cost one query of the       *)
(* transport: while one asks, nobody else does, and those it kept waiting    *)
(* find its answer in the cache or its rejection among the marks or in the   *)
(* cache file, as long as neither expires, cannot be saved or read or may    *)
(* not be cached (cacheLock's LoadOrStore, storeCache and SaveRDRCAsync before the  *)
(* deferred close of the cond).                                              *)
Coalesced ==
  ~lost => \A p, q \in Callers : step[p] = "exchange" /\ step[q] = "exchange" => p = q

Asking == {"rdrc", "view", "delete", "exchange"}
Rejection == rdrc = "fresh" \/ (saveRDRC /\ unsaved > 0)
Known == cached \/ Rejection

(* The inductive invariant behind it: before the outcome is known only the   *)
(* call whose cond is in the map asks, and once it is known nobody gets as   *)
(* far as the transport.                                                     *)
ClientInv ==
  /\ TypeOK
  /\ \A p \in Callers :
       /\ owns[p] => step[p] \in Asking \cup {"load", "return", "close"}
       /\ step[p] = "close" => owns[p]
       /\ cacheLock = p <=> owns[p] /\ step[p] # "close"
       /\ waitsFor[p] # Nobody => step[p] = "wait"
  /\ saveRDRC => unsaved + unmarking > 0
  /\ ~lost =>
       /\ unmarking > 0 => rdrc = "fresh"
       /\ unsaved > 0 => Rejection
       /\ \A p \in Callers :
            /\ step[p] \in {"return", "close"} => Known
            /\ step[p] \in Asking \cup {"load"} /\ ~owns[p] => Known
            /\ step[p] \in {"delete", "exchange"} => ~Known
            /\ step[p] = "rdrc" /\ Known => Rejection
            /\ step[p] = "view" /\ Known => rdrc = "fresh"
=============================================================================
