---------------------------- MODULE FakeIPStore ----------------------------
(* The FakeIP store (dns/transport/fakeip/store.go) over the cache file     *)
(* (experimental/cachefile/fakeip.go): queries are answered with addresses  *)
(* of the configured ranges in turn, the addresses and the place in the     *)
(* range outlive the process, and the configuration may change between two  *)
(* runs of it.  The memory storage (memory.go) is the case of a cache file  *)
(* that is empty at every start.                                            *)
EXTENDS Naturals

CONSTANTS Callers,   \* concurrent queries
          Domains,
          Configs,   \* configurations: a range for each family
          NoRange,   \* a family without a range
          Last       \* index of the last address of a family's ranges

VARIABLES config,    \* the configuration of this run: inet4Range, inet6Range
          current,   \* inet4Current, inet6Current, as indices; 0 is invalid
          status,    \* the process: "up", "closing" or "down"
          call,      \* what each query is doing
          saving,    \* the metadata Close has read and not yet saved
          timer,     \* saveMetadataTimer: armed?, and the metadata it will save
          buckets,   \* the buckets that exist in the cache file
          address,   \* bucket fakeip_address: address -> domain
          domain,    \* buckets fakeip_domain4 and 6: domain -> address
          metadata,  \* the key fakeip_metadata
          kept       \* a Start kept addresses it wanted to reset

store == <<buckets, address, domain, metadata>>
vars == <<config, current, status, call, saving, timer, store, kept>>

Families == {"inet4", "inet6"}
First == 2  \* the range's Addr().Next().Next()
Ranges == {c[f] : c \in Configs, f \in Families} \ {NoRange}
Addresses == UNION {[family : {f}, range : Ranges, index : First..Last[f]] : f \in Families}
None == [none |-> TRUE]
Idle == [idle |-> TRUE]
Metadata(c, cur) == [config |-> c, current |-> cur]

TypeOK ==
  /\ config \in Configs
  /\ DOMAIN current = Families /\ \A f \in Families : current[f] \in {0} \cup First..Last[f]
  /\ status \in {"up", "closing", "down"}
  /\ buckets \subseteq Families \cup {"address"}
  /\ DOMAIN address \subseteq Addresses
  /\ \A f \in Families : DOMAIN domain[f] \subseteq Domains
  /\ call \in [Callers -> {Idle} \cup [domain : Domains, family : Families]]

Init ==
  /\ config \in Configs
  /\ current = [f \in Families |-> 0]
  /\ status = "down"
  /\ call = [p \in Callers |-> Idle]
  /\ saving = None
  /\ timer = [armed |-> FALSE, saves |-> None]
  /\ buckets = {}
  /\ address = <<>>
  /\ domain = [f \in Families |-> <<>>]
  /\ metadata = None
  /\ kept = FALSE

-----------------------------------------------------------------------------
Emptied ==
  /\ buckets' = {}
  /\ address' = <<>>
  /\ domain' = [f \in Families |-> <<>>]

(* FakeIPReset deletes the three buckets, or none of them when one is        *)
(* missing: the transaction fails, and Start ignores its error.             *)
FakeIPReset ==
  IF buckets = Families \cup {"address"}
  THEN Emptied /\ kept' = FALSE
  ELSE UNCHANGED <<buckets, address, domain>> /\ kept' = (DOMAIN address # {})

(* As if Start went on from any saved metadata.                              *)
StartAnyRange(c) ==
  /\ status = "down"
  /\ status' = "up"
  /\ config' = c
  /\ metadata' = None
  /\ IF metadata # None
     THEN /\ current' = metadata.current
          /\ UNCHANGED <<buckets, address, domain, kept>>
     ELSE /\ current' = [f \in Families |-> IF c[f] = NoRange THEN 0 ELSE First]
          /\ FakeIPReset
  /\ UNCHANGED <<call, saving, timer>>

(* Start takes the metadata out of the cache file.  With the ranges of this  *)
(* run it goes on where the last run stopped, otherwise it starts over.     *)
Start(c) ==
  /\ status = "down"
  /\ status' = "up"
  /\ config' = c
  /\ metadata' = None
  /\ IF metadata # None /\ metadata.config = c
     THEN /\ current' = metadata.current
          /\ UNCHANGED <<buckets, address, domain, kept>>
     ELSE /\ current' = [f \in Families |-> IF c[f] = NoRange THEN 0 ELSE First]
          /\ FakeIPReset
  /\ UNCHANGED <<call, saving, timer>>

(* Create looks the domain up without the lock; a domain that has an address *)
(* is answered with it at once, which changes nothing ...                   *)
CreateCall(p, d, f) ==
  /\ status = "up"
  /\ call[p] = Idle
  /\ d \notin DOMAIN domain[f]
  /\ call' = [call EXCEPT ![p] = [domain |-> d, family |-> f]]
  /\ UNCHANGED <<config, current, status, saving, timer, store, kept>>

NextAddress(f) == IF current[f] < Last[f] THEN current[f] + 1 ELSE First

With(bucket, k, v) == [x \in DOMAIN bucket \cup {k} |-> IF x = k THEN v ELSE bucket[x]]

(* As if the old domain of a reused address kept it.                         *)
StoreKeepsOld(a, d) ==
  /\ buckets' = buckets \cup {"address", a.family}
  /\ address' = With(address, a, d)
  /\ domain' = [domain EXCEPT ![a.family] = With(@, d, a)]

(* FakeIPStore, one transaction: the address is the domain's, and the domain *)
(* that had it loses it.                                                    *)
Store(a, d) ==
  /\ buckets' = buckets \cup {"address", a.family}
  /\ address' = With(address, a, d)
  /\ domain' = [domain EXCEPT ![a.family] =
       With([e \in {e \in DOMAIN @ : a \in DOMAIN address => e # address[a]} |-> @[e]], d, a)]

(* FakeIPSaveMetadataAsync: the timer keeps the metadata it was made with,   *)
(* later calls only arm it again.                                           *)
SaveMetadataAsync(m) ==
  timer' = [armed |-> TRUE, saves |-> IF timer.saves = None THEN m ELSE timer.saves]

(* ... and once more with it; a new domain gets the next address of the      *)
(* range, even when the cache file refuses to store it.                     *)
CreateLocked(p) ==
  LET d == call[p].domain
      f == call[p].family
      a == [family |-> f, range |-> config[f], index |-> NextAddress(f)]
  IN
  /\ status # "down"
  /\ call[p] # Idle
  /\ \/ /\ d \in DOMAIN domain[f] \/ config[f] = NoRange
        /\ UNCHANGED <<current, timer, buckets, address, domain>>
     \/ /\ d \notin DOMAIN domain[f]
        /\ config[f] # NoRange
        /\ current' = [current EXCEPT ![f] = a.index]
        /\ Store(a, d) \/ UNCHANGED <<buckets, address, domain>>
        /\ SaveMetadataAsync(Metadata(config, current'))
  /\ call' = [call EXCEPT ![p] = Idle]
  /\ UNCHANGED <<config, status, saving, metadata, kept>>

SaveMetadata(m) ==
  /\ metadata' = m
  /\ buckets' = buckets \cup {"address"}
  /\ UNCHANGED <<address, domain>>

TimerFires ==
  /\ status # "down"
  /\ timer.armed
  /\ SaveMetadata(timer.saves)
  /\ timer' = [timer EXCEPT !.armed = FALSE]
  /\ UNCHANGED <<config, current, status, call, saving, kept>>

(* Close reads the place in the ranges under the lock and saves it after.    *)
CloseRead ==
  /\ status = "up"
  /\ status' = "closing"
  /\ saving' = Metadata(config, current)
  /\ UNCHANGED <<config, current, call, timer, store, kept>>

CloseSave ==
  /\ saving # None
  /\ SaveMetadata(saving)
  /\ saving' = None
  /\ UNCHANGED <<config, current, status, call, timer, kept>>

(* The control API flushes the addresses (clashapi's flushFakeip), and the   *)
(* metadata beside them; a reset that fails changes nothing.                *)
FlushFakeip ==
  /\ status # "down"
  /\ buckets = Families \cup {"address"}
  /\ Emptied
  /\ metadata' = None
  /\ kept' = FALSE
  /\ UNCHANGED <<config, current, status, call, saving, timer>>

(* The process ends, after Close or without it.  The memory storage ends     *)
(* with it, and a cache file that turns out corrupted is removed.           *)
Exit ==
  /\ status # "down"
  /\ status' = "down"
  /\ current' = [f \in Families |-> 0]
  /\ call' = [p \in Callers |-> Idle]
  /\ saving' = None
  /\ timer' = [armed |-> FALSE, saves |-> None]
  /\ \/ UNCHANGED <<store, kept>>
     \/ Emptied /\ metadata' = None /\ kept' = FALSE
  /\ UNCHANGED config

Next ==
  \/ \E c \in Configs : Start(c)
  \/ \E p \in Callers, d \in Domains, f \in Families : CreateCall(p, d, f)
  \/ \E p \in Callers : CreateLocked(p)
  \/ TimerFires
  \/ CloseRead
  \/ CloseSave
  \/ FlushFakeip
  \/ Exit

Spec == Init /\ [][Next]_vars

-----------------------------------------------------------------------------
(* The two directions of the store agree: the address a query would be       *)
(* answered with leads a connection back to the same domain (FakeIPLoad      *)
(* after FakeIPLoadDomain), and no address leads to a domain that is         *)
(* answered with another one, through concurrent queries, reused addresses,  *)
(* crashes and changed ranges.                                              *)
Resolves ==
  /\ \A f \in Families : \A d \in DOMAIN domain[f] :
       /\ domain[f][d] \in DOMAIN address
       /\ address[domain[f][d]] = d
  /\ \A a \in DOMAIN address :
       /\ address[a] \in DOMAIN domain[a.family]
       /\ domain[a.family][address[a]] = a

(* Every address a query would be answered with lies in the range configured *)
(* for its family, so that Contains recognises the connection that follows,  *)
(* unless Start could not reset the store: FakeIPReset fails as long as one   *)
(* of the two families was never asked for, and Start ignores it.            *)
AnswerInRange ==
  status = "up" /\ ~kept =>
    \A f \in Families : \A d \in DOMAIN domain[f] : domain[f][d].range = config[f]

(* The inductive invariant behind both: a bucket holds addresses of its      *)
(* family, and whatever may be saved as metadata is of the ranges that the   *)
(* addresses lie in.                                                         *)
StoreInv ==
  /\ domain = [f \in Families |-> domain[f]]
  /\ call = [p \in Callers |-> call[p]]
  /\ timer = [armed |-> timer.armed, saves |-> timer.saves]
  /\ \A f \in Families : \A d \in DOMAIN domain[f] : domain[f][d].family = f
  /\ \A a \in DOMAIN address : a.family \in Families
  /\ \A p \in Callers : call[p] # Idle => call[p].family \in Families
  /\ Resolves
  /\ timer.armed \/ timer.saves # None => timer.saves.config = config
  /\ saving # None => saving.config = config
  /\ metadata # None => metadata.config = config
  /\ status = "down" => ~timer.armed /\ timer.saves = None /\ saving = None
  /\ ~kept => \A f \in Families : \A d \in DOMAIN domain[f] : domain[f][d].range = config[f]
=============================================================================
