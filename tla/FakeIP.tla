------------------------------- MODULE FakeIP -------------------------------
(* The FakeIP store (module FakeIPStore), under names of its own.            *)
EXTENDS Naturals

CONSTANTS Callers, Domains, Configs, NoRange, Last

VARIABLES
  config, current, fakeStatus, call, saving, timer, buckets, address, domain, metadata, kept

fakeVars == <<config, current, fakeStatus, call, saving, timer, buckets, address, domain,
              metadata, kept>>

F == INSTANCE FakeIPStore WITH status <- fakeStatus

(* The address of a domain leads back to the domain (FakeIPStore and         *)
(* FakeIPLoad of experimental/cachefile/fakeip.go).                          *)
Resolves == F!Resolves

(* Create of dns/transport/fakeip/store.go answers with an address of the    *)
(* configured range.                                                         *)
AnswerInRange == F!AnswerInRange
=============================================================================
