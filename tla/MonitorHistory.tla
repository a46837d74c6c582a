--------------------------- MODULE MonitorHistory ---------------------------
(* The test history of the outbound monitor and its copy in the cache file  *)
(* (common/monitoring/outbound_monitoring.go): workers apply test results,  *)
(* the end of a cycle and the end of the timer each save the history when   *)
(* cacheDirty says so, and the process may end and start again at any time. *)
(* Groups are left out: loadHistory does not restore them.                  *)
(*                                                                          *)
(* applyResult also hands &state.history itself to the HistoryStorage that  *)
(* the URL-test groups, the Clash API and the daemon share                  *)
(* (common/urltest/urltest.go).  What they store for the outbound is then   *)
(* written into it, under the lock of the storage but not under state.mu.   *)
(*                                                                          *)
(* The Time of a test is left out.  It is saved as well, but a result that  *)
(* brings only a later Time does not raise cacheDirty.                      *)
EXTENDS Naturals

CONSTANTS Outbounds,     \* the tested outbounds
          Delays,        \* the delays a test may measure, above 0
          TimeoutDelay,  \* the delay that stands for a failed test
          IpInfos,       \* what the IP lookup of a test may answer
          NoIp,          \* no IpInfo (nil)
          MaxResults     \* bound on the results applied or stored

VARIABLES history,    \* state.history of every outbound
          applying,   \* the result whose applyResult holds state.mu, per outbound
          cacheDirty, \* m.cacheDirty
          saving,     \* which of the two callers are in saveHistory
          unread,     \* the outbounds each has not read yet
          copied,     \* the snapshot of each, as far as it is read
          disk,       \* the saved history in the cache file
          missed,     \* the last save began while another was under way, or failed
          results,    \* results applied or stored so far
          entry,      \* whose object the HistoryStorage has for each outbound
          overwritten \* those whose history others have written since a save read it

vars == <<history, applying, cacheDirty, saving, unread, copied, disk, missed, results,
          entry, overwritten>>

Savers == {"cycle", "stop"}
Nothing == [delay |-> 0, ip |-> NoIp]
History == [delay : {0, TimeoutDelay} \cup Delays, ip : {NoIp} \cup IpInfos]
Results == [delay : {TimeoutDelay} \cup Delays, ip : {NoIp} \cup IpInfos]
NoResult == [delay |-> 0, ip |-> NoIp]
Empty == [o \in Outbounds |-> Nothing]

TypeOK ==
  /\ history \in [Outbounds -> History]
  /\ applying \in [Outbounds -> Results \cup {NoResult}]
  /\ cacheDirty \in BOOLEAN
  /\ saving \subseteq Savers
  /\ unread \in [Savers -> SUBSET Outbounds]
  /\ copied \in [Savers -> [Outbounds -> History]]
  /\ disk \in [Outbounds -> History]
  /\ missed \in BOOLEAN
  /\ results \in 0..MaxResults
  /\ entry \in [Outbounds -> {"none", "state", "other"}]
  /\ overwritten \subseteq Outbounds

Init ==
  /\ history = Empty
  /\ applying = [o \in Outbounds |-> NoResult]
  /\ cacheDirty = FALSE
  /\ saving = {}
  /\ unread = [s \in Savers |-> {}]
  /\ copied = [s \in Savers |-> Empty]
  /\ disk = history
  /\ missed = FALSE
  /\ results = 0
  /\ entry = [o \in Outbounds |-> "none"]
  /\ overwritten = {}

-----------------------------------------------------------------------------
(* applyResult takes state.mu and raises cacheDirty when the delay changed,  *)
(* no IpInfo is known or the result brings one.                             *)
ApplyMark(o, r) ==
  /\ results < MaxResults
  /\ applying[o] = NoResult
  /\ applying' = [applying EXCEPT ![o] = r]
  /\ cacheDirty' = (\/ cacheDirty
                    \/ r.delay # history[o].delay
                    \/ history[o].ip = NoIp
                    \/ r.ip # NoIp)
  /\ results' = results + 1
  /\ UNCHANGED <<history, saving, unread, copied, disk, missed, entry, overwritten>>

(* ... and stores the result before it gives state.mu back; an IpInfo that   *)
(* is known stays when the result brings none.  The trailing                *)
(* StoreURLTestHistory makes &state.history the entry of the storage, if it *)
(* has none yet.                                                            *)
ApplyStore(o) ==
  /\ applying[o] # NoResult
  /\ history' = [history EXCEPT ![o] =
       [delay |-> applying[o].delay,
        ip    |-> IF applying[o].ip # NoIp THEN applying[o].ip ELSE @.ip]]
  /\ applying' = [applying EXCEPT ![o] = NoResult]
  /\ entry' = [entry EXCEPT ![o] = IF @ = "none" THEN "state" ELSE @]
  /\ UNCHANGED <<cacheDirty, saving, unread, copied, disk, missed, results, overwritten>>

(* Someone else stores a delay: into the entry that is there, which may be   *)
(* the monitor's own history, even in the middle of an applyResult or of a  *)
(* saveHistory.  No caller has an IpInfo to store.                          *)
StoreURLTestHistory(o, d) ==
  /\ results < MaxResults
  /\ results' = results + 1
  /\ IF entry[o] = "state"
     THEN /\ history' = [history EXCEPT ![o].delay = d]
          /\ overwritten' = overwritten \cup {o}
     ELSE UNCHANGED <<history, overwritten>>
  /\ entry' = [entry EXCEPT ![o] = IF @ = "none" THEN "other" ELSE @]
  /\ UNCHANGED <<applying, cacheDirty, saving, unread, copied, disk, missed>>

(* A cycle ends with cacheDirty.Swap(false), stopTimerWorkers only looks at  *)
(* cacheDirty; when it was up, saveHistory begins.                          *)
SaveBegin(s) ==
  /\ s \notin saving
  /\ cacheDirty
  /\ cacheDirty' = (s = "stop")
  /\ saving' = saving \cup {s}
  /\ unread' = [unread EXCEPT ![s] = Outbounds]
  /\ missed' = (saving # {})
  /\ UNCHANGED <<history, applying, copied, disk, results, entry, overwritten>>

(* saveHistory copies the history of one outbound under its state.mu, in the *)
(* order of a map range.                                                    *)
SaveRead(s, o) ==
  /\ o \in unread[s]
  /\ applying[o] = NoResult
  /\ unread' = [unread EXCEPT ![s] = @ \ {o}]
  /\ copied' = [copied EXCEPT ![s][o] = history[o]]
  /\ overwritten' = overwritten \ {o}
  /\ UNCHANGED <<history, applying, cacheDirty, saving, disk, missed, results, entry>>

(* As if the save cleared cacheDirty when it is done.                        *)
SaveWriteClears(s) ==
  /\ s \in saving
  /\ unread[s] = {}
  /\ disk' = copied[s]
  /\ cacheDirty' = FALSE
  /\ saving' = saving \ {s}
  /\ copied' = [copied EXCEPT ![s] = Empty]
  /\ UNCHANGED <<history, applying, unread, missed, results, entry, overwritten>>

(* SaveBinary writes the whole snapshot in one transaction; that it may fail *)
(* is ignored.                                                               *)
SaveWrite(s) ==
  /\ s \in saving
  /\ unread[s] = {}
  /\ \/ disk' = copied[s] /\ UNCHANGED missed
     \/ missed' = TRUE /\ UNCHANGED disk
  /\ saving' = saving \ {s}
  /\ copied' = [copied EXCEPT ![s] = Empty]
  /\ UNCHANGED <<history, applying, cacheDirty, unread, results, entry, overwritten>>

(* loadHistory gives every outbound its saved history, a failed test as no   *)
(* test at all.                                                             *)
Restored(saved) ==
  [o \in Outbounds |->
     [saved[o] EXCEPT !.delay = IF @ >= TimeoutDelay THEN 0 ELSE @]]

(* The process ends without Close and starts again.                          *)
Restart ==
  /\ history' = Restored(disk)
  /\ applying' = [o \in Outbounds |-> NoResult]
  /\ cacheDirty' = FALSE
  /\ saving' = {}
  /\ unread' = [s \in Savers |-> {}]
  /\ copied' = [s \in Savers |-> Empty]
  /\ missed' = FALSE
  /\ entry' = [o \in Outbounds |-> "none"]
  /\ overwritten' = {}
  /\ UNCHANGED <<disk, results>>

Next ==
  \/ \E o \in Outbounds, r \in Results : ApplyMark(o, r)
  \/ \E o \in Outbounds : ApplyStore(o)
  \/ \E o \in Outbounds, d \in {TimeoutDelay} \cup Delays : StoreURLTestHistory(o, d)
  \/ \E s \in Savers : SaveBegin(s)
  \/ \E s \in Savers, o \in Outbounds : SaveRead(s, o)
  \/ \E s \in Savers : SaveWrite(s)
  \/ Restart

Spec == Init /\ [][Next]_vars

-----------------------------------------------------------------------------
(* While cacheDirty is down and no save is under way, a restart would find   *)
(* in the cache file the delay and the IpInfo that the monitor knows,        *)
(* whatever results were applied while a save was reading (runCycle's        *)
(* cacheDirty.Swap(false) before saveHistory, applyResult's Store(true)      *)
(* before its update).  There are three exceptions: a save that began while  *)
(* the other one was under way, when the older snapshot may be written last; *)
(* a save that failed; and an outbound whose history others have overwritten *)
(* through the HistoryStorage, which raises no flag, until a save reads it.  *)
SavedWhenClean ==
  ~cacheDirty /\ saving = {} /\ ~missed
    => \A o \in Outbounds \ overwritten : Restored(disk)[o] = Restored(history)[o]

(* The result being applied to o, if any, leaves its history as it is.       *)
Unchanging(o) ==
  \/ applying[o] = NoResult
  \/ /\ applying[o].delay = history[o].delay
     /\ applying[o].ip = NoIp

(* The inductive invariant behind it: what a save has read while cacheDirty  *)
(* is down is still so.                                                      *)
HistoryInv ==
  /\ TypeOK
  /\ \A s \in Savers \ saving : unread[s] = {}
  /\ ~missed => \A s, t \in saving : s = t
  /\ ~missed /\ ~cacheDirty =>
       \A o \in Outbounds \ overwritten :
         /\ \A s \in saving : o \notin unread[s] => Unchanging(o) /\ copied[s][o] = history[o]
         /\ saving = {} => Unchanging(o) /\ Restored(disk)[o] = Restored(history)[o]
=============================================================================
