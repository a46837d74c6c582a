---------------------------- MODULE TestHistory ----------------------------
(* The saved test history of the monitor (module MonitorHistory), under      *)
(* names of its own.                                                         *)
CONSTANTS TestedOutbounds, TestDelays, TestTimeout, IpInfos, NoIp, MaxResults

VARIABLES history, applying, cacheDirty, histSaving, unread, copied, disk, missed, results,
          entry, overwritten

historyVars == <<history, applying, cacheDirty, histSaving, unread, copied, disk, missed, results,
                 entry, overwritten>>

H == INSTANCE MonitorHistory WITH
  Outbounds <- TestedOutbounds, Delays <- TestDelays, TimeoutDelay <- TestTimeout, saving <- histSaving

(* What the cache file has when cacheDirty is down is what the monitor knows *)
(* (saveHistory and applyResult), but for what others have overwritten.      *)
SavedWhenClean == H!SavedWhenClean
=============================================================================
