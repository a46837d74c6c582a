-------------------------- MODULE MonitorTimerProofs --------------------------
(***************************************************************************)
(* Until Close, the monitor has one schedule loop at a time and no ticker  *)
(* without somebody who looks after it, and never meets a nil ticker.  The *)
(* history it saves is the one it has (module MonitorHistory).  Apart from *)
(* that, what is stored in the cache file: the two directions of the       *)
(* FakeIP addresses agree (module FakeIPStore), the selection is the one   *)
(* made last (Selector), and an Etag belongs to the rules that are held    *)
(* (RemoteRuleSet).                                                        *)
(***************************************************************************)
EXTENDS MonitorTimer, TestHistory, FakeIP, RoutingStore, TLAPS

(* The monitor starts in the invariant.                                    *)
LEMMA TimerInvInit == Init => TimerInv
<1> SUFFICES ASSUME Init PROVE TimerInv
  OBVIOUS
<1>1. 0 \in 0..MaxRuns /\ NoRun = 0 /\ Nobody = 0
  BY TimerAssumption DEF NoRun, Nobody
<1>2. TypeOK
  BY Zenon, <1>1 DEF Init, TypeOK
<1>3. ~Panicked
  BY Zenon DEF Init, Panicked, Stoppers
<1>4. Closer \in Stoppers /\ Runs \subseteq Stoppers
  BY Zenon DEF Stoppers
<1> QED
  BY Zenon, <1>1, <1>2, <1>3, <1>4, TimerAssumption
     DEF Init, TimerInv, Lock, Fresh, Custody, LoopHolds, StarterHolds, Live,
         Nobody, NoRun

(* Steps keep the types.                                                   *)
LEMMA TimerTypeStep ==
  ASSUME TimerInv, [Next]_vars
  PROVE  TypeOK'
<1> USE TimerAssumption DEF NoRun, Nobody
<1>u. /\ TypeOK
      /\ runs \in 0..MaxRuns /\ MaxRuns \in Nat
      /\ \A t \in Touchers :
           /\ touch[t] = "swap" => runs < MaxRuns
           /\ touch[t] \in {"ticker", "register", "go"} => runs > 0
  BY Zenon DEF TimerInv, TypeOK, Lock
<1>1. ASSUME NEW t \in Touchers, TouchActive(t) PROVE TypeOK'
  BY Zenon, <1>1, <1>u DEF TouchActive, TypeOK, Runs, Stoppers, callbackVars, tickVars, loopVars
<1>2. ASSUME NEW t \in Touchers, TouchStart(t) PROVE TypeOK'
  BY Zenon, <1>2, <1>u DEF TouchStart, TypeOK, Runs, Stoppers, callbackVars, tickVars, loopVars
<1>3. ASSUME NEW t \in Touchers, StartSwap(t) PROVE TypeOK'
  <2>1. workersRunning' \in BOOLEAN
    BY Zenon, <1>3, <1>u DEF StartSwap, TypeOK
  <2>2. runs' \in 0..MaxRuns
    BY <1>3, <1>u DEF StartSwap
  <2>3. access' \in Touchers \cup {Nobody}
    BY Zenon, <1>3, <1>u DEF StartSwap, TypeOK
  <2>4. touch' \in [Touchers -> {"out", "swap", "ticker", "register", "go"}]
    BY Zenon, <1>3, <1>u DEF StartSwap, TypeOK
  <2> QED
    BY Zenon, <1>3, <1>u, <2>1, <2>2, <2>3, <2>4
       DEF StartSwap, TypeOK, callbackVars, tickVars, loopVars
<1>4. ASSUME NEW t \in Touchers, StartTicker(t) PROVE TypeOK'
  BY <1>4, <1>u DEF StartTicker, TypeOK, Runs, Stoppers, callbackVars, tickVars, loopVars
<1>5. ASSUME NEW t \in Touchers, StartRegister(t) PROVE TypeOK'
  BY <1>5, <1>u DEF StartRegister, TypeOK, Runs, Stoppers, callbackVars, tickVars, loopVars
<1>6. ASSUME NEW t \in Touchers, StartGo(t) PROVE TypeOK'
  BY Zenon, <1>6, <1>u DEF StartGo, TypeOK, Runs, Stoppers, callbackVars, tickVars, loopVars
<1>7. ASSUME NEW r \in Runs, LoopBegin(r) PROVE TypeOK'
  BY Zenon, <1>7, <1>u DEF LoopBegin, TypeOK, Runs, Stoppers, callbackVars, tickVars, loopVars
<1>8. ASSUME NEW r \in Runs, LoopDone(r) PROVE TypeOK'
  BY Zenon, <1>8, <1>u DEF LoopDone, TypeOK, Runs, Stoppers, callbackVars, tickVars, loopVars
<1>9. ASSUME NEW r \in Runs, LoopTick(r) PROVE TypeOK'
  BY Zenon, <1>9, <1>u DEF LoopTick, TypeOK, Runs, Stoppers, callbackVars, tickVars, loopVars
<1>10. ASSUME NEW r \in Runs, LoopReturn(r) PROVE TypeOK'
  BY Zenon, <1>10, <1>u DEF LoopReturn, TypeOK, Runs, Stoppers, callbackVars, tickVars, loopVars
<1>11. ASSUME NEW r \in Runs, Tick(r) PROVE TypeOK'
  BY Zenon, <1>11, <1>u DEF Tick, TypeOK, Runs, Stoppers, callbackVars, tickVars, loopVars
<1>12. ASSUME NEW s \in Stoppers, StopSwap(s) PROVE TypeOK'
  BY Zenon, <1>12, <1>u DEF StopSwap, TypeOK, Runs, Stoppers, callbackVars, tickVars, loopVars
<1>13. ASSUME NEW s \in Stoppers, StopTicker(s) PROVE TypeOK'
  BY <1>13, <1>u DEF StopTicker, TypeOK, Runs, Stoppers, callbackVars, tickVars, loopVars
<1>14. ASSUME NEW s \in Stoppers, StopUnregister(s) PROVE TypeOK'
  BY Zenon, <1>14, <1>u DEF StopUnregister, TypeOK, Runs, Stoppers, callbackVars, tickVars, loopVars
<1>15. CASE Close
  BY Zenon, <1>15, <1>u DEF Close, TypeOK, Runs, Stoppers, callbackVars, tickVars, loopVars
<1>16. CASE CloseCancel
  BY Zenon, <1>16, <1>u DEF CloseCancel, TypeOK, Runs, Stoppers, callbackVars, tickVars, loopVars
<1>17. CASE CloseReturn
  BY Zenon, <1>17, <1>u DEF CloseReturn, TypeOK, Runs, Stoppers, callbackVars, tickVars, loopVars
<1>18. CASE Idle
  BY Zenon, <1>18, <1>u DEF Idle, TypeOK, Runs, Stoppers, callbackVars, tickVars, loopVars
<1>19. CASE CancelBox
  BY Zenon, <1>19, <1>u DEF CancelBox, TypeOK, Runs, Stoppers, callbackVars, tickVars, loopVars
<1>20. CASE UNCHANGED vars
  BY Zenon, <1>20, <1>u DEF vars, TypeOK, Runs, Stoppers, callbackVars, tickVars, loopVars
<1> HIDE DEF NoRun, Nobody
<1> QED
  BY Zenon, <1>1, <1>2, <1>3, <1>4, <1>5, <1>6, <1>7, <1>8, <1>9, <1>10, <1>11,
     <1>12, <1>13, <1>14, <1>15, <1>16, <1>17, <1>18, <1>19, <1>20 DEF Next,
     StartStep, LoopStep, StopStep

(* Steps keep the owner of the lock and the numbers of the runs.          *)
LEMMA LockStep ==
  ASSUME TimerInv, [Next]_vars
  PROVE  Lock' /\ Fresh'
<1> USE TimerAssumption DEF NoRun, Nobody, loopVars, Lock, Fresh
<1>u. /\ Lock /\ Fresh
      /\ workersRunning \in BOOLEAN
      /\ mainTicker \in 0..MaxRuns
      /\ runs \in 0..MaxRuns /\ MaxRuns \in Nat
      /\ access \in Touchers \cup {Nobody}
      /\ touch \in [Touchers -> {"out", "swap", "ticker", "register", "go"}]
      /\ loop \in [Runs -> {"none", "begin", "select", "stop", "exit", "panic"}]
      /\ stop \in [Stoppers ->
                    {"out", "swap", "ticker", "unregister", "done", "panic"}]
      /\ Runs \subseteq Stoppers /\ Closer \in Stoppers /\ Closer \notin Runs
      /\ \A k \in Runs : k \in Nat /\ k > 0
      /\ \A k \in 1..MaxRuns : k \in Runs
  BY DEF TimerInv, TypeOK, Runs, Stoppers
<1>1. ASSUME NEW t \in Touchers, TouchActive(t) PROVE Lock' /\ Fresh'
  BY Zenon, <1>1, <1>u DEF TouchActive
<1>2. ASSUME NEW t \in Touchers, TouchStart(t) PROVE Lock' /\ Fresh'
  BY Zenon, <1>2, <1>u DEF TouchStart
<1>3. ASSUME NEW t \in Touchers, StartSwap(t) PROVE Lock' /\ Fresh'
  BY <1>3, <1>u DEF StartSwap
<1>4. ASSUME NEW t \in Touchers, StartTicker(t) PROVE Lock' /\ Fresh'
  BY Zenon, <1>4, <1>u DEF StartTicker
<1>5. ASSUME NEW t \in Touchers, StartRegister(t) PROVE Lock' /\ Fresh'
  BY Zenon, <1>5, <1>u DEF StartRegister
<1>6. ASSUME NEW t \in Touchers, StartGo(t) PROVE Lock' /\ Fresh'
  BY <1>6, <1>u DEF StartGo
<1>7. ASSUME NEW r \in Runs, LoopBegin(r) PROVE Lock' /\ Fresh'
  BY Zenon, <1>7, <1>u DEF LoopBegin
<1>8. ASSUME NEW r \in Runs, LoopDone(r) PROVE Lock' /\ Fresh'
  BY Zenon, <1>8, <1>u DEF LoopDone
<1>9. ASSUME NEW r \in Runs, LoopTick(r) PROVE Lock' /\ Fresh'
  BY Zenon, <1>9, <1>u DEF LoopTick
<1>10. ASSUME NEW r \in Runs, LoopReturn(r) PROVE Lock' /\ Fresh'
  BY Zenon, <1>10, <1>u DEF LoopReturn
<1>11. ASSUME NEW r \in Runs, Tick(r) PROVE Lock' /\ Fresh'
  BY Zenon, <1>11, <1>u DEF Tick
<1>12. ASSUME NEW s \in Stoppers, StopSwap(s) PROVE Lock' /\ Fresh'
  BY Zenon, <1>12, <1>u DEF StopSwap
<1>13. ASSUME NEW s \in Stoppers, StopTicker(s) PROVE Lock' /\ Fresh'
  BY Zenon, <1>13, <1>u DEF StopTicker
<1>14. ASSUME NEW s \in Stoppers, StopUnregister(s) PROVE Lock' /\ Fresh'
  BY Zenon, <1>14, <1>u DEF StopUnregister
<1>15. CASE Close
  BY Zenon, <1>15, <1>u DEF Close
<1>16. CASE CloseCancel
  BY Zenon, <1>16, <1>u DEF CloseCancel
<1>17. CASE CloseReturn
  BY Zenon, <1>17, <1>u DEF CloseReturn
<1>18. CASE Idle
  BY Zenon, <1>18, <1>u DEF Idle
<1>19. CASE CancelBox
  BY Zenon, <1>19, <1>u DEF CancelBox
<1>20. CASE UNCHANGED vars
  BY Zenon, <1>20, <1>u DEF vars, callbackVars, tickVars, loopVars
<1> HIDE DEF NoRun, Nobody, loopVars, Lock, Fresh
<1> QED
  BY Zenon, <1>1, <1>2, <1>3, <1>4, <1>5, <1>6, <1>7, <1>8, <1>9, <1>10, <1>11,
     <1>12, <1>13, <1>14, <1>15, <1>16, <1>17, <1>18, <1>19, <1>20 DEF Next,
     StartStep, LoopStep, StopStep

(* Until Close, steps hand the current run from one goroutine to the next. *)
LEMMA CustodyStep ==
  ASSUME TimerInv, [Next]_vars, closing' = "out"
  PROVE  Custody'
<1> USE TimerAssumption DEF NoRun, Nobody, loopVars, Custody, LoopHolds, StarterHolds, Live, Lock, Fresh
<1>u. /\ Lock /\ Fresh /\ (closing = "out" => Custody)
      /\ workersRunning \in BOOLEAN
      /\ mainTicker \in 0..MaxRuns
      /\ runs \in 0..MaxRuns /\ MaxRuns \in Nat
      /\ access \in Touchers \cup {Nobody}
      /\ touch \in [Touchers -> {"out", "swap", "ticker", "register", "go"}]
      /\ loop \in [Runs -> {"none", "begin", "select", "stop", "exit", "panic"}]
      /\ stop \in [Stoppers ->
                    {"out", "swap", "ticker", "unregister", "done", "panic"}]
      /\ Runs \subseteq Stoppers /\ Closer \in Stoppers /\ Closer \notin Runs
      /\ \A k \in Runs : k \in Nat /\ k > 0
      /\ \A k \in 1..MaxRuns : k \in Runs
  BY DEF TimerInv, TypeOK, Runs, Stoppers
<1>1. ASSUME NEW t \in Touchers, TouchActive(t) PROVE Custody'
  BY Zenon, <1>1, <1>u DEF TouchActive
<1>2. ASSUME NEW t \in Touchers, TouchStart(t) PROVE Custody'
  BY <1>2, <1>u DEF TouchStart
<1>3. ASSUME NEW t \in Touchers, StartSwap(t) PROVE Custody'
  BY <1>3, <1>u DEF StartSwap
<1>4. ASSUME NEW t \in Touchers, StartTicker(t) PROVE Custody'
  BY <1>4, <1>u DEF StartTicker
<1>5. ASSUME NEW t \in Touchers, StartRegister(t) PROVE Custody'
  BY <1>5, <1>u DEF StartRegister
<1>6. ASSUME NEW t \in Touchers, StartGo(t) PROVE Custody'
  BY <1>6, <1>u DEF StartGo
<1>7. ASSUME NEW r \in Runs, LoopBegin(r) PROVE Custody'
  BY <1>7, <1>u DEF LoopBegin
<1>8. ASSUME NEW r \in Runs, LoopDone(r) PROVE Custody'
  BY <1>8, <1>u DEF LoopDone
<1>9. ASSUME NEW r \in Runs, LoopTick(r) PROVE Custody'
  <2>1. /\ Live(r) /\ r = runs /\ mainTicker = r /\ access = Nobody
        /\ workersRunning /\ stop[r] = "out"
    BY Zenon, <1>9, <1>u DEF LoopTick
  <2>2. CASE recent
    BY <1>9, <1>u, <2>2 DEF LoopTick
  <2>3. CASE ~recent
    <3>1. /\ loop' = [loop EXCEPT ![r] = "stop"]
          /\ stop' = [stop EXCEPT ![r] = "swap"]
          /\ UNCHANGED <<workersRunning, mainTicker, runs, access, touch, closing>>
      BY Zenon, <1>9, <2>3 DEF LoopTick
    <3> QED
      BY <1>u, <2>1, <3>1
  <2> QED
    BY Zenon, <2>2, <2>3
<1>10. ASSUME NEW r \in Runs, LoopReturn(r) PROVE Custody'
  BY <1>10, <1>u DEF LoopReturn
<1>11. ASSUME NEW r \in Runs, Tick(r) PROVE Custody'
  BY Zenon, <1>11, <1>u DEF Tick
<1>12. ASSUME NEW s \in Stoppers, StopSwap(s) PROVE Custody'
  <2>1. /\ s \in Runs /\ s = runs /\ mainTicker = s /\ access = Nobody
        /\ workersRunning /\ ~Live(s)
    BY Zenon, <1>12, <1>u DEF StopSwap, Stoppers
  <2>2. /\ stop' = [stop EXCEPT ![s] = "ticker"]
        /\ workersRunning' = FALSE
        /\ UNCHANGED <<mainTicker, runs, access, touch, loop, closing>>
    BY Zenon, <1>12, <2>1 DEF StopSwap
  <2> QED
    BY <1>u, <2>1, <2>2
<1>13. ASSUME NEW s \in Stoppers, StopTicker(s) PROVE Custody'
  <2>1. /\ s \in Runs /\ s = runs /\ mainTicker = s /\ access = Nobody
        /\ ~workersRunning /\ ~Live(s) /\ mainTicker # NoRun
    BY <1>13, <1>u DEF StopTicker, Stoppers
  <2>2. /\ stop' = [stop EXCEPT ![s] = "unregister"]
        /\ mainTicker' = NoRun
        /\ UNCHANGED <<workersRunning, runs, access, touch, loop, closing>>
    BY Zenon, <1>13, <2>1 DEF StopTicker
  <2> QED
    BY <1>u, <2>1, <2>2
<1>14. ASSUME NEW s \in Stoppers, StopUnregister(s) PROVE Custody'
  BY <1>14, <1>u DEF StopUnregister
<1>15. CASE Close
  BY Zenon, <1>15, <1>u DEF Close
<1>16. CASE CloseCancel
  BY Zenon, <1>16, <1>u DEF CloseCancel
<1>17. CASE CloseReturn
  BY Zenon, <1>17, <1>u DEF CloseReturn
<1>18. CASE Idle
  BY Zenon, <1>18, <1>u DEF Idle
<1>19. CASE CancelBox
  BY Zenon, <1>19, <1>u DEF CancelBox
<1>20. CASE UNCHANGED vars
  BY Zenon, <1>20, <1>u DEF vars, callbackVars, tickVars, loopVars
<1> HIDE DEF NoRun, Nobody, loopVars, Custody, LoopHolds, StarterHolds, Live,
             Lock, Fresh
<1> QED
  BY Zenon, <1>1, <1>2, <1>3, <1>4, <1>5, <1>6, <1>7, <1>8, <1>9, <1>10, <1>11,
     <1>12, <1>13, <1>14, <1>15, <1>16, <1>17, <1>18, <1>19, <1>20 DEF Next,
     StartStep, LoopStep, StopStep

(* The invariant holds for ever.                                           *)
LEMMA TimerInvariant == Spec => []TimerInv
<1>1. TimerInv /\ [Next]_vars => TimerInv'
  BY Zenon, TimerTypeStep, LockStep, CustodyStep DEF TimerInv
<1> QED
  BY TimerInvInit, <1>1, PTL DEF Spec

(* Until Close there is one schedule loop at a time, for any number of     *)
(* goroutines that call Touch and of starts.                               *)
THEOREM TimerOneLoop == Spec => []OneLoop
<1>1. TimerInv => OneLoop
  BY Zenon DEF TimerInv, OneLoop, Custody, LoopHolds
<1> QED
  BY TimerInvariant, <1>1, PTL

(* A ticker that Touch relies on is being served.                          *)
THEOREM TimerTickerServed == Spec => []TickerServed
<1>1. TimerInv => TickerServed
  <2> SUFFICES ASSUME TimerInv, closing = "out", ~ctxDone, mainTicker # NoRun
               PROVE  \/ Live(mainTicker)
                      \/ stop[mainTicker] \in {"swap", "ticker"}
                      \/ \E t \in Touchers : touch[t] \in {"register", "go"}
    BY Zenon DEF TickerServed
  <2>1. CASE access = Nobody
    BY Zenon, <2>1 DEF TimerInv, Custody
  <2>2. CASE access # Nobody
    <3>1. /\ access \in Touchers /\ touch[access] # "out"
          /\ touch \in [Touchers -> {"out", "swap", "ticker", "register", "go"}]
          /\ StarterHolds(access)
      BY Zenon, <2>2 DEF TimerInv, TypeOK, Lock, Custody
    <3> QED
      BY Zenon, <3>1 DEF StarterHolds
  <2> QED
    BY Zenon, <2>1, <2>2
<1> QED
  BY TimerInvariant, <1>1, PTL

(* Only Close can make the loop or stopTimerWorkers dereference a nil      *)
(* ticker.                                                                 *)
THEOREM TimerNilTicker == Spec => []NilTickerOnlyAtClose
<1>1. TimerInv => NilTickerOnlyAtClose
  BY Zenon DEF TimerInv, NilTickerOnlyAtClose, Panicked, Custody
<1> QED
  BY TimerInvariant, <1>1, PTL
-----------------------------------------------------------------------------
(* The saved test history.                                                   *)

(* Every step of the history keeps the types of its state.                   *)
LEMMA HistoryTypes ==
  ASSUME H!TypeOK, [H!Next]_(H!vars), MaxResults \in Nat PROVE H!TypeOK'
<1> USE DEF H!TypeOK, H!Savers
<1>1. ASSUME NEW o \in TestedOutbounds, NEW r \in H!Results, H!ApplyMark(o, r) PROVE H!TypeOK'
  <2>1. cacheDirty' \in BOOLEAN
    BY <1>1, Zenon DEF H!ApplyMark
  <2>2. results' \in 0..MaxResults
    BY <1>1 DEF H!ApplyMark
  <2>3. applying' \in [TestedOutbounds -> H!Results \cup {H!NoResult}]
    BY Zenon, <1>1 DEF H!ApplyMark
  <2> QED BY Zenon, <1>1, <2>1, <2>2, <2>3 DEF H!ApplyMark
<1>2. ASSUME NEW o \in TestedOutbounds, H!ApplyStore(o) PROVE H!TypeOK'
  <2>1. applying[o] \in H!Results /\ history[o] \in H!History
    BY Zenon, <1>2 DEF H!ApplyStore
  <2>2. history' \in [TestedOutbounds -> H!History]
    BY Zenon, <1>2, <2>1 DEF H!ApplyStore, H!Results, H!History
  <2>3. applying' \in [TestedOutbounds -> H!Results \cup {H!NoResult}]
    BY Zenon, <1>2 DEF H!ApplyStore
  <2>4. entry' \in [TestedOutbounds -> {"none", "state", "other"}]
    BY Zenon, <1>2 DEF H!ApplyStore
  <2> QED BY Zenon, <1>2, <2>2, <2>3, <2>4 DEF H!ApplyStore
<1>o. ASSUME NEW o \in TestedOutbounds, NEW d \in {TestTimeout} \cup TestDelays,
             H!StoreURLTestHistory(o, d)
      PROVE  H!TypeOK'
  <2>1. [history[o] EXCEPT !.delay = d] \in H!History
    BY DEF H!History
  <2>2. history' \in [TestedOutbounds -> H!History]
    BY Zenon, <1>o, <2>1 DEF H!StoreURLTestHistory
  <2>3. results' \in 0..MaxResults
    BY <1>o DEF H!StoreURLTestHistory
  <2>4. entry' \in [TestedOutbounds -> {"none", "state", "other"}]
    BY Zenon, <1>o DEF H!StoreURLTestHistory
  <2>5. overwritten' \subseteq TestedOutbounds
    BY Zenon, <1>o DEF H!StoreURLTestHistory
  <2> QED BY Zenon, <1>o, <2>2, <2>3, <2>4, <2>5 DEF H!StoreURLTestHistory
<1>3. ASSUME NEW s \in H!Savers, H!SaveBegin(s) PROVE H!TypeOK'
  BY Zenon, <1>3 DEF H!SaveBegin
<1>4. ASSUME NEW s \in H!Savers, NEW o \in TestedOutbounds, H!SaveRead(s, o) PROVE H!TypeOK'
  BY Zenon, <1>4 DEF H!SaveRead
<1>5. ASSUME NEW s \in H!Savers, H!SaveWrite(s) PROVE H!TypeOK'
  <2>1. H!Empty \in [TestedOutbounds -> H!History]
    BY Zenon DEF H!Empty, H!Nothing, H!History
  <2>2. disk' \in [TestedOutbounds -> H!History] /\ missed' \in BOOLEAN
    <3>1. copied[s] \in [TestedOutbounds -> H!History]
      BY Zenon
    <3>2. disk' \in {copied[s], disk} /\ missed' \in {missed, TRUE}
      BY Zenon, <1>5 DEF H!SaveWrite
    <3>3. disk \in [TestedOutbounds -> H!History] /\ missed \in BOOLEAN
      BY Zenon
    <3> HIDE DEF H!TypeOK
    <3> QED BY ZenonT(60), <3>1, <3>2, <3>3
  <2>3. copied' \in [H!Savers -> [TestedOutbounds -> H!History]]
    BY Zenon, <1>5, <2>1 DEF H!SaveWrite
  <2>4. histSaving' \subseteq H!Savers
    BY Zenon, <1>5 DEF H!SaveWrite
  <2> QED BY Zenon, <1>5, <2>2, <2>3, <2>4 DEF H!SaveWrite
<1>6. CASE H!Restart
  <2>1. H!Empty \in [TestedOutbounds -> H!History]
    BY Zenon DEF H!Empty, H!Nothing, H!History
  <2>2. H!Restored(disk) \in [TestedOutbounds -> H!History]
    <3>1. ASSUME NEW h \in H!History PROVE [h EXCEPT !.delay = IF @ >= TestTimeout THEN 0 ELSE @] \in H!History
      BY SMT, <3>1 DEF H!History
    <3> QED BY Zenon, <3>1 DEF H!Restored
  <2> QED BY Zenon, <1>6, <2>1, <2>2 DEF H!Restart
<1>7. CASE UNCHANGED H!vars
  BY Zenon, <1>7 DEF H!vars
<1> HIDE DEF H!TypeOK, H!Savers
<1> QED
  BY Zenon, <1>1, <1>2, <1>o, <1>3, <1>4, <1>5, <1>6, <1>7 DEF H!Next

(* Every step keeps what has been read, or raises cacheDirty: applyResult    *)
(* raises it before it changes the history, a save reads under state.mu.     *)
LEMMA HistorySteps ==
  ASSUME H!HistoryInv, [H!Next]_(H!vars), MaxResults \in Nat,
         TestTimeout \in Nat \ {0}, TestDelays \subseteq Nat
  PROVE  H!HistoryInv'
<1>0. H!TypeOK'
  BY Zenon, HistoryTypes DEF H!HistoryInv
<1> USE DEF H!HistoryInv, H!TypeOK, H!Savers, H!Unchanging
<1>1. ASSUME NEW o \in TestedOutbounds, NEW r \in H!Results, H!ApplyMark(o, r) PROVE H!HistoryInv'
  <2>1. /\ applying' = [applying EXCEPT ![o] = r]
        /\ UNCHANGED <<history, histSaving, unread, copied, disk, missed, overwritten>>
        /\ ~cacheDirty' => ~cacheDirty /\ r.delay = history[o].delay /\ r.ip = NoIp
    BY Zenon, <1>1 DEF H!ApplyMark
  <2>2. ASSUME ~cacheDirty' PROVE \A p \in TestedOutbounds : H!Unchanging(p) => H!Unchanging(p)'
    BY Zenon, <2>1, <2>2
  <2>3. H!Restored(disk)' = H!Restored(disk) /\ H!Restored(history)' = H!Restored(history)
    BY Zenon, <2>1 DEF H!Restored
  <2> QED BY <1>0, <2>1, <2>2, <2>3
<1>2. ASSUME NEW o \in TestedOutbounds, H!ApplyStore(o) PROVE H!HistoryInv'
  <2>1. /\ applying' = [applying EXCEPT ![o] = H!NoResult]
        /\ UNCHANGED <<cacheDirty, histSaving, unread, copied, disk, missed, overwritten>>
        /\ history' = [history EXCEPT ![o] = history'[o]]
    BY Zenon, <1>2 DEF H!ApplyStore
  <2>2. ASSUME H!Unchanging(o) PROVE history' = history
    <3>1. /\ applying[o].delay = history[o].delay /\ applying[o].ip = NoIp
          /\ history[o] \in H!History
      BY Zenon, <1>2, <2>2 DEF H!ApplyStore
    <3>2. history'[o] = [delay |-> history[o].delay, ip |-> history[o].ip]
      BY Zenon, <1>2, <3>1 DEF H!ApplyStore
    <3>3. history'[o] = history[o]
      BY Zenon, <3>1, <3>2 DEF H!History
    <3> QED BY <2>1, <3>3
  <2>3. \A p \in TestedOutbounds : H!Unchanging(p) => H!Unchanging(p)' /\ history'[p] = history[p]
    BY ZenonT(60), <2>1, <2>2
  <2>4. \A p \in TestedOutbounds : H!Unchanging(p) => H!Restored(history)'[p] = H!Restored(history)[p]
    BY Zenon, <2>3 DEF H!Restored
  <2>5. H!Restored(disk)' = H!Restored(disk)
    BY Zenon, <2>1 DEF H!Restored
  <2> QED BY <1>0, <2>1, <2>3, <2>4, <2>5
<1>o. ASSUME NEW o \in TestedOutbounds, NEW d \in {TestTimeout} \cup TestDelays,
             H!StoreURLTestHistory(o, d)
      PROVE  H!HistoryInv'
  <2>1. /\ UNCHANGED <<applying, cacheDirty, histSaving, unread, copied, disk, missed>>
        /\ overwritten \subseteq overwritten'
        /\ \A p \in TestedOutbounds \ overwritten' : history'[p] = history[p]
    BY Zenon, <1>o DEF H!StoreURLTestHistory
  <2>2. \A p \in TestedOutbounds \ overwritten' : H!Unchanging(p) => H!Unchanging(p)'
    BY ZenonT(60), <2>1
  <2>3. /\ H!Restored(disk)' = H!Restored(disk)
        /\ \A p \in TestedOutbounds \ overwritten' :
             H!Restored(history)'[p] = H!Restored(history)[p]
    BY Zenon, <2>1 DEF H!Restored
  <2> QED BY <1>0, <2>1, <2>2, <2>3
<1>3. ASSUME NEW s \in H!Savers, H!SaveBegin(s) PROVE H!HistoryInv'
  BY <1>0, <1>3, Zenon DEF H!SaveBegin
<1>4. ASSUME NEW s \in H!Savers, NEW o \in TestedOutbounds, H!SaveRead(s, o) PROVE H!HistoryInv'
  <2>1. /\ s \in histSaving /\ applying[o] = H!NoResult
        /\ unread' = [unread EXCEPT ![s] = @ \ {o}]
        /\ copied' = [copied EXCEPT ![s][o] = history[o]]
        /\ overwritten' = overwritten \ {o}
        /\ UNCHANGED <<history, applying, cacheDirty, histSaving, disk, missed>>
    BY Zenon, <1>4 DEF H!SaveRead
  <2>2. \A p \in TestedOutbounds : H!Unchanging(p)' = H!Unchanging(p)
    BY Zenon, <2>1
  <2>3. \A t \in histSaving, p \in TestedOutbounds :
          \/ unread'[t] = unread[t] /\ copied'[t][p] = copied[t][p]
          \/ t = s /\ p = o /\ copied'[t][p] = history[p] /\ H!Unchanging(p)
          \/ p # o /\ copied'[t][p] = copied[t][p] /\ (p \in unread'[t] <=> p \in unread[t])
    BY <2>1
  <2> QED BY <1>0, <2>1, <2>2, <2>3
<1>5. ASSUME NEW s \in H!Savers, H!SaveWrite(s) PROVE H!HistoryInv'
  <2>1. CASE disk' = copied[s] /\ UNCHANGED missed
    <3>1. \A p \in TestedOutbounds \ overwritten : ~missed /\ ~cacheDirty => H!Unchanging(p) /\ disk'[p] = history[p]
      BY Zenon, <1>5, <2>1 DEF H!SaveWrite
    <3>2. \A p \in TestedOutbounds : disk'[p] = history[p]
            => H!Restored(disk)'[p] = H!Restored(history)'[p]
      BY Zenon, <1>5, <2>1 DEF H!SaveWrite, H!Restored
    <3>3. ~missed => histSaving' = {}
      BY <1>5 DEF H!SaveWrite
    <3> QED BY Zenon, <1>0, <1>5, <2>1, <3>1, <3>2, <3>3 DEF H!SaveWrite
  <2>2. CASE missed' = TRUE
    BY Zenon, <1>0, <1>5, <2>2 DEF H!SaveWrite
  <2> HIDE DEF H!HistoryInv, H!TypeOK, H!Savers, H!Unchanging
  <2> QED BY Zenon, <1>5, <2>1, <2>2 DEF H!SaveWrite
<1>6. CASE H!Restart
  <2>1. \A p \in TestedOutbounds : H!Restored(H!Restored(disk))[p] = H!Restored(disk)[p]
    BY Zenon DEF H!Restored, H!History
  <2>2. H!Restored(history)' = H!Restored(H!Restored(disk)) /\ H!Restored(disk)' = H!Restored(disk)
    BY <1>6 DEF H!Restart, H!Restored
  <2> QED BY Zenon, <1>0, <1>6, <2>1, <2>2 DEF H!Restart
<1>7. CASE UNCHANGED H!vars
  <2>1. H!Restored(disk)' = H!Restored(disk) /\ H!Restored(history)' = H!Restored(history)
    BY Zenon, <1>7 DEF H!vars, H!Restored
  <2> QED BY Zenon, <1>0, <1>7, <2>1 DEF H!vars
<1> HIDE DEF H!HistoryInv, H!TypeOK, H!Savers, H!Unchanging
<1> QED
  BY Zenon, <1>1, <1>2, <1>o, <1>3, <1>4, <1>5, <1>6, <1>7 DEF H!Next

(* For any number of outbounds and of results: while cacheDirty is down and  *)
(* no save is under way, a restart finds what the monitor knows of every     *)
(* outbound that others have not overwritten since (runCycle,                *)
(* stopTimerWorkers, saveHistory, applyResult, loadHistory,                  *)
(* StoreURLTestHistory).                                                     *)
THEOREM HistorySavedWhenClean ==
  ASSUME MaxResults \in Nat, TestTimeout \in Nat \ {0}, TestDelays \subseteq Nat
  PROVE  H!Spec => []SavedWhenClean
<1>1. H!Init => H!HistoryInv
  <2> SUFFICES ASSUME H!Init PROVE H!HistoryInv
    OBVIOUS
  <2>1. H!Empty \in [TestedOutbounds -> H!History]
    BY Zenon DEF H!Empty, H!Nothing, H!History
  <2>2. results \in 0..MaxResults
    BY DEF H!Init
  <2>3. H!TypeOK
    BY Zenon, <2>1, <2>2 DEF H!Init, H!TypeOK
  <2> QED BY Zenon, <2>3 DEF H!Init, H!HistoryInv, H!Unchanging
<1>2. H!HistoryInv /\ [H!Next]_(H!vars) => H!HistoryInv'
  BY Zenon, HistorySteps
<1>3. H!HistoryInv => SavedWhenClean
  BY Zenon DEF SavedWhenClean, H!HistoryInv, H!SavedWhenClean, H!Restored
<1> QED
  BY <1>1, <1>2, <1>3, PTL DEF H!Spec
-----------------------------------------------------------------------------
(* The FakeIP store.                                                         *)

(* A new address for a domain that has none keeps the two directions of the  *)
(* store inverse to each other, whether the address was in use or not.       *)
LEMMA FakeIPStored ==
  ASSUME F!StoreInv, NEW a, NEW d, a.family \in F!Families, d \notin DOMAIN domain[a.family],
         a.range = config[a.family], F!Store(a, d)
  PROVE  /\ domain' = [f \in F!Families |-> domain'[f]]
         /\ \A f \in F!Families : \A e \in DOMAIN domain'[f] : domain'[f][e].family = f
         /\ \A x \in DOMAIN address' : x.family \in F!Families
         /\ F!Resolves'
         /\ ~kept => \A f \in F!Families : \A e \in DOMAIN domain'[f] :
                       domain'[f][e].range = config[f]
<1> DEFINE g == a.family
           Left == {e \in DOMAIN domain[g] : a \in DOMAIN address => e # address[a]}
<1>1. /\ DOMAIN address' = DOMAIN address \cup {a}
      /\ address'[a] = d
      /\ \A x \in DOMAIN address : x # a => address'[x] = address[x]
  BY Zenon DEF F!Store, F!With
<1>2. domain' = [domain EXCEPT ![g] =
                   [x \in Left \cup {d} |-> IF x = d THEN a ELSE domain[g][x]]]
  BY Zenon DEF F!Store, F!With
<1>3. /\ domain' = [f \in F!Families |-> domain'[f]]
      /\ \A f \in F!Families : f # g => domain'[f] = domain[f]
      /\ domain'[g] = [x \in Left \cup {d} |-> IF x = d THEN a ELSE domain[g][x]]
  BY Zenon, <1>2 DEF F!StoreInv
<1>4. /\ DOMAIN domain'[g] = Left \cup {d}
      /\ domain'[g][d] = a
      /\ \A e \in Left : e # d /\ domain'[g][e] = domain[g][e]
  BY Zenon, <1>3
<1>5. \A e \in Left : domain[g][e] \in DOMAIN address /\ domain[g][e] # a /\ address[domain[g][e]] = e
  BY DEF F!StoreInv, F!Resolves
<1>6. \A x \in DOMAIN address : x # a /\ x.family = g => address[x] \in Left /\ domain[g][address[x]] = x
  BY DEF F!StoreInv, F!Resolves
<1> HIDE DEF Left
<1>7. \A f \in F!Families : \A e \in DOMAIN domain'[f] :
        /\ domain'[f][e] \in DOMAIN address'
        /\ address'[domain'[f][e]] = e
        /\ domain'[f][e].family = f
        /\ ~kept => domain'[f][e].range = config[f]
  <2> SUFFICES ASSUME NEW f \in F!Families, NEW e \in DOMAIN domain'[f]
               PROVE  /\ domain'[f][e] \in DOMAIN address'
                      /\ address'[domain'[f][e]] = e
                      /\ domain'[f][e].family = f
                      /\ ~kept => domain'[f][e].range = config[f]
    OBVIOUS
  <2>1. CASE f = g /\ e = d
    BY Zenon, <1>1, <1>4, <2>1
  <2>2. CASE f = g /\ e # d
    <3>1. e \in Left /\ e \in DOMAIN domain[g]
      BY Zenon, <1>4, <2>2 DEF Left
    <3> QED BY <1>1, <1>4, <1>5, <2>2, <3>1 DEF F!StoreInv
  <2>3. CASE f # g
    BY <1>1, <1>3, <2>3 DEF F!StoreInv, F!Resolves
  <2> QED BY Zenon, <2>1, <2>2, <2>3
<1>8. \A x \in DOMAIN address' :
        /\ x.family \in F!Families
        /\ address'[x] \in DOMAIN domain'[x.family]
        /\ domain'[x.family][address'[x]] = x
  <2> SUFFICES ASSUME NEW x \in DOMAIN address'
               PROVE  /\ x.family \in F!Families
                      /\ address'[x] \in DOMAIN domain'[x.family]
                      /\ domain'[x.family][address'[x]] = x
    OBVIOUS
  <2>1. CASE x = a
    BY Zenon, <1>1, <1>4, <2>1
  <2>2. CASE x # a /\ x.family = g
    BY <1>1, <1>4, <1>6, <2>2
  <2>3. CASE x # a /\ x.family # g
    BY <1>1, <1>3, <2>3 DEF F!StoreInv, F!Resolves
  <2> QED BY Zenon, <2>1, <2>2, <2>3
<1> QED
  BY <1>3, <1>7, <1>8 DEF F!Resolves

(* Every step of the store keeps the invariant.                              *)
LEMMA FakeIPSteps == ASSUME F!StoreInv, [F!Next]_(F!vars) PROVE F!StoreInv'
<1> USE DEF F!store
<1>1. ASSUME NEW c \in Configs, F!Start(c) PROVE F!StoreInv'
  <2>1. CASE metadata # F!None /\ metadata.config = c
    BY <1>1, <2>1 DEF F!Start, F!StoreInv, F!Resolves
  <2>2. CASE ~(metadata # F!None /\ metadata.config = c) /\ F!Emptied
    BY <1>1, <2>2 DEF F!Start, F!StoreInv, F!Resolves, F!Emptied
  <2>3. CASE /\ UNCHANGED <<buckets, address, domain>>
             /\ kept' = (DOMAIN address # {})
             /\ metadata' = F!None
    <3>1. ~kept' => \A f \in F!Families : DOMAIN domain[f] = {}
      BY Zenon, <2>3 DEF F!StoreInv, F!Resolves
    <3>2. F!Resolves'
      BY <2>3 DEF F!StoreInv, F!Resolves
    <3>3. UNCHANGED <<call, saving, timer>> /\ fakeStatus = "down" /\ fakeStatus' = "up"
      BY Zenon, <1>1 DEF F!Start
    <3> QED BY Zenon, <2>3, <3>1, <3>2, <3>3 DEF F!StoreInv
  <2> QED BY Zenon, <1>1, <2>1, <2>2, <2>3 DEF F!Start, F!FakeIPReset
<1>2. ASSUME NEW p \in Callers, NEW d \in Domains, NEW f \in F!Families, F!CreateCall(p, d, f)
      PROVE  F!StoreInv'
  BY <1>2 DEF F!CreateCall, F!StoreInv, F!Resolves
<1>3. ASSUME NEW p \in Callers, F!CreateLocked(p) PROVE F!StoreInv'
  <2> DEFINE d == call[p].domain
             f == call[p].family
             a == [family |-> f, range |-> config[f], index |-> F!NextAddress(f)]
  <2>1. /\ fakeStatus # "down" /\ f \in F!Families
        /\ call' = [call EXCEPT ![p] = F!Idle]
        /\ UNCHANGED <<config, fakeStatus, saving, metadata, kept>>
    BY Zenon, <1>3 DEF F!CreateLocked, F!StoreInv
  <2>2. /\ call' = [q \in Callers |-> call'[q]]
        /\ \A q \in Callers : call'[q] # F!Idle => call'[q].family \in F!Families
    BY Zenon, <2>1 DEF F!StoreInv
  <2>3. CASE UNCHANGED <<current, timer, buckets, address, domain>>
    BY <2>1, <2>2, <2>3 DEF F!StoreInv, F!Resolves
  <2>4. CASE F!SaveMetadataAsync(F!Metadata(config, current'))
    <3>1. /\ timer' = [armed |-> timer'.armed, saves |-> timer'.saves]
          /\ timer'.saves.config = config
      BY Zenon, <2>4 DEF F!SaveMetadataAsync, F!Metadata, F!StoreInv
    <3>2. CASE UNCHANGED <<buckets, address, domain>>
      BY <2>1, <2>2, <3>1, <3>2 DEF F!StoreInv, F!Resolves
    <3>3. CASE F!Store(a, d) /\ d \notin DOMAIN domain[f]
      <4>1. a.family = f /\ a.range = config[a.family]
        OBVIOUS
      <4> HIDE DEF a, d, f
      <4>2. /\ domain' = [h \in F!Families |-> domain'[h]]
            /\ \A h \in F!Families : \A e \in DOMAIN domain'[h] : domain'[h][e].family = h
            /\ \A x \in DOMAIN address' : x.family \in F!Families
            /\ F!Resolves'
            /\ ~kept => \A h \in F!Families : \A e \in DOMAIN domain'[h] :
                          domain'[h][e].range = config[h]
        BY Zenon, <2>1, <3>3, <4>1, FakeIPStored
      <4> QED BY <2>1, <2>2, <3>1, <4>2 DEF F!StoreInv
    <3> QED BY Zenon, <1>3, <2>3, <3>2, <3>3 DEF F!CreateLocked
  <2> QED BY Zenon, <1>3, <2>3, <2>4 DEF F!CreateLocked
<1>4. CASE F!TimerFires
  <2>1. /\ timer' = [armed |-> timer'.armed, saves |-> timer'.saves]
        /\ timer'.saves = timer.saves /\ timer.saves.config = config
    BY Zenon, <1>4 DEF F!TimerFires, F!StoreInv
  <2>2. /\ fakeStatus # "down" /\ metadata' = timer.saves
        /\ UNCHANGED <<config, fakeStatus, call, saving, address, domain, kept>>
    BY Zenon, <1>4 DEF F!TimerFires, F!SaveMetadata
  <2> QED BY <2>1, <2>2 DEF F!StoreInv, F!Resolves
<1>5. CASE F!CloseRead
  BY <1>5 DEF F!CloseRead, F!Metadata, F!StoreInv, F!Resolves
<1>6. CASE F!CloseSave
  BY <1>6 DEF F!CloseSave, F!SaveMetadata, F!StoreInv, F!Resolves
<1>7. CASE F!Exit
  BY <1>7 DEF F!Exit, F!Emptied, F!StoreInv, F!Resolves
<1>8. CASE F!FlushFakeip
  BY <1>8 DEF F!FlushFakeip, F!Emptied, F!StoreInv, F!Resolves
<1>9. CASE UNCHANGED F!vars
  BY <1>9 DEF F!vars, F!StoreInv, F!Resolves
<1> HIDE DEF F!store
<1> QED
  BY Zenon, <1>1, <1>2, <1>3, <1>4, <1>5, <1>6, <1>7, <1>8, <1>9 DEF F!Next

(* A store without a cache file has nothing in it.                           *)
LEMMA FakeIPInit == F!Init => F!StoreInv
  BY DEF F!Init, F!StoreInv, F!Resolves

(* For any number of queries, domains and ranges of any size: the address of *)
(* a domain leads back to the domain (FakeIPStore, FakeIPLoad,               *)
(* FakeIPLoadDomain).                                                        *)
THEOREM FakeIPResolves == F!Spec => []Resolves
<1>1. F!StoreInv /\ [F!Next]_(F!vars) => F!StoreInv'
  BY Zenon, FakeIPSteps
<1>2. F!StoreInv => Resolves
  BY Zenon DEF Resolves, F!StoreInv
<1> QED
  BY <1>1, <1>2, FakeIPInit, PTL DEF F!Spec

(* For any sequence of configurations: unless Start could not reset the      *)
(* store, answers lie in the range that is configured (Start, FakeIPReset).  *)
THEOREM FakeIPAnswerInRange == F!Spec => []AnswerInRange
<1>1. F!StoreInv /\ [F!Next]_(F!vars) => F!StoreInv'
  BY Zenon, FakeIPSteps
<1>2. F!StoreInv => AnswerInRange
  BY Zenon DEF AnswerInRange, F!StoreInv, F!AnswerInRange
<1> QED
  BY <1>1, <1>2, FakeIPInit, PTL DEF F!Spec
-----------------------------------------------------------------------------
(* The selector.  NoStaleConn is inductive with the types alone; the kept    *)
(* selection needs SelectorInv.                                              *)

(* Every step of the selector keeps the types of its state.                  *)
LEMMA SelectorTypes ==
  ASSUME S!TypeOK, [S!Next]_(S!vars), Default \in SelectorTags PROVE S!TypeOK'
<1> USE DEF S!TypeOK, S!conns
<1>1. ASSUME NEW p \in Selections, NEW t \in SelectorTags, S!SelectSwap(p, t) PROVE S!TypeOK'
  <2>1. raced' \in BOOLEAN
    BY <1>1, Zenon DEF S!SelectSwap
  <2> QED BY Zenon, <1>1, <2>1 DEF S!SelectSwap
<1>2. ASSUME NEW p \in Selections, S!SelectStore(p) PROVE S!TypeOK'
  <2>1. stored' \in {tag[p], stored} /\ raced' \in {TRUE, raced}
    BY Zenon, <1>2 DEF S!SelectStore
  <2>2. tag[p] \in SelectorTags /\ stored \in SelectorTags \cup {Nil} /\ raced \in BOOLEAN
    BY Zenon
  <2>3. stored' \in SelectorTags \cup {Nil}
    BY Zenon, <2>1, <2>2
  <2>4. raced' \in BOOLEAN
    BY Zenon, <2>1, <2>2
  <2> QED BY Zenon, <1>2, <2>3, <2>4 DEF S!SelectStore
<1>3. ASSUME NEW p \in Selections, S!Interrupt(p) PROVE S!TypeOK'
  BY Zenon, <1>3 DEF S!Interrupt
<1>4. ASSUME NEW c \in Conns, NEW e \in BOOLEAN, S!Dial(c, e) PROVE S!TypeOK'
  BY Zenon, <1>4 DEF S!Dial
<1>5. ASSUME NEW c \in Conns, S!NewConn(c) PROVE S!TypeOK'
  BY Zenon, <1>5 DEF S!NewConn
<1>6. ASSUME NEW c \in Conns, S!CloseConn(c) PROVE S!TypeOK'
  BY Zenon, <1>6 DEF S!CloseConn
<1>7. CASE S!Restart
  BY Zenon, <1>7 DEF S!Restart, S!Selection
<1>8. CASE UNCHANGED S!vars
  BY Zenon, <1>8 DEF S!vars
<1> HIDE DEF S!TypeOK, S!conns
<1> QED
  BY Zenon, <1>1, <1>2, <1>3, <1>4, <1>5, <1>6, <1>7, <1>8 DEF S!Next

(* A call that has swapped the selection is not over before Interrupt has    *)
(* closed the registered connections, whether its store fails or not.        *)
LEMMA SelectorConns ==
  ASSUME S!TypeOK, S!NoStaleConn, [S!Next]_(S!vars) PROVE S!NoStaleConn'
<1> USE DEF S!TypeOK, S!conns, S!NoStaleConn, S!Settled
<1>1. ASSUME NEW p \in Selections, NEW t \in SelectorTags, S!SelectSwap(p, t) PROVE S!NoStaleConn'
  <2>1. selecting'[p] = "store"
    BY Zenon, <1>1 DEF S!SelectSwap
  <2> QED BY Zenon, <2>1
<1>2. ASSUME NEW p \in Selections, S!SelectStore(p) PROVE S!NoStaleConn'
  <2>1. selecting'[p] = "interrupt"
    BY Zenon, <1>2 DEF S!SelectStore
  <2> QED BY Zenon, <2>1
<1>3. ASSUME NEW p \in Selections, S!Interrupt(p) PROVE S!NoStaleConn'
  BY Zenon, <1>3 DEF S!Interrupt
<1>4. ASSUME NEW c \in Conns, NEW e \in BOOLEAN, S!Dial(c, e) PROVE S!NoStaleConn'
  BY Zenon, <1>4 DEF S!Dial
<1>5. ASSUME NEW c \in Conns, S!NewConn(c) PROVE S!NoStaleConn'
  BY Zenon, <1>5 DEF S!NewConn
<1>6. ASSUME NEW c \in Conns, S!CloseConn(c) PROVE S!NoStaleConn'
  BY Zenon, <1>6 DEF S!CloseConn
<1>7. CASE S!Restart
  BY Zenon, <1>7 DEF S!Restart
<1>8. CASE UNCHANGED S!vars
  BY Zenon, <1>8 DEF S!vars
<1> HIDE DEF S!TypeOK, S!conns, S!NoStaleConn, S!Settled
<1> QED
  BY Zenon, <1>1, <1>2, <1>3, <1>4, <1>5, <1>6, <1>7, <1>8 DEF S!Next

(* Without a race, the last selection is in the cache file or a call is      *)
(* about to store it, in every step.                                         *)
LEMMA SelectorStores ==
  ASSUME S!SelectorInv, [S!Next]_(S!vars), Nil \notin SelectorTags, Default \in SelectorTags
  PROVE  S!SelectorInv'
<1>t. S!TypeOK /\ S!StoreTells
  BY Zenon DEF S!SelectorInv
<1>u. S!TypeOK'
  BY Zenon, <1>t, SelectorTypes
<1> SUFFICES S!StoreTells'
  BY Zenon, <1>u DEF S!SelectorInv
<1> USE DEF S!StoreTells, S!TypeOK, S!conns, S!Selection
<1>1. ASSUME NEW p \in Selections, NEW t \in SelectorTags, S!SelectSwap(p, t) PROVE S!StoreTells'
  BY Zenon, <1>t, <1>1 DEF S!SelectSwap
<1>2. ASSUME NEW p \in Selections, S!SelectStore(p) PROVE S!StoreTells'
  BY <1>t, <1>2 DEF S!SelectStore
<1>3. ASSUME NEW p \in Selections, S!Interrupt(p) PROVE S!StoreTells'
  BY Zenon, <1>t, <1>3 DEF S!Interrupt
<1>4. ASSUME NEW c \in Conns, NEW e \in BOOLEAN, S!Dial(c, e) PROVE S!StoreTells'
  BY Zenon, <1>t, <1>4 DEF S!Dial
<1>5. ASSUME NEW c \in Conns, S!NewConn(c) PROVE S!StoreTells'
  BY Zenon, <1>t, <1>5 DEF S!NewConn
<1>6. ASSUME NEW c \in Conns, S!CloseConn(c) PROVE S!StoreTells'
  BY Zenon, <1>t, <1>6 DEF S!CloseConn
<1>7. CASE S!Restart
  BY Zenon, <1>t, <1>7 DEF S!Restart
<1>8. CASE UNCHANGED S!vars
  BY Zenon, <1>t, <1>8 DEF S!vars
<1> HIDE DEF S!StoreTells, S!TypeOK, S!conns, S!Selection
<1> QED
  BY Zenon, <1>1, <1>2, <1>3, <1>4, <1>5, <1>6, <1>7, <1>8 DEF S!Next

(* A selector that Start has just set up satisfies both invariants.          *)
LEMMA SelectorInit ==
  ASSUME S!Init, Default \in SelectorTags, InterruptExternal \subseteq BOOLEAN
  PROVE  S!SelectorInv /\ S!NoStaleConn
<1>1. S!TypeOK
  BY Zenon DEF S!Init, S!TypeOK
<1> QED
  BY Zenon, <1>1 DEF S!Init, S!SelectorInv, S!StoreTells, S!NoStaleConn, S!Selection

(* For any number of callers, connections and outbounds: once no selection   *)
(* is under way, no connection is left on an outbound that is not selected,  *)
(* with the exceptions NoStaleConn names (SelectOutbound, Group.Interrupt).  *)
THEOREM SelectorNoStaleConn ==
  ASSUME Default \in SelectorTags, InterruptExternal \subseteq BOOLEAN
  PROVE  S!Spec => []NoStaleConn
<1> DEFINE I == S!TypeOK /\ S!NoStaleConn
<1>1. S!Init => I
  BY Zenon, SelectorInit DEF S!SelectorInv
<1>2. I /\ [S!Next]_(S!vars) => I'
  BY Zenon, SelectorTypes, SelectorConns
<1> HIDE DEF I
<1>3. I => NoStaleConn
  BY Zenon DEF NoStaleConn, I
<1> QED
  BY <1>1, <1>2, <1>3, PTL DEF S!Spec

(* For any number of callers: without a race or a failed store, a restart    *)
(* selects what is selected now (SelectOutbound's order of Swap and          *)
(* StoreSelected; Start).                                                    *)
THEOREM SelectorSelectionKept ==
  ASSUME Default \in SelectorTags, Nil \notin SelectorTags, InterruptExternal \subseteq BOOLEAN
  PROVE  S!Spec => []SelectionKept
<1>1. S!Init => S!SelectorInv
  BY Zenon, SelectorInit
<1>2. S!SelectorInv /\ [S!Next]_(S!vars) => S!SelectorInv'
  BY Zenon, SelectorStores
<1>3. S!SelectorInv => SelectionKept
  BY Zenon DEF SelectionKept, S!SelectorInv, S!StoreTells, S!SelectionKept, S!Settled
<1> QED
  BY <1>1, <1>2, <1>3, PTL DEF S!Spec
-----------------------------------------------------------------------------
(* The remote rule-set.                                                      *)

(* Every step of the rule-set keeps the types of its state.                  *)
LEMMA RuleSetTypes == ASSUME R!TypeOK, [R!Next]_(R!vars) PROVE R!TypeOK'
<1> USE DEF R!TypeOK, R!server, R!NoAnswer
<1>1. CASE R!ServerUpdates
  BY <1>1 DEF R!ServerUpdates
<1>2. CASE R!StartContext
  BY <1>2 DEF R!StartContext
<1>3. CASE R!PostStart
  BY <1>3 DEF R!PostStart
<1>4. CASE R!Cleanup
  BY <1>4 DEF R!Cleanup
<1>5. CASE R!FetchAnswered
  BY <1>5 DEF R!FetchAnswered
<1>6. CASE R!FetchLoad
  BY <1>6 DEF R!FetchLoad
<1>7. CASE R!FetchSave
  BY <1>7 DEF R!FetchSave
<1>8. CASE R!FetchNotModified
  BY <1>8 DEF R!FetchNotModified
<1>9. CASE R!UpdateDone
  BY <1>9 DEF R!UpdateDone
<1>10. CASE R!Close
  BY <1>10 DEF R!Close
<1>11. CASE R!Exit
  BY Zenon, <1>11 DEF R!Exit
<1>12. CASE UNCHANGED R!vars
  BY <1>12 DEF R!vars
<1> HIDE DEF R!TypeOK, R!server, R!NoAnswer
<1> QED
  BY Zenon, <1>1, <1>2, <1>3, <1>4, <1>5, <1>6, <1>7, <1>8, <1>9, <1>10, <1>11, <1>12
  DEF R!Next

(* Every step keeps an Etag with the content it was sent with: fetch takes   *)
(* it over after loadBytes has replaced the rules, and saves the two as one. *)
LEMMA RuleSetSteps ==
  ASSUME R!RuleSetInv, [R!Next]_(R!vars), Nil \notin Versions PROVE R!RuleSetInv'
<1>t. R!TypeOK /\ R!EtagTells
  BY Zenon DEF R!RuleSetInv
<1>u. R!TypeOK'
  BY Zenon, RuleSetTypes DEF R!RuleSetInv
<1> SUFFICES R!EtagTells'
  BY Zenon, <1>u DEF R!RuleSetInv
<1> USE DEF R!EtagTells, R!TypeOK, R!server, R!NoAnswer, R!NotModifiedTrue
<1>1. CASE R!ServerUpdates
  BY <1>t, <1>1 DEF R!ServerUpdates
<1>2. CASE R!StartContext
  BY <1>t, <1>2 DEF R!StartContext
<1>3. CASE R!PostStart
  BY <1>t, <1>3 DEF R!PostStart
<1>4. CASE R!Cleanup
  BY <1>t, <1>4 DEF R!Cleanup
<1>5. CASE R!FetchAnswered
  BY <1>t, <1>5 DEF R!FetchAnswered
<1>6. CASE R!FetchLoad
  BY <1>t, <1>6 DEF R!FetchLoad
<1>7. CASE R!FetchSave
  <2>1. /\ fetch = "loaded" /\ fetch' = "done" /\ response' = R!NoAnswer
        /\ lastEtag' = IF tagged THEN response.content ELSE lastEtag
    BY Zenon, <1>t, <1>7 DEF R!FetchSave
  <2>2. CASE saved' = saved
    BY <1>t, <1>7, <2>1, <2>2 DEF R!FetchSave
  <2>3. CASE saved' = [content |-> response.content, etag |-> lastEtag']
    <3>1. saved'.content = response.content /\ saved'.etag = lastEtag'
      BY Zenon, <2>3
    <3>2. lastEtag' # Nil => tagged /\ lastEtag' = response.content
      BY <1>t, <2>1
    <3> QED BY <1>t, <1>7, <2>1, <3>1, <3>2 DEF R!FetchSave
  <2> QED BY Zenon, <1>t, <1>7, <2>2, <2>3 DEF R!FetchSave
<1>8. CASE R!FetchNotModified
  BY <1>t, <1>8 DEF R!FetchNotModified
<1>9. CASE R!UpdateDone
  BY <1>t, <1>9 DEF R!UpdateDone
<1>10. CASE R!Close
  BY <1>t, <1>10 DEF R!Close
<1>11. CASE R!Exit
  BY <1>t, <1>11 DEF R!Exit
<1>12. CASE UNCHANGED R!vars
  BY <1>t, <1>12 DEF R!vars
<1> HIDE DEF R!EtagTells, R!TypeOK, R!server, R!NoAnswer, R!NotModifiedTrue
<1> QED
  BY Zenon, <1>1, <1>2, <1>3, <1>4, <1>5, <1>6, <1>7, <1>8, <1>9, <1>10, <1>11, <1>12
  DEF R!Next

(* For any number of contents: an answer "not modified" is about the rules   *)
(* that are held (fetch, StartContext, Cleanup), through failures, crashes   *)
(* and restarts.                                                             *)
THEOREM RuleSetNotModifiedTrue ==
  ASSUME Nil \notin Versions, Tagged \subseteq BOOLEAN
  PROVE  R!Spec => []NotModifiedTrue
<1>1. R!Init => R!RuleSetInv
  BY DEF R!Init, R!RuleSetInv, R!EtagTells, R!TypeOK, R!NoAnswer, R!Unsaved, R!NotModifiedTrue
<1>2. R!RuleSetInv /\ [R!Next]_(R!vars) => R!RuleSetInv'
  BY Zenon, RuleSetSteps
<1>3. R!RuleSetInv => NotModifiedTrue
  BY Zenon DEF NotModifiedTrue, R!RuleSetInv, R!EtagTells
<1> QED
  BY <1>1, <1>2, <1>3, PTL DEF R!Spec
=============================================================================
