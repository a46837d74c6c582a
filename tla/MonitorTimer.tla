----------------------------- MODULE MonitorTimer -----------------------------
(***************************************************************************)
(* When the monitor tests at all: Touch, startTimerWorkers,                *)
(* stopTimerWorkers, scheduleLoop and Close of                             *)
(* common/monitoring/outbound_monitoring.go.  A ticker and a schedule loop *)
(* are started by the first Touch and go away when nothing was routed for  *)
(* idleTimeout; another Touch starts them again.                           *)
(*                                                                         *)
(* Touch runs under m.access; stopTimerWorkers, which the loop and Close   *)
(* call, does not.  One action is one access to a shared variable there.   *)
(* A run is a number: that of the ticker and of the loop that              *)
(* startTimerWorkers makes.  What a loop starts at a tick is the cycle of  *)
(* module OutboundMonitor.                                                 *)
(***************************************************************************)
EXTENDS Integers

CONSTANTS Touchers,  \* goroutines that route connections
          MaxRuns,   \* bound on the number of starts
          Closer     \* the goroutine that calls Close

Runs == 1..MaxRuns
NoRun == 0
Nobody == 0

ASSUME TimerAssumption ==
  MaxRuns \in Nat \ {0} /\ Closer \notin Runs /\ Nobody \notin Touchers

VARIABLES workersRunning, \* m.workersRunning
          mainTicker,     \* m.mainTicker: nil or the run it was made for
          pauseCallback,  \* m.pauseCallback: nil or the run
          registered,     \* runs whose callback the pause manager holds
          runs,           \* number of starts so far
          ticking,        \* tickers that are not stopped
          ticked,         \* tickers with a tick in their channel
          recent,         \* lastActive is less than idleTimeout ago
          access,         \* who holds m.access
          touch,          \* where each toucher is in startTimerWorkers
          loop,           \* where each schedule loop is
          ticker,         \* the ticker that each loop has got hold of
          stop,           \* where a loop or Close is in stopTimerWorkers
          closing,        \* where Close is
          ctxDone         \* m.ctx is cancelled

callbackVars == <<pauseCallback, registered>>
tickVars == <<ticking, ticked>>
loopVars == <<loop, ticker>>
vars == <<workersRunning, mainTicker, callbackVars, runs, tickVars, recent,
          access, touch, loopVars, stop, closing, ctxDone>>

Stoppers == Runs \cup {Closer}

TypeOK ==
  /\ workersRunning \in BOOLEAN
  /\ mainTicker \in 0..MaxRuns
  /\ pauseCallback \in 0..MaxRuns
  /\ registered \subseteq Runs
  /\ runs \in 0..MaxRuns
  /\ ticking \subseteq Runs
  /\ ticked \subseteq Runs
  /\ recent \in BOOLEAN
  /\ access \in Touchers \cup {Nobody}
  /\ touch \in [Touchers -> {"out", "swap", "ticker", "register", "go"}]
  /\ loop \in [Runs -> {"none", "begin", "select", "stop", "exit", "panic"}]
  /\ ticker \in [Runs -> 0..MaxRuns]
  /\ stop \in [Stoppers -> {"out", "swap", "ticker", "unregister", "done", "panic"}]
  /\ closing \in {"out", "stop", "wait", "done"}
  /\ ctxDone \in BOOLEAN

Init ==
  /\ workersRunning = FALSE
  /\ mainTicker = NoRun
  /\ pauseCallback = NoRun
  /\ registered = {}
  /\ runs = 0
  /\ ticking = {}
  /\ ticked = {}
  /\ recent = FALSE
  /\ access = Nobody
  /\ touch = [t \in Touchers |-> "out"]
  /\ loop = [r \in Runs |-> "none"]
  /\ ticker = [r \in Runs |-> NoRun]
  /\ stop = [s \in Stoppers |-> "out"]
  /\ closing = "out"
  /\ ctxDone = FALSE
-----------------------------------------------------------------------------
(* Touch and startTimerWorkers.                                            *)

\* Touch: with a ticker it only takes note of the time.
TouchActive(t) ==
  /\ access = Nobody
  /\ mainTicker # NoRun
  /\ recent' = TRUE
  /\ UNCHANGED <<workersRunning, mainTicker, callbackVars, runs, tickVars, access,
                 touch, loopVars, stop, closing, ctxDone>>

TouchStart(t) ==
  /\ access = Nobody
  /\ mainTicker = NoRun
  /\ runs < MaxRuns
  /\ access' = t
  /\ touch' = [touch EXCEPT ![t] = "swap"]
  /\ UNCHANGED <<workersRunning, mainTicker, callbackVars, runs, tickVars, recent,
                 loopVars, stop, closing, ctxDone>>

\* As if the loop were started before the ticker is made.
StartSwapGoes(t) ==
  /\ touch[t] = "swap"
  /\ ~workersRunning
  /\ workersRunning' = TRUE
  /\ runs' = runs + 1
  /\ loop' = [loop EXCEPT ![runs'] = "begin"]
  /\ touch' = [touch EXCEPT ![t] = "ticker"]
  /\ UNCHANGED <<mainTicker, callbackVars, tickVars, recent, access, ticker, stop,
                 closing, ctxDone>>

StartSwap(t) ==
  /\ touch[t] = "swap"
  /\ IF workersRunning
     THEN /\ touch' = [touch EXCEPT ![t] = "out"]
          /\ access' = Nobody
          /\ UNCHANGED <<workersRunning, runs>>
     ELSE /\ workersRunning' = TRUE
          /\ runs' = runs + 1
          /\ touch' = [touch EXCEPT ![t] = "ticker"]
          /\ UNCHANGED access
  /\ UNCHANGED <<mainTicker, callbackVars, tickVars, recent, loopVars, stop,
                 closing, ctxDone>>

StartTicker(t) ==
  /\ touch[t] = "ticker"
  /\ mainTicker' = runs
  /\ ticking' = ticking \cup {runs}
  /\ touch' = [touch EXCEPT ![t] = "register"]
  /\ UNCHANGED <<workersRunning, callbackVars, runs, ticked, recent, access,
                 loopVars, stop, closing, ctxDone>>

StartRegister(t) ==
  /\ touch[t] = "register"
  /\ pauseCallback' = runs
  /\ registered' = registered \cup {runs}
  /\ touch' = [touch EXCEPT ![t] = "go"]
  /\ UNCHANGED <<workersRunning, mainTicker, runs, tickVars, recent, access,
                 loopVars, stop, closing, ctxDone>>

\* schedulerWG.Add and the go statement; the lock is given back.
StartGo(t) ==
  /\ touch[t] = "go"
  /\ loop' = [loop EXCEPT ![runs] = "begin"]
  /\ touch' = [touch EXCEPT ![t] = "out"]
  /\ access' = Nobody
  /\ UNCHANGED <<workersRunning, mainTicker, callbackVars, runs, tickVars, recent,
                 ticker, stop, closing, ctxDone>>
-----------------------------------------------------------------------------
(* scheduleLoop.                                                           *)

\* The loop starts a cycle and gets hold of the ticker of the moment; with
\* none, the select dereferences nil.
LoopBegin(r) ==
  /\ loop[r] = "begin"
  /\ ticker' = [ticker EXCEPT ![r] = mainTicker]
  /\ loop' = [loop EXCEPT ![r] = IF mainTicker = NoRun THEN "panic" ELSE "select"]
  /\ UNCHANGED <<workersRunning, mainTicker, callbackVars, runs, tickVars, recent,
                 access, touch, stop, closing, ctxDone>>

\* As if the loop did not watch the context.
LoopDoneNot(r) == FALSE /\ r \in Runs /\ UNCHANGED vars

LoopDone(r) ==
  /\ loop[r] = "select"
  /\ ctxDone
  /\ loop' = [loop EXCEPT ![r] = "exit"]
  /\ UNCHANGED <<workersRunning, mainTicker, callbackVars, runs, tickVars, recent,
                 access, touch, ticker, stop, closing, ctxDone>>

\* A tick starts a cycle or, if the monitor is idle, ends the loop, which is
\* done for the wait group before it stops the timer.
LoopTick(r) ==
  /\ loop[r] = "select"
  /\ ticker[r] \in ticked
  /\ ticked' = ticked \ {ticker[r]}
  /\ IF recent
     THEN UNCHANGED <<loop, stop>>
     ELSE /\ loop' = [loop EXCEPT ![r] = "stop"]
          /\ stop' = [stop EXCEPT ![r] = "swap"]
  /\ UNCHANGED <<workersRunning, mainTicker, callbackVars, runs, ticking, recent,
                 access, touch, ticker, closing, ctxDone>>
-----------------------------------------------------------------------------
(* stopTimerWorkers, called by a loop or by Close.                         *)

StopSwap(s) ==
  /\ stop[s] = "swap"
  /\ stop' = [stop EXCEPT ![s] = IF workersRunning THEN "ticker" ELSE "done"]
  /\ workersRunning' = FALSE
  /\ UNCHANGED <<mainTicker, callbackVars, runs, tickVars, recent, access, touch,
                 loopVars, closing, ctxDone>>

\* As if m.mainTicker kept the stopped ticker.
StopTickerKeeps(s) ==
  /\ stop[s] = "ticker"
  /\ stop' = [stop EXCEPT ![s] = "unregister"]
  /\ ticking' = ticking \ {mainTicker}
  /\ UNCHANGED <<workersRunning, mainTicker, callbackVars, runs, ticked, recent,
                 access, touch, loopVars, closing, ctxDone>>

\* Stop dereferences m.mainTicker.
StopTicker(s) ==
  /\ stop[s] = "ticker"
  /\ stop' = [stop EXCEPT ![s] = IF mainTicker = NoRun THEN "panic" ELSE "unregister"]
  /\ ticking' = ticking \ {mainTicker}
  /\ mainTicker' = NoRun
  /\ UNCHANGED <<workersRunning, callbackVars, runs, ticked, recent, access, touch,
                 loopVars, closing, ctxDone>>

\* UnregisterCallback of the callback of the moment.
StopUnregister(s) ==
  /\ stop[s] = "unregister"
  /\ stop' = [stop EXCEPT ![s] = "done"]
  /\ registered' = registered \ {pauseCallback}
  /\ UNCHANGED <<workersRunning, mainTicker, pauseCallback, runs, tickVars, recent,
                 access, touch, loopVars, closing, ctxDone>>

\* A loop that has stopped the timer returns.
LoopReturn(r) ==
  /\ loop[r] = "stop"
  /\ stop[r] = "done"
  /\ loop' = [loop EXCEPT ![r] = "exit"]
  /\ UNCHANGED <<workersRunning, mainTicker, callbackVars, runs, tickVars, recent,
                 access, touch, ticker, stop, closing, ctxDone>>
-----------------------------------------------------------------------------
(* Close, which runs once.                                                 *)

Close ==
  /\ closing = "out"
  /\ closing' = "stop"
  /\ stop' = [stop EXCEPT ![Closer] = "swap"]
  /\ UNCHANGED <<workersRunning, mainTicker, callbackVars, runs, tickVars, recent,
                 access, touch, loopVars, ctxDone>>

CloseCancel ==
  /\ closing = "stop"
  /\ stop[Closer] = "done"
  /\ closing' = "wait"
  /\ ctxDone' = TRUE
  /\ UNCHANGED <<workersRunning, mainTicker, callbackVars, runs, tickVars, recent,
                 access, touch, loopVars, stop>>

\* schedulerWG.Wait.
CloseReturn ==
  /\ closing = "wait"
  /\ \A r \in Runs : loop[r] \notin {"begin", "select"}
  /\ closing' = "done"
  /\ UNCHANGED <<workersRunning, mainTicker, callbackVars, runs, tickVars, recent,
                 access, touch, loopVars, stop, ctxDone>>

\* The context of the whole instance is cancelled, and m.ctx with it.
CancelBox ==
  /\ ~ctxDone
  /\ ctxDone' = TRUE
  /\ UNCHANGED <<workersRunning, mainTicker, callbackVars, runs, tickVars, recent,
                 access, touch, loopVars, stop, closing>>

\* Time: a ticker ticks into its channel of capacity one.
Tick(r) ==
  /\ r \in ticking \ ticked
  /\ ticked' = ticked \cup {r}
  /\ UNCHANGED <<workersRunning, mainTicker, callbackVars, runs, ticking, recent,
                 access, touch, loopVars, stop, closing, ctxDone>>

\* Time: nothing was routed for idleTimeout.
Idle ==
  /\ recent
  /\ recent' = FALSE
  /\ UNCHANGED <<workersRunning, mainTicker, callbackVars, runs, tickVars, access,
                 touch, loopVars, stop, closing, ctxDone>>

StartStep(t) == StartSwap(t) \/ StartTicker(t) \/ StartRegister(t) \/ StartGo(t)
LoopStep(r) == LoopBegin(r) \/ LoopDone(r) \/ LoopTick(r) \/ LoopReturn(r)
StopStep(s) == StopSwap(s) \/ StopTicker(s) \/ StopUnregister(s)

\* A nil pointer is dereferenced: the program ends.
Panicked ==
  \/ \E r \in Runs : loop[r] = "panic"
  \/ \E s \in Stoppers : stop[s] = "panic"

Next ==
  /\ ~Panicked
  /\ \/ \E t \in Touchers : TouchActive(t) \/ TouchStart(t) \/ StartStep(t)
     \/ \E r \in Runs : LoopStep(r) \/ Tick(r)
     \/ \E s \in Stoppers : StopStep(s)
     \/ Close \/ CloseCancel \/ CloseReturn \/ CancelBox \/ Idle

Spec == Init /\ [][Next]_vars

\* Time passes and goroutines go on; a select that is cancelled picks that
\* case some time.  Nothing is assumed of what is routed or of Close being
\* called.
Fairness ==
  /\ \A t \in Touchers : WF_vars(~Panicked /\ StartStep(t))
  /\ \A r \in Runs :
       /\ WF_vars(~Panicked /\ LoopStep(r))
       /\ SF_vars(~Panicked /\ LoopDone(r))
       /\ WF_vars(~Panicked /\ Tick(r))
  /\ \A s \in Stoppers : WF_vars(~Panicked /\ StopStep(s))
  /\ WF_vars(~Panicked /\ (CloseCancel \/ CloseReturn))

FairSpec == Spec /\ Fairness
-----------------------------------------------------------------------------
Live(r) == loop[r] \in {"begin", "select"}

(* Until Close, there is one schedule loop at a time, whoever calls Touch  *)
(* and whenever a loop decides to stop: no tick is served twice.           *)
OneLoop ==
  closing = "out" => \A r, q \in Runs : Live(r) /\ Live(q) => r = q

(* A ticker means that somebody looks after it: its loop, the goroutine    *)
(* that is starting it or the one that is stopping it.  Otherwise Touch    *)
(* would take a dead timer for a live one and no test would ever run.      *)
TickerServed ==
  closing = "out" /\ ~ctxDone /\ mainTicker # NoRun =>
    \/ Live(mainTicker)
    \/ stop[mainTicker] \in {"swap", "ticker"}
    \/ \E t \in Touchers : touch[t] \in {"register", "go"}

(* Neither the loop nor stopTimerWorkers meets a nil ticker, although they *)
(* read it without the lock; only Close, in between, can bring that about. *)
NilTickerOnlyAtClose == Panicked => closing # "out"

(* Close returns, also while loops are being started and stopped, unless a *)
(* nil ticker ends the program before.                                     *)
CloseReturns == closing # "out" ~> (closing = "done" \/ Panicked)

(* The goroutine inside startTimerWorkers holds the lock.                  *)
Lock ==
  /\ \A t \in Touchers :
       /\ touch[t] # "out" => access = t
       /\ touch[t] = "swap" => runs < MaxRuns
       /\ touch[t] \in {"ticker", "register", "go"} => runs > 0
  /\ access \in Touchers => touch[access] # "out"

(* Runs that are still to come.                                            *)
Fresh == \A r \in Runs : r > runs => loop[r] = "none" /\ stop[r] = "out"

(* What a loop, alive or stopping, knows of its run.                       *)
LoopHolds(r) ==
  /\ Live(r) => stop[r] = "out"
  /\ Live(r) \/ stop[r] \in {"swap", "ticker"} =>
       r = runs /\ mainTicker = r /\ access = Nobody
  /\ Live(r) \/ stop[r] = "swap" => workersRunning
  /\ stop[r] = "ticker" => ~workersRunning

(* What the goroutine that starts a run knows of it.                       *)
StarterHolds(t) ==
  /\ touch[t] = "swap" => ~workersRunning
  /\ touch[t] \in {"swap", "ticker"} => mainTicker = NoRun
  /\ touch[t] \in {"register", "go"} => mainTicker = runs
  /\ touch[t] \in {"ticker", "register", "go"} =>
       workersRunning /\ loop[runs] = "none" /\ stop[runs] = "out"

Custody ==
  /\ \A r \in Runs : loop[r] # "panic" /\ LoopHolds(r)
  /\ \A s \in Stoppers : stop[s] # "panic"
  /\ \A t \in Touchers : StarterHolds(t)
  /\ stop[Closer] = "out"
  /\ mainTicker # NoRun => mainTicker = runs
  /\ access = Nobody /\ mainTicker = NoRun => ~workersRunning
  /\ access = Nobody /\ mainTicker # NoRun /\ ~ctxDone =>
       Live(runs) \/ stop[runs] \in {"swap", "ticker"}

(* The inductive invariant behind OneLoop, TickerServed and                *)
(* NilTickerOnlyAtClose: until Close, a run is in the hands of the         *)
(* goroutine that starts it, then of its loop, which stops it, and the     *)
(* next one starts only when the ticker is gone.                           *)
TimerInv == TypeOK /\ Lock /\ Fresh /\ (closing = "out" => Custody)
=============================================================================
