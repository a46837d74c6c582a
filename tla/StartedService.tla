--------------------------- MODULE StartedService ---------------------------
(***************************************************************************)
(* Starting, reloading and stopping the whole program from outside:        *)
(* daemon/started_service.go (startOrReloadServiceImp, CloseService,       *)
(* SetError) over daemon/instance.go and the Start and Close of box.go.    *)
(*                                                                         *)
(* The status, the current instance and the lock are shared.  The lock is  *)
(* given up while an old instance is closed and while a new one starts;    *)
(* only the status keeps other calls away meanwhile.  Instances are        *)
(* numbered in the order in which they are made.                           *)
(*                                                                         *)
(* What an instance consists of is abstracted: its Start returns nil or an *)
(* error at some time, and Close tears it down.  Close looks at the        *)
(* channel s.done and closes it in two steps, as the code does.            *)
(***************************************************************************)
EXTENDS Integers

CONSTANTS Callers,      \* goroutines that call into the service
          MaxInstances, \* bound on the number of instances made
          Nobody

VARIABLES serviceStatus,
          serviceAccess,  \* who holds the lock
          instance,       \* s.instance; 0 is nil
          made,           \* number of instances made so far
          done,           \* instances whose s.done is closed
          failed,         \* instances whose start has failed
          pc,             \* where each caller is
          role,           \* what it calls Box.Close for
          mine,           \* the instance it closes or starts
          err,            \* callers whose box.Start returned an error
          stale,          \* a start ended for an instance replaced since
          crashed         \* s.done was closed twice and nobody recovered

lockVars == <<serviceStatus, serviceAccess, instance, made>>
callVars == <<pc, role, mine, err>>
vars == <<lockVars, done, failed, callVars, stale, crashed>>

Nil == 0

(* newInstance makes an instance or refuses the configuration; the number  *)
(* is all that is kept of it.                                              *)
Instances == 1..MaxInstances

(* Box.Close checks s.done, closes it and tears down; it is called for the *)
(* old instance of a reload, by a start that has failed and to stop.  That *)
(* Instance.Close cancels the context first shows in a start that fails.   *)
InClose == {"check", "mark", "tear"}
PCs == InClose \cup {"idle", "relock", "make", "run", "finish", "stopped", "unstopped"}
Roles == {"reload", "start", "stop"}

TypeOK ==
  /\ serviceStatus \in {"IDLE", "STARTING", "STARTED", "STOPPING", "FATAL"}
  /\ serviceAccess \in Callers \cup {Nobody}
  /\ instance \in 0..MaxInstances
  /\ made \in 0..MaxInstances
  /\ done \subseteq Instances
  /\ failed \subseteq Instances
  /\ pc \in [Callers -> PCs]
  /\ role \in [Callers -> Roles]
  /\ mine \in [Callers -> 0..MaxInstances]
  /\ err \subseteq Callers
  /\ stale \in BOOLEAN
  /\ crashed \in BOOLEAN

Init ==
  /\ serviceStatus = "IDLE"
  /\ serviceAccess = Nobody
  /\ instance = Nil
  /\ made = 0
  /\ done = {}
  /\ failed = {}
  /\ pc = [c \in Callers |-> "idle"]
  /\ role = [c \in Callers |-> "reload"]
  /\ mine = [c \in Callers |-> Nil]
  /\ err = {}
  /\ stale = FALSE
  /\ crashed = FALSE
-----------------------------------------------------------------------------
Goto(c, l) == pc' = [pc EXCEPT ![c] = l]

(* startOrReloadServiceImp.                                                *)

\* The first critical section where the call is accepted: with an old
\* instance it ends before the instance is closed, otherwise it goes on.
Enter(c) ==
  /\ mine' = [mine EXCEPT ![c] = instance]
  /\ role' = [role EXCEPT ![c] = "reload"]
  /\ IF instance # Nil
     THEN /\ serviceStatus' = "STOPPING"
          /\ Goto(c, "check")
          /\ UNCHANGED serviceAccess
     ELSE /\ serviceStatus' = "STARTING"
          /\ serviceAccess' = c
          /\ Goto(c, "make")
  /\ UNCHANGED <<instance, made, done, failed, err, stale, crashed>>

\* As if a reload did not look at the status.
ReloadAnytime(c) ==
  /\ pc[c] = "idle"
  /\ serviceAccess = Nobody
  /\ Enter(c)

Reload(c) ==
  /\ pc[c] = "idle"
  /\ serviceAccess = Nobody
  /\ serviceStatus \in {"IDLE", "STARTED", "STARTING"}
  /\ Enter(c)

\* The lock is taken again after the old instance is closed, and the status
\* is set without a look at what it has become.
Relock(c) ==
  /\ pc[c] = "relock"
  /\ serviceAccess = Nobody
  /\ serviceAccess' = c
  /\ serviceStatus' = "STARTING"
  /\ Goto(c, "make")
  /\ UNCHANGED <<instance, made, done, failed, role, mine, err, stale, crashed>>

Make(c) ==
  /\ pc[c] = "make"
  /\ made < MaxInstances
  /\ made' = made + 1
  /\ instance' = made + 1
  /\ mine' = [mine EXCEPT ![c] = made + 1]
  /\ serviceAccess' = Nobody
  /\ Goto(c, "run")
  /\ UNCHANGED <<serviceStatus, done, failed, role, err, stale, crashed>>

\* The configuration is refused: the old instance stays in s.instance.
MakeFails(c) ==
  /\ pc[c] = "make"
  /\ serviceStatus' = "FATAL"
  /\ serviceAccess' = Nobody
  /\ Goto(c, "idle")
  /\ UNCHANGED <<instance, made, done, failed, role, mine, err, stale, crashed>>

\* Box.Start returns nil, or has failed and goes on to Close.
Started(c) ==
  /\ pc[c] = "run"
  /\ Goto(c, "finish")
  /\ err' = err \ {c}
  /\ UNCHANGED <<lockVars, done, failed, role, mine, stale, crashed>>

StartFails(c) ==
  /\ pc[c] = "run"
  /\ failed' = failed \cup {mine[c]}
  /\ role' = [role EXCEPT ![c] = "start"]
  /\ Goto(c, "check")
  /\ err' = err \cup {c}
  /\ UNCHANGED <<lockVars, done, mine, stale, crashed>>

\* The last critical section.  The status may be STARTING on behalf of
\* another instance by now.
Finish(c) ==
  /\ pc[c] = "finish"
  /\ serviceAccess = Nobody
  /\ IF serviceStatus = "STARTING"
     THEN /\ serviceStatus' = IF c \in err THEN "FATAL" ELSE "STARTED"
          /\ stale' = (stale \/ mine[c] # instance)
     ELSE UNCHANGED <<serviceStatus, stale>>
  /\ Goto(c, "idle")
  /\ UNCHANGED <<serviceAccess, instance, made, done, failed, role, mine, err, crashed>>
-----------------------------------------------------------------------------
(* Box.Close.  What follows it depends on who called.                      *)

Back(c) == IF role[c] = "reload" THEN "relock" ELSE "finish"

CloseCheck(c) ==
  /\ pc[c] = "check"
  /\ Goto(c, IF mine[c] \notin done THEN "mark"
             ELSE IF role[c] = "stop" THEN "unstopped" ELSE Back(c))
  /\ UNCHANGED <<lockVars, done, failed, role, mine, err, stale, crashed>>

CloseMark(c) ==
  /\ pc[c] = "mark"
  /\ mine[c] \notin done
  /\ done' = done \cup {mine[c]}
  /\ Goto(c, "tear")
  /\ UNCHANGED <<lockVars, failed, role, mine, err, stale, crashed>>

\* close(s.done) panics; a start that has failed recovers and returns nil.
CloseTwice(c) ==
  /\ pc[c] = "mark"
  /\ mine[c] \in done
  /\ IF role[c] = "start"
     THEN Goto(c, "finish") /\ err' = err \ {c} /\ UNCHANGED crashed
     ELSE crashed' = TRUE /\ UNCHANGED <<pc, err>>
  /\ UNCHANGED <<lockVars, done, failed, role, mine, stale>>

\* All services are closed, each within its timeout.  The errors matter to
\* CloseService only.
CloseTear(c) ==
  /\ pc[c] = "tear"
  /\ \/ role[c] # "stop" /\ Goto(c, Back(c))
     \/ role[c] = "stop" /\ (Goto(c, "stopped") \/ Goto(c, "unstopped"))
  /\ UNCHANGED <<lockVars, done, failed, role, mine, err, stale, crashed>>
-----------------------------------------------------------------------------
(* CloseService, which holds the lock from beginning to end.               *)

Leave(c) ==
  /\ serviceStatus' = "STOPPING"
  /\ serviceAccess' = c
  /\ mine' = [mine EXCEPT ![c] = instance]
  /\ role' = [role EXCEPT ![c] = "stop"]
  /\ Goto(c, IF instance # Nil THEN "check" ELSE "stopped")
  /\ UNCHANGED <<instance, made, done, failed, err, stale, crashed>>

CloseService(c) ==
  /\ pc[c] = "idle"
  /\ serviceAccess = Nobody
  /\ serviceStatus \in {"STARTING", "STARTED"}
  /\ Leave(c)

CloseServiceDone(c) ==
  /\ pc[c] = "stopped"
  /\ instance' = Nil
  /\ serviceStatus' = "IDLE"
  /\ serviceAccess' = Nobody
  /\ Goto(c, "idle")
  /\ UNCHANGED <<made, done, failed, role, mine, err, stale, crashed>>

\* As if the error were returned as it is.
CloseServiceReturns(c) ==
  /\ pc[c] = "unstopped"
  /\ serviceAccess' = Nobody
  /\ Goto(c, "idle")
  /\ UNCHANGED <<serviceStatus, instance, made, done, failed, role, mine, err, stale,
                 crashed>>

CloseServiceFails(c) ==
  /\ pc[c] = "unstopped"
  /\ serviceStatus' = "FATAL"
  /\ serviceAccess' = Nobody
  /\ Goto(c, "idle")
  /\ UNCHANGED <<instance, made, done, failed, role, mine, err, stale, crashed>>

SetError(c) ==
  /\ pc[c] = "idle"
  /\ serviceAccess = Nobody
  /\ serviceStatus' = "FATAL"
  /\ UNCHANGED <<serviceAccess, instance, made, done, failed, callVars, stale,
                 crashed>>
-----------------------------------------------------------------------------
Locking(c) == Relock(c) \/ Finish(c)

Working(c) ==
  \/ Make(c) \/ MakeFails(c) \/ CloseCheck(c) \/ CloseMark(c)
  \/ CloseTwice(c) \/ CloseTear(c)
  \/ CloseServiceDone(c) \/ CloseServiceFails(c)

Next ==
  /\ ~crashed
  /\ \E c \in Callers :
       \/ Reload(c) \/ CloseService(c) \/ SetError(c)
       \/ Started(c) \/ StartFails(c)
       \/ Locking(c) \/ Working(c)

Spec == Init /\ [][Next]_vars

\* Goroutines run, the lock serves those who wait in turn, making an instance
\* ends, and so does Close, by its timeouts.  Box.Start may hang.
Fairness ==
  \A c \in Callers : /\ WF_vars(~crashed /\ Working(c))
                     /\ SF_vars(~crashed /\ Locking(c))

FairSpec == Spec /\ Fairness
-----------------------------------------------------------------------------
(* Calls that have given up the lock to close the old instance, calls that *)
(* have the lock.                                                          *)
Replacing ==
  {c \in Callers : pc[c] = "relock" \/ (pc[c] \in InClose /\ role[c] = "reload")}
Holding ==
  {c \in Callers : \/ pc[c] \in {"make", "stopped", "unstopped"}
                   \/ pc[c] \in InClose /\ role[c] = "stop"}

(* The status stands in for the lock while it is given up: while a reload  *)
(* closes the old instance no other call reloads, stops or makes one.      *)
Serial == \A c \in Replacing, d \in Replacing \cup Holding : c = d

(* No instance is left running without a handle: one that is not in        *)
(* s.instance has been closed, whatever calls and failures overlapped.     *)
NoInstanceLeft == \A i \in Instances : i <= made /\ i # instance => i \in done

(* The status STARTED means what it says: the current instance has started *)
(* and is not closed.  The exception is a start that ends when a reload    *)
(* has put another instance in its place: it reports on that one.          *)
StartedRuns ==
  serviceStatus = "STARTED" /\ ~stale =>
    instance # Nil /\ instance \notin done \cup failed

(* Stopping ends, also while a start hangs.                                *)
StopEnds == serviceStatus = "STOPPING" ~> (serviceStatus # "STOPPING" \/ crashed)

(* The calls that start an instance.                                       *)
Starters ==
  {c \in Callers : \/ pc[c] \in {"run", "finish"}
                   \/ pc[c] \in InClose /\ role[c] = "start"}

(* The inductive invariant behind Serial and NoInstanceLeft: the lock and  *)
(* the status tell who may touch s.instance, whoever closes before it is   *)
(* replaced closes this one, and an instance about to be replaced is       *)
(* closed.                                                                 *)
LockHeld ==
  /\ \A c \in Holding : serviceAccess = c
  /\ Replacing # {} => serviceStatus \in {"STOPPING", "FATAL"}
  /\ Serial

HandleHeld ==
  \A c \in Replacing \cup Holding :
    c \in Replacing \/ pc[c] \in InClose => instance # Nil /\ mine[c] = instance

StartersMade == \A c \in Starters : mine[c] \in 1..made

ClosedFirst ==
  /\ \A c \in Callers :
       /\ pc[c] = "tear" => mine[c] \in done
       /\ pc[c] \in {"relock", "make", "stopped"} => instance = Nil \/ instance \in done
  /\ instance <= made
  /\ NoInstanceLeft

LockTells == LockHeld /\ HandleHeld /\ StartersMade /\ ClosedFirst
ServiceInv == TypeOK /\ LockTells

(* As long as nobody stops or replaces the current instance, only its own  *)
(* starter has closed it and is going to report the failure.               *)
Undisturbed ==
  /\ serviceStatus \in {"STARTING", "STARTED"} /\ ~stale
  /\ \A c \in Callers : pc[c] # "make"

Reported ==
  /\ instance # Nil
  /\ serviceStatus = "STARTED" =>
       instance \notin done \cup failed /\ \A c \in Starters : mine[c] # instance
  /\ instance \in done \cup failed =>
       \E c \in Starters \cap err :
         /\ mine[c] = instance /\ pc[c] # "run"
         /\ instance \in done => pc[c] \in {"tear", "finish"}

FailureReported == Undisturbed => Reported

(* What StartedRuns needs besides: every instance has one starter, which   *)
(* closes it only after a failure, and the status of a call that holds the *)
(* lock is its own.                                                        *)
OneStarter == \A c, d \in Starters : mine[c] = mine[d] => c = d
StarterFailed == \A c \in Starters : pc[c] \in InClose => c \in err
OnlyMade == \A i \in done \cup failed : i \in 1..made
OwnStatus ==
  \A c \in Holding : serviceStatus = IF pc[c] = "make" THEN "STARTING" ELSE "STOPPING"

StarterInv == OneStarter /\ StarterFailed /\ OnlyMade /\ OwnStatus /\ FailureReported
=============================================================================
