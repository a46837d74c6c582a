---------------------------- MODULE PartsProofs ----------------------------
(***************************************************************************)
(* Proofs about what carries the data of a connection, and about who       *)
(* starts and stops all of it: the service of the daemon (module Daemon),  *)
(* the pipe of an upload (Pipe) and the two copies of a routed connection  *)
(* (Relay).                                                                *)
(***************************************************************************)
EXTENDS Relay, Daemon, TLAPS
-----------------------------------------------------------------------------
(* The service of the daemon, for any number of callers and instances.       *)

(* A new service has no instance and no call in progress.                  *)
LEMMA ServiceInvInit == D!Init => D!ServiceInv /\ D!StarterInv
<1> SUFFICES ASSUME D!Init PROVE D!ServiceInv /\ D!StarterInv
  OBVIOUS
<1> USE ServiceAssumption DEF D!Init, D!InClose, D!Nil, D!Starters
<1>b. stale \in BOOLEAN /\ crashed \in BOOLEAN
  BY Zenon
<1>1. D!TypeOK
  BY <1>b DEF D!TypeOK, D!Instances, D!PCs, D!Roles
<1>2. D!Holding = {} /\ D!Replacing = {}
  BY Zenon DEF D!Holding, D!Replacing
<1>3. D!ServiceInv
  BY <1>1, <1>2
  DEF D!ServiceInv, D!LockTells, D!LockHeld, D!HandleHeld, D!StartersMade, D!ClosedFirst, D!Serial,
      D!NoInstanceLeft, D!Instances
<1>4. D!StarterInv
  BY Zenon, <1>2
  DEF D!StarterInv, D!FailureReported, D!Undisturbed, D!OneStarter, D!StarterFailed, D!OnlyMade,
      D!OwnStatus
<1> HIDE DEF D!Init, D!InClose, D!Nil, D!Starters
<1>5. QED
  BY Zenon, <1>3, <1>4

(* Every step of the service keeps the types of its state: a caller closes   *)
(* or starts instances that were made.                                       *)
LEMMA ServiceTypes == ASSUME D!ServiceInv, [D!Next]_(D!vars) PROVE D!TypeOK'
<1>t. D!TypeOK
  BY Zenon DEF D!ServiceInv
<1>m. \A c \in Clients : pc[c] \in {"run", "mark"} => mine[c] \in D!Instances
  BY ServiceAssumption DEF D!ServiceInv, D!TypeOK, D!LockTells, D!HandleHeld,
     D!StartersMade, D!ClosedFirst, D!Holding, D!Replacing, D!Starters, D!InClose,
     D!PCs, D!Roles, D!Instances, D!Nil
<1> USE ServiceAssumption DEF D!TypeOK, D!Instances, D!PCs, D!Roles, D!InClose, D!Nil, D!Goto,
        D!lockVars, D!callVars
<1>1. ASSUME NEW c \in Clients, D!Reload(c) PROVE D!TypeOK'
  BY Zenon, <1>t, <1>1 DEF D!Reload, D!Enter
<1>2. ASSUME NEW c \in Clients, D!Relock(c) PROVE D!TypeOK'
  BY Zenon, <1>t, <1>2 DEF D!Relock
<1>3. ASSUME NEW c \in Clients, D!Make(c) PROVE D!TypeOK'
  BY <1>t, <1>3 DEF D!Make
<1>4. ASSUME NEW c \in Clients, D!MakeFails(c) PROVE D!TypeOK'
  BY Zenon, <1>t, <1>4 DEF D!MakeFails
<1>5. ASSUME NEW c \in Clients, D!Started(c) PROVE D!TypeOK'
  BY Zenon, <1>t, <1>5 DEF D!Started
<1>6. ASSUME NEW c \in Clients, D!StartFails(c) PROVE D!TypeOK'
  BY <1>t, <1>m, <1>6, Zenon DEF D!StartFails
<1>7. ASSUME NEW c \in Clients, D!Finish(c) PROVE D!TypeOK'
  BY <1>t, <1>7, Zenon DEF D!Finish
<1>8. ASSUME NEW c \in Clients, D!CloseCheck(c) PROVE D!TypeOK'
  BY Zenon, <1>t, <1>8 DEF D!CloseCheck, D!Back
<1>9. ASSUME NEW c \in Clients, D!CloseMark(c) PROVE D!TypeOK'
  BY <1>t, <1>m, <1>9, Zenon DEF D!CloseMark
<1>10. ASSUME NEW c \in Clients, D!CloseTwice(c) PROVE D!TypeOK'
  BY <1>t, <1>10, Zenon DEF D!CloseTwice
<1>11. ASSUME NEW c \in Clients, D!CloseTear(c) PROVE D!TypeOK'
  BY Zenon, <1>t, <1>11 DEF D!CloseTear, D!Back
<1>12. ASSUME NEW c \in Clients, D!CloseService(c) PROVE D!TypeOK'
  BY Zenon, <1>t, <1>12 DEF D!CloseService, D!Leave
<1>13. ASSUME NEW c \in Clients, D!CloseServiceDone(c) PROVE D!TypeOK'
  BY <1>t, <1>13 DEF D!CloseServiceDone
<1>14. ASSUME NEW c \in Clients, D!CloseServiceFails(c) PROVE D!TypeOK'
  BY Zenon, <1>t, <1>14 DEF D!CloseServiceFails
<1>15. ASSUME NEW c \in Clients, D!SetError(c) PROVE D!TypeOK'
  BY Zenon, <1>t, <1>15 DEF D!SetError
<1>16. CASE UNCHANGED D!vars
  BY Zenon, <1>t, <1>16 DEF D!vars
<1> HIDE DEF D!TypeOK, D!Instances, D!PCs, D!Roles, D!InClose, D!Nil, D!Goto, D!lockVars,
             D!callVars
<1> QED
  BY Zenon, <1>1, <1>2, <1>3, <1>4, <1>5, <1>6, <1>7, <1>8, <1>9, <1>10, <1>11, <1>12,
     <1>13, <1>14, <1>15, <1>16 DEF D!Next, D!Locking, D!Working

(* Every step of startOrReloadServiceImp, Box.Close, CloseService and        *)
(* SetError keeps the lock and the status in agreement.                      *)
LEMMA ServiceLocks == D!ServiceInv /\ [D!Next]_(D!vars) => D!LockHeld'
<1> SUFFICES ASSUME D!ServiceInv, [D!Next]_(D!vars) PROVE D!LockHeld'
  OBVIOUS
<1>s. D!LockHeld
  BY Zenon DEF D!ServiceInv, D!LockTells
<1>t. /\ pc \in [Clients -> D!PCs] /\ role \in [Clients -> D!Roles]
      /\ mine \in [Clients -> 0 .. MaxInstances]
  BY Zenon DEF D!ServiceInv, D!TypeOK
<1> USE ServiceAssumption DEF D!LockHeld, D!Serial, D!Holding, D!Replacing, D!InClose, D!Goto,
        D!lockVars, D!callVars
<1>g1. ASSUME NEW c \in Clients,
             D!Reload(c) \/ D!Relock(c) \/ D!Make(c) \/ D!MakeFails(c)
      PROVE  D!LockHeld'
  <2>1. CASE D!Reload(c)
    BY <1>s, <1>t, <2>1 DEF D!Reload, D!Enter
  <2>2. CASE D!Relock(c)
    BY <1>s, <1>t, <2>2 DEF D!Relock
  <2>3. CASE D!Make(c)
    BY <1>s, <1>t, <2>3 DEF D!Make
  <2>4. CASE D!MakeFails(c)
    BY <1>s, <1>t, <2>4 DEF D!MakeFails
  <2> HIDE DEF D!LockHeld, D!Serial, D!Holding, D!Replacing, D!InClose, D!Goto,
           D!lockVars, D!callVars
  <2> QED BY Zenon, <1>g1, <2>1, <2>2, <2>3, <2>4
<1>g2. ASSUME NEW c \in Clients,
             D!Started(c) \/ D!StartFails(c) \/ D!Finish(c)
      PROVE  D!LockHeld'
  <2>5. CASE D!Started(c)
    BY <1>s, <1>t, <2>5 DEF D!Started
  <2>6. CASE D!StartFails(c)
    BY <1>s, <1>t, <2>6 DEF D!StartFails
  <2>7. CASE D!Finish(c)
    BY <1>s, <1>t, <2>7 DEF D!Finish
  <2> HIDE DEF D!LockHeld, D!Serial, D!Holding, D!Replacing, D!InClose, D!Goto,
           D!lockVars, D!callVars
  <2> QED BY Zenon, <1>g2, <2>5, <2>6, <2>7
<1>g3. ASSUME NEW c \in Clients,
             D!CloseCheck(c) \/ D!CloseMark(c) \/ D!CloseTwice(c)
             \/ D!CloseTear(c)
      PROVE  D!LockHeld'
  <2>8. CASE D!CloseCheck(c)
    BY <1>s, <1>t, <2>8 DEF D!CloseCheck, D!Back
  <2>9. CASE D!CloseMark(c)
    BY <1>s, <1>t, <2>9 DEF D!CloseMark
  <2>10. CASE D!CloseTwice(c)
    BY <1>s, <1>t, <2>10 DEF D!CloseTwice
  <2>11. CASE D!CloseTear(c)
    BY <1>s, <1>t, <2>11 DEF D!CloseTear, D!Back
  <2> HIDE DEF D!LockHeld, D!Serial, D!Holding, D!Replacing, D!InClose, D!Goto,
           D!lockVars, D!callVars
  <2> QED BY Zenon, <1>g3, <2>8, <2>9, <2>10, <2>11
<1>g4. ASSUME NEW c \in Clients,
             D!CloseService(c) \/ D!CloseServiceDone(c)
             \/ D!CloseServiceFails(c) \/ D!SetError(c)
      PROVE  D!LockHeld'
  <2>12. CASE D!CloseService(c)
    BY <1>s, <1>t, <2>12 DEF D!CloseService, D!Leave
  <2>13. CASE D!CloseServiceDone(c)
    BY <1>s, <1>t, <2>13 DEF D!CloseServiceDone
  <2>14. CASE D!CloseServiceFails(c)
    BY <1>s, <1>t, <2>14 DEF D!CloseServiceFails
  <2>15. CASE D!SetError(c)
    BY <1>s, <1>t, <2>15 DEF D!SetError
  <2> HIDE DEF D!LockHeld, D!Serial, D!Holding, D!Replacing, D!InClose, D!Goto,
           D!lockVars, D!callVars
  <2> QED BY Zenon, <1>g4, <2>12, <2>13, <2>14, <2>15
<1>16. ASSUME UNCHANGED D!vars PROVE D!LockHeld'
  BY <1>s, <1>t, <1>16 DEF D!vars
<1> HIDE DEF D!LockHeld, D!Serial, D!Holding, D!Replacing, D!InClose, D!Goto,
        D!lockVars, D!callVars
<1> QED
  BY Zenon, <1>16, <1>g1, <1>g2, <1>g3, <1>g4 DEF D!Next, D!Locking, D!Working

(* What a call closes in order to replace it is s.instance.                  *)
LEMMA ServiceHandles == D!ServiceInv /\ [D!Next]_(D!vars) => D!HandleHeld'
<1> SUFFICES ASSUME D!ServiceInv, [D!Next]_(D!vars) PROVE D!HandleHeld'
  OBVIOUS
<1>s. D!LockHeld /\ D!HandleHeld
  BY Zenon DEF D!ServiceInv, D!LockTells
<1>t. /\ pc \in [Clients -> D!PCs] /\ role \in [Clients -> D!Roles]
      /\ mine \in [Clients -> 0 .. MaxInstances]
  BY Zenon DEF D!ServiceInv, D!TypeOK
<1> USE ServiceAssumption DEF D!LockHeld, D!Serial, D!HandleHeld, D!Holding, D!Replacing,
        D!InClose, D!Goto, D!lockVars, D!callVars
<1>1. ASSUME NEW c \in Clients, D!Reload(c) PROVE D!HandleHeld'
  BY <1>s, <1>t, <1>1 DEF D!Reload, D!Enter
<1>2. ASSUME NEW c \in Clients, D!Relock(c) PROVE D!HandleHeld'
  BY Zenon, <1>s, <1>t, <1>2 DEF D!Relock
<1>3. ASSUME NEW c \in Clients, D!Make(c) PROVE D!HandleHeld'
  BY <1>s, <1>t, <1>3 DEF D!Make
<1>4. ASSUME NEW c \in Clients, D!MakeFails(c) PROVE D!HandleHeld'
  BY Zenon, <1>s, <1>t, <1>4 DEF D!MakeFails
<1>5. ASSUME NEW c \in Clients, D!Started(c) PROVE D!HandleHeld'
  BY Zenon, <1>s, <1>t, <1>5 DEF D!Started
<1>6. ASSUME NEW c \in Clients, D!StartFails(c) PROVE D!HandleHeld'
  BY Zenon, <1>s, <1>t, <1>6 DEF D!StartFails
<1>7. ASSUME NEW c \in Clients, D!Finish(c) PROVE D!HandleHeld'
  BY Zenon, <1>s, <1>t, <1>7 DEF D!Finish
<1>8. ASSUME NEW c \in Clients, D!CloseCheck(c) PROVE D!HandleHeld'
  BY <1>s, <1>t, <1>8 DEF D!CloseCheck, D!Back
<1>9. ASSUME NEW c \in Clients, D!CloseMark(c) PROVE D!HandleHeld'
  BY Zenon, <1>s, <1>t, <1>9 DEF D!CloseMark
<1>10. ASSUME NEW c \in Clients, D!CloseTwice(c) PROVE D!HandleHeld'
  BY <1>s, <1>t, <1>10 DEF D!CloseTwice
<1>11. ASSUME NEW c \in Clients, D!CloseTear(c) PROVE D!HandleHeld'
  BY <1>s, <1>t, <1>11 DEF D!CloseTear, D!Back
<1>12. ASSUME NEW c \in Clients, D!CloseService(c) PROVE D!HandleHeld'
  BY Zenon, <1>s, <1>t, <1>12 DEF D!CloseService, D!Leave
<1>13. ASSUME NEW c \in Clients, D!CloseServiceDone(c) PROVE D!HandleHeld'
  BY <1>s, <1>t, <1>13 DEF D!CloseServiceDone
<1>14. ASSUME NEW c \in Clients, D!CloseServiceFails(c) PROVE D!HandleHeld'
  BY Zenon, <1>s, <1>t, <1>14 DEF D!CloseServiceFails
<1>15. ASSUME NEW c \in Clients, D!SetError(c) PROVE D!HandleHeld'
  BY Zenon, <1>s, <1>t, <1>15 DEF D!SetError
<1>16. ASSUME UNCHANGED D!vars PROVE D!HandleHeld'
  BY Zenon, <1>s, <1>t, <1>16 DEF D!vars
<1> HIDE DEF D!LockHeld, D!Serial, D!HandleHeld, D!Holding, D!Replacing, D!InClose, D!Goto,
        D!lockVars, D!callVars
<1> QED
  BY Zenon, <1>1, <1>2, <1>3, <1>4, <1>5, <1>6, <1>7, <1>8, <1>9, <1>10, <1>11, <1>12,
     <1>13, <1>14, <1>15, <1>16 DEF D!Next, D!Locking, D!Working

(* A start has an instance.                                                  *)
LEMMA ServiceMade == D!ServiceInv /\ [D!Next]_(D!vars) => D!StartersMade'
<1> SUFFICES ASSUME D!ServiceInv, [D!Next]_(D!vars) PROVE D!StartersMade'
  OBVIOUS
<1>s. D!StartersMade
  BY Zenon DEF D!ServiceInv, D!LockTells
<1>t. /\ pc \in [Clients -> D!PCs] /\ role \in [Clients -> D!Roles]
      /\ mine \in [Clients -> 0 .. MaxInstances]
      /\ boxes \in Nat
  BY ServiceAssumption DEF D!ServiceInv, D!TypeOK
<1> USE DEF D!StartersMade, D!Starters, D!Roles, D!InClose, D!Goto, D!lockVars,
        D!callVars
<1>1. ASSUME NEW c \in Clients, D!Reload(c) PROVE D!StartersMade'
  BY Zenon, <1>s, <1>t, <1>1 DEF D!Reload, D!Enter
<1>2. ASSUME NEW c \in Clients, D!Relock(c) PROVE D!StartersMade'
  BY Zenon, <1>s, <1>t, <1>2 DEF D!Relock
<1>3. ASSUME NEW c \in Clients, D!Make(c) PROVE D!StartersMade'
  BY <1>s, <1>t, <1>3 DEF D!Make
<1>4. ASSUME NEW c \in Clients, D!MakeFails(c) PROVE D!StartersMade'
  BY Zenon, <1>s, <1>t, <1>4 DEF D!MakeFails
<1>5. ASSUME NEW c \in Clients, D!Started(c) PROVE D!StartersMade'
  BY Zenon, <1>s, <1>t, <1>5 DEF D!Started
<1>6. ASSUME NEW c \in Clients, D!StartFails(c) PROVE D!StartersMade'
  BY Zenon, <1>s, <1>t, <1>6 DEF D!StartFails
<1>7. ASSUME NEW c \in Clients, D!Finish(c) PROVE D!StartersMade'
  BY Zenon, <1>s, <1>t, <1>7 DEF D!Finish
<1>8. ASSUME NEW c \in Clients, D!CloseCheck(c) PROVE D!StartersMade'
  BY Zenon, <1>s, <1>t, <1>8 DEF D!CloseCheck, D!Back
<1>9. ASSUME NEW c \in Clients, D!CloseMark(c) PROVE D!StartersMade'
  BY Zenon, <1>s, <1>t, <1>9 DEF D!CloseMark
<1>10. ASSUME NEW c \in Clients, D!CloseTwice(c) PROVE D!StartersMade'
  BY Zenon, <1>s, <1>t, <1>10 DEF D!CloseTwice
<1>11. ASSUME NEW c \in Clients, D!CloseTear(c) PROVE D!StartersMade'
  BY Zenon, <1>s, <1>t, <1>11 DEF D!CloseTear, D!Back
<1>12. ASSUME NEW c \in Clients, D!CloseService(c) PROVE D!StartersMade'
  BY Zenon, <1>s, <1>t, <1>12 DEF D!CloseService, D!Leave
<1>13. ASSUME NEW c \in Clients, D!CloseServiceDone(c) PROVE D!StartersMade'
  BY Zenon, <1>s, <1>t, <1>13 DEF D!CloseServiceDone
<1>14. ASSUME NEW c \in Clients, D!CloseServiceFails(c) PROVE D!StartersMade'
  BY Zenon, <1>s, <1>t, <1>14 DEF D!CloseServiceFails
<1>15. ASSUME NEW c \in Clients, D!SetError(c) PROVE D!StartersMade'
  BY Zenon, <1>s, <1>t, <1>15 DEF D!SetError
<1>16. ASSUME UNCHANGED D!vars PROVE D!StartersMade'
  BY Zenon, <1>s, <1>t, <1>16 DEF D!vars
<1> HIDE DEF D!StartersMade, D!Starters, D!Roles, D!InClose, D!Goto, D!lockVars,
        D!callVars
<1> QED
  BY Zenon, <1>1, <1>2, <1>3, <1>4, <1>5, <1>6, <1>7, <1>8, <1>9, <1>10, <1>11, <1>12,
     <1>13, <1>14, <1>15, <1>16 DEF D!Next, D!Locking, D!Working

(* An instance leaves s.instance closed.                                     *)
LEMMA ServiceCloses == D!ServiceInv /\ [D!Next]_(D!vars) => D!ClosedFirst'
<1> SUFFICES ASSUME D!ServiceInv, [D!Next]_(D!vars) PROVE D!ClosedFirst'
  OBVIOUS
<1>s. D!ClosedFirst
  BY Zenon DEF D!ServiceInv, D!LockTells
<1>t. /\ pc \in [Clients -> D!PCs] /\ role \in [Clients -> D!Roles]
      /\ mine \in [Clients -> 0 .. MaxInstances]
      /\ boxes \in Nat /\ instance \in Nat /\ MaxInstances \in Nat
  BY ServiceAssumption DEF D!ServiceInv, D!TypeOK
<1>a. \A c, d \in Clients : pc[c] = "make" /\ pc[d] \in {"relock", "make", "stopped"} => c = d
  BY DEF D!ServiceInv, D!LockTells, D!LockHeld, D!Serial, D!Holding, D!Replacing
<1>b. \A c \in Clients : pc[c] \in D!InClose /\ role[c] # "start" => mine[c] = instance
  BY Zenon, <1>t DEF D!ServiceInv, D!LockTells, D!HandleHeld, D!Holding, D!Replacing, D!Roles
<1> USE DEF D!ClosedFirst, D!NoInstanceLeft, D!Instances, D!Nil, D!InClose, D!Goto, D!lockVars,
        D!callVars
<1>1. ASSUME NEW c \in Clients, D!Reload(c) PROVE D!ClosedFirst'
  BY Zenon, <1>a, <1>b, <1>s, <1>t, <1>1 DEF D!Reload, D!Enter
<1>2. ASSUME NEW c \in Clients, D!Relock(c) PROVE D!ClosedFirst'
  BY Zenon, <1>a, <1>b, <1>s, <1>t, <1>2 DEF D!Relock
<1>3. ASSUME NEW c \in Clients, D!Make(c) PROVE D!ClosedFirst'
  BY <1>a, <1>b, <1>s, <1>t, <1>3 DEF D!Make
<1>4. ASSUME NEW c \in Clients, D!MakeFails(c) PROVE D!ClosedFirst'
  BY Zenon, <1>a, <1>b, <1>s, <1>t, <1>4 DEF D!MakeFails
<1>5. ASSUME NEW c \in Clients, D!Started(c) PROVE D!ClosedFirst'
  BY Zenon, <1>a, <1>b, <1>s, <1>t, <1>5 DEF D!Started
<1>6. ASSUME NEW c \in Clients, D!StartFails(c) PROVE D!ClosedFirst'
  BY Zenon, <1>a, <1>b, <1>s, <1>t, <1>6 DEF D!StartFails
<1>7. ASSUME NEW c \in Clients, D!Finish(c) PROVE D!ClosedFirst'
  BY Zenon, <1>a, <1>b, <1>s, <1>t, <1>7 DEF D!Finish
<1>8. ASSUME NEW c \in Clients, D!CloseCheck(c) PROVE D!ClosedFirst'
  BY Zenon, <1>a, <1>b, <1>s, <1>t, <1>8 DEF D!CloseCheck, D!Back
<1>9. ASSUME NEW c \in Clients, D!CloseMark(c) PROVE D!ClosedFirst'
  BY Zenon, <1>a, <1>b, <1>s, <1>t, <1>9 DEF D!CloseMark
<1>10. ASSUME NEW c \in Clients, D!CloseTwice(c) PROVE D!ClosedFirst'
  BY Zenon, <1>a, <1>b, <1>s, <1>t, <1>10 DEF D!CloseTwice
<1>11. ASSUME NEW c \in Clients, D!CloseTear(c) PROVE D!ClosedFirst'
  BY Zenon, <1>a, <1>b, <1>s, <1>t, <1>11 DEF D!CloseTear, D!Back
<1>12. ASSUME NEW c \in Clients, D!CloseService(c) PROVE D!ClosedFirst'
  BY Zenon, <1>a, <1>b, <1>s, <1>t, <1>12 DEF D!CloseService, D!Leave
<1>13. ASSUME NEW c \in Clients, D!CloseServiceDone(c) PROVE D!ClosedFirst'
  BY <1>a, <1>b, <1>s, <1>t, <1>13 DEF D!CloseServiceDone
<1>14. ASSUME NEW c \in Clients, D!CloseServiceFails(c) PROVE D!ClosedFirst'
  BY Zenon, <1>a, <1>b, <1>s, <1>t, <1>14 DEF D!CloseServiceFails
<1>15. ASSUME NEW c \in Clients, D!SetError(c) PROVE D!ClosedFirst'
  BY Zenon, <1>a, <1>b, <1>s, <1>t, <1>15 DEF D!SetError
<1>16. ASSUME UNCHANGED D!vars PROVE D!ClosedFirst'
  BY Zenon, <1>a, <1>b, <1>s, <1>t, <1>16 DEF D!vars
<1> HIDE DEF D!ClosedFirst, D!NoInstanceLeft, D!Instances, D!Nil, D!InClose, D!Goto, D!lockVars,
        D!callVars
<1> QED
  BY Zenon, <1>1, <1>2, <1>3, <1>4, <1>5, <1>6, <1>7, <1>8, <1>9, <1>10, <1>11, <1>12,
     <1>13, <1>14, <1>15, <1>16 DEF D!Next, D!Locking, D!Working

LEMMA ServiceInvStep == D!ServiceInv /\ [D!Next]_(D!vars) => D!ServiceInv'
<1> QED
  BY Zenon, ServiceTypes, ServiceLocks, ServiceHandles, ServiceMade, ServiceCloses
  DEF D!ServiceInv, D!LockTells

(* Only Make gives an instance a starter.                                    *)
LEMMA ServiceStarting ==
  ASSUME D!ServiceInv, [D!Next]_(D!vars)
  PROVE  \/ \A d \in D!Starters' : d \in D!Starters /\ mine'[d] = mine[d]
         \/ \E c \in Clients : D!Make(c)
<1> DEFINE Kept == \A d \in D!Starters' : d \in D!Starters /\ mine'[d] = mine[d]
<1>t. /\ pc \in [Clients -> D!PCs] /\ role \in [Clients -> D!Roles]
      /\ mine \in [Clients -> 0 .. MaxInstances]
  BY Zenon DEF D!ServiceInv, D!TypeOK
<1> USE DEF D!Starters, D!InClose, D!Goto, D!lockVars, D!callVars
<1>1. ASSUME NEW c \in Clients, D!Reload(c) PROVE Kept
  BY Zenon, <1>t, <1>1 DEF D!Reload, D!Enter
<1>2. ASSUME NEW c \in Clients, D!Relock(c) PROVE Kept
  BY Zenon, <1>t, <1>2 DEF D!Relock
<1>4. ASSUME NEW c \in Clients, D!MakeFails(c) PROVE Kept
  BY Zenon, <1>t, <1>4 DEF D!MakeFails
<1>5. ASSUME NEW c \in Clients, D!Started(c) PROVE Kept
  BY Zenon, <1>t, <1>5 DEF D!Started
<1>6. ASSUME NEW c \in Clients, D!StartFails(c) PROVE Kept
  BY Zenon, <1>t, <1>6 DEF D!StartFails
<1>7. ASSUME NEW c \in Clients, D!Finish(c) PROVE Kept
  BY Zenon, <1>t, <1>7 DEF D!Finish
<1>8. ASSUME NEW c \in Clients, D!CloseCheck(c) PROVE Kept
  BY Zenon, <1>t, <1>8 DEF D!CloseCheck, D!Back, D!Roles
<1>9. ASSUME NEW c \in Clients, D!CloseMark(c) PROVE Kept
  BY Zenon, <1>t, <1>9 DEF D!CloseMark
<1>10. ASSUME NEW c \in Clients, D!CloseTwice(c) PROVE Kept
  BY Zenon, <1>t, <1>10 DEF D!CloseTwice
<1>11. ASSUME NEW c \in Clients, D!CloseTear(c) PROVE Kept
  BY Zenon, <1>t, <1>11 DEF D!CloseTear, D!Back, D!Roles
<1>12. ASSUME NEW c \in Clients, D!CloseService(c) PROVE Kept
  BY Zenon, <1>t, <1>12 DEF D!CloseService, D!Leave
<1>13. ASSUME NEW c \in Clients, D!CloseServiceDone(c) PROVE Kept
  BY Zenon, <1>t, <1>13 DEF D!CloseServiceDone
<1>14. ASSUME NEW c \in Clients, D!CloseServiceFails(c) PROVE Kept
  BY Zenon, <1>t, <1>14 DEF D!CloseServiceFails
<1>15. ASSUME NEW c \in Clients, D!SetError(c) PROVE Kept
  BY Zenon, <1>t, <1>15 DEF D!SetError
<1>16. ASSUME UNCHANGED D!vars PROVE Kept
  BY Zenon, <1>t, <1>16 DEF D!vars
<1> HIDE DEF Kept, D!Starters, D!InClose, D!Goto, D!lockVars, D!callVars
<1>17. Kept \/ \E c \in Clients : D!Make(c)
  BY Zenon, <1>1, <1>2, <1>4, <1>5, <1>6, <1>7, <1>8, <1>9, <1>10, <1>11, <1>12,
     <1>13, <1>14, <1>15, <1>16 DEF D!Next, D!Locking, D!Working
<1> QED BY Zenon, <1>17 DEF Kept

(* The new instance of Make has one starter, and a starter closes its        *)
(* instance after Start has failed.                                          *)
LEMMA ServiceStarters ==
  ASSUME D!ServiceInv, D!StarterInv, [D!Next]_(D!vars)
  PROVE  D!OneStarter' /\ D!StarterFailed' /\ D!OnlyMade'
<1>t. /\ pc \in [Clients -> D!PCs] /\ role \in [Clients -> D!Roles]
      /\ mine \in [Clients -> 0 .. MaxInstances]
  BY Zenon DEF D!ServiceInv, D!TypeOK
<1>s. /\ D!OneStarter /\ D!StarterFailed /\ D!OnlyMade
      /\ boxes \in Nat /\ instance \in Nat /\ instance <= boxes
  BY ServiceAssumption DEF D!StarterInv, D!ServiceInv, D!TypeOK, D!LockTells, D!ClosedFirst
<1>m. /\ \A d \in D!Starters : mine[d] \in 1 .. boxes
      /\ \A d \in Clients : pc[d] = "mark" => mine[d] \in 1 .. boxes
  <2>1. \A d \in D!Starters : mine[d] \in 1 .. boxes
    BY Zenon DEF D!ServiceInv, D!LockTells, D!StartersMade
  <2>2. \A d \in D!Holding \cup D!Replacing :
          pc[d] \in D!InClose => mine[d] = instance /\ instance # 0
    BY Zenon DEF D!ServiceInv, D!LockTells, D!HandleHeld, D!Nil
  <2>3. \A d \in Clients : pc[d] = "mark" => d \in D!Starters \/ d \in D!Holding \cup D!Replacing
    BY Zenon, <1>t DEF D!Starters, D!Holding, D!Replacing, D!InClose, D!Roles
  <2> QED BY <1>s, <2>1, <2>2, <2>3 DEF D!InClose
<1>a. D!OneStarter'
  <2>1. CASE \A d \in D!Starters' : d \in D!Starters /\ mine'[d] = mine[d]
    BY Zenon, <1>s, <2>1 DEF D!OneStarter
  <2>2. ASSUME NEW c \in Clients, D!Make(c) PROVE D!OneStarter'
    <3>1. \A d \in D!Starters' \ {c} : d \in D!Starters /\ mine'[d] = mine[d]
      BY Zenon, <1>t, <2>2 DEF D!Make, D!Starters, D!InClose, D!Goto
    <3>2. mine'[c] = boxes + 1
      BY Zenon, <1>t, <2>2 DEF D!Make
    <3>3. \A d \in D!Starters' \ {c} : mine'[d] \in 1 .. boxes
      BY Zenon, <1>m, <3>1
    <3>4. \A d \in D!Starters' \ {c} : mine'[d] # mine'[c]
      BY <1>s, <3>2, <3>3
    <3> QED BY Zenon, <1>s, <3>1, <3>4 DEF D!OneStarter
  <2> QED BY <2>1, <2>2, ServiceStarting, Zenon
<1>b. D!OnlyMade'
  <2>1. ASSUME NEW c \in Clients, D!Make(c) PROVE D!OnlyMade'
    BY <1>s, <2>1 DEF D!Make, D!OnlyMade
  <2>2. ASSUME NEW c \in Clients, D!StartFails(c) PROVE D!OnlyMade'
    <3>1. mine[c] \in 1 .. boxes
      BY Zenon, <1>m, <2>2 DEF D!StartFails, D!Starters
    <3> QED BY Zenon, <1>s, <2>2, <3>1 DEF D!StartFails, D!OnlyMade, D!lockVars
  <2>3. ASSUME NEW c \in Clients, D!CloseMark(c) PROVE D!OnlyMade'
    <3>1. mine[c] \in 1 .. boxes
      BY Zenon, <1>m, <2>3 DEF D!CloseMark
    <3> QED BY Zenon, <1>s, <2>3, <3>1 DEF D!CloseMark, D!OnlyMade, D!lockVars
  <2>4. CASE UNCHANGED <<boxes, boxDone, boxFailed>>
    BY Zenon, <1>s, <2>4 DEF D!OnlyMade
  <2> QED
    BY Zenon, <2>1, <2>2, <2>3, <2>4
    DEF D!Next, D!Locking, D!Working, D!Reload, D!Enter, D!Relock, D!MakeFails, D!Started, D!Finish,
        D!CloseCheck, D!CloseTwice, D!CloseTear, D!CloseService, D!Leave, D!CloseServiceDone,
        D!CloseServiceFails, D!SetError, D!vars, D!lockVars
<1> SUFFICES D!StarterFailed'
  BY Zenon, <1>a, <1>b
<1> USE DEF D!StarterFailed, D!Starters, D!InClose, D!Goto, D!lockVars, D!callVars
<1>1. ASSUME NEW c \in Clients, D!Reload(c) PROVE D!StarterFailed'
  BY Zenon, <1>s, <1>t, <1>1 DEF D!Reload, D!Enter
<1>2. ASSUME NEW c \in Clients, D!Relock(c) PROVE D!StarterFailed'
  BY Zenon, <1>s, <1>t, <1>2 DEF D!Relock
<1>3. ASSUME NEW c \in Clients, D!Make(c) PROVE D!StarterFailed'
  BY Zenon, <1>s, <1>t, <1>3 DEF D!Make
<1>4. ASSUME NEW c \in Clients, D!MakeFails(c) PROVE D!StarterFailed'
  BY Zenon, <1>s, <1>t, <1>4 DEF D!MakeFails
<1>5. ASSUME NEW c \in Clients, D!Started(c) PROVE D!StarterFailed'
  BY Zenon, <1>s, <1>t, <1>5 DEF D!Started
<1>6. ASSUME NEW c \in Clients, D!StartFails(c) PROVE D!StarterFailed'
  BY Zenon, <1>s, <1>t, <1>6 DEF D!StartFails
<1>7. ASSUME NEW c \in Clients, D!Finish(c) PROVE D!StarterFailed'
  BY Zenon, <1>s, <1>t, <1>7 DEF D!Finish
<1>8. ASSUME NEW c \in Clients, D!CloseCheck(c) PROVE D!StarterFailed'
  BY Zenon, <1>s, <1>t, <1>8 DEF D!CloseCheck, D!Back
<1>9. ASSUME NEW c \in Clients, D!CloseMark(c) PROVE D!StarterFailed'
  BY Zenon, <1>s, <1>t, <1>9 DEF D!CloseMark
<1>10. ASSUME NEW c \in Clients, D!CloseTwice(c) PROVE D!StarterFailed'
  BY Zenon, <1>s, <1>t, <1>10 DEF D!CloseTwice
<1>11. ASSUME NEW c \in Clients, D!CloseTear(c) PROVE D!StarterFailed'
  BY Zenon, <1>s, <1>t, <1>11 DEF D!CloseTear, D!Back
<1>12. ASSUME NEW c \in Clients, D!CloseService(c) PROVE D!StarterFailed'
  BY Zenon, <1>s, <1>t, <1>12 DEF D!CloseService, D!Leave
<1>13. ASSUME NEW c \in Clients, D!CloseServiceDone(c) PROVE D!StarterFailed'
  BY Zenon, <1>s, <1>t, <1>13 DEF D!CloseServiceDone
<1>14. ASSUME NEW c \in Clients, D!CloseServiceFails(c) PROVE D!StarterFailed'
  BY Zenon, <1>s, <1>t, <1>14 DEF D!CloseServiceFails
<1>15. ASSUME NEW c \in Clients, D!SetError(c) PROVE D!StarterFailed'
  BY Zenon, <1>s, <1>t, <1>15 DEF D!SetError
<1>16. ASSUME UNCHANGED D!vars PROVE D!StarterFailed'
  BY Zenon, <1>s, <1>t, <1>16 DEF D!vars
<1> HIDE DEF D!StarterFailed, D!Starters, D!InClose, D!Goto, D!lockVars, D!callVars
<1> QED
  BY Zenon, <1>1, <1>2, <1>3, <1>4, <1>5, <1>6, <1>7, <1>8, <1>9, <1>10, <1>11, <1>12,
     <1>13, <1>14, <1>15, <1>16 DEF D!Next, D!Locking, D!Working

(* While a call holds the lock, the status is what it has set.               *)
LEMMA ServiceStatus ==
  ASSUME D!ServiceInv, D!StarterInv, [D!Next]_(D!vars) PROVE D!OwnStatus'
<1>t. /\ pc \in [Clients -> D!PCs] /\ role \in [Clients -> D!Roles]
      /\ mine \in [Clients -> 0 .. MaxInstances]
  BY Zenon DEF D!ServiceInv, D!TypeOK
<1>s. /\ D!OwnStatus /\ NoClient \notin Clients
      /\ \A d \in D!Holding : serviceAccess = d
  BY Zenon, ServiceAssumption DEF D!StarterInv, D!ServiceInv, D!LockTells, D!LockHeld
<1> USE DEF D!OwnStatus, D!Holding, D!InClose, D!Goto, D!lockVars, D!callVars
<1>1. ASSUME NEW c \in Clients, D!Reload(c) PROVE D!OwnStatus'
  BY <1>s, <1>t, <1>1 DEF D!Reload, D!Enter
<1>2. ASSUME NEW c \in Clients, D!Relock(c) PROVE D!OwnStatus'
  BY Zenon, <1>s, <1>t, <1>2 DEF D!Relock
<1>3. ASSUME NEW c \in Clients, D!Make(c) PROVE D!OwnStatus'
  BY Zenon, <1>s, <1>t, <1>3 DEF D!Make
<1>4. ASSUME NEW c \in Clients, D!MakeFails(c) PROVE D!OwnStatus'
  BY Zenon, <1>s, <1>t, <1>4 DEF D!MakeFails
<1>5. ASSUME NEW c \in Clients, D!Started(c) PROVE D!OwnStatus'
  BY Zenon, <1>s, <1>t, <1>5 DEF D!Started
<1>6. ASSUME NEW c \in Clients, D!StartFails(c) PROVE D!OwnStatus'
  BY Zenon, <1>s, <1>t, <1>6 DEF D!StartFails
<1>7. ASSUME NEW c \in Clients, D!Finish(c) PROVE D!OwnStatus'
  BY Zenon, <1>s, <1>t, <1>7 DEF D!Finish
<1>8. ASSUME NEW c \in Clients, D!CloseCheck(c) PROVE D!OwnStatus'
  BY Zenon, <1>s, <1>t, <1>8 DEF D!CloseCheck, D!Back
<1>9. ASSUME NEW c \in Clients, D!CloseMark(c) PROVE D!OwnStatus'
  BY Zenon, <1>s, <1>t, <1>9 DEF D!CloseMark
<1>10. ASSUME NEW c \in Clients, D!CloseTwice(c) PROVE D!OwnStatus'
  BY <1>s, <1>t, <1>10 DEF D!CloseTwice
<1>11. ASSUME NEW c \in Clients, D!CloseTear(c) PROVE D!OwnStatus'
  BY <1>s, <1>t, <1>11 DEF D!CloseTear, D!Back
<1>12. ASSUME NEW c \in Clients, D!CloseService(c) PROVE D!OwnStatus'
  BY Zenon, <1>s, <1>t, <1>12 DEF D!CloseService, D!Leave
<1>13. ASSUME NEW c \in Clients, D!CloseServiceDone(c) PROVE D!OwnStatus'
  BY Zenon, <1>s, <1>t, <1>13 DEF D!CloseServiceDone
<1>14. ASSUME NEW c \in Clients, D!CloseServiceFails(c) PROVE D!OwnStatus'
  BY Zenon, <1>s, <1>t, <1>14 DEF D!CloseServiceFails
<1>15. ASSUME NEW c \in Clients, D!SetError(c) PROVE D!OwnStatus'
  BY Zenon, <1>s, <1>t, <1>15 DEF D!SetError
<1>16. ASSUME UNCHANGED D!vars PROVE D!OwnStatus'
  BY Zenon, <1>s, <1>t, <1>16 DEF D!vars
<1> HIDE DEF D!OwnStatus, D!Holding, D!InClose, D!Goto, D!lockVars, D!callVars
<1> QED
  BY Zenon, <1>1, <1>2, <1>3, <1>4, <1>5, <1>6, <1>7, <1>8, <1>9, <1>10, <1>11, <1>12,
     <1>13, <1>14, <1>15, <1>16 DEF D!Next, D!Locking, D!Working

(* Every step leaves a closed or failed instance with a starter that is      *)
(* going to report it, as long as nobody else closes it.                     *)
LEMMA StarterInvStep == D!ServiceInv /\ D!StarterInv /\ [D!Next]_(D!vars) => D!StarterInv'
<1> SUFFICES ASSUME D!ServiceInv, D!StarterInv, [D!Next]_(D!vars) PROVE D!FailureReported'
  BY Zenon, ServiceStarters, ServiceStatus DEF D!StarterInv
<1>t. /\ pc \in [Clients -> D!PCs] /\ role \in [Clients -> D!Roles]
      /\ mine \in [Clients -> 0 .. MaxInstances]
  BY Zenon DEF D!ServiceInv, D!TypeOK
<1>s. D!FailureReported /\ D!OneStarter /\ D!StarterFailed /\ D!OnlyMade
  BY Zenon DEF D!StarterInv
<1>h. /\ \A d \in D!Holding : serviceAccess = d
      /\ \A d \in D!Holding : pc[d] # "make" => serviceStatus = "STOPPING"
      /\ \A d \in D!Holding : pc[d] = "make" => serviceStatus = "STARTING"
      /\ \A d \in D!Replacing : serviceStatus \in {"STOPPING", "FATAL"}
  BY Zenon DEF D!ServiceInv, D!LockTells, D!LockHeld, D!StarterInv, D!OwnStatus
<1>r. \A d \in Clients : pc[d] \in D!InClose =>
        d \in D!Starters \/ serviceStatus \in {"STOPPING", "FATAL"}
  <2>1. \A d \in Clients : pc[d] \in D!InClose =>
          d \in D!Starters \/ d \in D!Replacing \/ (d \in D!Holding /\ pc[d] # "make")
    BY Zenon, <1>t DEF D!Starters, D!Replacing, D!Holding, D!InClose, D!Roles
  <2> QED BY Zenon, <1>h, <2>1
<1>q. serviceStatus' \notin {"STARTING", "STARTED"} => D!FailureReported'
  BY Zenon DEF D!FailureReported, D!Undisturbed
<1>c. D!Starters \subseteq Clients
  BY Zenon DEF D!Starters
<1>1. ASSUME NEW c \in Clients, D!Reload(c) PROVE D!FailureReported'
  <2>1. CASE serviceStatus' = "STOPPING"
    BY Zenon, <1>q, <2>1
  <2>2. CASE serviceStatus' # "STOPPING"
    <3>1. pc'[c] = "make"
      BY Zenon, <1>t, <1>1, <2>2 DEF D!Reload, D!Enter, D!Goto
    <3> QED BY Zenon, <3>1 DEF D!FailureReported, D!Undisturbed
  <2> QED BY Zenon, <2>1, <2>2
<1>2. ASSUME NEW c \in Clients, D!Relock(c) PROVE D!FailureReported'
  <2>1. pc'[c] = "make"
    BY Zenon, <1>t, <1>2 DEF D!Relock, D!Goto
  <2> QED BY Zenon, <2>1 DEF D!FailureReported, D!Undisturbed
<1>3. ASSUME NEW c \in Clients, D!Make(c) PROVE D!FailureReported'
  <2>1. serviceStatus' = "STARTING" /\ instance' = boxes + 1 /\ UNCHANGED <<boxDone, boxFailed>>
    BY Zenon, <1>h, <1>3 DEF D!Make, D!Holding
  <2>2. boxes \in Nat /\ \A i \in boxDone \cup boxFailed : i \in 1 .. boxes
    BY <1>s, ServiceAssumption DEF D!OnlyMade, D!ServiceInv, D!TypeOK
  <2>3. instance' # 0 /\ instance' \notin boxDone' \cup boxFailed'
    BY <2>1, <2>2
  <2> QED BY Zenon, <2>1, <2>3 DEF D!FailureReported, D!Reported, D!Nil
<1>4. ASSUME NEW c \in Clients, D!MakeFails(c) PROVE D!FailureReported'
  BY Zenon, <1>q, <1>4 DEF D!MakeFails
<1>5. ASSUME NEW c \in Clients, D!Started(c) PROVE D!FailureReported'
  <2>1. /\ D!Starters' = D!Starters /\ err' = err \ {c} /\ pc[c] = "run" /\ pc'[c] = "finish"
        /\ \A d \in Clients \ {c} : pc'[d] = pc[d]
        /\ UNCHANGED <<serviceStatus, instance, boxDone, boxFailed, mine, stale>>
    BY Zenon, <1>t, <1>5 DEF D!Started, D!Starters, D!InClose, D!Goto, D!lockVars
  <2>2. SUFFICES ASSUME D!Reported PROVE D!Reported'
    BY Zenon, <1>s, <2>1 DEF D!FailureReported, D!Undisturbed
  <2> QED BY Zenon, <1>c, <2>1, <2>2 DEF D!Reported
<1>6. ASSUME NEW c \in Clients, D!StartFails(c) PROVE D!FailureReported'
  <2>1. c \in D!Starters
    BY Zenon, <1>6 DEF D!StartFails, D!Starters
  <2>2. /\ D!Starters' = D!Starters /\ err' = err \cup {c} /\ pc[c] = "run" /\ pc'[c] = "check"
        /\ \A d \in Clients \ {c} : pc'[d] = pc[d]
        /\ boxFailed' = boxFailed \cup {mine[c]}
        /\ UNCHANGED <<serviceStatus, instance, boxDone, mine, stale>>
    BY Zenon, <1>t, <1>6 DEF D!StartFails, D!Starters, D!InClose, D!Goto, D!lockVars
  <2>3. SUFFICES ASSUME D!Reported PROVE D!Reported'
    BY Zenon, <1>s, <2>2 DEF D!FailureReported, D!Undisturbed
  <2>4. CASE mine[c] = instance
    <3>1. instance \notin boxDone \cup boxFailed
      BY Zenon, <1>s, <2>1, <2>2, <2>3, <2>4 DEF D!Reported, D!OneStarter
    <3> QED BY Zenon, <2>1, <2>2, <2>3, <2>4, <3>1 DEF D!Reported
  <2>5. CASE mine[c] # instance
    BY Zenon, <1>c, <2>1, <2>2, <2>3, <2>5 DEF D!Reported
  <2> QED BY Zenon, <2>4, <2>5
<1>7. ASSUME NEW c \in Clients, D!Finish(c) PROVE D!FailureReported'
  <2>1. /\ D!Starters' \subseteq D!Starters \ {c} /\ c \in D!Starters
        /\ pc[c] = "finish" /\ pc'[c] = "idle"
        /\ \A d \in Clients \ {c} : pc'[d] = pc[d] /\ (d \in D!Starters' <=> d \in D!Starters)
        /\ UNCHANGED <<instance, boxDone, boxFailed, mine, err>>
    BY Zenon, <1>t, <1>7 DEF D!Finish, D!Starters, D!InClose, D!Goto
  <2>2. \A d \in Clients : pc[d] # "make"
    BY Zenon, <1>h, <1>7, ServiceAssumption DEF D!Finish, D!Holding
  <2>3. CASE serviceStatus # "STARTING"
    <3>1. UNCHANGED <<serviceStatus, stale>>
      BY Zenon, <1>7, <2>3 DEF D!Finish
    <3>2. SUFFICES ASSUME D!Reported, serviceStatus = "STARTED" PROVE D!Reported'
      BY Zenon, <1>q, <1>s, <2>2, <2>3, <3>1 DEF D!FailureReported, D!Undisturbed
    <3> QED BY Zenon, <2>1, <3>1, <3>2 DEF D!Reported
  <2>4. CASE serviceStatus = "STARTING" /\ c \in err
    <3>1. serviceStatus' = "FATAL"
      BY Zenon, <1>7, <2>4 DEF D!Finish
    <3> QED BY Zenon, <1>q, <3>1
  <2>5. CASE serviceStatus = "STARTING" /\ c \notin err
    <3>1. ~stale' => ~stale /\ mine[c] = instance
      BY <1>7, <2>5, Zenon DEF D!Finish
    <3>2. SUFFICES ASSUME D!Reported, mine[c] = instance PROVE D!Reported'
      BY Zenon, <1>s, <2>2, <2>5, <3>1 DEF D!FailureReported, D!Undisturbed
    <3>3. instance \notin boxDone \cup boxFailed
      BY Zenon, <1>s, <2>1, <2>5, <3>2 DEF D!Reported, D!OneStarter
    <3>4. \A d \in D!Starters' : mine[d] # instance
      BY Zenon, <1>s, <2>1, <3>2 DEF D!OneStarter
    <3> QED BY Zenon, <2>1, <3>2, <3>3, <3>4 DEF D!Reported
  <2> QED BY Zenon, <2>3, <2>4, <2>5
<1>8. ASSUME NEW c \in Clients, D!CloseCheck(c) PROVE D!FailureReported'
  <2>1. pc[c] \in D!InClose /\ UNCHANGED serviceStatus
    BY Zenon, <1>8 DEF D!CloseCheck, D!InClose, D!lockVars
  <2>2. CASE c \notin D!Starters
    BY Zenon, <1>q, <1>r, <2>1, <2>2
  <2>3. CASE c \in D!Starters
    <3>1. role[c] = "start"
      BY Zenon, <2>1, <2>3 DEF D!Starters, D!InClose
    <3>2. /\ D!Starters' = D!Starters /\ pc'[c] # "make"
          /\ \A d \in Clients \ {c} : pc'[d] = pc[d]
          /\ UNCHANGED <<serviceStatus, instance, boxDone, boxFailed, mine, stale>>
      BY Zenon, <1>t, <1>8, <2>3, <3>1 DEF D!CloseCheck, D!Back, D!Starters, D!InClose, D!Goto, D!lockVars
    <3>3. /\ UNCHANGED err /\ pc[c] = "check"
          /\ pc'[c] = IF mine[c] \in boxDone THEN "finish" ELSE "mark"
      BY Zenon, <1>t, <1>8, <3>1 DEF D!CloseCheck, D!Back, D!Goto
    <3>4. SUFFICES ASSUME D!Reported PROVE D!Reported'
      BY Zenon, <1>s, <2>3, <3>2, <3>3, <1>c DEF D!FailureReported, D!Undisturbed
    <3> QED BY Zenon, <1>c, <3>2, <3>3, <3>4 DEF D!Reported
  <2> QED BY Zenon, <2>2, <2>3
<1>9. ASSUME NEW c \in Clients, D!CloseMark(c) PROVE D!FailureReported'
  <2>1. pc[c] \in D!InClose /\ UNCHANGED serviceStatus
    BY Zenon, <1>9 DEF D!CloseMark, D!InClose, D!lockVars
  <2>2. CASE c \notin D!Starters
    BY Zenon, <1>q, <1>r, <2>1, <2>2
  <2>3. CASE c \in D!Starters
    <3>1. role[c] = "start"
      BY Zenon, <2>1, <2>3 DEF D!Starters, D!InClose
    <3>2. /\ D!Starters' = D!Starters /\ pc'[c] # "make"
          /\ \A d \in Clients \ {c} : pc'[d] = pc[d]
          /\ UNCHANGED <<serviceStatus, instance, boxFailed, mine, stale>>
      BY Zenon, <1>t, <1>9, <2>3, <3>1 DEF D!CloseMark, D!Starters, D!InClose, D!Goto, D!lockVars
    <3>3. UNCHANGED err /\ pc[c] = "mark" /\ pc'[c] = "tear" /\ boxDone' = boxDone \cup {mine[c]}
      BY Zenon, <1>t, <1>9, <3>1 DEF D!CloseMark, D!Goto
    <3>4. SUFFICES ASSUME D!Reported PROVE D!Reported'
      BY Zenon, <1>s, <2>3, <3>2, <3>3, <1>c DEF D!FailureReported, D!Undisturbed
    <3>5. c \in err
      BY Zenon, <1>s, <2>1, <2>3 DEF D!StarterFailed
    <3> QED BY Zenon, <1>c, <2>3, <3>2, <3>3, <3>4, <3>5 DEF D!Reported
  <2> QED BY Zenon, <2>2, <2>3
<1>10. ASSUME NEW c \in Clients, D!CloseTwice(c) PROVE D!FailureReported'
  <2>1. pc[c] \in D!InClose /\ UNCHANGED serviceStatus
    BY Zenon, <1>10 DEF D!CloseTwice, D!InClose, D!lockVars
  <2>2. CASE c \notin D!Starters
    BY Zenon, <1>q, <1>r, <2>1, <2>2
  <2>3. CASE c \in D!Starters
    <3>1. role[c] = "start"
      BY Zenon, <2>1, <2>3 DEF D!Starters, D!InClose
    <3>2. /\ D!Starters' = D!Starters /\ pc'[c] # "make"
          /\ \A d \in Clients \ {c} : pc'[d] = pc[d]
          /\ UNCHANGED <<serviceStatus, instance, boxDone, boxFailed, mine, stale>>
      BY Zenon, <1>t, <1>10, <2>3, <3>1 DEF D!CloseTwice, D!Starters, D!InClose, D!Goto, D!lockVars
    <3>3. err' = err \ {c} /\ pc[c] = "mark" /\ pc'[c] = "finish" /\ mine[c] \in boxDone
      BY Zenon, <1>t, <1>10, <3>1 DEF D!CloseTwice, D!Goto
    <3>4. SUFFICES ASSUME D!Reported PROVE D!Reported'
      BY Zenon, <1>s, <2>3, <3>2, <3>3, <1>c DEF D!FailureReported, D!Undisturbed
    <3>5. mine[c] # instance
      BY Zenon, <1>s, <2>3, <3>3, <3>4 DEF D!Reported, D!OneStarter
    <3> QED BY Zenon, <1>c, <3>2, <3>3, <3>4, <3>5 DEF D!Reported
  <2> QED BY Zenon, <2>2, <2>3
<1>11. ASSUME NEW c \in Clients, D!CloseTear(c) PROVE D!FailureReported'
  <2>1. pc[c] \in D!InClose /\ UNCHANGED serviceStatus
    BY Zenon, <1>11 DEF D!CloseTear, D!InClose, D!lockVars
  <2>2. CASE c \notin D!Starters
    BY Zenon, <1>q, <1>r, <2>1, <2>2
  <2>3. CASE c \in D!Starters
    <3>1. role[c] = "start"
      BY Zenon, <2>1, <2>3 DEF D!Starters, D!InClose
    <3>2. /\ D!Starters' = D!Starters /\ pc'[c] # "make"
          /\ \A d \in Clients \ {c} : pc'[d] = pc[d]
          /\ UNCHANGED <<serviceStatus, instance, boxDone, boxFailed, mine, stale>>
      BY Zenon, <1>t, <1>11, <2>3, <3>1 DEF D!CloseTear, D!Back, D!Starters, D!InClose, D!Goto, D!lockVars
    <3>3. UNCHANGED err /\ pc[c] = "tear" /\ pc'[c] = "finish"
      BY Zenon, <1>t, <1>11, <3>1 DEF D!CloseTear, D!Back, D!Goto
    <3>4. SUFFICES ASSUME D!Reported PROVE D!Reported'
      BY Zenon, <1>s, <2>3, <3>2, <3>3, <1>c DEF D!FailureReported, D!Undisturbed
    <3> QED BY Zenon, <1>c, <3>2, <3>3, <3>4 DEF D!Reported
  <2> QED BY Zenon, <2>2, <2>3
<1>12. ASSUME NEW c \in Clients, D!CloseService(c) PROVE D!FailureReported'
  BY Zenon, <1>q, <1>12 DEF D!CloseService, D!Leave
<1>13. ASSUME NEW c \in Clients, D!CloseServiceDone(c) PROVE D!FailureReported'
  BY Zenon, <1>q, <1>13 DEF D!CloseServiceDone
<1>14. ASSUME NEW c \in Clients, D!CloseServiceFails(c) PROVE D!FailureReported'
  BY Zenon, <1>q, <1>14 DEF D!CloseServiceFails
<1>15. ASSUME NEW c \in Clients, D!SetError(c) PROVE D!FailureReported'
  BY Zenon, <1>q, <1>15 DEF D!SetError
<1>16. CASE UNCHANGED D!vars
  BY Zenon, <1>s, <1>16
  DEF D!FailureReported, D!Undisturbed, D!Reported, D!Starters, D!vars, D!lockVars, D!callVars
<1> QED
  BY Zenon, <1>1, <1>2, <1>3, <1>4, <1>5, <1>6, <1>7, <1>8, <1>9, <1>10, <1>11, <1>12,
     <1>13, <1>14, <1>15, <1>16 DEF D!Next, D!Locking, D!Working

(* Both invariants hold in every reachable state.                          *)
LEMMA ServiceInvariants == D!Spec => [](D!ServiceInv /\ D!StarterInv)
  BY ServiceInvInit, ServiceInvStep, StarterInvStep, PTL DEF D!Spec

(* While startOrReloadServiceImp closes the old instance without the lock, *)
(* no other call reloads, stops or makes an instance.                      *)
THEOREM ServiceSerial == D!Spec => []D!Serial
<1>1. D!ServiceInv => D!Serial
  BY Zenon DEF D!ServiceInv, D!LockTells, D!LockHeld
<1>2. QED
  BY <1>1, ServiceInvariants, PTL

(* An instance that s.instance no longer holds has been closed.            *)
THEOREM ServiceNoInstanceLeft == D!Spec => []NoInstanceLeft
<1>1. D!ServiceInv => NoInstanceLeft
  BY Zenon DEF D!ServiceInv, D!LockTells, D!ClosedFirst, NoInstanceLeft
<1>2. QED
  BY <1>1, ServiceInvariants, PTL

(* Unless a start has ended for an instance that was replaced meanwhile,   *)
(* the status STARTED means that the current instance runs.                *)
THEOREM ServiceStartedRuns == D!Spec => []D!StartedRuns
<1>1. D!ServiceInv /\ D!StarterInv => D!StartedRuns
  BY Zenon DEF D!StarterInv, D!FailureReported, D!Undisturbed, D!Reported, D!OwnStatus,
         D!Holding, D!StartedRuns
<1>2. QED
  BY <1>1, ServiceInvariants, PTL
-----------------------------------------------------------------------------
(* The pipe.                                                               *)

(* A new pipe satisfies the invariant.                                     *)
LEMMA PipeInitInv == ImplInit => PipeInv
<1> SUFFICES ASSUME ImplInit PROVE PipeInv
  OBVIOUS
<1>1. ImplTypeOK
  <2>1. data \in Seq(1..MaxWrites)
    BY DEF ImplInit, PipeInit
  <2>2. written \in 0..MaxWrites
    BY PipeAssumption DEF ImplInit, PipeInit
  <2> QED BY Zenon, <2>1, <2>2 DEF ImplInit, PipeInit, ImplTypeOK
<1>2. NoLostSignal
  BY Zenon DEF ImplInit, PipeInit, NoLostSignal
<1> QED BY Zenon, <1>1, <1>2 DEF PipeInv

(* Every step of the pipe keeps the types of its state.                    *)
LEMMA PipeTypes == ASSUME ImplTypeOK, [ImplNext]_implVars PROVE ImplTypeOK'
<1> USE PipeAssumption DEF ImplTypeOK, pipeVars
<1>1. CASE WriteCall
  BY Zenon, <1>1 DEF WriteCall
<1>2. CASE WriteInternal
  <2>1. CASE PipeWrite /\ writer' = "signal"
    BY <1>2, <2>1 DEF WriteInternal, PipeWrite
  <2>2. CASE UNCHANGED pipeVars
    BY Zenon, <1>2, <2>2 DEF WriteInternal, PipeWrite
  <2> QED BY Zenon, <1>2, <2>1, <2>2 DEF WriteInternal
<1>3. CASE WriteSignal
  BY Zenon, <1>3 DEF WriteSignal
<1>4. CASE WriteWait
  BY Zenon, <1>4 DEF WriteWait
<1>5. CASE ReadCall
  BY Zenon, <1>5 DEF ReadCall
<1>6. CASE ReadInternal
  <2>1. CASE PipeRead /\ taken' = TRUE /\ reader' = "signal"
    <3>1. data' = <<>> /\ UNCHANGED <<state, written>>
      BY Zenon, <2>1 DEF PipeRead
    <3>2. <<>> \in Seq(1..MaxWrites)
      OBVIOUS
    <3> QED BY Zenon, <1>6, <2>1, <3>1, <3>2 DEF ReadInternal
  <2>2. CASE UNCHANGED pipeVars
    BY Zenon, <1>6, <2>2 DEF ReadInternal, PipeRead
  <2> QED BY Zenon, <1>6, <2>1, <2>2 DEF ReadInternal
<1>7. CASE ReadSignal
  BY Zenon, <1>7 DEF ReadSignal
<1>8. CASE ReadWait
  BY Zenon, <1>8 DEF ReadWait
<1>9. CASE ClosePipe
  BY Zenon, <1>9 DEF ClosePipe, PipeClose
<1>10. CASE Interrupt
  BY <1>10 DEF Interrupt, PipeInterrupt
<1>11. CASE UNCHANGED implVars
  BY <1>11 DEF implVars
<1> HIDE DEF ImplTypeOK, pipeVars
<1> QED
  BY Zenon, <1>1, <1>2, <1>3, <1>4, <1>5, <1>6, <1>7, <1>8, <1>9, <1>10, <1>11
  DEF ImplNext, WriterStep, ReaderStep

(* Every step leaves a waiting side its token or its wake-up: whoever makes  *)
(* room or adds data goes on to signal.                                      *)
LEMMA PipeSignals == ASSUME PipeInv, [ImplNext]_implVars PROVE NoLostSignal'
<1> USE DEF PipeInv, NoLostSignal, pipeVars
<1>1. CASE WriteCall
  BY Zenon, <1>1 DEF WriteCall
<1>2. CASE WriteInternal
  BY Zenon, <1>2 DEF WriteInternal, PipeWrite
<1>3. CASE WriteSignal
  BY Zenon, <1>3 DEF WriteSignal
<1>4. CASE WriteWait
  BY Zenon, <1>4 DEF WriteWait
<1>5. CASE ReadCall
  BY Zenon, <1>5 DEF ReadCall
<1>6. CASE ReadInternal
  BY Zenon, <1>6 DEF ReadInternal, PipeRead
<1>7. CASE ReadSignal
  BY Zenon, <1>7 DEF ReadSignal
<1>8. CASE ReadWait
  BY Zenon, <1>8 DEF ReadWait
<1>9. CASE ClosePipe
  BY Zenon, <1>9 DEF ClosePipe, PipeClose
<1>10. CASE Interrupt
  BY Zenon, <1>10 DEF Interrupt, PipeInterrupt
<1>11. CASE UNCHANGED implVars
  BY Zenon, <1>11 DEF implVars
<1> HIDE DEF PipeInv, NoLostSignal, pipeVars
<1> QED
  BY Zenon, <1>1, <1>2, <1>3, <1>4, <1>5, <1>6, <1>7, <1>8, <1>9, <1>10, <1>11
  DEF ImplNext, WriterStep, ReaderStep

(* Neither side of a pipe sleeps through what it waits for, for every        *)
(* number and size of buffers and every limit (WriteMultiBuffer and          *)
(* ReadMultiBuffer check under the lock and select after it).                *)
THEOREM PipeNoLostSignal == ImplSpec => []NoLostSignal
<1>1. PipeInv /\ [ImplNext]_implVars => PipeInv'
  BY Zenon, PipeTypes, PipeSignals DEF PipeInv
<1>2. PipeInv => NoLostSignal
  BY Zenon DEF PipeInv
<1> QED
  BY <1>1, <1>2, PipeInitInv, PTL DEF ImplSpec

-----------------------------------------------------------------------------
(* One connection of the connection manager.                                 *)

(* Every step of the connection keeps the types of its state.                *)
LEMMA ConnectionTypes == ASSUME C!TypeOK, [C!Next]_(C!vars) PROVE C!TypeOK'
<1> USE DEF C!TypeOK, C!Directions, C!Ends
<1>1. CASE C!Dial
  <2>1. handled' \in Nat
    BY <1>1 DEF C!Dial
  <2>2. listed' \in BOOLEAN /\ swapped' \in BOOLEAN
    BY Zenon, <1>1 DEF C!Dial
  <2>3. /\ cause' \in BOOLEAN /\ handshakeFailed' \in BOOLEAN
        /\ failed' \in [C!Directions -> BOOLEAN]
    BY Zenon, <1>1 DEF C!Dial
  <2>4. /\ open' \subseteq C!Ends
        /\ UNCHANGED <<kind, duplex, manager>>
    BY Zenon, <1>1 DEF C!Dial
  <2>5. /\ phase' \in {"dial", "report", "push", "upload", "download", "copying", "failed"}
        /\ copy' \in [C!Directions -> {"off", "running", "close", "swap", "ended"}]
    BY Zenon, <1>1 DEF C!Dial
  <2> QED BY Zenon, <2>1, <2>2, <2>3, <2>4, <2>5
<1>2. CASE C!Report
  <2>1. handled' \in Nat
    BY <1>2 DEF C!Report
  <2>2. listed' \in BOOLEAN /\ swapped' \in BOOLEAN
    BY Zenon, <1>2 DEF C!Report
  <2>3. /\ cause' \in BOOLEAN /\ handshakeFailed' \in BOOLEAN
        /\ failed' \in [C!Directions -> BOOLEAN]
    BY Zenon, <1>2 DEF C!Report
  <2>4. /\ open' \subseteq C!Ends
        /\ UNCHANGED <<kind, duplex, manager>>
    BY Zenon, <1>2 DEF C!Report
  <2>5. /\ phase' \in {"dial", "report", "push", "upload", "download", "copying", "failed"}
        /\ copy' \in [C!Directions -> {"off", "running", "close", "swap", "ended"}]
    BY Zenon, <1>2 DEF C!Report
  <2> QED BY Zenon, <2>1, <2>2, <2>3, <2>4, <2>5
<1>3. CASE C!PushBack
  BY Zenon, <1>3 DEF C!PushBack
<1>4. ASSUME NEW d \in C!Directions, C!PreConnectionCopy(d) PROVE C!TypeOK'
  <2>1. handled' \in Nat
    BY <1>4 DEF C!PreConnectionCopy, C!SwapDone, C!OnClose
  <2>2. listed' \in BOOLEAN /\ swapped' \in BOOLEAN
    BY Zenon, <1>4 DEF C!PreConnectionCopy, C!SwapDone, C!OnClose
  <2>3. /\ cause' \in BOOLEAN /\ handshakeFailed' \in BOOLEAN
        /\ failed' \in [C!Directions -> BOOLEAN]
    BY Zenon, <1>4 DEF C!PreConnectionCopy, C!SwapDone, C!OnClose
  <2>4. /\ open' \subseteq C!Ends
        /\ UNCHANGED <<kind, duplex, manager>>
    BY Zenon, <1>4 DEF C!PreConnectionCopy, C!SwapDone, C!OnClose
  <2>5. /\ phase' \in {"dial", "report", "push", "upload", "download", "copying", "failed"}
        /\ copy' \in [C!Directions -> {"off", "running", "close", "swap", "ended"}]
    BY Zenon, <1>4 DEF C!PreConnectionCopy, C!SwapDone, C!OnClose
  <2> QED BY Zenon, <2>1, <2>2, <2>3, <2>4, <2>5
<1>5. ASSUME NEW d \in C!Directions, C!CopyEOF(d) PROVE C!TypeOK'
  BY Zenon, <1>5 DEF C!CopyEOF
<1>6. ASSUME NEW d \in C!Directions, C!CopyFails(d) PROVE C!TypeOK'
  BY Zenon, <1>6 DEF C!CopyFails
<1>7. ASSUME NEW d \in C!Directions, C!CachedFails(d) PROVE C!TypeOK'
  <2>1. handled' \in Nat
    BY <1>7 DEF C!CachedFails, C!SwapDone, C!OnClose
  <2>2. listed' \in BOOLEAN /\ swapped' \in BOOLEAN
    BY Zenon, <1>7 DEF C!CachedFails, C!SwapDone, C!OnClose
  <2>3. /\ cause' \in BOOLEAN /\ handshakeFailed' \in BOOLEAN
        /\ failed' \in [C!Directions -> BOOLEAN]
    BY Zenon, <1>7 DEF C!CachedFails, C!SwapDone, C!OnClose
  <2>4. /\ open' \subseteq C!Ends
        /\ UNCHANGED <<kind, duplex, manager>>
    BY Zenon, <1>7 DEF C!CachedFails, C!SwapDone, C!OnClose
  <2>5. /\ phase' \in {"dial", "report", "push", "upload", "download", "copying", "failed"}
        /\ copy' \in [C!Directions -> {"off", "running", "close", "swap", "ended"}]
    BY Zenon, <1>7 DEF C!CachedFails, C!SwapDone, C!OnClose
  <2> QED BY Zenon, <2>1, <2>2, <2>3, <2>4, <2>5
<1>8. ASSUME NEW d \in C!Directions, C!CopyClose(d) PROVE C!TypeOK'
  BY Zenon, <1>8 DEF C!CopyClose
<1>9. ASSUME NEW d \in C!Directions, C!StreamSwap(d) PROVE C!TypeOK'
  <2>1. handled' \in Nat
    BY <1>9 DEF C!StreamSwap, C!SwapDone, C!OnClose
  <2>2. listed' \in BOOLEAN /\ swapped' \in BOOLEAN
    BY Zenon, <1>9 DEF C!StreamSwap, C!SwapDone, C!OnClose
  <2>3. /\ cause' \in BOOLEAN /\ handshakeFailed' \in BOOLEAN
        /\ failed' \in [C!Directions -> BOOLEAN]
    BY Zenon, <1>9 DEF C!StreamSwap, C!SwapDone, C!OnClose
  <2>4. /\ open' \subseteq C!Ends
        /\ UNCHANGED <<kind, duplex, manager>>
    BY Zenon, <1>9 DEF C!StreamSwap, C!SwapDone, C!OnClose
  <2>5. /\ phase' \in {"dial", "report", "push", "upload", "download", "copying", "failed"}
        /\ copy' \in [C!Directions -> {"off", "running", "close", "swap", "ended"}]
    BY Zenon, <1>9 DEF C!StreamSwap, C!SwapDone, C!OnClose
  <2> QED BY Zenon, <2>1, <2>2, <2>3, <2>4, <2>5
<1>10. ASSUME NEW d \in C!Directions, C!PacketSwap(d) PROVE C!TypeOK'
  <2>1. handled' \in Nat
    BY <1>10 DEF C!PacketSwap, C!OnClose
  <2>2. listed' \in BOOLEAN /\ swapped' \in BOOLEAN
    BY Zenon, <1>10 DEF C!PacketSwap, C!OnClose
  <2>3. /\ cause' \in BOOLEAN /\ handshakeFailed' \in BOOLEAN
        /\ failed' \in [C!Directions -> BOOLEAN]
    BY Zenon, <1>10 DEF C!PacketSwap, C!OnClose
  <2>4. /\ open' \subseteq C!Ends
        /\ UNCHANGED <<kind, duplex, manager>>
    BY Zenon, <1>10 DEF C!PacketSwap, C!OnClose
  <2>5. /\ phase' \in {"dial", "report", "push", "upload", "download", "copying", "failed"}
        /\ copy' \in [C!Directions -> {"off", "running", "close", "swap", "ended"}]
    BY Zenon, <1>10 DEF C!PacketSwap, C!OnClose
  <2> QED BY Zenon, <2>1, <2>2, <2>3, <2>4, <2>5
<1>11. CASE C!Close
  BY Zenon, <1>11 DEF C!Close
<1>12. CASE UNCHANGED C!vars
  BY Zenon, <1>12 DEF C!vars
<1> HIDE DEF C!TypeOK, C!Directions, C!Ends
<1> QED
  BY Zenon, <1>1, <1>2, <1>3, <1>4, <1>5, <1>6, <1>7, <1>8, <1>9, <1>10, <1>11, <1>12
  DEF C!Next

(* Every step keeps what the shared flag tells of the two copies.            *)
LEMMA ConnectionSteps ==
  ASSUME C!ConnectionInv, [C!Next]_(C!vars), Kinds \subseteq {"stream", "packet"}
  PROVE  C!ConnectionInv'
<1>t. C!TypeOK /\ C!FlagTells
  BY Zenon DEF C!ConnectionInv
<1>u. C!TypeOK'
  BY Zenon, ConnectionTypes DEF C!ConnectionInv
<1> SUFFICES C!FlagTells'
  BY Zenon, <1>u DEF C!ConnectionInv
<1> USE DEF C!FlagTells, C!TypeOK, C!Directions, C!Ends, C!OneEnded, C!AllEnded
<1>1. CASE C!Dial
  <2>1. CASE phase' = "report"
    BY Zenon, <1>t, <1>1, <2>1 DEF C!Dial
  <2>2. CASE phase' = "failed"
    BY <1>t, <1>1, <2>2 DEF C!Dial
  <2> QED BY Zenon, <1>t, <1>1, <2>1, <2>2 DEF C!Dial
<1>2. CASE C!Report
  BY <1>t, <1>2 DEF C!Report
<1>3. CASE C!PushBack
  BY Zenon, <1>t, <1>3 DEF C!PushBack
<1>4. ASSUME NEW d \in C!Directions, C!PreConnectionCopy(d) PROVE C!FlagTells'
  BY <1>t, <1>4 DEF C!PreConnectionCopy, C!SwapDone, C!OnClose
<1>5. ASSUME NEW d \in C!Directions, C!CopyEOF(d) PROVE C!FlagTells'
  BY Zenon, <1>t, <1>5 DEF C!CopyEOF
<1>6. ASSUME NEW d \in C!Directions, C!CopyFails(d) PROVE C!FlagTells'
  BY <1>t, <1>6 DEF C!CopyFails
<1>7. ASSUME NEW d \in C!Directions, C!CachedFails(d) PROVE C!FlagTells'
  BY <1>t, <1>7 DEF C!CachedFails, C!SwapDone, C!OnClose
<1>8. ASSUME NEW d \in C!Directions, C!CopyClose(d) PROVE C!FlagTells'
  BY Zenon, <1>t, <1>8 DEF C!CopyClose
<1>9. ASSUME NEW d \in C!Directions, C!StreamSwap(d) PROVE C!FlagTells'
  BY <1>t, <1>9 DEF C!StreamSwap, C!SwapDone, C!OnClose
<1>10. ASSUME NEW d \in C!Directions, C!PacketSwap(d) PROVE C!FlagTells'
  BY <1>t, <1>10 DEF C!PacketSwap, C!OnClose
<1>11. CASE C!Close
  BY <1>t, <1>11 DEF C!Close
<1>12. CASE UNCHANGED C!vars
  BY <1>t, <1>12 DEF C!vars
<1> HIDE DEF C!FlagTells, C!TypeOK, C!Directions, C!Ends, C!OneEnded,
             C!AllEnded
<1> QED
  BY Zenon, <1>1, <1>2, <1>3, <1>4, <1>5, <1>6, <1>7, <1>8, <1>9, <1>10, <1>11, <1>12
  DEF C!Next


(* Nothing has happened to a new connection.                                 *)
LEMMA ConnectionInit == C!Init => C!ConnectionInv
<1> SUFFICES ASSUME C!Init PROVE C!ConnectionInv
  OBVIOUS
<1>1. C!TypeOK
  BY Zenon DEF C!Init, C!TypeOK, C!Ends
<1> QED
  BY Zenon, <1>1 DEF C!Init, C!ConnectionInv, C!FlagTells, C!Directions, C!OneEnded

(* onClose is called at most once unless a handshake has failed, in every    *)
(* order of the two copies, their errors and the manager's Close             *)
(* (connectionCopy, packetConnectionCopy).                                   *)
THEOREM ConnectionOnCloseOnce ==
  ASSUME Kinds \subseteq {"stream", "packet"}
  PROVE  C!Spec => []OnCloseOnce
<1>1. C!ConnectionInv /\ [C!Next]_(C!vars) => C!ConnectionInv'
  BY Zenon, ConnectionSteps
<1>2. C!ConnectionInv => OnCloseOnce
  BY DEF OnCloseOnce, C!ConnectionInv, C!FlagTells, C!TypeOK, C!OnCloseOnce
<1> QED
  BY <1>1, <1>2, ConnectionInit, PTL DEF C!Spec

(* The clean end of one direction of a stream leaves the other one working   *)
(* (connectionCopy's CloseWrite).                                            *)
THEOREM ConnectionHalfClose ==
  ASSUME Kinds \subseteq {"stream", "packet"}
  PROVE  C!Spec => []HalfClose
<1>1. C!ConnectionInv /\ [C!Next]_(C!vars) => C!ConnectionInv'
  BY Zenon, ConnectionSteps
<1>2. C!ConnectionInv => HalfClose
  BY Zenon DEF HalfClose, C!ConnectionInv, C!FlagTells, C!HalfClose, C!AllEnded
<1> QED
  BY <1>1, <1>2, ConnectionInit, PTL DEF C!Spec
=============================================================================
