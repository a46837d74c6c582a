----------------------------- MODULE Selector -----------------------------
(* The selector group (protocol/group/selector.go) with its interrupt group  *)
(* (common/interrupt): connections are dialled through the selected outbound *)
(* and registered, a new selection is stored in the cache file and           *)
(* interrupts the registered connections.                                    *)
CONSTANTS Callers,    \* concurrent calls of SelectOutbound
          Conns,      \* connections
          Tags,       \* the outbounds of the group
          Default,    \* the one Start chooses when the cache file has none
          Nil,
          InterruptExternal  \* interruptExternalConnections, as a set of choices

VARIABLES selected,   \* s.selected
          stored,     \* the selection in the cache file
          selecting,  \* where each call is: "idle", "store" or "interrupt"
          tag,        \* the tag each call selects
          via,        \* the outbound each connection is dialled through
          conn,       \* "none", "dialing", "open" (in the group) or "closed"
          external,   \* the connection is external
          late,       \* registered when its outbound was no longer selected
          raced,      \* the last store was overtaken or failed
          interruptExternal

vars == <<selected, stored, selecting, tag, via, conn, external, late, raced, interruptExternal>>
conns == <<via, conn, external, late>>

TypeOK ==
  /\ selected \in Tags
  /\ stored \in Tags \cup {Nil}
  /\ selecting \in [Callers -> {"idle", "store", "interrupt"}]
  /\ tag \in [Callers -> Tags]
  /\ via \in [Conns -> Tags]
  /\ conn \in [Conns -> {"none", "dialing", "open", "closed"}]
  /\ external \in [Conns -> BOOLEAN]
  /\ late \in [Conns -> BOOLEAN]
  /\ raced \in BOOLEAN
  /\ interruptExternal \in BOOLEAN

Init ==
  /\ selected = Default
  /\ stored = Nil
  /\ selecting = [p \in Callers |-> "idle"]
  /\ tag = [p \in Callers |-> Default]
  /\ via = [c \in Conns |-> Default]
  /\ conn = [c \in Conns |-> "none"]
  /\ external = [c \in Conns |-> FALSE]
  /\ late = [c \in Conns |-> FALSE]
  /\ raced = FALSE
  /\ interruptExternal \in InterruptExternal

-----------------------------------------------------------------------------
(* As if the default did not need to be stored.                              *)
SelectSwapDefault(p, t) ==
  /\ selecting[p] = "idle"
  /\ selected # t
  /\ selected' = t
  /\ tag' = [tag EXCEPT ![p] = t]
  /\ selecting' = [selecting EXCEPT ![p] = IF t = Default THEN "interrupt" ELSE "store"]
  /\ raced' = (\E q \in Callers \ {p} : selecting[q] = "store")
  /\ UNCHANGED <<stored, conns, interruptExternal>>

(* SelectOutbound swaps the selection; nothing more happens when it was the  *)
(* same before.                                                             *)
SelectSwap(p, t) ==
  /\ selecting[p] = "idle"
  /\ selected # t
  /\ selected' = t
  /\ tag' = [tag EXCEPT ![p] = t]
  /\ selecting' = [selecting EXCEPT ![p] = "store"]
  /\ raced' = (\E q \in Callers \ {p} : selecting[q] = "store")
  /\ UNCHANGED <<stored, conns, interruptExternal>>

(* As if a failing store ended the call.                                     *)
SelectStoreReturns(p) ==
  /\ selecting[p] = "store"
  /\ \/ /\ stored' = tag[p]
        /\ selecting' = [selecting EXCEPT ![p] = "interrupt"]
        /\ UNCHANGED raced
     \/ /\ raced' = TRUE
        /\ selecting' = [selecting EXCEPT ![p] = "idle"]
        /\ UNCHANGED stored
  /\ UNCHANGED <<selected, tag, conns, interruptExternal>>

(* It stores the tag; a failing store is only logged.                        *)
SelectStore(p) ==
  /\ selecting[p] = "store"
  /\ \/ stored' = tag[p] /\ UNCHANGED raced
     \/ raced' = TRUE /\ UNCHANGED stored
  /\ selecting' = [selecting EXCEPT ![p] = "interrupt"]
  /\ UNCHANGED <<selected, tag, conns, interruptExternal>>

(* Group.Interrupt, under the group's lock: registered connections are       *)
(* closed, external ones only if the option says so.                        *)
Interrupt(p) ==
  /\ selecting[p] = "interrupt"
  /\ selecting' = [selecting EXCEPT ![p] = "idle"]
  /\ conn' = [c \in Conns |->
       IF conn[c] = "open" /\ (external[c] => interruptExternal) THEN "closed" ELSE conn[c]]
  /\ UNCHANGED <<selected, stored, tag, via, external, late, raced, interruptExternal>>

(* DialContext and NewConnectionEx load the selection ...                    *)
Dial(c, isExternal) ==
  /\ conn[c] = "none"
  /\ conn' = [conn EXCEPT ![c] = "dialing"]
  /\ via' = [via EXCEPT ![c] = selected]
  /\ external' = [external EXCEPT ![c] = isExternal]
  /\ UNCHANGED <<selected, stored, selecting, tag, late, raced, interruptExternal>>

(* ... and register the connection when they have it.                        *)
NewConn(c) ==
  /\ conn[c] = "dialing"
  /\ conn' = [conn EXCEPT ![c] = "open"]
  /\ late' = [late EXCEPT ![c] = via[c] # selected]
  /\ UNCHANGED <<selected, stored, selecting, tag, via, external, raced, interruptExternal>>

(* Conn.Close takes the connection out of the group; or the dial fails.      *)
CloseConn(c) ==
  /\ conn[c] \in {"dialing", "open"}
  /\ conn' = [conn EXCEPT ![c] = "closed"]
  /\ UNCHANGED <<selected, stored, selecting, tag, via, external, late, raced, interruptExternal>>

(* What Start selects, given the cache file.                                 *)
Selection == IF stored = Nil THEN Default ELSE stored

(* The process ends and starts again.                                        *)
Restart ==
  /\ selected' = Selection
  /\ selecting' = [p \in Callers |-> "idle"]
  /\ tag' = [p \in Callers |-> Default]
  /\ via' = [c \in Conns |-> Default]
  /\ conn' = [c \in Conns |-> "none"]
  /\ external' = [c \in Conns |-> FALSE]
  /\ late' = [c \in Conns |-> FALSE]
  /\ raced' = FALSE
  /\ UNCHANGED <<stored, interruptExternal>>

Next ==
  \/ \E p \in Callers, t \in Tags : SelectSwap(p, t)
  \/ \E p \in Callers : SelectStore(p) \/ Interrupt(p)
  \/ \E c \in Conns, e \in BOOLEAN : Dial(c, e)
  \/ \E c \in Conns : NewConn(c) \/ CloseConn(c)
  \/ Restart

Spec == Init /\ [][Next]_vars

-----------------------------------------------------------------------------
Settled == \A p \in Callers : selecting[p] = "idle"

(* Once no selection is under way, no connection is left on an outbound that *)
(* is not selected, however selections, dials and failing stores interleave, *)
(* except external ones without the option and those that were registered    *)
(* after their outbound had been deselected (DialContext loads the selection *)
(* before the dial and registers after it).                                  *)
NoStaleConn ==
  Settled =>
    \A c \in Conns : conn[c] = "open" =>
      via[c] = selected \/ late[c] \/ (external[c] /\ ~interruptExternal)

(* Once no selection is under way, a restart selects what is selected now,   *)
(* unless the last selection overtook another one before its store, or its   *)
(* store failed (SelectOutbound swaps first and stores after).               *)
SelectionKept == Settled /\ ~raced => Selection = selected

(* The inductive invariant behind SelectionKept: without a race the last     *)
(* selection is on its way to the cache file, or there.                      *)
StoreTells ==
  ~raced =>
    /\ \A p, q \in Callers : selecting[p] = "store" /\ selecting[q] = "store" => p = q
    /\ \A p \in Callers : selecting[p] = "store" => tag[p] = selected
    /\ (\A p \in Callers : selecting[p] # "store") => Selection = selected

SelectorInv == TypeOK /\ StoreTells
=============================================================================
