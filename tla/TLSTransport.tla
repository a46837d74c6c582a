---------------------------- MODULE TLSTransport ----------------------------
(***************************************************************************)
(* DNS over TLS, dns/transport/tls.go, on top of the life cycle            *)
(* BaseTransport.  Idle connections are kept in a list under t.access; an  *)
(* exchange takes one out, or dials, and gives it back after the answer.   *)
(* The id of an answer is not compared with that of the question.          *)
(*                                                                         *)
(* Each query is one call of Exchange.  A step is a critical section of    *)
(* t.access or t.mutex, a dial, a write or a read.  What is left in a      *)
(* connection is the set of queries whose answer has not been read; a      *)
(* write and a read may fail at any time, as of a deadline.                *)
(***************************************************************************)
EXTENDS BaseTransport

CONSTANTS Streams,   \* TLS connections
          NoStream, NoQuery

VARIABLES
  idle,     \* t.connections; PopFront may take any of them
  open,     \* connections that are not closed
  dialed,   \* connections that were made
  unanswered,  \* the queries each connection still has an answer to
  qpc,      \* where each query is
  held,     \* the connection it holds
  pooled,   \* ... which it took out of the list
  answer,   \* the query whose answer it read
  emptied,  \* closers whose Close has closed what was in the list
  strays    \* connections given back since, when State() was still StateStarted

listVars == <<idle, open, dialed, unanswered>>
queryVars == <<qpc, held, pooled, answer>>
tlsVars == <<vars, listVars, queryVars, emptied, strays>>

TLSTypeOK ==
  /\ TypeOK
  /\ idle \subseteq Streams /\ open \subseteq Streams /\ dialed \subseteq Streams
  /\ unanswered \in [Streams -> SUBSET Queries]
  /\ qpc \in [Queries -> {"idle", "pop", "dial", "write", "read", "state", "push", "end", "done"}]
  /\ held \in [Queries -> Streams \cup {NoStream}]
  /\ pooled \in [Queries -> BOOLEAN]
  /\ answer \in [Queries -> Queries \cup {NoQuery}]
  /\ emptied \subseteq Closers
  /\ strays \subseteq Streams

TLSInit ==
  /\ Init
  /\ idle = {} /\ open = {} /\ dialed = {}
  /\ unanswered = [x \in Streams |-> {}]
  /\ qpc = [q \in Queries |-> "idle"]
  /\ held = [q \in Queries |-> NoStream]
  /\ pooled = [q \in Queries |-> FALSE]
  /\ answer = [q \in Queries |-> NoQuery]
  /\ emptied = {}
  /\ strays = {}
-----------------------------------------------------------------------------
Goto(q, p) == qpc' = [qpc EXCEPT ![q] = p]

\* exchange holds t.access from before State() until after PushBack.
AccessFree == \A q \in Queries : qpc[q] # "push"

Start ==
  /\ SetStarted
  /\ UNCHANGED <<listVars, queryVars, emptied, strays>>

Exchange(q) ==
  /\ qpc[q] = "idle"
  /\ \/ BeginQuery(q) /\ Goto(q, "pop")
     \/ state # "started" /\ Goto(q, "done") /\ UNCHANGED vars
  /\ UNCHANGED <<listVars, held, pooled, answer, emptied, strays>>

PopFront(q) ==
  /\ qpc[q] = "pop" /\ AccessFree
  /\ \/ \E x \in idle :
          /\ idle' = idle \ {x}
          /\ held' = [held EXCEPT ![q] = x]
          /\ pooled' = [pooled EXCEPT ![q] = TRUE]
          /\ Goto(q, "write")
     \/ idle = {} /\ Goto(q, "dial") /\ UNCHANGED <<idle, held, pooled>>
  /\ UNCHANGED <<vars, open, dialed, unanswered, answer, emptied, strays>>

DialTLS(q) ==
  /\ qpc[q] = "dial"
  /\ \/ \E x \in Streams \ dialed :
          /\ dialed' = dialed \cup {x}
          /\ open' = open \cup {x}
          /\ held' = [held EXCEPT ![q] = x]
          /\ pooled' = [pooled EXCEPT ![q] = FALSE]
          /\ Goto(q, "write")
     \/ Goto(q, "end") /\ UNCHANGED <<dialed, open, held, pooled>>
  /\ UNCHANGED <<vars, idle, unanswered, answer, emptied, strays>>

WriteMessage(q) ==
  /\ qpc[q] = "write"
  /\ unanswered' = [unanswered EXCEPT ![held[q]] = @ \cup {q}]
  /\ Goto(q, "read")
  /\ UNCHANGED <<vars, idle, open, dialed, held, pooled, answer, emptied, strays>>

ReadMessage(q) ==
  /\ qpc[q] = "read"
  /\ \E p \in unanswered[held[q]] :
       /\ unanswered' = [unanswered EXCEPT ![held[q]] = @ \ {p}]
       /\ answer' = [answer EXCEPT ![q] = p]
  /\ Goto(q, "state")
  /\ UNCHANGED <<vars, idle, open, dialed, held, pooled, emptied, strays>>

\* As if a connection with an unread answer in it were given back.
ExchangeFailsKeeps(q) ==
  /\ qpc[q] \in {"write", "read"}
  /\ idle' = idle \cup {held[q]}
  /\ held' = [held EXCEPT ![q] = NoStream]
  /\ Goto(q, IF pooled[q] THEN "dial" ELSE "end")
  /\ UNCHANGED <<vars, open, dialed, unanswered, pooled, answer, emptied, strays>>

\* A pooled connection is replaced by a new one, once.
ExchangeFails(q) ==
  /\ qpc[q] \in {"write", "read"}
  /\ open' = open \ {held[q]}
  /\ held' = [held EXCEPT ![q] = NoStream]
  /\ Goto(q, IF pooled[q] THEN "dial" ELSE "end")
  /\ UNCHANGED <<vars, idle, dialed, unanswered, pooled, answer, emptied, strays>>

\* As if State() were not asked.
CheckStateNot(q) ==
  /\ qpc[q] = "state" /\ AccessFree
  /\ strays' = IF emptied # {} /\ state = "started" THEN strays \cup {held[q]} ELSE strays
  /\ Goto(q, "push")
  /\ UNCHANGED <<vars, listVars, held, pooled, answer, emptied>>

CheckState(q) ==
  /\ qpc[q] = "state" /\ AccessFree
  /\ \/ /\ state \in {"closing", "closed"}
        /\ open' = open \ {held[q]}
        /\ held' = [held EXCEPT ![q] = NoStream]
        /\ Goto(q, "end")
        /\ UNCHANGED strays
     \/ /\ state \notin {"closing", "closed"}
        /\ strays' = IF emptied = {} THEN strays ELSE strays \cup {held[q]}
        /\ Goto(q, "push")
        /\ UNCHANGED <<open, held>>
  /\ UNCHANGED <<vars, idle, dialed, unanswered, pooled, answer, emptied>>

PushBack(q) ==
  /\ qpc[q] = "push"
  /\ idle' = idle \cup {held[q]}
  /\ held' = [held EXCEPT ![q] = NoStream]
  /\ Goto(q, "end")
  /\ UNCHANGED <<vars, open, dialed, unanswered, pooled, answer, emptied, strays>>

ReturnResponse(q) ==
  /\ qpc[q] = "end"
  /\ EndQuery(q)
  /\ Goto(q, "done")
  /\ UNCHANGED <<listVars, held, pooled, answer, emptied, strays>>
-----------------------------------------------------------------------------
Reset ==
  /\ AccessFree /\ idle # {}
  /\ open' = open \ idle
  /\ idle' = {}
  /\ UNCHANGED <<vars, dialed, unanswered, queryVars, emptied, strays>>

\* Close, before BaseTransport.Close.
CloseIdle(c) ==
  /\ c \notin emptied /\ AccessFree
  /\ open' = open \ idle
  /\ idle' = {}
  /\ emptied' = emptied \cup {c}
  /\ UNCHANGED <<vars, dialed, unanswered, queryVars, strays>>

CloseBase(c) ==
  /\ c \in emptied
  /\ CloserStep(c) \/ CtxExpires(c)
  /\ UNCHANGED <<listVars, queryVars, emptied, strays>>

QueryStep(q) ==
  \/ Exchange(q) \/ PopFront(q) \/ DialTLS(q) \/ WriteMessage(q) \/ ReadMessage(q)
  \/ ExchangeFails(q) \/ CheckState(q) \/ PushBack(q) \/ ReturnResponse(q)

TLSNext ==
  \/ Start
  \/ \E q \in Queries : QueryStep(q)
  \/ Reset
  \/ \E c \in Closers : CloseIdle(c) \/ CloseBase(c)

TLSSpec == TLSInit /\ [][TLSNext]_tlsVars
-----------------------------------------------------------------------------
(* An exchange returns the answer to its own question, although nothing in   *)
(* an answer is compared with it: a connection is never used by two          *)
(* exchanges at a time, and one whose answer was not read is not used again  *)
(* (TLSTransport.exchange closes it after an error).                         *)
OwnAnswer == \A q \in Queries : answer[q] \in {q, NoQuery}

(* When Close has returned nil after its own shutdown, no connection is      *)
(* open, except those that were given back after Close had emptied the list  *)
(* and before BaseTransport.Close changed the state: nobody closes these.    *)
NoConnLeft ==
  \A c \in Closers : shutdown[c] = "drained" => open \subseteq strays

\* The exchanges that have a connection in their hands.
Using == {q \in Queries : qpc[q] \in {"write", "read", "state", "push"}}

(* The list holds open connections without an answer in them.                *)
Clean ==
  /\ idle \subseteq open /\ open \subseteq dialed
  /\ \A x \in Streams : x \in idle \/ x \notin dialed => unanswered[x] = {}

(* What an exchange has in its hands is open and not in the list.            *)
InHands ==
  \A q \in Using :
    /\ held[q] \in open \ idle
    /\ unanswered[held[q]] = IF qpc[q] = "read" THEN {q} ELSE {}
    /\ qpc[q] = "push" /\ emptied # {} => held[q] \in strays

(* Whoever has a connection has it alone.                                    *)
Alone == \A p, q \in Using : held[p] = held[q] => p = q

(* Every open connection is in the list or in somebody's hands.              *)
Placed == \A x \in open \ idle : \E q \in Using : held[q] = x

(* The running exchanges are counted, and a closer empties the list before   *)
(* it changes the state; from then on the list only gets strays.             *)
Accounts ==
  /\ \A q \in Queries : qpc[q] \notin {"idle", "done"} => q \in running
  /\ emptied # {} => idle \subseteq strays
  /\ \A c \in Closers : shutdown[c] # "out" => c \in emptied

(* The inductive invariant behind OwnAnswer and NoConnLeft.                  *)
TLSInv ==
  /\ TLSTypeOK /\ BaseInv /\ OwnAnswer
  /\ Clean /\ InHands /\ Alone /\ Placed /\ Accounts
=============================================================================
