---------------------------- MODULE UploadQueue ----------------------------
(***************************************************************************)
(* The queue that puts the POSTs of an XHTTP session back into order:      *)
(* transport/v2rayxhttp/upload_queue.go in packet-up mode, where no packet *)
(* carries a Reader.  Push, called by the handlers of the POSTs, holds     *)
(* writeCloseMutex while it waits for room in the channel; Close needs the *)
(* same mutex; Read, called by one goroutine, takes no lock.               *)
(*                                                                         *)
(* A packet is a record of its sequence number, the number of the copy if  *)
(* it is sent again, and its payload, a sequence of buffers.  Read         *)
(* works on a heap that only it touches, so an action of it goes on until  *)
(* it returns or waits for the channel.                                    *)
(***************************************************************************)
EXTENDS Integers, Sequences, FiniteSets

CONSTANTS Queues,     \* the queues; each belongs to one session
          MaxPackets  \* h.maxPackets

ASSUME QueueAssumption == MaxPackets \in Nat \ {0}

Nobody == <<>>

VARIABLES pushed,  \* h.pushedPackets of each queue
          mutex,   \* h.writeCloseMutex: the packet whose Push holds it
          heap,    \* h.heap: a set of packets
          nextSeq, \* h.nextSeq
          closed,  \* h.closed; with it the channel is closed
          reading  \* where Read is

queueVars == <<pushed, mutex, heap, nextSeq, closed, reading>>

QueueInit ==
  /\ pushed = [q \in Queues |-> <<>>]
  /\ mutex = [q \in Queues |-> Nobody]
  /\ heap = [q \in Queues |-> {}]
  /\ nextSeq = [q \in Queues |-> 0]
  /\ closed = [q \in Queues |-> FALSE]
  /\ reading = [q \in Queues |-> "out"]
-----------------------------------------------------------------------------
(* Push(p), in two steps: the send waits while the channel is full.        *)

PushRefused(q) ==
  /\ mutex[q] = Nobody
  /\ closed[q]
  /\ UNCHANGED queueVars

PushLock(q, packet) ==
  /\ mutex[q] = Nobody
  /\ ~closed[q]
  /\ mutex' = [mutex EXCEPT ![q] = packet]
  /\ UNCHANGED <<pushed, heap, nextSeq, closed, reading>>

\* As if the channel had one place less.
PushSendLess(q, packet) ==
  /\ mutex[q] = packet
  /\ Len(pushed[q]) < MaxPackets - 1
  /\ pushed' = [pushed EXCEPT ![q] = Append(@, packet)]
  /\ mutex' = [mutex EXCEPT ![q] = Nobody]
  /\ UNCHANGED <<heap, nextSeq, closed, reading>>

PushSend(q, packet) ==
  /\ mutex[q] = packet
  /\ Len(pushed[q]) < MaxPackets
  /\ pushed' = [pushed EXCEPT ![q] = Append(@, packet)]
  /\ mutex' = [mutex EXCEPT ![q] = Nobody]
  /\ UNCHANGED <<heap, nextSeq, closed, reading>>

\* Close empties the channel and closes it, all under the mutex.
QueueClose(q) ==
  /\ mutex[q] = Nobody
  /\ closed' = [closed EXCEPT ![q] = TRUE]
  /\ pushed' = [pushed EXCEPT ![q] = <<>>]
  /\ UNCHANGED <<mutex, heap, nextSeq, reading>>
-----------------------------------------------------------------------------
(* Read.                                                                   *)

\* The loop drops what is older than nextSeq.
Current(q, packets) == {p \in packets : p.seq >= nextSeq[q]}
First(packets) == {p \in packets : \A o \in packets : p.seq <= o.seq}

QueueRead(q) ==
  /\ reading[q] = "out"
  /\ ~closed[q]
  /\ reading' = [reading EXCEPT ![q] = IF heap[q] = {} THEN "receive" ELSE "loop"]
  /\ UNCHANGED <<pushed, mutex, heap, nextSeq, closed>>

\* h.closed is set, or the channel is closed while Read waits for it.
ReadEOF(q) ==
  /\ closed[q]
  /\ \/ reading[q] = "out"
     \/ reading[q] = "receive" /\ pushed[q] = <<>>
  /\ reading' = [reading EXCEPT ![q] = "end"]
  /\ UNCHANGED <<pushed, mutex, heap, nextSeq, closed>>

ReadReceive(q) ==
  /\ reading[q] = "receive"
  /\ pushed[q] # <<>>
  /\ heap' = [heap EXCEPT ![q] = @ \cup {Head(pushed[q])}]
  /\ pushed' = [pushed EXCEPT ![q] = Tail(@)]
  /\ reading' = [reading EXCEPT ![q] = "loop"]
  /\ UNCHANGED <<mutex, nextSeq, closed>>

\* As if the packet at the top were always the next one.
ReadPacketAny(q, packet, n) ==
  /\ reading[q] = "loop"
  /\ packet \in First(heap[q])
  /\ n = Len(packet.payload)
  /\ heap' = [heap EXCEPT ![q] = @ \ {packet}]
  /\ nextSeq' = [nextSeq EXCEPT ![q] = packet.seq + 1]
  /\ reading' = [reading EXCEPT ![q] = "out"]
  /\ UNCHANGED <<pushed, mutex, closed>>

\* The packet is the next one: its first n buffers are copied, and what is
\* left of it goes back to the heap.
ReadPacket(q, packet, n) ==
  /\ reading[q] = "loop"
  /\ packet \in First(Current(q, heap[q]))
  /\ packet.seq = nextSeq[q]
  /\ n \in 1..Len(packet.payload)
  /\ LET rest == SubSeq(packet.payload, n + 1, Len(packet.payload))
         others == Current(q, heap[q]) \ {packet}
     IN IF rest = <<>>
        THEN /\ heap' = [heap EXCEPT ![q] = others]
             /\ nextSeq' = [nextSeq EXCEPT ![q] = packet.seq + 1]
        ELSE /\ heap' = [heap EXCEPT ![q] =
                           others \cup {[packet EXCEPT !.payload = rest]}]
             /\ UNCHANGED nextSeq
  /\ reading' = [reading EXCEPT ![q] = "out"]
  /\ UNCHANGED <<pushed, mutex, closed>>

\* Nothing but old packets: Read returns 0, nil.
ReadNothing(q) ==
  /\ reading[q] = "loop"
  /\ Current(q, heap[q]) = {}
  /\ heap' = [heap EXCEPT ![q] = {}]
  /\ reading' = [reading EXCEPT ![q] = "out"]
  /\ UNCHANGED <<pushed, mutex, nextSeq, closed>>

Gap(q) ==
  /\ reading[q] = "loop"
  /\ Current(q, heap[q]) # {}
  /\ \A p \in Current(q, heap[q]) : p.seq > nextSeq[q]

\* A packet is missing: Read waits for one more.
ReadMore(q) ==
  /\ Gap(q)
  /\ Cardinality(Current(q, heap[q])) - 1 <= MaxPackets
  /\ heap' = [heap EXCEPT ![q] = Current(q, @)]
  /\ reading' = [reading EXCEPT ![q] = "receive"]
  /\ UNCHANGED <<pushed, mutex, nextSeq, closed>>

\* ... unless the reassembly buffer is too large.
ReadTooLarge(q) ==
  /\ Gap(q)
  /\ Cardinality(Current(q, heap[q])) - 1 > MaxPackets
  /\ heap' = [heap EXCEPT ![q] =
                 Current(q, @) \ {CHOOSE p \in First(Current(q, @)) : TRUE}]
  /\ reading' = [reading EXCEPT ![q] = "toolarge"]
  /\ UNCHANGED <<pushed, mutex, nextSeq, closed>>
=============================================================================
