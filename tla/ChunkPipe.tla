----------------------------- MODULE ChunkPipe -----------------------------
(***************************************************************************)
(* The pipe of common/xray/pipe without its waiting: buffers are written   *)
(* one after the other while it is open and not full, a read takes all     *)
(* that is there, Close leaves what was written to be read, Interrupt      *)
(* drops it.  Module Pipe adds the lock, the signals and the waiting;      *)
(* module XHTTPUpload is built upon this one.                              *)
(*                                                                         *)
(* Buffers are numbered in the order of the writes.                        *)
(***************************************************************************)
EXTENDS Integers, Sequences

CONSTANTS MaxWrites, \* bound on the number of buffers that are written
          Size,      \* number of bytes of each buffer
          Limit      \* p.option.limit

ASSUME PipeAssumption ==
  /\ MaxWrites \in Nat
  /\ Size \in [1..MaxWrites -> Nat \ {0}]
  /\ Limit \in Nat

VARIABLES data,    \* p.data: the buffers held, empty when it is nil
          state,   \* p.state
          written  \* number of buffers written so far

pipeVars == <<data, state, written>>

PipeInit == data = <<>> /\ state = "open" /\ written = 0

\* MultiBuffer.Len
Bytes[mb \in Seq(1..MaxWrites)] ==
  IF mb = <<>> THEN 0 ELSE Size[Head(mb)] + Bytes[Tail(mb)]

isFull(curSize) == curSize > Limit

\* writeMultiBufferInternal without an error, or with errSlowDown.
PipeWrite ==
  /\ state = "open"
  /\ written < MaxWrites
  /\ ~isFull(Bytes[data])
  /\ data' = Append(data, written + 1)
  /\ written' = written + 1
  /\ UNCHANGED state

\* readMultiBufferInternal that returns data.
PipeRead ==
  /\ state # "errord"
  /\ data # <<>>
  /\ data' = <<>>
  /\ UNCHANGED <<state, written>>

PipeClose ==
  /\ state = "open"
  /\ state' = "closed"
  /\ UNCHANGED <<data, written>>

\* What is buffered is dropped; a closed pipe that has been drained stays so.
PipeInterrupt ==
  /\ data' = <<>>
  /\ state' = IF state = "closed" /\ data = <<>> THEN "closed" ELSE "errord"
  /\ UNCHANGED written
=============================================================================
