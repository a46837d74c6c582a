------------------------------- MODULE Pipe -------------------------------
(***************************************************************************)
(* The bounded in-memory pipe of common/xray/pipe/impl.go, with the        *)
(* one-place Notifier (common/xray/signal) and the done channel            *)
(* (common/xray/signal/done) it waits on.  One goroutine writes and one    *)
(* reads; anybody may Close or Interrupt.                                  *)
(*                                                                         *)
(* An action is a critical section of p.Mutex, a Signal or a select; the   *)
(* critical sections are the actions of module ChunkPipe.  No call has     *)
(* DiscardOverflow, a timeout or ReturnAnError.                            *)
(***************************************************************************)
EXTENDS ChunkPipe

VARIABLES readSignal,  \* p.readSignal holds a token
          writeSignal, \* p.writeSignal holds a token
          done,        \* p.done is closed
          writer,      \* where the writer is
          reader,      \* where the reader is
          taken        \* ReadMultiBuffer has data to return, not an error

implVars == <<pipeVars, readSignal, writeSignal, done, writer, reader, taken>>

ImplTypeOK ==
  /\ data \in Seq(1..MaxWrites)
  /\ state \in {"open", "closed", "errord"}
  /\ written \in 0..MaxWrites
  /\ readSignal \in BOOLEAN
  /\ writeSignal \in BOOLEAN
  /\ done \in BOOLEAN
  /\ writer \in {"out", "internal", "signal", "fail", "wait", "failed"}
  /\ reader \in {"internal", "signal", "wait", "out", "end"}
  /\ taken \in BOOLEAN

ImplInit ==
  /\ PipeInit
  /\ readSignal = FALSE
  /\ writeSignal = FALSE
  /\ done = FALSE
  /\ writer = "out"
  /\ reader = "out"
  /\ taken = FALSE
-----------------------------------------------------------------------------
(* WriteMultiBuffer.                                                       *)

WriteCall ==
  /\ writer = "out"
  /\ written < MaxWrites
  /\ writer' = "internal"
  /\ UNCHANGED <<pipeVars, readSignal, writeSignal, done, reader, taken>>

\* writeMultiBufferInternal
WriteInternal ==
  /\ writer = "internal"
  /\ \/ PipeWrite /\ writer' = "signal"
     \/ /\ state = "open" /\ isFull(Bytes[data])
        /\ writer' = "wait"
        /\ UNCHANGED pipeVars
     \/ /\ state # "open"
        /\ writer' = "fail"
        /\ UNCHANGED pipeVars
  /\ UNCHANGED <<readSignal, writeSignal, done, reader, taken>>

WriteSignal ==
  /\ writer \in {"signal", "fail"}
  /\ readSignal' = TRUE
  /\ writer' = IF writer = "signal" THEN "out" ELSE "failed"
  /\ UNCHANGED <<pipeVars, writeSignal, done, reader, taken>>

WriteWait ==
  /\ writer = "wait"
  /\ \/ writeSignal /\ writeSignal' = FALSE /\ writer' = "internal"
     \/ done /\ writer' = "failed" /\ UNCHANGED writeSignal
  /\ UNCHANGED <<pipeVars, readSignal, done, reader, taken>>
-----------------------------------------------------------------------------
(* ReadMultiBuffer.                                                        *)

ReadCall ==
  /\ reader = "out"
  /\ reader' = "internal"
  /\ UNCHANGED <<pipeVars, readSignal, writeSignal, done, writer, taken>>

\* readMultiBufferInternal, with getState(true).
ReadInternal ==
  /\ reader = "internal"
  /\ \/ /\ PipeRead
        /\ taken' = TRUE
        /\ reader' = "signal"
     \/ /\ state = "errord" \/ (state = "closed" /\ data = <<>>)
        /\ taken' = FALSE
        /\ reader' = "signal"
        /\ UNCHANGED pipeVars
     \/ /\ state = "open" /\ data = <<>>
        /\ reader' = "wait"
        /\ UNCHANGED <<pipeVars, taken>>
  /\ UNCHANGED <<readSignal, writeSignal, done, writer>>

\* As if a writer were only told of an error.
ReadSignalError ==
  /\ reader = "signal"
  /\ writeSignal' = (writeSignal \/ ~taken)
  /\ reader' = IF taken THEN "out" ELSE "end"
  /\ UNCHANGED <<pipeVars, readSignal, done, writer, taken>>

\* The writer is told, and ReadMultiBuffer returns.
ReadSignal ==
  /\ reader = "signal"
  /\ writeSignal' = TRUE
  /\ reader' = IF taken THEN "out" ELSE "end"
  /\ UNCHANGED <<pipeVars, readSignal, done, writer, taken>>

ReadWait ==
  /\ reader = "wait"
  /\ reader' = "internal"
  /\ \/ readSignal /\ readSignal' = FALSE
     \/ done /\ UNCHANGED readSignal
  /\ UNCHANGED <<pipeVars, writeSignal, done, writer, taken>>
-----------------------------------------------------------------------------
ClosePipe ==
  /\ PipeClose
  /\ done' = TRUE
  /\ UNCHANGED <<readSignal, writeSignal, writer, reader, taken>>

\* As if Interrupt left the waiters alone.
InterruptQuiet ==
  /\ PipeInterrupt
  /\ UNCHANGED <<readSignal, writeSignal, done, writer, reader, taken>>

\* done.Close, which is idempotent; a closed pipe's is closed already.
Interrupt ==
  /\ PipeInterrupt
  /\ done' = TRUE
  /\ UNCHANGED <<readSignal, writeSignal, writer, reader, taken>>

WriterStep == WriteInternal \/ WriteSignal \/ WriteWait
ReaderStep == ReadCall \/ ReadInternal \/ ReadSignal \/ ReadWait

ImplNext == WriteCall \/ WriterStep \/ ReaderStep \/ ClosePipe \/ Interrupt

ImplSpec == ImplInit /\ [][ImplNext]_implVars

\* Both goroutines go on; the reader calls again until it gets an error, as
\* the upload loop of the XHTTP client does.
ImplFairness == WF_implVars(WriterStep) /\ WF_implVars(ReaderStep)

ImplFairSpec == ImplSpec /\ ImplFairness
-----------------------------------------------------------------------------
(* Nobody sleeps through what it waits for: when the writer waits although *)
(* there is room, or the reader although there is data, the token is in    *)
(* the channel or the other side is about to put it there, and a pipe that *)
(* is no longer open has closed done.  The check under the lock and the    *)
(* select after it are two steps, and a Signal is dropped when the channel *)
(* is full.                                                                *)
NoLostSignal ==
  /\ writer = "wait" /\ ~isFull(Bytes[data]) => writeSignal \/ reader = "signal" \/ done
  /\ reader = "wait" /\ data # <<>> => readSignal \/ writer = "signal" \/ done
  /\ state # "open" => done

(* A Write returns, if need be after the reader has made room.             *)
WriteReturns == writer # "out" ~> writer \in {"out", "failed"}

(* The inductive invariant behind NoLostSignal.                            *)
PipeInv == ImplTypeOK /\ NoLostSignal
=============================================================================
