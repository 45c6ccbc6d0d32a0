----------------------------- MODULE SessionStream -----------------------------
(***************************************************************************)
(* Blocking streams over a session: EStreamIoHandler puts what arrives     *)
(* into an EIoSessionInputStream, and users write and flush with an        *)
(* EIoSessionOutputStream.  The processor's thread closes both when the    *)
(* session is closed.                                                      *)
(***************************************************************************)
EXTENDS Integers, Sequences, FiniteSets

CONSTANTS
  StreamReaders,  \* threads that read
  StreamWriters,  \* threads that write and flush
  Processor,      \* the thread of the processor
  MaxArrivals, MaxStreamWrites \* bounds

ASSUME StreamAssumption == MaxArrivals \in Nat /\ MaxStreamWrites \in Nat /\ Processor \notin StreamWriters

VARIABLES
  \* the input stream
  arrived,       \* how many bytes were given to write()
  buf,           \* the bytes in the buffer, by their numbers
  closed, released, exception,
  reader,        \* "out" of read(), "asleep" in wait(), or "woken" from it
  got,           \* what read() returned, in order
  \* the output stream
  monitor,       \* who has it, or nobody: {}
  user,          \* where a thread is in the output stream
  written,       \* the futures of the writes
  lastWrite,     \* lastWriteFuture, 0: null
  session        \* "open", "destroyed", "closed"

inputVars == <<arrived, buf, closed, released, exception, reader, got>>
outputVars == <<monitor, user, written, lastWrite, session>>
streamVars == <<inputVars, outputVars>>

StreamInit ==
  /\ arrived = 0 /\ buf = <<>> /\ closed = FALSE /\ released = FALSE /\ exception = FALSE
  /\ reader = [r \in StreamReaders |-> "out"] /\ got = <<>>
  /\ monitor = {} /\ user = [t \in StreamWriters \cup {Processor} |-> "out"]
  /\ written = <<>> /\ lastWrite = 0 /\ session = "open"

----------------------------------------------------------------------------
(* The input stream; each call holds its monitor but while it waits.       *)

NotifyAll == reader' = [r \in StreamReaders |-> IF reader[r] = "asleep" THEN "woken" ELSE reader[r]]

(* Fault: what is unread is written over. *)
ArriveOver ==
  /\ session = "open" /\ arrived < MaxArrivals /\ ~closed
  /\ arrived' = arrived + 1 /\ buf' = <<arrived'>> /\ NotifyAll
  /\ UNCHANGED <<closed, released, exception, got, outputVars>>

(* messageReceived(): write() *)
Arrive ==
  /\ session = "open" /\ arrived < MaxArrivals /\ ~closed
  /\ arrived' = arrived + 1 /\ buf' = Append(buf, arrived')
  /\ IF buf = <<>> THEN NotifyAll ELSE UNCHANGED reader
  /\ UNCHANGED <<closed, released, exception, got, outputVars>>

(* exceptionCaught(): throwException() *)
Throw ==
  /\ session = "open" /\ ~exception /\ exception' = TRUE /\ NotifyAll
  /\ UNCHANGED <<arrived, buf, closed, released, got, outputVars>>

WouldWait == ~released /\ buf = <<>> /\ ~exception

(* read(): a stream that was released has ended, which changes nothing;    *)
(* but a call that was waiting reads what there is.                        *)
ReadWaitsForData(r) ==
  /\ reader[r] = "woken" \/ (reader[r] = "out" /\ ~released)
  /\ WouldWait
  /\ reader' = [reader EXCEPT ![r] = "asleep"]
  /\ UNCHANGED <<arrived, buf, closed, released, exception, got, outputVars>>

ReadReturns(r) ==
  /\ reader[r] = "woken" \/ (reader[r] = "out" /\ ~released)
  /\ ~WouldWait
  /\ reader' = [reader EXCEPT ![r] = "out"]
  /\ IF exception \/ (closed /\ buf = <<>>)
     THEN released' = TRUE /\ UNCHANGED <<buf, got>>
     ELSE /\ \E n \in 1..Len(buf) : got' = got \o SubSeq(buf, 1, n) /\ buf' = SubSeq(buf, n + 1, Len(buf))
          /\ UNCHANGED released
  /\ UNCHANGED <<arrived, closed, exception, outputVars>>

(* sessionClosed(): in->close(); what is unread is dropped.                *)
CloseInput ==
  /\ user[Processor] = "close input"
  /\ IF closed THEN UNCHANGED <<closed, released, reader>>
     ELSE closed' = TRUE /\ released' = TRUE /\ NotifyAll
  /\ user' = [user EXCEPT ![Processor] = "flush"]
  /\ UNCHANGED <<arrived, buf, exception, got, monitor, written, lastWrite, session>>

----------------------------------------------------------------------------
(* The output stream. *)

Goes(t, place) == user' = [user EXCEPT ![t] = place]

(* write(buf): the session is asked whether it is connected; the call      *)
(* throws if it is not.                                                    *)
BeginWrite(t) ==
  /\ user[t] = "out" /\ monitor = {} /\ Len(written) < MaxStreamWrites
  /\ session = "open"
  /\ monitor' = {t} /\ Goes(t, "write")
  /\ UNCHANGED <<inputVars, written, lastWrite, session>>

(* Then the request is queued: too late if the queue has been cleared.     *)
EndWrite(t) ==
  /\ user[t] = "write" /\ monitor' = {} /\ Goes(t, "out")
  /\ written' = Append(written, IF session = "open" THEN "pending" ELSE "late")
  /\ lastWrite' = Len(written')
  /\ UNCHANGED <<inputVars, session>>

(* The processor takes the next request for the current one, and sends it. *)
TakeWrite ==
  /\ session = "open" /\ \A i \in DOMAIN written : written[i] # "current"
  /\ \E i \in DOMAIN written :
       /\ written[i] = "pending" /\ \A j \in 1..(i - 1) : written[j] # "pending"
       /\ written' = [written EXCEPT ![i] = "current"]
  /\ UNCHANGED <<inputVars, monitor, user, lastWrite, session>>

CompleteWrite ==
  /\ session = "open"
  /\ \E i \in DOMAIN written : written[i] = "current" /\ written' = [written EXCEPT ![i] = "sent"]
  /\ UNCHANGED <<inputVars, monitor, user, lastWrite, session>>

(* flush() waits for the last write in the monitor. *)
Answered == lastWrite # 0 => written[lastWrite] \in {"sent", "failed"}

BeginFlush(t) ==
  /\ user[t] = (IF t = Processor THEN "flush" ELSE "out") /\ monitor = {}
  /\ monitor' = {t} /\ Goes(t, "await")
  /\ UNCHANGED <<inputVars, written, lastWrite, session>>

EndFlush(t) ==
  /\ user[t] = "await" /\ Answered
  /\ monitor' = {} /\ Goes(t, "out")
  /\ session' = IF t = Processor THEN "closed" ELSE session
  /\ UNCHANGED <<inputVars, written, lastWrite>>

(* The processor removes the session: it fails what is queued, though not  *)
(* the current request, and the chain leads to sessionClosed(), whose      *)
(* closeNow() is answered at once.                                         *)
SessionClosed ==
  /\ session = "open" /\ session' = "destroyed"
  /\ written' = [i \in DOMAIN written |-> IF written[i] = "pending" THEN "failed" ELSE written[i]]
  /\ Goes(Processor, "close input")
  /\ UNCHANGED <<inputVars, monitor, lastWrite>>

StreamNext ==
  \/ Arrive \/ Throw \/ CloseInput \/ TakeWrite \/ CompleteWrite \/ SessionClosed
  \/ \E r \in StreamReaders : ReadWaitsForData(r) \/ ReadReturns(r)
  \/ \E t \in StreamWriters : BeginWrite(t) \/ EndWrite(t)
  \/ \E t \in StreamWriters \cup {Processor} : BeginFlush(t) \/ EndFlush(t)

StreamSpec == StreamInit /\ [][StreamNext]_streamVars

----------------------------------------------------------------------------
(* What is read is what arrived, in its order and without a gap; no reader *)
(* is left asleep over data, an exception or the end; and the processor,   *)
(* closing the streams, waits for a write only if that was the current one *)
(* or was queued behind the removal of the session.  (Then it waits for    *)
(* ever, and all sessions of the processor with it.)                       *)
StreamSound ==
  /\ got \o buf = [i \in 1..Len(got \o buf) |-> i]
  /\ (\E r \in StreamReaders : reader[r] = "asleep") => WouldWait
  /\ session = "destroyed" /\ ~Answered => written[lastWrite] \in {"current", "late"}
===============================================================================
