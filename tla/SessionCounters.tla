---------------------------- MODULE SessionCounters ----------------------------
(***************************************************************************)
(* The counters of a session: scheduledWriteBytes, which the writers raise *)
(* and the processor lowers, with scheduledWriteMessages, and the times    *)
(* and counts of idleness, with the write timeout.  A message is a buffer  *)
(* or a region of a file; what a codec writes is buffers, the last empty.  *)
(***************************************************************************)
EXTENDS Integers, Sequences, FiniteSets, FiniteSetsExt, SequencesExt

CONSTANTS
  Writers,      \* threads that write
  BothIdleTime, ReaderIdleTime, WriterIdleTime, \* idle times, 0: never
  WriteTimeout, \* 0: never
  MaxSize, MaxWrites, MaxTime \* bounds

ASSUME CountersAssumption ==
  {BothIdleTime, ReaderIdleTime, WriterIdleTime, WriteTimeout, MaxSize, MaxWrites, MaxTime} \subseteq Nat

VARIABLES
  clock, checked,     \* the time, and that of the last idle check
  message,            \* of each request: a buffer or a file, its size, and what is left
  counted,            \* the request a writer has counted and not yet offered
  requests, current,  \* the write request queue and the current request, 0: none
  scheduledWriteBytes, scheduledWriteMessages,
  lastTime,           \* lastReadTime, lastWriteTime
  idle,               \* of each status the count and the last idle time
  phase,              \* "open", "closing", "removed" or "closed"
  drift,              \* by how much the counters have left the truth
  progress            \* when bytes were last read and written

scheduleVars == <<scheduledWriteBytes, scheduledWriteMessages>>
requestVars == <<message, counted, requests, current, scheduleVars, drift>>
idleVars == <<checked, lastTime, idle, progress>>
counterVars == <<clock, phase, requestVars, idleVars>>

Statuses == {"both", "read", "write"}
IdleTime(s) == CASE s = "both" -> BothIdleTime [] s = "read" -> ReaderIdleTime [] s = "write" -> WriterIdleTime
Later(a, b) == IF a > b THEN a ELSE b
TimeOf(t, s) == IF s = "both" THEN Later(t["read"], t["write"]) ELSE t[s]

CountersInit ==
  /\ clock = 1 /\ checked = 1
  /\ message = <<>> /\ counted = [w \in Writers |-> 0] /\ requests = <<>> /\ current = 0
  /\ scheduledWriteBytes = 0 /\ scheduledWriteMessages = 0
  /\ lastTime = [k \in {"read", "write"} |-> 1] /\ progress = lastTime
  /\ idle = [s \in Statuses |-> [count |-> 0, last |-> 0]]
  /\ phase = "open" /\ drift = [bytes |-> 0, messages |-> 0]

IsFile(r) == message[r].kind = "file"
BytesOf(r) == IF IsFile(r) THEN 0 ELSE message[r].left

(* Requests are dropped and stay counted.                                  *)
Dropped(rs) ==
  drift' = [bytes |-> drift.bytes + FoldSet(LAMBDA r, n : n + BytesOf(r), 0, rs),
            messages |-> drift.messages + Cardinality({r \in rs : IsFile(r)})]

----------------------------------------------------------------------------
IncreaseScheduledWriteBytes(n) == scheduledWriteBytes' = scheduledWriteBytes + n
IncreaseScheduledWriteMessages == scheduledWriteMessages' = scheduledWriteMessages + 1

NewMessage(w) ==
  /\ phase = "open" /\ counted[w] = 0 /\ Len(message) < MaxWrites
  /\ \E kind \in {"buffer", "file"}, size \in 0..MaxSize :
       message' = Append(message, [kind |-> kind, size |-> size, left |-> size])
  /\ counted' = [counted EXCEPT ![w] = Len(message')]
  /\ UNCHANGED <<clock, requests, current, phase, drift, idleVars>>

(* Fault: what a writer writes is not counted. *)
CountNothing(w) == NewMessage(w) /\ UNCHANGED scheduleVars

(* HeadFilter::filterWrite() counts the bytes of a buffer, and a file as a *)
(* message, and then offers the request.                                   *)
CountWrite(w) ==
  /\ NewMessage(w)
  /\ LET new == Last(message')
     IN  IF new.kind = "buffer"
         THEN IncreaseScheduledWriteBytes(new.size) /\ UNCHANGED scheduledWriteMessages
         ELSE IncreaseScheduledWriteMessages /\ UNCHANGED scheduledWriteBytes

OfferWrite(w) ==
  /\ counted[w] # 0
  /\ requests' = Append(requests, counted[w]) /\ counted' = [counted EXCEPT ![w] = 0]
  /\ UNCHANGED <<clock, phase, message, current, scheduleVars, drift, idleVars>>

(* flushNow() *)
TakeRequest ==
  /\ phase \in {"open", "closing"} /\ current = 0 /\ requests # <<>>
  /\ current' = Head(requests) /\ requests' = Tail(requests)
  /\ UNCHANGED <<clock, phase, message, counted, scheduleVars, drift, idleVars>>

NotIdle(s) == [idle EXCEPT !["both"].count = 0, ![s].count = 0]

(* increaseWrittenMessages(), when the current request has been sent: a    *)
(* buffer that holds something again, since it was reset, is no message.   *)
CountSent ==
  LET emptied == ~IsFile(current) /\ message[current].size = 0
  IN  /\ scheduledWriteMessages' = scheduledWriteMessages - (IF IsFile(current) \/ emptied THEN 1 ELSE 0)
      /\ drift' = [drift EXCEPT !.messages = @ - (IF emptied THEN 1 ELSE 0), !.bytes = @ - (message[current].left - BytesOf(current))]
      /\ current' = 0

(* increaseWrittenBytes() *)
CountSentBytes(n) ==
  /\ message' = [message EXCEPT ![current].left = @ - n]
  /\ IncreaseScheduledWriteBytes(-n)
  /\ lastTime' = [lastTime EXCEPT !["write"] = clock] /\ progress' = [progress EXCEPT !["write"] = clock]
  /\ idle' = NotIdle("write")
  /\ UNCHANGED <<clock, phase, checked, counted, requests>>

(* writeBuffer(), when bytes went out. *)
WriteBytes ==
  /\ phase \in {"open", "closing"} /\ current # 0 /\ ~IsFile(current)
  /\ \E n \in 1..message[current].left :
       /\ CountSentBytes(n)
       /\ IF n = message[current].left THEN CountSent ELSE UNCHANGED <<current, scheduledWriteMessages, drift>>

(* writeFile() lowers scheduledWriteBytes as well. *)
WriteRegion ==
  /\ phase \in {"open", "closing"} /\ current # 0 /\ IsFile(current)
  /\ \E n \in 1..message[current].left :
       /\ CountSentBytes(n)
       /\ IF n = message[current].left
          THEN CountSent
          ELSE drift' = [drift EXCEPT !.bytes = @ - n] /\ UNCHANGED <<current, scheduledWriteMessages>>

SendEmpty ==
  /\ phase \in {"open", "closing"} /\ current # 0 /\ message[current].left = 0
  /\ CountSent
  /\ lastTime' = [lastTime EXCEPT !["write"] = clock]
  /\ UNCHANGED <<clock, phase, message, counted, requests, scheduledWriteBytes, checked, idle, progress>>

(* increaseReadBytes() *)
ReadBytes ==
  /\ phase \in {"open", "closing"}
  /\ lastTime' = [lastTime EXCEPT !["read"] = clock] /\ progress' = [progress EXCEPT !["read"] = clock]
  /\ idle' = NotIdle("read")
  /\ UNCHANGED <<clock, phase, requestVars, checked>>

(* increaseReadMessages(), when a decoded message comes to the end of the  *)
(* chain, which may be in another thread and later.                        *)
ReadMessage ==
  /\ phase \in {"open", "closing"} /\ progress["read"] > 1
  /\ lastTime' = [lastTime EXCEPT !["read"] = clock]
  /\ idle' = NotIdle("read")
  /\ UNCHANGED <<clock, phase, requestVars, checked, progress>>

----------------------------------------------------------------------------
(* notifyIdleness() passes over sessions whose closeFuture is set. *)
IsNotified == phase \in {"open", "closing"}

(* notifyIdleSession0() *)
FiresIdle(s) ==
  LET since == Later(TimeOf(lastTime, s), idle[s].last)
  IN  IdleTime(s) > 0 /\ since # 0 /\ clock - since >= IdleTime(s)

(* notifyWriteTimeout(): only a request behind which others are queued.    *)
WriteTimedOut ==
  WriteTimeout > 0 /\ clock - lastTime["write"] >= WriteTimeout /\ requests # <<>> /\ current # 0

(* closeNow(): the first one drains the queue, telling the futures that    *)
(* what was queued is written, and takes nothing off the counters.         *)
Drained == IF phase = "open" THEN ToSet(requests) ELSE {}

CloseNow ==
  /\ phase' = "closing"
  /\ requests' = IF phase = "open" THEN <<>> ELSE requests

(* notifyIdleSessions() of the processor, for this session.  A request     *)
(* that timed out is dropped and the session is closed.                    *)
NotifyIdle ==
  /\ IsNotified /\ clock > checked /\ checked' = clock
  /\ idle' = [s \in Statuses |-> IF FiresIdle(s) THEN [count |-> idle[s].count + 1, last |-> clock] ELSE idle[s]]
  /\ IF WriteTimedOut
     THEN Dropped({current} \cup Drained) /\ current' = 0 /\ CloseNow
     ELSE UNCHANGED <<current, drift, phase, requests>>
  /\ UNCHANGED <<clock, message, counted, scheduleVars, lastTime, progress>>

CloseSession ==
  /\ phase = "open" /\ CloseNow /\ Dropped(Drained)
  /\ UNCHANGED <<clock, message, counted, current, scheduleVars, idleVars>>

(* decreaseScheduledBytesAndMessages(): the bytes that are left, or one    *)
(* message when there are none.                                            *)
EmptyOnes(rs) == Cardinality({r \in rs : ~IsFile(r) /\ message[r].left = 0})
DecreaseScheduled(rs) ==
  /\ scheduledWriteBytes' = scheduledWriteBytes - FoldSet(LAMBDA r, n : n + BytesOf(r), 0, rs)
  /\ scheduledWriteMessages' = scheduledWriteMessages - Cardinality({r \in rs : IsFile(r)}) - EmptyOnes(rs)
  /\ drift' = [drift EXCEPT !.messages = @ - EmptyOnes(rs)]

(* clearWriteRequestQueue() of removeNow(): what is queued fails; the      *)
(* current request is forgotten.                                           *)
ClearQueue ==
  /\ phase = "closing" /\ phase' = "removed"
  /\ DecreaseScheduled(ToSet(requests))
  /\ requests' = <<>>
  /\ UNCHANGED <<clock, message, counted, current, idleVars>>

(* Fault: closing leaves the counters as they are. *)
ResetNothing == phase = "removed" /\ phase' = "closed" /\ UNCHANGED <<clock, requestVars, idleVars>>

(* The first listener of the closeFuture. *)
ResetScheduled ==
  /\ phase = "removed" /\ phase' = "closed"
  /\ scheduledWriteBytes' = 0 /\ scheduledWriteMessages' = 0
  /\ UNCHANGED <<clock, message, counted, requests, current, drift, idleVars>>

Tick == IsNotified /\ clock < MaxTime /\ clock' = clock + 1 /\ UNCHANGED <<phase, requestVars, idleVars>>

CountersNext ==
  \/ \E w \in Writers : CountWrite(w) \/ OfferWrite(w)
  \/ TakeRequest \/ WriteBytes \/ WriteRegion \/ SendEmpty \/ ReadBytes \/ ReadMessage
  \/ NotifyIdle \/ CloseSession \/ ClearQueue \/ ResetScheduled \/ Tick

CountersSpec == CountersInit /\ [][CountersNext]_counterVars

----------------------------------------------------------------------------
Outstanding == (ToSet(requests) \cup {current} \cup {counted[w] : w \in Writers}) \ {0}

(* scheduledWriteBytes is what the buffers on their way still hold, and    *)
(* scheduledWriteMessages the number of files among the messages, up to    *)
(* `drift': a request that timed out and what closeNow() drains stay       *)
(* counted, bytes of files and empty buffers are taken off and never put   *)
(* on.  At the close of the session both are zero.  And a status is never  *)
(* reported idle more often than its idle time has passed since bytes were *)
(* last moved.                                                             *)
CountersTruthful ==
  /\ IF phase = "closed"
     THEN scheduledWriteBytes = 0 /\ scheduledWriteMessages = 0
     ELSE /\ scheduledWriteBytes = drift.bytes + FoldSet(LAMBDA r, n : n + BytesOf(r), 0, Outstanding)
          /\ scheduledWriteMessages = drift.messages + Cardinality({r \in Outstanding : IsFile(r)})
  /\ \A s \in Statuses : idle[s].count * IdleTime(s) <= clock - TimeOf(progress, s)
===============================================================================
