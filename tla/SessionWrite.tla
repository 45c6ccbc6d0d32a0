----------------------------- MODULE SessionWrite ------------------------------
(***************************************************************************)
(* Writing to one session: application threads offer write requests        *)
(* (EAbstractIoSession::write, HeadFilter::filterWrite), suspend and       *)
(* resume writing and close the session, while the processor thread polls  *)
(* flushingSessions, writes to the socket, partially if the kernel buffer  *)
(* is nearly full, and completes the write futures.  The session is        *)
(* registered throughout (PollingIoProcessor models how it gets there).    *)
(*                                                                         *)
(* A message is Size units long.  The kernel takes a unit while it has     *)
(* room.  The budget maxWrittenBytes of flushNow() is the choice, after    *)
(* each message, between writing on and rescheduling.                      *)
(***************************************************************************)
EXTENDS Integers, Sequences

CONSTANTS
  Msg,          \* the messages, each written once by a thread of its own
  CloseRequest, \* CLOSE_REQUEST, in the queue between the messages
  NoMsg,        \* the null of currentWriteRequest
  Size,         \* units per message
  Capacity,     \* units the kernel's send buffer holds
  Unencoded,    \* messages that are neither buffer nor file region
  Regions,      \* file regions, whose transfer may throw
  Altered,      \* buffers whose mark is unset, or which change as they are sent
  ClosesNow, ClosesOnFlush, \* TRUE iff a client calls closeNow(), closeOnFlush()
  Breaks,       \* TRUE iff the connection may break
  TimesOut,     \* TRUE iff a write may time out
  Toggles,      \* "write": clients suspend and resume writing, "read": reading
  MaxToggles    \* bound on the calls that suspend or resume

\* The messages at which flushNow() may throw.
Odd == Unencoded \cup Regions \cup Altered

ASSUME WriteAssumption ==
  /\ CloseRequest \notin Msg /\ NoMsg \notin Msg /\ NoMsg # CloseRequest
  /\ Size \in Nat \ {0} /\ Capacity \in Nat \ {0}
  /\ Unencoded \subseteq Msg /\ Regions \subseteq Msg \ Unencoded /\ Altered \subseteq Msg \ (Unencoded \cup Regions)
  /\ {ClosesNow, ClosesOnFlush, Breaks, TimesOut} \subseteq BOOLEAN
  /\ Toggles \subseteq {"read", "write"}
  /\ MaxToggles \in Nat

VARIABLES
  queue,      \* the session's write request queue
  current,    \* currentWriteRequest
  left,       \* units of each message not yet written
  future,     \* the write future of each message
  caught,     \* history: the messages at which flushNow() caught an exception
  offered,    \* history: all that entered the queue, in order
  wire,       \* history: the message of each unit written, in order
  room,       \* free units of the kernel's send buffer
  scheduled,  \* scheduledForFlush_
  flushing,   \* how often the session is in flushingSessions
  opWrite,    \* OP_WRITE is in the key's interest set
  suspended, closing,
  removing,   \* how often the session is in removingSessions
  destroyed,  \* the session is destroyed and its closeFuture set
  abrupt,     \* history: closeNow() by a client, an error or a timeout
  writer,     \* where the write(m) of each message stands
  toggler, toggles, wanted, \* the thread that suspends and resumes, and its result
  closer, flusher,          \* the threads in closeNow() and closeOnFlush()
  proc        \* where the processor thread stands

dataVars == <<queue, current, left, future, caught, offered, wire, room>>
flushVars == <<scheduled, flushing, opWrite>>
closeVars == <<closing, removing, destroyed, abrupt>>
toggleVars == <<suspended, toggler, toggles, wanted>>
clientVars == <<writer, closer, flusher, toggleVars>>
vars == <<dataVars, flushVars, closeVars, clientVars, proc>>

IsClosing == closing \/ destroyed

-----------------------------------------------------------------------------
(* Building blocks *)

\* setValue() of a future that is set already does nothing.
Complete(f, S, value) ==
  [m \in Msg |-> IF m \in S /\ f[m] = "pending" THEN value ELSE f[m]]

MsgsIn(seq) == {seq[i] : i \in DOMAIN seq} \cap Msg

\* removeNow() of a session whose queue is q: clearWriteRequestQueue() polls
\* until poll() answers null, which it does at a CLOSE_REQUEST too (there is at
\* most one), and is called twice.  If the session is not closing yet, poll()
\* runs closeNow() at the CLOSE_REQUEST, which marks what is behind as written.
HasClose(q) == \E i \in DOMAIN q : q[i] = CloseRequest
Behind(q) == {q[j] : j \in {k \in DOMAIN q : \E i \in 1..k : q[i] = CloseRequest}} \cap Msg
RemoveNow(q, f) ==
  /\ queue' = <<>>
  /\ future' = LET discarded == IF IsClosing THEN {} ELSE Behind(q)
               IN  Complete(Complete(f, discarded, "written"), MsgsIn(q), "failed")
  /\ destroyed' = TRUE

\* closeNow(), if the session is not closing: the queue is drained, and the
\* futures of what was in it are set as written.
Drained(f) == Complete(f, MsgsIn(queue), "written")

\* An attempt to schedule the session for flushing: compareAndSet on the flag;
\* whoever wins adds the session to flushingSessions and wakes the selector.
ScheduleFlush ==
  \/ scheduled /\ UNCHANGED <<scheduled, flushing>>
  \/ ~scheduled /\ scheduled' = TRUE /\ flushing' = flushing + 1

-----------------------------------------------------------------------------
(* write(m) *)

WriterPc == {"new", "checked", "offerOnly", "offer", "lookAgain", "flush", "enqueue", "done"}
WriterStep(m, from, to) ==
  /\ writer[m] = from
  /\ writer' = [writer EXCEPT ![m] = to]

\* A write to a closing session fails at once.
BeginWrite(m) ==
  /\ WriterStep(m, "new", IF IsClosing THEN "done" ELSE "checked")
  /\ future' = [future EXCEPT ![m] = IF IsClosing THEN "failed" ELSE "pending"]
  /\ UNCHANGED <<queue, current, left, caught, offered, wire, room, flushVars, closeVars, closer, flusher, toggleVars, proc>>

\* HeadFilter::filterWrite() looks at the suspension, ...
LookSuspended(m) ==
  /\ WriterStep(m, "checked", IF suspended THEN "offerOnly" ELSE "offer")
  /\ UNCHANGED <<dataVars, flushVars, closeVars, closer, flusher, toggleVars, proc>>

\* ... and offers the request, through processor->write() if the queue is
\* empty: that looks at the suspension again before it flushes.
Offer(m) ==
  /\ \/ WriterStep(m, "offerOnly", "done")
     \/ WriterStep(m, "offer", IF queue = <<>> THEN "lookAgain" ELSE "flush")
  /\ queue' = Append(queue, m)
  /\ offered' = Append(offered, m)
  /\ UNCHANGED <<current, left, future, caught, wire, room, flushVars, closeVars, closer, flusher, toggleVars, proc>>

LookAgain(m) ==
  /\ WriterStep(m, "lookAgain", IF suspended THEN "done" ELSE "flush")
  /\ UNCHANGED <<dataVars, flushVars, closeVars, closer, flusher, toggleVars, proc>>

\* Fault: the flag is set without looking at its old value.
FlagBySet(m) ==
  /\ WriterStep(m, "flush", "enqueue")
  /\ scheduled' = TRUE
  /\ UNCHANGED <<dataVars, flushing, opWrite, closeVars, closer, flusher, toggleVars, proc>>

\* flush(session): compareAndSet on the flag, ...
Flag(m) ==
  /\ WriterStep(m, "flush", IF scheduled THEN "done" ELSE "enqueue")
  /\ scheduled' = TRUE
  /\ UNCHANGED <<dataVars, flushing, opWrite, closeVars, closer, flusher, toggleVars, proc>>

\* ... and the winner adds the session to flushingSessions.
Enqueue(m) ==
  /\ WriterStep(m, "enqueue", "done")
  /\ flushing' = flushing + 1
  /\ UNCHANGED <<dataVars, scheduled, opWrite, closeVars, closer, flusher, toggleVars, proc>>

-----------------------------------------------------------------------------
(* suspendWrite(), resumeWrite(), suspendRead() and resumeRead() *)

Toggle ==
  /\ toggler = "idle" /\ toggles < MaxToggles
  /\ toggles' = toggles + 1
  /\ \/ "write" \in Toggles /\ suspended' = ~suspended
     \/ "read" \in Toggles /\ UNCHANGED suspended
  /\ toggler' = IF IsClosing THEN "idle" ELSE "compute"
  /\ UNCHANGED <<dataVars, flushVars, closeVars, writer, closer, flusher, wanted, proc>>

\* updateTrafficControl(): what the interest in OP_WRITE is to be, ...
Compute ==
  /\ toggler = "compute" /\ toggler' = "apply"
  /\ wanted' = (queue # <<>> /\ ~suspended)
  /\ UNCHANGED <<dataVars, flushVars, closeVars, writer, closer, flusher, suspended, toggles, proc>>

\* ... and setInterestedInWrite().
Apply ==
  /\ toggler = "apply" /\ toggler' = "idle"
  /\ opWrite' = IF destroyed THEN opWrite ELSE wanted
  /\ UNCHANGED <<dataVars, scheduled, flushing, closeVars, writer, closer, flusher, suspended, toggles, wanted, proc>>

-----------------------------------------------------------------------------
(* Closing by a client *)

\* closeNow(): under the session's lock the flag is set and the queue drained; ...
CloseNow ==
  /\ ClosesNow /\ closer = "new"
  /\ \/ IsClosing /\ closer' = "done" /\ UNCHANGED <<closing, queue, future>>
     \/ /\ ~IsClosing
        /\ closer' = "remove"
        /\ closing' = TRUE
        /\ queue' = <<>>
        /\ future' = Drained(future)
  /\ abrupt' = TRUE
  /\ UNCHANGED <<current, left, caught, offered, wire, room, flushVars, removing, destroyed, writer, flusher, toggleVars, proc>>

\* ... outside of it processor->remove() is called.
CloseNowRemove ==
  /\ closer = "remove" /\ closer' = "done"
  /\ removing' = IF destroyed THEN removing ELSE removing + 1
  /\ UNCHANGED <<dataVars, flushVars, closing, destroyed, writer, flusher, toggleVars, proc, abrupt>>

\* closeOnFlush(): a CLOSE_REQUEST is queued behind the messages, and flushed.
CloseOnFlush ==
  /\ ClosesOnFlush /\ flusher = "new"
  /\ flusher' = IF IsClosing THEN "done" ELSE "offer"
  /\ UNCHANGED <<dataVars, flushVars, closeVars, writer, closer, toggleVars, proc>>

CloseOnFlushOffer ==
  /\ flusher = "offer" /\ flusher' = "flush"
  /\ queue' = Append(queue, CloseRequest)
  /\ offered' = Append(offered, CloseRequest)
  /\ UNCHANGED <<current, left, future, caught, wire, room, flushVars, closeVars, writer, closer, toggleVars, proc>>

CloseOnFlushFlag ==
  /\ flusher = "flush" /\ flusher' = IF scheduled THEN "done" ELSE "enqueue"
  /\ scheduled' = TRUE
  /\ UNCHANGED <<dataVars, flushing, opWrite, closeVars, writer, closer, toggleVars, proc>>

CloseOnFlushEnqueue ==
  /\ flusher = "enqueue" /\ flusher' = "done"
  /\ flushing' = flushing + 1
  /\ UNCHANGED <<dataVars, scheduled, opWrite, closeVars, writer, closer, toggleVars, proc>>

-----------------------------------------------------------------------------
(* The processor thread *)

ProcStep(from, to) == proc = from /\ proc' = to

\* process(): a selected, writable session is scheduled unless suspended.
Process ==
  /\ ProcStep("process", "flush")
  /\ LET writable == opWrite /\ room > 0 /\ ~suspended /\ ~destroyed
     IN  \/ writable /\ ScheduleFlush
         \/ ~writable /\ UNCHANGED <<scheduled, flushing>>
  /\ UNCHANGED <<dataVars, opWrite, closeVars, clientVars>>

\* read() fails: the session is removed without ever having been closing.
\* (The bound: no more than one removal at a time is scheduled this way.)
ReadFails ==
  /\ Breaks /\ proc = "process" /\ ~destroyed /\ removing = 0
  /\ removing' = removing + 1
  /\ abrupt' = TRUE
  /\ UNCHANGED <<dataVars, flushVars, closing, destroyed, clientVars, proc>>

\* flush(): poll flushingSessions, ...
PollFlushing ==
  /\ flushing > 0
  /\ ProcStep("flush", "unschedule")
  /\ flushing' = flushing - 1
  /\ UNCHANGED <<dataVars, scheduled, opWrite, closeVars, clientVars>>

FlushingEmpty ==
  /\ flushing = 0
  /\ ProcStep("flush", "idle")
  /\ UNCHANGED <<dataVars, flushVars, closeVars, clientVars>>

\* Fault: the flag stays set.
UnscheduleForgotten ==
  /\ ProcStep("unschedule", IF destroyed THEN "flush" ELSE "write")
  /\ opWrite' = (opWrite /\ destroyed)
  /\ UNCHANGED <<dataVars, scheduled, flushing, closeVars, clientVars>>

\* ... clear the flag, skip a destroyed session, else enter flushNow(), which
\* clears OP_WRITE.
Unschedule ==
  /\ ProcStep("unschedule", IF destroyed THEN "flush" ELSE "write")
  /\ scheduled' = FALSE
  /\ opWrite' = (opWrite /\ destroyed)
  /\ UNCHANGED <<dataVars, flushing, closeVars, clientVars>>

\* The loop of flushNow(): nothing to write, ...
NothingToWrite ==
  /\ current = NoMsg /\ queue = <<>>
  /\ ProcStep("write", "after")
  /\ UNCHANGED <<dataVars, flushVars, closeVars, clientVars>>

\* Fault: the queue is polled though a request has been written in part, ...
PollCloseEarly ==
  /\ queue # <<>> /\ Head(queue) = CloseRequest
  /\ ProcStep("write", "after")
  /\ queue' = <<>> /\ future' = Drained(future)
  /\ closing' = TRUE /\ removing' = removing + 1
  /\ UNCHANGED <<current, left, caught, offered, wire, room, flushVars, destroyed, clientVars, abrupt>>

\* ... or closing does not reach the processor, ...
PollCloseUnremoved ==
  /\ current = NoMsg /\ queue # <<>> /\ Head(queue) = CloseRequest
  /\ ProcStep("write", "after")
  /\ queue' = <<>> /\ future' = Drained(future) /\ closing' = TRUE
  /\ UNCHANGED <<current, left, caught, offered, wire, room, flushVars, removing, destroyed, clientVars, abrupt>>

\* ... or the next request replaces one that has been written in part.
PollRequestAlways ==
  /\ proc = "write" /\ queue # <<>> /\ Head(queue) # CloseRequest
  /\ current' = Head(queue)
  /\ queue' = Tail(queue)
  /\ UNCHANGED <<left, future, caught, offered, wire, room, flushVars, closeVars, clientVars, proc>>

\* ... a CLOSE_REQUEST, at which poll() calls closeNow() and answers null, ...
PollClose ==
  /\ current = NoMsg /\ queue # <<>> /\ Head(queue) = CloseRequest
  /\ ProcStep("write", "after")
  /\ \/ IsClosing /\ queue' = Tail(queue) /\ UNCHANGED <<future, closing, removing>>
     \/ /\ ~IsClosing
        /\ queue' = <<>>
        /\ future' = Drained(future)
        /\ closing' = TRUE
        /\ removing' = removing + 1
  /\ UNCHANGED <<current, left, caught, offered, wire, room, flushVars, destroyed, clientVars, abrupt>>

\* ... or a request, which becomes the current one.
PollRequest ==
  /\ proc = "write" /\ current = NoMsg /\ queue # <<>> /\ Head(queue) # CloseRequest
  /\ current' = Head(queue)
  /\ queue' = Tail(queue)
  /\ UNCHANGED <<left, future, caught, offered, wire, room, flushVars, closeVars, clientVars, proc>>

\* n units of the current request go to the socket.
Write(n) ==
  /\ left' = [left EXCEPT ![current] = @ - n]
  /\ room' = room - n
  /\ wire' = wire \o [i \in 1..n |-> current]

\* Fault: nobody is told to go on with a message written in part, ...
WritePartUninterested ==
  /\ current \in Msg \ Unencoded
  /\ ProcStep("write", "flush")
  /\ \E n \in 0..room : n < left[current] /\ (n = 0 => room = 0) /\ Write(n)
  /\ UNCHANGED <<queue, current, future, caught, offered, flushVars, closeVars, clientVars>>

\* ... or messageSent is left to a next flush that may fail.
WriteAllUnsent ==
  /\ current \in Msg \ Unencoded /\ left[current] <= room
  /\ Write(left[current])
  /\ \/ /\ proc = "write" /\ current' = NoMsg
        /\ future' = Complete(future, {current}, "written")
        /\ UNCHANGED <<proc, scheduled, flushing>>
     \/ ProcStep("write", "flush") /\ ScheduleFlush /\ UNCHANGED <<current, future>>
  /\ UNCHANGED <<queue, caught, offered, opWrite, closeVars, clientVars>>

\* Kernel buffer full, or message written in part (all there is room for, or
\* what is left of the budget): wait for OP_WRITE.
WritePart ==
  /\ current \in Msg \ Unencoded
  /\ ProcStep("write", "flush")
  /\ \E n \in 0..room : n < left[current] /\ (n = 0 => room = 0) /\ Write(n)
  /\ opWrite' = TRUE
  /\ UNCHANGED <<queue, current, future, caught, offered, scheduled, flushing, closeVars, clientVars>>

\* Message written: the request is no longer the current one, messageSent is
\* fired.  Unless the budget is used up (the session is scheduled again) the
\* loop goes on.
WriteAll ==
  /\ current \in Msg \ Unencoded /\ left[current] \in 1..room
  /\ Write(left[current])
  /\ current' = NoMsg
  /\ future' = Complete(future, {current}, "written")
  /\ \/ proc = "write" /\ UNCHANGED <<proc, scheduled, flushing>>
     \/ ProcStep("write", "flush") /\ ScheduleFlush
  /\ UNCHANGED <<queue, caught, offered, opWrite, closeVars, clientVars>>

\* flushNow() catches what a message of unknown type, transferFile(), or reset()
\* of a buffer that has been sent, throws: the future fails, the request remains
\* the current one, and nobody is told to go on.
WriteThrows ==
  /\ ProcStep("write", "flush")
  /\ \/ current \in Unencoded \cup Regions /\ UNCHANGED <<left, wire, room>>
     \/ current \in Altered /\ left[current] <= room /\ Write(left[current])
  /\ future' = Complete(future, {current}, "failed")
  /\ caught' = caught \cup {current}
  /\ UNCHANGED <<queue, current, offered, flushVars, closeVars, clientVars>>

\* position() throws after messageSent has been fired: the loop ends.
SentThrows ==
  /\ current \in Altered /\ left[current] <= room
  /\ ProcStep("write", "flush")
  /\ Write(left[current])
  /\ current' = NoMsg
  /\ future' = Complete(future, {current}, "written")
  /\ UNCHANGED <<queue, caught, offered, flushVars, closeVars, clientVars>>

\* A later flush takes off what has been sent before reset() threw, and waits
\* for OP_WRITE, having written nothing.
TakeOffSent ==
  /\ current \in Altered /\ left[current] = 0
  /\ ProcStep("write", "flush")
  /\ current' = NoMsg
  /\ future' = Complete(future, {current}, "written")
  /\ opWrite' = TRUE
  /\ UNCHANGED <<queue, left, caught, offered, wire, room, scheduled, flushing, closeVars, clientVars>>

\* write() fails to write a buffer: closeNow(), unless the session is closing already, and
\* removeNow(), whatever else schedules a removal.
WriteFails ==
  /\ Breaks /\ current \in Msg \ (Unencoded \cup Regions) /\ left[current] > 0
  /\ ProcStep("write", "flush")
  /\ \/ IsClosing /\ RemoveNow(queue, future) /\ UNCHANGED <<closing, removing>>
     \/ /\ ~IsClosing
        /\ closing' = TRUE
        /\ removing' = removing + 1
        /\ queue' = <<>>
        /\ future' = Drained(future)
        /\ destroyed' = TRUE
  /\ abrupt' = TRUE
  /\ UNCHANGED <<current, left, caught, offered, wire, room, flushVars, clientVars>>

\* flushNow() has flushed all: reschedule if a request came meanwhile and
\* nobody has scheduled the session.
AfterFlush ==
  /\ ProcStep("after", "flush")
  /\ \/ queue # <<>> /\ ScheduleFlush
     \/ queue = <<>> /\ UNCHANGED <<scheduled, flushing>>
  /\ UNCHANGED <<dataVars, opWrite, closeVars, clientVars>>

\* notifyWriteTimeout(): only if requests are waiting behind the current one.
WriteTimeout ==
  /\ TimesOut /\ ~destroyed /\ current # NoMsg /\ queue # <<>>
  /\ ProcStep("idle", "remove")
  /\ current' = NoMsg
  /\ LET failed == Complete(future, {current}, "failed")
     IN  \/ closing /\ future' = failed /\ UNCHANGED <<queue, closing, removing>>
         \/ /\ ~closing
            /\ future' = Drained(failed)
            /\ queue' = <<>>
            /\ closing' = TRUE
            /\ removing' = removing + 1
  /\ abrupt' = TRUE
  /\ UNCHANGED <<left, caught, offered, wire, room, flushVars, destroyed, clientVars>>

NoTimeout ==
  /\ ProcStep("idle", "remove")
  /\ UNCHANGED <<dataVars, flushVars, closeVars, clientVars>>

\* removeSessions(): a session that is destroyed already is skipped, another
\* one removed, which closes it if there is a CLOSE_REQUEST in its queue.
RemoveSession ==
  /\ proc = "remove" /\ removing > 0
  /\ \/ destroyed /\ removing' = removing - 1 /\ UNCHANGED <<queue, future, closing, destroyed>>
     \/ LET closes == ~closing /\ HasClose(queue)
        IN  /\ ~destroyed
            /\ closing' = (closing \/ closes)
            /\ removing' = IF closes THEN removing ELSE removing - 1
            /\ RemoveNow(queue, future)
  /\ UNCHANGED <<current, left, caught, offered, wire, room, flushVars, clientVars, proc, abrupt>>

RemoveEmpty ==
  /\ removing = 0
  /\ ProcStep("remove", "process")
  /\ UNCHANGED <<dataVars, flushVars, closeVars, clientVars>>

\* The network takes a unit out of the kernel's buffer (external).
Drain ==
  /\ room < Capacity
  /\ room' = room + 1
  /\ UNCHANGED <<queue, current, left, future, caught, offered, wire, flushVars, closeVars, clientVars, proc>>

-----------------------------------------------------------------------------
Init ==
  /\ queue = <<>> /\ current = NoMsg
  /\ left = [m \in Msg |-> Size]
  /\ future = [m \in Msg |-> "none"] /\ caught = {}
  /\ offered = <<>> /\ wire = <<>>
  /\ room = Capacity
  /\ scheduled = FALSE /\ flushing = 0 /\ opWrite = FALSE
  /\ suspended = FALSE /\ closing = FALSE /\ removing = 0 /\ destroyed = FALSE /\ abrupt = FALSE
  /\ writer = [m \in Msg |-> "new"]
  /\ toggler = "idle" /\ toggles = 0 /\ wanted = FALSE
  /\ closer = "new" /\ flusher = "new"
  /\ proc = "process"

\* What is left of a write() that has begun.
WriterNext(m) == LookSuspended(m) \/ Offer(m) \/ LookAgain(m) \/ Flag(m) \/ Enqueue(m)
TogglerNext == Compute \/ Apply
CloserNext == CloseNowRemove \/ CloseOnFlushOffer \/ CloseOnFlushFlag \/ CloseOnFlushEnqueue
ProcNext ==
  \/ Process \/ PollFlushing \/ FlushingEmpty \/ Unschedule
  \/ NothingToWrite \/ PollClose \/ PollRequest
  \/ WritePart \/ WriteAll \/ WriteThrows \/ SentThrows \/ TakeOffSent \/ AfterFlush
  \/ NoTimeout \/ RemoveSession \/ RemoveEmpty

Next ==
  \/ \E m \in Msg : BeginWrite(m) \/ WriterNext(m)
  \/ Toggle \/ TogglerNext
  \/ CloseNow \/ CloseOnFlush \/ CloserNext
  \/ ProcNext \/ ReadFails \/ WriteFails \/ WriteTimeout
  \/ Drain

Spec == Init /\ [][Next]_vars

\* The processor thread runs, calls that have begun run to their end, and the
\* peer reads what it is sent.  Nobody has to begin a call.
Fairness ==
  /\ WF_vars(ProcNext) /\ WF_vars(Drain)
  /\ \A m \in Msg : WF_vars(WriterNext(m))
  /\ WF_vars(TogglerNext) /\ WF_vars(CloserNext)

FairSpec == Spec /\ Fairness

-----------------------------------------------------------------------------
(* Properties *)

\* Every variable stays in its range.
TypeOK ==
  /\ queue \in Seq(Msg \cup {CloseRequest})
  /\ current \in Msg \cup {NoMsg}
  /\ left \in [Msg -> 0..Size]
  /\ future \in [Msg -> {"none", "pending", "written", "failed"}]
  /\ caught \in SUBSET Msg
  /\ offered \in Seq(Msg \cup {CloseRequest})
  /\ wire \in Seq(Msg)
  /\ room \in 0..Capacity
  /\ scheduled \in BOOLEAN /\ opWrite \in BOOLEAN /\ suspended \in BOOLEAN
  /\ closing \in BOOLEAN /\ destroyed \in BOOLEAN /\ abrupt \in BOOLEAN /\ wanted \in BOOLEAN
  /\ flushing \in Nat /\ removing \in Nat
  /\ writer \in [Msg -> WriterPc]
  /\ toggler \in {"idle", "compute", "apply"} /\ toggles \in Nat
  /\ closer \in {"new", "remove", "done"}
  /\ flusher \in {"new", "offer", "flush", "enqueue", "done"}
  /\ proc \in {"process", "flush", "unschedule", "write", "after", "idle", "remove"}

\* Writers about to add the session to flushingSessions.
Enqueuing == {m \in Msg : writer[m] = "enqueue"}

\* scheduledForFlush_ and flushingSessions agree, whoever schedules: while the
\* flag is set exactly one has charge of the session (flushingSessions, one
\* thread about to add it there, or the processor that has just taken it out);
\* while it is clear, nobody.
FlushedOnce ==
  /\ flushing \in {0, 1}
  /\ \A m, n \in Enqueuing : m = n
  /\ scheduled <=> (flushing = 1 \/ Enqueuing # {} \/ flusher = "enqueue" \/ proc = "unschedule")
  /\ flushing = 1 => Enqueuing = {} /\ flusher # "enqueue" /\ proc # "unschedule"
  /\ Enqueuing # {} => flusher # "enqueue" /\ proc # "unschedule"
  /\ flusher = "enqueue" => proc # "unschedule"

\* The peer receives the messages whole and in the order they entered the
\* queue: partial writes, budgets, reschedules and exceptions neither interleave
\* nor swap them, save that a write that timed out may have been cut short.
\* Until somebody closes the session none is left out.  And a write that is
\* reported as failed is not sent, then or later, so that to write the message
\* again does not duplicate it - unless flushNow() caught an exception at it.
WireTruthful ==
  /\ \A m \in Msg : future[m] = "failed" /\ m \notin caught =>
                     left[m] > 0 /\ m # current /\ m \notin MsgsIn(queue)
  /\ ~IsClosing => \A i \in DOMAIN wire :
                     LET p == (i - 1) \div Size + 1 \* whose unit the i-th is to be
                     IN  p \in DOMAIN offered /\ wire[i] = offered[p]
  /\ \A i, j \in DOMAIN wire : i < j /\ wire[i] # wire[j] =>
       /\ left[wire[i]] = 0 \/ future[wire[i]] = "failed"
       /\ \E p, q \in DOMAIN offered : p < q /\ offered[p] = wire[i] /\ offered[q] = wire[j]

\* closeOnFlush() closes after what was queued before it is written, unless
\* closeNow(), an error or a timeout closes first.
FlushBeforeClose ==
  closing /\ ~abrupt =>
    \E i \in DOMAIN offered :
      /\ offered[i] = CloseRequest
      /\ \A j \in 1..(i - 1) : offered[j] \in Msg => left[offered[j]] = 0

\* While there is something to write, somebody is certain to flush it: no
\* interleaving of writers and flush() loses the last wakeup.
NoLostFlush ==
  (queue # <<>> \/ current # NoMsg) /\ ~destroyed
  => \/ scheduled \/ opWrite
     \/ proc \in {"write", "after"}
     \/ \E m \in Msg : writer[m] \in {"lookAgain", "flush"}
     \/ flusher = "flush"

\* Every message is written in the end, if nobody closes the session, and
\* closeOnFlush() closes in the end.
WritesComplete ==
  /\ \A m \in Msg : (future[m] = "pending") ~> (future[m] = "written" \/ flusher # "new")
  /\ (flusher # "new") ~> destroyed

\* A write future that says the message was written tells the truth.
WrittenMeansSent == \A m \in Msg : future[m] = "written" => left[m] = 0

\* Who waits for a write future does not wait for ever.
FuturesComplete == \A m \in Msg : (future[m] = "pending") ~> (future[m] # "pending")

\* Once writing is resumed for good, what was written is sent.
ResumeWrites ==
  \A m \in Msg : (future[m] = "pending") ~> (future[m] # "pending" \/ suspended)
===============================================================================
