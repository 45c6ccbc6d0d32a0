--------------------------- MODULE DatagramWrites ---------------------------
(***************************************************************************)
(* Writing to one session of an ENioDatagramAcceptor.  Unlike a stream     *)
(* session's Processor, the acceptor sends in the thread that writes       *)
(* (write()) when the queue looks empty, beside its own thread that        *)
(* flushes the queue (flush()).  A datagram is sent whole or, when the     *)
(* kernel has no room, not at all; send() may throw.  All sessions of a    *)
(* bound address have one SelectionKey, so one interest in OP_WRITE.       *)
(***************************************************************************)
EXTENDS Integers, Sequences, FiniteSets

CONSTANTS
  Datagrams,     \* messages, each written once
  Clients,       \* threads of the application that write
  IoThread,      \* the thread of the acceptor, which writes in its handlers
  NoDatagram,
  Budget,        \* datagrams that make up maxWrittenBytes
  MaxBlocked     \* bound: how often the kernel has no room

ASSUME DatagramAssumption ==
  /\ IsFiniteSet(Datagrams) /\ NoDatagram \notin Datagrams
  /\ IoThread \notin Clients
  /\ Budget \in Nat /\ MaxBlocked \in Nat

Writers == Clients \cup {IoThread}

VARIABLES
  step, hand,   \* each thread's place, and the message it has in hand
  unsent,       \* messages nobody has written yet
  backlog,      \* the writeRequestQueue
  current,      \* currentWriteRequest
  flagged,      \* scheduledForFlush_, with the place in flushingSessions
  writable,     \* the key's interest in OP_WRITE
  used,         \* datagrams sent by this flush()
  emptied,      \* buffers that a send() has consumed and no reset() restored
  blocked,
  muted         \* history: a throw, or somebody else's OP_WRITE, left no flush to come

queueVars == <<unsent, backlog, current>>
datagramVars == <<step, hand, queueVars, flagged, writable, used, emptied, blocked, muted>>

DatagramInit ==
  /\ step = [t \in Writers |-> "idle"] /\ hand = [t \in Writers |-> NoDatagram]
  /\ unsent = Datagrams /\ backlog = <<>> /\ current = NoDatagram
  /\ flagged = FALSE /\ writable = FALSE /\ used = 0
  /\ emptied = {} /\ blocked = 0 /\ muted = FALSE

Goes(t, label) == step' = [step EXCEPT ![t] = label]
InHand(t, m) == hand' = [hand EXCEPT ![t] = m]

(* setInterestedInWrite() and scheduleFlush(). *)
InterestOn == writable' = TRUE /\ muted' = FALSE
ScheduleFlush == flagged' = TRUE /\ muted' = FALSE

(* channel->send(): the whole datagram or nothing. *)
Sends(m) == emptied' = emptied \cup {m} /\ UNCHANGED blocked
NoRoom == blocked < MaxBlocked /\ blocked' = blocked + 1 /\ UNCHANGED emptied

(* send(), or setInterestedInWrite() before or after it, throws. *)
Throws(m) == (emptied' = emptied \/ emptied' = emptied \cup {m}) /\ UNCHANGED blocked

(* setCurrentWriteRequest(null), buf->reset() and fireMessageSent(). *)
Report(m) == current' = NoDatagram /\ emptied' = emptied \ {m} /\ UNCHANGED <<unsent, backlog, blocked>>

----------------------------------------------------------------------------
(* HeadFilter::filterWrite() looks at the queue and calls write() or       *)
(* offers the request and calls flush().                                   *)

BeginWrite(t) ==
  /\ step[t] = "idle" /\ Goes(t, IF backlog = <<>> THEN "send" ELSE "offer")
  /\ \E m \in unsent : unsent' = unsent \ {m} /\ InHand(t, m)
  /\ UNCHANGED <<backlog, current, flagged, writable, used, emptied, blocked, muted>>

Offer(t) ==
  /\ \/ step[t] = "offer" /\ Goes(t, "schedule") /\ InHand(t, NoDatagram)
     \/ step[t] = "blocked" /\ Goes(t, "schedule") /\ UNCHANGED hand
  /\ backlog' = Append(backlog, hand[t])
  /\ UNCHANGED <<unsent, current, flagged, writable, used, emptied, blocked, muted>>

(* Fault: the request that found no room is offered, but not scheduled. *)
ScheduleUnlessBlocked(t) ==
  /\ step[t] = "schedule" /\ Goes(t, IF hand[t] = NoDatagram THEN "idle" ELSE "send")
  /\ IF hand[t] = NoDatagram THEN ScheduleFlush ELSE UNCHANGED <<flagged, muted>>
  /\ UNCHANGED <<hand, queueVars, writable, used, emptied, blocked>>

(* The loop of write() goes on with the same request in hand. *)
Schedule(t) ==
  /\ step[t] = "schedule" /\ Goes(t, IF hand[t] = NoDatagram THEN "idle" ELSE "send")
  /\ ScheduleFlush
  /\ UNCHANGED <<hand, queueVars, writable, used, emptied, blocked>>

SendDirectly(t) ==
  /\ step[t] = "send" /\ hand[t] \notin emptied /\ Goes(t, "sent")
  /\ Sends(hand[t])
  /\ UNCHANGED <<hand, queueVars, flagged, writable, used, muted>>

SendBlocked(t) ==
  /\ step[t] = "send" /\ hand[t] \notin emptied /\ Goes(t, "blocked")
  /\ NoRoom /\ InterestOn
  /\ UNCHANGED <<hand, queueVars, flagged, used>>

(* write() hands its exception to the filter chain: the request is gone. *)
SendThrows(t) ==
  /\ step[t] = "send" /\ hand[t] \notin emptied /\ Goes(t, "idle")
  /\ Throws(hand[t])
  /\ InHand(t, NoDatagram)
  /\ UNCHANGED <<queueVars, flagged, writable, used, muted>>

ReportDirectly(t) ==
  /\ step[t] = "sent" /\ Goes(t, "idle") /\ InHand(t, NoDatagram)
  /\ Report(hand[t])
  /\ writable' = FALSE
  /\ muted' = IF t = IoThread THEN muted ELSE ~flagged
  /\ UNCHANGED <<flagged, used>>

(* The other thread has sent the buffer meanwhile: remaining() is 0. *)
ReportEmpty(t) ==
  /\ step[t] = "send" /\ hand[t] \in emptied
  /\ Report(hand[t])
  /\ UNCHANGED <<step, hand, flagged, writable, used, muted>>

(* A flush or a write of another session that has the same key. *)
OtherSession ==
  /\ \/ InterestOn
     \/ writable' = FALSE /\ muted' = ~flagged
  /\ UNCHANGED <<step, hand, queueVars, flagged, used, emptied, blocked>>

----------------------------------------------------------------------------
(* The acceptor's thread: a writable handle schedules the session, and     *)
(* flushSessions() polls and flushes it.                                   *)

ProcessWritable ==
  /\ step[IoThread] = "idle" /\ writable /\ ~flagged
  /\ ScheduleFlush
  /\ UNCHANGED <<step, hand, queueVars, writable, used, emptied, blocked>>

PollSession ==
  /\ step[IoThread] = "idle" /\ flagged /\ Goes(IoThread, "flush")
  /\ flagged' = FALSE /\ used' = 0
  /\ UNCHANGED <<hand, queueVars, writable, emptied, blocked, muted>>

PollRequest ==
  /\ step[IoThread] = "flush" /\ Goes(IoThread, "flushing")
  /\ current = NoDatagram /\ backlog # <<>>
  /\ current' = Head(backlog) /\ backlog' = Tail(backlog) /\ InHand(IoThread, Head(backlog))
  /\ UNCHANGED <<unsent, flagged, writable, used, emptied, blocked, muted>>

ResumeCurrent ==
  /\ step[IoThread] = "flush" /\ Goes(IoThread, "flushing")
  /\ current # NoDatagram /\ InHand(IoThread, current)
  /\ UNCHANGED <<queueVars, flagged, writable, used, emptied, blocked, muted>>

FlushEmpty ==
  /\ step[IoThread] = "flush" /\ Goes(IoThread, "recheck")
  /\ current = NoDatagram /\ backlog = <<>>
  /\ writable' = FALSE
  /\ UNCHANGED <<hand, queueVars, flagged, used, emptied, blocked, muted>>

Recheck ==
  /\ step[IoThread] = "recheck" /\ Goes(IoThread, "idle")
  /\ IF backlog # <<>> /\ ~flagged THEN ScheduleFlush ELSE UNCHANGED <<flagged, muted>>
  /\ UNCHANGED <<hand, queueVars, writable, used, emptied, blocked>>

FlushReportsEmpty ==
  /\ step[IoThread] = "flushing" /\ Goes(IoThread, "flush")
  /\ hand[IoThread] \in emptied
  /\ Report(hand[IoThread]) /\ InHand(IoThread, NoDatagram)
  /\ UNCHANGED <<flagged, writable, used, muted>>

FlushSends ==
  /\ step[IoThread] = "flushing" /\ Goes(IoThread, "flush")
  /\ hand[IoThread] \notin emptied /\ used < Budget
  /\ Report(hand[IoThread]) /\ InHand(IoThread, NoDatagram)
  /\ used' = used + 1 /\ writable' = FALSE
  /\ UNCHANGED <<flagged, muted>>

(* The budget is looked at after the send(): a datagram above it is sent,  *)
(* stays current, and its buffer stays empty until the next flush.         *)
FlushStops ==
  /\ step[IoThread] = "flushing" /\ Goes(IoThread, "idle")
  /\ hand[IoThread] \notin emptied
  /\ NoRoom \/ (used >= Budget /\ Sends(hand[IoThread]))
  /\ InterestOn /\ InHand(IoThread, NoDatagram)
  /\ UNCHANGED <<queueVars, flagged, used>>

(* flushSessions() hands the exception to the filter chain: the request    *)
(* stays current, OP_WRITE as it is, and nothing is scheduled.             *)
FlushThrows ==
  /\ Goes(IoThread, "idle")
  /\ \/ step[IoThread] = "flushing" /\ hand[IoThread] \notin emptied /\ Throws(hand[IoThread])
     \/ /\ step[IoThread] = "flush" /\ current = NoDatagram /\ backlog = <<>>
        /\ UNCHANGED <<emptied, blocked>>
  /\ muted' = ~(flagged \/ writable)
  /\ InHand(IoThread, NoDatagram)
  /\ UNCHANGED <<queueVars, flagged, writable, used>>

DatagramNext ==
  \/ \E t \in Writers :
       \/ BeginWrite(t) \/ Offer(t) \/ Schedule(t)
       \/ SendDirectly(t) \/ SendBlocked(t) \/ SendThrows(t) \/ ReportDirectly(t) \/ ReportEmpty(t)
  \/ OtherSession
  \/ ProcessWritable \/ PollSession \/ PollRequest \/ ResumeCurrent \/ FlushEmpty \/ Recheck
  \/ FlushReportsEmpty \/ FlushSends \/ FlushStops \/ FlushThrows

DatagramSpec == DatagramInit /\ [][DatagramNext]_datagramVars

----------------------------------------------------------------------------
(* What waits in the queue, or was stopped halfway, is never left without  *)
(* a flush to come while the acceptor's thread is elsewhere: the session   *)
(* is scheduled, or will be when there is room, or a thread of the         *)
(* application that has offered a request is about to schedule it.  There  *)
(* are just two ways to lose the flush (muted): an exception that ends a   *)
(* flush(), and an interest in OP_WRITE that another thread's write() or   *)
(* another session turns off behind it.  Either is over with the next      *)
(* flush that is scheduled.                                                *)
BacklogHasFlush ==
  step[IoThread] = "idle" /\ (backlog # <<>> \/ current # NoDatagram) =>
    \/ flagged \/ writable \/ muted
    \/ \E t \in Clients : step[t] = "schedule"
=============================================================================
