-------------------------- MODULE SessionWriteProofs --------------------------
(* What TLAPS proves about SessionWrite, for any messages and any sizes. *)
EXTENDS SessionWrite, SequenceTheorems, TLAPS

Item == Msg \cup {CloseRequest}

-----------------------------------------------------------------------------
(* Types of what several actions share *)

FutureType == [Msg -> {"none", "pending", "written", "failed"}]

LEMMA CompleteType ==
  ASSUME NEW f \in FutureType, NEW S, NEW value \in {"written", "failed"}
  PROVE  Complete(f, S, value) \in FutureType
BY DEF Complete, FutureType

LEMMA RemoveNowType ==
  ASSUME NEW q, NEW f \in FutureType, RemoveNow(q, f)
  PROVE  queue' \in Seq(Item) /\ future' \in FutureType /\ destroyed' = TRUE
<1> DEFINE discarded == IF IsClosing THEN {} ELSE Behind(q)
<1>1. Complete(f, discarded, "written") \in FutureType
  BY CompleteType
<1>2. Complete(Complete(f, discarded, "written"), MsgsIn(q), "failed") \in FutureType
  BY <1>1, CompleteType
<1> QED  BY <1>2 DEF RemoveNow

LEMMA WriteType ==
  ASSUME TypeOK, current \in Msg, NEW n \in 0..room, n <= left[current], Write(n)
  PROVE  left' \in [Msg -> 0..Size] /\ wire' \in Seq(Msg) /\ room' \in 0..Capacity
<1>1. left' \in [Msg -> 0..Size] /\ room' \in 0..Capacity
  BY WriteAssumption DEF TypeOK, Write
<1>2. [i \in 1..n |-> current] \in Seq(Msg)
  <2>1. n \in Nat
    BY WriteAssumption DEF TypeOK
  <2> QED  BY <2>1
<1>3. wire \in Seq(Msg) /\ wire' = wire \o [i \in 1..n |-> current]
  BY DEF TypeOK, Write
<1> QED  BY <1>1, <1>2, <1>3, ConcatProperties

\* TypeOK in parts: data, flags, counters and threads.
DataOK ==
  /\ queue \in Seq(Item) /\ current \in Msg \cup {NoMsg}
  /\ left \in [Msg -> 0..Size] /\ future \in FutureType /\ caught \in SUBSET Msg
  /\ offered \in Seq(Item) /\ wire \in Seq(Msg) /\ room \in 0..Capacity
FlagsOK ==
  /\ scheduled \in BOOLEAN /\ opWrite \in BOOLEAN /\ suspended \in BOOLEAN
  /\ closing \in BOOLEAN /\ destroyed \in BOOLEAN /\ wanted \in BOOLEAN /\ abrupt \in BOOLEAN
CountsOK == flushing \in Nat /\ removing \in Nat /\ toggles \in Nat
ThreadsOK ==
  /\ writer \in [Msg -> WriterPc]
  /\ toggler \in {"idle", "compute", "apply"}
  /\ closer \in {"new", "remove", "done"}
  /\ flusher \in {"new", "offer", "flush", "enqueue", "done"}
  /\ proc \in {"process", "flush", "unschedule", "write", "after", "idle", "remove"}
PartsOK == DataOK /\ FlagsOK /\ CountsOK /\ ThreadsOK

LEMMA TypeParts == (TypeOK <=> PartsOK) /\ (TypeOK' <=> PartsOK')
BY DEF TypeOK, PartsOK, DataOK, FlagsOK, CountsOK, ThreadsOK, FutureType, Item

LEMMA TypeInit == Init => TypeOK
<1> SUFFICES ASSUME Init PROVE PartsOK
  BY TypeParts
<1>1. DataOK
  BY WriteAssumption DEF Init, DataOK, Item, FutureType
<1>2. FlagsOK
  BY DEF Init, FlagsOK
<1>3. CountsOK /\ ThreadsOK
  BY DEF Init, CountsOK, ThreadsOK, WriterPc
<1> QED  BY <1>1, <1>2, <1>3 DEF PartsOK

LEMMA ScheduleFlushType ==
  ASSUME TypeOK, ScheduleFlush \/ UNCHANGED <<scheduled, flushing>>
  PROVE  scheduled' \in BOOLEAN /\ flushing' \in Nat
<1>1. CASE UNCHANGED <<scheduled, flushing>>
  BY <1>1 DEF TypeOK
<1>2. CASE scheduled' = TRUE /\ flushing' = flushing + 1
  BY <1>2 DEF TypeOK
<1> QED  BY <1>1, <1>2 DEF ScheduleFlush

LEMMA DrainedType ==
  ASSUME NEW f \in FutureType
  PROVE  Drained(f) \in FutureType
BY CompleteType DEF Drained

LEMMA TypeStep == TypeOK /\ [Next]_vars => TypeOK'
<1> SUFFICES ASSUME TypeOK, [Next]_vars PROVE PartsOK'
  BY TypeParts
<1>0. DataOK /\ FlagsOK /\ CountsOK /\ ThreadsOK
  BY TypeParts DEF PartsOK
<1> USE DEF dataVars, flushVars, closeVars, toggleVars, clientVars
<1>1. ASSUME NEW m \in Msg, BeginWrite(m) PROVE PartsOK'
  BY <1>0, <1>1 DEF BeginWrite, FutureType, WriterStep, WriterPc, PartsOK, DataOK, FlagsOK, CountsOK, ThreadsOK
<1>2. ASSUME NEW m \in Msg, LookSuspended(m) PROVE PartsOK'
  BY <1>0, <1>2 DEF LookSuspended, WriterStep, WriterPc, PartsOK, DataOK, FlagsOK, CountsOK, ThreadsOK
<1>3. ASSUME NEW m \in Msg, Offer(m) PROVE PartsOK'
  <2>1. DataOK'
    BY <1>0, <1>3, AppendProperties DEF Offer, DataOK, Item
  <2>2. FlagsOK'
    BY <1>0, <1>3 DEF Offer, FlagsOK
  <2>3. CountsOK'
    BY <1>0, <1>3 DEF Offer, CountsOK
  <2>4. ThreadsOK'
    BY <1>0, <1>3 DEF Offer, ThreadsOK, WriterStep, WriterPc
  <2> QED  BY <2>1, <2>2, <2>3, <2>4 DEF PartsOK
<1>4. ASSUME NEW m \in Msg, LookAgain(m) PROVE PartsOK'
  BY <1>0, <1>4 DEF LookAgain, WriterStep, WriterPc, PartsOK, DataOK, FlagsOK, CountsOK, ThreadsOK
<1>5. ASSUME NEW m \in Msg, Flag(m) PROVE PartsOK'
  BY <1>0, <1>5 DEF Flag, WriterStep, WriterPc, PartsOK, DataOK, FlagsOK, CountsOK, ThreadsOK
<1>6. ASSUME NEW m \in Msg, Enqueue(m) PROVE PartsOK'
  BY <1>0, <1>6 DEF Enqueue, WriterStep, WriterPc, PartsOK, DataOK, FlagsOK, CountsOK, ThreadsOK
<1>7. CASE Toggle
  <2>1. DataOK'
    BY <1>0, <1>7 DEF Toggle, DataOK
  <2>2. FlagsOK'
    BY <1>0, <1>7 DEF Toggle, FlagsOK
  <2>3. CountsOK'
    BY <1>0, <1>7 DEF Toggle, CountsOK
  <2>4. ThreadsOK'
    BY <1>0, <1>7 DEF Toggle, ThreadsOK
  <2> QED  BY <2>1, <2>2, <2>3, <2>4 DEF PartsOK
<1>8. CASE Compute
  BY <1>0, <1>8 DEF Compute, PartsOK, DataOK, FlagsOK, CountsOK, ThreadsOK
<1>9. CASE Apply
  BY <1>0, <1>9 DEF Apply, PartsOK, DataOK, FlagsOK, CountsOK, ThreadsOK
<1>10. CASE CloseNow
  <2>1. DataOK'
    <3>1. CASE IsClosing
      BY <1>0, <1>10, <3>1 DEF CloseNow, DataOK
    <3>2. CASE ~IsClosing
      <4>1. Drained(future) \in FutureType
        BY <1>0, DrainedType DEF DataOK
      <4>2. queue' = <<>> /\ future' = Drained(future)
        BY <1>10, <3>2 DEF CloseNow
      <4>3. UNCHANGED <<current, left, caught, offered, wire, room>>
        BY <1>10 DEF CloseNow
      <4> QED  BY <1>0, <4>1, <4>2, <4>3 DEF DataOK
    <3> QED  BY <3>1, <3>2
  <2>2. FlagsOK'
    BY <1>0, <1>10 DEF CloseNow, FlagsOK
  <2>3. CountsOK'
    BY <1>0, <1>10 DEF CloseNow, CountsOK
  <2>4. ThreadsOK'
    BY <1>0, <1>10 DEF CloseNow, ThreadsOK
  <2> QED  BY <2>1, <2>2, <2>3, <2>4 DEF PartsOK
<1>11. CASE CloseNowRemove
  BY <1>0, <1>11 DEF CloseNowRemove, PartsOK, DataOK, FlagsOK, CountsOK, ThreadsOK
<1>12. CASE CloseOnFlush
  BY <1>0, <1>12 DEF CloseOnFlush, PartsOK, DataOK, FlagsOK, CountsOK, ThreadsOK
<1>13. CASE CloseOnFlushOffer
  BY <1>0, <1>13, AppendProperties DEF CloseOnFlushOffer, Item, PartsOK, DataOK, FlagsOK, CountsOK, ThreadsOK
<1>14. CASE CloseOnFlushFlag
  BY <1>0, <1>14 DEF CloseOnFlushFlag, PartsOK, DataOK, FlagsOK, CountsOK, ThreadsOK
<1>15. CASE CloseOnFlushEnqueue
  BY <1>0, <1>15 DEF CloseOnFlushEnqueue, PartsOK, DataOK, FlagsOK, CountsOK, ThreadsOK
<1>16. CASE Process
  BY <1>0, <1>16, ScheduleFlushType DEF Process, ProcStep, PartsOK, DataOK, FlagsOK, CountsOK, ThreadsOK
<1>17. CASE ReadFails
  BY <1>0, <1>17 DEF ReadFails, PartsOK, DataOK, FlagsOK, CountsOK, ThreadsOK
<1>18. CASE PollFlushing
  BY <1>0, <1>18 DEF PollFlushing, ProcStep, PartsOK, DataOK, FlagsOK, CountsOK, ThreadsOK
<1>19. CASE FlushingEmpty
  BY <1>0, <1>19 DEF FlushingEmpty, ProcStep, PartsOK, DataOK, FlagsOK, CountsOK, ThreadsOK
<1>20. CASE Unschedule
  <2>1. DataOK' /\ CountsOK'
    BY <1>0, <1>20 DEF Unschedule, PartsOK, DataOK, CountsOK
  <2>2. FlagsOK'
    BY <1>0, <1>20 DEF Unschedule, PartsOK, FlagsOK
  <2>3. ThreadsOK'
    BY <1>0, <1>20 DEF Unschedule, ProcStep, PartsOK, ThreadsOK
  <2> QED  BY <2>1, <2>2, <2>3 DEF PartsOK
<1>21. CASE NothingToWrite
  BY <1>0, <1>21 DEF NothingToWrite, ProcStep, PartsOK, DataOK, FlagsOK, CountsOK, ThreadsOK
<1>22. CASE PollClose
  <2>1. DataOK'
    <3>1. CASE IsClosing
      BY <1>0, <1>22, <3>1, HeadTailProperties DEF PollClose, DataOK
    <3>2. CASE ~IsClosing
      <4>1. Drained(future) \in FutureType
        BY <1>0, DrainedType DEF DataOK
      <4>2. queue' = <<>> /\ future' = Drained(future)
        BY <1>22, <3>2 DEF PollClose
      <4>3. UNCHANGED <<current, left, caught, offered, wire, room>>
        BY <1>22 DEF PollClose
      <4> QED  BY <1>0, <4>1, <4>2, <4>3 DEF DataOK
    <3> QED  BY <3>1, <3>2
  <2>2. FlagsOK'
    BY <1>0, <1>22 DEF PollClose, FlagsOK
  <2>3. CountsOK'
    BY <1>0, <1>22 DEF PollClose, CountsOK
  <2>4. ThreadsOK'
    BY <1>0, <1>22 DEF PollClose, ThreadsOK, ProcStep
  <2> QED  BY <2>1, <2>2, <2>3, <2>4 DEF PartsOK
<1>23. CASE PollRequest
  BY <1>0, <1>23, HeadTailProperties DEF PollRequest, Item, PartsOK, DataOK, FlagsOK, CountsOK, ThreadsOK
<1>24. CASE WritePart
  <2>1. DataOK'
    <3>1. PICK n \in 0..room : n < left[current] /\ Write(n)
      BY <1>24 DEF WritePart
    <3>2. current \in Msg /\ n <= left[current]
      BY <1>0, <1>24, <3>1, WriteAssumption DEF WritePart, DataOK
    <3>3. left' \in [Msg -> 0..Size] /\ wire' \in Seq(Msg) /\ room' \in 0..Capacity
      BY <3>1, <3>2, WriteType
    <3> QED  BY <1>0, <1>24, <3>3 DEF WritePart, DataOK
  <2>2. FlagsOK'
    BY <1>0, <1>24 DEF WritePart, FlagsOK
  <2>3. CountsOK'
    BY <1>0, <1>24 DEF WritePart, CountsOK
  <2>4. ThreadsOK'
    BY <1>0, <1>24 DEF WritePart, ThreadsOK, ProcStep
  <2> QED  BY <2>1, <2>2, <2>3, <2>4 DEF PartsOK
<1>25. CASE WriteAll
  <2>1. DataOK'
    <3>1. current \in Msg /\ left[current] \in 0..room /\ Write(left[current])
      BY <1>0, <1>25, WriteAssumption DEF WriteAll, DataOK
    <3>2. left[current] <= left[current]
      BY <1>0, <3>1, WriteAssumption DEF DataOK
    <3>3. left' \in [Msg -> 0..Size] /\ wire' \in Seq(Msg) /\ room' \in 0..Capacity
      BY <3>1, <3>2, WriteType
    <3>4. future' \in FutureType
      BY <1>0, <1>25, CompleteType DEF WriteAll, DataOK
    <3> QED  BY <1>0, <1>25, <3>3, <3>4 DEF WriteAll, DataOK
  <2>2. FlagsOK'
    BY <1>0, <1>25, ScheduleFlushType DEF WriteAll, FlagsOK, ProcStep
  <2>3. CountsOK'
    BY <1>0, <1>25, ScheduleFlushType DEF WriteAll, CountsOK, ProcStep
  <2>4. ThreadsOK'
    BY <1>0, <1>25 DEF WriteAll, ThreadsOK, ProcStep
  <2> QED  BY <2>1, <2>2, <2>3, <2>4 DEF PartsOK
<1>26. CASE WriteThrows \/ SentThrows \/ TakeOffSent
  <2>1. DataOK'
    <3>1. current \in Msg
      BY <1>26, WriteAssumption DEF WriteThrows, SentThrows, TakeOffSent
    <3>2. left' \in [Msg -> 0..Size] /\ wire' \in Seq(Msg) /\ room' \in 0..Capacity
      <4>1. CASE UNCHANGED <<left, wire, room>>
        BY <1>0, <4>1 DEF DataOK
      <4>2. CASE left[current] <= room /\ Write(left[current])
        <5>1. left[current] \in 0..room /\ left[current] <= left[current]
          BY <1>0, <3>1, <4>2, WriteAssumption DEF DataOK
        <5> QED  BY <3>1, <4>2, <5>1, WriteType
      <4> QED  BY <1>26, <4>1, <4>2 DEF WriteThrows, SentThrows, TakeOffSent
    <3>3. future' \in FutureType
      BY <1>0, <1>26, CompleteType DEF WriteThrows, SentThrows, TakeOffSent, DataOK
    <3>4. caught' \in SUBSET Msg /\ current' \in Msg \cup {NoMsg} /\ UNCHANGED <<queue, offered>>
      BY <1>0, <1>26, <3>1 DEF WriteThrows, SentThrows, TakeOffSent, DataOK
    <3> QED  BY <1>0, <3>2, <3>3, <3>4 DEF DataOK
  <2>2. FlagsOK'
    BY <1>0, <1>26 DEF WriteThrows, SentThrows, TakeOffSent, FlagsOK
  <2>3. CountsOK'
    BY <1>0, <1>26 DEF WriteThrows, SentThrows, TakeOffSent, CountsOK
  <2>4. ThreadsOK'
    BY <1>0, <1>26 DEF WriteThrows, SentThrows, TakeOffSent, ThreadsOK, ProcStep
  <2> QED  BY <2>1, <2>2, <2>3, <2>4 DEF PartsOK
<1>27. CASE WriteFails
  <2>1. DataOK'
    <3>1. CASE IsClosing
      BY <1>0, <1>27, <3>1, RemoveNowType DEF WriteFails, DataOK
    <3>2. CASE ~IsClosing
      <4>1. Drained(future) \in FutureType
        BY <1>0, DrainedType DEF DataOK
      <4>2. queue' = <<>> /\ future' = Drained(future)
        BY <1>27, <3>2 DEF WriteFails
      <4>3. UNCHANGED <<current, left, caught, offered, wire, room>>
        BY <1>27 DEF WriteFails
      <4> QED  BY <1>0, <4>1, <4>2, <4>3 DEF DataOK
    <3> QED  BY <3>1, <3>2
  <2>2. FlagsOK'
    BY <1>0, <1>27 DEF WriteFails, FlagsOK, RemoveNow
  <2>3. CountsOK'
    BY <1>0, <1>27 DEF WriteFails, CountsOK
  <2>4. ThreadsOK'
    BY <1>0, <1>27 DEF WriteFails, ThreadsOK, ProcStep
  <2> QED  BY <2>1, <2>2, <2>3, <2>4 DEF PartsOK
<1>28. CASE AfterFlush
  BY <1>0, <1>28, ScheduleFlushType DEF AfterFlush, ProcStep, PartsOK, DataOK, FlagsOK, CountsOK, ThreadsOK
<1>29. CASE WriteTimeout
  <2>1. DataOK'
    <3>1. Complete(future, {current}, "failed") \in FutureType
      BY <1>0, CompleteType DEF DataOK
    <3>2. future' \in FutureType
      <4>1. Drained(Complete(future, {current}, "failed")) \in FutureType
        BY <3>1, DrainedType
      <4> QED  BY <1>29, <3>1, <4>1 DEF WriteTimeout
    <3>3. queue' \in Seq(Item)
      <4>1. queue' = queue \/ queue' = <<>>
        BY <1>29 DEF WriteTimeout
      <4>2. queue \in Seq(Item) /\ <<>> \in Seq(Item)
        BY <1>0, EmptySeq DEF DataOK
      <4> QED  BY <4>1, <4>2
    <3> QED  BY <1>0, <1>29, <3>2, <3>3 DEF WriteTimeout, DataOK
  <2>2. FlagsOK'
    BY <1>0, <1>29 DEF WriteTimeout, FlagsOK
  <2>3. CountsOK'
    BY <1>0, <1>29 DEF WriteTimeout, CountsOK
  <2>4. ThreadsOK'
    BY <1>0, <1>29 DEF WriteTimeout, ThreadsOK, ProcStep
  <2> QED  BY <2>1, <2>2, <2>3, <2>4 DEF PartsOK
<1>30. CASE NoTimeout
  BY <1>0, <1>30 DEF NoTimeout, ProcStep, PartsOK, DataOK, FlagsOK, CountsOK, ThreadsOK
<1>31. CASE RemoveSession
  <2>1. DataOK'
    <3>1. CASE destroyed
      BY <1>0, <1>31, <3>1 DEF RemoveSession, DataOK
    <3>2. CASE ~destroyed
      BY <1>0, <1>31, <3>2, RemoveNowType DEF RemoveSession, DataOK
    <3> QED  BY <3>1, <3>2
  <2>2. FlagsOK'
    <3>1. CASE destroyed
      BY <1>0, <1>31, <3>1 DEF RemoveSession, FlagsOK
    <3>2. CASE ~destroyed
      BY <1>0, <1>31, <3>2 DEF RemoveSession, RemoveNow, FlagsOK
    <3> QED  BY <3>1, <3>2
  <2>3. CountsOK'
    <3>1. CASE destroyed
      BY <1>0, <1>31, <3>1 DEF RemoveSession, CountsOK
    <3>2. CASE ~destroyed
      BY <1>0, <1>31, <3>2 DEF RemoveSession, CountsOK
    <3> QED  BY <3>1, <3>2
  <2>4. ThreadsOK'
    BY <1>0, <1>31 DEF RemoveSession, ThreadsOK
  <2> QED  BY <2>1, <2>2, <2>3, <2>4 DEF PartsOK
<1>32. CASE RemoveEmpty
  BY <1>0, <1>32 DEF RemoveEmpty, ProcStep, PartsOK, DataOK, FlagsOK, CountsOK, ThreadsOK
<1>33. CASE Drain
  BY <1>0, <1>33, WriteAssumption DEF Drain, PartsOK, DataOK, FlagsOK, CountsOK, ThreadsOK
<1>34. CASE UNCHANGED vars
  BY <1>0, <1>34 DEF vars, PartsOK, DataOK, FlagsOK, CountsOK, ThreadsOK
<1> QED  BY <1>1, <1>2, <1>3, <1>4, <1>5, <1>6, <1>7, <1>8, <1>9, <1>10, <1>11, <1>12, <1>13, <1>14,
       <1>15, <1>16, <1>17, <1>18, <1>19, <1>20, <1>21, <1>22, <1>23, <1>24, <1>25, <1>26, <1>27,
       <1>28, <1>29, <1>30, <1>31, <1>32, <1>33, <1>34
       DEF Next, WriterNext, TogglerNext, CloserNext, ProcNext

\* Every variable of SessionWrite stays in its range.
THEOREM TypeCorrect == Spec => []TypeOK
<1>1. Init => TypeOK
  BY TypeInit
<1>2. TypeOK /\ [Next]_vars => TypeOK'
  BY TypeStep
<1> QED  BY <1>1, <1>2, PTL DEF Spec

-----------------------------------------------------------------------------
(* The flag and the queue of flushing sessions *)

\* A step that takes no part in scheduling.
Quiet ==
  /\ UNCHANGED <<scheduled, flushing>>
  /\ Enqueuing' = Enqueuing
  /\ (flusher' = "enqueue") <=> (flusher = "enqueue")
  /\ (proc' = "unschedule") <=> (proc = "unschedule")

LEMMA QuietWriter ==
  ASSUME TypeOK, NEW m \in Msg, BeginWrite(m) \/ LookSuspended(m) \/ Offer(m) \/ LookAgain(m)
  PROVE  Quiet
<1>1. UNCHANGED <<scheduled, flushing, flusher, proc>>
  BY DEF BeginWrite, LookSuspended, Offer, LookAgain, flushVars, toggleVars
<1>2. /\ writer[m] # "enqueue"
      /\ \E pc \in WriterPc \ {"enqueue"} : writer' = [writer EXCEPT ![m] = pc]
  BY DEF BeginWrite, LookSuspended, Offer, LookAgain, WriterStep, WriterPc
<1>3. Enqueuing' = Enqueuing
  BY <1>2 DEF TypeOK, Enqueuing
<1> QED  BY <1>1, <1>3 DEF Quiet

LEMMA QuietThreads ==
  ASSUME Toggle \/ TogglerNext \/ CloseNow \/ CloseNowRemove \/ CloseOnFlush \/ CloseOnFlushOffer
         \/ Drain \/ ReadFails \/ RemoveSession \/ UNCHANGED vars
  PROVE  Quiet
<1>1. UNCHANGED <<scheduled, flushing, writer, proc>>
  BY DEF Toggle, TogglerNext, Compute, Apply, CloseNow, CloseNowRemove, CloseOnFlush, CloseOnFlushOffer,
         Drain, ReadFails, RemoveSession, vars, flushVars, clientVars
<1>2. (flusher' = "enqueue") <=> (flusher = "enqueue")
  BY DEF Toggle, TogglerNext, Compute, Apply, CloseNow, CloseNowRemove, CloseOnFlush, CloseOnFlushOffer,
         Drain, ReadFails, RemoveSession, vars, clientVars
<1> QED  BY <1>1, <1>2 DEF Quiet, Enqueuing

LEMMA QuietProcessor ==
  ASSUME FlushingEmpty \/ NothingToWrite \/ PollClose \/ PollRequest \/ WritePart
         \/ WriteThrows \/ SentThrows \/ TakeOffSent
         \/ WriteFails \/ WriteTimeout \/ NoTimeout \/ RemoveEmpty
  PROVE  Quiet
<1>1. UNCHANGED <<scheduled, flushing, writer, flusher>>
  BY DEF FlushingEmpty, NothingToWrite, PollClose, PollRequest, WritePart, WriteThrows, SentThrows, TakeOffSent,
         WriteFails, WriteTimeout, NoTimeout, RemoveEmpty, flushVars, clientVars
<1>2. proc # "unschedule" /\ proc' # "unschedule"
  BY DEF FlushingEmpty, NothingToWrite, PollClose, PollRequest, WritePart, WriteThrows, SentThrows, TakeOffSent,
         WriteFails, WriteTimeout, NoTimeout, RemoveEmpty, ProcStep
<1> QED  BY <1>1, <1>2 DEF Quiet, Enqueuing

\* The three places at which the processor itself schedules the session.
LEMMA ProcessorSchedules ==
  ASSUME Process \/ WriteAll \/ AfterFlush
  PROVE  /\ ScheduleFlush \/ UNCHANGED <<scheduled, flushing>>
         /\ UNCHANGED <<writer, flusher>>
         /\ proc # "unschedule" /\ proc' # "unschedule"
<1>1. CASE Process
  BY <1>1 DEF Process, ProcStep, clientVars
<1>2. CASE WriteAll
  BY <1>2 DEF WriteAll, ProcStep, clientVars
<1>3. CASE AfterFlush
  BY <1>3 DEF AfterFlush, ProcStep, clientVars
<1> QED  BY <1>1, <1>2, <1>3

LEMMA FlushedOnceStep == TypeOK /\ FlushedOnce /\ [Next]_vars => FlushedOnce'
<1> SUFFICES ASSUME TypeOK, FlushedOnce, [Next]_vars PROVE FlushedOnce'
  OBVIOUS
<1>1. CASE Quiet
  BY <1>1 DEF Quiet, FlushedOnce
<1>2. ASSUME NEW m \in Msg, Flag(m) PROVE FlushedOnce'
  <2>1. writer' = [writer EXCEPT ![m] = IF scheduled THEN "done" ELSE "enqueue"]
        /\ writer[m] = "flush" /\ scheduled' = TRUE /\ UNCHANGED <<flushing, flusher, proc>>
    BY <1>2 DEF Flag, WriterStep, toggleVars
  <2>2. CASE scheduled
    <3>1. Enqueuing' = Enqueuing
      BY <2>1, <2>2 DEF TypeOK, Enqueuing
    <3> QED  BY <2>1, <2>2, <3>1 DEF FlushedOnce
  <2>3. CASE ~scheduled
    <3>1. Enqueuing' = Enqueuing \cup {m}
      BY <2>1, <2>3 DEF TypeOK, Enqueuing
    <3> QED  BY <2>1, <2>3, <3>1 DEF FlushedOnce
  <2> QED  BY <2>2, <2>3
<1>3. ASSUME NEW m \in Msg, Enqueue(m) PROVE FlushedOnce'
  <2>1. m \in Enqueuing /\ Enqueuing' = Enqueuing \ {m}
    BY <1>3 DEF Enqueue, WriterStep, TypeOK, Enqueuing
  <2>2. flushing' = flushing + 1 /\ UNCHANGED <<scheduled, flusher, proc>>
    BY <1>3 DEF Enqueue, toggleVars
  <2> QED  BY <2>1, <2>2 DEF FlushedOnce
<1>4. CASE CloseOnFlushFlag \/ CloseOnFlushEnqueue
  <2>1. Enqueuing' = Enqueuing
    BY <1>4 DEF CloseOnFlushFlag, CloseOnFlushEnqueue, Enqueuing
  <2> QED  BY <1>4, <2>1 DEF CloseOnFlushFlag, CloseOnFlushEnqueue, FlushedOnce
<1>5. CASE PollFlushing \/ Unschedule
  <2>1. Enqueuing' = Enqueuing /\ UNCHANGED flusher
    BY <1>5 DEF PollFlushing, Unschedule, clientVars, Enqueuing
  <2> QED  BY <1>5, <2>1 DEF PollFlushing, Unschedule, ProcStep, FlushedOnce
<1>6. CASE Process \/ WriteAll \/ AfterFlush
  <2>1. Enqueuing' = Enqueuing
    BY <1>6, ProcessorSchedules DEF Enqueuing
  <2>2. CASE UNCHANGED <<scheduled, flushing>>
    BY <1>6, <2>1, <2>2, ProcessorSchedules DEF FlushedOnce
  <2>3. CASE ~scheduled /\ scheduled' = TRUE /\ flushing' = flushing + 1
    <3>1. flushing = 0 /\ Enqueuing = {} /\ flusher # "enqueue"
      BY <2>3 DEF FlushedOnce
    <3>2. flushing' = 1 /\ Enqueuing' = {} /\ flusher' # "enqueue" /\ proc' # "unschedule"
      BY <1>6, <2>1, <2>3, <3>1, ProcessorSchedules
    <3> QED  BY <2>3, <3>2 DEF FlushedOnce
  <2> QED  BY <1>6, <2>2, <2>3, ProcessorSchedules DEF ScheduleFlush
<1> QED
  BY <1>1, <1>2, <1>3, <1>4, <1>5, <1>6, QuietWriter, QuietThreads, QuietProcessor
  DEF Next, WriterNext, CloserNext, ProcNext

\* scheduledForFlush_ is set exactly as long as one party has charge of the
\* session: it is never twice in flushingSessions, and never forgotten there.
THEOREM FlushedOnceCorrect == Spec => []FlushedOnce
<1>1. Init => FlushedOnce
  BY DEF Init, FlushedOnce, Enqueuing
<1>2. TypeOK /\ FlushedOnce /\ [Next]_vars => FlushedOnce'
  BY FlushedOnceStep
<1> QED  BY <1>1, <1>2, TypeCorrect, PTL DEF Spec

-----------------------------------------------------------------------------
(* No flush is lost, as long as nobody suspends writing (or reading) *)

\* What a session is like whose traffic is never suspended.
NeverSuspended ==
  /\ toggler = "idle" /\ toggles = 0 /\ suspended = FALSE
  /\ \A m \in Msg : writer[m] # "offerOnly"

\* NoLostFlush with what its induction needs: there is no current request
\* when flushNow() has flushed all.
FlushInv == NoLostFlush /\ NeverSuspended /\ (proc = "after" => current = NoMsg)

Pending == queue # <<>> \/ current # NoMsg
Coming ==
  \/ scheduled \/ opWrite
  \/ proc \in {"write", "after"}
  \/ \E m \in Msg : writer[m] \in {"lookAgain", "flush"}
  \/ flusher = "flush"

LEMMA NeverSuspendedStep ==
  ASSUME MaxToggles = 0, TypeOK, NeverSuspended, [Next]_vars
  PROVE  NeverSuspended'
<1>1. ~Toggle /\ ~TogglerNext
  BY DEF NeverSuspended, Toggle, TogglerNext, Compute, Apply
<1>2. UNCHANGED <<toggler, toggles, suspended>>
  BY <1>1 DEF Next, WriterNext, CloserNext, ProcNext, vars, clientVars, toggleVars,
     BeginWrite, LookSuspended, Offer, LookAgain, Flag, Enqueue,
     CloseNow, CloseNowRemove, CloseOnFlush, CloseOnFlushOffer, CloseOnFlushFlag, CloseOnFlushEnqueue,
     Process, ReadFails, PollFlushing, FlushingEmpty, Unschedule, NothingToWrite, PollClose, PollRequest,
     WritePart, WriteAll, WriteThrows, SentThrows, TakeOffSent, WriteFails, AfterFlush, WriteTimeout, NoTimeout,
     RemoveSession, RemoveEmpty, Drain
<1>3. ASSUME NEW m \in Msg, BeginWrite(m) \/ WriterNext(m)
      PROVE  \E pc \in WriterPc \ {"offerOnly"} : writer' = [writer EXCEPT ![m] = pc]
  BY <1>3 DEF NeverSuspended, WriterNext, BeginWrite, LookSuspended, Offer, LookAgain, Flag, Enqueue,
     WriterStep, WriterPc
<1>4. (\E m \in Msg : BeginWrite(m) \/ WriterNext(m)) \/ UNCHANGED writer
  BY <1>1 DEF Next, CloserNext, ProcNext, vars, clientVars,
     CloseNow, CloseNowRemove, CloseOnFlush, CloseOnFlushOffer, CloseOnFlushFlag, CloseOnFlushEnqueue,
     Process, ReadFails, PollFlushing, FlushingEmpty, Unschedule, NothingToWrite, PollClose, PollRequest,
     WritePart, WriteAll, WriteThrows, SentThrows, TakeOffSent, WriteFails, AfterFlush, WriteTimeout, NoTimeout,
     RemoveSession, RemoveEmpty, Drain
<1>5. \A m \in Msg : writer'[m] # "offerOnly"
  BY <1>3, <1>4 DEF TypeOK, NeverSuspended
<1> QED  BY <1>2, <1>5 DEF NeverSuspended

LEMMA FlushInvStep ==
  ASSUME MaxToggles = 0, Odd = {}, TypeOK, FlushInv, [Next]_vars
  PROVE  FlushInv'
<1>1. NeverSuspended'
  BY NeverSuspendedStep DEF FlushInv
<1>2. SUFFICES /\ Pending' /\ ~destroyed' => Coming'
               /\ proc' = "after" => current' = NoMsg
  BY <1>1 DEF FlushInv, NoLostFlush, Pending, Coming
<1>0. /\ Pending /\ ~destroyed => Coming
      /\ proc = "after" => current = NoMsg
      /\ NeverSuspended
  BY DEF FlushInv, NoLostFlush, Pending, Coming
<1> USE DEF dataVars, flushVars, closeVars, toggleVars, clientVars
<1> DEFINE Goal == (Pending' /\ ~destroyed' => Coming') /\ (proc' = "after" => current' = NoMsg)
\* Writers
<1>3. ASSUME NEW m \in Msg, BeginWrite(m) \/ LookSuspended(m) \/ Enqueue(m) PROVE Goal
  <2>1. /\ UNCHANGED <<queue, current, scheduled, opWrite, proc, flusher, destroyed>>
        /\ writer[m] \notin {"lookAgain", "flush"}
        /\ \E pc \in WriterPc : writer' = [writer EXCEPT ![m] = pc]
    BY <1>3 DEF BeginWrite, LookSuspended, Enqueue, WriterStep, WriterPc
  <2>2. Coming => Coming'
    BY <2>1 DEF Coming, TypeOK
  <2> QED  BY <1>0, <2>1, <2>2 DEF Pending
<1>4. ASSUME NEW m \in Msg, Offer(m) \/ LookAgain(m) PROVE Goal
  <2>1. writer' = [writer EXCEPT ![m] = writer'[m]] /\ writer'[m] \in {"lookAgain", "flush"}
    BY <1>0, <1>4 DEF Offer, LookAgain, WriterStep, NeverSuspended, TypeOK
  <2>2. UNCHANGED <<current, proc>>
    BY <1>4 DEF Offer, LookAgain
  <2> QED  BY <1>0, <2>1, <2>2 DEF Coming
<1>5. ASSUME NEW m \in Msg, Flag(m) PROVE Goal
  BY <1>0, <1>5 DEF Flag, Coming
\* Closing clients
<1>6. CASE CloseNow \/ CloseNowRemove \/ CloseOnFlush \/ CloseOnFlushEnqueue
  <2>1. /\ UNCHANGED <<current, scheduled, opWrite, proc, writer, destroyed>>
        /\ queue' = queue \/ queue' = <<>>
        /\ flusher = "flush" => flusher' = "flush"
    BY <1>6 DEF CloseNow, CloseNowRemove, CloseOnFlush, CloseOnFlushEnqueue
  <2> QED  BY <1>0, <2>1 DEF Pending, Coming
<1>7. CASE CloseOnFlushOffer \/ CloseOnFlushFlag
  BY <1>0, <1>7 DEF CloseOnFlushOffer, CloseOnFlushFlag, Coming
\* The processor, outside of flushNow()
<1>8. CASE Process \/ ReadFails \/ PollFlushing \/ FlushingEmpty \/ NoTimeout \/ RemoveEmpty
           \/ Drain \/ UNCHANGED vars
  <2>1. /\ UNCHANGED <<queue, current, opWrite, writer, flusher, destroyed>>
        /\ scheduled => scheduled'
        /\ proc' = proc \/ (proc \notin {"write", "after"} /\ proc' # "after")
    BY <1>8 DEF Process, ScheduleFlush, ReadFails, PollFlushing, FlushingEmpty, NoTimeout, RemoveEmpty,
       Drain, vars, ProcStep
  <2> QED  BY <1>0, <2>1 DEF Pending, Coming
<1>9. CASE Unschedule
  BY <1>0, <1>9 DEF Unschedule, ProcStep, Coming
<1>10. CASE WriteTimeout \/ RemoveSession
  <2>1. CASE WriteTimeout
    <3>1. UNCHANGED <<scheduled, opWrite, writer, flusher, destroyed>>
          /\ Pending /\ ~destroyed /\ proc = "idle" /\ proc' = "remove"
      BY <2>1 DEF WriteTimeout, ProcStep, Pending
    <3> QED  BY <1>0, <3>1 DEF Coming
  <2>2. CASE RemoveSession
    <3>1. CASE destroyed
      BY <1>0, <2>2, <3>1 DEF RemoveSession
    <3>2. CASE ~destroyed
      BY <1>0, <2>2, <3>2 DEF RemoveSession, RemoveNow
    <3> QED  BY <3>1, <3>2
  <2> QED  BY <1>10, <2>1, <2>2
\* flushNow()
<1>11. CASE NothingToWrite \/ PollClose \/ PollRequest
  BY <1>0, <1>11 DEF NothingToWrite, PollClose, PollRequest, ProcStep, Coming
<1>12. CASE WritePart
  BY <1>0, <1>12 DEF WritePart, ProcStep, Coming
<1>13. CASE WriteAll
  <2>1. current' = NoMsg /\ (proc' = "write" \/ scheduled')
    BY <1>13 DEF WriteAll, ProcStep, ScheduleFlush
  <2> QED  BY <2>1 DEF Coming
<1>14. ~WriteThrows /\ ~SentThrows /\ ~TakeOffSent
  BY DEF WriteThrows, SentThrows, TakeOffSent, Odd
<1>15. CASE WriteFails
  BY <1>15 DEF WriteFails, RemoveNow, ProcStep
<1>16. CASE AfterFlush
  <2>1. current = NoMsg /\ UNCHANGED <<queue, current>> /\ proc' = "flush"
    BY <1>0, <1>16 DEF AfterFlush, ProcStep
  <2>2. queue # <<>> => scheduled'
    BY <1>16 DEF AfterFlush, ScheduleFlush
  <2> QED  BY <2>1, <2>2 DEF Pending, Coming
<1>17. ~Toggle /\ ~TogglerNext
  BY <1>0 DEF NeverSuspended, Toggle, TogglerNext, Compute, Apply
<1>18. ASSUME NEW m \in Msg, BeginWrite(m) \/ WriterNext(m) PROVE Goal
  BY <1>3, <1>4, <1>5, <1>18 DEF WriterNext
<1>19. CASE ProcNext
  BY <1>8, <1>9, <1>10, <1>11, <1>12, <1>13, <1>14, <1>16, <1>19 DEF ProcNext
<1>20. CASE CloserNext
  BY <1>6, <1>7, <1>20 DEF CloserNext
<1> QED  BY <1>6, <1>8, <1>10, <1>15, <1>17, <1>18, <1>19, <1>20 DEF Next

\* If nobody suspends the session's traffic and flushNow() throws at no message, a
\* message or a CLOSE_REQUEST in the queue, or a message written in part, never
\* waits without somebody who is certain to flush it.
THEOREM NoLostFlushCorrect ==
  ASSUME MaxToggles = 0, Odd = {}
  PROVE  Spec => []NoLostFlush
<1>1. Init => FlushInv
  BY DEF Init, FlushInv, NoLostFlush, NeverSuspended
<1>2. TypeOK /\ FlushInv /\ [Next]_vars => FlushInv'
  BY FlushInvStep
<1>3. FlushInv => NoLostFlush
  BY DEF FlushInv
<1> QED  BY <1>1, <1>2, <1>3, TypeCorrect, PTL DEF Spec

-----------------------------------------------------------------------------
(* What the peer receives, and when closeOnFlush() closes *)

\* How many items have left the queue.
Taken == Len(offered) - Len(queue)

\* Where a write has not offered its message yet.
Early == {"new", "checked", "offerOnly", "offer"}

\* Nothing of m has been sent and nobody has completed its future.
Fresh(m) == left[m] = Size /\ m # current /\ future[m] = "pending"

\* The queue is what was offered last, each message is offered once, and what
\* waits in the queue or has not been offered is untouched.
QueueInv ==
  /\ Len(queue) <= Len(offered)
  /\ \A i \in DOMAIN queue : queue[i] = offered[Taken + i]
  /\ \A p, q \in DOMAIN offered : offered[p] = offered[q] /\ offered[p] \in Msg => p = q
  /\ \A p \in DOMAIN offered : offered[p] \in Msg =>
       writer[offered[p]] \notin Early /\ (p > Taken => Fresh(offered[p]))
  /\ \A m \in Msg :
       /\ writer[m] \in Early => left[m] = Size /\ m # current
       /\ writer[m] = "new" => future[m] = "none"
       /\ writer[m] \in Early \ {"new"} => future[m] = "pending"

\* The current request has left the queue, what was sent before it was offered
\* before it, and its future is pending and something of it left, unless an
\* exception was caught at it.
CurrentInv ==
  current \in Msg =>
    /\ current \notin caught => left[current] > 0 /\ future[current] = "pending"
    /\ \E c \in 1..Taken :
         /\ offered[c] = current
         /\ \A i \in DOMAIN wire : wire[i] # current => \E p \in 1..(c - 1) : offered[p] = wire[i]

\* What has been sent has left the queue, and has been sent whole unless it is
\* the current request or its write timed out.
SentInv ==
  /\ \A i \in DOMAIN wire :
       /\ \E p \in 1..Taken : offered[p] = wire[i]
       /\ wire[i] = current \/ left[wire[i]] = 0 \/ future[wire[i]] = "failed"
  /\ \A m \in Unencoded : left[m] = Size /\ \A i \in DOMAIN wire : wire[i] # m

\* An exception caught at a message fails its future for good, nothing else
\* that fails has been sent, and what is sent is in order.
CaughtInv ==
  /\ \A m \in caught : future[m] = "failed"
  /\ \A m \in Msg \ caught : future[m] = "failed" => left[m] > 0

InOrder ==
  /\ ~IsClosing => \A i \in DOMAIN wire :
                     LET p == (i - 1) \div Size + 1
                     IN  p \in DOMAIN offered /\ wire[i] = offered[p]
  /\ \A i, j \in DOMAIN wire : i < j /\ wire[i] # wire[j] =>
       /\ left[wire[i]] = 0 \/ future[wire[i]] = "failed"
       /\ \E p, q \in DOMAIN offered : p < q /\ offered[p] = wire[i] /\ offered[q] = wire[j]

\* Until the session is closed no request is dropped: what has left the queue
\* is on the wire, save for what is left of the current request.
OpenInv ==
  ~IsClosing =>
    /\ \A p \in 1..Taken : offered[p] \in Msg
    /\ current = NoMsg => Len(wire) = Size * Taken
    /\ current # NoMsg => /\ Taken > 0 /\ offered[Taken] = current
                          /\ Len(wire) = Size * Taken - left[current]
    /\ \A p \in 1..Taken : offered[p] = current \/ left[offered[p]] = 0

\* Only closeNow(), an error or a timeout removes a session that is not closing.
RemovalInv ==
  /\ removing > 0 /\ ~closing => abrupt
  /\ closer = "remove" => abrupt

WireInv == QueueInv /\ CurrentInv /\ SentInv /\ OpenInv /\ RemovalInv /\ CaughtInv /\ InOrder /\ FlushBeforeClose

LEMMA TakenType ==
  ASSUME TypeOK, QueueInv
  PROVE  /\ Len(queue) \in Nat /\ Len(offered) \in Nat /\ Taken \in 0..Len(offered)
         /\ DOMAIN queue = 1..Len(queue) /\ DOMAIN offered = 1..Len(offered)
         /\ DOMAIN wire = 1..Len(wire) /\ Len(wire) \in Nat
<1>1. queue \in Seq(Item) /\ offered \in Seq(Item) /\ wire \in Seq(Msg)
  BY DEF TypeOK, Item
<1>2. Len(queue) \in Nat /\ Len(offered) \in Nat /\ Len(wire) \in Nat
  BY <1>1
<1> QED  BY <1>1, <1>2 DEF QueueInv, Taken

LEMMA InQueue ==
  ASSUME TypeOK, QueueInv, NEW m \in MsgsIn(queue)
  PROVE  m \in Msg /\ Fresh(m) /\ writer[m] \notin Early /\ \E p \in DOMAIN offered : p > Taken /\ offered[p] = m
<1>1. PICK i \in DOMAIN queue : queue[i] = m
  BY DEF MsgsIn
<1>2. m \in Msg
  BY DEF MsgsIn
<1>3. Taken + i \in DOMAIN offered /\ Taken + i > Taken /\ offered[Taken + i] = m
  BY <1>1, TakenType DEF QueueInv, Taken
<1> QED  BY <1>2, <1>3 DEF QueueInv

\* What has left the queue is not in it.
LEMMA NotInQueue ==
  ASSUME TypeOK, QueueInv, NEW p \in 1..Taken, offered[p] \in Msg
  PROVE  offered[p] \notin MsgsIn(queue)
<1> SUFFICES ASSUME offered[p] \in MsgsIn(queue) PROVE FALSE
  OBVIOUS
<1>1. PICK q \in DOMAIN offered : q > Taken /\ offered[q] = offered[p]
  BY InQueue
<1>2. p \in DOMAIN offered
  BY TakenType
<1>3. p = q
  BY <1>1, <1>2 DEF QueueInv
<1> QED  BY <1>1, <1>3, TakenType

\* A step that sends nothing and polls nothing but a CLOSE_REQUEST; it may drop
\* what is in the queue, and give up the current request.
Drops ==
  /\ UNCHANGED <<left, offered, wire>>
  /\ \A m \in Msg : /\ writer'[m] \in Early <=> writer[m] \in Early
                    /\ writer'[m] = "new" <=> writer[m] = "new"
  /\ \/ queue' = queue \/ queue' = <<>>
     \/ queue # <<>> /\ Head(queue) = CloseRequest /\ queue' = Tail(queue)
  /\ \A m \in Msg \ {current} : m \notin MsgsIn(queue) \/ queue' # <<>> => future'[m] = future[m]
  /\ \/ current' = current /\ caught' = caught /\ (current \in Msg => future'[current] = future[current])
     \/ /\ current' = current /\ current \in Unencoded
        /\ caught' = caught \cup {current} /\ future'[current] = "failed"
     \/ current' = NoMsg /\ caught' = caught /\ (current \in Msg => future'[current] = "failed")
  /\ IsClosing' \/ UNCHANGED <<queue, current, closing, destroyed>>

LEMMA DropsQueue ==
  ASSUME TypeOK, QueueInv, Drops
  PROVE  QueueInv' /\ Taken' \in Taken..Len(offered)
<1>0. /\ Len(queue) \in Nat /\ Len(offered) \in Nat /\ Taken \in 0..Len(offered)
      /\ DOMAIN queue = 1..Len(queue) /\ DOMAIN offered = 1..Len(offered)
  BY TakenType
<1>1. /\ Len(queue') <= Len(offered') /\ Taken' \in Taken..Len(offered)
      /\ queue' # <<>> \/ Taken' = Len(offered)
      /\ \A i \in DOMAIN queue' : queue'[i] = offered'[Taken' + i]
  <2>1. CASE queue' = queue
    <3>1. offered' = offered /\ Taken' = Taken
      BY <2>1 DEF Drops, Taken
    <3>2. \A i \in DOMAIN queue : queue[i] = offered[Taken + i]
      BY DEF QueueInv
    <3>3. Len(queue) <= Len(offered)
      BY DEF QueueInv
    <3>4. queue # <<>> \/ Taken = Len(offered)
      <4>1. queue = <<>> => Len(queue) = 0
        OBVIOUS
      <4>2. Len(queue) = 0 => Taken = Len(offered)
        BY <1>0 DEF Taken
      <4> QED  BY <4>1, <4>2
    <3>5. Taken \in Taken..Len(offered)
      BY <1>0
    <3> QED  BY <2>1, <3>1, <3>2, <3>3, <3>4, <3>5
  <2>2. CASE queue' = <<>>
    BY <1>0, <2>2 DEF Drops, QueueInv, Taken
  <2>3. CASE queue # <<>> /\ queue' = Tail(queue)
    <3>1. queue \in Seq(Item) /\ queue # <<>>
      BY <2>3 DEF TypeOK, Item
    <3>2. /\ Len(queue') = Len(queue) - 1 /\ DOMAIN queue' = 1..(Len(queue) - 1)
          /\ \A i \in 1..(Len(queue) - 1) : queue'[i] = queue[i + 1]
      BY <2>3, <3>1
    <3>3. queue' # <<>> \/ Len(queue) - 1 = 0
      BY <1>0, <3>2, <2>3, <3>1
    <3>4. Taken' = Taken + 1
      BY <1>0, <3>2 DEF Taken, Drops
    <3>5. Len(queue) > 0
      BY <3>1, <1>0
    <3>6. UNCHANGED offered /\ Taken = Len(offered) - Len(queue)
      BY DEF Drops, Taken
    <3>7. Len(queue') <= Len(offered') /\ Taken' \in Taken..Len(offered)
          /\ (queue' # <<>> \/ Taken' = Len(offered))
      BY <1>0, <3>2, <3>3, <3>4, <3>5, <3>6
    <3>8. ASSUME NEW i \in 1..(Len(queue) - 1) PROVE queue'[i] = offered'[Taken' + i]
      <4>1. i + 1 \in DOMAIN queue /\ Taken + (i + 1) = Taken' + i
        BY <1>0, <3>4
      <4> QED  BY <3>2, <3>6, <4>1 DEF QueueInv
    <3> QED  BY <3>2, <3>7, <3>8
  <2> QED  BY <2>1, <2>2, <2>3 DEF Drops
<1>2. \A p \in DOMAIN offered' : offered'[p] \in Msg =>
        writer'[offered'[p]] \notin Early /\ (p > Taken' => Fresh(offered[p])')
  <2> SUFFICES ASSUME NEW p \in DOMAIN offered, offered[p] \in Msg
               PROVE  writer'[offered[p]] \notin Early /\ (p > Taken' => Fresh(offered[p])')
    BY DEF Drops, Fresh
  <2>1. writer'[offered[p]] \notin Early
    BY DEF Drops, QueueInv
  <2>2. ASSUME p > Taken' PROVE Fresh(offered[p])'
    <3>1. p > Taken /\ queue' # <<>>
      BY <1>0, <1>1, <2>2
    <3>2. Fresh(offered[p])
      BY <3>1 DEF QueueInv
    <3> QED  BY <3>1, <3>2, WriteAssumption DEF Fresh, Drops
  <2> QED  BY <2>1, <2>2
<1>3. ASSUME NEW m \in Msg, writer'[m] \in Early
      PROVE  /\ left'[m] = Size /\ m # current'
             /\ writer'[m] = "new" => future'[m] = "none"
             /\ writer'[m] # "new" => future'[m] = "pending"
  <2>1. writer[m] \in Early /\ (writer'[m] = "new" <=> writer[m] = "new")
    BY <1>3 DEF Drops
  <2>2. m \notin MsgsIn(queue)
    BY <2>1, InQueue
  <2>3. left[m] = Size /\ m # current
    BY <2>1 DEF QueueInv
  <2>4. future'[m] = future[m]
    BY <2>2, <2>3 DEF Drops
  <2> QED  BY <2>1, <2>3, <2>4, WriteAssumption DEF Drops, QueueInv
<1> QED  BY <1>1, <1>2, <1>3 DEF QueueInv, Drops, Early

\* No write future of what has been sent changes, save that of the current request.
LEMMA DropsSent ==
  ASSUME TypeOK, QueueInv, SentInv, Drops, NEW i \in DOMAIN wire, wire[i] # current
  PROVE  future'[wire[i]] = future[wire[i]]
<1>1. wire[i] \in Msg
  BY TakenType DEF TypeOK
<1>2. PICK p \in 1..Taken : offered[p] = wire[i]
  BY DEF SentInv
<1>3. wire[i] \notin MsgsIn(queue)
  BY <1>1, <1>2, NotInQueue
<1> QED  BY <1>1, <1>3 DEF Drops

LEMMA DropsWire ==
  ASSUME TypeOK, QueueInv, CurrentInv, SentInv, OpenInv, CaughtInv, InOrder, Drops
  PROVE  CurrentInv' /\ SentInv' /\ OpenInv' /\ CaughtInv' /\ InOrder'
<1>0. /\ Taken \in Nat /\ Taken' \in Nat /\ Taken <= Taken' /\ QueueInv'
      /\ DOMAIN wire = 1..Len(wire) /\ Len(wire) \in Nat
      /\ \A i \in DOMAIN wire : wire[i] \in Msg
  BY TakenType, DropsQueue DEF TypeOK
<1>1. CurrentInv'
  <2> SUFFICES ASSUME current' \in Msg PROVE CurrentInv'
    BY DEF CurrentInv
  <2>1. current' = current
    BY WriteAssumption DEF Drops
  <2>2. PICK c \in 1..Taken :
          /\ offered[c] = current
          /\ \A i \in DOMAIN wire : wire[i] # current => \E p \in 1..(c - 1) : offered[p] = wire[i]
    BY <2>1 DEF CurrentInv
  <2>3. c \in 1..Taken'
    BY <1>0
  <2>4. current' \notin caught' => left'[current'] > 0 /\ future'[current'] = "pending"
    <3> SUFFICES ASSUME current \notin caught' PROVE left'[current] > 0 /\ future'[current] = "pending"
      BY <2>1
    <3>1. left' = left /\ caught' = caught /\ future'[current] = future[current]
      BY <2>1, WriteAssumption DEF Drops
    <3> QED  BY <2>1, <3>1 DEF CurrentInv
  <2>5. /\ offered'[c] = current'
        /\ \A i \in DOMAIN wire' : wire'[i] # current' => \E p \in 1..(c - 1) : offered'[p] = wire'[i]
    BY <2>1, <2>2 DEF Drops
  <2> QED  BY <2>3, <2>4, <2>5 DEF CurrentInv
<1>2. SentInv'
  <2>1. ASSUME NEW i \in DOMAIN wire
        PROVE  /\ \E p \in 1..Taken' : offered[p] = wire[i]
               /\ wire[i] = current' \/ left[wire[i]] = 0 \/ future'[wire[i]] = "failed"
    <3>1. PICK p \in 1..Taken : offered[p] = wire[i]
      BY DEF SentInv
    <3>2. p \in 1..Taken'
      BY <1>0
    <3>3. CASE wire[i] # current
      BY <3>1, <3>2, <3>3, DropsSent DEF SentInv
    <3>4. CASE wire[i] = current
      <4>1. current \in Msg
        BY <1>0, <3>4
      <4> QED  BY <3>1, <3>2, <3>4, <4>1 DEF Drops
    <3> QED  BY <3>3, <3>4
  <2> QED  BY <2>1 DEF SentInv, Drops
<1>3. OpenInv'
  <2>1. CASE IsClosing'
    BY <2>1 DEF OpenInv
  <2>2. CASE UNCHANGED <<queue, current, closing, destroyed>>
    BY <2>2 DEF OpenInv, Drops, IsClosing, Taken
  <2> QED  BY <2>1, <2>2 DEF Drops
<1>4. CaughtInv'
  <2>1. ASSUME NEW m \in caught' PROVE future'[m] = "failed"
    <3>1. CASE m \in caught
      <4>1. m \in Msg /\ future[m] = "failed"
        BY <3>1 DEF CaughtInv, TypeOK
      <4>2. m \notin MsgsIn(queue)
        BY <4>1, InQueue DEF Fresh
      <4> QED  BY <4>1, <4>2 DEF Drops
    <3>2. CASE m \notin caught
      BY <2>1, <3>2 DEF Drops
    <3> QED  BY <3>1, <3>2
  <2>2. ASSUME NEW m \in Msg \ caught', future'[m] = "failed" PROVE left'[m] > 0
    <3>0. m \notin caught
      BY <2>2 DEF Drops
    <3>1. CASE m \in MsgsIn(queue)
      BY <3>1, InQueue, WriteAssumption DEF Fresh, Drops
    <3>2. CASE m = current
      BY <3>0, <3>2 DEF CurrentInv, Drops
    <3>3. CASE m \notin MsgsIn(queue) /\ m # current
      BY <2>2, <3>0, <3>3 DEF CaughtInv, Drops
    <3> QED  BY <3>1, <3>2, <3>3
  <2> QED  BY <2>1, <2>2 DEF CaughtInv
<1>5. InOrder'
  <2>1. ~IsClosing' => ~IsClosing /\ UNCHANGED <<wire, offered>>
    BY DEF Drops, IsClosing
  <2>2. ASSUME NEW i \in DOMAIN wire, NEW j \in DOMAIN wire, i < j, wire[i] # wire[j]
        PROVE  left[wire[i]] = 0 \/ future'[wire[i]] = "failed"
    <3>1. left[wire[i]] = 0 \/ future[wire[i]] = "failed"
      BY <2>2 DEF InOrder
    <3>2. CASE wire[i] # current
      BY <3>1, <3>2, DropsSent
    <3>3. CASE wire[i] = current
      BY <1>0, <3>1, <3>3 DEF Drops
    <3> QED  BY <3>2, <3>3
  <2> QED  BY <2>1, <2>2 DEF InOrder, Drops
<1> QED  BY <1>1, <1>2, <1>3, <1>4, <1>5

\* A step of write(m) before the request is offered.
LEMMA BeginsWire ==
  ASSUME TypeOK, WireInv, NEW m \in Msg, BeginWrite(m)
  PROVE  QueueInv' /\ CurrentInv' /\ SentInv' /\ OpenInv' /\ CaughtInv' /\ InOrder'
<1>0. /\ DOMAIN wire = 1..Len(wire) /\ Len(wire) \in Nat
      /\ \A i \in DOMAIN wire : wire[i] \in Msg
      /\ Taken \in 0..Len(offered) /\ DOMAIN offered = 1..Len(offered) /\ Len(offered) \in Nat
  BY TakenType DEF TypeOK, WireInv
<1>1. /\ UNCHANGED <<queue, current, left, caught, offered, wire, closing, destroyed>> /\ Taken' = Taken
      /\ writer[m] = "new" /\ \E pc \in {"done", "checked"} : writer' = [writer EXCEPT ![m] = pc]
      /\ future' = [future EXCEPT ![m] = IF IsClosing THEN "failed" ELSE "pending"]
      /\ writer'[m] = "checked" => future'[m] = "pending"
  BY DEF BeginWrite, WriterStep, closeVars, Taken, TypeOK
<1>2. /\ m # current /\ left[m] = Size
      /\ \A p \in DOMAIN offered : offered[p] # m
      /\ \A i \in DOMAIN wire : wire[i] # m
  <2>1. m # current /\ left[m] = Size /\ \A p \in DOMAIN offered : offered[p] # m
    BY <1>1 DEF WireInv, QueueInv, Early
  <2>2. ASSUME NEW i \in DOMAIN wire PROVE wire[i] # m
    <3>1. PICK p \in 1..Taken : offered[p] = wire[i]
      BY DEF WireInv, SentInv
    <3> QED  BY <1>0, <2>1, <3>1
  <2> QED  BY <2>1, <2>2
<1>3. \A x \in Msg \ {m} : future'[x] = future[x] /\ writer'[x] = writer[x]
  BY <1>1 DEF TypeOK
<1>4. QueueInv'
  <2>1. writer'[m] # "new" /\ (writer'[m] \in Early => future'[m] = "pending")
    BY <1>1 DEF TypeOK, Early
  <2>2. \A p \in DOMAIN offered : offered[p] \in Msg =>
          writer'[offered[p]] \notin Early /\ (p > Taken => Fresh(offered[p])')
    BY <1>1, <1>2, <1>3 DEF WireInv, QueueInv, Fresh
  <2> QED  BY <1>1, <1>2, <1>3, <2>1, <2>2 DEF WireInv, QueueInv
<1>5. CurrentInv' /\ SentInv' /\ OpenInv'
  BY <1>0, <1>1, <1>2, <1>3 DEF WireInv, CurrentInv, SentInv, OpenInv, IsClosing
<1>6. CaughtInv'
  <2>1. m \notin caught /\ left[m] > 0
    <3>1. future[m] = "none"
      BY <1>1 DEF WireInv, QueueInv
    <3> QED  BY <1>2, <3>1, WriteAssumption DEF WireInv, CaughtInv
  <2> QED  BY <1>1, <1>3, <2>1 DEF WireInv, CaughtInv, TypeOK
<1>7. InOrder'
  BY SMTT(30), <1>0, <1>1, <1>2, <1>3, WriteAssumption DEF WireInv, InOrder, IsClosing
<1> QED  BY <1>4, <1>5, <1>6, <1>7

\* A step that offers x, which is CLOSE_REQUEST or the message of a writer
\* that gets past the offer.
Offers(x) ==
  /\ queue' = Append(queue, x) /\ offered' = Append(offered, x)
  /\ UNCHANGED <<current, left, future, caught, wire, closing, destroyed>>
  /\ \/ x = CloseRequest /\ UNCHANGED writer
     \/ /\ x \in Msg /\ writer[x] \in Early \ {"new"}
        /\ \E pc \in WriterPc \ Early : writer' = [writer EXCEPT ![x] = pc]

LEMMA OffersWire ==
  ASSUME TypeOK, WireInv, NEW x \in Item, Offers(x)
  PROVE  QueueInv' /\ CurrentInv' /\ SentInv' /\ OpenInv' /\ CaughtInv' /\ InOrder'
<1>0. /\ Len(queue) \in Nat /\ Len(offered) \in Nat /\ Taken \in 0..Len(offered)
      /\ DOMAIN queue = 1..Len(queue) /\ DOMAIN offered = 1..Len(offered)
      /\ DOMAIN wire = 1..Len(wire) /\ Len(wire) \in Nat
  BY TakenType DEF WireInv
<1>1. /\ Len(offered') = Len(offered) + 1 /\ DOMAIN offered' = 1..(Len(offered) + 1)
      /\ \A p \in 1..Len(offered) : offered'[p] = offered[p]
      /\ offered'[Len(offered) + 1] = x
  BY AppendProperties DEF TypeOK, Offers, Item
<1>2. /\ Len(queue') = Len(queue) + 1 /\ DOMAIN queue' = 1..(Len(queue) + 1)
      /\ \A i \in 1..Len(queue) : queue'[i] = queue[i]
      /\ queue'[Len(queue) + 1] = x
  BY AppendProperties DEF TypeOK, Offers, Item
<1>3. Taken' = Taken /\ Taken = Len(offered) - Len(queue)
  BY <1>0, <1>1, <1>2 DEF Taken
<1>4. \A p \in DOMAIN offered : x \in Msg => offered[p] # x
  BY WriteAssumption DEF WireInv, QueueInv, Offers
<1>5. QueueInv'
  <2>1. Len(queue') <= Len(offered')
    BY <1>0, <1>1, <1>2 DEF WireInv, QueueInv
  <2>2. ASSUME NEW i \in DOMAIN queue' PROVE queue'[i] = offered'[Taken' + i]
    <3>1. CASE i \in 1..Len(queue)
      <4>1. Taken + i \in 1..Len(offered) /\ queue[i] = offered[Taken + i]
        BY <1>0, <1>3, <3>1 DEF WireInv, QueueInv
      <4> QED  BY <1>1, <1>2, <1>3, <3>1, <4>1
    <3>2. CASE i = Len(queue) + 1
      <4>1. Taken + i = Len(offered) + 1
        BY <1>0, <1>3, <3>2
      <4> QED  BY <1>1, <1>2, <1>3, <3>2, <4>1
    <3> QED  BY <1>0, <1>2, <2>2, <3>1, <3>2
  <2>3. ASSUME NEW p \in DOMAIN offered', NEW q \in DOMAIN offered', offered'[p] = offered'[q], offered'[p] \in Msg
        PROVE  p = q
    <3>1. CASE p \in 1..Len(offered) /\ q \in 1..Len(offered)
      BY <1>0, <1>1, <2>3, <3>1 DEF WireInv, QueueInv
    <3>2. CASE p = Len(offered) + 1 \/ q = Len(offered) + 1
      BY <1>0, <1>1, <1>4, <2>3, <3>2
    <3> QED  BY <1>0, <1>1, <3>1, <3>2
  <2>4. ASSUME NEW p \in DOMAIN offered', offered'[p] \in Msg
        PROVE  writer'[offered'[p]] \notin Early /\ (p > Taken' => Fresh(offered[p])')
    <3>1. CASE p \in 1..Len(offered)
      <4>1. offered'[p] = offered[p] /\ offered[p] \in Msg /\ p \in DOMAIN offered
        BY <1>0, <1>1, <2>4, <3>1
      <4>2. offered[p] # x
        BY <1>4, <4>1
      <4>3. writer'[offered[p]] = writer[offered[p]]
        BY <4>1, <4>2 DEF Offers, TypeOK
      <4>4. writer[offered[p]] \notin Early /\ (p > Taken => Fresh(offered[p]))
        BY <4>1 DEF WireInv, QueueInv
      <4> QED  BY <1>3, <4>1, <4>3, <4>4 DEF Offers, Fresh
    <3>2. CASE p = Len(offered) + 1
      <4>1. offered'[p] = x /\ x \in Msg
        BY <1>1, <2>4, <3>2
      <4>2. writer[x] \in Early \ {"new"}
        BY <4>1, WriteAssumption DEF Offers
      <4>3. Fresh(x)
        BY <4>1, <4>2 DEF WireInv, QueueInv, Fresh
      <4>4. writer'[x] \notin Early
        BY <4>1, WriteAssumption DEF Offers, TypeOK
      <4> QED  BY <4>1, <4>3, <4>4 DEF Offers, Fresh
    <3> QED  BY <1>0, <1>1, <3>1, <3>2
  <2>5. ASSUME NEW m \in Msg, writer'[m] \in Early
        PROVE  writer[m] = writer'[m]
    BY <2>5 DEF Offers, TypeOK
  <2>6. \A m \in Msg :
          /\ writer'[m] \in Early => left'[m] = Size /\ m # current'
          /\ writer'[m] = "new" => future'[m] = "none"
          /\ writer'[m] \in Early \ {"new"} => future'[m] = "pending"
    BY <2>5 DEF WireInv, QueueInv, Offers, Early
  <2> QED  BY <2>1, <2>2, <2>3, <2>4, <2>6 DEF QueueInv
<1>6. CurrentInv' /\ SentInv'
  <2>1. \A p \in 1..Taken : offered'[p] = offered[p]
    BY <1>0, <1>1
  <2>2. \A c \in 1..Taken : \A p \in 1..(c - 1) : p \in 1..Taken
    BY <1>0
  <2>3. CurrentInv'
    <3> SUFFICES ASSUME current \in Msg PROVE CurrentInv'
      BY DEF CurrentInv, Offers
    <3>1. UNCHANGED <<current, left, future, caught, wire>>
      BY DEF Offers
    <3>2. PICK c \in 1..Taken :
            /\ offered[c] = current
            /\ \A i \in DOMAIN wire : wire[i] # current => \E p \in 1..(c - 1) : offered[p] = wire[i]
      BY DEF WireInv, CurrentInv
    <3>3. \A p \in 1..(c - 1) : offered'[p] = offered[p]
      BY <2>1, <2>2
    <3>4. c \in 1..Taken' /\ offered'[c] = current'
      BY <1>3, <2>1, <3>1, <3>2
    <3>5. \A i \in DOMAIN wire' : wire'[i] # current' => \E p \in 1..(c - 1) : offered'[p] = wire'[i]
      BY <3>1, <3>2, <3>3
    <3> QED  BY <3>1, <3>4, <3>5 DEF WireInv, CurrentInv
  <2>4. SentInv'
    BY <1>3, <2>1 DEF WireInv, SentInv, Offers
  <2> QED  BY <2>3, <2>4
<1>7. OpenInv'
  <2>1. UNCHANGED <<current, left, wire, closing, destroyed>>
    BY DEF Offers
  <2>2. \A p \in 1..Taken : offered'[p] = offered[p]
    BY <1>0, <1>1
  <2>3. Taken > 0 => Taken \in 1..Taken
    BY <1>0
  <2> QED  BY <1>3, <2>1, <2>2, <2>3 DEF WireInv, OpenInv, IsClosing
<1>8. CaughtInv' /\ InOrder'
  <2>1. UNCHANGED <<left, future, caught, wire, closing, destroyed>>
    BY DEF Offers
  <2>2. \A p \in DOMAIN offered : p \in DOMAIN offered' /\ offered'[p] = offered[p]
    BY <1>0, <1>1
  <2> QED  BY <2>1, <2>2 DEF WireInv, CaughtInv, InOrder, IsClosing
<1> QED  BY <1>5, <1>6, <1>7, <1>8

\* The request at the head of the queue becomes the current one.
LEMMA PollsWire ==
  ASSUME TypeOK, WireInv, PollRequest
  PROVE  QueueInv' /\ CurrentInv' /\ SentInv' /\ OpenInv' /\ CaughtInv' /\ InOrder'
<1>0. /\ Len(queue) \in Nat /\ Len(offered) \in Nat /\ Taken \in 0..Len(offered)
      /\ DOMAIN queue = 1..Len(queue) /\ DOMAIN offered = 1..Len(offered)
      /\ DOMAIN wire = 1..Len(wire) /\ Len(wire) \in Nat
      /\ \A i \in DOMAIN wire : wire[i] \in Msg
  BY TakenType DEF WireInv, TypeOK
<1>1. /\ queue \in Seq(Item) /\ queue # <<>> /\ current = NoMsg
      /\ current' = Head(queue) /\ queue' = Tail(queue) /\ Head(queue) # CloseRequest
      /\ UNCHANGED <<left, future, caught, offered, wire, closing, destroyed, writer>>
  BY DEF PollRequest, TypeOK, Item, closeVars, clientVars
<1>2. /\ Len(queue) > 0 /\ Head(queue) = queue[1] /\ queue[1] \in Item
      /\ Len(queue') = Len(queue) - 1 /\ DOMAIN queue' = 1..(Len(queue) - 1)
      /\ \A i \in 1..(Len(queue) - 1) : queue'[i] = queue[i + 1]
  BY <1>0, <1>1
<1>3. Taken' = Taken + 1 /\ Taken = Len(offered) - Len(queue)
  BY <1>0, <1>1, <1>2 DEF Taken
<1>4. /\ current' \in Msg /\ offered[Taken + 1] = current' /\ Taken + 1 \in DOMAIN offered
      /\ writer[current'] \notin Early /\ Fresh(current')
  <2>1. queue[1] = offered[Taken + 1] /\ Taken + 1 \in DOMAIN offered
    <3>1. \A i \in DOMAIN queue : queue[i] = offered[Taken + i]
      BY DEF WireInv, QueueInv
    <3>2. 1 \in DOMAIN queue /\ Taken + 1 \in 1..Len(offered)
      <4> HIDE DEF Taken
      <4> QED
        BY <1>0, <1>2, <1>3
    <3> QED
      BY <1>0, <3>1, <3>2
  <2>2. current' \in Msg
    BY <1>1, <1>2 DEF Item
  <2>3. \A p \in DOMAIN offered : offered[p] \in Msg =>
          writer[offered[p]] \notin Early /\ (p > Taken => Fresh(offered[p]))
    BY DEF WireInv, QueueInv
  <2>4. offered[Taken + 1] = current' /\ Taken + 1 > Taken
    BY <1>0, <1>1, <1>2, <2>1
  <2> QED
    BY <2>1, <2>2, <2>3, <2>4
<1>5. QueueInv'
  <2>1. \A i \in DOMAIN queue' : queue'[i] = offered'[Taken' + i]
    <3>1. \A i \in DOMAIN queue : queue[i] = offered[Taken + i]
      BY DEF WireInv, QueueInv
    <3>2. ASSUME NEW i \in DOMAIN queue' PROVE queue'[i] = offered[Taken + (i + 1)]
      <4>1. i + 1 \in DOMAIN queue /\ queue'[i] = queue[i + 1]
        <5> HIDE DEF Taken
        <5> QED
          BY <1>0, <1>2, <3>2
      <4> QED
        BY <3>1, <4>1
    <3>3. ASSUME NEW i \in DOMAIN queue' PROVE Taken + (i + 1) = Taken' + i
      <4> HIDE DEF Taken
      <4> QED
        BY <1>0, <1>2, <1>3, <3>3
    <3> QED
      BY <1>1, <3>2, <3>3
  <2>2. ASSUME NEW p \in DOMAIN offered', offered'[p] \in Msg
        PROVE  writer'[offered'[p]] \notin Early /\ (p > Taken' => Fresh(offered[p])')
    <3>1. writer[offered[p]] \notin Early /\ (p > Taken => Fresh(offered[p]))
      BY <1>1, <2>2 DEF WireInv, QueueInv
    <3>2. ASSUME p > Taken' PROVE p > Taken /\ offered[p] # current'
      <4>1. p > Taken + 1 /\ p > Taken
        BY <1>0, <1>1, <1>3, <2>2, <3>2
      <4>2. p # Taken + 1 /\ p \in DOMAIN offered
        BY <1>0, <1>1, <2>2, <4>1
      <4> QED  BY <1>4, <4>1, <4>2 DEF WireInv, QueueInv
    <3> QED  BY <1>1, <3>1, <3>2 DEF Fresh
  <2>3. \A m \in Msg : writer'[m] \in Early => m # current'
    BY <1>1, <1>4
  <2>4. Len(queue') <= Len(offered')
    BY <1>0, <1>1, <1>2 DEF WireInv, QueueInv
  <2> QED  BY <1>1, <2>1, <2>2, <2>3, <2>4 DEF WireInv, QueueInv
<1>6. CurrentInv'
  <2>1. left'[current'] > 0 /\ future'[current'] = "pending"
    BY <1>1, <1>4, WriteAssumption DEF Fresh
  <2>2. Taken + 1 \in 1..Taken' /\ (Taken + 1) - 1 = Taken /\ offered'[Taken + 1] = current'
    BY <1>0, <1>1, <1>3, <1>4
  <2>3. \A i \in DOMAIN wire' : \E p \in 1..((Taken + 1) - 1) : offered'[p] = wire'[i]
    BY <1>1, <2>2 DEF WireInv, SentInv
  <2> QED  BY <2>1, <2>2, <2>3 DEF CurrentInv
<1>7. SentInv'
  <2>1. \A p \in 1..Taken : p \in 1..Taken'
    BY <1>0, <1>3
  <2>2. \A i \in DOMAIN wire : wire[i] # NoMsg
    BY <1>0, WriteAssumption
  <2> QED  BY <1>1, <2>1, <2>2 DEF WireInv, SentInv
<1>8. OpenInv'
  <2> SUFFICES ASSUME ~IsClosing PROVE OpenInv'
    BY <1>1 DEF OpenInv, IsClosing
  <2>1. /\ \A p \in 1..Taken : offered[p] \in Msg /\ left[offered[p]] = 0
        /\ Len(wire) = Size * Taken
    <3>1. \A p \in 1..Taken : offered[p] \in Msg
      BY DEF WireInv, OpenInv
    <3>2. \A p \in 1..Taken : offered[p] # NoMsg
      BY <3>1, WriteAssumption
    <3> QED  BY <1>1, <3>1, <3>2 DEF WireInv, OpenInv
  <2>2. left[current'] = Size
    BY <1>4 DEF Fresh
  <2>3. Size * Taken = Size * Taken' - Size
    BY <1>0, <1>3, WriteAssumption
  <2>4. \A p \in 1..Taken' : p \in 1..Taken \/ p = Taken + 1
    BY <1>0, <1>3
  <2>5. current' # NoMsg /\ Taken' > 0
    BY <1>0, <1>3, <1>4, WriteAssumption
  <2> QED  BY <1>1, <1>3, <1>4, <2>1, <2>2, <2>3, <2>4, <2>5 DEF OpenInv
<1>9. CaughtInv' /\ InOrder'
  BY <1>1 DEF WireInv, CaughtInv, InOrder, IsClosing
<1> QED  BY <1>5, <1>6, <1>7, <1>8, <1>9

\* Which message a unit belongs to, if Size units of each are sent in order.
LEMMA UnitOf ==
  ASSUME NEW t \in Nat \ {0}, NEW i \in Nat, Size * t - Size < i, i <= Size * t
  PROVE  (i - 1) \div Size + 1 = t
<1>1. Size \in Nat \ {0}
  BY WriteAssumption
<1>2. PICK u \in Nat : u = t - 1
  OBVIOUS
<1>3. Size * t = Size * u + Size
  BY <1>1, <1>2
<1>4. PICK k \in 0..(Size - 1) : i - 1 = Size * u + k
  BY <1>1, <1>2, <1>3
<1>5. (Size * u + k) \div Size = u
  BY <1>1, <1>2, <1>4
<1> QED  BY <1>2, <1>4, <1>5

\* A step that sends n units of the current request, and completes it if these
\* are all that is left, or catches an exception.
Sends(n) ==
  /\ current \in Msg \ Unencoded
  /\ n \in 0..left[current] /\ Write(n)
  /\ UNCHANGED <<queue, offered, writer, closing, destroyed>>
  /\ \A m \in Msg \ {current} : future'[m] = future[m]
  /\ \/ n < left[current] /\ UNCHANGED <<current, future, caught>>
     \/ /\ n = left[current] /\ current' = NoMsg /\ caught' = caught
        /\ future'[current] = IF current \in caught THEN "failed" ELSE "written"
     \/ current' = current /\ caught' = caught \cup {current} /\ future'[current] = "failed"

LEMMA SendsEffect ==
  ASSUME TypeOK, WireInv, NEW n, Sends(n)
  PROVE  /\ n \in Nat /\ left[current] \in 0..Size
         /\ left'[current] = left[current] - n
         /\ \A m \in Msg \ {current} : left'[m] = left[m]
         /\ Len(wire') = Len(wire) + n /\ DOMAIN wire' = 1..(Len(wire) + n)
         /\ \A i \in 1..Len(wire) : wire'[i] = wire[i]
         /\ \A i \in (Len(wire) + 1)..(Len(wire) + n) : wire'[i] = current
<1>1. left[current] \in 0..Size /\ n \in Nat
  BY WriteAssumption DEF TypeOK, Sends
<1>2. left' = [left EXCEPT ![current] = @ - n] /\ left \in [Msg -> 0..Size] /\ current \in Msg
  BY DEF Sends, Write, TypeOK
<1>3. [i \in 1..n |-> current] \in Seq(Msg)
  BY <1>1, <1>2
<1>4. Len([i \in 1..n |-> current]) = n
  BY <1>1, <1>3
<1>5. wire \in Seq(Msg) /\ wire' = wire \o [i \in 1..n |-> current]
  BY DEF Sends, Write, TypeOK
<1>6. /\ Len(wire') = Len(wire) + n /\ DOMAIN wire' = 1..(Len(wire) + n)
      /\ \A i \in 1..(Len(wire) + n) :
           wire'[i] = IF i <= Len(wire) THEN wire[i] ELSE [k \in 1..n |-> current][i - Len(wire)]
  <2>1. wire' \in Seq(Msg) /\ Len(wire') = Len(wire) + n
    BY <1>3, <1>4, <1>5, ConcatProperties
  <2>2. DOMAIN wire' = 1..(Len(wire) + n)
    BY <2>1
  <2>3. \A i \in 1..(Len(wire) + n) :
           wire'[i] = IF i <= Len(wire) THEN wire[i] ELSE [k \in 1..n |-> current][i - Len(wire)]
    BY ZenonT(30), <1>3, <1>4, <1>5, ConcatProperties
  <2> QED  BY <2>1, <2>2, <2>3
<1>7. Len(wire) \in Nat
  BY <1>5
<1>8. ASSUME NEW i \in (Len(wire) + 1)..(Len(wire) + n) PROVE wire'[i] = current
  <2>1. i - Len(wire) \in 1..n /\ ~(i <= Len(wire)) /\ i \in 1..(Len(wire) + n)
    BY <1>1, <1>7
  <2> QED  BY <1>6, <2>1
<1> QED  BY <1>1, <1>2, <1>6, <1>7, <1>8

LEMMA SendsWire ==
  ASSUME TypeOK, WireInv, NEW n, Sends(n)
  PROVE  QueueInv' /\ CurrentInv' /\ SentInv' /\ OpenInv' /\ CaughtInv' /\ InOrder'
<1>0. /\ Len(queue) \in Nat /\ Len(offered) \in Nat /\ Taken \in 0..Len(offered) /\ Taken' = Taken
      /\ DOMAIN queue = 1..Len(queue) /\ DOMAIN offered = 1..Len(offered)
      /\ DOMAIN wire = 1..Len(wire) /\ Len(wire) \in Nat
      /\ \A i \in DOMAIN wire : wire[i] \in Msg
  BY TakenType DEF WireInv, TypeOK, Sends, Taken
<1>1. /\ n \in Nat /\ left[current] \in 0..Size
      /\ left'[current] = left[current] - n
      /\ \A m \in Msg \ {current} : left'[m] = left[m]
      /\ DOMAIN wire' = 1..(Len(wire) + n)
      /\ \A i \in 1..Len(wire) : wire'[i] = wire[i]
      /\ \A i \in (Len(wire) + 1)..(Len(wire) + n) : wire'[i] = current
  BY SendsEffect
<1>2. /\ UNCHANGED <<queue, offered, writer, closing, destroyed>>
      /\ current \in Msg /\ current # NoMsg /\ current \notin Unencoded
      /\ \A m \in Msg \ {current} : future'[m] = future[m]
      /\ \/ n < left[current] /\ current' = current /\ future' = future /\ caught' = caught
         \/ /\ n = left[current] /\ current' = NoMsg /\ caught' = caught
            /\ future'[current] = IF current \in caught THEN "failed" ELSE "written"
         \/ current' = current /\ caught' = caught \cup {current} /\ future'[current] = "failed"
      /\ n <= left[current]
  BY WriteAssumption DEF Sends
<1>3. /\ current \notin caught => left[current] > 0 /\ future[current] = "pending"
      /\ current \in caught => future[current] = "failed" /\ future'[current] = "failed"
  BY <1>1, <1>2 DEF WireInv, CurrentInv, CaughtInv
<1>4. PICK c \in 1..Taken :
        /\ offered[c] = current
        /\ \A i \in DOMAIN wire : wire[i] # current => \E p \in 1..(c - 1) : offered[p] = wire[i]
  BY <1>2 DEF WireInv, CurrentInv
<1>5. \A i \in DOMAIN wire' : \/ i \in DOMAIN wire /\ wire'[i] = wire[i]
                              \/ i \notin DOMAIN wire /\ wire'[i] = current
  <2>1. \A i \in 1..(Len(wire) + n) : i \in 1..Len(wire) \/ i \in (Len(wire) + 1)..(Len(wire) + n)
    BY <1>0, <1>1
  <2>2. \A i \in (Len(wire) + 1)..(Len(wire) + n) : i \notin 1..Len(wire)
    BY <1>0, <1>1
  <2> QED  BY <1>0, <1>1, <2>1, <2>2
<1>6. QueueInv'
  <2>1. ASSUME NEW p \in DOMAIN offered, offered[p] \in Msg, p > Taken PROVE Fresh(offered[p])'
    <3>1. Fresh(offered[p])
      BY <2>1 DEF WireInv, QueueInv
    <3> QED  BY <1>1, <1>2, <2>1, <3>1, WriteAssumption DEF Fresh
  <2>2. \A m \in Msg : writer[m] \in Early => m # current
    BY DEF WireInv, QueueInv
  <2>3. \A m \in Msg : writer[m] \in Early =>
          m # current' /\ left'[m] = left[m] /\ future'[m] = future[m]
    BY <1>1, <1>2, <2>2, WriteAssumption
  <2>4. \A p \in DOMAIN offered' : offered'[p] \in Msg =>
          writer'[offered'[p]] \notin Early /\ (p > Taken' => Fresh(offered[p])')
    BY <1>0, <1>2, <2>1 DEF WireInv, QueueInv
  <2>5. \A m \in Msg :
          /\ writer'[m] \in Early => left'[m] = Size /\ m # current'
          /\ writer'[m] = "new" => future'[m] = "none"
          /\ writer'[m] \in Early \ {"new"} => future'[m] = "pending"
    BY <1>2, <2>3 DEF WireInv, QueueInv, Early
  <2> QED  BY <1>0, <1>2, <2>4, <2>5 DEF WireInv, QueueInv
<1>7. CurrentInv'
  <2> SUFFICES ASSUME current' \in Msg PROVE CurrentInv'
    BY DEF CurrentInv
  <2>1. current' = current
    BY <1>2, WriteAssumption
  <2>2. current \notin caught' => left'[current] > 0 /\ future'[current] = "pending"
    BY <1>1, <1>2, <1>3, <2>1, WriteAssumption
  <2>3. \A i \in DOMAIN wire' : wire'[i] # current' => \E p \in 1..(c - 1) : offered'[p] = wire'[i]
    BY <1>2, <1>4, <1>5, <2>1
  <2> QED  BY <1>0, <1>2, <1>3, <1>4, <2>1, <2>2, <2>3 DEF CurrentInv
<1>8. SentInv'
  <2>1. ASSUME NEW i \in DOMAIN wire'
        PROVE  /\ \E p \in 1..Taken' : offered'[p] = wire'[i]
               /\ wire'[i] = current' \/ left'[wire'[i]] = 0 \/ future'[wire'[i]] = "failed"
    <3>1. CASE wire'[i] = current
      <4>1. current' = current \/ left'[current] = 0
        BY <1>1, <1>2, WriteAssumption
      <4> QED  BY <1>0, <1>2, <1>4, <3>1, <4>1
    <3>2. CASE wire'[i] # current
      <4>1. i \in DOMAIN wire /\ wire'[i] = wire[i] /\ wire[i] \in Msg
        BY <1>0, <1>5, <3>2
      <4>2. left[wire[i]] = 0 \/ future[wire[i]] = "failed"
        BY <3>2, <4>1 DEF WireInv, SentInv
      <4>3. \E p \in 1..Taken : offered[p] = wire[i]
        BY <4>1 DEF WireInv, SentInv
      <4> QED  BY <1>0, <1>1, <1>2, <3>2, <4>1, <4>2, <4>3
    <3> QED  BY <3>1, <3>2
  <2>2. \A m \in Unencoded : m \in Msg /\ m # current /\ left'[m] = Size /\ \A i \in DOMAIN wire' : wire'[i] # m
    BY <1>1, <1>2, <1>5, WriteAssumption DEF WireInv, SentInv
  <2> QED  BY <2>1, <2>2 DEF SentInv
<1>9. ASSUME ~IsClosing
      PROVE  /\ Taken > 0 /\ offered[Taken] = current
             /\ Len(wire) = Size * Taken - left[current]
             /\ \A p \in 1..Taken : offered[p] \in Msg /\ (offered[p] = current \/ left[offered[p]] = 0)
  BY <1>2, <1>9 DEF WireInv, OpenInv
<1>10. Size * Taken \in Nat /\ Size \in Nat /\ Taken \in Nat
  BY <1>0, WriteAssumption
<1>11. OpenInv'
  <2> SUFFICES ASSUME ~IsClosing PROVE OpenInv'
    BY <1>2 DEF OpenInv, IsClosing
  <2>1. Len(wire') = Len(wire) + n
    BY SendsEffect
  <2>2. Len(wire') = Size * Taken - left'[current]
    <3>1. PICK k \in Nat, l \in Nat : k = Size * Taken /\ l = left[current]
      BY <1>1, <1>10
    <3>2. Len(wire) = k - l /\ left'[current] = l - n
      BY <1>1, <1>9, <3>1
    <3> QED  BY <1>1, <2>1, <3>1, <3>2
  <2>3. ASSUME NEW p \in 1..Taken PROVE offered[p] = current' \/ left'[offered[p]] = 0
    <3>1. offered[p] \in Msg /\ (offered[p] = current \/ left[offered[p]] = 0)
      BY <1>9
    <3>2. current' = current \/ left'[current] = 0
      BY <1>1, <1>2
    <3> QED  BY <1>1, <3>1, <3>2
  <2>4. CASE current' = current
    BY <1>0, <1>2, <1>9, <2>2, <2>3, <2>4 DEF OpenInv
  <2>5. CASE current' = NoMsg /\ n = left[current]
    <3>1. Len(wire') = Size * Taken
      BY <1>1, <1>10, <2>2, <2>5
    <3> QED  BY <1>0, <1>2, <1>9, <2>3, <2>5, <3>1 DEF OpenInv
  <2> QED  BY <1>2, <2>4, <2>5
<1>12. CaughtInv'
  <2>1. ASSUME NEW m \in caught' PROVE future'[m] = "failed"
    BY <1>2, <1>3, <2>1 DEF WireInv, CaughtInv, TypeOK
  <2>2. ASSUME NEW m \in Msg \ caught', future'[m] = "failed" PROVE left'[m] > 0
    <3>1. m \notin caught /\ m # current
      BY <1>2, <1>3, <2>2
    <3> QED  BY <1>1, <1>2, <2>2, <3>1 DEF WireInv, CaughtInv
  <2> QED  BY <2>1, <2>2 DEF CaughtInv
<1>13. InOrder'
  <2>1. ASSUME ~IsClosing', NEW i \in DOMAIN wire'
        PROVE  (i - 1) \div Size + 1 \in DOMAIN offered' /\ wire'[i] = offered'[(i - 1) \div Size + 1]
    <3>0. ~IsClosing
      BY <1>2, <2>1 DEF IsClosing
    <3>1. CASE i \in DOMAIN wire /\ wire'[i] = wire[i]
      BY <1>2, <3>0, <3>1 DEF WireInv, InOrder
    <3>2. CASE i \notin DOMAIN wire /\ wire'[i] = current
      <4>1. i \in Nat /\ i > Len(wire) /\ i <= Len(wire) + n
        BY <1>0, <1>1, <2>1, <3>2
      <4>2. n <= left[current] /\ left[current] <= Size
        BY <1>1, <1>2
      <4>3. Size * Taken - Size < i /\ i <= Size * Taken
        BY <1>0, <1>1, <1>9, <1>10, <3>0, <4>1, <4>2
      <4>4. Taken \in Nat \ {0}
        BY <1>9, <1>10, <3>0
      <4>5. (i - 1) \div Size + 1 = Taken
        BY <4>1, <4>3, <4>4, UnitOf
      <4>6. Taken \in DOMAIN offered
        BY <1>0, <4>4
      <4> QED  BY <1>2, <1>9, <3>0, <3>2, <4>5, <4>6
    <3> QED  BY <1>5, <2>1, <3>1, <3>2
  <2>2. ASSUME NEW i \in DOMAIN wire', NEW j \in DOMAIN wire', i < j, wire'[i] # wire'[j]
        PROVE  /\ left'[wire'[i]] = 0 \/ future'[wire'[i]] = "failed"
               /\ \E p, q \in DOMAIN offered' : p < q /\ offered'[p] = wire'[i] /\ offered'[q] = wire'[j]
    <3>1. CASE j \in DOMAIN wire
      <4>1. i \in DOMAIN wire /\ wire'[i] = wire[i] /\ wire'[j] = wire[j] /\ wire[i] \in Msg
        BY <1>0, <1>1, <1>5, <2>2, <3>1
      <4>2. left[wire[i]] = 0 \/ future[wire[i]] = "failed"
        BY <2>2, <4>1, <3>1 DEF WireInv, InOrder
      <4>3. left'[wire[i]] = 0 \/ future'[wire[i]] = "failed"
        <5>1. CASE wire[i] # current
          BY <1>1, <1>2, <4>1, <4>2, <5>1
        <5>2. CASE wire[i] = current
          <6>1. current \in caught
            BY <1>3, <4>2, <5>2
          <6> QED  BY <1>3, <5>2, <6>1
        <5> QED  BY <5>1, <5>2
      <4>4. \E p, q \in DOMAIN offered : p < q /\ offered[p] = wire[i] /\ offered[q] = wire[j]
        BY <2>2, <4>1, <3>1 DEF WireInv, InOrder
      <4> QED  BY <1>1, <1>2, <4>1, <4>2, <4>3, <4>4
    <3>2. CASE j \notin DOMAIN wire
      <4>1. wire'[j] = current
        BY <1>5, <2>2, <3>2
      <4>2. i \in DOMAIN wire /\ wire'[i] = wire[i] /\ wire[i] # current /\ wire[i] \in Msg
        BY <1>0, <1>5, <2>2, <4>1
      <4>3. left[wire[i]] = 0 \/ future[wire[i]] = "failed"
        BY <4>2 DEF WireInv, SentInv
      <4>4. PICK p \in 1..(c - 1) : offered[p] = wire[i]
        BY <1>4, <4>2
      <4>5. p \in DOMAIN offered /\ c \in DOMAIN offered /\ p < c
        BY <1>0
      <4> QED  BY <1>1, <1>2, <1>4, <4>1, <4>2, <4>3, <4>4, <4>5
    <3> QED  BY <3>1, <3>2
  <2> QED  BY <2>1, <2>2 DEF InOrder
<1> QED  BY <1>6, <1>7, <1>8, <1>11, <1>12, <1>13

\* What completing write futures changes of the others.
LEMMA CompleteOthers ==
  ASSUME NEW f \in FutureType, NEW S, NEW value, NEW m \in Msg
  PROVE  /\ m \notin S => Complete(f, S, value)[m] = f[m]
         /\ f[m] # "pending" => Complete(f, S, value)[m] = f[m]
         /\ m \in S /\ f[m] = "pending" => Complete(f, S, value)[m] = value
BY DEF Complete

LEMMA RemoveNowOthers ==
  ASSUME TypeOK, RemoveNow(queue, future), NEW m \in Msg, m \notin MsgsIn(queue)
  PROVE  future'[m] = future[m]
<1> DEFINE discarded == IF IsClosing THEN {} ELSE Behind(queue)
<1>1. m \notin discarded
  BY DEF Behind, MsgsIn
<1>2. future \in FutureType /\ Complete(future, discarded, "written") \in FutureType
  BY CompleteType DEF TypeOK, FutureType
<1>3. Complete(future, discarded, "written")[m] = future[m]
  BY <1>1, <1>2, CompleteOthers
<1>4. Complete(Complete(future, discarded, "written"), MsgsIn(queue), "failed")[m] = future[m]
  BY <1>2, <1>3, CompleteOthers
<1> QED  BY <1>4 DEF RemoveNow

\* The steps of writers past the offer and of writers that look at the
\* suspension, and those of the threads that toggle and close.
LEMMA WritersDrop ==
  ASSUME TypeOK, NEW m \in Msg, LookSuspended(m) \/ LookAgain(m) \/ Flag(m) \/ Enqueue(m)
  PROVE  Drops
<1>1. UNCHANGED <<queue, current, left, future, caught, offered, wire, closing, destroyed>>
  BY DEF LookSuspended, LookAgain, Flag, Enqueue, dataVars, closeVars
<1>2. \E pc \in WriterPc : /\ writer' = [writer EXCEPT ![m] = pc]
                           /\ pc \in Early <=> writer[m] \in Early
                           /\ pc # "new" /\ writer[m] # "new"
  BY DEF LookSuspended, LookAgain, Flag, Enqueue, WriterStep, WriterPc, Early
<1>3. \A x \in Msg : /\ writer'[x] \in Early <=> writer[x] \in Early
                     /\ writer'[x] = "new" <=> writer[x] = "new"
  BY <1>2 DEF TypeOK
<1> QED  BY <1>1, <1>3 DEF Drops

LEMMA ThreadsDrop ==
  ASSUME Toggle \/ TogglerNext \/ CloseNowRemove \/ CloseOnFlush \/ CloseOnFlushFlag \/ CloseOnFlushEnqueue
         \/ Process \/ ReadFails \/ PollFlushing \/ FlushingEmpty \/ Unschedule \/ NothingToWrite
         \/ AfterFlush \/ NoTimeout \/ RemoveEmpty \/ Drain \/ UNCHANGED vars
  PROVE  Drops
<1>1. UNCHANGED <<queue, current, left, future, caught, offered, wire, closing, destroyed, writer>>
  BY DEF Toggle, TogglerNext, Compute, Apply, CloseNowRemove, CloseOnFlush, CloseOnFlushFlag, CloseOnFlushEnqueue,
     Process, ReadFails, PollFlushing, FlushingEmpty, Unschedule, NothingToWrite,
     AfterFlush, NoTimeout, RemoveEmpty, Drain, vars, dataVars, closeVars, clientVars
<1> QED  BY <1>1 DEF Drops

\* The request nobody encoded.
LEMMA UnencodedDrops ==
  ASSUME TypeOK, CurrentInv, CaughtInv, WriteThrows, current \in Unencoded
  PROVE  Drops
<1>1. /\ UNCHANGED <<queue, current, left, offered, wire, writer, closing, destroyed>>
      /\ future' = Complete(future, {current}, "failed") /\ caught' = caught \cup {current}
  BY WriteAssumption DEF WriteThrows, closeVars, clientVars
<1>2. future \in FutureType /\ current \in Msg
  BY WriteAssumption DEF TypeOK, FutureType
<1>3. \A m \in Msg \ {current} : future'[m] = future[m]
  BY <1>1, <1>2, CompleteOthers
<1>4. future'[current] = "failed"
  BY <1>1, <1>2, CompleteOthers DEF CurrentInv, CaughtInv
<1> QED  BY <1>1, <1>3, <1>4 DEF Drops

\* The steps that close and remove the session.
LEMMA ClosersDrop ==
  ASSUME TypeOK, CurrentInv, CaughtInv,
         CloseNow \/ PollClose \/ WriteFails \/ WriteTimeout \/ RemoveSession,
         QueueInv
  PROVE  Drops
<1>0. UNCHANGED <<left, caught, offered, wire, writer>> /\ future \in FutureType
  BY DEF CloseNow, PollClose, WriteFails, WriteTimeout, RemoveSession, clientVars, TypeOK, FutureType
<1>1. current \in Msg => current \notin MsgsIn(queue)
  BY InQueue DEF Fresh
<1>2. \A m \in Msg : m \notin MsgsIn(queue) => Drained(future)[m] = future[m]
  BY <1>0, CompleteOthers DEF Drained
<1>3. CASE CloseNow
  <2>1. CASE IsClosing
    BY <1>0, <1>3, <2>1 DEF CloseNow, Drops, IsClosing
  <2>2. CASE ~IsClosing
    BY <1>0, <1>1, <1>2, <1>3, <2>2 DEF CloseNow, Drops, IsClosing
  <2> QED  BY <2>1, <2>2
<1>4. CASE PollClose
  <2>1. CASE IsClosing
    BY <1>0, <1>4, <2>1 DEF PollClose, Drops, IsClosing
  <2>2. CASE ~IsClosing
    BY <1>0, <1>1, <1>2, <1>4, <2>2 DEF PollClose, Drops, IsClosing
  <2> QED  BY <2>1, <2>2
<1>5. CASE WriteFails
  <2>1. UNCHANGED current /\ queue' = <<>> /\ IsClosing'
    BY <1>5 DEF WriteFails, RemoveNow, IsClosing
  <2>2. \A m \in Msg : m \notin MsgsIn(queue) => future'[m] = future[m]
    <3>1. CASE IsClosing
      BY <1>5, <3>1, RemoveNowOthers DEF WriteFails
    <3>2. CASE ~IsClosing
      BY <1>2, <1>5, <3>2 DEF WriteFails
    <3> QED  BY <3>1, <3>2
  <2> QED  BY <1>0, <1>1, <2>1, <2>2 DEF Drops
<1>6. CASE WriteTimeout
  <2> DEFINE failed == Complete(future, {current}, "failed")
  <2>1. failed \in FutureType
    BY <1>0, CompleteType
  <2>2. \A m \in Msg \ {current} : failed[m] = future[m]
    BY <1>0, CompleteOthers
  <2>3. current \in Msg => failed[current] = "failed"
    BY <1>0, CompleteOthers DEF CurrentInv, CaughtInv
  <2>4. \A m \in Msg : m \notin MsgsIn(queue) => Drained(failed)[m] = failed[m]
    BY <2>1, CompleteOthers DEF Drained
  <2>5. /\ current' = NoMsg /\ IsClosing'
        /\ \/ queue' = queue /\ future' = failed
           \/ queue' = <<>> /\ future' = Drained(failed)
    BY <1>6 DEF WriteTimeout, IsClosing
  <2>6. \A m \in Msg \ {current} : m \notin MsgsIn(queue) \/ queue' # <<>> => future'[m] = future[m]
    BY <2>2, <2>4, <2>5
  <2>7. current \in Msg => future'[current] = "failed"
    BY <1>1, <2>3, <2>4, <2>5
  <2> HIDE DEF failed
  <2> QED  BY <1>0, <2>5, <2>6, <2>7 DEF Drops
<1>7. CASE RemoveSession
  <2>1. CASE destroyed
    BY <1>0, <1>7, <2>1 DEF RemoveSession, Drops
  <2>2. CASE ~destroyed
    <3>1. UNCHANGED current /\ queue' = <<>> /\ IsClosing' /\ RemoveNow(queue, future)
      BY <1>7, <2>2 DEF RemoveSession, RemoveNow, IsClosing
    <3>2. \A m \in Msg : m \notin MsgsIn(queue) => future'[m] = future[m]
      BY <3>1, RemoveNowOthers
    <3> QED  BY <1>0, <1>1, <3>1, <3>2 DEF Drops
  <2> QED  BY <2>1, <2>2
<1> QED  BY <1>3, <1>4, <1>5, <1>6, <1>7

\* The steps that offer and that send.
LEMMA OfferOffers ==
  ASSUME TypeOK
  PROVE  /\ \A m \in Msg : Offer(m) => Offers(m)
         /\ CloseOnFlushOffer => Offers(CloseRequest)
BY DEF Offer, CloseOnFlushOffer, Offers, closeVars, toggleVars, WriterStep, WriterPc, Early

LEMMA WriteSends ==
  ASSUME TypeOK, CurrentInv, CaughtInv, WritePart \/ WriteAll \/ SentThrows
  PROVE  \E n : Sends(n)
<1>0. future \in FutureType /\ left \in [Msg -> 0..Size] /\ room \in 0..Capacity
  BY DEF TypeOK, FutureType
<1>1. CASE WritePart
  <2>1. PICK n \in 0..room : n < left[current] /\ Write(n)
    BY <1>1 DEF WritePart
  <2>2. n \in 0..left[current]
    BY <1>0, <1>1, <2>1, WriteAssumption DEF WritePart
  <2>3. Sends(n)
    BY <1>1, <2>1, <2>2 DEF WritePart, Sends, closeVars, clientVars
  <2> QED  BY <2>3
<1>2. CASE WriteAll \/ SentThrows
  <2>1. current \in Msg \ Unencoded /\ left[current] \in 0..left[current]
    BY <1>0, <1>2, WriteAssumption DEF WriteAll, SentThrows
  <2>2. future' = Complete(future, {current}, "written")
    BY <1>2 DEF WriteAll, SentThrows
  <2>3. \A m \in Msg \ {current} : future'[m] = future[m]
    BY <1>0, <2>2, CompleteOthers
  <2>4. future'[current] = IF current \in caught THEN "failed" ELSE "written"
    BY <1>0, <2>1, <2>2, CompleteOthers DEF CurrentInv, CaughtInv
  <2>5. Sends(left[current])
    BY <1>2, <2>1, <2>3, <2>4 DEF WriteAll, SentThrows, Sends, closeVars, clientVars
  <2> QED  BY <2>5
<1> QED  BY <1>1, <1>2

\* The exceptions of messages that can be sent, and what follows reset()'s.
LEMMA ThrowSends ==
  ASSUME TypeOK, CurrentInv, CaughtInv, (WriteThrows /\ current \notin Unencoded) \/ TakeOffSent
  PROVE  \E n : Sends(n)
<1>0. /\ future \in FutureType /\ left \in [Msg -> 0..Size] /\ room \in 0..Capacity /\ wire \in Seq(Msg)
      /\ current \in Msg \ Unencoded /\ left[current] \in Nat
  BY WriteAssumption DEF TypeOK, FutureType, WriteThrows, TakeOffSent
<1>1. ASSUME UNCHANGED <<left, wire, room>> PROVE Write(0)
  <2>1. left' = [left EXCEPT ![current] = @ - 0]
    BY <1>0, <1>1
  <2>2. [i \in 1..0 |-> current] = <<>>
    OBVIOUS
  <2>3. wire' = wire \o [i \in 1..0 |-> current]
    BY <1>0, <1>1, <2>2
  <2>4. room' = room - 0
    BY <1>0, <1>1, WriteAssumption
  <2> QED  BY <2>1, <2>3, <2>4 DEF Write
<1>2. CASE WriteThrows
  <2>1. \E n \in {0, left[current]} : Write(n)
    BY <1>0, <1>1, <1>2 DEF WriteThrows
  <2>2. PICK n \in {0, left[current]} : Write(n)
    BY <2>1
  <2>3. future' = Complete(future, {current}, "failed") /\ caught' = caught \cup {current}
    BY <1>2 DEF WriteThrows
  <2>4. \A m \in Msg \ {current} : future'[m] = future[m]
    BY <1>0, <2>3, CompleteOthers
  <2>5. future'[current] = "failed"
    BY <1>0, <2>3, CompleteOthers DEF CurrentInv, CaughtInv
  <2>6. n \in 0..left[current]
    BY <1>0, <2>2
  <2>7. Sends(n)
    BY <1>0, <1>2, <2>2, <2>3, <2>4, <2>5, <2>6 DEF WriteThrows, Sends, closeVars, clientVars
  <2> QED  BY <2>7
<1>3. CASE TakeOffSent
  <2>1. Write(0) /\ left[current] = 0
    BY <1>1, <1>3 DEF TakeOffSent
  <2>2. future' = Complete(future, {current}, "written") /\ caught' = caught
    BY <1>3 DEF TakeOffSent
  <2>3. \A m \in Msg \ {current} : future'[m] = future[m]
    BY <1>0, <2>2, CompleteOthers
  <2>4. current \in caught /\ future[current] = "failed"
    BY <1>0, <2>1 DEF CurrentInv, CaughtInv
  <2>5. Complete(future, {current}, "written")[current] = future[current]
    BY <1>0, <2>4, CompleteOthers
  <2>6. current \in Msg \ Unencoded /\ 0 \in 0..left[current] /\ future'[current] = "failed"
    BY <1>0, <2>1, <2>2, <2>4, <2>5
  <2>7. current' = NoMsg /\ UNCHANGED <<queue, offered, writer, closing, destroyed>>
    BY <1>3 DEF TakeOffSent, closeVars, clientVars
  <2>8. Sends(0)
    BY <2>1, <2>2, <2>3, <2>4, <2>6, <2>7 DEF Sends
  <2> QED  BY <2>8
<1> QED  BY <1>2, <1>3

\* Every step, by what it does to the data.
LEMMA StepKinds ==
  ASSUME TypeOK, QueueInv, CurrentInv, CaughtInv, [Next]_vars
  PROVE  \/ Drops \/ PollRequest
         \/ \E m \in Msg : BeginWrite(m)
         \/ \E x \in Item : Offers(x)
         \/ \E n : Sends(n)
<1>1. ASSUME NEW m \in Msg, BeginWrite(m) \/ WriterNext(m)
      PROVE  Drops \/ BeginWrite(m) \/ Offers(m)
  BY <1>1, WritersDrop, OfferOffers DEF WriterNext
<1>2. CASE CloserNext
  BY <1>2, ThreadsDrop, OfferOffers DEF CloserNext, Item
<1>3. CASE ProcNext
  BY <1>3, ThreadsDrop, ClosersDrop, UnencodedDrops, WriteSends, ThrowSends DEF ProcNext
<1>4. CASE Toggle \/ TogglerNext \/ CloseNow \/ CloseOnFlush \/ ReadFails \/ WriteFails \/ WriteTimeout
           \/ Drain \/ UNCHANGED vars
  BY <1>4, ThreadsDrop, ClosersDrop
<1>5. Msg \subseteq Item
  BY DEF Item
<1>6. CASE \E m \in Msg : BeginWrite(m) \/ WriterNext(m)
  BY <1>1, <1>5, <1>6
<1> QED  BY <1>2, <1>3, <1>4, <1>6 DEF Next

LEMMA RemovalStep ==
  ASSUME TypeOK, RemovalInv, [Next]_vars
  PROVE  RemovalInv'
<1>1. CASE UNCHANGED <<removing, closing, abrupt, closer>>
  BY <1>1 DEF RemovalInv
<1>2. CASE CloseNow \/ CloseNowRemove \/ ReadFails \/ WriteFails \/ WriteTimeout
  BY <1>2 DEF CloseNow, CloseNowRemove, ReadFails, WriteFails, WriteTimeout, RemovalInv
<1>3. CASE PollClose
  BY <1>3 DEF PollClose, clientVars, RemovalInv
<1>4. CASE RemoveSession
  BY <1>4 DEF RemoveSession, clientVars, RemovalInv, TypeOK
<1>5. ASSUME NEW m \in Msg, BeginWrite(m) \/ WriterNext(m) PROVE UNCHANGED <<removing, closing, abrupt, closer>>
  BY <1>5 DEF BeginWrite, WriterNext, LookSuspended, Offer, LookAgain, Flag, Enqueue, closeVars
<1>6. CASE Toggle \/ TogglerNext \/ CloseOnFlush \/ CloseOnFlushOffer \/ CloseOnFlushFlag \/ CloseOnFlushEnqueue
           \/ Drain \/ UNCHANGED vars
  <2>1. UNCHANGED <<removing, closing, abrupt, closer>>
    BY <1>6 DEF Toggle, TogglerNext, Compute, Apply, CloseOnFlush, CloseOnFlushOffer, CloseOnFlushFlag,
       CloseOnFlushEnqueue, Drain, vars, closeVars, clientVars
  <2> QED  BY <1>1, <2>1
<1>7. CASE Process \/ PollFlushing \/ FlushingEmpty \/ Unschedule \/ NothingToWrite \/ PollRequest
           \/ WritePart \/ WriteAll \/ WriteThrows \/ SentThrows \/ TakeOffSent \/ AfterFlush \/ NoTimeout \/ RemoveEmpty
  <2>1. UNCHANGED <<removing, closing, abrupt, closer>>
    BY <1>7 DEF Process, PollFlushing, FlushingEmpty, Unschedule, NothingToWrite, PollRequest,
       WritePart, WriteAll, WriteThrows, SentThrows, TakeOffSent, AfterFlush, NoTimeout, RemoveEmpty, closeVars, clientVars
  <2> QED  BY <1>1, <2>1
<1> QED  BY <1>1, <1>2, <1>3, <1>4, <1>5, <1>6, <1>7 DEF Next, CloserNext, ProcNext

\* Nothing but closeOnFlush() closes a session other than abruptly, and
\* closing and abrupt stay set.
LEMMA GentleClose ==
  ASSUME TypeOK, RemovalInv, [Next]_vars, closing', ~abrupt', ~closing
  PROVE  PollClose /\ ~IsClosing
<1>1. CASE CloseNow \/ WriteFails \/ WriteTimeout
  BY <1>1 DEF CloseNow, WriteFails, WriteTimeout
<1>2. CASE RemoveSession
  BY <1>2 DEF RemoveSession, RemovalInv, TypeOK
<1>3. CASE PollClose
  BY <1>3 DEF PollClose
<1>4. ASSUME NEW m \in Msg, BeginWrite(m) \/ WriterNext(m) PROVE UNCHANGED closing
  BY <1>4 DEF BeginWrite, WriterNext, LookSuspended, Offer, LookAgain, Flag, Enqueue, closeVars
<1>5. CASE Toggle \/ TogglerNext \/ CloserNext \/ CloseOnFlush \/ ReadFails \/ Drain \/ UNCHANGED vars
  <2>1. UNCHANGED closing
    BY <1>5 DEF Toggle, TogglerNext, Compute, Apply, CloserNext, CloseNowRemove, CloseOnFlush, CloseOnFlushOffer,
       CloseOnFlushFlag, CloseOnFlushEnqueue, ReadFails, Drain, vars, closeVars
  <2> QED  BY <2>1
<1>6. CASE Process \/ PollFlushing \/ FlushingEmpty \/ Unschedule \/ NothingToWrite \/ PollRequest
           \/ WritePart \/ WriteAll \/ WriteThrows \/ SentThrows \/ TakeOffSent \/ AfterFlush \/ NoTimeout \/ RemoveEmpty
  <2>1. UNCHANGED closing
    BY <1>6 DEF Process, PollFlushing, FlushingEmpty, Unschedule, NothingToWrite, PollRequest,
       WritePart, WriteAll, WriteThrows, SentThrows, TakeOffSent, AfterFlush, NoTimeout, RemoveEmpty, closeVars
  <2> QED  BY <2>1
<1> QED  BY <1>1, <1>2, <1>3, <1>4, <1>5, <1>6 DEF Next, ProcNext

LEMMA AbruptStays ==
  ASSUME [Next]_vars, abrupt
  PROVE  abrupt'
<1>1. ASSUME NEW m \in Msg, BeginWrite(m) \/ WriterNext(m) PROVE UNCHANGED abrupt
  BY <1>1 DEF BeginWrite, WriterNext, LookSuspended, Offer, LookAgain, Flag, Enqueue, closeVars
<1>2. CASE Toggle \/ TogglerNext \/ CloseNow \/ CloseOnFlush \/ CloserNext \/ ReadFails \/ WriteFails
           \/ WriteTimeout \/ Drain \/ UNCHANGED vars
  BY <1>2 DEF Toggle, TogglerNext, Compute, Apply, CloseNow, CloseOnFlush, CloserNext, CloseNowRemove,
     CloseOnFlushOffer, CloseOnFlushFlag, CloseOnFlushEnqueue, ReadFails, WriteFails, WriteTimeout, Drain,
     vars, closeVars
<1>3. CASE ProcNext
  BY <1>3 DEF ProcNext, Process, PollFlushing, FlushingEmpty, Unschedule, NothingToWrite, PollClose, PollRequest,
     WritePart, WriteAll, WriteThrows, SentThrows, TakeOffSent, AfterFlush, NoTimeout, RemoveSession, RemoveEmpty, closeVars
<1> QED  BY <1>1, <1>2, <1>3 DEF Next

\* What is offered stays offered, and what is sent stays sent.
LEMMA DataGrows ==
  ASSUME TypeOK, WireInv, [Next]_vars
  PROVE  /\ \A p \in DOMAIN offered : p \in DOMAIN offered' /\ offered'[p] = offered[p]
         /\ \A m \in Msg : left[m] = 0 => left'[m] = 0
<1>1. CASE \E n : Sends(n)
  <2>1. PICK n : Sends(n)
    BY <1>1
  <2>2. \A m \in Msg \ {current} : left'[m] = left[m]
    BY <2>1, SendsEffect
  <2>3. left[current] = 0 => left'[current] = 0
    <3>1. n \in 0..left[current] /\ left'[current] = left[current] - n
      BY <2>1, SendsEffect DEF Sends
    <3> QED  BY <3>1
  <2> QED  BY <2>1, <2>2, <2>3 DEF Sends
<1>2. CASE \E x \in Item : Offers(x)
  <2>1. PICK x \in Item : Offers(x)
    BY <1>2
  <2>2. offered \in Seq(Item) /\ offered' = Append(offered, x) /\ left' = left
    BY <2>1 DEF TypeOK, Item, Offers
  <2> QED  BY <2>2, AppendProperties
<1>3. CASE Drops \/ PollRequest \/ \E m \in Msg : BeginWrite(m)
  BY <1>3 DEF Drops, PollRequest, BeginWrite
<1> QED  BY <1>1, <1>2, <1>3, StepKinds DEF WireInv

LEMMA FlushBeforeCloseStep ==
  ASSUME TypeOK, WireInv, [Next]_vars
  PROVE  FlushBeforeClose'
<1> SUFFICES ASSUME closing', ~abrupt' PROVE FlushBeforeClose'
  BY DEF FlushBeforeClose
<1>0. /\ DOMAIN offered = 1..Len(offered) /\ Len(offered) \in Nat
      /\ Taken \in 0..Len(offered) /\ DOMAIN queue = 1..Len(queue)
      /\ offered \in Seq(Item)
  BY TakenType DEF WireInv, TypeOK, Item
<1>1. PICK i \in DOMAIN offered :
        /\ offered[i] = CloseRequest
        /\ \A j \in 1..(i - 1) : offered[j] \in Msg => left[offered[j]] = 0
  <2>1. CASE closing
    <3>1. ~abrupt
      BY AbruptStays
    <3> QED  BY <2>1, <3>1 DEF WireInv, FlushBeforeClose
  <2>2. CASE ~closing
    <3>1. PollClose /\ ~IsClosing
      BY <2>2, GentleClose DEF WireInv
    <3>2. current = NoMsg /\ queue # <<>> /\ Head(queue) = CloseRequest /\ queue \in Seq(Item)
      BY <3>1 DEF PollClose, TypeOK, Item
    <3>3. 1 \in DOMAIN queue /\ queue[1] = CloseRequest
      BY <1>0, <3>2
    <3>4. offered[Taken + 1] = CloseRequest
      BY <3>3 DEF WireInv, QueueInv
    <3>5. Taken + 1 \in DOMAIN offered /\ (Taken + 1) - 1 = Taken
      BY <1>0, <3>3 DEF Taken
    <3>6. \A j \in 1..Taken : offered[j] \in Msg => left[offered[j]] = 0
      BY <3>1, <3>2, WriteAssumption DEF WireInv, OpenInv
    <3> QED  BY <3>4, <3>5, <3>6
  <2> QED  BY <2>1, <2>2
<1>2. \A j \in 1..(i - 1) : j \in DOMAIN offered
  BY <1>0
<1>3. i \in DOMAIN offered' /\ offered'[i] = CloseRequest
  BY <1>1, DataGrows
<1>4. \A j \in 1..(i - 1) : offered'[j] \in Msg => left'[offered'[j]] = 0
  BY <1>1, <1>2, DataGrows
<1> QED  BY <1>3, <1>4 DEF FlushBeforeClose

LEMMA WireInvStep == TypeOK /\ WireInv /\ [Next]_vars => WireInv'
<1> SUFFICES ASSUME TypeOK, WireInv, [Next]_vars PROVE WireInv'
  OBVIOUS
<1>1. QueueInv' /\ CurrentInv' /\ SentInv' /\ OpenInv' /\ CaughtInv' /\ InOrder'
  <2>1. CASE Drops
    BY <2>1, DropsQueue, DropsWire DEF WireInv
  <2> QED  BY <2>1, BeginsWire, OffersWire, PollsWire, SendsWire, StepKinds DEF WireInv
<1>2. RemovalInv' /\ FlushBeforeClose'
  BY RemovalStep, FlushBeforeCloseStep DEF WireInv
<1> QED  BY <1>1, <1>2 DEF WireInv

LEMMA WireInvInvariant == Spec => []WireInv
<1>1. Init => WireInv
  <2> SUFFICES ASSUME Init PROVE WireInv
    OBVIOUS
  <2>1. queue = <<>> /\ offered = <<>> /\ wire = <<>> /\ Taken = 0 /\ DOMAIN wire = {} /\ DOMAIN offered = {}
    BY DEF Init, Taken
  <2>2. QueueInv
    BY <2>1, WriteAssumption DEF Init, QueueInv, Early
  <2>3. CurrentInv /\ SentInv /\ RemovalInv /\ FlushBeforeClose
    BY <2>1, WriteAssumption DEF Init, CurrentInv, SentInv, RemovalInv, FlushBeforeClose
  <2>4. OpenInv
    BY <2>1, WriteAssumption DEF Init, OpenInv
  <2>5. CaughtInv /\ InOrder
    BY <2>1 DEF Init, CaughtInv, InOrder
  <2> QED  BY <2>2, <2>3, <2>4, <2>5 DEF WireInv
<1>2. TypeOK /\ WireInv /\ [Next]_vars => WireInv'
  BY WireInvStep
<1> QED  BY <1>1, <1>2, TypeCorrect, PTL DEF Spec

\* What failed, other than by an exception that flushNow() caught, is neither
\* the current request nor in the queue.
LEMMA WireInvTruthful == TypeOK /\ WireInv => WireTruthful
<1> SUFFICES ASSUME TypeOK, WireInv PROVE WireTruthful
  OBVIOUS
<1>1. ASSUME NEW m \in Msg, future[m] = "failed", m \notin caught
      PROVE  left[m] > 0 /\ m # current /\ m \notin MsgsIn(queue)
  <2>1. left[m] > 0
    BY <1>1 DEF WireInv, CaughtInv
  <2>2. m # current
    BY <1>1 DEF WireInv, CurrentInv
  <2>3. m \notin MsgsIn(queue)
    BY <1>1, InQueue DEF WireInv, Fresh
  <2> QED  BY <2>1, <2>2, <2>3
<1> QED  BY <1>1 DEF WireInv, InOrder, WireTruthful

\* The peer receives the messages whole and in the order they were queued, none
\* is left out before the session is closed, and a write that is reported as
\* failed is not sent, then or later, unless flushNow() caught an exception at
\* it - whoever writes, suspends, closes, breaks or throws.
THEOREM WireTruthfulCorrect == Spec => []WireTruthful
<1>1. TypeOK /\ WireInv => WireTruthful
  BY WireInvTruthful
<1> QED  BY <1>1, TypeCorrect, WireInvInvariant, PTL

\* closeOnFlush() closes only after what was queued before it is written,
\* unless closeNow(), an error or a timeout closes first.
THEOREM FlushBeforeCloseCorrect == Spec => []FlushBeforeClose
<1>1. WireInv => FlushBeforeClose
  BY DEF WireInv
<1> QED  BY <1>1, WireInvInvariant, PTL

===============================================================================
