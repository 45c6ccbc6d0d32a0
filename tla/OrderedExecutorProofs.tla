-------------------------- MODULE OrderedExecutorProofs --------------------------
(* What TLAPS proves about OrderedExecutor, for any events, sessions, worker *)
(* threads and pool sizes.                                                   *)
EXTENDS OrderedExecutor, SequenceTheorems, FiniteSetTheorems, TLAPS

Item == Session \cup {EXIT_SIGNAL}

CallPc == {"ready", "direct", "refused", "accept", "offerSession", "readIdle", "addWorker", "done", "removed"}

\* The parts of TypeOK.
CallOK == callPc \in [Event -> CallPc]
QueuesOK ==
  /\ tasksQueue \in [Session -> Seq(Event)]
  /\ processingCompleted \in [Session -> BOOLEAN]
WaitingOK == waitingSessions \in Seq(Item)
ThreadsOK ==
  /\ workers \subseteq Worker
  /\ pc \in [Worker -> WorkerPc]
  /\ fetched \in [Worker -> Item \cup {Null}]
  /\ running \in [Worker -> Event \cup {Null}]
  /\ \A w \in Worker : pc[w] \in {"run", "running"} => fetched[w] \in Session
  /\ \A w \in Worker : (running[w] # Null) <=> (pc[w] = "running")
SizesOK ==
  /\ idleWorkers \in Int
  /\ corePoolSize \in Nat /\ maximumPoolSize \in Nat /\ resizes \in 0..MaxResizes
ClosingOK ==
  /\ failed \in BOOLEAN /\ shutdown_ \in BOOLEAN
  /\ closer \in {"ready", "signal", "drain", "putBack", "await", "waiting", "done"}
PartsOK == CallOK /\ QueuesOK /\ WaitingOK /\ ThreadsOK /\ SizesOK /\ ClosingOK

LEMMA TypeParts == (TypeOK <=> PartsOK) /\ (TypeOK' <=> PartsOK')
BY DEF TypeOK, PartsOK, CallOK, QueuesOK, WaitingOK, ThreadsOK, SizesOK, ClosingOK, CallPc, Item

-----------------------------------------------------------------------------
(* The places of a session in a sequence *)

At(q, s) == {i \in DOMAIN q : q[i] = s}

LEMMA AtAppend ==
  ASSUME NEW q \in Seq(Item), NEW x \in Item, NEW s \in Session
  PROVE  /\ Append(q, x) \in Seq(Item)
         /\ x # s => At(Append(q, x), s) = At(q, s)
         /\ x = s => At(Append(q, x), s) = At(q, s) \cup {Len(q) + 1}
BY AppendProperties DEF At

\* Exit signals behind the queue are no place of a session.
LEMMA AtSignals ==
  ASSUME NEW q \in Seq(Item), NEW n \in Nat
  PROVE  q \o Signals(n) \in Seq(Item) /\ \A s \in Session : At(q \o Signals(n), s) = At(q, s)
<1>1. Signals(n) \in Seq(Item) /\ Len(Signals(n)) = n /\ \A i \in 1..n : Signals(n)[i] = EXIT_SIGNAL
  <2>1. Signals(n) \in [1..n -> Item]
    BY DEF Item, Signals
  <2>2. Signals(n) \in Seq(Item)
    BY <2>1, SeqDef
  <2>3. Len(Signals(n)) \in Nat /\ 1..Len(Signals(n)) = 1..n
    BY <2>1, <2>2, LenProperties
  <2>4. Len(Signals(n)) = n
    <3>1. ASSUME NEW j \in Nat, NEW k \in Nat, j < k PROVE k \in 1..k /\ k \notin 1..j
      BY <3>1
    <3>2. ~(Len(Signals(n)) < n) /\ ~(n < Len(Signals(n)))
      BY <2>3, <3>1
    <3> QED  BY <2>3, <3>2
  <2> QED  BY <2>2, <2>4 DEF Signals
<1>2. PICK r \in Seq(Item) : r = q \o Signals(n)
  BY <1>1, ConcatProperties
<1>3. /\ Len(r) = Len(q) + n /\ Len(q) \in Nat /\ DOMAIN r = 1..Len(r) /\ DOMAIN q = 1..Len(q)
      /\ \A i \in 1..Len(r) : r[i] = IF i <= Len(q) THEN q[i] ELSE Signals(n)[i - Len(q)]
  <2>1. Signals(n) \in Seq(Item) /\ Len(Signals(n)) = n
    BY <1>1
  <2>2. /\ Len(r) = Len(q) + Len(Signals(n))
        /\ \A i \in 1..(Len(q) + Len(Signals(n))) : r[i] = IF i <= Len(q) THEN q[i] ELSE Signals(n)[i - Len(q)]
    BY <1>2, <2>1, ConcatProperties
  <2>3. Len(q) \in Nat /\ DOMAIN r = 1..Len(r) /\ DOMAIN q = 1..Len(q)
    BY LenProperties
  <2> QED
    BY <2>1, <2>2, <2>3
<1>4. ASSUME NEW i \in 1..Len(r), i > Len(q) PROVE r[i] = EXIT_SIGNAL
  <2>1. r[i] = Signals(n)[i - Len(q)]
    BY <1>3, <1>4
  <2>2. i - Len(q) \in 1..n
    BY <1>3, <1>4
  <2> QED
    BY <1>1, <2>1, <2>2
<1>5. ASSUME NEW s \in Session PROVE At(r, s) = At(q, s)
  <2>1. EXIT_SIGNAL # s
    BY ExecutorAssumption
  <2>2. \A i : i \in At(r, s) <=> i \in At(q, s)
    BY <1>3, <1>4, <2>1 DEF At
  <2> QED  BY <2>2
<1> QED  BY <1>2, <1>5

\* What is taken from the head no longer has its place; the others move up.
LEMMA AtTail ==
  ASSUME NEW q \in Seq(Item), q # <<>>, NEW s \in Session, AtMostOne(At(q, s))
  PROVE  /\ Head(q) \in Item /\ Tail(q) \in Seq(Item)
         /\ AtMostOne(At(Tail(q), s))
         /\ At(q, s) = {} => At(Tail(q), s) = {}
         /\ Head(q) = s => At(Tail(q), s) = {} /\ At(q, s) # {}
<1>1. /\ Head(q) \in Item /\ Tail(q) \in Seq(Item) /\ Head(q) = q[1]
      /\ Len(q) \in Nat /\ Len(q) > 0 /\ Len(Tail(q)) = Len(q) - 1
      /\ \A i \in 1..Len(Tail(q)) : Tail(q)[i] = q[i + 1]
  BY HeadTailProperties, LenProperties, EmptySeq
<1>2. \A i \in At(Tail(q), s) : i + 1 \in At(q, s) /\ i \in Int
  BY <1>1, LenProperties DEF At
<1>3. AtMostOne(At(Tail(q), s))
  BY <1>2 DEF AtMostOne
<1>4. Head(q) = s => 1 \in At(q, s)
  BY <1>1, LenProperties DEF At
<1>5. \A i \in At(Tail(q), s) : i >= 1
  BY <1>1 DEF At
<1>6. Head(q) = s => At(Tail(q), s) = {}
  BY <1>2, <1>4, <1>5 DEF AtMostOne
<1> QED  BY <1>1, <1>2, <1>3, <1>4, <1>6

LEMMA PlacesAt == \A s : Places(s) = At(waitingSessions, s)
BY DEF Places, At

-----------------------------------------------------------------------------
(* Types *)

LEMMA TypeInit == Init => TypeOK
<1> SUFFICES ASSUME Init PROVE PartsOK  BY TypeParts
<1>1. CallOK /\ ClosingOK
  BY DEF Init, CallOK, ClosingOK, CallPc
<1>2. QueuesOK /\ WaitingOK
  BY DEF Init, QueuesOK, WaitingOK
<1>3. ThreadsOK
  BY ExecutorAssumption DEF Init, ThreadsOK, WorkerPc, Item
<1>4. SizesOK
  BY ExecutorAssumption DEF Init, SizesOK
<1> QED  BY <1>1, <1>2, <1>3, <1>4 DEF PartsOK

\* The number of workers is a natural number.
LEMMA WorkersFinite ==
  ASSUME ThreadsOK
  PROVE  Cardinality(workers) \in Nat
BY ExecutorAssumption, FS_Subset, FS_CardinalityType DEF ThreadsOK

LEMMA RemoveWorkersSignals ==
  ASSUME ThreadsOK, SizesOK, NEW n \in Int, RemoveWorkers(n)
  PROVE  \E k \in Nat : waitingSessions' = waitingSessions \o Signals(k)
<1>1. (IF Cardinality(workers) <= corePoolSize \/ n < 0 THEN 0 ELSE n) \in Nat
  OBVIOUS
<1> QED  BY <1>1 DEF RemoveWorkers

LEMMA AddWorkerType ==
  ASSUME ThreadsOK, SizesOK, AddWorker \/ UNCHANGED <<idleWorkers, workerVars>>,
         UNCHANGED sizeVars
  PROVE  ThreadsOK' /\ SizesOK'
<1>1. CASE UNCHANGED <<idleWorkers, workerVars>>
  BY <1>1 DEF ThreadsOK, SizesOK, workerVars, sizeVars
<1>2. CASE AddWorker /\ ~UNCHANGED <<idleWorkers, workerVars>>
  <2>1. PICK w \in Worker \ Alive :
           /\ idleWorkers' = idleWorkers + 1
           /\ workers' = workers \cup {w}
           /\ pc' = [pc EXCEPT ![w] = "poll"]
           /\ UNCHANGED <<fetched, running>>
    BY <1>2 DEF AddWorker
  <2>2. pc[w] = "none" /\ running[w] = Null
    BY <2>1 DEF Alive, ThreadsOK
  <2> QED  BY <2>1, <2>2 DEF ThreadsOK, SizesOK, sizeVars, WorkerPc
<1> QED  BY <1>1, <1>2

\* A sequence without one of its elements.
LEMMA WithoutType ==
  ASSUME NEW S, NEW q \in Seq(S), NEW i \in DOMAIN q
  PROVE  SubSeq(q, 1, i - 1) \o SubSeq(q, i + 1, Len(q)) \in Seq(S)
<1>1. Len(q) \in Nat /\ i \in 1..Len(q) /\ \A j \in 1..Len(q) : q[j] \in S
  BY LenProperties, ElementOfSeq
<1>2. \A j \in 1..i-1 : q[j] \in S
  BY <1>1
<1>3. \A j \in i+1..Len(q) : q[j] \in S
  BY <1>1
<1>4. SubSeq(q, 1, i - 1) \in Seq(S)
  BY <1>1, <1>2, SubSeqProperties
<1>5. SubSeq(q, i + 1, Len(q)) \in Seq(S)
  BY <1>1, <1>3, SubSeqProperties
<1> QED  BY <1>4, <1>5, ConcatProperties

LEMMA TypeStep == TypeOK /\ [Next]_vars => TypeOK'
<1> SUFFICES ASSUME TypeOK, [Next]_vars PROVE PartsOK'  BY TypeParts
<1>0. CallOK /\ QueuesOK /\ WaitingOK /\ ThreadsOK /\ SizesOK /\ ClosingOK
  BY TypeParts DEF PartsOK
<1> USE DEF queueVars, workerVars, sizeVars, closeVars
<1>1. ASSUME NEW e \in Event, Fire(e) PROVE PartsOK'
  <2>1. CallOK'
    BY <1>0, <1>1 DEF Fire, CallOK, CallPc, CallStep
  <2>2. QueuesOK'
    BY <1>0, <1>1 DEF Fire, QueuesOK
  <2>3. WaitingOK'
    BY <1>0, <1>1 DEF Fire, WaitingOK
  <2>4. ThreadsOK'
    BY <1>0, <1>1 DEF Fire, ThreadsOK
  <2>5. SizesOK'
    BY <1>0, <1>1 DEF Fire, SizesOK
  <2>6. ClosingOK'
    BY <1>0, <1>1 DEF Fire, ClosingOK
  <2> QED  BY <2>1, <2>2, <2>3, <2>4, <2>5, <2>6 DEF PartsOK
<1>2. ASSUME NEW e \in Event, Refuse(e) PROVE PartsOK'
  <2>1. CallOK'
    BY <1>0, <1>2 DEF Refuse, CallOK, CallPc, CallStep
  <2>2. QueuesOK'
    BY <1>0, <1>2 DEF Refuse, QueuesOK
  <2>3. WaitingOK'
    BY <1>0, <1>2 DEF Refuse, WaitingOK
  <2>4. ThreadsOK'
    BY <1>0, <1>2 DEF Refuse, ThreadsOK
  <2>5. SizesOK'
    BY <1>0, <1>2 DEF Refuse, SizesOK
  <2>6. ClosingOK'
    BY <1>0, <1>2 DEF Refuse, ClosingOK
  <2> QED  BY <2>1, <2>2, <2>3, <2>4, <2>5, <2>6 DEF PartsOK
<1>3. ASSUME NEW e \in Event, Accept(e) PROVE PartsOK'
  <2>1. CallOK'
    BY <1>0, <1>3 DEF Accept, CallOK, CallPc, CallStep
  <2>2. QueuesOK'
    BY <1>0, <1>3, AppendProperties, ExecutorAssumption DEF Accept, QueuesOK
  <2>3. WaitingOK'
    BY <1>0, <1>3 DEF Accept, WaitingOK
  <2>4. ThreadsOK'
    BY <1>0, <1>3 DEF Accept, ThreadsOK
  <2>5. SizesOK'
    BY <1>0, <1>3 DEF Accept, SizesOK
  <2>6. ClosingOK'
    BY <1>0, <1>3 DEF Accept, ClosingOK
  <2> QED  BY <2>1, <2>2, <2>3, <2>4, <2>5, <2>6 DEF PartsOK
<1>4. ASSUME NEW e \in Event, OfferSession(e) PROVE PartsOK'
  <2>1. CallOK'
    BY <1>0, <1>4 DEF OfferSession, CallOK, CallPc, CallStep
  <2>2. QueuesOK'
    BY <1>0, <1>4 DEF OfferSession, QueuesOK
  <2>3. WaitingOK'
    BY <1>0, <1>4, AppendProperties, ExecutorAssumption DEF OfferSession, WaitingOK, Item
  <2>4. ThreadsOK'
    BY <1>0, <1>4 DEF OfferSession, ThreadsOK
  <2>5. SizesOK'
    BY <1>0, <1>4 DEF OfferSession, SizesOK
  <2>6. ClosingOK'
    BY <1>0, <1>4 DEF OfferSession, ClosingOK
  <2> QED  BY <2>1, <2>2, <2>3, <2>4, <2>5, <2>6 DEF PartsOK
<1>5. ASSUME NEW e \in Event, ReadIdle(e) PROVE PartsOK'
  <2>1. CallOK'
    BY <1>0, <1>5 DEF ReadIdle, CallOK, CallPc, CallStep
  <2>2. QueuesOK'
    BY <1>0, <1>5 DEF ReadIdle, QueuesOK
  <2>3. WaitingOK'
    BY <1>0, <1>5 DEF ReadIdle, WaitingOK
  <2>4. ThreadsOK'
    BY <1>0, <1>5 DEF ReadIdle, ThreadsOK
  <2>5. SizesOK'
    BY <1>0, <1>5 DEF ReadIdle, SizesOK
  <2>6. ClosingOK'
    BY <1>0, <1>5 DEF ReadIdle, ClosingOK
  <2> QED  BY <2>1, <2>2, <2>3, <2>4, <2>5, <2>6 DEF PartsOK
<1>6. ASSUME NEW e \in Event, AddWorkerIfNecessary(e) PROVE PartsOK'
  <2>1. CallOK'
    BY <1>0, <1>6 DEF AddWorkerIfNecessary, CallOK, CallPc, CallStep
  <2>2. QueuesOK'
    BY <1>0, <1>6 DEF AddWorkerIfNecessary, QueuesOK
  <2>3. WaitingOK'
    BY <1>0, <1>6 DEF AddWorkerIfNecessary, WaitingOK
  <2>4. ThreadsOK'
    BY <1>0, <1>6, AddWorkerType DEF AddWorkerIfNecessary
  <2>5. SizesOK'
    BY <1>0, <1>6, AddWorkerType DEF AddWorkerIfNecessary
  <2>6. ClosingOK'
    BY <1>0, <1>6 DEF AddWorkerIfNecessary, ClosingOK
  <2> QED  BY <2>1, <2>2, <2>3, <2>4, <2>5, <2>6 DEF PartsOK
<1>7. ASSUME NEW e \in Event, Remove(e) PROVE PartsOK'
  <2>1. CallOK'
    BY <1>0, <1>7 DEF Remove, CallOK, CallPc, CallStep
  <2>2. QueuesOK'
    BY <1>0, <1>7, WithoutType, ExecutorAssumption DEF Remove, QueuesOK
  <2>3. WaitingOK'
    BY <1>0, <1>7 DEF Remove, WaitingOK
  <2>4. ThreadsOK'
    BY <1>0, <1>7 DEF Remove, ThreadsOK
  <2>5. SizesOK'
    BY <1>0, <1>7 DEF Remove, SizesOK
  <2>6. ClosingOK'
    BY <1>0, <1>7 DEF Remove, ClosingOK
  <2> QED  BY <2>1, <2>2, <2>3, <2>4, <2>5, <2>6 DEF PartsOK
<1>8. ASSUME NEW w \in Worker, Fetch(w) PROVE PartsOK'
  <2>1. CallOK'
    BY <1>0, <1>8 DEF Fetch, CallOK
  <2>2. QueuesOK'
    BY <1>0, <1>8 DEF Fetch, QueuesOK
  <2>3. WaitingOK'
    BY <1>0, <1>8, HeadTailProperties DEF Fetch, WaitingOK
  <2>4. ThreadsOK'
    BY <1>0, <1>8, HeadTailProperties DEF Fetch, ThreadsOK, WaitingOK, WorkerStep, WorkerPc
  <2>5. SizesOK'
    BY <1>0, <1>8 DEF Fetch, SizesOK
  <2>6. ClosingOK'
    BY <1>0, <1>8 DEF Fetch, ClosingOK
  <2> QED  BY <2>1, <2>2, <2>3, <2>4, <2>5, <2>6 DEF PartsOK
<1>9. ASSUME NEW w \in Worker, FetchTimeout(w) PROVE PartsOK'
  <2>1. CallOK'
    BY <1>0, <1>9 DEF FetchTimeout, CallOK
  <2>2. QueuesOK'
    BY <1>0, <1>9 DEF FetchTimeout, QueuesOK
  <2>3. WaitingOK'
    BY <1>0, <1>9 DEF FetchTimeout, WaitingOK
  <2>4. ThreadsOK'
    BY <1>0, <1>9 DEF FetchTimeout, ThreadsOK, WorkerStep, WorkerPc
  <2>5. SizesOK'
    BY <1>0, <1>9 DEF FetchTimeout, SizesOK
  <2>6. ClosingOK'
    BY <1>0, <1>9 DEF FetchTimeout, ClosingOK
  <2> QED  BY <2>1, <2>2, <2>3, <2>4, <2>5, <2>6 DEF PartsOK
<1>10. ASSUME NEW w \in Worker, NoLongerIdle(w) PROVE PartsOK'
  <2>1. CallOK'
    BY <1>0, <1>10 DEF NoLongerIdle, CallOK
  <2>2. QueuesOK'
    BY <1>0, <1>10 DEF NoLongerIdle, QueuesOK
  <2>3. WaitingOK'
    BY <1>0, <1>10 DEF NoLongerIdle, WaitingOK
  <2>4. ThreadsOK'
    BY <1>0, <1>10, ExecutorAssumption DEF NoLongerIdle, ThreadsOK, WorkerStep, WorkerPc, Item
  <2>5. SizesOK'
    BY <1>0, <1>10 DEF NoLongerIdle, SizesOK
  <2>6. ClosingOK'
    BY <1>0, <1>10 DEF NoLongerIdle, ClosingOK
  <2> QED  BY <2>1, <2>2, <2>3, <2>4, <2>5, <2>6 DEF PartsOK
<1>11. ASSUME NEW w \in Worker, IdleLeaves(w) PROVE PartsOK'
  <2>1. CallOK'
    BY <1>0, <1>11 DEF IdleLeaves, CallOK
  <2>2. QueuesOK'
    BY <1>0, <1>11 DEF IdleLeaves, QueuesOK
  <2>3. WaitingOK'
    BY <1>0, <1>11 DEF IdleLeaves, WaitingOK
  <2>4. ThreadsOK'
    BY <1>0, <1>11 DEF IdleLeaves, ThreadsOK, WorkerStep, WorkerPc
  <2>5. SizesOK'
    BY <1>0, <1>11 DEF IdleLeaves, SizesOK
  <2>6. ClosingOK'
    BY <1>0, <1>11 DEF IdleLeaves, ClosingOK
  <2> QED  BY <2>1, <2>2, <2>3, <2>4, <2>5, <2>6 DEF PartsOK
<1>12. ASSUME NEW w \in Worker, PollTask(w) PROVE PartsOK'
  <2>1. CallOK'
    BY <1>0, <1>12 DEF PollTask, CallOK
  <2>2. QueuesOK'
    BY <1>0, <1>12, HeadTailProperties DEF PollTask, ThreadsOK, QueuesOK, WorkerStep
  <2>3. WaitingOK'
    BY <1>0, <1>12 DEF PollTask, WaitingOK
  <2>4. ThreadsOK'
    BY <1>0, <1>12, HeadTailProperties, ExecutorAssumption DEF PollTask, ThreadsOK, QueuesOK, WorkerStep, WorkerPc
  <2>5. SizesOK'
    BY <1>0, <1>12 DEF PollTask, SizesOK
  <2>6. ClosingOK'
    BY <1>0, <1>12 DEF PollTask, ClosingOK
  <2> QED  BY <2>1, <2>2, <2>3, <2>4, <2>5, <2>6 DEF PartsOK
<1>13. ASSUME NEW w \in Worker, NoTaskLeft(w) PROVE PartsOK'
  <2>1. CallOK'
    BY <1>0, <1>13 DEF NoTaskLeft, CallOK
  <2>2. QueuesOK'
    BY <1>0, <1>13 DEF NoTaskLeft, QueuesOK
  <2>3. WaitingOK'
    BY <1>0, <1>13 DEF NoTaskLeft, WaitingOK
  <2>4. ThreadsOK'
    BY <1>0, <1>13 DEF NoTaskLeft, ThreadsOK, WorkerStep, WorkerPc
  <2>5. SizesOK'
    BY <1>0, <1>13 DEF NoTaskLeft, SizesOK
  <2>6. ClosingOK'
    BY <1>0, <1>13 DEF NoTaskLeft, ClosingOK
  <2> QED  BY <2>1, <2>2, <2>3, <2>4, <2>5, <2>6 DEF PartsOK
<1>14. ASSUME NEW w \in Worker, EndTask(w) PROVE PartsOK'
  <2>1. CallOK'
    BY <1>0, <1>14 DEF EndTask, CallOK
  <2>2. QueuesOK'
    BY <1>0, <1>14 DEF EndTask, QueuesOK
  <2>3. WaitingOK'
    BY <1>0, <1>14 DEF EndTask, WaitingOK
  <2>4. ThreadsOK'
    BY <1>0, <1>14 DEF EndTask, ThreadsOK, WorkerStep, WorkerPc
  <2>5. SizesOK'
    BY <1>0, <1>14 DEF EndTask, SizesOK
  <2>6. ClosingOK'
    BY <1>0, <1>14 DEF EndTask, ClosingOK
  <2> QED  BY <2>1, <2>2, <2>3, <2>4, <2>5, <2>6 DEF PartsOK
<1>15. ASSUME NEW w \in Worker, Restore(w) PROVE PartsOK'
  <2>1. CallOK'
    BY <1>0, <1>15 DEF Restore, CallOK
  <2>2. QueuesOK'
    BY <1>0, <1>15 DEF Restore, QueuesOK
  <2>3. WaitingOK'
    BY <1>0, <1>15 DEF Restore, WaitingOK
  <2>4. ThreadsOK'
    BY <1>0, <1>15 DEF Restore, ThreadsOK, WorkerStep, WorkerPc
  <2>5. SizesOK'
    BY <1>0, <1>15 DEF Restore, SizesOK
  <2>6. ClosingOK'
    BY <1>0, <1>15 DEF Restore, ClosingOK
  <2> QED  BY <2>1, <2>2, <2>3, <2>4, <2>5, <2>6 DEF PartsOK
<1>16. ASSUME NEW w \in Worker, Leave(w) PROVE PartsOK'
  <2>1. CallOK'
    BY <1>0, <1>16 DEF Leave, CallOK
  <2>2. QueuesOK'
    BY <1>0, <1>16 DEF Leave, QueuesOK
  <2>3. WaitingOK'
    BY <1>0, <1>16 DEF Leave, WaitingOK
  <2>4. ThreadsOK'
    BY <1>0, <1>16 DEF Leave, ThreadsOK, WorkerStep, WorkerPc
  <2>5. SizesOK'
    BY <1>0, <1>16 DEF Leave, SizesOK
  <2>6. ClosingOK'
    BY <1>0, <1>16 DEF Leave, ClosingOK
  <2> QED  BY <2>1, <2>2, <2>3, <2>4, <2>5, <2>6 DEF PartsOK
<1>17. ASSUME NEW w \in Worker, Exit(w) PROVE PartsOK'
  <2>1. CallOK'
    BY <1>0, <1>17 DEF Exit, CallOK
  <2>2. QueuesOK'
    BY <1>0, <1>17 DEF Exit, QueuesOK
  <2>3. WaitingOK'
    BY <1>0, <1>17 DEF Exit, WaitingOK
  <2>4. ThreadsOK'
    BY <1>0, <1>17 DEF Exit, ThreadsOK, WorkerStep, WorkerPc
  <2>5. SizesOK'
    BY <1>0, <1>17 DEF Exit, SizesOK
  <2>6. ClosingOK'
    BY <1>0, <1>17 DEF Exit, ClosingOK
  <2> QED  BY <2>1, <2>2, <2>3, <2>4, <2>5, <2>6 DEF PartsOK
<1>18. ASSUME NEW n \in 1..MaxSize, SetMaximumPoolSize(n) PROVE PartsOK'
  <2>1. CallOK'
    BY <1>0, <1>18 DEF SetMaximumPoolSize, CallOK
  <2>2. QueuesOK'
    BY <1>0, <1>18 DEF SetMaximumPoolSize, QueuesOK
  <2>3. WaitingOK'
    <3>1. \E j \in Int : RemoveWorkers(j)
      BY <1>0, <1>18, WorkersFinite DEF SetMaximumPoolSize, SizesOK
    <3>2. \E k \in Nat : waitingSessions' = waitingSessions \o Signals(k)
      BY <1>0, <3>1, RemoveWorkersSignals
    <3> QED  BY <1>0, <3>2, AtSignals DEF WaitingOK
  <2>4. ThreadsOK'
    BY <1>0, <1>18 DEF SetMaximumPoolSize, ThreadsOK
  <2>5. SizesOK'
    BY <1>0, <1>18, ExecutorAssumption DEF SetMaximumPoolSize, SizesOK
  <2>6. ClosingOK'
    BY <1>0, <1>18 DEF SetMaximumPoolSize, ClosingOK
  <2> QED  BY <2>1, <2>2, <2>3, <2>4, <2>5, <2>6 DEF PartsOK
<1>19. ASSUME NEW n \in 0..MaxSize, SetCorePoolSize(n) PROVE PartsOK'
  <2>1. CallOK'
    BY <1>0, <1>19 DEF SetCorePoolSize, CallOK
  <2>2. QueuesOK'
    BY <1>0, <1>19 DEF SetCorePoolSize, QueuesOK
  <2>3. WaitingOK'
    <3>1. \E j \in Int : RemoveWorkers(j)
      BY <1>0, <1>19, WorkersFinite DEF SetCorePoolSize, SizesOK
    <3>2. \E k \in Nat : waitingSessions' = waitingSessions \o Signals(k)
      BY <1>0, <3>1, RemoveWorkersSignals
    <3> QED  BY <1>0, <3>2, AtSignals DEF WaitingOK
  <2>4. ThreadsOK'
    BY <1>0, <1>19 DEF SetCorePoolSize, ThreadsOK
  <2>5. SizesOK'
    BY <1>0, <1>19, ExecutorAssumption DEF SetCorePoolSize, SizesOK
  <2>6. ClosingOK'
    BY <1>0, <1>19 DEF SetCorePoolSize, ClosingOK
  <2> QED  BY <2>1, <2>2, <2>3, <2>4, <2>5, <2>6 DEF PartsOK
<1>20. CASE PrestartCoreThread
  <2>1. CallOK'
    BY <1>0, <1>20 DEF PrestartCoreThread, CallOK
  <2>2. QueuesOK'
    BY <1>0, <1>20 DEF PrestartCoreThread, QueuesOK
  <2>3. WaitingOK'
    BY <1>0, <1>20 DEF PrestartCoreThread, WaitingOK
  <2>4. ThreadsOK'
    BY <1>0, <1>20, AddWorkerType DEF PrestartCoreThread
  <2>5. SizesOK'
    BY <1>0, <1>20, AddWorkerType DEF PrestartCoreThread
  <2>6. ClosingOK'
    BY <1>0, <1>20 DEF PrestartCoreThread, ClosingOK
  <2> QED  BY <2>1, <2>2, <2>3, <2>4, <2>5, <2>6 DEF PartsOK
<1>21. CASE Shutdown
  <2>1. CallOK'
    BY <1>0, <1>21 DEF Shutdown, CallOK
  <2>2. QueuesOK'
    BY <1>0, <1>21 DEF Shutdown, QueuesOK
  <2>3. WaitingOK'
    BY <1>0, <1>21 DEF Shutdown, WaitingOK
  <2>4. ThreadsOK'
    BY <1>0, <1>21 DEF Shutdown, ThreadsOK
  <2>5. SizesOK'
    BY <1>0, <1>21 DEF Shutdown, SizesOK
  <2>6. ClosingOK'
    BY <1>0, <1>21 DEF Shutdown, ClosingOK, CloserStep
  <2> QED  BY <2>1, <2>2, <2>3, <2>4, <2>5, <2>6 DEF PartsOK
<1>22. CASE SignalWorkers
  <2>1. CallOK'
    BY <1>0, <1>22 DEF SignalWorkers, CallOK
  <2>2. QueuesOK'
    BY <1>0, <1>22 DEF SignalWorkers, QueuesOK
  <2>3. WaitingOK'
    BY <1>0, <1>22, AtSignals, WorkersFinite DEF SignalWorkers, WaitingOK
  <2>4. ThreadsOK'
    BY <1>0, <1>22 DEF SignalWorkers, ThreadsOK
  <2>5. SizesOK'
    BY <1>0, <1>22 DEF SignalWorkers, SizesOK
  <2>6. ClosingOK'
    BY <1>0, <1>22 DEF SignalWorkers, ClosingOK, CloserStep
  <2> QED  BY <2>1, <2>2, <2>3, <2>4, <2>5, <2>6 DEF PartsOK
<1>23. CASE PollExitSignal
  <2>1. CallOK'
    BY <1>0, <1>23 DEF PollExitSignal, CallOK
  <2>2. QueuesOK'
    BY <1>0, <1>23 DEF PollExitSignal, QueuesOK
  <2>3. WaitingOK'
    BY <1>0, <1>23, HeadTailProperties DEF PollExitSignal, WaitingOK
  <2>4. ThreadsOK'
    BY <1>0, <1>23 DEF PollExitSignal, ThreadsOK
  <2>5. SizesOK'
    BY <1>0, <1>23 DEF PollExitSignal, SizesOK
  <2>6. ClosingOK'
    BY <1>0, <1>23 DEF PollExitSignal, ClosingOK, CloserStep
  <2> QED  BY <2>1, <2>2, <2>3, <2>4, <2>5, <2>6 DEF PartsOK
<1>24. CASE PutBack
  <2>1. CallOK'
    BY <1>0, <1>24 DEF PutBack, CallOK
  <2>2. QueuesOK'
    BY <1>0, <1>24 DEF PutBack, QueuesOK
  <2>3. WaitingOK'
    BY <1>0, <1>24, AppendProperties DEF PutBack, WaitingOK, Item
  <2>4. ThreadsOK'
    BY <1>0, <1>24 DEF PutBack, ThreadsOK
  <2>5. SizesOK'
    BY <1>0, <1>24 DEF PutBack, SizesOK
  <2>6. ClosingOK'
    BY <1>0, <1>24 DEF PutBack, ClosingOK, CloserStep
  <2> QED  BY <2>1, <2>2, <2>3, <2>4, <2>5, <2>6 DEF PartsOK
<1>25. CASE DrainSession
  <2>1. CallOK'
    BY <1>0, <1>25 DEF DrainSession, CallOK
  <2>2. QueuesOK'
    BY <1>0, <1>25, HeadTailProperties DEF DrainSession, QueuesOK, WaitingOK, Item
  <2>3. WaitingOK'
    BY <1>0, <1>25, HeadTailProperties DEF DrainSession, WaitingOK
  <2>4. ThreadsOK'
    BY <1>0, <1>25 DEF DrainSession, ThreadsOK
  <2>5. SizesOK'
    BY <1>0, <1>25 DEF DrainSession, SizesOK
  <2>6. ClosingOK'
    BY <1>0, <1>25 DEF DrainSession, ClosingOK, CloserStep
  <2> QED  BY <2>1, <2>2, <2>3, <2>4, <2>5, <2>6 DEF PartsOK
<1>26. CASE Drained
  <2>1. CallOK'
    BY <1>0, <1>26 DEF Drained, CallOK
  <2>2. QueuesOK'
    BY <1>0, <1>26 DEF Drained, QueuesOK
  <2>3. WaitingOK'
    BY <1>0, <1>26 DEF Drained, WaitingOK
  <2>4. ThreadsOK'
    BY <1>0, <1>26 DEF Drained, ThreadsOK
  <2>5. SizesOK'
    BY <1>0, <1>26 DEF Drained, SizesOK
  <2>6. ClosingOK'
    BY <1>0, <1>26 DEF Drained, ClosingOK, CloserStep
  <2> QED  BY <2>1, <2>2, <2>3, <2>4, <2>5, <2>6 DEF PartsOK
<1>27. CASE AwaitTermination
  <2>1. CallOK'
    BY <1>0, <1>27 DEF AwaitTermination, CallOK
  <2>2. QueuesOK'
    BY <1>0, <1>27 DEF AwaitTermination, QueuesOK
  <2>3. WaitingOK'
    BY <1>0, <1>27 DEF AwaitTermination, WaitingOK
  <2>4. ThreadsOK'
    BY <1>0, <1>27 DEF AwaitTermination, ThreadsOK
  <2>5. SizesOK'
    BY <1>0, <1>27 DEF AwaitTermination, SizesOK
  <2>6. ClosingOK'
    BY <1>0, <1>27 DEF AwaitTermination, ClosingOK, CloserStep
  <2> QED  BY <2>1, <2>2, <2>3, <2>4, <2>5, <2>6 DEF PartsOK
<1>28. CASE UNCHANGED vars
  BY <1>0, <1>28 DEF vars, PartsOK, CallOK, QueuesOK, WaitingOK, ThreadsOK, SizesOK, ClosingOK
<1> QED  BY <1>1, <1>2, <1>3, <1>4, <1>5, <1>6, <1>7, <1>8, <1>9, <1>10, <1>11, <1>12, <1>13, <1>14, <1>15, <1>16, <1>17, <1>18, <1>19, <1>20, <1>21, <1>22, <1>23, <1>24, <1>25, <1>26, <1>27, <1>28 DEF Next, ExecuteNext, WorkerNext, ResizeNext, CloserNext

\* For any events and workers the variables keep their types.
THEOREM TypeCorrect == Spec => []TypeOK
BY TypeInit, TypeStep, PTL DEF Spec

-----------------------------------------------------------------------------
(* OneInCharge *)

\* Nobody new has charge of session s.
NobodyNew(s) ==
  /\ Senders(s)' \subseteq Senders(s)
  /\ AtMostOne(Places(s)') /\ (Places(s) = {} => Places(s)' = {})
  /\ Servers(s)' \subseteq Servers(s)
  /\ processingCompleted[s]' => processingCompleted[s]

LEMMA NobodyNewKeeps ==
  ASSUME OneInCharge, \A s \in Session : NobodyNew(s)
  PROVE  OneInCharge'
<1> SUFFICES ASSUME NEW s \in Session
             PROVE  /\ AtMostOne(Senders(s)') /\ AtMostOne(Places(s)') /\ AtMostOne(Servers(s)')
                    /\ Senders(s)' = {} \/ Places(s)' = {}
                    /\ Senders(s)' = {} \/ Servers(s)' = {}
                    /\ Places(s)' = {} \/ Servers(s)' = {}
                    /\ processingCompleted[s]' => Senders(s)' = {} /\ Places(s)' = {} /\ Servers(s)' = {}
  BY DEF OneInCharge, AtMostOne
<1> QED  BY DEF OneInCharge, NobodyNew, AtMostOne

\* A step that lets the queue of sessions alone, or adds exit signals to it.
LEMMA SamePlaces ==
  ASSUME OneInCharge, WaitingOK,
         UNCHANGED waitingSessions \/ \E k \in Nat : waitingSessions' = waitingSessions \o Signals(k)
  PROVE  \A s \in Session : AtMostOne(Places(s)') /\ Places(s)' = Places(s)
<1>1. \A s \in Session : At(waitingSessions', s) = At(waitingSessions, s)
  BY AtSignals DEF WaitingOK
<1>2. \A s \in Session : Places(s)' = Places(s)
  BY <1>1 DEF Places, At
<1> QED  BY <1>2 DEF OneInCharge, AtMostOne

LEMMA AddWorkerServers ==
  ASSUME ThreadsOK, AddWorker \/ UNCHANGED <<idleWorkers, workerVars>>
  PROVE  \A s \in Session : Servers(s)' \subseteq Servers(s)
<1>1. CASE UNCHANGED <<idleWorkers, workerVars>>
  BY <1>1 DEF Servers, workerVars
<1>2. CASE \E w \in Worker : pc' = [pc EXCEPT ![w] = "poll"] /\ UNCHANGED fetched
  BY <1>2 DEF Servers, ThreadsOK
<1> QED  BY <1>1, <1>2 DEF AddWorker

LEMMA ChargeStep == TypeOK /\ OneInCharge /\ [Next]_vars => OneInCharge'
<1> SUFFICES ASSUME TypeOK, OneInCharge, [Next]_vars PROVE OneInCharge'
  OBVIOUS
<1>0. CallOK /\ QueuesOK /\ WaitingOK /\ ThreadsOK /\ SizesOK /\ ClosingOK
  BY TypeParts DEF PartsOK
<1> USE DEF queueVars, workerVars, sizeVars, closeVars
<1>1. ASSUME NEW e \in Event, Fire(e) PROVE OneInCharge'
  <2>1. \A s \in Session : Senders(s)' \subseteq Senders(s)
    BY <1>0, <1>1 DEF Fire, Senders, CallOK, CallStep
  <2>2. \A s \in Session : AtMostOne(Places(s)') /\ (Places(s) = {} => Places(s)' = {})
    <3>1. UNCHANGED waitingSessions
      BY <1>1 DEF Fire
    <3> QED  BY <1>0, <3>1, SamePlaces
  <2>3. \A s \in Session : Servers(s)' \subseteq Servers(s)
    BY <1>1 DEF Fire, Servers
  <2>4. UNCHANGED processingCompleted
    BY <1>1 DEF Fire
  <2> QED  BY <2>1, <2>2, <2>3, <2>4, NobodyNewKeeps DEF NobodyNew
<1>2. ASSUME NEW e \in Event, Refuse(e) PROVE OneInCharge'
  <2>1. \A s \in Session : Senders(s)' \subseteq Senders(s)
    BY <1>0, <1>2 DEF Refuse, Senders, CallOK, CallStep
  <2>2. \A s \in Session : AtMostOne(Places(s)') /\ (Places(s) = {} => Places(s)' = {})
    <3>1. UNCHANGED waitingSessions
      BY <1>2 DEF Refuse
    <3> QED  BY <1>0, <3>1, SamePlaces
  <2>3. \A s \in Session : Servers(s)' \subseteq Servers(s)
    BY <1>2 DEF Refuse, Servers
  <2>4. UNCHANGED processingCompleted
    BY <1>2 DEF Refuse
  <2> QED  BY <2>1, <2>2, <2>3, <2>4, NobodyNewKeeps DEF NobodyNew
<1>3. ASSUME NEW e \in Event, ReadIdle(e) PROVE OneInCharge'
  <2>1. \A s \in Session : Senders(s)' \subseteq Senders(s)
    BY <1>0, <1>3 DEF ReadIdle, Senders, CallOK, CallStep
  <2>2. \A s \in Session : AtMostOne(Places(s)') /\ (Places(s) = {} => Places(s)' = {})
    <3>1. UNCHANGED waitingSessions
      BY <1>3 DEF ReadIdle
    <3> QED  BY <1>0, <3>1, SamePlaces
  <2>3. \A s \in Session : Servers(s)' \subseteq Servers(s)
    BY <1>3 DEF ReadIdle, Servers
  <2>4. UNCHANGED processingCompleted
    BY <1>3 DEF ReadIdle
  <2> QED  BY <2>1, <2>2, <2>3, <2>4, NobodyNewKeeps DEF NobodyNew
<1>4. ASSUME NEW e \in Event, AddWorkerIfNecessary(e) PROVE OneInCharge'
  <2>1. \A s \in Session : Senders(s)' \subseteq Senders(s)
    BY <1>0, <1>4 DEF AddWorkerIfNecessary, Senders, CallOK, CallStep
  <2>2. \A s \in Session : AtMostOne(Places(s)') /\ (Places(s) = {} => Places(s)' = {})
    <3>1. UNCHANGED waitingSessions
      BY <1>4 DEF AddWorkerIfNecessary
    <3> QED  BY <1>0, <3>1, SamePlaces
  <2>3. \A s \in Session : Servers(s)' \subseteq Servers(s)
    BY <1>0, <1>4, AddWorkerServers DEF AddWorkerIfNecessary
  <2>4. UNCHANGED processingCompleted
    BY <1>4 DEF AddWorkerIfNecessary
  <2> QED  BY <2>1, <2>2, <2>3, <2>4, NobodyNewKeeps DEF NobodyNew
<1>5. ASSUME NEW e \in Event, Remove(e) PROVE OneInCharge'
  <2>1. \A s \in Session : Senders(s)' \subseteq Senders(s)
    BY <1>0, <1>5 DEF Remove, Senders, CallOK, CallStep
  <2>2. \A s \in Session : AtMostOne(Places(s)') /\ (Places(s) = {} => Places(s)' = {})
    <3>1. UNCHANGED waitingSessions
      BY <1>5 DEF Remove
    <3> QED  BY <1>0, <3>1, SamePlaces
  <2>3. \A s \in Session : Servers(s)' \subseteq Servers(s)
    BY <1>5 DEF Remove, Servers
  <2>4. UNCHANGED processingCompleted
    BY <1>5 DEF Remove
  <2> QED  BY <2>1, <2>2, <2>3, <2>4, NobodyNewKeeps DEF NobodyNew
<1>6. ASSUME NEW w \in Worker, FetchTimeout(w) PROVE OneInCharge'
  <2>1. \A s \in Session : Senders(s)' \subseteq Senders(s)
    BY <1>0, <1>6 DEF FetchTimeout, Senders, CallOK
  <2>2. \A s \in Session : AtMostOne(Places(s)') /\ (Places(s) = {} => Places(s)' = {})
    <3>1. UNCHANGED waitingSessions
      BY <1>6 DEF FetchTimeout
    <3> QED  BY <1>0, <3>1, SamePlaces
  <2>3. \A s \in Session : Servers(s)' \subseteq Servers(s)
    BY <1>0, <1>6, ExecutorAssumption DEF FetchTimeout, Servers, ThreadsOK, WorkerStep
  <2>4. UNCHANGED processingCompleted
    BY <1>6 DEF FetchTimeout
  <2> QED  BY <2>1, <2>2, <2>3, <2>4, NobodyNewKeeps DEF NobodyNew
<1>7. ASSUME NEW w \in Worker, NoLongerIdle(w) PROVE OneInCharge'
  <2>1. \A s \in Session : Senders(s)' \subseteq Senders(s)
    BY <1>0, <1>7 DEF NoLongerIdle, Senders, CallOK
  <2>2. \A s \in Session : AtMostOne(Places(s)') /\ (Places(s) = {} => Places(s)' = {})
    <3>1. UNCHANGED waitingSessions
      BY <1>7 DEF NoLongerIdle
    <3> QED  BY <1>0, <3>1, SamePlaces
  <2>3. \A s \in Session : Servers(s)' \subseteq Servers(s)
    BY <1>0, <1>7, ExecutorAssumption DEF NoLongerIdle, Servers, ThreadsOK, WorkerStep
  <2>4. UNCHANGED processingCompleted
    BY <1>7 DEF NoLongerIdle
  <2> QED  BY <2>1, <2>2, <2>3, <2>4, NobodyNewKeeps DEF NobodyNew
<1>8. ASSUME NEW w \in Worker, IdleLeaves(w) PROVE OneInCharge'
  <2>1. \A s \in Session : Senders(s)' \subseteq Senders(s)
    BY <1>0, <1>8 DEF IdleLeaves, Senders, CallOK
  <2>2. \A s \in Session : AtMostOne(Places(s)') /\ (Places(s) = {} => Places(s)' = {})
    <3>1. UNCHANGED waitingSessions
      BY <1>8 DEF IdleLeaves
    <3> QED  BY <1>0, <3>1, SamePlaces
  <2>3. \A s \in Session : Servers(s)' \subseteq Servers(s)
    BY <1>0, <1>8, ExecutorAssumption DEF IdleLeaves, Servers, ThreadsOK, WorkerStep
  <2>4. UNCHANGED processingCompleted
    BY <1>8 DEF IdleLeaves
  <2> QED  BY <2>1, <2>2, <2>3, <2>4, NobodyNewKeeps DEF NobodyNew
<1>9. ASSUME NEW w \in Worker, PollTask(w) PROVE OneInCharge'
  <2>1. \A s \in Session : Senders(s)' \subseteq Senders(s)
    BY <1>0, <1>9 DEF PollTask, Senders, CallOK
  <2>2. \A s \in Session : AtMostOne(Places(s)') /\ (Places(s) = {} => Places(s)' = {})
    <3>1. UNCHANGED waitingSessions
      BY <1>9 DEF PollTask
    <3> QED  BY <1>0, <3>1, SamePlaces
  <2>3. \A s \in Session : Servers(s)' \subseteq Servers(s)
    BY <1>0, <1>9, ExecutorAssumption DEF PollTask, Servers, ThreadsOK, WorkerStep
  <2>4. UNCHANGED processingCompleted
    BY <1>9 DEF PollTask
  <2> QED  BY <2>1, <2>2, <2>3, <2>4, NobodyNewKeeps DEF NobodyNew
<1>10. ASSUME NEW w \in Worker, EndTask(w) PROVE OneInCharge'
  <2>1. \A s \in Session : Senders(s)' \subseteq Senders(s)
    BY <1>0, <1>10 DEF EndTask, Senders, CallOK
  <2>2. \A s \in Session : AtMostOne(Places(s)') /\ (Places(s) = {} => Places(s)' = {})
    <3>1. UNCHANGED waitingSessions
      BY <1>10 DEF EndTask
    <3> QED  BY <1>0, <3>1, SamePlaces
  <2>3. \A s \in Session : Servers(s)' \subseteq Servers(s)
    BY <1>0, <1>10, ExecutorAssumption DEF EndTask, Servers, ThreadsOK, WorkerStep
  <2>4. UNCHANGED processingCompleted
    BY <1>10 DEF EndTask
  <2> QED  BY <2>1, <2>2, <2>3, <2>4, NobodyNewKeeps DEF NobodyNew
<1>11. ASSUME NEW w \in Worker, Restore(w) PROVE OneInCharge'
  <2>1. \A s \in Session : Senders(s)' \subseteq Senders(s)
    BY <1>0, <1>11 DEF Restore, Senders, CallOK
  <2>2. \A s \in Session : AtMostOne(Places(s)') /\ (Places(s) = {} => Places(s)' = {})
    <3>1. UNCHANGED waitingSessions
      BY <1>11 DEF Restore
    <3> QED  BY <1>0, <3>1, SamePlaces
  <2>3. \A s \in Session : Servers(s)' \subseteq Servers(s)
    BY <1>0, <1>11, ExecutorAssumption DEF Restore, Servers, ThreadsOK, WorkerStep
  <2>4. UNCHANGED processingCompleted
    BY <1>11 DEF Restore
  <2> QED  BY <2>1, <2>2, <2>3, <2>4, NobodyNewKeeps DEF NobodyNew
<1>12. ASSUME NEW w \in Worker, Leave(w) PROVE OneInCharge'
  <2>1. \A s \in Session : Senders(s)' \subseteq Senders(s)
    BY <1>0, <1>12 DEF Leave, Senders, CallOK
  <2>2. \A s \in Session : AtMostOne(Places(s)') /\ (Places(s) = {} => Places(s)' = {})
    <3>1. UNCHANGED waitingSessions
      BY <1>12 DEF Leave
    <3> QED  BY <1>0, <3>1, SamePlaces
  <2>3. \A s \in Session : Servers(s)' \subseteq Servers(s)
    BY <1>0, <1>12, ExecutorAssumption DEF Leave, Servers, ThreadsOK, WorkerStep
  <2>4. UNCHANGED processingCompleted
    BY <1>12 DEF Leave
  <2> QED  BY <2>1, <2>2, <2>3, <2>4, NobodyNewKeeps DEF NobodyNew
<1>13. ASSUME NEW w \in Worker, Exit(w) PROVE OneInCharge'
  <2>1. \A s \in Session : Senders(s)' \subseteq Senders(s)
    BY <1>0, <1>13 DEF Exit, Senders, CallOK
  <2>2. \A s \in Session : AtMostOne(Places(s)') /\ (Places(s) = {} => Places(s)' = {})
    <3>1. UNCHANGED waitingSessions
      BY <1>13 DEF Exit
    <3> QED  BY <1>0, <3>1, SamePlaces
  <2>3. \A s \in Session : Servers(s)' \subseteq Servers(s)
    BY <1>0, <1>13, ExecutorAssumption DEF Exit, Servers, ThreadsOK, WorkerStep
  <2>4. UNCHANGED processingCompleted
    BY <1>13 DEF Exit
  <2> QED  BY <2>1, <2>2, <2>3, <2>4, NobodyNewKeeps DEF NobodyNew
<1>14. ASSUME NEW n \in 1..MaxSize, SetMaximumPoolSize(n) PROVE OneInCharge'
  <2>1. \A s \in Session : Senders(s)' \subseteq Senders(s)
    BY <1>0, <1>14 DEF SetMaximumPoolSize, Senders, CallOK
  <2>2. \A s \in Session : AtMostOne(Places(s)') /\ (Places(s) = {} => Places(s)' = {})
    <3>1. \E j \in Int : RemoveWorkers(j)
      BY <1>0, <1>14, WorkersFinite DEF SetMaximumPoolSize, SizesOK
    <3> QED  BY <1>0, <3>1, RemoveWorkersSignals, SamePlaces
  <2>3. \A s \in Session : Servers(s)' \subseteq Servers(s)
    BY <1>14 DEF SetMaximumPoolSize, Servers
  <2>4. UNCHANGED processingCompleted
    BY <1>14 DEF SetMaximumPoolSize
  <2> QED  BY <2>1, <2>2, <2>3, <2>4, NobodyNewKeeps DEF NobodyNew
<1>15. ASSUME NEW n \in 0..MaxSize, SetCorePoolSize(n) PROVE OneInCharge'
  <2>1. \A s \in Session : Senders(s)' \subseteq Senders(s)
    BY <1>0, <1>15 DEF SetCorePoolSize, Senders, CallOK
  <2>2. \A s \in Session : AtMostOne(Places(s)') /\ (Places(s) = {} => Places(s)' = {})
    <3>1. \E j \in Int : RemoveWorkers(j)
      BY <1>0, <1>15, WorkersFinite DEF SetCorePoolSize, SizesOK
    <3> QED  BY <1>0, <3>1, RemoveWorkersSignals, SamePlaces
  <2>3. \A s \in Session : Servers(s)' \subseteq Servers(s)
    BY <1>15 DEF SetCorePoolSize, Servers
  <2>4. UNCHANGED processingCompleted
    BY <1>15 DEF SetCorePoolSize
  <2> QED  BY <2>1, <2>2, <2>3, <2>4, NobodyNewKeeps DEF NobodyNew
<1>16. CASE PrestartCoreThread
  <2>1. \A s \in Session : Senders(s)' \subseteq Senders(s)
    BY <1>0, <1>16 DEF PrestartCoreThread, Senders, CallOK
  <2>2. \A s \in Session : AtMostOne(Places(s)') /\ (Places(s) = {} => Places(s)' = {})
    <3>1. UNCHANGED waitingSessions
      BY <1>16 DEF PrestartCoreThread
    <3> QED  BY <1>0, <3>1, SamePlaces
  <2>3. \A s \in Session : Servers(s)' \subseteq Servers(s)
    BY <1>0, <1>16, AddWorkerServers DEF PrestartCoreThread
  <2>4. UNCHANGED processingCompleted
    BY <1>16 DEF PrestartCoreThread
  <2> QED  BY <2>1, <2>2, <2>3, <2>4, NobodyNewKeeps DEF NobodyNew
<1>17. CASE Shutdown
  <2>1. \A s \in Session : Senders(s)' \subseteq Senders(s)
    BY <1>0, <1>17 DEF Shutdown, Senders, CallOK
  <2>2. \A s \in Session : AtMostOne(Places(s)') /\ (Places(s) = {} => Places(s)' = {})
    <3>1. UNCHANGED waitingSessions
      BY <1>17 DEF Shutdown
    <3> QED  BY <1>0, <3>1, SamePlaces
  <2>3. \A s \in Session : Servers(s)' \subseteq Servers(s)
    BY <1>17 DEF Shutdown, Servers
  <2>4. UNCHANGED processingCompleted
    BY <1>17 DEF Shutdown
  <2> QED  BY <2>1, <2>2, <2>3, <2>4, NobodyNewKeeps DEF NobodyNew
<1>18. CASE SignalWorkers
  <2>1. \A s \in Session : Senders(s)' \subseteq Senders(s)
    BY <1>0, <1>18 DEF SignalWorkers, Senders, CallOK
  <2>2. \A s \in Session : AtMostOne(Places(s)') /\ (Places(s) = {} => Places(s)' = {})
    <3>1. \E j \in Nat : waitingSessions' = waitingSessions \o Signals(j)
      BY <1>0, <1>18, WorkersFinite DEF SignalWorkers
    <3> QED  BY <1>0, <3>1, SamePlaces
  <2>3. \A s \in Session : Servers(s)' \subseteq Servers(s)
    BY <1>18 DEF SignalWorkers, Servers
  <2>4. UNCHANGED processingCompleted
    BY <1>18 DEF SignalWorkers
  <2> QED  BY <2>1, <2>2, <2>3, <2>4, NobodyNewKeeps DEF NobodyNew
<1>19. CASE PollExitSignal
  <2>1. \A s \in Session : Senders(s)' \subseteq Senders(s)
    BY <1>0, <1>19 DEF PollExitSignal, Senders, CallOK
  <2>2. \A s \in Session : AtMostOne(Places(s)') /\ (Places(s) = {} => Places(s)' = {})
    <3>1. waitingSessions # <<>> /\ waitingSessions' = Tail(waitingSessions)
      BY <1>19 DEF PollExitSignal
    <3>2. \A s \in Session : AtMostOne(At(waitingSessions, s))
      BY PlacesAt DEF OneInCharge
    <3>3. \A s \in Session : AtMostOne(At(waitingSessions', s)) /\ (At(waitingSessions, s) = {} => At(waitingSessions', s) = {})
      BY <1>0, <3>1, <3>2, AtTail DEF WaitingOK
    <3> QED  BY <3>3 DEF Places, At
  <2>3. \A s \in Session : Servers(s)' \subseteq Servers(s)
    BY <1>19 DEF PollExitSignal, Servers
  <2>4. UNCHANGED processingCompleted
    BY <1>19 DEF PollExitSignal
  <2> QED  BY <2>1, <2>2, <2>3, <2>4, NobodyNewKeeps DEF NobodyNew
<1>20. CASE PutBack
  <2>1. \A s \in Session : Senders(s)' \subseteq Senders(s)
    BY <1>0, <1>20 DEF PutBack, Senders, CallOK
  <2>2. \A s \in Session : AtMostOne(Places(s)') /\ (Places(s) = {} => Places(s)' = {})
    <3>1. waitingSessions' = Append(waitingSessions, EXIT_SIGNAL) /\ EXIT_SIGNAL \in Item
      BY <1>20 DEF PutBack, Item
    <3>2. \A s \in Session : At(waitingSessions', s) = At(waitingSessions, s)
      BY <1>0, <3>1, AtAppend, ExecutorAssumption DEF WaitingOK
    <3>3. \A s \in Session : Places(s)' = Places(s)
      BY <3>2 DEF Places, At
    <3> QED  BY <3>3 DEF OneInCharge, AtMostOne
  <2>3. \A s \in Session : Servers(s)' \subseteq Servers(s)
    BY <1>20 DEF PutBack, Servers
  <2>4. UNCHANGED processingCompleted
    BY <1>20 DEF PutBack
  <2> QED  BY <2>1, <2>2, <2>3, <2>4, NobodyNewKeeps DEF NobodyNew
<1>21. CASE DrainSession
  <2>1. \A s \in Session : Senders(s)' \subseteq Senders(s)
    BY <1>0, <1>21 DEF DrainSession, Senders, CallOK
  <2>2. \A s \in Session : AtMostOne(Places(s)') /\ (Places(s) = {} => Places(s)' = {})
    <3>1. waitingSessions # <<>> /\ waitingSessions' = Tail(waitingSessions)
      BY <1>21 DEF DrainSession
    <3>2. \A s \in Session : AtMostOne(At(waitingSessions, s))
      BY PlacesAt DEF OneInCharge
    <3>3. \A s \in Session : AtMostOne(At(waitingSessions', s)) /\ (At(waitingSessions, s) = {} => At(waitingSessions', s) = {})
      BY <1>0, <3>1, <3>2, AtTail DEF WaitingOK
    <3> QED  BY <3>3 DEF Places, At
  <2>3. \A s \in Session : Servers(s)' \subseteq Servers(s)
    BY <1>21 DEF DrainSession, Servers
  <2>4. UNCHANGED processingCompleted
    BY <1>21 DEF DrainSession
  <2> QED  BY <2>1, <2>2, <2>3, <2>4, NobodyNewKeeps DEF NobodyNew
<1>22. CASE Drained
  <2>1. \A s \in Session : Senders(s)' \subseteq Senders(s)
    BY <1>0, <1>22 DEF Drained, Senders, CallOK
  <2>2. \A s \in Session : AtMostOne(Places(s)') /\ (Places(s) = {} => Places(s)' = {})
    <3>1. UNCHANGED waitingSessions
      BY <1>22 DEF Drained
    <3> QED  BY <1>0, <3>1, SamePlaces
  <2>3. \A s \in Session : Servers(s)' \subseteq Servers(s)
    BY <1>22 DEF Drained, Servers
  <2>4. UNCHANGED processingCompleted
    BY <1>22 DEF Drained
  <2> QED  BY <2>1, <2>2, <2>3, <2>4, NobodyNewKeeps DEF NobodyNew
<1>23. CASE AwaitTermination
  <2>1. \A s \in Session : Senders(s)' \subseteq Senders(s)
    BY <1>0, <1>23 DEF AwaitTermination, Senders, CallOK
  <2>2. \A s \in Session : AtMostOne(Places(s)') /\ (Places(s) = {} => Places(s)' = {})
    <3>1. UNCHANGED waitingSessions
      BY <1>23 DEF AwaitTermination
    <3> QED  BY <1>0, <3>1, SamePlaces
  <2>3. \A s \in Session : Servers(s)' \subseteq Servers(s)
    BY <1>23 DEF AwaitTermination, Servers
  <2>4. UNCHANGED processingCompleted
    BY <1>23 DEF AwaitTermination
  <2> QED  BY <2>1, <2>2, <2>3, <2>4, NobodyNewKeeps DEF NobodyNew
<1>24. ASSUME NEW e \in Event, Accept(e) PROVE OneInCharge'
  <2> DEFINE t == SessionOf[e]
  <2>1. t \in Session
    BY ExecutorAssumption
  <2>2. \A s \in Session : Places(s)' = Places(s) /\ Servers(s)' = Servers(s)
    BY <1>24 DEF Accept, Places, Servers
  <2>3. \A s \in Session : s # t => Senders(s)' = Senders(s) /\ processingCompleted'[s] = processingCompleted[s]
    BY <1>0, <1>24 DEF Accept, Senders, CallStep, CallOK, QueuesOK
  <2>4. processingCompleted'[t] = FALSE
    BY <1>0, <1>24, <2>1 DEF Accept, QueuesOK
  <2>5. IF processingCompleted[t] THEN Senders(t)' = Senders(t) \cup {e} ELSE Senders(t)' = Senders(t)
    BY <1>0, <1>24, <2>1 DEF Accept, Senders, CallStep, CallOK
  <2> QED  BY <2>1, <2>2, <2>3, <2>4, <2>5 DEF OneInCharge, AtMostOne
<1>25. ASSUME NEW e \in Event, OfferSession(e) PROVE OneInCharge'
  <2> DEFINE t == SessionOf[e]
  <2>1. t \in Session /\ t \in Item
    BY ExecutorAssumption DEF Item
  <2>2. \A s \in Session : Servers(s)' = Servers(s) /\ processingCompleted'[s] = processingCompleted[s]
    BY <1>25 DEF OfferSession, Servers
  <2>3. e \in Senders(t) /\ e \notin Senders(t)' /\ \A s \in Session : Senders(s)' \subseteq Senders(s)
    BY <1>0, <1>25 DEF OfferSession, Senders, CallStep, CallOK
  <2>4. Senders(t)' = {} /\ Places(t) = {}
    BY <2>1, <2>3 DEF OneInCharge, AtMostOne
  <2>5. \A s \in Session : s # t => At(waitingSessions', s) = At(waitingSessions, s)
    BY <1>0, <1>25, <2>1, AtAppend DEF OfferSession, WaitingOK
  <2>6. At(waitingSessions', t) = At(waitingSessions, t) \cup {Len(waitingSessions) + 1}
    BY <1>0, <1>25, <2>1, AtAppend DEF OfferSession, WaitingOK
  <2>7. /\ \A s \in Session : s # t => Places(s)' = Places(s)
        /\ Places(t)' = {Len(waitingSessions) + 1}
    BY <2>4, <2>5, <2>6 DEF Places, At
  <2> QED  BY <2>1, <2>2, <2>3, <2>4, <2>7 DEF OneInCharge, AtMostOne
<1>26. ASSUME NEW w \in Worker, Fetch(w) PROVE OneInCharge'
  <2> DEFINE h == Head(waitingSessions)
  <2>1. waitingSessions # <<>> /\ waitingSessions' = Tail(waitingSessions)
    BY <1>26 DEF Fetch
  <2>2. \A s \in Session : AtMostOne(At(waitingSessions, s))
    BY PlacesAt DEF OneInCharge
  <2>3. \A s \in Session : /\ AtMostOne(Places(s)')
                           /\ Places(s) = {} => Places(s)' = {}
                           /\ h = s => Places(s)' = {} /\ Places(s) # {}
    <3>1. \A s \in Session : /\ AtMostOne(At(waitingSessions', s))
                             /\ At(waitingSessions, s) = {} => At(waitingSessions', s) = {}
                             /\ h = s => At(waitingSessions', s) = {} /\ At(waitingSessions, s) # {}
      BY <1>0, <2>1, <2>2, AtTail DEF WaitingOK
    <3> QED  BY <3>1 DEF Places, At
  <2>4. \A s \in Session : Senders(s)' = Senders(s) /\ processingCompleted'[s] = processingCompleted[s]
    BY <1>26 DEF Fetch, Senders
  <2>5. \A s \in Session : Servers(s)' \subseteq Servers(s) \cup {w} /\ (s # h => Servers(s)' \subseteq Servers(s))
    BY <1>0, <1>26 DEF Fetch, Servers, WorkerStep, ThreadsOK
  <2> QED  BY <2>3, <2>4, <2>5 DEF OneInCharge, AtMostOne
<1>27. ASSUME NEW w \in Worker, NoTaskLeft(w) PROVE OneInCharge'
  <2>0. fetched[w] \in Session
    BY <1>0, <1>27 DEF NoTaskLeft, WorkerStep, ThreadsOK
  <2> PICK t \in Session : t = fetched[w]
    BY <2>0
  <2>1. t \in Session /\ w \in Servers(t)
    BY <1>0, <1>27 DEF NoTaskLeft, Servers, WorkerStep, ThreadsOK
  <2>2. \A s \in Session : Senders(s)' = Senders(s) /\ Places(s)' = Places(s)
    BY <1>27 DEF NoTaskLeft, Senders, Places
  <2>3. Senders(t) = {} /\ Places(t) = {} /\ Servers(t) = {w}
    BY <2>1 DEF OneInCharge, AtMostOne
  <2>4. \A s \in Session : Servers(s)' \subseteq Servers(s) /\ w \notin Servers(s)'
    BY <1>0, <1>27 DEF NoTaskLeft, Servers, WorkerStep, ThreadsOK
  <2>5. Servers(t)' = {}
    <3>1. Servers(t)' \subseteq Servers(t) /\ w \notin Servers(t)'
      BY <2>1, <2>4
    <3>2. \A x : x \in Servers(t)' => x \in Servers(t) /\ x # w
      BY <3>1
    <3>3. \A x : x \in Servers(t) => x = w
      BY <2>3
    <3> QED  BY <3>2, <3>3
  <2>6. \A s \in Session : s # t => processingCompleted'[s] = processingCompleted[s]
    BY <1>0, <1>27 DEF NoTaskLeft, QueuesOK
  <2> QED  BY <2>1, <2>2, <2>3, <2>4, <2>5, <2>6 DEF OneInCharge, AtMostOne
<1>28. CASE UNCHANGED vars
  BY <1>28 DEF vars, OneInCharge, Senders, Places, Servers, AtMostOne
<1> QED  BY <1>1, <1>2, <1>3, <1>4, <1>5, <1>6, <1>7, <1>8, <1>9, <1>10, <1>11, <1>12, <1>13, <1>14, <1>15, <1>16, <1>17, <1>18, <1>19, <1>20, <1>21, <1>22, <1>23, <1>24, <1>25, <1>26, <1>27, <1>28 DEF Next, ExecuteNext, WorkerNext, ResizeNext, CloserNext

LEMMA ChargeInit == Init => OneInCharge
BY DEF Init, OneInCharge, Senders, Places, Servers, AtMostOne

\* For any events, workers and pool sizes, whatever throws or is shut down,
\* nobody but one party has charge of a session.
THEOREM OneInChargeCorrect == Spec => []OneInCharge
<1>1. Init => TypeOK /\ OneInCharge
  BY TypeInit, ChargeInit
<1>2. TypeOK /\ OneInCharge /\ [Next]_vars => (TypeOK /\ OneInCharge)'
  BY TypeStep, ChargeStep
<1> QED  BY <1>1, <1>2, PTL DEF Spec

-----------------------------------------------------------------------------
(* The refinement of OrderedEvents *)

Mapped == [s \in Session |-> InProgress(s)]

\* What workers run is the same if no worker begins or ends an event.
LEMMA SameProgress ==
  ASSUME \A w \in Worker : running'[w] = running[w] /\ (running[w] # Null => fetched'[w] = fetched[w])
  PROVE  Mapped' = Mapped
<1>1. \A s \in Session : InProgress(s)' = InProgress(s)
  BY DEF InProgress
<1> QED  BY <1>1 DEF Mapped

LEMMA SameWorkers ==
  ASSUME UNCHANGED <<fetched, running>>
  PROVE  Mapped' = Mapped
BY SameProgress

\* Steps that neither queue nor run an event.
Quiet == UNCHANGED tasksQueue /\ Mapped' = Mapped

LEMMA SerialStep == TypeOK /\ OneInCharge /\ [Next]_vars => [Serial!Next]_(Serial!vars)
<1> SUFFICES ASSUME TypeOK, OneInCharge, [Next]_vars PROVE Serial!Next \/ Quiet
  BY DEF Serial!vars, Quiet, Mapped
<1>0. CallOK /\ QueuesOK /\ WaitingOK /\ ThreadsOK /\ SizesOK /\ ClosingOK
  BY TypeParts DEF PartsOK
<1> USE DEF queueVars, workerVars, sizeVars, closeVars
<1>1. ASSUME NEW e \in Event, Accept(e) PROVE Serial!Submit(e)
  BY <1>1, SameWorkers DEF Accept, Serial!Submit, Mapped
<1>2. ASSUME NEW e \in Event, Remove(e) PROVE Serial!Next
  <2>1. SessionOf[e] \in Session /\ Mapped' = Mapped
    BY <1>2, SameWorkers, ExecutorAssumption DEF Remove
  <2>2. PICK i \in DOMAIN tasksQueue[SessionOf[e]] :
          tasksQueue' = [tasksQueue EXCEPT ![SessionOf[e]] = SubSeq(@, 1, i - 1) \o SubSeq(@, i + 1, Len(@))]
    BY <1>2 DEF Remove
  <2>3. Serial!Withdraw(SessionOf[e], i)
    BY <2>1, <2>2 DEF Serial!Withdraw, Mapped
  <2> QED  BY <2>1, <2>3 DEF Serial!Next
<1>3. ASSUME NEW e \in Event, Fire(e) \/ Refuse(e) \/ OfferSession(e) \/ ReadIdle(e) PROVE Quiet
  BY <1>3, SameWorkers DEF Fire, Refuse, OfferSession, ReadIdle, Quiet
<1>4. ASSUME AddWorker \/ UNCHANGED <<idleWorkers, workerVars>> PROVE Mapped' = Mapped
  BY <1>4, SameWorkers DEF AddWorker
<1>5. ASSUME NEW e \in Event, AddWorkerIfNecessary(e) PROVE Quiet
  BY <1>4, <1>5 DEF AddWorkerIfNecessary, Quiet
<1>6. ASSUME NEW w \in Worker, PollTask(w) PROVE Serial!Next
  <2>0. fetched[w] \in Session
    BY <1>0, <1>6 DEF PollTask, WorkerStep, ThreadsOK
  <2> PICK t \in Session : t = fetched[w]
    BY <2>0
  <2>1. t \in Session /\ pc[w] = "run" /\ w \in Servers(t) /\ tasksQueue[t] # <<>>
    BY <1>0, <1>6 DEF PollTask, Servers, WorkerStep, ThreadsOK
  <2>2. \A v \in Worker : running[v] # Null => fetched[v] # t
    BY <1>0, <2>1 DEF OneInCharge, AtMostOne, Servers, ThreadsOK
  <2>3. Mapped[t] = {}
    BY <2>1, <2>2 DEF Mapped, InProgress
  <2>4. UNCHANGED fetched /\ running' = [running EXCEPT ![w] = Head(tasksQueue[t])]
    BY <1>6 DEF PollTask
  <2>5. Head(tasksQueue[t]) \in Event /\ Head(tasksQueue[t]) # Null /\ running[w] = Null
    BY <1>0, <2>1, HeadTailProperties, ExecutorAssumption DEF QueuesOK, ThreadsOK
  <2>6. InProgress(t)' = {Head(tasksQueue[t])}
    <3>1. running'[w] = Head(tasksQueue[t]) /\ running'[w] # Null /\ fetched'[w] = t
      BY <1>0, <2>4, <2>5 DEF ThreadsOK
    <3>2. {v \in Worker : running'[v] # Null /\ fetched'[v] = t} = {w}
      BY <1>0, <2>2, <2>4, <3>1 DEF ThreadsOK
    <3> QED  BY <3>1, <3>2 DEF InProgress
  <2>7. \A s \in Session : s # t => InProgress(s)' = InProgress(s)
    BY <1>0, <2>4, <2>5 DEF InProgress, ThreadsOK
  <2>8. Mapped' = [Mapped EXCEPT ![t] = {Head(tasksQueue[t])}]
    BY <2>6, <2>7 DEF Mapped
  <2>9. Serial!Begin(t)
    BY <1>6, <2>1, <2>3, <2>8 DEF Serial!Begin, PollTask, Mapped
  <2> QED  BY <2>1, <2>9 DEF Serial!Next
<1>7. ASSUME NEW w \in Worker, EndTask(w) PROVE Serial!Next
  <2>0. fetched[w] \in Session
    BY <1>0, <1>7 DEF EndTask, WorkerStep, ThreadsOK
  <2> PICK t \in Session : t = fetched[w]
    BY <2>0
  <2>1. t \in Session /\ pc[w] = "running" /\ w \in Servers(t) /\ running[w] # Null
    BY <1>0, <1>7 DEF EndTask, Servers, WorkerStep, ThreadsOK
  <2>2. \A v \in Worker : v # w /\ running[v] # Null => fetched[v] # t
    BY <1>0, <2>1 DEF OneInCharge, AtMostOne, Servers, ThreadsOK
  <2>3. running[w] \in Mapped[t]
    BY <2>1 DEF Mapped, InProgress
  <2>4. UNCHANGED <<fetched, tasksQueue>> /\ running' = [running EXCEPT ![w] = Null]
    BY <1>7 DEF EndTask
  <2>5. InProgress(t)' = {}
    <3>1. {v \in Worker : running'[v] # Null /\ fetched'[v] = t} = {}
      BY <1>0, <2>2, <2>4 DEF ThreadsOK
    <3> QED  BY <3>1 DEF InProgress
  <2>6. \A s \in Session : s # t => InProgress(s)' = InProgress(s)
    BY <1>0, <2>1, <2>4 DEF InProgress, ThreadsOK
  <2>7. Mapped' = [Mapped EXCEPT ![t] = {}]
    BY <2>5, <2>6 DEF Mapped
  <2>8. Serial!End(t)
    BY <2>1, <2>3, <2>4, <2>7 DEF Serial!End, Mapped
  <2> QED  BY <2>1, <2>8 DEF Serial!Next
<1>8. ASSUME NEW w \in Worker, IdleLeaves(w) \/ NoTaskLeft(w) \/ Leave(w) \/ Exit(w) PROVE Quiet
  BY <1>8, SameWorkers DEF IdleLeaves, NoTaskLeft, Leave, Exit, Quiet
<1>9. ASSUME NEW w \in Worker, Fetch(w) \/ FetchTimeout(w) \/ NoLongerIdle(w) \/ Restore(w) PROVE Quiet
  <2>1. UNCHANGED <<tasksQueue, running>> /\ pc[w] # "running"
    BY <1>9 DEF Fetch, FetchTimeout, NoLongerIdle, Restore, WorkerStep
  <2>2. running[w] = Null
    BY <1>0, <2>1 DEF ThreadsOK
  <2>3. \A v \in Worker : v # w => fetched'[v] = fetched[v]
    BY <1>0, <1>9 DEF Fetch, FetchTimeout, NoLongerIdle, Restore, ThreadsOK
  <2> QED  BY <2>1, <2>2, <2>3, SameProgress DEF Quiet
<1>10. CASE ResizeNext
  <2>1. CASE PrestartCoreThread
    BY <1>4, <2>1 DEF PrestartCoreThread, Quiet
  <2>2. CASE \E n \in Int : SetMaximumPoolSize(n) \/ SetCorePoolSize(n)
    BY <2>2, SameWorkers DEF SetMaximumPoolSize, SetCorePoolSize, Quiet
  <2> QED  BY <1>10, <2>1, <2>2, ExecutorAssumption DEF ResizeNext
<1>11. CASE DrainSession
  <2>1. Head(waitingSessions) \in Session /\ Mapped' = Mapped
    BY <1>0, <1>11, HeadTailProperties, SameWorkers DEF DrainSession, WaitingOK, Item
  <2>2. Serial!WithdrawAll(Head(waitingSessions))
    BY <1>11, <2>1 DEF DrainSession, Serial!WithdrawAll, Mapped
  <2> QED  BY <2>1, <2>2 DEF Serial!Next
<1>12. CASE Shutdown \/ SignalWorkers \/ PollExitSignal \/ PutBack \/ Drained \/ AwaitTermination
  BY <1>12, SameWorkers DEF Shutdown, SignalWorkers, PollExitSignal, PutBack, Drained, AwaitTermination, Quiet
<1>13. CASE UNCHANGED vars
  BY <1>13, SameWorkers DEF vars, Quiet
<1> QED  BY <1>1, <1>2, <1>3, <1>5, <1>6, <1>7, <1>8, <1>9, <1>10, <1>11, <1>12, <1>13
         DEF Next, ExecuteNext, WorkerNext, CloserNext, Serial!Next

\* EOrderedThreadPoolExecutor keeps the promise of EExecutorFilter.hh: the
\* events of a session run in the order in which they came, one at a time.
THEOREM SerialCorrect == Spec => SerialSpec
<1>1. Init => TypeOK /\ OneInCharge /\ Serial!Init
  <2>1. Init => Serial!Init
    BY DEF Init, Serial!Init, InProgress
  <2> QED  BY <2>1, TypeInit, ChargeInit
<1>2. TypeOK /\ OneInCharge /\ [Next]_vars => (TypeOK /\ OneInCharge)'
  BY TypeStep, ChargeStep
<1> QED  BY <1>1, <1>2, SerialStep, PTL DEF Spec, SerialSpec, Serial!Spec

-----------------------------------------------------------------------------
(* EventsHaveKeeper *)

\* Nothing has taken a session from who is in charge of it.
Undisturbed == ~failed /\ closer \in {"ready", "signal"}

\* The processing of a session is completed only if it has no events, and as
\* long as nothing disturbs the pool a session whose processing is not
\* completed is in charge of somebody.
KeeperInv ==
  \A s \in Session :
    /\ processingCompleted[s] => tasksQueue[s] = <<>>
    /\ Undisturbed => processingCompleted[s] \/ Senders(s) # {} \/ Places(s) # {} \/ Servers(s) # {}

\* A place behind the head moves up.
LEMMA TailKeeps ==
  ASSUME NEW q \in Seq(Item), q # <<>>, NEW s \in Session, At(q, s) # {}, Head(q) # s
  PROVE  At(Tail(q), s) # {}
<1>1. /\ Tail(q) \in Seq(Item) /\ Head(q) = q[1]
      /\ Len(q) \in Nat /\ Len(Tail(q)) = Len(q) - 1
      /\ \A i \in 1..Len(Tail(q)) : Tail(q)[i] = q[i + 1]
  BY HeadTailProperties, LenProperties
<1>2. PICK i \in 1..Len(q) : q[i] = s
  BY LenProperties DEF At
<1>3. i # 1
  BY <1>1, <1>2
<1>4. i - 1 \in 1..Len(Tail(q)) /\ (i - 1) + 1 = i
  BY <1>1, <1>2, <1>3
<1>5. Tail(q)[i - 1] = s
  BY <1>1, <1>2, <1>4
<1>6. DOMAIN Tail(q) = 1..Len(Tail(q))
  BY <1>1, LenProperties
<1> QED  BY <1>4, <1>5, <1>6 DEF At

\* What disturbs the pool does so for ever.
LEMMA UndisturbedBefore ==
  ASSUME TypeOK, [Next]_vars, Undisturbed'
  PROVE  Undisturbed
<1> USE DEF Undisturbed, queueVars, workerVars, sizeVars, closeVars
<1>1. ASSUME NEW e \in Event, Fire(e) \/ ExecuteNext(e) \/ Remove(e) PROVE Undisturbed
  BY <1>1 DEF Fire, ExecuteNext, Refuse, Accept, OfferSession, ReadIdle, AddWorkerIfNecessary, Remove
<1>2. ASSUME NEW w \in Worker, WorkerNext(w) PROVE Undisturbed
  BY <1>2 DEF TypeOK, WorkerNext, Fetch, FetchTimeout, NoLongerIdle, IdleLeaves, PollTask, NoTaskLeft, EndTask, Restore, Leave, Exit
<1>3. CASE ResizeNext \/ Shutdown
  BY <1>3 DEF ResizeNext, SetMaximumPoolSize, SetCorePoolSize, PrestartCoreThread, Shutdown, CloserStep
<1>4. CASE CloserNext
  BY <1>4 DEF CloserNext, SignalWorkers, PollExitSignal, PutBack, DrainSession, Drained, AwaitTermination, CloserStep
<1>5. CASE UNCHANGED vars
  BY <1>5 DEF vars
<1> QED  BY <1>1, <1>2, <1>3, <1>4, <1>5 DEF Next

\* A step that takes charge of no session from anybody and completes nothing.
LEMMA NobodyLostKeeps ==
  ASSUME KeeperInv, [Next]_vars, TypeOK, UNCHANGED processingCompleted,
         ASSUME NEW s \in Session
         PROVE  /\ tasksQueue[s] = <<>> => tasksQueue'[s] = <<>>
                /\ Undisturbed' => Senders(s) \subseteq Senders(s)'
                /\ Undisturbed' => (Places(s) # {} => Places(s)' # {})
                /\ Undisturbed' => Servers(s) \subseteq Servers(s)'
  PROVE  KeeperInv'
<1> SUFFICES ASSUME NEW s \in Session
             PROVE  /\ processingCompleted'[s] => tasksQueue'[s] = <<>>
                    /\ Undisturbed' => \/ processingCompleted'[s] \/ Senders(s)' # {}
                                       \/ Places(s)' # {} \/ Servers(s)' # {}
  BY DEF KeeperInv
<1>1. Undisturbed' => Undisturbed
  BY UndisturbedBefore
<1> QED  BY <1>1 DEF KeeperInv

LEMMA KeeperStep == TypeOK /\ OneInCharge /\ KeeperInv /\ [Next]_vars => KeeperInv'
<1> SUFFICES ASSUME TypeOK, OneInCharge, KeeperInv, [Next]_vars PROVE KeeperInv'
  OBVIOUS
<1>0. CallOK /\ QueuesOK /\ WaitingOK /\ ThreadsOK /\ SizesOK /\ ClosingOK
  BY TypeParts DEF PartsOK
<1> USE DEF queueVars, workerVars, sizeVars, closeVars
\* Senders that do not offer their session.
<1>1. ASSUME NEW e \in Event, Fire(e) \/ Refuse(e) \/ ReadIdle(e) \/ AddWorkerIfNecessary(e) \/ Remove(e)
      PROVE  KeeperInv'
  <2>1. /\ UNCHANGED <<waitingSessions, processingCompleted>>
        /\ callPc[e] # "offerSession" /\ \E to : callPc' = [callPc EXCEPT ![e] = to]
    BY <1>1 DEF Fire, Refuse, ReadIdle, AddWorkerIfNecessary, Remove, CallStep
  <2>2. ASSUME NEW s \in Session, tasksQueue[s] = <<>> PROVE tasksQueue'[s] = <<>>
    <3>1. CASE UNCHANGED tasksQueue
      BY <2>2, <3>1
    <3>2. CASE Remove(e)
      <4>1. PICK i \in DOMAIN tasksQueue[SessionOf[e]] : TRUE
        BY <3>2 DEF Remove
      <4>2. s # SessionOf[e]
        BY <2>2, <4>1
      <4> QED  BY <1>0, <2>2, <3>2, <4>2 DEF Remove, QueuesOK
    <3> QED  BY <1>1, <3>1, <3>2 DEF Fire, Refuse, ReadIdle, AddWorkerIfNecessary
  <2>3. \A s \in Session : Senders(s) \subseteq Senders(s)'
    BY <1>0, <2>1 DEF Senders, CallOK
  <2>4. \A s \in Session : Places(s)' = Places(s)
    BY <2>1 DEF Places
  <2>5. \A s \in Session : Servers(s) \subseteq Servers(s)'
    <3>1. CASE UNCHANGED <<pc, fetched>>
      BY <3>1 DEF Servers
    <3>2. CASE \E w \in Worker \ Alive : pc' = [pc EXCEPT ![w] = "poll"] /\ UNCHANGED fetched
      BY <1>0, <3>2 DEF Servers, Alive, ThreadsOK
    <3> QED  BY <1>1, <3>1, <3>2 DEF Fire, Refuse, ReadIdle, AddWorkerIfNecessary, Remove, AddWorker
  <2> QED  BY <2>1, <2>2, <2>3, <2>4, <2>5, NobodyLostKeeps
\* Workers that neither fetch a session nor release it.
<1>2. ASSUME NEW w \in Worker, FetchTimeout(w) \/ NoLongerIdle(w) \/ IdleLeaves(w) \/ Restore(w) \/ Leave(w)
                               \/ Exit(w)
      PROVE  KeeperInv'
  <2>1. UNCHANGED <<waitingSessions, processingCompleted, tasksQueue, callPc>>
    BY <1>2 DEF FetchTimeout, NoLongerIdle, IdleLeaves, Restore, Leave, Exit
  <2>2. ASSUME NEW s \in Session PROVE Servers(s) \subseteq Servers(s)'
    <3>1. s # Null /\ s # EXIT_SIGNAL
      BY ExecutorAssumption
    <3>2. CASE NoLongerIdle(w)
      BY <1>0, <3>1, <3>2 DEF NoLongerIdle, Servers, ThreadsOK, WorkerStep
    <3>3. CASE FetchTimeout(w) \/ IdleLeaves(w) \/ Restore(w) \/ Leave(w) \/ Exit(w)
      <4>1. /\ pc[w] \notin {"fetched", "run", "running"}
            /\ \E to : pc' = [pc EXCEPT ![w] = to]
            /\ \E x : fetched' = fetched \/ fetched' = [fetched EXCEPT ![w] = x]
        BY <3>3 DEF FetchTimeout, IdleLeaves, Restore, Leave, Exit, WorkerStep
      <4> QED  BY <1>0, <4>1 DEF Servers, ThreadsOK
    <3> QED  BY <1>2, <3>2, <3>3
  <2> QED  BY <2>1, <2>2, NobodyLostKeeps DEF Senders, Places
<1>3. ASSUME NEW w \in Worker, PollTask(w) \/ EndTask(w) PROVE KeeperInv'
  <2>1. UNCHANGED <<waitingSessions, processingCompleted, callPc, fetched>>
    BY <1>3 DEF PollTask, EndTask
  <2>2. ASSUME Undisturbed' PROVE pc[w] \in {"run", "running"} /\ \E to \in {"run", "running"} : pc' = [pc EXCEPT ![w] = to]
    BY <1>3, <2>2 DEF PollTask, EndTask, WorkerStep, Undisturbed
  <2>3. ASSUME Undisturbed', NEW s \in Session PROVE Servers(s) \subseteq Servers(s)'
    BY <1>0, <2>1, <2>2, <2>3 DEF Servers, ThreadsOK
  <2>4. ASSUME NEW s \in Session, tasksQueue[s] = <<>> PROVE tasksQueue'[s] = <<>>
    <3>1. CASE UNCHANGED tasksQueue
      BY <2>4, <3>1
    <3>2. CASE PollTask(w)
      <4>1. tasksQueue[fetched[w]] # <<>> /\ tasksQueue' = [tasksQueue EXCEPT ![fetched[w]] = Tail(@)]
        BY <3>2 DEF PollTask
      <4> QED  BY <1>0, <2>4, <4>1 DEF QueuesOK
    <3> QED  BY <1>3, <3>1, <3>2 DEF EndTask
  <2> QED  BY <2>1, <2>3, <2>4, NobodyLostKeeps DEF Senders, Places
\* Resizing and shutting down.
<1>4. CASE ResizeNext \/ Shutdown
  <2>1. UNCHANGED <<processingCompleted, tasksQueue, callPc>>
    BY <1>4 DEF ResizeNext, SetMaximumPoolSize, SetCorePoolSize, PrestartCoreThread, Shutdown
  <2>2. UNCHANGED waitingSessions \/ \E k \in Nat : waitingSessions' = waitingSessions \o Signals(k)
    <3>1. ASSUME NEW j \in Int, RemoveWorkers(j) PROVE \E k \in Nat : waitingSessions' = waitingSessions \o Signals(k)
      BY <1>0, <3>1, RemoveWorkersSignals
    <3>2. ASSUME NEW n \in 1..MaxSize, SetMaximumPoolSize(n) PROVE \E k \in Nat : waitingSessions' = waitingSessions \o Signals(k)
      BY <1>0, <3>1, <3>2, WorkersFinite DEF SetMaximumPoolSize
    <3>3. ASSUME NEW n \in 0..MaxSize, SetCorePoolSize(n) PROVE \E k \in Nat : waitingSessions' = waitingSessions \o Signals(k)
      BY <1>0, <3>1, <3>3 DEF SetCorePoolSize, SizesOK
    <3> QED  BY <1>4, <3>2, <3>3 DEF ResizeNext, PrestartCoreThread, Shutdown
  <2>3. \A s \in Session : Places(s)' = Places(s)
    BY <1>0, <2>2, SamePlaces
  <2>4. \A s \in Session : Servers(s) \subseteq Servers(s)'
    <3>1. CASE UNCHANGED <<pc, fetched>>
      BY <3>1 DEF Servers
    <3>2. CASE \E w \in Worker \ Alive : pc' = [pc EXCEPT ![w] = "poll"] /\ UNCHANGED fetched
      BY <1>0, <3>2 DEF Servers, Alive, ThreadsOK
    <3> QED  BY <1>4, <3>1, <3>2
             DEF ResizeNext, SetMaximumPoolSize, SetCorePoolSize, PrestartCoreThread, Shutdown, AddWorker
  <2> QED  BY <2>1, <2>3, <2>4, NobodyLostKeeps DEF Senders
<1>5. CASE CloserNext
  <2>1. ~Undisturbed' /\ UNCHANGED processingCompleted
    BY <1>5 DEF CloserNext, SignalWorkers, PollExitSignal, PutBack, DrainSession, Drained, AwaitTermination,
       CloserStep, Undisturbed
  <2>2. \A s \in Session : tasksQueue[s] = <<>> => tasksQueue'[s] = <<>>
    <3>1. UNCHANGED tasksQueue \/ tasksQueue' = [tasksQueue EXCEPT ![Head(waitingSessions)] = <<>>]
      BY <1>5 DEF CloserNext, SignalWorkers, PollExitSignal, PutBack, DrainSession, Drained, AwaitTermination
    <3> QED  BY <1>0, <3>1 DEF QueuesOK
  <2> QED  BY <2>1, <2>2, NobodyLostKeeps
\* The handshake: whoever finds the processing completed takes charge, and it
\* passes on, until a worker finds the queue empty.
<1>6. ASSUME NEW e \in Event, Accept(e) PROVE KeeperInv'
  <2> PICK t \in Session : t = SessionOf[e]
    BY ExecutorAssumption
  <2>1. /\ processingCompleted' = [processingCompleted EXCEPT ![t] = FALSE]
        /\ tasksQueue' = [tasksQueue EXCEPT ![t] = Append(@, e)]
        /\ callPc[e] = "accept"
        /\ callPc' = [callPc EXCEPT ![e] = IF processingCompleted[t] THEN "offerSession" ELSE "readIdle"]
        /\ UNCHANGED <<waitingSessions, pc, fetched, failed, closer>>
    BY <1>6 DEF Accept, CallStep
  <2>2. \A s \in Session : Senders(s) \subseteq Senders(s)' /\ Places(s)' = Places(s) /\ Servers(s)' = Servers(s)
    BY <1>0, <2>1 DEF Senders, Places, Servers, CallOK
  <2>3. processingCompleted[t] => e \in Senders(t)'
    BY <1>0, <2>1 DEF Senders, CallOK
  <2>4. ASSUME NEW s \in Session
        PROVE  /\ processingCompleted'[s] => tasksQueue'[s] = <<>>
               /\ Undisturbed' => \/ processingCompleted'[s] \/ Senders(s)' # {}
                                  \/ Places(s)' # {} \/ Servers(s)' # {}
    <3>1. CASE s = t
      BY <1>0, <2>1, <2>2, <2>3, <3>1 DEF KeeperInv, Undisturbed, QueuesOK
    <3>2. CASE s # t
      BY <1>0, <2>1, <2>2, <3>2 DEF KeeperInv, Undisturbed, QueuesOK
    <3> QED  BY <3>1, <3>2
  <2> QED  BY <2>4 DEF KeeperInv
<1>7. ASSUME NEW e \in Event, OfferSession(e) PROVE KeeperInv'
  <2> PICK t \in Session : t = SessionOf[e]
    BY ExecutorAssumption
  <2>1. /\ waitingSessions' = Append(waitingSessions, t) /\ t \in Item
        /\ callPc' = [callPc EXCEPT ![e] = "readIdle"]
        /\ UNCHANGED <<processingCompleted, tasksQueue, pc, fetched, failed, closer>>
    BY <1>7 DEF OfferSession, CallStep, Item
  <2>2. \A s \in Session : s # t => At(waitingSessions', s) = At(waitingSessions, s)
    BY <1>0, <2>1, AtAppend DEF WaitingOK
  <2>3. At(waitingSessions', t) # {}
    <3>1. At(waitingSessions', t) = At(waitingSessions, t) \cup {Len(waitingSessions) + 1}
      BY <1>0, <2>1, AtAppend DEF WaitingOK
    <3> QED  BY <3>1
  <2>4. \A s \in Session : Servers(s)' = Servers(s) /\ (s # t => Senders(s)' = Senders(s))
    BY <1>0, <2>1 DEF Servers, Senders, CallOK
  <2>5. \A s \in Session : (s # t => Places(s)' = Places(s)) /\ Places(t)' # {}
    BY <2>2, <2>3 DEF Places, At
  <2> QED  BY <2>1, <2>4, <2>5 DEF KeeperInv, Undisturbed
<1>8. ASSUME NEW w \in Worker, Fetch(w) PROVE KeeperInv'
  <2> DEFINE h == Head(waitingSessions)
  <2>1. /\ waitingSessions # <<>> /\ waitingSessions' = Tail(waitingSessions)
        /\ pc[w] = "poll" /\ pc' = [pc EXCEPT ![w] = "fetched"] /\ fetched' = [fetched EXCEPT ![w] = h]
        /\ UNCHANGED <<processingCompleted, tasksQueue, callPc, failed, closer>>
    BY <1>8 DEF Fetch, WorkerStep
  <2>2. \A s \in Session : At(waitingSessions, s) # {} /\ h # s => At(waitingSessions', s) # {}
    BY <1>0, <2>1, TailKeeps DEF WaitingOK
  <2>3. \A s \in Session : Senders(s)' = Senders(s) /\ (Places(s) # {} /\ h # s => Places(s)' # {})
    BY <2>1, <2>2 DEF Senders, Places, At
  <2>4. \A s \in Session : Servers(s) \subseteq Servers(s)' /\ (s = h => w \in Servers(s)')
    BY <1>0, <2>1 DEF Servers, ThreadsOK
  <2>5. ASSUME NEW s \in Session
        PROVE  Undisturbed => processingCompleted[s] \/ Senders(s)' # {} \/ Places(s)' # {} \/ Servers(s)' # {}
    BY <2>3, <2>4 DEF KeeperInv
  <2> QED  BY <2>1, <2>5 DEF KeeperInv, Undisturbed
<1>9. ASSUME NEW w \in Worker, NoTaskLeft(w) PROVE KeeperInv'
  <2> PICK t \in Session : t = fetched[w]
    BY <1>0, <1>9 DEF NoTaskLeft, WorkerStep, ThreadsOK
  <2>1. /\ tasksQueue[t] = <<>> /\ processingCompleted' = [processingCompleted EXCEPT ![t] = TRUE]
        /\ pc' = [pc EXCEPT ![w] = "restore"]
        /\ UNCHANGED <<tasksQueue, callPc, waitingSessions, fetched, failed, closer>>
    BY <1>9 DEF NoTaskLeft, WorkerStep
  <2>2. \A s \in Session : /\ Senders(s)' = Senders(s) /\ Places(s)' = Places(s)
                           /\ s # t => Servers(s) \subseteq Servers(s)'
    BY <1>0, <2>1 DEF Senders, Places, Servers, ThreadsOK
  <2>3. ASSUME NEW s \in Session
        PROVE  /\ processingCompleted'[s] => tasksQueue'[s] = <<>>
               /\ Undisturbed' => \/ processingCompleted'[s] \/ Senders(s)' # {}
                                  \/ Places(s)' # {} \/ Servers(s)' # {}
    <3>1. CASE s = t
      BY <1>0, <2>1, <3>1 DEF QueuesOK
    <3>2. CASE s # t
      BY <1>0, <2>1, <2>2, <3>2 DEF KeeperInv, Undisturbed, QueuesOK
    <3> QED  BY <3>1, <3>2
  <2> QED  BY <2>3 DEF KeeperInv
<1>10. CASE UNCHANGED vars
  BY <1>10, NobodyLostKeeps DEF vars, Senders, Places, Servers
<1> QED  BY <1>1, <1>2, <1>3, <1>4, <1>5, <1>6, <1>7, <1>8, <1>9, <1>10 DEF Next, ExecuteNext, WorkerNext

\* For any events and workers: as long as no event throws and no shutdownNow()
\* takes events away, an event in the queue of its session is never without
\* somebody in charge of the session.
THEOREM EventsHaveKeeperCorrect == Spec => []EventsHaveKeeper
<1>1. Init => KeeperInv
  BY DEF Init, KeeperInv
<1>2. TypeOK /\ OneInCharge /\ KeeperInv /\ [Next]_vars => KeeperInv'
  BY KeeperStep
<1>3. TypeOK /\ KeeperInv => EventsHaveKeeper
  <2> SUFFICES ASSUME TypeOK, KeeperInv PROVE EventsHaveKeeper
    OBVIOUS
  <2>1. closer \notin {"drain", "putBack", "await", "waiting", "done"} => closer \in {"ready", "signal"}
    BY DEF TypeOK
  <2> QED  BY <2>1 DEF KeeperInv, EventsHaveKeeper, Undisturbed
<1> QED  BY <1>1, <1>2, <1>3, TypeCorrect, OneInChargeCorrect, PTL DEF Spec

-----------------------------------------------------------------------------
(* NothingStranded *)

\* The workers that wait for a session or have just been given one, and those
\* that serve the pool.
Idle == {w \in Worker : pc[w] \in {"poll", "fetched"}}
Serving == {w \in Worker : pc[w] \in {"poll", "fetched", "idle", "run", "running", "restore"}}

\* In a calm pool nobody has been told to leave, the set of workers and the
\* count of the idle ones are exact, and there may be a worker.
CalmInv ==
  /\ ~shutdown_ => closer = "ready"
  /\ Calm =>
       /\ maximumPoolSize = MaxSize
       /\ \A i \in DOMAIN waitingSessions : waitingSessions[i] # EXIT_SIGNAL
       /\ \A w \in Worker : fetched[w] # EXIT_SIGNAL /\ pc[w] # "thrown"
       /\ workers = Serving
       /\ idleWorkers = Cardinality(Idle)

\* A pool that is calm has been so, and nobody resizes it or shuts it down.
LEMMA CalmSteps ==
  ASSUME TypeOK, CalmInv, [Next]_vars, Calm'
  PROVE  /\ Calm /\ UNCHANGED <<sizeVars, shutdown_>>
         /\ \/ \E e \in Event : Fire(e) \/ ExecuteNext(e) \/ Remove(e)
            \/ \E w \in Worker : WorkerNext(w)
            \/ PrestartCoreThread \/ UNCHANGED vars
<1> USE DEF Calm, queueVars, workerVars, sizeVars, closeVars
<1>1. ASSUME NEW e \in Event, Fire(e) \/ ExecuteNext(e) \/ Remove(e) PROVE Calm /\ UNCHANGED <<sizeVars, shutdown_>>
  BY <1>1 DEF Fire, ExecuteNext, Refuse, Accept, OfferSession, ReadIdle, AddWorkerIfNecessary, Remove
<1>2. ASSUME NEW w \in Worker, WorkerNext(w) PROVE Calm /\ UNCHANGED <<sizeVars, shutdown_>>
  BY <1>2 DEF TypeOK, WorkerNext, Fetch, FetchTimeout, NoLongerIdle, IdleLeaves, PollTask, NoTaskLeft, EndTask, Restore, Leave, Exit
<1>3. CASE PrestartCoreThread \/ UNCHANGED vars
  BY <1>3 DEF PrestartCoreThread, vars
<1>4. ~Shutdown /\ ~(\E n : SetMaximumPoolSize(n) \/ SetCorePoolSize(n))
  BY DEF Shutdown, SetMaximumPoolSize, SetCorePoolSize, TypeOK
<1>5. ~CloserNext
  <2> SUFFICES ASSUME CloserNext PROVE FALSE
    OBVIOUS
  <2>1. closer # "ready" /\ shutdown_' = shutdown_
    BY DEF CloserNext, SignalWorkers, PollExitSignal, PutBack, DrainSession, Drained, AwaitTermination, CloserStep
  <2> QED  BY <2>1 DEF CalmInv
<1> QED  BY <1>1, <1>2, <1>3, <1>4, <1>5 DEF Next, ResizeNext

\* What AddWorker does if it does anything.
Adds(w) ==
  /\ w \in Worker \ Alive
  /\ idleWorkers' = idleWorkers + 1 /\ workers' = workers \cup {w}
  /\ pc' = [pc EXCEPT ![w] = "poll"]
  /\ UNCHANGED <<fetched, running>>

\* The sets of workers are finite, and what a step of one worker does to them.
LEMMA WorkerSets ==
  ASSUME ThreadsOK
  PROVE  /\ IsFiniteSet(Idle) /\ Cardinality(Idle) \in Nat /\ Idle \subseteq Serving
         /\ IsFiniteSet(Serving) /\ Cardinality(Serving) \in Nat
         /\ Cardinality({}) = 0
         /\ \A w : w \notin Idle => Cardinality(Idle \cup {w}) = Cardinality(Idle) + 1
         /\ \A w \in Idle : Cardinality(Idle \ {w}) = Cardinality(Idle) - 1
         /\ \A w \in Serving : Cardinality(Serving \ {w}) = Cardinality(Serving) - 1
<1>1. Idle \subseteq Serving /\ Serving \subseteq Worker
  BY DEF Idle, Serving
<1>2. IsFiniteSet(Idle) /\ IsFiniteSet(Serving)
  BY <1>1, ExecutorAssumption, FS_Subset
<1> QED  BY <1>1, <1>2, FS_CardinalityType, FS_AddElement, FS_RemoveElement, FS_EmptySet

LEMMA CalmWorkerStep ==
  ASSUME TypeOK, CalmInv, Calm, Calm', NEW w \in Worker, WorkerNext(w)
  PROVE  /\ \A i \in DOMAIN waitingSessions' : waitingSessions'[i] # EXIT_SIGNAL
         /\ \A v \in Worker : fetched'[v] # EXIT_SIGNAL /\ pc'[v] # "thrown"
         /\ workers' = Serving'
         /\ idleWorkers' = Cardinality(Idle')
         /\ Serving # {} => Serving' # {}
<1>0. WaitingOK /\ ThreadsOK /\ SizesOK
  BY TypeParts DEF PartsOK
<1> USE DEF queueVars, workerVars, sizeVars, closeVars
<1>a. /\ \A i \in DOMAIN waitingSessions : waitingSessions[i] # EXIT_SIGNAL
      /\ \A v \in Worker : fetched[v] # EXIT_SIGNAL /\ pc[v] # "thrown"
      /\ workers = Serving /\ idleWorkers = Cardinality(Idle)
  BY DEF CalmInv
<1>b. Null # EXIT_SIGNAL
  BY ExecutorAssumption
<1>1. CASE Fetch(w)
  <2>1. /\ waitingSessions # <<>> /\ waitingSessions' = Tail(waitingSessions)
        /\ pc[w] = "poll" /\ pc' = [pc EXCEPT ![w] = "fetched"]
        /\ fetched' = [fetched EXCEPT ![w] = Head(waitingSessions)]
        /\ UNCHANGED <<workers, idleWorkers>>
    BY <1>1 DEF Fetch, WorkerStep
  <2>2. Idle' = Idle /\ Serving' = Serving
    BY <1>0, <2>1 DEF Idle, Serving, ThreadsOK
  <2>3. /\ Head(waitingSessions) = waitingSessions[1] /\ 1 \in DOMAIN waitingSessions
        /\ \A i \in DOMAIN waitingSessions' : i + 1 \in DOMAIN waitingSessions /\ waitingSessions'[i] = waitingSessions[i + 1]
    BY <1>0, <2>1 DEF WaitingOK
  <2> QED  BY <1>0, <1>a, <2>1, <2>2, <2>3 DEF ThreadsOK
<1>2. CASE FetchTimeout(w)
  <2>1. /\ pc[w] = "poll" /\ pc' = [pc EXCEPT ![w] = "fetched"] /\ fetched' = [fetched EXCEPT ![w] = Null]
        /\ UNCHANGED <<workers, idleWorkers, waitingSessions>>
    BY <1>2 DEF FetchTimeout, WorkerStep
  <2>2. Idle' = Idle /\ Serving' = Serving
    BY <1>0, <2>1 DEF Idle, Serving, ThreadsOK
  <2> QED  BY <1>0, <1>a, <1>b, <2>1, <2>2 DEF ThreadsOK
<1>3. CASE NoLongerIdle(w)
  <2>1. /\ pc[w] = "fetched" /\ \E to \in {"idle", "run"} : pc' = [pc EXCEPT ![w] = to]
        /\ idleWorkers' = idleWorkers - 1
        /\ UNCHANGED <<workers, waitingSessions>>
        /\ \A v \in Worker : fetched'[v] = fetched[v]
    BY <1>0, <1>3, <1>a DEF NoLongerIdle, WorkerStep, ThreadsOK
  <2>2. Idle' = Idle \ {w} /\ Serving' = Serving /\ w \in Idle
    BY <1>0, <2>1 DEF Idle, Serving, ThreadsOK
  <2>3. Cardinality(Idle') = Cardinality(Idle) - 1
    BY <1>0, <2>2, WorkerSets
  <2> QED  BY <1>0, <1>a, <2>1, <2>2, <2>3 DEF ThreadsOK
<1>4. CASE IdleLeaves(w)
  <2>1. pc[w] = "idle" /\ UNCHANGED <<fetched, waitingSessions, idleWorkers>>
    BY <1>4 DEF IdleLeaves, WorkerStep
  <2>2. CASE Cardinality(workers) > corePoolSize
    <3>1. pc' = [pc EXCEPT ![w] = "leave"] /\ workers' = workers \ {w}
      BY <1>4, <2>2 DEF IdleLeaves, WorkerStep
    <3>2. Idle' = Idle /\ Serving' = Serving \ {w} /\ w \in Serving
      BY <1>0, <2>1, <3>1 DEF Idle, Serving, ThreadsOK
    <3>3. Cardinality(Serving) > 1
      BY <1>0, <1>a, <2>2, WorkerSets DEF Calm, SizesOK
    <3>4. Cardinality(Serving \ {w}) > 0
      BY <1>0, <3>2, <3>3, WorkerSets
    <3>5. Serving' # {}
      <4>1. Cardinality(Serving \ {w}) # Cardinality({})
        BY <3>4, FS_EmptySet
      <4> QED  BY <3>2, <4>1
    <3> QED  BY <1>0, <1>a, <2>1, <3>1, <3>2, <3>5 DEF ThreadsOK
  <2>3. CASE ~(Cardinality(workers) > corePoolSize)
    <3>1. pc' = [pc EXCEPT ![w] = "restore"] /\ workers' = workers
      BY <1>4, <2>3 DEF IdleLeaves, WorkerStep
    <3>2. Idle' = Idle /\ Serving' = Serving
      BY <1>0, <2>1, <3>1 DEF Idle, Serving, ThreadsOK
    <3> QED  BY <1>0, <1>a, <2>1, <3>1, <3>2 DEF ThreadsOK
  <2> QED  BY <2>2, <2>3
<1>5. CASE PollTask(w) \/ NoTaskLeft(w) \/ EndTask(w)
  <2>1. /\ pc[w] \in {"run", "running"} /\ \E to \in {"run", "running", "restore"} : pc' = [pc EXCEPT ![w] = to]
        /\ UNCHANGED <<workers, waitingSessions, fetched, idleWorkers>>
    BY <1>5 DEF PollTask, NoTaskLeft, EndTask, WorkerStep, Calm
  <2>2. Idle' = Idle /\ Serving' = Serving
    BY <1>0, <2>1 DEF Idle, Serving, ThreadsOK
  <2> QED  BY <1>0, <1>a, <2>1, <2>2 DEF ThreadsOK
<1>6. CASE Restore(w)
  <2>1. /\ pc[w] = "restore" /\ pc' = [pc EXCEPT ![w] = "poll"] /\ fetched' = [fetched EXCEPT ![w] = Null]
        /\ idleWorkers' = idleWorkers + 1 /\ UNCHANGED <<workers, waitingSessions>>
    BY <1>6, <1>a DEF Restore, WorkerStep
  <2>2. Idle' = Idle \cup {w} /\ Serving' = Serving /\ w \notin Idle
    BY <1>0, <2>1 DEF Idle, Serving, ThreadsOK
  <2>3. Cardinality(Idle') = Cardinality(Idle) + 1
    BY <1>0, <2>2, WorkerSets
  <2> QED  BY <1>0, <1>a, <1>b, <2>1, <2>2, <2>3 DEF ThreadsOK
<1>7. CASE Leave(w) \/ Exit(w)
  <2>1. /\ pc[w] \in {"leave", "exit"} /\ \E to \in {"exit", "none"} : pc' = [pc EXCEPT ![w] = to]
        /\ workers' \in {workers, workers \ {w}} /\ UNCHANGED <<waitingSessions, fetched, idleWorkers>>
    BY <1>7 DEF Leave, Exit, WorkerStep
  <2>2. Idle' = Idle /\ Serving' = Serving /\ w \notin Serving
    BY <1>0, <2>1 DEF Idle, Serving, ThreadsOK
  <2>3. workers' = workers
    BY <1>a, <2>1, <2>2
  <2> QED  BY <1>0, <1>a, <2>1, <2>2, <2>3 DEF ThreadsOK
<1> QED  BY <1>1, <1>2, <1>3, <1>4, <1>5, <1>6, <1>7 DEF WorkerNext

\* A worker more.
LEMMA CalmAdds ==
  ASSUME TypeOK, CalmInv, Calm, NEW w, Adds(w)
  PROVE  /\ \A v \in Worker : fetched'[v] # EXIT_SIGNAL /\ pc'[v] # "thrown"
         /\ workers' = Serving' /\ idleWorkers' = Cardinality(Idle') /\ Serving' # {}
<1>0. ThreadsOK
  BY TypeParts DEF PartsOK
<1>1. Idle' = Idle \cup {w} /\ Serving' = Serving \cup {w} /\ w \notin Idle
  BY <1>0 DEF Adds, Idle, Serving, ThreadsOK, Alive
<1>2. Cardinality(Idle') = Cardinality(Idle) + 1
  BY <1>0, <1>1, WorkerSets
<1>3. workers = Serving /\ idleWorkers = Cardinality(Idle) /\ \A v \in Worker : fetched[v] # EXIT_SIGNAL /\ pc[v] # "thrown"
  BY DEF CalmInv
<1> QED  BY <1>0, <1>1, <1>2, <1>3 DEF Adds, ThreadsOK

LEMMA AddWorkerAdds ==
  ASSUME AddWorker
  PROVE  \/ Cardinality(workers) >= maximumPoolSize /\ UNCHANGED <<idleWorkers, workerVars>>
         \/ ~(Cardinality(workers) >= maximumPoolSize) /\ \E w : Adds(w)
BY DEF AddWorker, Adds

\* The steps of senders and of prestartCoreThread().
LEMMA CalmOtherStep ==
  ASSUME TypeOK, CalmInv, Calm,
         \/ \E e \in Event : Fire(e) \/ ExecuteNext(e) \/ Remove(e)
         \/ PrestartCoreThread \/ UNCHANGED vars
  PROVE  /\ \A i \in DOMAIN waitingSessions' : waitingSessions'[i] # EXIT_SIGNAL
         /\ \A v \in Worker : fetched'[v] # EXIT_SIGNAL /\ pc'[v] # "thrown"
         /\ workers' = Serving'
         /\ idleWorkers' = Cardinality(Idle')
         /\ Serving # {} => Serving' # {}
<1>0. WaitingOK /\ ThreadsOK /\ SizesOK
  BY TypeParts DEF PartsOK
<1> USE DEF queueVars, workerVars, sizeVars, closeVars
<1>1. \A i \in DOMAIN waitingSessions' : waitingSessions'[i] # EXIT_SIGNAL
  <2>1. \A i \in DOMAIN waitingSessions : waitingSessions[i] # EXIT_SIGNAL
    BY DEF CalmInv
  <2>2. CASE UNCHANGED waitingSessions
    BY <2>1, <2>2
  <2>3. ASSUME NEW e \in Event, OfferSession(e) PROVE \A i \in DOMAIN waitingSessions' : waitingSessions'[i] # EXIT_SIGNAL
    <3>1. waitingSessions' = Append(waitingSessions, SessionOf[e]) /\ SessionOf[e] # EXIT_SIGNAL /\ SessionOf[e] \in Item
      BY <2>3, ExecutorAssumption DEF OfferSession, Item
    <3> QED  BY <1>0, <2>1, <3>1, AppendProperties DEF WaitingOK
  <2> QED  BY <2>2, <2>3 DEF Fire, ExecuteNext, Refuse, Accept, ReadIdle, AddWorkerIfNecessary, Remove, PrestartCoreThread, vars
<1>2. UNCHANGED <<idleWorkers, workerVars>> \/ \E w : Adds(w)
  BY AddWorkerAdds DEF Fire, ExecuteNext, Refuse, Accept, OfferSession, ReadIdle, AddWorkerIfNecessary, Remove, PrestartCoreThread, vars
<1>3. CASE UNCHANGED <<idleWorkers, workerVars>>
  <2>1. Idle' = Idle /\ Serving' = Serving
    BY <1>3 DEF Idle, Serving
  <2> QED  BY <1>1, <1>3, <2>1 DEF CalmInv
<1> QED  BY <1>1, <1>2, <1>3, CalmAdds

LEMMA CalmStep == TypeOK /\ CalmInv /\ [Next]_vars => CalmInv'
<1> SUFFICES ASSUME TypeOK, CalmInv, [Next]_vars PROVE CalmInv'
  OBVIOUS
<1> USE DEF queueVars, workerVars, sizeVars, closeVars
<1>1. ASSUME ~shutdown_' PROVE closer' = "ready"
  <2>1. ASSUME NEW e \in Event, Fire(e) \/ ExecuteNext(e) \/ Remove(e) PROVE UNCHANGED closeVars
    BY <2>1 DEF Fire, ExecuteNext, Refuse, Accept, OfferSession, ReadIdle, AddWorkerIfNecessary, Remove
  <2>2. ASSUME NEW w \in Worker, WorkerNext(w) PROVE UNCHANGED shutdown_ /\ (closer = "ready" => closer' = "ready")
    BY <2>2 DEF WorkerNext, Fetch, FetchTimeout, NoLongerIdle, IdleLeaves, PollTask, NoTaskLeft, EndTask, Restore, Leave, Exit
  <2>3. CASE ResizeNext \/ UNCHANGED vars
    BY <1>1, <2>3 DEF ResizeNext, SetMaximumPoolSize, SetCorePoolSize, PrestartCoreThread, vars, CalmInv
  <2>4. ~Shutdown
    BY <1>1 DEF Shutdown
  <2>5. ~CloserNext
    BY <1>1 DEF CloserNext, SignalWorkers, PollExitSignal, PutBack, DrainSession, Drained, AwaitTermination, CloserStep, CalmInv
  <2> QED  BY <1>1, <2>1, <2>2, <2>3, <2>4, <2>5 DEF Next, CalmInv
<1>2. ASSUME Calm'
      PROVE  /\ maximumPoolSize' = MaxSize
             /\ \A i \in DOMAIN waitingSessions' : waitingSessions'[i] # EXIT_SIGNAL
             /\ \A v \in Worker : fetched'[v] # EXIT_SIGNAL /\ pc'[v] # "thrown"
             /\ workers' = Serving' /\ idleWorkers' = Cardinality(Idle')
  <2>1. maximumPoolSize' = MaxSize
    BY <1>2, CalmSteps DEF CalmInv
  <2> QED  BY <1>2, <2>1, CalmSteps, CalmWorkerStep, CalmOtherStep
<1> QED  BY <1>1, <1>2 DEF CalmInv

LEMMA StrandedStep ==
  ASSUME TypeOK, CalmInv, NothingStranded, [Next]_vars, CalmInv'
  PROVE  NothingStranded'
<1> SUFFICES ASSUME Calm', NEW s \in Session, Places(s)' # {} PROVE Takers' # {}
  BY DEF NothingStranded
<1>0. CallOK /\ ThreadsOK /\ ThreadsOK'
  BY TypeParts, TypeStep DEF PartsOK
<1> USE DEF queueVars, workerVars, sizeVars, closeVars
<1>1. CASE Serving' # {}
  BY <1>1 DEF Serving, Takers, WorkerPc
<1>2. CASE Serving' = {}
  <2>1. Calm /\ Serving = {} /\ maximumPoolSize = MaxSize
    BY <1>2, CalmSteps, CalmWorkerStep, CalmOtherStep DEF CalmInv
  <2>2. workers = {} /\ idleWorkers = 0 /\ idleWorkers' = 0
    <3>1. Idle = {} /\ Idle' = {}
      BY <1>2, <2>1 DEF Idle, Serving
    <3> QED  BY <2>1, <3>1, FS_EmptySet DEF CalmInv
  <2>3. Places(s) # {} => \E e \in Event : callPc[e] \in {"addWorker", "readIdle"}
    <3>1. \A w \in Worker : pc[w] \notin WorkerPc \ {"none", "leave", "exit"}
      BY <2>1 DEF Serving, CalmInv, WorkerPc
    <3> QED  BY <2>1, <3>1 DEF NothingStranded, Takers
  <2>4. SUFFICES \E e \in Event : callPc'[e] \in {"addWorker", "readIdle"}
    BY <2>2 DEF Takers
  <2>5. ~PrestartCoreThread
    <3>1. ASSUME AddWorker PROVE FALSE
      <4>1. ~(Cardinality(workers) >= maximumPoolSize)
        BY <2>1, <2>2, ExecutorAssumption, FS_EmptySet
      <4>2. \E w : Adds(w)
        BY <3>1, <4>1, AddWorkerAdds
      <4> QED  BY <1>2, <2>1, <4>2, CalmAdds
    <3> QED  BY <3>1 DEF PrestartCoreThread
  <2>6. ASSUME NEW e \in Event, AddWorkerIfNecessary(e) PROVE FALSE
    <3>1. AddWorker
      BY <2>2, <2>6 DEF AddWorkerIfNecessary
    <3>2. ~(Cardinality(workers) >= maximumPoolSize)
      BY <2>1, <2>2, ExecutorAssumption, FS_EmptySet
    <3>3. \E w : Adds(w)
      BY <3>1, <3>2, AddWorkerAdds
    <3> QED  BY <1>2, <2>1, <3>3, CalmAdds
  <2>7. ASSUME NEW e \in Event, OfferSession(e) \/ ReadIdle(e) PROVE callPc'[e] \in {"addWorker", "readIdle"}
    BY <1>0, <2>2, <2>7 DEF OfferSession, ReadIdle, CallStep, CallOK
  <2>8. ASSUME NEW e \in Event, Fire(e) \/ Refuse(e) \/ Accept(e) \/ Remove(e)
        PROVE  \E d \in Event : callPc'[d] \in {"addWorker", "readIdle"}
    <3>1. UNCHANGED waitingSessions /\ callPc[e] \notin {"addWorker", "readIdle"} /\ \E to : callPc' = [callPc EXCEPT ![e] = to]
      BY <2>8 DEF Fire, Refuse, Accept, Remove, CallStep
    <3>2. Places(s) # {}
      BY <3>1 DEF Places
    <3> QED  BY <1>0, <2>3, <3>1, <3>2 DEF CallOK
  <2>9. ASSUME NEW w \in Worker, WorkerNext(w) PROVE UNCHANGED <<waitingSessions, callPc>>
    <3>1. w \notin Serving /\ pc[w] # "thrown"
      BY <2>1 DEF CalmInv
    <3>2. pc[w] \notin {"poll", "fetched", "idle", "run", "running", "restore", "thrown"}
      BY <3>1 DEF Serving
    <3> QED  BY <2>9, <3>2 DEF WorkerNext, Fetch, FetchTimeout, NoLongerIdle, IdleLeaves, PollTask, NoTaskLeft, EndTask,
               Restore, Leave, Exit, WorkerStep
  <2>10. CASE UNCHANGED <<waitingSessions, callPc>>
    <3>1. Places(s) # {}
      BY <2>10 DEF Places
    <3> QED  BY <2>3, <2>10, <3>1
  <2>11. CASE UNCHANGED vars
    BY <2>10, <2>11 DEF vars
  <2> QED  BY <2>5, <2>6, <2>7, <2>8, <2>9, <2>10, <2>11, CalmSteps DEF ExecuteNext
<1> QED  BY <1>1, <1>2

\* For any events and workers: in a pool with a core thread that nobody has
\* resized or shut down, and in which no event has thrown, a session that waits
\* has a worker that may take it, or a sender bound to start one.
THEOREM NothingStrandedCorrect == Spec => []NothingStranded
<1>1. Init => CalmInv /\ NothingStranded
  <2> SUFFICES ASSUME Init PROVE CalmInv /\ NothingStranded
    OBVIOUS
  <2>1. Idle = {} /\ Serving = {} /\ DOMAIN waitingSessions = {}
    BY DEF Init, Idle, Serving
  <2>2. \A s \in Session : Places(s) = {}
    BY <2>1 DEF Places
  <2> QED  BY <2>1, <2>2, ExecutorAssumption, FS_EmptySet DEF Init, CalmInv, NothingStranded
<1>2. TypeOK /\ CalmInv /\ NothingStranded /\ [Next]_vars => (CalmInv /\ NothingStranded)'
  BY CalmStep, StrandedStep
<1> QED  BY <1>1, <1>2, TypeCorrect, PTL DEF Spec

===============================================================================
