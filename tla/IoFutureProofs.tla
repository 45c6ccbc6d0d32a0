---------------------------- MODULE IoFutureProofs -----------------------------
(***************************************************************************)
(* For any number of threads and listeners: the types, that no thread      *)
(* waits on a completed future, that no listener is forgotten, and that    *)
(* IoFuture implements the safety part of FuturePromise.                   *)
(***************************************************************************)
EXTENDS IoFuture, FiniteSetTheorems, SequenceTheorems, TLAPS

-----------------------------------------------------------------------------
(* The inductive invariant *)

\* The threads that await() has counted.
Counted == {w \in Waiter : waiter[w] \in {"waiting", "woken", "interrupted"}}

CountOK == waiters = Cardinality(Counted)

\* One setter wins: only it goes through notifyListeners().
WinnerOK ==
  /\ ready <=> result # None
  /\ \A s \in Setter : setter[s] \in {"first", "others", "won"} => result = s
  /\ \A s \in Setter : setter[s] \in {"others", "won"} => firstListener = None

\* The listeners kept are distinct, added and not told.
Fresh(l) == l \in added /\ told[l] = 0

ListsOK ==
  /\ firstListener # None => Fresh(firstListener)
  /\ direct # None => ready /\ Fresh(direct) /\ direct # firstListener
  /\ \A i \in DOMAIN otherListeners : i >= cursor =>
       /\ Fresh(otherListeners[i])
       /\ otherListeners[i] # firstListener /\ otherListeners[i] # direct
  /\ \A i, j \in DOMAIN otherListeners : otherListeners[i] = otherListeners[j] => i = j
  /\ (\A s \in Setter : setter[s] # "others") => cursor = 1

IInv == TypeOK /\ CountOK /\ NobodySleeps /\ WinnerOK /\ ListsOK /\ NobodyForgotten

WaiterStates == {"new", "waiting", "woken", "interrupted", "done", "gaveUp", "threw"}
CountedStates == {"waiting", "woken", "interrupted"}

ListType ==
  /\ firstListener \in Listener \cup {None} /\ otherListeners \in Seq(Listener)
  /\ cursor \in Nat \ {0} /\ direct \in Listener \cup {None}
  /\ added \subseteq Listener /\ told \in [Listener -> Nat]
WaitType == waiters \in Nat /\ waiter \in [Waiter -> WaiterStates]
SetType ==
  /\ ready \in BOOLEAN /\ result \in Setter \cup {None}
  /\ setter \in [Setter -> {"new", "first", "others", "won", "refused"}]

LEMMA TypeParts == TypeOK <=> ListType /\ WaitType /\ SetType
BY DEF TypeOK, ListType, WaitType, SetType, WaiterStates

-----------------------------------------------------------------------------
(* The threads that wait *)

WaitInv == WaitType /\ CountOK /\ NobodySleeps

LEMMA CountedFinite == IsFiniteSet(Counted)
BY FutureAssumption, FS_Subset DEF Counted

LEMMA WaitInit == Init => WaitInv
<1> SUFFICES ASSUME Init PROVE WaitInv
  OBVIOUS
<1>1. Counted = {} /\ Waiting = {}
  BY DEF Init, Counted, Waiting
<1>2. CountOK
  BY <1>1, FS_EmptySet DEF Init, CountOK
<1> QED  BY <1>1, <1>2 DEF Init, WaitInv, WaitType, WaiterStates, NobodySleeps

\* One thread goes from one state to another: the count of those that wait
\* changes by what the thread does to it.
LEMMA Recount ==
  ASSUME WaitType, CountOK, NEW w \in Waiter, NEW to \in WaiterStates, Goes(w, to)
  PROVE  /\ waiter' \in [Waiter -> WaiterStates]
         /\ \A v \in Waiter : waiter'[v] = IF v = w THEN to ELSE waiter[v]
         /\ (waiter[w] \in CountedStates <=> to \in CountedStates)
            => Cardinality(Counted') = waiters
         /\ waiter[w] \notin CountedStates /\ to \in CountedStates
            => Cardinality(Counted') = waiters + 1
         /\ waiter[w] \in CountedStates /\ to \notin CountedStates
            => Cardinality(Counted') = waiters - 1 /\ waiters > 0
<1>1. /\ waiter' \in [Waiter -> WaiterStates]
      /\ \A v \in Waiter : waiter'[v] = IF v = w THEN to ELSE waiter[v]
  BY DEF WaitType, Goes
<1>2. CASE waiter[w] \in CountedStates <=> to \in CountedStates
  <2>1. Counted' = Counted
    BY <1>1, <1>2 DEF Counted, CountedStates
  <2> QED  BY <1>1, <1>2, <2>1 DEF CountOK
<1>3. CASE waiter[w] \notin CountedStates /\ to \in CountedStates
  <2>1. Counted' = Counted \cup {w} /\ w \notin Counted
    BY <1>1, <1>3 DEF Counted, CountedStates
  <2>2. Cardinality(Counted \cup {w}) = Cardinality(Counted) + 1
    BY <2>1, CountedFinite, FS_AddElement
  <2> QED  BY <1>1, <1>3, <2>1, <2>2 DEF CountOK
<1>4. CASE waiter[w] \in CountedStates /\ to \notin CountedStates
  <2>1. Counted' = Counted \ {w} /\ w \in Counted
    BY <1>1, <1>4 DEF Counted, CountedStates
  <2>2. Cardinality(Counted \ {w}) = Cardinality(Counted) - 1
    BY <2>1, CountedFinite, FS_RemoveElement
  <2>3. Cardinality(Counted \ {w}) \in Nat
    BY CountedFinite, FS_RemoveElement, FS_CardinalityType
  <2> QED  BY <1>1, <1>4, <2>1, <2>2, <2>3 DEF CountOK, WaitType
<1> QED  BY <1>2, <1>3, <1>4

\* The same, when the thread also counts itself as the code does.
LEMMA Moves ==
  ASSUME WaitInv, UNCHANGED ready,
         NEW w \in Waiter, NEW to \in WaiterStates, Goes(w, to),
         to = "waiting" => ~ready,
         \/ (waiter[w] \in CountedStates <=> to \in CountedStates) /\ waiters' = waiters
         \/ waiter[w] \notin CountedStates /\ to \in CountedStates /\ waiters' = waiters + 1
         \/ waiter[w] \in CountedStates /\ to \notin CountedStates /\ waiters' = waiters - 1
  PROVE  WaitInv'
<1>1. waiters' = Cardinality(Counted') /\ waiters' \in Nat /\ waiter' \in [Waiter -> WaiterStates]
  BY Recount DEF WaitInv, WaitType
<1>2. NobodySleeps'
  BY Recount DEF WaitInv, NobodySleeps, Waiting
<1> QED  BY <1>1, <1>2 DEF WaitInv, WaitType, CountOK

\* setValue() wakes everybody, also when it saves itself the notifyAll().
LEMMA SetFirstWakes ==
  ASSUME WaitInv, NEW s \in Setter, SetFirst(s), UNCHANGED waiters
  PROVE  WaitInv'
<1>1. /\ waiter' \in [Waiter -> WaiterStates]
      /\ Counted' = Counted
  BY DEF WaitInv, WaitType, SetFirst, NotifyAll, Waiting, Counted, WaiterStates
<1>2. Waiting' = {}
  <2>1. CASE waiters > 0
    BY <2>1 DEF SetFirst, NotifyAll, Waiting, WaitInv, WaitType
  <2>2. CASE waiters = 0
    <3>1. Counted = {}
      BY <2>2, CountedFinite, FS_EmptySet DEF WaitInv, CountOK
    <3> QED  BY <2>2, <3>1 DEF SetFirst, Counted, Waiting
  <2> QED  BY <2>1, <2>2 DEF WaitInv, WaitType
<1> QED  BY <1>1, <1>2 DEF WaitInv, WaitType, CountOK, NobodySleeps

LEMMA WaitKept ==
  ASSUME WaitInv, UNCHANGED <<ready, waiters, waiter>>
  PROVE  WaitInv'
BY DEF WaitInv, WaitType, CountOK, NobodySleeps, Waiting, Counted

LEMMA WaitStep == WaitInv /\ [Next]_vars => WaitInv'
<1> SUFFICES ASSUME WaitInv, [Next]_vars PROVE WaitInv'
  OBVIOUS
<1> USE DEF CountedStates, WaiterStates
<1>1. ASSUME NEW s \in Setter, SetValue(s) PROVE WaitInv'
  BY <1>1, SetFirstWakes, WaitKept DEF SetValue, SetAgain
<1>2. ASSUME NEW s \in Setter, SetterNext(s) PROVE WaitInv'
  BY <1>2, WaitKept DEF SetterNext, NotifyNobody, NotifyFirst, NotifyOther, NotifyEnd, setVars, waitVars
<1>3. ASSUME NEW l \in Listener, AddListener(l) PROVE WaitInv'
  BY <1>3, WaitKept DEF AddListener, setVars, waitVars
<1>4. ASSUME NEW l \in Listener, RemoveListener(l) PROVE WaitInv'
  BY <1>4, WaitKept DEF RemoveListener, setVars, waitVars
<1>5. CASE ToldDirect
  BY <1>5, WaitKept DEF ToldDirect, setVars, waitVars
<1>6. ASSUME NEW w \in Waiter, Await(w) PROVE WaitInv'
  BY <1>6, Moves DEF Await, AwaitReady, AwaitNotAtAll, AwaitWaits, setVars
<1>7. ASSUME NEW w \in Waiter, WaitEnds(w) PROVE WaitInv'
  BY <1>7, Moves DEF WaitEnds, setVars
<1>8. ASSUME NEW w \in Waiter, Interrupt(w) PROVE WaitInv'
  BY <1>8, Moves DEF Interrupt, setVars
<1>9. ASSUME NEW w \in Waiter, Wake(w) PROVE WaitInv'
  BY <1>9, Moves DEF Wake, Leave, setVars
<1>10. ASSUME NEW w \in Waiter, Throw(w) PROVE WaitInv'
  BY <1>10, Moves DEF Throw, Leave, setVars
<1>11. CASE UNCHANGED vars
  BY <1>11, WaitKept DEF vars, setVars, waitVars
<1> QED
  BY <1>1, <1>2, <1>3, <1>4, <1>5, <1>6, <1>7, <1>8, <1>9, <1>10, <1>11 DEF Next, WaiterNext

\* Nobody waits on a completed future, for any number of threads.
THEOREM NobodySleepsCorrect == Spec => []NobodySleeps
<1>1. WaitInv => NobodySleeps
  BY DEF WaitInv
<1> QED  BY <1>1, WaitInit, WaitStep, PTL DEF Spec

-----------------------------------------------------------------------------
(* The setters *)

SetInv == SetType /\ WinnerOK

LEMMA SetInit == Init => SetInv
BY DEF Init, SetInv, SetType, WinnerOK

\* Until the future has completed nobody goes through notifyListeners(); then
\* the winner only.
LEMMA Notifier ==
  ASSUME SetInv
  PROVE  /\ ~ready => \A s \in Setter : setter[s] \in {"new", "refused"}
         /\ \A s, t \in Setter : /\ setter[s] \in {"first", "others", "won"}
                                /\ setter[t] \in {"first", "others", "won"} => s = t
BY FutureAssumption DEF SetInv, SetType, WinnerOK

LEMMA SetKept ==
  ASSUME SetInv, UNCHANGED setVars, ready => UNCHANGED firstListener
  PROVE  SetInv'
BY Notifier DEF SetInv, SetType, WinnerOK, setVars

LEMMA SetStep == SetInv /\ [Next]_vars => SetInv'
<1> SUFFICES ASSUME SetInv, [Next]_vars PROVE SetInv'
  OBVIOUS
<1>1. ASSUME NEW s \in Setter, SetValue(s) PROVE SetInv'
  <2>1. CASE SetFirst(s)
    BY <1>1, <2>1, Notifier, FutureAssumption DEF SetValue, SetFirst, SetInv, SetType, WinnerOK, listVars
  <2>2. CASE SetAgain(s)
    BY <1>1, <2>2 DEF SetValue, SetAgain, SetInv, SetType, WinnerOK, listVars
  <2> QED  BY <1>1, <2>1, <2>2 DEF SetValue
<1>2. ASSUME NEW s \in Setter, SetterNext(s) PROVE SetInv'
  <2>1. CASE NotifyNobody(s)
    BY <2>1 DEF NotifyNobody, SetInv, SetType, WinnerOK, listVars
  <2>2. CASE NotifyFirst(s)
    BY <2>2, Notifier DEF NotifyFirst, SetInv, SetType, WinnerOK
  <2>3. CASE NotifyOther(s)
    BY <2>3, SetKept DEF NotifyOther
  <2>4. CASE NotifyEnd(s)
    BY <2>4, Notifier DEF NotifyEnd, SetInv, SetType, WinnerOK
  <2> QED  BY <1>2, <2>1, <2>2, <2>3, <2>4 DEF SetterNext
<1>3. ASSUME NEW l \in Listener, AddListener(l) PROVE SetInv'
  BY <1>3, SetKept DEF AddListener, AddFirst, AddOther, AddDirect
<1>4. ASSUME NEW l \in Listener, RemoveListener(l) PROVE SetInv'
  BY <1>4, SetKept DEF RemoveListener
<1>5. CASE ToldDirect
  BY <1>5, SetKept DEF ToldDirect
<1>6. ASSUME NEW w \in Waiter, Await(w) \/ WaitEnds(w) \/ Interrupt(w) \/ WaiterNext(w)
      PROVE  SetInv'
  BY <1>6, SetKept DEF Await, WaitEnds, Interrupt, WaiterNext, Wake, Throw, listVars
<1>7. CASE UNCHANGED vars
  BY <1>7, SetKept DEF vars, listVars
<1> QED
  BY <1>1, <1>2, <1>3, <1>4, <1>5, <1>6, <1>7 DEF Next

-----------------------------------------------------------------------------
(* The listeners *)

ListInv == ListType /\ ListsOK /\ NobodyForgotten

LEMMA ListInit == Init => ListInv
BY DEF Init, ListInv, ListType, ListsOK, NobodyForgotten

\* What is left of otherListeners when one listener is taken out of it.
LEMMA RemoveAtElements ==
  ASSUME NEW q \in Seq(Listener), NEW i \in DOMAIN q
  PROVE  /\ RemoveAt(q, i) \in Seq(Listener)
         /\ Len(RemoveAt(q, i)) = Len(q) - 1
         /\ \A j \in 1..(Len(q) - 1) : RemoveAt(q, i)[j] = IF j < i THEN q[j] ELSE q[j + 1]
<1> DEFINE a == SubSeq(q, 1, i - 1)
           b == SubSeq(q, i + 1, Len(q))
<1>1. i \in 1..Len(q) /\ Len(q) \in Nat
  OBVIOUS
<1>2. a \in Seq(Listener) /\ Len(a) = i - 1 /\ \A j \in 1..(i - 1) : a[j] = q[j]
  BY <1>1, SubSeqProperties
<1>3. /\ b \in Seq(Listener) /\ Len(b) = Len(q) - i
      /\ \A j \in 1..(Len(q) - i) : b[j] = q[i + j]
  BY <1>1, SubSeqProperties
<1> HIDE DEF a, b
<1>4. /\ a \o b \in Seq(Listener) /\ Len(a \o b) = Len(q) - 1
      /\ \A j \in 1..(Len(q) - 1) : (a \o b)[j] = IF j < i THEN q[j] ELSE q[j + 1]
  BY <1>1, <1>2, <1>3
<1> QED  BY <1>4 DEF RemoveAt, a, b

LEMMA ListKept ==
  ASSUME ListInv, UNCHANGED <<listVars, ready, setter>>
  PROVE  ListInv'
BY DEF ListInv, ListType, ListsOK, Fresh, NobodyForgotten, Pending, listVars

\* The notifier is where it was, or nobody is to be notified.
LEMMA SetValueLists ==
  ASSUME ListInv, SetInv, NEW s \in Setter, SetValue(s)
  PROVE  ListInv'
<1>1. CASE SetFirst(s)
  <2>1. ListType' /\ ListsOK'
    BY <1>1, Notifier DEF SetValue, SetFirst, listVars, ListInv, ListType, ListsOK, Fresh, SetInv, SetType
  <2>2. NobodyForgotten'
    BY <1>1 DEF SetValue, SetFirst, listVars, ListInv, NobodyForgotten, Pending, SetInv, SetType
  <2> QED  BY <2>1, <2>2 DEF ListInv
<1>2. CASE SetAgain(s)
  <2>1. setter[s] = "new"
    BY DEF SetValue
  <2>2. ListType' /\ ListsOK'
    BY <1>2, <2>1 DEF SetValue, SetAgain, listVars, ListInv, ListType, ListsOK, Fresh, SetInv, SetType
  <2>3. NobodyForgotten'
    BY <1>2, <2>1 DEF SetValue, SetAgain, listVars, ListInv, NobodyForgotten, Pending, SetInv, SetType
  <2> QED  BY <2>2, <2>3 DEF ListInv
<1> QED  BY <1>1, <1>2 DEF SetValue

LEMMA NotifyFirstLists ==
  ASSUME ListInv, SetInv, NEW s \in Setter, NotifyFirst(s)
  PROVE  ListInv'
<1>1. Fresh(firstListener) /\ firstListener \in Listener
  BY DEF NotifyFirst, ListInv, ListsOK, ListType
<1>2. told' = [told EXCEPT ![firstListener] = 1]
  BY <1>1 DEF NotifyFirst, Tell, ListInv, ListType, Fresh
<1>3. ListType'
  BY <1>1, <1>2 DEF NotifyFirst, ListInv, ListType
<1>4. setter'[s] = "others" /\ ready
  BY Notifier DEF NotifyFirst, SetInv, SetType
<1>5. cursor = 1
  BY Notifier DEF NotifyFirst, ListInv, ListsOK
<1>6. ListsOK'
  BY <1>1, <1>2, <1>4, <1>5, FutureAssumption DEF NotifyFirst, ListInv, ListsOK, ListType, Fresh, SetInv, SetType
<1>7. NobodyForgotten'
  <2>1. \A l \in added : told'[l] = 0 => Pending(l)'
    BY <1>1, <1>2 DEF NotifyFirst, ListInv, NobodyForgotten, Pending, ListType
  <2> QED  BY <1>4, <2>1 DEF NotifyFirst, NobodyForgotten
<1> QED  BY <1>3, <1>6, <1>7 DEF ListInv

LEMMA NotifyOtherLists ==
  ASSUME ListInv, SetInv, NEW s \in Setter, NotifyOther(s)
  PROVE  ListInv'
<1> DEFINE x == otherListeners[cursor]
<1>1. cursor \in DOMAIN otherListeners /\ x \in Listener /\ Fresh(x)
  BY DEF NotifyOther, ListInv, ListsOK, ListType
<1>2. told' = [told EXCEPT ![x] = 1]
  BY <1>1 DEF NotifyOther, Tell, ListInv, ListType, Fresh
<1>3. ListType'
  BY <1>1, <1>2 DEF NotifyOther, ListInv, ListType
<1>4. ListsOK'
  BY <1>1, <1>2, FutureAssumption DEF NotifyOther, ListInv, ListsOK, ListType, Fresh, setVars
<1>5. NobodyForgotten'
  BY <1>1, <1>2 DEF NotifyOther, ListInv, NobodyForgotten, Pending, ListType, setVars
<1> QED  BY <1>3, <1>4, <1>5 DEF ListInv

LEMMA NotifyEndLists ==
  ASSUME ListInv, SetInv, NEW s \in Setter, NotifyNobody(s) \/ NotifyEnd(s)
  PROVE  ListInv'
<1>1. otherListeners' = <<>> /\ firstListener' = None /\ UNCHANGED <<direct, added, told, ready>>
  BY Notifier DEF NotifyNobody, NotifyEnd, listVars, ListInv, NobodyForgotten, SetInv, WinnerOK
<1>2. cursor' = 1
  BY Notifier DEF NotifyNobody, NotifyEnd, listVars, ListInv, ListsOK
<1>3. ListType' /\ ListsOK'
  BY <1>1, <1>2 DEF ListInv, ListType, ListsOK, Fresh
<1>4. \A i \in DOMAIN otherListeners : i < cursor
  <2>1. CASE NotifyNobody(s)
    BY <1>1, <2>1 DEF NotifyNobody, listVars
  <2>2. CASE NotifyEnd(s)
    BY <2>2 DEF NotifyEnd, ListInv, ListType
  <2> QED  BY <2>1, <2>2
<1>5. firstListener = None
  BY DEF NotifyNobody, NotifyEnd, SetInv, WinnerOK
<1>6. NobodyForgotten'
  BY <1>1, <1>4, <1>5 DEF ListInv, ListType, NobodyForgotten, Pending
<1> QED  BY <1>3, <1>6 DEF ListInv

\* Before the completion all of otherListeners is pending.
LEMMA Unset ==
  ASSUME ListInv, SetInv, ~ready
  PROVE  /\ cursor = 1 /\ direct = None
         /\ DOMAIN otherListeners = 1..Len(otherListeners) /\ Len(otherListeners) \in Nat
         /\ \A i \in 1..Len(otherListeners) :
              /\ otherListeners[i] \in Listener
              /\ Fresh(otherListeners[i]) /\ otherListeners[i] # firstListener
         /\ \A i, j \in 1..Len(otherListeners) : otherListeners[i] = otherListeners[j] => i = j
<1>1. cursor = 1 /\ direct = None
  BY Notifier DEF ListInv, ListsOK
<1>2. /\ DOMAIN otherListeners = 1..Len(otherListeners) /\ Len(otherListeners) \in Nat
      /\ \A i \in 1..Len(otherListeners) : otherListeners[i] \in Listener
  BY DEF ListInv, ListType
<1> QED  BY <1>1, <1>2 DEF ListInv, ListsOK

\* The converse, for the state after a step.
LEMMA UnsetLists ==
  ASSUME NEW n \in Nat, ListType', ~ready', cursor' = 1, direct' = None,
         Len(otherListeners') = n,
         \A i \in 1..n : /\ otherListeners'[i] \in added' /\ told'[otherListeners'[i]] = 0
                         /\ otherListeners'[i] # firstListener',
         \A i, j \in 1..n : otherListeners'[i] = otherListeners'[j] => i = j,
         firstListener' # None => firstListener' \in added' /\ told'[firstListener'] = 0,
         \A l \in added' : told'[l] = 0 =>
           l = firstListener' \/ \E i \in 1..n : otherListeners'[i] = l,
         firstListener' = None => n = 0
  PROVE  ListInv'
<1>1. DOMAIN otherListeners' = 1..n
  BY DEF ListType
<1>2. /\ firstListener' # None => Fresh(firstListener)'
      /\ \A i \in 1..n : Fresh(otherListeners[i])'
  BY DEF Fresh
<1>3. ASSUME NEW i \in 1..n PROVE otherListeners'[i] # None
  BY <1>1, FutureAssumption DEF ListType
<1>4. ListsOK'
  BY <1>1, <1>2, <1>3 DEF ListsOK
<1>5. otherListeners' = <<>> <=> n = 0
  BY DEF ListType
<1>6. \A l \in added' : told'[l] = 0 => Pending(l)'
  BY <1>1 DEF Pending
<1>7. NobodyForgotten'
  BY <1>5, <1>6 DEF NobodyForgotten
<1> QED  BY <1>4, <1>7 DEF ListInv

LEMMA AddLists ==
  ASSUME ListInv, SetInv, NEW l \in Listener, AddListener(l)
  PROVE  ListInv'
<1>1. /\ l \notin added /\ told[l] = 0 /\ direct = None /\ l # None
      /\ added' = added \cup {l} /\ UNCHANGED <<ready, setter, cursor, told>>
  BY FutureAssumption DEF AddListener, MonitorFree, setVars
<1>2. CASE AddFirst(l)
  BY <1>1, <1>2 DEF AddFirst, ListInv, ListType, ListsOK, Fresh, NobodyForgotten, Pending
<1>3. CASE AddOther(l)
  <2> DEFINE n == Len(otherListeners)
  <2>1. /\ otherListeners' \in Seq(Listener) /\ Len(otherListeners') = n + 1
        /\ \A i \in 1..n : otherListeners'[i] = otherListeners[i]
        /\ otherListeners'[n + 1] = l
        /\ UNCHANGED <<firstListener, direct>> /\ ~ready /\ firstListener # None
    BY <1>3, AppendProperties DEF AddOther, ListInv, ListType
  <2>2. ListType'
    BY <1>1, <2>1 DEF ListInv, ListType
  <2>3. /\ cursor = 1 /\ n \in Nat
        /\ \A i \in 1..n : otherListeners[i] \in added /\ told[otherListeners[i]] = 0
                          /\ otherListeners[i] # firstListener
        /\ \A i, j \in 1..n : otherListeners[i] = otherListeners[j] => i = j
        /\ firstListener \in added /\ told[firstListener] = 0
    BY <2>1, Unset DEF Fresh, ListInv, ListsOK
  <2> HIDE DEF n
  <2>4. \A i \in 1..(n + 1) : /\ otherListeners'[i] \in added' /\ told'[otherListeners'[i]] = 0
                             /\ otherListeners'[i] # firstListener'
    BY <1>1, <2>1, <2>3
  <2>5. \A i, j \in 1..(n + 1) : otherListeners'[i] = otherListeners'[j] => i = j
    BY <1>1, <2>1, <2>3
  <2>6. ASSUME NEW k \in added', told'[k] = 0
        PROVE  k = firstListener' \/ \E i \in 1..(n + 1) : otherListeners'[i] = k
    <3>1. CASE k = l
      BY <2>1, <2>3, <3>1
    <3>2. CASE k # l
      <4>1. k = firstListener \/ \E i \in 1..n : otherListeners[i] = k
        <5>1. k \in added /\ told[k] = 0 /\ k # direct
          BY <1>1, <2>6, <3>2, FutureAssumption DEF ListInv, ListType
        <5>2. Pending(k)
          BY <5>1 DEF ListInv, NobodyForgotten
        <5> QED  BY <2>1, <5>1, <5>2, Unset DEF Pending, n
      <4> QED  BY <2>1, <2>3, <4>1
    <3> QED  BY <3>1, <3>2
  <2> QED  BY <1>1, <2>1, <2>2, <2>3, <2>4, <2>5, <2>6, UnsetLists
<1>4. CASE AddDirect(l)
  <2>1. direct' = l /\ ready /\ UNCHANGED <<firstListener, otherListeners>>
    BY <1>4 DEF AddDirect
  <2>2. ListType' /\ ListsOK'
    BY <1>1, <2>1 DEF ListInv, ListType, ListsOK, Fresh
  <2>3. ASSUME NEW k \in added', told'[k] = 0 PROVE Pending(k)'
    BY <1>1, <2>1, <2>3, FutureAssumption DEF ListInv, ListType, NobodyForgotten, Pending
  <2>4. NobodyForgotten'
    BY <1>1, <2>1, <2>3 DEF ListInv, NobodyForgotten
  <2> QED  BY <2>2, <2>4 DEF ListInv
<1> QED  BY <1>2, <1>3, <1>4 DEF AddListener

LEMMA ToldDirectLists ==
  ASSUME ListInv, ToldDirect
  PROVE  ListInv'
<1>1. direct \in Listener /\ Fresh(direct)
  BY DEF ToldDirect, ListInv, ListsOK, ListType
<1>2. told' = [told EXCEPT ![direct] = 1]
  BY <1>1 DEF ToldDirect, Tell, ListInv, ListType, Fresh
<1>3. ListType' /\ ListsOK'
  BY <1>1, <1>2, FutureAssumption DEF ToldDirect, ListInv, ListsOK, ListType, Fresh, setVars
<1>4. NobodyForgotten'
  BY <1>1, <1>2, FutureAssumption DEF ToldDirect, ListInv, NobodyForgotten, Pending, ListType, setVars
<1> QED  BY <1>3, <1>4 DEF ListInv

LEMMA RemoveLists ==
  ASSUME ListInv, SetInv, NEW l \in Listener, RemoveListener(l)
  PROVE  ListInv'
<1> DEFINE n == Len(otherListeners)
<1>1. /\ direct = None /\ ~ready /\ l # None
      /\ added' = added \ {l} /\ UNCHANGED <<ready, setter, cursor, direct, told>>
  BY FutureAssumption DEF RemoveListener, MonitorFree, setVars
<1>2. /\ cursor = 1 /\ n \in Nat /\ otherListeners \in Seq(Listener)
      /\ \A i \in 1..n : otherListeners[i] \in added /\ told[otherListeners[i]] = 0 /\ otherListeners[i] # firstListener
      /\ \A i \in 1..n : otherListeners[i] \in Listener
      /\ \A i, j \in 1..n : otherListeners[i] = otherListeners[j] => i = j
      /\ firstListener # None => firstListener \in added /\ told[firstListener] = 0
      /\ \A k \in added : told[k] = 0 => k = firstListener \/ \E i \in 1..n : otherListeners[i] = k
  <2>1. \A k \in added : told[k] = 0 => k = firstListener \/ \E i \in 1..n : otherListeners[i] = k
    BY <1>1, Unset, FutureAssumption DEF ListInv, ListType, NobodyForgotten, Pending
  <2> QED  BY <1>1, <2>1, Unset DEF Fresh, ListInv, ListsOK, ListType
<1>3. CASE RemoveOnly(l)
  BY <1>1, <1>3 DEF RemoveOnly, ListInv, ListType, ListsOK, Fresh, NobodyForgotten, Pending
<1>4. CASE RemoveLeading(l)
  <2>1. /\ otherListeners' \in Seq(Listener) /\ Len(otherListeners') = n - 1 /\ n - 1 \in Nat
        /\ \A i \in 1..(n - 1) : otherListeners'[i] = otherListeners[i + 1]
        /\ firstListener' = otherListeners[1] /\ firstListener = l
    BY <1>2, <1>4, HeadTailProperties DEF RemoveLeading
  <2>2. ListType' /\ firstListener' # None
    BY <1>1, <1>2, <2>1, FutureAssumption DEF ListInv, ListType
  <2> HIDE DEF n
  <2>3. \A i \in 1..(n - 1) : /\ otherListeners'[i] \in added' /\ told'[otherListeners'[i]] = 0
                             /\ otherListeners'[i] # firstListener'
    BY <1>1, <1>2, <2>1
  <2>4. \A i, j \in 1..(n - 1) : otherListeners'[i] = otherListeners'[j] => i = j
    BY <1>2, <2>1
  <2>5. firstListener' \in added' /\ told'[firstListener'] = 0
    BY <1>1, <1>2, <2>1
  <2>6. ASSUME NEW k \in added', told'[k] = 0
        PROVE  k = firstListener' \/ \E i \in 1..(n - 1) : otherListeners'[i] = k
    <3>1. PICK i \in 1..n : otherListeners[i] = k
      BY <1>1, <1>2, <2>1, <2>6
    <3>2. CASE i = 1
      BY <2>1, <3>1, <3>2
    <3>3. CASE i # 1
      <4>1. i - 1 \in 1..(n - 1) /\ otherListeners'[i - 1] = otherListeners[i]
        BY <1>2, <2>1, <3>3
      <4> QED  BY <3>1, <4>1
    <3> QED  BY <3>2, <3>3
  <2> QED  BY <1>1, <1>2, <2>1, <2>2, <2>3, <2>4, <2>5, <2>6, UnsetLists
<1>5. CASE RemoveOther(l)
  <2>1. PICK r \in 1..n : otherListeners[r] = l /\ otherListeners' = RemoveAt(otherListeners, r)
    BY <1>2, <1>5 DEF RemoveOther
  <2>2. /\ otherListeners' \in Seq(Listener) /\ Len(otherListeners') = n - 1 /\ n - 1 \in Nat
        /\ \A j \in 1..(n - 1) : otherListeners'[j] = IF j < r THEN otherListeners[j] ELSE otherListeners[j + 1]
        /\ firstListener' = firstListener /\ firstListener # l
    <3>1. r \in DOMAIN otherListeners
      BY <1>2
    <3>2. /\ RemoveAt(otherListeners, r) \in Seq(Listener)
          /\ Len(RemoveAt(otherListeners, r)) = n - 1
          /\ \A j \in 1..(n - 1) : RemoveAt(otherListeners, r)[j] = IF j < r THEN otherListeners[j] ELSE otherListeners[j + 1]
      BY <1>2, <3>1, RemoveAtElements
    <3>3. n - 1 \in Nat
      BY <1>2, <2>1
    <3>4. firstListener' = firstListener /\ firstListener # l
      BY <1>5 DEF RemoveOther
    <3> QED  BY <2>1, <3>2, <3>3, <3>4
  <2>3. ListType'
    BY <1>1, <2>2 DEF ListInv, ListType
  <2>4. firstListener' # None
    BY <1>1, <1>2, <2>1, <2>2 DEF ListInv, NobodyForgotten
  <2> HIDE DEF n
  <2>5. ASSUME NEW i \in 1..(n - 1)
        PROVE  otherListeners'[i] \in added' /\ told'[otherListeners'[i]] = 0 /\ otherListeners'[i] # firstListener'
    <3>1. PICK j \in 1..n : j # r /\ otherListeners'[i] = otherListeners[j]
      <4>1. i \in 1..n /\ i + 1 \in 1..n /\ r \in Int /\ i \in Int
        BY <1>2, <2>1
      <4>2. CASE i < r
        BY <2>2, <4>1, <4>2
      <4>3. CASE ~(i < r)
        BY <2>2, <4>1, <4>3
      <4> QED  BY <4>2, <4>3
    <3>2. otherListeners[j] # l
      BY <1>2, <2>1, <3>1
    <3> QED  BY <1>1, <1>2, <2>2, <3>1, <3>2
  <2>6. ASSUME NEW i \in 1..(n - 1), NEW j \in 1..(n - 1), otherListeners'[i] = otherListeners'[j]
        PROVE  i = j
    <3>1. CASE i < r
      BY <1>2, <2>1, <2>2, <2>6, <3>1
    <3>2. CASE i >= r
      BY <1>2, <2>1, <2>2, <2>6, <3>2
    <3> QED  BY <3>1, <3>2, <2>1, <1>2
  <2>7. ASSUME NEW k \in added', told'[k] = 0
        PROVE  k = firstListener' \/ \E i \in 1..(n - 1) : otherListeners'[i] = k
    <3>1. CASE k = firstListener
      BY <2>2, <3>1
    <3>2. CASE k # firstListener
      <4>1. PICK i \in 1..n : otherListeners[i] = k
        BY <1>1, <1>2, <2>7, <3>2
      <4>2. i # r
        BY <1>1, <2>1, <4>1
      <4>3. CASE i < r
        BY <1>2, <2>1, <2>2, <4>1, <4>3
      <4>4. CASE i > r
        <5>1. i - 1 \in 1..(n - 1) /\ otherListeners'[i - 1] = otherListeners[i]
          <6>1. i - 1 \in 1..(n - 1) /\ ~(i - 1 < r) /\ (i - 1) + 1 = i
            BY <1>2, <2>1, <4>4
          <6> QED  BY <2>2, <6>1
        <5> QED  BY <4>1, <5>1
      <4> QED  BY <1>2, <2>1, <4>2, <4>3, <4>4
    <3> QED  BY <3>1, <3>2
  <2> QED  BY <1>1, <1>2, <2>2, <2>3, <2>4, <2>5, <2>6, <2>7, UnsetLists
<1> QED  BY <1>3, <1>4, <1>5 DEF RemoveListener

LEMMA ListStep == ListInv /\ SetInv /\ [Next]_vars => ListInv'
<1> SUFFICES ASSUME ListInv, SetInv, [Next]_vars PROVE ListInv'
  OBVIOUS
<1>1. ASSUME NEW s \in Setter, SetValue(s) \/ SetterNext(s) PROVE ListInv'
  BY <1>1, SetValueLists, NotifyFirstLists, NotifyOtherLists, NotifyEndLists DEF SetterNext
<1>2. ASSUME NEW l \in Listener, AddListener(l) \/ RemoveListener(l) PROVE ListInv'
  BY <1>2, AddLists, RemoveLists
<1>3. CASE ToldDirect
  BY <1>3, ToldDirectLists
<1>4. ASSUME NEW w \in Waiter, Await(w) \/ WaitEnds(w) \/ Interrupt(w) \/ WaiterNext(w)
      PROVE  ListInv'
  BY <1>4, ListKept DEF Await, WaitEnds, Interrupt, WaiterNext, Wake, Throw, setVars
<1>5. CASE UNCHANGED vars
  BY <1>5, ListKept DEF vars, setVars
<1> QED  BY <1>1, <1>2, <1>3, <1>4, <1>5 DEF Next

-----------------------------------------------------------------------------
(* The theorems *)

LEMMA IInvInvariant == Spec => []IInv
<1>1. IInv <=> WaitInv /\ SetInv /\ ListInv
  BY TypeParts DEF IInv, WaitInv, SetInv, ListInv
<1>2. Init => WaitInv /\ SetInv /\ ListInv
  BY WaitInit, SetInit, ListInit
<1>3. WaitInv /\ SetInv /\ ListInv /\ [Next]_vars => (WaitInv /\ SetInv /\ ListInv)'
  BY WaitStep, SetStep, ListStep
<1> QED  BY <1>1, <1>2, <1>3, PTL DEF Spec

\* The fields of EDefaultIoFuture keep their types; waiters is never negative.
THEOREM TypeCorrect == Spec => []TypeOK
<1>1. IInv => TypeOK
  BY DEF IInv
<1> QED  BY <1>1, IInvInvariant, PTL

\* addListener() and removeListener() lose no listener, however they interleave
\* with setValue(), for any number of threads and listeners.
THEOREM NobodyForgottenCorrect == Spec => []NobodyForgotten
<1>1. IInv => NobodyForgotten
  BY DEF IInv
<1> QED  BY <1>1, IInvInvariant, PTL

\* A completed future stays completed, and every way out of await() looks at
\* ready or at the timeout.
LEMMA AnswersStep == WaitInv /\ SetInv /\ AnswersTruthful /\ [Next]_vars => AnswersTruthful'
<1> SUFFICES ASSUME WaitInv, SetInv, AnswersTruthful, [Next]_vars PROVE AnswersTruthful'
  OBVIOUS
<1> USE DEF AnswersTruthful, WaitInv, WaitType
<1>1. ASSUME NEW s \in Setter, SetValue(s) PROVE AnswersTruthful'
  <2>1. CASE SetFirst(s)
    BY <2>1 DEF SetFirst, NotifyAll
  <2>2. CASE SetAgain(s)
    BY <2>2 DEF SetAgain
  <2> QED  BY <1>1, <2>1, <2>2 DEF SetValue
<1>2. ASSUME UNCHANGED <<ready, waiter>> PROVE AnswersTruthful'
  BY <1>2
<1>3. ASSUME NEW s \in Setter, SetterNext(s) PROVE AnswersTruthful'
  BY <1>2, <1>3 DEF SetterNext, NotifyNobody, NotifyFirst, NotifyOther, NotifyEnd, setVars, waitVars
<1>4. ASSUME NEW l \in Listener, AddListener(l) \/ RemoveListener(l) PROVE AnswersTruthful'
  BY <1>2, <1>4 DEF AddListener, RemoveListener, setVars, waitVars
<1>5. CASE ToldDirect
  BY <1>2, <1>5 DEF ToldDirect, setVars, waitVars
<1>6. ASSUME NEW w \in Waiter, Await(w) \/ WaitEnds(w) \/ Interrupt(w) \/ WaiterNext(w)
      PROVE  AnswersTruthful'
  <2> USE DEF Goes, Leave, setVars
  <2>1. CASE Await(w)
    BY <2>1 DEF Await, AwaitReady, AwaitNotAtAll, AwaitWaits
  <2>2. CASE WaitEnds(w) \/ Interrupt(w) \/ Throw(w)
    BY <2>2 DEF WaitEnds, Interrupt, Throw
  <2>3. CASE Wake(w)
    BY <2>3 DEF Wake
  <2> QED  BY <1>6, <2>1, <2>2, <2>3 DEF WaiterNext
<1>7. CASE UNCHANGED vars
  BY <1>2, <1>7 DEF vars, setVars, waitVars
<1> QED  BY <1>1, <1>3, <1>4, <1>5, <1>6, <1>7 DEF Next

\* await() says that the future has completed only when it has, and gives up
\* only with a timeout, whatever wakes or interrupts how many threads.
THEOREM AnswersTruthfulCorrect == Spec => []AnswersTruthful
<1>1. Init => AnswersTruthful
  BY DEF Init, AnswersTruthful
<1>2. IInv => WaitInv /\ SetInv
  BY TypeParts DEF IInv, WaitInv, SetInv
<1> QED  BY <1>1, <1>2, AnswersStep, IInvInvariant, PTL DEF Spec

\* Every step of EDefaultIoFuture is one of the promise, or changes nothing of it.
LEMMA PromiseStep == IInv /\ [Next]_vars => [Promise!Next]_(Promise!vars)
<1> SUFFICES ASSUME IInv, [Next]_vars PROVE [Promise!Next]_(Promise!vars)
  OBVIOUS
<1> USE DEF Promise!Next, Promise!vars
<1>1. ASSUME NEW s \in Setter, SetFirst(s), UNCHANGED listVars PROVE Promise!Complete(s)
  BY <1>1 DEF SetFirst, Promise!Complete, IInv, WinnerOK, listVars
<1>2. ASSUME NEW l \in Listener, AddListener(l) PROVE Promise!Register(l)
  BY <1>2 DEF AddListener, Promise!Register, setVars
<1>3. ASSUME NEW l \in Listener, RemoveListener(l) PROVE Promise!Withdraw(l)
  BY <1>3 DEF RemoveListener, Promise!Withdraw, setVars, IInv, WinnerOK
<1>4. ASSUME NEW l \in Listener, ready, Fresh(l), Tell(l), UNCHANGED <<result, added>>
      PROVE  Promise!Tell(l)
  BY <1>4 DEF Tell, Fresh, Promise!Tell, IInv, WinnerOK
<1>5. ASSUME NEW s \in Setter, SetValue(s) PROVE Promise!Next \/ UNCHANGED Promise!vars
  BY <1>1, <1>5 DEF SetValue, SetAgain, listVars
<1>6. ASSUME NEW s \in Setter, SetterNext(s) PROVE Promise!Next \/ UNCHANGED Promise!vars
  <2>1. CASE NotifyNobody(s) \/ NotifyEnd(s)
    BY <2>1 DEF NotifyNobody, NotifyEnd, listVars
  <2>2. CASE NotifyFirst(s)
    <3>1. firstListener \in Listener /\ Fresh(firstListener) /\ ready
      BY <2>2, Notifier, TypeParts DEF NotifyFirst, IInv, ListsOK, ListType, SetInv
    <3> QED  BY <1>4, <2>2, <3>1 DEF NotifyFirst
  <2>3. CASE NotifyOther(s)
    <3>1. /\ otherListeners[cursor] \in Listener /\ Fresh(otherListeners[cursor])
          /\ ready
      BY <2>3, Notifier, TypeParts DEF NotifyOther, IInv, ListsOK, ListType, SetInv
    <3> QED  BY <1>4, <2>3, <3>1 DEF NotifyOther, setVars
  <2> QED  BY <1>6, <2>1, <2>2, <2>3 DEF SetterNext
<1>7. CASE ToldDirect
  <2>1. direct \in Listener /\ Fresh(direct) /\ ready
    BY <1>7, TypeParts DEF ToldDirect, IInv, ListsOK, ListType
  <2> QED  BY <1>4, <1>7, <2>1 DEF ToldDirect, setVars
<1>8. ASSUME NEW w \in Waiter, Await(w) \/ WaitEnds(w) \/ Interrupt(w) \/ WaiterNext(w)
      PROVE  UNCHANGED Promise!vars
  BY <1>8 DEF Await, WaitEnds, Interrupt, WaiterNext, Wake, Throw, setVars, listVars
<1>9. CASE UNCHANGED vars
  BY <1>9 DEF vars, setVars, listVars
<1> QED  BY <1>2, <1>3, <1>5, <1>6, <1>7, <1>8, <1>9 DEF Next

\* EDefaultIoFuture implements the promise: one value, no listener told twice,
\* before the value is set, or after it was removed in time.
THEOREM PromiseCorrect == Spec => PromiseSafe
<1>1. Init => Promise!Init
  BY DEF Init, Promise!Init
<1> QED  BY <1>1, IInvInvariant, PromiseStep, PTL DEF Spec, PromiseSafe, Promise!Safe
===============================================================================
