----------------------------- MODULE SessionReads -----------------------------
(***************************************************************************)
(* The read futures of a session (useReadOperation): read() hands out a    *)
(* future that is ready or will be, TailFilter offers what arrives.  Both  *)
(* sides take turns under the monitor of readyReadFutures; the value is    *)
(* set after it is left.                                                   *)
(***************************************************************************)
EXTENDS Integers, Sequences, FiniteSets

CONSTANTS
  Readers,     \* threads that call read()
  Offerers,    \* threads in which events reach the end of the chain
  IoOfferer,   \* the one of them that closes the session
  Unset,       \* a future without a value
  ClosedValue, \* CloseObject
  MaxReads, MaxOffers \* bounds

ASSUME ReadsAssumption ==
  IoOfferer \in Offerers /\ {Unset, ClosedValue} \cap Nat = {} /\ Unset # ClosedValue

VARIABLES
  readFutures,    \* the values of the futures, in order of creation
  ready, waiting, \* readyReadFutures, waitingReadFutures
  reads,          \* the futures that read() returned, in order
  awaits,         \* the future a reader waits for, 0: none
  offered,        \* how many messages and exceptions were offered
  offering,       \* a future and the value it is about to get
  closing         \* "open", "told" a waiting reader, or "kept" for the next

readVars == <<readFutures, ready, waiting, reads, awaits, offered, offering, closing>>

NoOffer == [future |-> 0, value |-> 0]

ReadsInit ==
  /\ readFutures = <<>> /\ ready = <<>> /\ waiting = <<>> /\ reads = <<>>
  /\ awaits = [r \in Readers |-> 0]
  /\ offered = 0 /\ offering = [t \in Offerers |-> NoOffer] /\ closing = "open"

----------------------------------------------------------------------------
Returns(r, f) == reads' = Append(reads, f) /\ awaits' = [awaits EXCEPT ![r] = f]
Calls(r) == awaits[r] = 0 /\ Len(reads) < MaxReads /\ UNCHANGED <<offered, offering, closing>>

(* read() *)
ReadReady(r) ==
  /\ Calls(r) /\ ready # <<>>
  /\ Returns(r, Head(ready))
  /\ ready' = IF readFutures[Head(ready)] = ClosedValue THEN Append(Tail(ready), Head(ready)) ELSE Tail(ready)
  /\ UNCHANGED <<readFutures, waiting>>

ReadWaits(r) ==
  /\ Calls(r) /\ ready = <<>>
  /\ readFutures' = Append(readFutures, Unset)
  /\ waiting' = Append(waiting, Len(readFutures'))
  /\ Returns(r, Len(readFutures'))
  /\ UNCHANGED ready

AwaitRead(r) ==
  /\ awaits[r] # 0 /\ readFutures[awaits[r]] # Unset
  /\ awaits' = [awaits EXCEPT ![r] = 0]
  /\ UNCHANGED <<readFutures, ready, waiting, reads, offered, offering, closing>>

----------------------------------------------------------------------------
(* Fault: the youngest waiting reader is served. *)
NewReadFutureYoungest(v) ==
  IF waiting # <<>>
  THEN /\ waiting' = SubSeq(waiting, 1, Len(waiting) - 1)
       /\ UNCHANGED ready
       /\ readFutures' = [readFutures EXCEPT ![waiting[Len(waiting)]] = v]
  ELSE /\ readFutures' = Append(readFutures, v)
       /\ ready' = Append(ready, Len(readFutures')) /\ UNCHANGED waiting

(* newReadFuture(), and the value if it is set at once. *)
NewReadFuture(v) ==
  IF waiting # <<>>
  THEN /\ waiting' = Tail(waiting)
       /\ UNCHANGED ready
       /\ readFutures' = [readFutures EXCEPT ![Head(waiting)] = v]
  ELSE /\ readFutures' = Append(readFutures, v)
       /\ ready' = Append(ready, Len(readFutures')) /\ UNCHANGED waiting

NextFuture == IF waiting # <<>> THEN Head(waiting) ELSE Len(readFutures) + 1

(* messageReceived() and exceptionCaught() of TailFilter.                  *)
Offer(t) ==
  /\ offering[t] = NoOffer /\ offered < MaxOffers
  /\ t = IoOfferer => closing = "open"
  /\ offered' = offered + 1
  /\ NewReadFuture(Unset)
  /\ offering' = [offering EXCEPT ![t] = [future |-> NextFuture, value |-> offered']]
  /\ UNCHANGED <<reads, awaits, closing>>

SetRead(t) ==
  /\ offering[t] # NoOffer
  /\ readFutures' = [readFutures EXCEPT ![offering[t].future] = offering[t].value]
  /\ offering' = [offering EXCEPT ![t] = NoOffer]
  /\ UNCHANGED <<ready, waiting, reads, awaits, offered, closing>>

(* sessionClosed() of TailFilter: under the monitor to the end.            *)
OfferClosed ==
  /\ closing = "open" /\ offering[IoOfferer] = NoOffer
  /\ closing' = IF waiting # <<>> THEN "told" ELSE "kept"
  /\ NewReadFuture(ClosedValue)
  /\ UNCHANGED <<reads, awaits, offered, offering>>

ReadsNext ==
  \/ \E r \in Readers : ReadReady(r) \/ ReadWaits(r) \/ AwaitRead(r)
  \/ \E t \in Offerers : Offer(t) \/ SetRead(t)
  \/ OfferClosed

ReadsSpec == ReadsInit /\ [][ReadsNext]_readVars

----------------------------------------------------------------------------
InFlight(f) == \E t \in Offerers : offering[t].future = f
Values == [i \in DOMAIN reads |-> readFutures[reads[i]]]

(* What is offered is read in the order of the offers, by the readers in   *)
(* the order of their calls, and none of them waits for what has been      *)
(* offered; and once the close of the session was kept for a reader, every *)
(* later one is told too.  (If a reader was waiting, it alone is told: a   *)
(* second one, and all later ones, wait for ever.)                         *)
ReadsInOrder ==
  /\ ready = <<>> \/ waiting = <<>>
  /\ \A i \in DOMAIN reads :
       closing = "open" /\ i <= offered => Values[i] = i \/ (Values[i] = Unset /\ InFlight(reads[i]))
  /\ \A i, j \in DOMAIN reads : i < j /\ {Values[i], Values[j]} \subseteq Nat => Values[i] < Values[j]
  /\ closing = "kept" => \E i \in DOMAIN ready : readFutures[ready[i]] = ClosedValue
===============================================================================
