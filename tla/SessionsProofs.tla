---------------------------- MODULE SessionsProofs ----------------------------
(***************************************************************************)
(* What holds of one session, for every number of readers, writers and     *)
(* messages: its reads are answered in order (SessionReads), its streams   *)
(* lose nothing (SessionStream), its read buffer keeps within its bounds   *)
(* (ReadBufferSize) and its counters are truthful (SessionCounters); a     *)
(* buffer keeps what was put into it (IoBuffer), and the filters and       *)
(* handlers around it do what they promise (AddressFilter, ProfilerTimer,  *)
(* HandlerChain).  Each part has an inductive invariant of its own;        *)
(* SessionSoundCorrect, BufferSoundCorrect and FiltersSoundCorrect say the *)
(* same of the session that MCSessions puts together.                      *)
(***************************************************************************)
EXTENDS MCSessions, FiniteSetTheorems, SequenceTheorems, WellFoundedInduction, TLAPS

----------------------------------------------------------------------------
(* The futures of the reads: the i-th future is for the i-th message, but  *)
(* that the close of the session takes one future of them, and what is     *)
(* handed out, kept ready and waiting are these futures in their order.    *)
LEMMA AppendIs ==
  ASSUME NEW S, NEW s \in Seq(S), NEW x \in S
  PROVE  /\ Append(s, x) \in Seq(S) /\ Len(s) \in Nat /\ Len(Append(s, x)) = Len(s) + 1
         /\ \A i \in 1..Len(s) : Append(s, x)[i] = s[i]
         /\ Append(s, x)[Len(s) + 1] = x
         /\ \A i \in 1..(Len(s) + 1) : i # Len(s) + 1 => i \in 1..Len(s)
OBVIOUS

\* What is left of a sequence without its first element.
LEMMA TailIs ==
  ASSUME NEW S, NEW s \in Seq(S), s # <<>>
  PROVE  /\ Tail(s) \in Seq(S) /\ Len(s) \in Nat /\ Len(s) >= 1 /\ Len(Tail(s)) = Len(s) - 1
         /\ Head(s) = s[1] /\ 1 \in 1..Len(s) /\ s[1] \in S
         /\ \A i \in 1..(Len(s) - 1) : Tail(s)[i] = s[i + 1] /\ i + 1 \in 1..Len(s) /\ i \in 1..Len(s)
OBVIOUS

\* The number of the offer a future is for: the close of the session takes one
\* future, which is c (0: none yet).
Number(c, f) == IF c = 0 \/ f < c THEN f ELSE f - 1
Served == Len(readFutures) - Len(waiting)

ReadsTypeOK ==
  /\ readFutures \in Seq(Nat \cup {Unset, ClosedValue})
  /\ ready \in Seq(Nat) /\ waiting \in Seq(Nat) /\ reads \in Seq(Nat)
  /\ offered \in Nat /\ offering \in [Offerers -> [future : Nat, value : Nat]]
  /\ closing \in {"open", "told", "kept"}

FuturesInv(c) ==
  /\ c <= Served /\ (closing = "open" <=> c = 0) /\ Served \in Nat
  /\ Served = offered + (IF closing = "open" THEN 0 ELSE 1)
  /\ \A f \in 1..Len(readFutures) : IF f = c THEN readFutures[f] = ClosedValue ELSE readFutures[f] \in {Unset, Number(c, f)}
  /\ \A f \in (Served + 1)..Len(readFutures) : readFutures[f] = Unset
  /\ \A j \in 1..Len(waiting) : waiting[j] = Served + j
  /\ closing = "open" => \A f \in 1..Served : readFutures[f] = f \/ (readFutures[f] = Unset /\ InFlight(f))

OffersInv(c) ==
  \A t \in Offerers : offering[t] # NoOffer =>
    offering[t].future \in 1..Served /\ offering[t].future # c /\ offering[t].value = Number(c, offering[t].future)

HandedInv(c) ==
  /\ ready = <<>> \/ waiting = <<>>
  /\ \A i \in 1..Len(reads) : reads[i] \in 1..Len(readFutures)
  /\ \A i \in 1..Len(ready) : ready[i] \in 1..Len(readFutures)
  /\ closing # "kept" =>
       /\ Len(readFutures) = Len(reads) + Len(ready)
       /\ \A i \in 1..Len(reads) : reads[i] = i
       /\ \A i \in 1..Len(ready) : ready[i] = Len(reads) + i
  /\ closing = "told" => c <= Len(reads)
  /\ closing = "kept" => waiting = <<>> /\ \E i \in 1..Len(ready) : ready[i] = c
  /\ \A i, j \in 1..Len(reads) : i < j /\ reads[i] # c /\ reads[j] # c => reads[i] < reads[j]
  /\ \A i, j \in 1..Len(ready) : i < j /\ ready[i] # c /\ ready[j] # c => ready[i] < ready[j]
  /\ \A i \in 1..Len(reads), j \in 1..Len(ready) : reads[i] # c /\ ready[j] # c => reads[i] < ready[j]

ReadsInv == ReadsTypeOK /\ \E c \in Nat : FuturesInv(c) /\ OffersInv(c) /\ HandedInv(c)

\* A read takes the first ready future; that of the close is put back, behind
\* the others.
LEMMA ReadReadyStep == ASSUME ReadsInv, NEW r \in Readers, ReadReady(r) PROVE ReadsInv'
<1>1. PICK c \in Nat : FuturesInv(c) /\ OffersInv(c) /\ HandedInv(c)
  BY DEF ReadsInv
<1>2. PICK h : h = Head(ready)
  OBVIOUS
<1>3. /\ ready # <<>> /\ reads' = Append(reads, h) /\ UNCHANGED <<readFutures, waiting, offered, offering, closing>>
      /\ ready' = IF readFutures[h] = ClosedValue THEN Append(Tail(ready), h) ELSE Tail(ready)
  BY <1>2 DEF ReadReady, Returns, Calls
<1>4. /\ readFutures \in Seq(Nat \cup {Unset, ClosedValue}) /\ ready \in Seq(Nat) /\ waiting \in Seq(Nat) /\ reads \in Seq(Nat)
      /\ closing \in {"open", "told", "kept"}
  BY DEF ReadsInv, ReadsTypeOK
<1>5. h = ready[1] /\ 1 \in 1..Len(ready) /\ h \in 1..Len(readFutures) /\ Len(ready) \in Nat /\ Len(ready) >= 1 /\ h \in Nat
  <2>1. h = ready[1] /\ 1 \in 1..Len(ready) /\ Len(ready) \in Nat /\ Len(ready) >= 1
    BY <1>2, <1>3, <1>4
  <2> QED
    BY <1>1, <1>4, <2>1 DEF HandedInv
<1>6. /\ reads' \in Seq(Nat) /\ Len(reads') = Len(reads) + 1 /\ Len(reads) \in Nat
      /\ \A i \in 1..Len(reads') : reads'[i] = IF i = Len(reads) + 1 THEN h ELSE reads[i]
      /\ \A i \in 1..Len(reads') : i # Len(reads) + 1 => i \in 1..Len(reads)
  BY <1>3, <1>4, <1>5, AppendIs
<1>7. /\ Tail(ready) \in Seq(Nat) /\ Len(Tail(ready)) = Len(ready) - 1
      /\ \A i \in 1..(Len(ready) - 1) : Tail(ready)[i] = ready[i + 1] /\ i + 1 \in 1..Len(ready)
  BY <1>3, <1>4
<1>8. FuturesInv(c)' /\ OffersInv(c)'
  BY <1>1, <1>3 DEF FuturesInv, OffersInv, Served, InFlight
<1>9. readFutures[h] = ClosedValue <=> h = c
  <2>1. IF h = c THEN readFutures[h] = ClosedValue ELSE readFutures[h] \in {Unset, Number(c, h)}
    BY <1>1, <1>5 DEF FuturesInv
  <2>2. h # c => readFutures[h] # ClosedValue
    <3>1. Number(c, h) \in Nat
      BY <1>5 DEF Number
    <3> QED
      BY <2>1, <3>1, ReadsAssumption
  <2> QED
    BY <2>1, <2>2
<1>10. CASE h # c
  <2>1. /\ ready' = Tail(ready) /\ Len(ready') = Len(ready) - 1
        /\ \A i \in 1..Len(ready') : ready'[i] = ready[i + 1] /\ i + 1 \in 1..Len(ready)
    BY <1>3, <1>7, <1>9, <1>10
  <2>2. ready' = <<>> \/ waiting' = <<>>
    BY <1>1, <1>3 DEF HandedInv
  <2>3. ASSUME closing # "kept"
        PROVE  /\ Len(readFutures) = Len(reads') + Len(ready')
               /\ \A i \in 1..Len(reads') : reads'[i] = i
               /\ \A i \in 1..Len(ready') : ready'[i] = Len(reads') + i
    <3>1. /\ Len(readFutures) = Len(reads) + Len(ready) /\ \A i \in 1..Len(reads) : reads[i] = i
          /\ \A i \in 1..Len(ready) : ready[i] = Len(reads) + i
      BY <1>1, <2>3 DEF HandedInv
    <3>2. h = Len(reads) + 1
      BY <1>5, <3>1
    <3>3. \A i \in 1..Len(reads') : reads'[i] = i
      BY <1>6, <3>1, <3>2
    <3>4. \A i \in 1..Len(ready') : ready'[i] = Len(reads') + i
      BY <1>5, <1>6, <2>1, <3>1
    <3> QED
      <4>1. Len(readFutures) = Len(reads') + Len(ready')
        <5>1. Len(ready) \in Nat /\ Len(reads) \in Nat
          BY <1>5, <1>6
        <5>2. Len(reads') = Len(reads) + 1 /\ Len(ready') = Len(ready) - 1
          BY <1>6, <2>1
        <5> QED
          BY <3>1, <5>1, <5>2
      <4> QED
        BY <3>3, <3>4, <4>1
  <2>4. closing = "told" => c <= Len(reads')
    BY <1>1, <1>6 DEF HandedInv
  <2>5. ASSUME closing = "kept" PROVE \E i \in 1..Len(ready') : ready'[i] = c
    <3>1. PICK i \in 1..Len(ready) : ready[i] = c
      BY <1>1, <2>5 DEF HandedInv
    <3>2. i - 1 \in 1..Len(ready') /\ (i - 1) + 1 = i
      BY <1>5, <1>10, <2>1, <3>1
    <3> QED
      BY <2>1, <3>1, <3>2
  <2>6. \A i \in 1..Len(reads') : reads'[i] \in 1..Len(readFutures)
    <3>1. \A i \in 1..Len(reads) : reads[i] \in 1..Len(readFutures)
      BY <1>1 DEF HandedInv
    <3> QED
      BY <1>5, <1>6, <3>1
  <2>7. \A i \in 1..Len(ready') : ready'[i] \in 1..Len(readFutures)
    BY <1>1, <2>1 DEF HandedInv
  <2>8. ASSUME NEW i \in 1..Len(reads'), NEW j \in 1..Len(reads'), i < j, reads'[i] # c, reads'[j] # c
        PROVE  reads'[i] < reads'[j]
    <3>1. i \in 1..Len(reads) /\ reads'[i] = reads[i]
      BY <1>6, <2>8
    <3>2. CASE j = Len(reads) + 1
      <4>1. reads'[j] = h
        BY <1>6, <3>2
      <4> QED
        BY <1>1, <1>5, <2>8, <3>1, <4>1 DEF HandedInv
    <3>3. CASE j # Len(reads) + 1
      <4>1. j \in 1..Len(reads) /\ reads'[j] = reads[j]
        BY <1>6, <3>3
      <4> QED
        BY <1>1, <2>8, <3>1, <4>1 DEF HandedInv
    <3> QED
      BY <3>2, <3>3
  <2>9. ASSUME NEW i \in 1..Len(ready'), NEW j \in 1..Len(ready'), i < j, ready'[i] # c, ready'[j] # c
        PROVE  ready'[i] < ready'[j]
    <3>1. i + 1 < j + 1 /\ i + 1 \in 1..Len(ready) /\ j + 1 \in 1..Len(ready) /\ ready'[i] = ready[i + 1] /\ ready'[j] = ready[j + 1]
      BY <2>1, <2>9
    <3> QED
      BY <1>1, <2>9, <3>1 DEF HandedInv
  <2>10. ASSUME NEW i \in 1..Len(reads'), NEW j \in 1..Len(ready'), reads'[i] # c, ready'[j] # c
         PROVE  reads'[i] < ready'[j]
    <3>1. j + 1 \in 1..Len(ready) /\ ready'[j] = ready[j + 1] /\ 1 < j + 1
      BY <2>1
    <3>2. CASE i = Len(reads) + 1
      <4>1. reads'[i] = ready[1]
        BY <1>5, <1>6, <3>2
      <4> QED
        BY <1>1, <1>5, <2>10, <3>1, <4>1 DEF HandedInv
    <3>3. CASE i # Len(reads) + 1
      <4>1. i \in 1..Len(reads) /\ reads'[i] = reads[i]
        BY <1>6, <3>3
      <4> QED
        BY <1>1, <2>10, <3>1, <4>1 DEF HandedInv
    <3> QED
      BY <3>2, <3>3
  <2>11. HandedInv(c)'
    BY <1>1, <1>3, <2>2, <2>3, <2>4, <2>5, <2>6, <2>7, <2>8, <2>9, <2>10 DEF HandedInv
  <2>12. ReadsTypeOK'
    BY <1>3, <1>6, <1>7, <2>1 DEF ReadsInv, ReadsTypeOK
  <2> QED
    BY <1>8, <2>11, <2>12 DEF ReadsInv
<1>11. CASE h = c
  <2>0. closing = "kept" /\ waiting = <<>>
    <3>1. closing # "open"
      BY <1>1, <1>5, <1>11 DEF FuturesInv
    <3>2. closing # "told"
      <4> SUFFICES ASSUME closing = "told" PROVE FALSE
        OBVIOUS
      <4>1. c <= Len(reads) /\ ready[1] = Len(reads) + 1
        BY <1>1, <1>5 DEF HandedInv
      <4>2. Len(reads) \in Nat /\ c = ready[1]
        BY <1>5, <1>6, <1>11
      <4> QED
        BY <4>1, <4>2
    <3> QED
      BY <1>1, <1>4, <3>1, <3>2 DEF HandedInv
  <2>1. /\ ready' \in Seq(Nat) /\ Len(ready') = Len(ready)
        /\ \A i \in 1..Len(ready) : ready'[i] = IF i = Len(ready) THEN c ELSE ready[i + 1]
        /\ \A i \in 1..Len(ready) : i # Len(ready) => i + 1 \in 1..Len(ready)
    <3>1. ready' = Append(Tail(ready), h)
      BY <1>3, <1>9, <1>11
    <3>2. Len(ready') = Len(ready) /\ ready' \in Seq(Nat)
      BY <1>5, <1>7, <3>1
    <3>3. \A i \in 1..Len(ready) : ready'[i] = IF i = Len(ready) THEN h ELSE Tail(ready)[i]
      <4>1. \A i \in 1..Len(ready) : i # Len(ready) => i \in 1..(Len(ready) - 1) /\ i \in 1..Len(Tail(ready))
        <5>1. Len(ready) \in Nat /\ Len(Tail(ready)) = Len(ready) - 1
          BY <1>5, <1>7
        <5> QED
          BY <5>1
      <4>2. /\ \A i \in 1..Len(Tail(ready)) : Append(Tail(ready), h)[i] = Tail(ready)[i]
            /\ Append(Tail(ready), h)[Len(Tail(ready)) + 1] = h
        BY <1>5, <1>7, AppendIs
      <4>3. Len(Tail(ready)) + 1 = Len(ready)
        BY <1>5, <1>7
      <4> QED
        BY <3>1, <4>1, <4>2, <4>3
    <3>4. \A i \in 1..Len(ready) : i # Len(ready) => i \in 1..(Len(ready) - 1)
      BY <1>5
    <3> QED
      BY <1>7, <1>11, <3>2, <3>3, <3>4
  <2>2. \A i \in 1..Len(reads') : reads'[i] # c => i \in 1..Len(reads) /\ reads'[i] = reads[i]
    BY <1>6, <1>11
  <2>3. \A i \in 1..Len(ready') : ready'[i] # c => i + 1 \in 1..Len(ready) /\ ready'[i] = ready[i + 1]
    BY <2>1
  <2>4. ASSUME NEW i \in 1..Len(reads'), NEW j \in 1..Len(reads'), i < j, reads'[i] # c, reads'[j] # c
        PROVE  reads'[i] < reads'[j]
    BY <1>1, <2>2, <2>4 DEF HandedInv
  <2>5. ASSUME NEW i \in 1..Len(ready'), NEW j \in 1..Len(ready'), i < j, ready'[i] # c, ready'[j] # c
        PROVE  ready'[i] < ready'[j]
    <3>1. i + 1 < j + 1 /\ i + 1 \in 1..Len(ready) /\ j + 1 \in 1..Len(ready) /\ ready'[i] = ready[i + 1] /\ ready'[j] = ready[j + 1]
      BY <2>3, <2>5
    <3> QED
      BY <1>1, <2>5, <3>1 DEF HandedInv
  <2>6. ASSUME NEW i \in 1..Len(reads'), NEW j \in 1..Len(ready'), reads'[i] # c, ready'[j] # c
        PROVE  reads'[i] < ready'[j]
    <3>1. i \in 1..Len(reads) /\ reads'[i] = reads[i] /\ j + 1 \in 1..Len(ready) /\ ready'[j] = ready[j + 1]
      BY <2>2, <2>3, <2>6
    <3> QED
      BY <1>1, <2>6, <3>1 DEF HandedInv
  <2>7. \A i \in 1..Len(reads') : reads'[i] \in 1..Len(readFutures)
    <3>1. \A i \in 1..Len(reads) : reads[i] \in 1..Len(readFutures)
      BY <1>1 DEF HandedInv
    <3> QED
      BY <1>5, <1>6, <3>1
  <2>8. \A i \in 1..Len(ready') : ready'[i] \in 1..Len(readFutures)
    <3>1. \A i \in 1..Len(ready) : ready[i] \in 1..Len(readFutures)
      BY <1>1 DEF HandedInv
    <3> QED
      BY <1>5, <1>11, <2>1, <3>1
  <2>9. Len(ready) \in 1..Len(ready') /\ ready'[Len(ready)] = c
    BY <1>5, <2>1
  <2>10. HandedInv(c)'
    BY <1>3, <2>0, <2>4, <2>5, <2>6, <2>7, <2>8, <2>9 DEF HandedInv
  <2>11. ReadsTypeOK'
    BY <1>3, <1>6, <2>1 DEF ReadsInv, ReadsTypeOK
  <2> QED
    BY <1>8, <2>10, <2>11 DEF ReadsInv
<1> QED
  BY <1>10, <1>11

\* A future that is new is the last one.
LEMMA ReadWaitsStep == ASSUME ReadsInv, NEW r \in Readers, ReadWaits(r) PROVE ReadsInv'
<1>1. PICK c \in Nat : FuturesInv(c) /\ OffersInv(c) /\ HandedInv(c)
  BY DEF ReadsInv
<1>2. PICK n : n = Len(readFutures) + 1
  OBVIOUS
<1>3. /\ readFutures \in Seq(Nat \cup {Unset, ClosedValue}) /\ waiting \in Seq(Nat) /\ reads \in Seq(Nat)
      /\ Len(readFutures) \in Nat /\ Len(waiting) \in Nat /\ Len(reads) \in Nat /\ n \in Nat
  BY <1>2 DEF ReadsInv, ReadsTypeOK
<1>4. readFutures' = Append(readFutures, Unset) /\ Len(readFutures') = n
  BY <1>2, <1>3 DEF ReadWaits
<1>5. /\ ready = <<>> /\ ready' = ready /\ UNCHANGED <<offered, offering, closing>>
      /\ waiting' = Append(waiting, n) /\ reads' = Append(reads, n)
  BY <1>4 DEF ReadWaits, Returns, Calls
<1>6. /\ readFutures' \in Seq(Nat \cup {Unset, ClosedValue})
      /\ \A f \in 1..Len(readFutures) : readFutures'[f] = readFutures[f]
      /\ readFutures'[n] = Unset
  BY <1>2, <1>3, <1>4, AppendIs
<1>7. /\ waiting' \in Seq(Nat) /\ Len(waiting') = Len(waiting) + 1
      /\ \A i \in 1..Len(waiting) : waiting'[i] = waiting[i]
      /\ waiting'[Len(waiting) + 1] = n
  BY <1>3, <1>5, AppendIs
<1>8. /\ reads' \in Seq(Nat) /\ Len(reads') = Len(reads) + 1
      /\ \A i \in 1..Len(reads) : reads'[i] = reads[i]
      /\ reads'[Len(reads) + 1] = n
  BY <1>3, <1>5, AppendIs
<1>9. Served' = Served /\ Served \in Nat /\ c <= Served /\ Served <= Len(readFutures) /\ Len(readFutures) = Served + Len(waiting)
  BY <1>1, <1>2, <1>3, <1>4, <1>7 DEF Served, FuturesInv
<1>10. closing # "kept" /\ n # c /\ ~(n \in 1..Served)
  <2>1. Len(ready) = 0
    BY <1>5
  <2>2. closing # "kept"
    BY <1>1, <2>1 DEF HandedInv
  <2> QED
    BY <1>2, <1>9, <1>3, <2>2
<1>11. FuturesInv(c)'
  <2>1. ASSUME NEW f \in 1..Len(readFutures')
        PROVE  IF f = c THEN readFutures'[f] = ClosedValue ELSE readFutures'[f] \in {Unset, Number(c, f)}
    <3>1. f \in 1..Len(readFutures) \/ f = n
      BY <1>2, <1>3, <1>4
    <3>2. CASE f = n
      BY <1>6, <1>10, <3>2
    <3>3. CASE f \in 1..Len(readFutures)
      BY <1>1, <1>6, <3>3 DEF FuturesInv
    <3> QED
      BY <3>1, <3>2, <3>3
  <2>2. ASSUME NEW f \in (Served + 1)..Len(readFutures') PROVE readFutures'[f] = Unset
    <3>1. f \in (Served + 1)..Len(readFutures) \/ f = n
      BY <1>2, <1>3, <1>4, <1>9
    <3>2. f \in (Served + 1)..Len(readFutures) => f \in 1..Len(readFutures)
      BY <1>3, <1>9
    <3> QED
      BY <1>1, <1>6, <3>1, <3>2 DEF FuturesInv
  <2>3. ASSUME NEW j \in 1..Len(waiting') PROVE waiting'[j] = Served + j
    <3>1. j \in 1..Len(waiting) \/ j = Len(waiting) + 1
      BY <1>3, <1>7
    <3>2. n = Served + (Len(waiting) + 1)
      BY <1>2, <1>3, <1>9
    <3> QED
      BY <1>1, <1>7, <3>1, <3>2 DEF FuturesInv
  <2>4. closing = "open" => \A f \in 1..Served : readFutures'[f] = f \/ (readFutures'[f] = Unset /\ InFlight(f)')
    <3>1. \A f \in 1..Served : f \in 1..Len(readFutures)
      BY <1>3, <1>9
    <3>2. \A f : InFlight(f)' = InFlight(f)
      BY <1>5 DEF InFlight
    <3> QED
      BY <1>1, <1>6, <3>1, <3>2 DEF FuturesInv
  <2> QED
    BY <1>1, <1>5, <1>9, <2>1, <2>2, <2>3, <2>4 DEF FuturesInv
<1>12. OffersInv(c)'
  BY <1>1, <1>5, <1>9 DEF OffersInv
<1>13. HandedInv(c)'
  <2>1. Len(ready') = 0 /\ Len(ready) = 0
    BY <1>5
  <2>2. Len(readFutures) = Len(reads) /\ \A i \in 1..Len(reads) : reads[i] = i
    BY <1>1, <1>3, <1>10, <2>1 DEF HandedInv
  <2>3. \A i \in 1..Len(reads') : reads'[i] = i
    <3> TAKE i \in 1..Len(reads')
    <3>1. i \in 1..Len(reads) \/ i = Len(reads) + 1
      BY <1>3, <1>8
    <3>2. n = Len(reads) + 1
      BY <1>2, <2>2
    <3> QED
      BY <1>8, <2>2, <3>1, <3>2
  <2>4. Len(readFutures') = Len(reads') /\ Len(reads') \in Nat
    BY <1>2, <1>3, <1>4, <1>8, <2>2
  <2>5. closing = "told" => c <= Len(reads')
    BY <1>1, <1>3, <1>8 DEF HandedInv
  <2>6. \A i, j \in 1..Len(reads') : i < j => reads'[i] < reads'[j]
    BY <2>3
  <2>7. \A i \in 1..Len(reads') : reads'[i] \in 1..Len(readFutures')
    BY <2>3, <2>4
  <2>8. Len(readFutures') = Len(reads') + Len(ready')
    BY <2>1, <2>4
  <2> QED
    BY <1>5, <1>10, <2>1, <2>3, <2>5, <2>6, <2>7, <2>8 DEF HandedInv
<1>14. ReadsTypeOK'
  BY <1>5, <1>6, <1>7, <1>8 DEF ReadsInv, ReadsTypeOK
<1> QED
  BY <1>11, <1>12, <1>13, <1>14 DEF ReadsInv

\* A reader that waits is served first: the future it has got is the first
\* that is not served.
LEMMA ServeWaiting ==
  ASSUME ReadsInv, NEW v, NewReadFuture(v), waiting # <<>>, NEW c \in Nat, FuturesInv(c), HandedInv(c)
  PROVE  LET h == Served + 1
         IN  /\ NextFuture = h /\ Head(waiting) = h /\ h \in 1..Len(readFutures) /\ readFutures[h] = Unset /\ h # c
             /\ readFutures' = [readFutures EXCEPT ![h] = v] /\ ready' = ready /\ ready = <<>>
             /\ waiting' \in Seq(Nat) /\ Len(waiting') = Len(waiting) - 1 /\ Served' = h /\ Served \in Nat
             /\ Len(readFutures') = Len(readFutures)
             /\ \A f \in 1..Len(readFutures) : readFutures'[f] = IF f = h THEN v ELSE readFutures[f]
             /\ \A j \in 1..Len(waiting') : waiting'[j] = h + j
<1> DEFINE h == Served + 1
<1>1. /\ readFutures \in Seq(Nat \cup {Unset, ClosedValue}) /\ waiting \in Seq(Nat)
      /\ Len(readFutures) \in Nat /\ Len(waiting) \in Nat
  BY DEF ReadsInv, ReadsTypeOK
<1>2. /\ Tail(waiting) \in Seq(Nat) /\ Len(waiting) >= 1 /\ Len(Tail(waiting)) = Len(waiting) - 1
      /\ Head(waiting) = waiting[1] /\ 1 \in 1..Len(waiting)
      /\ \A i \in 1..(Len(waiting) - 1) : Tail(waiting)[i] = waiting[i + 1] /\ i + 1 \in 1..Len(waiting)
  BY <1>1, TailIs
<1>3. Served \in Nat /\ Len(readFutures) = Served + Len(waiting) /\ c <= Served /\ \A j \in 1..Len(waiting) : waiting[j] = Served + j
  BY <1>1 DEF FuturesInv, Served
<1>4. Head(waiting) = h
  BY <1>2, <1>3
<1>5. h \in 1..Len(readFutures) /\ h # c /\ h \in (Served + 1)..Len(readFutures)
  BY <1>1, <1>2, <1>3
<1>6. readFutures[h] = Unset
  BY <1>5 DEF FuturesInv
<1>7. /\ waiting' = Tail(waiting) /\ ready' = ready /\ readFutures' = [readFutures EXCEPT ![h] = v]
      /\ NextFuture = h
  BY <1>4 DEF NewReadFuture, NextFuture
<1>8. Len(readFutures') = Len(readFutures) /\ \A f \in 1..Len(readFutures) : readFutures'[f] = IF f = h THEN v ELSE readFutures[f]
  BY <1>1, <1>5, <1>7
<1>9. Served' = h
  BY <1>1, <1>2, <1>3, <1>7, <1>8 DEF Served
<1>10. \A j \in 1..Len(waiting') : waiting'[j] = h + j
  <2> TAKE j \in 1..Len(waiting')
  <2>1. j \in 1..(Len(waiting) - 1)
    BY <1>2, <1>7
  <2>2. waiting'[j] = Served + (j + 1)
    BY <1>2, <1>3, <1>7, <2>1
  <2> QED
    BY <1>3, <2>1, <2>2
<1>11. ready = <<>>
  BY DEF HandedInv
<1> QED
  BY <1>2, <1>3, <1>4, <1>5, <1>6, <1>7, <1>8, <1>9, <1>10, <1>11

\* Nobody waits: the future is kept for a reader.
LEMMA KeepReady ==
  ASSUME ReadsInv, NEW v \in Nat \cup {Unset, ClosedValue}, NewReadFuture(v), waiting = <<>>
  PROVE  LET n == Len(readFutures) + 1
         IN  /\ NextFuture = n /\ Served = Len(readFutures) /\ Served' = n /\ Served \in Nat
             /\ readFutures' \in Seq(Nat \cup {Unset, ClosedValue}) /\ Len(readFutures') = n
             /\ \A f \in 1..Len(readFutures) : readFutures'[f] = readFutures[f]
             /\ readFutures'[n] = v /\ waiting' = <<>>
             /\ ready' \in Seq(Nat) /\ Len(ready) \in Nat /\ Len(ready') = Len(ready) + 1
             /\ \A i \in 1..Len(ready) : ready'[i] = ready[i]
             /\ ready'[Len(ready) + 1] = n
<1> DEFINE n == Len(readFutures) + 1
<1>1. /\ readFutures \in Seq(Nat \cup {Unset, ClosedValue}) /\ ready \in Seq(Nat) /\ Len(readFutures) \in Nat /\ n \in Nat
  BY DEF ReadsInv, ReadsTypeOK
<1>2. readFutures' = Append(readFutures, v) /\ waiting' = waiting /\ NextFuture = n
  BY DEF NewReadFuture, NextFuture
<1>3. /\ readFutures' \in Seq(Nat \cup {Unset, ClosedValue}) /\ Len(readFutures') = n
      /\ \A f \in 1..Len(readFutures) : readFutures'[f] = readFutures[f]
      /\ readFutures'[n] = v
  BY <1>1, <1>2, AppendIs
<1>4. ready' = Append(ready, n)
  BY <1>3 DEF NewReadFuture
<1>5. /\ ready' \in Seq(Nat) /\ Len(ready) \in Nat /\ Len(ready') = Len(ready) + 1
      /\ \A i \in 1..Len(ready) : ready'[i] = ready[i]
      /\ ready'[Len(ready) + 1] = n
  BY <1>1, <1>4, AppendIs
<1>6. Len(waiting) = 0 /\ Len(waiting') = 0
  BY <1>2
<1>7. Served = Len(readFutures) /\ Served' = n
  BY <1>1, <1>3, <1>6 DEF Served
<1> QED
  BY <1>1, <1>2, <1>3, <1>5, <1>7

\* The numbers of the offers are naturals, in the order of the futures.
LEMMA NumberIs ==
  ASSUME NEW c \in Nat, NEW f \in Nat \ {0}
  PROVE  Number(c, f) \in Nat /\ (c # f /\ c \in Nat => Number(c, f) >= 1)
         /\ \A g \in Nat : f < g /\ f # c /\ g # c => Number(c, f) < Number(c, g)
BY DEF Number

\* A message takes the next future: one that waits, or a new one that is kept.
LEMMA OfferStep == ASSUME ReadsInv, NEW t \in Offerers, Offer(t) PROVE ReadsInv'
<1>1. PICK c \in Nat : FuturesInv(c) /\ OffersInv(c) /\ HandedInv(c)
  BY DEF ReadsInv
<1>2. PICK h : h = NextFuture
  OBVIOUS
<1>3. /\ offering[t] = NoOffer /\ offered' = offered + 1 /\ NewReadFuture(Unset) /\ UNCHANGED <<reads, awaits, closing>>
      /\ offering' = [offering EXCEPT ![t] = [future |-> h, value |-> offered + 1]]
  BY <1>2 DEF Offer
<1>4. /\ readFutures \in Seq(Nat \cup {Unset, ClosedValue}) /\ waiting \in Seq(Nat) /\ ready \in Seq(Nat) /\ reads \in Seq(Nat)
      /\ Len(readFutures) \in Nat /\ Len(waiting) \in Nat /\ Len(reads) \in Nat /\ offered \in Nat
      /\ offering \in [Offerers -> [future : Nat, value : Nat]] /\ closing \in {"open", "told", "kept"}
  BY DEF ReadsInv, ReadsTypeOK
<1>5. Served \in Nat /\ c <= Served /\ (closing = "open" <=> c = 0) /\ Served = offered + (IF closing = "open" THEN 0 ELSE 1)
  BY <1>1 DEF FuturesInv
<1>6. h = Served + 1 /\ Served' = h /\ h # c /\ h \in Nat
  <2>1. CASE waiting # <<>>
    BY <1>1, <1>2, <1>3, <1>5, <2>1, ServeWaiting
  <2>2. CASE waiting = <<>>
    <3>1. NextFuture = Len(readFutures) + 1 /\ Served = Len(readFutures) /\ Served' = Len(readFutures) + 1
      BY <1>3, <2>2, KeepReady
    <3> QED
      BY <1>2, <1>5, <3>1
  <2> QED
    BY <2>1, <2>2
<1>7. Number(c, h) = offered + 1 /\ offered + 1 \in Nat
  BY <1>1, <1>4, <1>5, <1>6 DEF Number
<1>8. /\ offering'[t] = [future |-> h, value |-> offered + 1]
      /\ \A u \in Offerers : u # t => offering'[u] = offering[u]
      /\ offering' \in [Offerers -> [future : Nat, value : Nat]]
  BY <1>3, <1>4, <1>6, <1>7
<1>9. OffersInv(c)'
  <2> SUFFICES ASSUME NEW u \in Offerers, offering'[u] # NoOffer
               PROVE  offering'[u].future \in 1..Served' /\ offering'[u].future # c /\ offering'[u].value = Number(c, offering'[u].future)
    BY DEF OffersInv
  <2>1. CASE u = t
    BY <1>5, <1>6, <1>7, <1>8, <2>1
  <2>2. CASE u # t
    BY <1>1, <1>5, <1>6, <1>8, <2>2 DEF OffersInv
  <2> QED
    BY <2>1, <2>2
<1>10. InFlight(h)' /\ \A f : f # 0 /\ InFlight(f) => InFlight(f)'
  <2>1. InFlight(h)'
    BY <1>8 DEF InFlight
  <2>2. ASSUME NEW f, f # 0, InFlight(f) PROVE InFlight(f)'
    BY <1>3, <1>8, <2>2 DEF InFlight, NoOffer
  <2> QED
    BY <2>1, <2>2
<1>11. Served' = offered' + (IF closing' = "open" THEN 0 ELSE 1)
  BY <1>3, <1>4, <1>5, <1>6
<1>12. CASE waiting # <<>>
  <2>1. /\ h \in 1..Len(readFutures) /\ readFutures[h] = Unset /\ ready' = ready /\ ready = <<>>
        /\ readFutures' = [readFutures EXCEPT ![h] = Unset] /\ Len(readFutures') = Len(readFutures)
        /\ waiting' \in Seq(Nat) /\ \A j \in 1..Len(waiting') : waiting'[j] = h + j
        /\ \A f \in 1..Len(readFutures) : readFutures'[f] = IF f = h THEN Unset ELSE readFutures[f]
    BY <1>1, <1>3, <1>6, <1>12, ServeWaiting
  <2>2. \A f \in 1..Len(readFutures) : readFutures'[f] = readFutures[f]
    BY <2>1
  <2>3. FuturesInv(c)'
    <3>1. \A f \in 1..Len(readFutures') : IF f = c THEN readFutures'[f] = ClosedValue ELSE readFutures'[f] \in {Unset, Number(c, f)}
      BY <1>1, <2>1, <2>2 DEF FuturesInv
    <3>2. ASSUME NEW f \in (Served' + 1)..Len(readFutures') PROVE readFutures'[f] = Unset
      <4>1. f \in (Served + 1)..Len(readFutures) /\ f \in 1..Len(readFutures)
        BY <1>4, <1>5, <1>6, <2>1
      <4> QED
        BY <1>1, <2>2, <4>1 DEF FuturesInv
    <3>3. ASSUME closing = "open", NEW f \in 1..Served' PROVE readFutures'[f] = f \/ (readFutures'[f] = Unset /\ InFlight(f)')
      <4>1. f = h \/ f \in 1..Served
        BY <1>5, <1>6
      <4>2. CASE f = h
        BY <1>10, <2>1, <4>2
      <4>3. CASE f \in 1..Served
        <5>1. f \in 1..Len(readFutures) /\ f # 0
          BY <1>4, <1>5, <1>6, <2>1, <4>3
        <5> QED
          BY <1>1, <1>10, <2>2, <3>3, <4>3, <5>1 DEF FuturesInv
      <4> QED
        BY <4>1, <4>2, <4>3
    <3> QED
      BY <1>3, <1>5, <1>6, <1>11, <2>1, <3>1, <3>2, <3>3 DEF FuturesInv
  <2>4. HandedInv(c)'
    BY <1>1, <1>3, <1>12, <2>1 DEF HandedInv
  <2>5. ReadsTypeOK'
    <3>1. readFutures' \in Seq(Nat \cup {Unset, ClosedValue})
      BY <1>4, <2>1
    <3> QED
      BY <1>3, <1>4, <1>7, <1>8, <2>1, <3>1 DEF ReadsTypeOK
  <2> QED
    BY <1>9, <2>3, <2>4, <2>5 DEF ReadsInv
<1>13. CASE waiting = <<>>
  <2>1. /\ Served = Len(readFutures)
        /\ readFutures' \in Seq(Nat \cup {Unset, ClosedValue}) /\ Len(readFutures') = h
        /\ \A f \in 1..Len(readFutures) : readFutures'[f] = readFutures[f]
        /\ readFutures'[h] = Unset /\ waiting' = <<>>
        /\ ready' \in Seq(Nat) /\ Len(ready) \in Nat /\ Len(ready') = Len(ready) + 1
        /\ \A i \in 1..Len(ready) : ready'[i] = ready[i]
        /\ ready'[Len(ready) + 1] = h
    BY <1>3, <1>6, <1>13, KeepReady
  <2>2. \A f \in 1..Len(readFutures') : f = h \/ f \in 1..Len(readFutures)
    BY SMTT(30), <1>4, <1>6, <2>1
  <2>3. FuturesInv(c)'
    <3>1. ASSUME NEW f \in 1..Len(readFutures') PROVE IF f = c THEN readFutures'[f] = ClosedValue ELSE readFutures'[f] \in {Unset, Number(c, f)}
      <4>1. CASE f = h
        BY <1>6, <2>1, <4>1
      <4>2. CASE f \in 1..Len(readFutures)
        BY <1>1, <2>1, <4>2 DEF FuturesInv
      <4> QED
        BY <2>2, <4>1, <4>2
    <3>2. (Served' + 1)..Len(readFutures') = {}
      BY <1>6, <2>1
    <3>3. ASSUME closing = "open", NEW f \in 1..Served' PROVE readFutures'[f] = f \/ (readFutures'[f] = Unset /\ InFlight(f)')
      <4>1. f = h \/ f \in 1..Served
        BY <1>5, <1>6
      <4>2. CASE f = h
        BY <1>10, <2>1, <4>2
      <4>3. CASE f \in 1..Served
        <5>1. f \in 1..Len(readFutures) /\ f # 0
          BY <1>4, <1>5, <1>6, <2>1, <4>3
        <5> QED
          BY <1>1, <1>10, <2>1, <3>3, <4>3, <5>1 DEF FuturesInv
      <4> QED
        BY <4>1, <4>2, <4>3
    <3>4. 1..Len(waiting') = {}
      BY <2>1
    <3> QED
      BY <1>3, <1>5, <1>6, <1>11, <2>1, <3>1, <3>2, <3>3, <3>4 DEF FuturesInv
  <2>4. HandedInv(c)'
    <3>1. \A i \in 1..Len(ready') : (i \in 1..Len(ready) /\ ready'[i] = ready[i]) \/ (i = Len(ready) + 1 /\ ready'[i] = h)
      <4> TAKE i \in 1..Len(ready')
      <4>1. i \in 1..Len(ready) \/ i = Len(ready) + 1
        BY <2>1
      <4>2. i \in 1..Len(ready) => ready'[i] = ready[i]
        BY <2>1
      <4>3. i = Len(ready) + 1 => ready'[i] = h
        BY <2>1
      <4>4. CASE i \in 1..Len(ready)
        BY <4>2, <4>4
      <4>5. CASE i = Len(ready) + 1
        BY <4>3, <4>5
      <4> QED
        BY <4>1, <4>4, <4>5
    <3>2. \A i \in 1..Len(ready) : ready[i] < h
      <4>1. \A i \in 1..Len(ready) : ready[i] \in 1..Len(readFutures)
        BY <1>1 DEF HandedInv
      <4>2. h = Len(readFutures) + 1
        BY <1>6, <2>1
      <4> QED
        BY <1>4, <4>1, <4>2
    <3>3. \A i \in 1..Len(reads) : reads[i] < h
      <4>1. \A i \in 1..Len(reads) : reads[i] \in 1..Len(readFutures)
        BY <1>1 DEF HandedInv
      <4>2. h = Len(readFutures) + 1
        BY <1>6, <2>1
      <4> QED
        BY <1>4, <4>1, <4>2
    <3>4. \A i \in 1..Len(reads') : reads'[i] \in 1..Len(readFutures')
      <4>1. \A i \in 1..Len(reads) : reads[i] \in 1..Len(readFutures)
        BY <1>1 DEF HandedInv
      <4>2. 1..Len(readFutures) \subseteq 1..Len(readFutures')
        BY <1>4, <1>6, <2>1
      <4> QED
        BY <1>3, <4>1, <4>2
    <3>5. \A i \in 1..Len(ready') : ready'[i] \in 1..Len(readFutures')
      <4>1. \A i \in 1..Len(ready) : ready[i] \in 1..Len(readFutures)
        BY <1>1 DEF HandedInv
      <4>2. 1..Len(readFutures) \subseteq 1..Len(readFutures') /\ h \in 1..Len(readFutures')
        BY <1>4, <1>5, <1>6, <2>1
      <4> QED
        BY <3>1, <4>1, <4>2
    <3>6. ASSUME closing # "kept"
          PROVE  /\ Len(readFutures') = Len(reads') + Len(ready')
                 /\ \A i \in 1..Len(reads') : reads'[i] = i
                 /\ \A i \in 1..Len(ready') : ready'[i] = Len(reads') + i
      <4>1. /\ Len(readFutures) = Len(reads) + Len(ready)
            /\ \A i \in 1..Len(reads) : reads[i] = i
            /\ \A i \in 1..Len(ready) : ready[i] = Len(reads) + i
        BY <1>1, <3>6 DEF HandedInv
      <4>2. h = Len(reads) + (Len(ready) + 1)
        BY <1>4, <1>6, <2>1, <4>1
      <4>3. Len(readFutures') = Len(reads') + Len(ready')
        BY <1>3, <2>1, <4>2
      <4>4. \A i \in 1..Len(ready') : ready'[i] = Len(reads') + i
        BY <1>3, <3>1, <4>1, <4>2
      <4> QED
        BY <1>3, <4>1, <4>3, <4>4
    <3>7. ASSUME closing = "kept" PROVE \E i \in 1..Len(ready') : ready'[i] = c
      <4>1. PICK i \in 1..Len(ready) : ready[i] = c
        BY <1>1, <3>7 DEF HandedInv
      <4>2. i \in 1..Len(ready')
        BY <2>1
      <4> QED
        BY <2>1, <4>1, <4>2
    <3>8. ASSUME NEW i \in 1..Len(ready'), NEW j \in 1..Len(ready'), i < j, ready'[i] # c, ready'[j] # c
          PROVE  ready'[i] < ready'[j]
      <4>1. i \in 1..Len(ready) /\ ready'[i] = ready[i]
        BY <2>1, <3>1, <3>8
      <4>2. CASE j = Len(ready) + 1
        BY <2>1, <3>2, <4>1, <4>2
      <4>3. CASE j \in 1..Len(ready)
        BY <1>1, <2>1, <3>8, <4>1, <4>3 DEF HandedInv
      <4> QED
        BY <3>1, <4>2, <4>3
    <3>9. ASSUME NEW i \in 1..Len(reads'), NEW j \in 1..Len(ready'), reads'[i] # c, ready'[j] # c
          PROVE  reads'[i] < ready'[j]
      <4>1. i \in 1..Len(reads) /\ reads'[i] = reads[i]
        BY <1>3
      <4>2. CASE j = Len(ready) + 1
        BY <2>1, <3>3, <4>1, <4>2
      <4>3. CASE j \in 1..Len(ready)
        BY <1>1, <2>1, <3>9, <4>1, <4>3 DEF HandedInv
      <4> QED
        BY <3>1, <4>2, <4>3
    <3>10. \A i, j \in 1..Len(reads') : i < j /\ reads'[i] # c /\ reads'[j] # c => reads'[i] < reads'[j]
      BY <1>1, <1>3 DEF HandedInv
    <3>11. closing' = "told" => c <= Len(reads')
      BY <1>1, <1>3 DEF HandedInv
    <3> QED
      BY <1>3, <2>1, <3>4, <3>5, <3>6, <3>7, <3>8, <3>9, <3>10, <3>11 DEF HandedInv
  <2>5. ReadsTypeOK'
    <3>1. waiting' \in Seq(Nat)
      BY <2>1
    <3> QED
      BY <1>3, <1>4, <1>7, <1>8, <2>1, <3>1 DEF ReadsTypeOK
  <2> QED
    BY <1>9, <2>3, <2>4, <2>5 DEF ReadsInv
<1> QED
  BY <1>12, <1>13

\* The value of an offer is set in the future that was taken for it.
LEMMA SetReadStep == ASSUME ReadsInv, NEW t \in Offerers, SetRead(t) PROVE ReadsInv'
<1>1. PICK c \in Nat : FuturesInv(c) /\ OffersInv(c) /\ HandedInv(c)
  BY DEF ReadsInv
<1>2. PICK h : h = offering[t].future
  OBVIOUS
<1>3. /\ offering[t] # NoOffer /\ readFutures' = [readFutures EXCEPT ![h] = offering[t].value]
      /\ offering' = [offering EXCEPT ![t] = NoOffer]
      /\ UNCHANGED <<ready, waiting, reads, awaits, offered, closing>>
  BY <1>2 DEF SetRead
<1>4. /\ readFutures \in Seq(Nat \cup {Unset, ClosedValue}) /\ Len(readFutures) \in Nat
      /\ offering \in [Offerers -> [future : Nat, value : Nat]]
  BY DEF ReadsInv, ReadsTypeOK
<1>5. h \in 1..Served /\ h # c /\ offering[t].value = Number(c, h) /\ h \in Nat /\ Number(c, h) \in Nat
  BY <1>1, <1>2, <1>3, <1>4 DEF OffersInv
<1>6. Served \in Nat /\ Served <= Len(readFutures)
  BY <1>1, <1>4 DEF FuturesInv, Served, ReadsInv, ReadsTypeOK
<1>7. /\ h \in 1..Len(readFutures) /\ readFutures' \in Seq(Nat \cup {Unset, ClosedValue})
      /\ Len(readFutures') = Len(readFutures)
      /\ \A f \in 1..Len(readFutures) : readFutures'[f] = IF f = h THEN Number(c, h) ELSE readFutures[f]
  <2>1. h \in 1..Len(readFutures)
    BY <1>4, <1>5, <1>6
  <2> QED
    BY <1>3, <1>4, <1>5, <2>1
<1>8. Served' = Served
  BY <1>3, <1>7 DEF Served
<1>9. \A u \in Offerers : offering'[u] # NoOffer => offering'[u] = offering[u]
  BY <1>3, <1>4
<1>10. \A f : InFlight(f) /\ f # h => InFlight(f)'
  BY <1>2, <1>3, <1>4 DEF InFlight
<1>11. FuturesInv(c)'
  <2>1. \A f \in 1..Len(readFutures') : IF f = c THEN readFutures'[f] = ClosedValue ELSE readFutures'[f] \in {Unset, Number(c, f)}
    BY <1>1, <1>5, <1>7 DEF FuturesInv
  <2>2. ASSUME NEW f \in (Served + 1)..Len(readFutures') PROVE readFutures'[f] = Unset
    <3>1. f # h /\ f \in 1..Len(readFutures) /\ f \in (Served + 1)..Len(readFutures)
      BY <1>4, <1>5, <1>6, <1>7
    <3> QED
      BY <1>1, <1>7, <3>1 DEF FuturesInv
  <2>3. ASSUME closing = "open", NEW f \in 1..Served PROVE readFutures'[f] = f \/ (readFutures'[f] = Unset /\ InFlight(f)')
    <3>1. f \in 1..Len(readFutures) /\ f \in Nat
      BY <1>4, <1>6
    <3>2. CASE f = h
      <4>1. c = 0
        BY <1>1, <2>3 DEF FuturesInv
      <4> QED
        BY <1>7, <3>1, <3>2, <4>1 DEF Number
    <3>3. CASE f # h
      BY <1>1, <1>7, <1>10, <2>3, <3>1, <3>3 DEF FuturesInv
    <3> QED
      BY <3>2, <3>3
  <2> QED
    BY <1>1, <1>3, <1>8, <2>1, <2>2, <2>3 DEF FuturesInv
<1>12. OffersInv(c)'
  BY <1>1, <1>8, <1>9 DEF OffersInv
<1>13. HandedInv(c)'
  BY <1>1, <1>3, <1>7 DEF HandedInv
<1>14. ReadsTypeOK'
  <2>1. offering' \in [Offerers -> [future : Nat, value : Nat]]
    BY <1>3, <1>4 DEF NoOffer
  <2> QED
    BY <1>3, <1>7, <2>1 DEF ReadsInv, ReadsTypeOK
<1> QED
  BY <1>11, <1>12, <1>13, <1>14 DEF ReadsInv

\* The close takes the next future, which is c from now on.
LEMMA OfferClosedStep == ASSUME ReadsInv, OfferClosed PROVE ReadsInv'
<1>1. PICK c \in Nat : FuturesInv(c) /\ OffersInv(c) /\ HandedInv(c)
  BY DEF ReadsInv
<1>2. /\ closing = "open" /\ closing' = (IF waiting # <<>> THEN "told" ELSE "kept")
      /\ NewReadFuture(ClosedValue) /\ UNCHANGED <<reads, awaits, offered, offering>>
  BY DEF OfferClosed
<1>3. /\ readFutures \in Seq(Nat \cup {Unset, ClosedValue}) /\ waiting \in Seq(Nat) /\ ready \in Seq(Nat) /\ reads \in Seq(Nat)
      /\ Len(readFutures) \in Nat /\ Len(waiting) \in Nat /\ Len(reads) \in Nat /\ offered \in Nat
      /\ offering \in [Offerers -> [future : Nat, value : Nat]]
  BY DEF ReadsInv, ReadsTypeOK
<1>4. c = 0 /\ Served = offered /\ Served \in Nat
  <2>1. c = 0 /\ Served = offered + 0
    BY <1>1, <1>2 DEF FuturesInv
  <2> QED
    BY <1>3, <2>1
<1>5. PICK h \in Nat : h = Served + 1
  BY <1>4
<1>6. Served' = h
  <2>1. CASE waiting # <<>>
    BY <1>1, <1>2, <1>5, <2>1, ServeWaiting
  <2>2. CASE waiting = <<>>
    <3>1. Served = Len(readFutures) /\ Served' = Len(readFutures) + 1
      BY <1>2, <2>2, KeepReady
    <3> QED
      BY <1>5, <3>1
  <2> QED
    BY <2>1, <2>2
<1>7. h # 0 /\ h <= Served' /\ Served' \in Nat /\ Served' = offered + 1 /\ closing' # "open"
  BY <1>2, <1>3, <1>4, <1>5, <1>6
<1>8. \A f \in Nat : f <= Served => Number(h, f) = Number(c, f) /\ f # h
  BY <1>4, <1>5 DEF Number
<1>9. OffersInv(h)'
  <2> SUFFICES ASSUME NEW u \in Offerers, offering[u] # NoOffer
               PROVE  offering[u].future \in 1..Served' /\ offering[u].future # h /\ offering[u].value = Number(h, offering[u].future)
    BY <1>2 DEF OffersInv
  <2>1. offering[u].future \in 1..Served /\ offering[u].value = Number(c, offering[u].future)
    BY <1>1 DEF OffersInv
  <2>2. PICK f \in Nat : f = offering[u].future /\ f <= Served /\ f >= 1
    BY <1>4, <2>1
  <2> QED
    BY <1>4, <1>5, <1>6, <1>8, <2>1, <2>2
<1>10. ASSUME NEW f \in 1..Len(readFutures), f # h
       PROVE  readFutures[f] \in {Unset, Number(h, f)}
  <2>1. f # c /\ f \in Nat
    BY <1>3, <1>4
  <2>2. CASE f <= Served
    BY <1>1, <1>8, <2>1, <2>2 DEF FuturesInv
  <2>3. CASE f > Served
    <3>1. f \in (Served + 1)..Len(readFutures)
      BY <1>3, <1>4, <2>3
    <3> QED
      BY <1>1, <3>1 DEF FuturesInv
  <2> QED
    BY <1>4, <2>1, <2>2, <2>3
<1>11. /\ Len(readFutures) = Len(reads) + Len(ready) /\ \A i \in 1..Len(reads) : reads[i] = i
       /\ \A i \in 1..Len(ready) : ready[i] = Len(reads) + i /\ ready[i] \in 1..Len(readFutures)
  BY <1>1, <1>2 DEF HandedInv
<1>12. CASE waiting # <<>>
  <2>1. /\ h \in 1..Len(readFutures) /\ ready' = ready /\ ready = <<>>
        /\ readFutures' = [readFutures EXCEPT ![h] = ClosedValue] /\ Len(readFutures') = Len(readFutures)
        /\ waiting' \in Seq(Nat) /\ \A j \in 1..Len(waiting') : waiting'[j] = h + j
        /\ \A f \in 1..Len(readFutures) : readFutures'[f] = IF f = h THEN ClosedValue ELSE readFutures[f]
    BY <1>1, <1>2, <1>5, <1>12, ServeWaiting
  <2>2. closing' = "told"
    BY <1>2, <1>12
  <2>3. FuturesInv(h)'
    <3>1. \A f \in 1..Len(readFutures') : IF f = h THEN readFutures'[f] = ClosedValue ELSE readFutures'[f] \in {Unset, Number(h, f)}
      BY <1>10, <2>1
    <3>2. ASSUME NEW f \in (Served' + 1)..Len(readFutures') PROVE readFutures'[f] = Unset
      <4>1. f \in (Served + 1)..Len(readFutures) /\ f \in 1..Len(readFutures) /\ f # h
        BY <1>3, <1>4, <1>5, <1>6, <2>1
      <4> QED
        BY <1>1, <2>1, <4>1 DEF FuturesInv
    <3> QED
      BY <1>2, <1>6, <1>7, <2>1, <3>1, <3>2 DEF FuturesInv
  <2>4. HandedInv(h)'
    <3>1. Len(ready) = 0 /\ Len(readFutures) = Len(reads)
      BY <1>3, <1>11, <2>1
    <3>2. h <= Len(reads')
      BY <1>2, <1>3, <2>1, <3>1
    <3> QED
      BY SMTT(30), <1>1, <1>2, <1>3, <1>11, <2>1, <2>2, <3>1, <3>2 DEF HandedInv
  <2>5. ReadsTypeOK'
    <3>1. readFutures' \in Seq(Nat \cup {Unset, ClosedValue})
      BY <1>3, <2>1
    <3> QED
      BY <1>2, <1>3, <2>1, <2>2, <3>1 DEF ReadsTypeOK
  <2> QED
    BY <1>9, <2>3, <2>4, <2>5 DEF ReadsInv
<1>13. CASE waiting = <<>>
  <2>1. /\ Served = Len(readFutures) /\ Len(readFutures') = Len(readFutures) + 1
        /\ readFutures' \in Seq(Nat \cup {Unset, ClosedValue})
        /\ \A f \in 1..Len(readFutures) : readFutures'[f] = readFutures[f]
        /\ readFutures'[Len(readFutures) + 1] = ClosedValue /\ waiting' = <<>>
        /\ ready' \in Seq(Nat) /\ Len(ready) \in Nat /\ Len(ready') = Len(ready) + 1
        /\ \A i \in 1..Len(ready) : ready'[i] = ready[i]
        /\ ready'[Len(ready) + 1] = Len(readFutures) + 1
    BY <1>2, <1>13, KeepReady
  <2>2. closing' = "kept" /\ h = Len(readFutures) + 1
    BY <1>2, <1>5, <1>13, <2>1
  <2>3. FuturesInv(h)'
    <3>1. ASSUME NEW f \in 1..Len(readFutures') PROVE IF f = h THEN readFutures'[f] = ClosedValue ELSE readFutures'[f] \in {Unset, Number(h, f)}
      <4>1. f = h \/ f \in 1..Len(readFutures)
        BY <1>3, <2>1, <2>2
      <4>2. CASE f = h
        BY <2>1, <2>2, <4>2
      <4>3. CASE f # h
        BY <1>10, <2>1, <4>1, <4>3
      <4> QED
        BY <4>2, <4>3
    <3>2. (Served' + 1)..Len(readFutures') = {} /\ 1..Len(waiting') = {}
      BY <1>3, <1>6, <2>1, <2>2
    <3> QED
      BY <1>2, <1>6, <1>7, <2>1, <3>1, <3>2 DEF FuturesInv
  <2>4. HandedInv(h)'
    <3>1. \A i \in 1..Len(ready') : ready'[i] # h => i \in 1..Len(ready) /\ ready'[i] = ready[i]
      <4> SUFFICES ASSUME NEW i \in 1..Len(ready'), ready'[i] # h PROVE i \in 1..Len(ready) /\ ready'[i] = ready[i]
        OBVIOUS
      <4>1. i \in 1..Len(ready) \/ i = Len(ready) + 1
        BY <2>1
      <4> QED
        BY <2>1, <2>2, <4>1
    <3>2. \A i \in 1..Len(ready') : ready'[i] \in 1..Len(readFutures')
      <4> TAKE i \in 1..Len(ready')
      <4>1. 1..Len(readFutures) \subseteq 1..Len(readFutures') /\ h \in 1..Len(readFutures')
        BY <1>3, <2>1, <2>2
      <4> QED
        BY <1>11, <3>1, <4>1
    <3>3. \A i \in 1..Len(reads') : reads'[i] \in 1..Len(readFutures')
      <4>1. \A i \in 1..Len(reads) : reads[i] \in 1..Len(readFutures)
        BY <1>1 DEF HandedInv
      <4>2. 1..Len(readFutures) \subseteq 1..Len(readFutures')
        BY <1>3, <2>1
      <4> QED
        BY <1>2, <4>1, <4>2
    <3>4. Len(ready) + 1 \in 1..Len(ready') /\ ready'[Len(ready) + 1] = h
      BY <2>1, <2>2
    <3>5. ASSUME NEW i \in 1..Len(ready'), NEW j \in 1..Len(ready'), i < j, ready'[i] # h, ready'[j] # h
          PROVE  ready'[i] < ready'[j]
      <4>1. ready'[i] = Len(reads) + i /\ ready'[j] = Len(reads) + j /\ i \in Nat /\ j \in Nat
        BY <1>11, <3>1, <3>5
      <4> QED
        BY <1>3, <3>5, <4>1
    <3>6. ASSUME NEW i \in 1..Len(reads'), NEW j \in 1..Len(ready'), reads'[i] # h, ready'[j] # h
          PROVE  reads'[i] < ready'[j]
      <4>1. reads'[i] = i /\ i \in 1..Len(reads)
        BY <1>2, <1>11
      <4>2. j \in 1..Len(ready) /\ ready'[j] = ready[j]
        BY <3>1, <3>6
      <4>3. ready'[j] = Len(reads) + j
        BY <1>11, <4>2
      <4> QED
        BY <1>3, <4>1, <4>2, <4>3
    <3>7. \A i, j \in 1..Len(reads') : i < j => reads'[i] < reads'[j]
      BY <1>2, <1>11
    <3> QED
      BY <1>2, <2>1, <2>2, <3>2, <3>3, <3>4, <3>5, <3>6, <3>7 DEF HandedInv
  <2>5. ReadsTypeOK'
    <3>1. waiting' \in Seq(Nat)
      BY <2>1
    <3> QED
      BY <1>2, <1>3, <2>1, <2>2, <3>1 DEF ReadsTypeOK
  <2> QED
    BY <1>9, <2>3, <2>4, <2>5 DEF ReadsInv
<1> QED
  BY <1>12, <1>13

\* The other steps leave the futures alone.
LEMMA ReadsStep == ASSUME ReadsInv, [ReadsNext]_readVars PROVE ReadsInv'
<1>1. ASSUME UNCHANGED <<readFutures, ready, waiting, reads, offered, offering, closing>> PROVE ReadsInv'
  <2>1. PICK c \in Nat : FuturesInv(c) /\ OffersInv(c) /\ HandedInv(c)
    BY DEF ReadsInv
  <2>2. FuturesInv(c)' /\ OffersInv(c)' /\ HandedInv(c)'
    BY <1>1, <2>1 DEF FuturesInv, OffersInv, HandedInv, Served, InFlight
  <2>3. ReadsTypeOK'
    BY <1>1 DEF ReadsInv, ReadsTypeOK
  <2> QED
    BY <2>2, <2>3 DEF ReadsInv
<1>2. CASE UNCHANGED readVars
  BY <1>1, <1>2 DEF readVars
<1>3. ASSUME NEW r \in Readers, AwaitRead(r) PROVE ReadsInv'
  BY <1>1, <1>3 DEF AwaitRead
<1> QED
  BY <1>2, <1>3, ReadReadyStep, ReadWaitsStep, OfferStep, SetReadStep, OfferClosedStep DEF ReadsNext

\* What the reads return, they return in the order of the offers.
LEMMA ReadsInOrderHolds == ASSUME ReadsInv PROVE ReadsInOrder
<1>1. PICK c \in Nat : FuturesInv(c) /\ OffersInv(c) /\ HandedInv(c)
  BY DEF ReadsInv
<1>2. /\ readFutures \in Seq(Nat \cup {Unset, ClosedValue}) /\ ready \in Seq(Nat) /\ waiting \in Seq(Nat) /\ reads \in Seq(Nat)
      /\ Len(readFutures) \in Nat /\ offered \in Nat
  BY DEF ReadsInv, ReadsTypeOK
<1>3. DOMAIN reads = 1..Len(reads) /\ DOMAIN ready = 1..Len(ready)
  BY <1>2
<1>4. \A i \in DOMAIN reads : Values[i] = readFutures[reads[i]] /\ reads[i] \in 1..Len(readFutures)
  BY <1>1, <1>3 DEF Values, HandedInv
<1>5. ASSUME NEW i \in DOMAIN reads, closing = "open", i <= offered PROVE Values[i] = i \/ (Values[i] = Unset /\ InFlight(reads[i]))
  <2>1. reads[i] = i /\ Served = offered /\ i \in Nat /\ i >= 1
    BY <1>1, <1>2, <1>3, <1>5 DEF HandedInv, FuturesInv
  <2>2. i \in 1..Served
    BY <1>2, <1>5, <2>1
  <2> QED
    BY <1>1, <1>4, <1>5, <2>1, <2>2 DEF FuturesInv
<1>6. ASSUME NEW i \in DOMAIN reads, NEW j \in DOMAIN reads, i < j, {Values[i], Values[j]} \subseteq Nat
      PROVE  Values[i] < Values[j]
  <2>1. reads[i] \in 1..Len(readFutures) /\ reads[j] \in 1..Len(readFutures)
        /\ Values[i] = readFutures[reads[i]] /\ Values[j] = readFutures[reads[j]]
    BY <1>4
  <2>2. reads[i] # c /\ reads[j] # c /\ Values[i] = Number(c, reads[i]) /\ Values[j] = Number(c, reads[j])
    BY <1>1, <1>6, <2>1, ReadsAssumption DEF FuturesInv
  <2>3. reads[i] < reads[j]
    BY <1>1, <1>3, <1>6, <2>2 DEF HandedInv
  <2>4. reads[i] \in Nat \ {0} /\ reads[j] \in Nat
    BY <1>2, <2>1
  <2> QED
    BY <2>2, <2>3, <2>4, NumberIs
<1>7. ASSUME closing = "kept" PROVE \E i \in DOMAIN ready : readFutures[ready[i]] = ClosedValue
  <2>1. PICK i \in 1..Len(ready) : ready[i] = c
    BY <1>1, <1>7 DEF HandedInv
  <2>2. c \in 1..Len(readFutures)
    BY <1>1, <2>1 DEF HandedInv
  <2> QED
    BY <1>1, <1>3, <2>1, <2>2 DEF FuturesInv
<1>8. ready = <<>> \/ waiting = <<>>
  BY <1>1 DEF HandedInv
<1> QED
  BY <1>5, <1>6, <1>7, <1>8 DEF ReadsInOrder

\* There is no future yet.
LEMMA ReadsInitially == ReadsInit => ReadsInv
<1> SUFFICES ASSUME ReadsInit PROVE ReadsInv
  OBVIOUS
<1>1. /\ readFutures = <<>> /\ ready = <<>> /\ waiting = <<>> /\ reads = <<>> /\ offered = 0 /\ closing = "open"
      /\ offering = [t \in Offerers |-> NoOffer]
  BY DEF ReadsInit
<1>2. Len(readFutures) = 0 /\ Len(waiting) = 0 /\ Len(reads) = 0 /\ Len(ready) = 0
  BY <1>1
<1>3. ReadsTypeOK
  <2>1. offering \in [Offerers -> [future : Nat, value : Nat]]
    BY <1>1 DEF NoOffer
  <2> QED
    BY <1>1, <2>1 DEF ReadsTypeOK
<1>4. FuturesInv(0)
  BY <1>1, <1>2 DEF FuturesInv, Served
<1>5. OffersInv(0)
  BY <1>1 DEF OffersInv
<1>6. HandedInv(0)
  BY <1>1, <1>2 DEF HandedInv
<1> QED
  BY <1>3, <1>4, <1>5, <1>6 DEF ReadsInv

\* However reads, offers, their values and the close are interleaved, the i-th
\* read gets the i-th message, and the close is never lost.
THEOREM ReadsInOrderCorrect == ReadsSpec => []ReadsInOrder
<1>1. ReadsInit => ReadsInv
  BY ReadsInitially
<1>2. ReadsInv /\ [ReadsNext]_readVars => ReadsInv'
  BY ReadsStep
<1>3. ReadsInv => ReadsInOrder
  BY ReadsInOrderHolds
<1> QED
  BY <1>1, <1>2, <1>3, PTL DEF ReadsSpec

----------------------------------------------------------------------------
(* The streams: the bytes that were read and those in the buffer are the   *)
(* numbers of all that arrived; whoever sleeps, sleeps rightly; and once   *)
(* the queue of the session has been cleared nothing waits in it.          *)
StreamFutures == {"pending", "late", "current", "sent", "failed"}
StreamPlaces == {"out", "write", "await", "close input", "flush"}

StreamTypeOK ==
  /\ arrived \in Nat /\ buf \in Seq(Nat) /\ got \in Seq(Nat)
  /\ closed \in BOOLEAN /\ released \in BOOLEAN /\ exception \in BOOLEAN
  /\ reader \in [StreamReaders -> {"out", "asleep", "woken"}]
  /\ user \in [StreamWriters \cup {Processor} -> StreamPlaces]
  /\ written \in Seq(StreamFutures)
  /\ lastWrite = Len(written) /\ session \in {"open", "destroyed", "closed"}

\* What was read and what is in the buffer are the numbers up to `arrived'.
Gapless ==
  /\ Len(got) + Len(buf) = arrived
  /\ \A i \in 1..Len(got) : got[i] = i
  /\ \A i \in 1..Len(buf) : buf[i] = Len(got) + i

\* Nobody sleeps over what is there.
AsleepRightly == \A r \in StreamReaders : reader[r] = "asleep" => WouldWait

\* Once the queue of the session has been cleared, nothing waits in it; and the
\* Processor closes the streams after that.
NothingQueued ==
  session # "open" => \A i \in 1..Len(written) : written[i] # "pending"
RemovedFirst == user[Processor] # "out" => session # "open"

StreamInv == StreamTypeOK /\ Gapless /\ AsleepRightly /\ NothingQueued /\ RemovedFirst

\* The two parts of a sequence that is cut after n elements.
LEMMA CutIs ==
  ASSUME NEW S, NEW s \in Seq(S), NEW n \in 1..Len(s)
  PROVE  /\ SubSeq(s, 1, n) \in Seq(S) /\ Len(SubSeq(s, 1, n)) = n
         /\ \A i \in 1..n : SubSeq(s, 1, n)[i] = s[i]
         /\ SubSeq(s, n + 1, Len(s)) \in Seq(S) /\ Len(SubSeq(s, n + 1, Len(s))) = Len(s) - n
         /\ \A i \in 1..(Len(s) - n) : SubSeq(s, n + 1, Len(s))[i] = s[n + i]
<1>1. Len(s) \in Nat /\ n \in Nat /\ n >= 1 /\ n <= Len(s)
  OBVIOUS
<1>2. \A i \in 1..n : s[i] \in S
  BY <1>1
<1>3. \A i \in (n + 1)..Len(s) : s[i] \in S
  BY <1>1
<1>4. SubSeq(s, 1, n) \in Seq(S) /\ Len(SubSeq(s, 1, n)) = n /\ \A i \in 1..n : SubSeq(s, 1, n)[i] = s[i]
  <2>1. \A i \in 1..n : i \in 1..Len(s)
    BY <1>1
  <2> QED
    BY <1>1, <1>2, <2>1, SubSeqProperties
<1>5. SubSeq(s, n + 1, Len(s)) \in Seq(S) /\ Len(SubSeq(s, n + 1, Len(s))) = Len(s) - n
  BY <1>1, <1>3, SubSeqProperties
<1>6. ASSUME NEW i \in 1..(Len(s) - n) PROVE SubSeq(s, n + 1, Len(s))[i] = s[n + i]
  BY <1>1, <1>3, SubSeqProperties
<1> QED
  BY <1>4, <1>5, <1>6

\* A read moves the first bytes of the buffer to what was read.
LEMMA StreamReadStep == ASSUME StreamInv, NEW r \in StreamReaders, ReadReturns(r) PROVE StreamInv'
<1>1. /\ buf \in Seq(Nat) /\ got \in Seq(Nat) /\ Len(buf) \in Nat /\ Len(got) \in Nat /\ arrived \in Nat
      /\ reader \in [StreamReaders -> {"out", "asleep", "woken"}]
  BY DEF StreamInv, StreamTypeOK
<1>2. /\ ~WouldWait /\ reader' = [reader EXCEPT ![r] = "out"]
      /\ UNCHANGED <<arrived, closed, exception, outputVars>>
      /\ \/ released' = TRUE /\ buf' = buf /\ got' = got
         \/ released' = released /\ \E n \in 1..Len(buf) : got' = got \o SubSeq(buf, 1, n) /\ buf' = SubSeq(buf, n + 1, Len(buf))
  BY DEF ReadReturns
<1>3. AsleepRightly'
  BY <1>1, <1>2 DEF StreamInv, AsleepRightly
<1>4. Gapless' /\ buf' \in Seq(Nat) /\ got' \in Seq(Nat)
  <2>1. CASE buf' = buf /\ got' = got
    BY <1>1, <1>2, <2>1 DEF StreamInv, Gapless
  <2>2. ASSUME NEW n \in 1..Len(buf), got' = got \o SubSeq(buf, 1, n), buf' = SubSeq(buf, n + 1, Len(buf))
        PROVE  Gapless' /\ buf' \in Seq(Nat) /\ got' \in Seq(Nat)
    <3>1. PICK g : g = SubSeq(buf, 1, n)
      OBVIOUS
    <3>2. /\ g \in Seq(Nat) /\ Len(g) = n /\ \A i \in 1..n : g[i] = buf[i]
          /\ buf' \in Seq(Nat) /\ Len(buf') = Len(buf) - n /\ \A i \in 1..(Len(buf) - n) : buf'[i] = buf[n + i]
      BY ZenonT(30), <1>1, <2>2, <3>1, CutIs
    <3>3. /\ got' \in Seq(Nat) /\ Len(got') = Len(got) + n
          /\ \A i \in 1..Len(got) : got'[i] = got[i] /\ \A j \in 1..n : got'[Len(got) + j] = g[j]
      BY <1>1, <2>2, <3>1, <3>2, ConcatProperties
    <3>4. n \in Nat /\ n >= 1 /\ n <= Len(buf)
      BY <1>1
    <3>5. Len(got) + Len(buf) = arrived /\ (\A i \in 1..Len(got) : got[i] = i) /\ (\A i \in 1..Len(buf) : buf[i] = Len(got) + i)
      BY DEF StreamInv, Gapless
    <3>6. ASSUME NEW i \in 1..Len(got') PROVE got'[i] = i
      <4>1. CASE i \in 1..Len(got)
        BY <3>3, <3>5, <4>1
      <4>2. CASE i \notin 1..Len(got)
        <5>1. PICK j \in 1..n : i = Len(got) + j
          <6>1. i - Len(got) \in 1..n /\ i = Len(got) + (i - Len(got))
            BY <1>1, <3>3, <3>4, <4>2
          <6> QED
            BY <6>1
        <5>2. got'[Len(got) + j] = g[j]
          BY <1>1, <2>2, <3>1, <3>2, ConcatProperties
        <5>3. j \in 1..Len(buf)
          BY <1>1, <3>4
        <5> QED
          BY <3>2, <3>5, <5>1, <5>2, <5>3
      <4> QED
        BY <4>1, <4>2
    <3>7. ASSUME NEW i \in 1..Len(buf') PROVE buf'[i] = Len(got') + i
      <4>1. i \in 1..(Len(buf) - n) /\ n + i \in 1..Len(buf) /\ i \in Nat
        <5>1. Len(buf') = Len(buf) - n
          BY <3>2
        <5>2. Len(buf) \in Nat
          BY <1>1
        <5> QED
          BY <3>4, <5>1, <5>2
      <4>2. buf'[i] = Len(got) + (n + i)
        BY <3>2, <3>5, <4>1
      <4> QED
        BY <1>1, <3>3, <3>4, <4>1, <4>2
    <3>8. Len(got') + Len(buf') = arrived'
      <4>1. Len(got') = Len(got) + n /\ Len(buf') = Len(buf) - n /\ Len(got) + Len(buf) = arrived
        BY <3>2, <3>3, <3>5
      <4>2. arrived' = arrived
        BY <1>2
      <4>3. Len(got) \in Nat /\ Len(buf) \in Nat /\ n \in Nat
        BY <1>1, <3>4
      <4> QED
        BY <4>1, <4>2, <4>3
    <3> QED
      BY <3>2, <3>3, <3>6, <3>7, <3>8 DEF Gapless
  <2> QED
    BY <1>2, <2>1, <2>2
<1>5. released' \in BOOLEAN
  BY <1>2 DEF StreamInv, StreamTypeOK
<1>6. StreamTypeOK'
  <2>1. reader' \in [StreamReaders -> {"out", "asleep", "woken"}]
    BY <1>1, <1>2
  <2> QED
    BY <1>2, <1>4, <1>5, <2>1 DEF StreamInv, StreamTypeOK, outputVars
<1>7. NothingQueued' /\ RemovedFirst'
  BY <1>2 DEF StreamInv, NothingQueued, RemovedFirst, outputVars
<1> QED
  BY <1>3, <1>4, <1>6, <1>7 DEF StreamInv

\* What arrives goes behind what is in the buffer, and wakes the sleepers.
LEMMA ArriveStep == ASSUME StreamInv, Arrive PROVE StreamInv'
<1>1. /\ buf \in Seq(Nat) /\ Len(buf) \in Nat /\ Len(got) \in Nat /\ arrived \in Nat
      /\ reader \in [StreamReaders -> {"out", "asleep", "woken"}]
  BY DEF StreamInv, StreamTypeOK
<1>2. /\ arrived' = arrived + 1 /\ buf' = Append(buf, arrived + 1)
      /\ IF buf = <<>> THEN NotifyAll ELSE UNCHANGED reader
      /\ UNCHANGED <<closed, released, exception, got, outputVars>>
  BY DEF Arrive
<1>3. /\ buf' \in Seq(Nat) /\ Len(buf') = Len(buf) + 1 /\ buf'[Len(buf) + 1] = arrived + 1
      /\ \A i \in 1..Len(buf) : buf'[i] = buf[i]
  BY <1>1, <1>2
<1>4. Gapless'
  <2>1. Len(got) + Len(buf) = arrived /\ (\A i \in 1..Len(got) : got[i] = i) /\ (\A i \in 1..Len(buf) : buf[i] = Len(got) + i)
    BY DEF StreamInv, Gapless
  <2>2. ASSUME NEW i \in 1..Len(buf') PROVE buf'[i] = Len(got) + i
    <3>1. i \in 1..Len(buf) \/ i = Len(buf) + 1
      BY <1>1, <1>3
    <3>2. CASE i \in 1..Len(buf)
      BY <1>3, <2>1, <3>2
    <3>3. CASE i = Len(buf) + 1
      <4>1. arrived + 1 = Len(got) + i
        <5>1. Len(got) + Len(buf) = arrived
          BY <2>1
        <5> QED
          BY <1>1, <3>3, <5>1
      <4> QED
        BY <1>3, <3>3, <4>1
    <3> QED
      BY <3>1, <3>2, <3>3
  <2>3. Len(got) + Len(buf') = arrived + 1
    <3>1. Len(got) + Len(buf) = arrived /\ Len(buf') = Len(buf) + 1
      BY <1>3, <2>1
    <3> QED
      BY <1>1, <3>1
  <2> QED
    BY <1>2, <2>1, <2>2, <2>3 DEF Gapless
<1>5. AsleepRightly'
  <2>1. CASE buf = <<>>
    BY <1>1, <1>2, <2>1 DEF NotifyAll, AsleepRightly
  <2>2. CASE buf # <<>>
    <3>1. reader' = reader /\ ~WouldWait
      BY <1>2, <2>2 DEF WouldWait
    <3> QED
      BY <3>1 DEF StreamInv, AsleepRightly
  <2> QED
    BY <2>1, <2>2
<1>6. reader' \in [StreamReaders -> {"out", "asleep", "woken"}]
  BY <1>1, <1>2 DEF NotifyAll
<1>7. StreamTypeOK'
  BY <1>1, <1>2, <1>3, <1>6 DEF StreamInv, StreamTypeOK, outputVars
<1>8. NothingQueued' /\ RemovedFirst'
  BY <1>2 DEF StreamInv, NothingQueued, RemovedFirst, outputVars
<1> QED
  BY <1>4, <1>5, <1>7, <1>8 DEF StreamInv

\* Steps that leave the numbers alone.
LEMMA InputStep ==
  ASSUME StreamInv,
         Throw \/ CloseInput \/ \E r \in StreamReaders : ReadWaitsForData(r)
  PROVE  StreamInv'
<1>1. /\ UNCHANGED <<arrived, buf, got, monitor, written, lastWrite, session>>
      /\ StreamTypeOK /\ Gapless /\ AsleepRightly /\ NothingQueued /\ RemovedFirst
  BY DEF StreamInv, Throw, CloseInput, ReadWaitsForData, outputVars
<1>2. AsleepRightly' /\ closed' \in BOOLEAN /\ released' \in BOOLEAN /\ exception' \in BOOLEAN
      /\ reader' \in [StreamReaders -> {"out", "asleep", "woken"}]
  <2>1. CASE Throw
    BY <1>1, <2>1 DEF Throw, NotifyAll, AsleepRightly, StreamTypeOK
  <2>2. CASE CloseInput
    <3>1. CASE closed
      BY <1>1, <2>2, <3>1 DEF CloseInput, AsleepRightly, StreamTypeOK, WouldWait
    <3>2. CASE ~closed
      BY <1>1, <2>2, <3>2 DEF CloseInput, NotifyAll, AsleepRightly, StreamTypeOK
    <3> QED
      BY <3>1, <3>2
  <2>3. ASSUME NEW r \in StreamReaders, ReadWaitsForData(r)
        PROVE  AsleepRightly' /\ closed' \in BOOLEAN /\ released' \in BOOLEAN /\ exception' \in BOOLEAN
               /\ reader' \in [StreamReaders -> {"out", "asleep", "woken"}]
    BY <1>1, <2>3 DEF ReadWaitsForData, AsleepRightly, StreamTypeOK, WouldWait
  <2> QED
    BY <2>1, <2>2, <2>3
<1>3. user' \in [StreamWriters \cup {Processor} -> StreamPlaces] /\ RemovedFirst'
  <2>1. CASE user' = user
    BY <1>1, <2>1 DEF StreamTypeOK, RemovedFirst
  <2>2. CASE user[Processor] = "close input" /\ user' = [user EXCEPT ![Processor] = "flush"]
    BY <1>1, <2>2 DEF StreamTypeOK, StreamPlaces, RemovedFirst
  <2> QED
    BY <2>1, <2>2 DEF Throw, CloseInput, ReadWaitsForData, outputVars
<1> QED
  BY <1>1, <1>2, <1>3 DEF StreamInv, StreamTypeOK, Gapless, NothingQueued

\* The steps of the output stream and of the processor leave the input alone.
LEMMA OutputStep ==
  ASSUME StreamInv,
         \/ TakeWrite \/ CompleteWrite \/ SessionClosed
         \/ \E t \in StreamWriters : BeginWrite(t) \/ EndWrite(t)
         \/ \E t \in StreamWriters \cup {Processor} : BeginFlush(t) \/ EndFlush(t)
  PROVE  StreamInv'
<1> DEFINE Rest == /\ user' \in [StreamWriters \cup {Processor} -> StreamPlaces] /\ written' \in Seq(StreamFutures)
                   /\ lastWrite' = Len(written') /\ session' \in {"open", "destroyed", "closed"}
                   /\ NothingQueued' /\ RemovedFirst'
<1>1. /\ UNCHANGED inputVars
      /\ StreamTypeOK /\ Gapless /\ AsleepRightly /\ NothingQueued /\ RemovedFirst
  BY DEF StreamInv, TakeWrite, CompleteWrite, SessionClosed, BeginWrite, EndWrite, BeginFlush, EndFlush
<1>0. {"out", "write", "await", "close input"} \subseteq StreamPlaces /\ {"current", "sent", "failed", "pending", "late"} \subseteq StreamFutures
  BY DEF StreamPlaces, StreamFutures
<1>2. /\ user \in [StreamWriters \cup {Processor} -> StreamPlaces] /\ written \in Seq(StreamFutures) /\ Len(written) \in Nat
      /\ lastWrite = Len(written) /\ session \in {"open", "destroyed", "closed"} /\ Processor \notin StreamWriters
  BY <1>1, StreamAssumption DEF StreamTypeOK
<1>3. ASSUME TakeWrite PROVE Rest
  <2>1. PICK i \in DOMAIN written : written' = [written EXCEPT ![i] = "current"]
    BY <1>3 DEF TakeWrite
  <2>2. written' \in Seq(StreamFutures) /\ Len(written') = Len(written)
    <3>1. "current" \in StreamFutures
      BY <1>0
    <3> QED
      BY <1>2, <2>1, <3>1
  <2>3. user' = user /\ lastWrite' = lastWrite /\ session' = session /\ session = "open"
    BY <1>3 DEF TakeWrite
  <2> QED
    <3>1. NothingQueued' /\ RemovedFirst'
      BY <1>1, <2>3 DEF NothingQueued, RemovedFirst
    <3>2. user' \in [StreamWriters \cup {Processor} -> StreamPlaces] /\ session' \in {"open", "destroyed", "closed"}
      BY <1>2, <2>3
    <3>3. lastWrite' = Len(written')
      BY <1>2, <2>2, <2>3
    <3> QED
      BY <2>2, <3>1, <3>2, <3>3
<1>4. ASSUME CompleteWrite PROVE Rest
  <2>1. PICK i \in DOMAIN written : written' = [written EXCEPT ![i] = "sent"]
    BY <1>4 DEF CompleteWrite
  <2>2. written' \in Seq(StreamFutures) /\ Len(written') = Len(written)
    <3>1. "sent" \in StreamFutures
      BY <1>0
    <3> QED
      BY <1>2, <2>1, <3>1
  <2>3. user' = user /\ lastWrite' = lastWrite /\ session' = session /\ session = "open"
    BY <1>4 DEF CompleteWrite
  <2> QED
    <3>1. NothingQueued' /\ RemovedFirst'
      BY <1>1, <2>3 DEF NothingQueued, RemovedFirst
    <3>2. user' \in [StreamWriters \cup {Processor} -> StreamPlaces] /\ session' \in {"open", "destroyed", "closed"}
      BY <1>2, <2>3
    <3>3. lastWrite' = Len(written')
      BY <1>2, <2>2, <2>3
    <3> QED
      BY <2>2, <3>1, <3>2, <3>3
<1>5. ASSUME SessionClosed PROVE Rest
  <2>1. /\ session' = "destroyed" /\ lastWrite' = lastWrite /\ user' = [user EXCEPT ![Processor] = "close input"]
        /\ written' = [i \in DOMAIN written |-> IF written[i] = "pending" THEN "failed" ELSE written[i]]
    BY <1>5 DEF SessionClosed, Goes
  <2>2. DOMAIN written = 1..Len(written)
    BY <1>2
  <2>3. written' = [i \in 1..Len(written) |-> IF written[i] = "pending" THEN "failed" ELSE written[i]]
    BY <2>1, <2>2
  <2>4. \A i \in 1..Len(written) : written[i] \in StreamFutures
    BY <1>2
  <2>5. written' \in Seq(StreamFutures) /\ Len(written') = Len(written) /\ \A i \in 1..Len(written) : written'[i] # "pending"
    <3>1. Len(written) \in Nat
      BY <1>2
    <3>2. "failed" \in StreamFutures
      BY <1>0
    <3> QED
      BY <2>3, <2>4, <3>1, <3>2
  <2>6. user' \in [StreamWriters \cup {Processor} -> StreamPlaces]
    BY <1>0, <1>2, <2>1
  <2> QED
    <3>1. lastWrite' = Len(written') /\ session' \in {"open", "destroyed", "closed"}
      BY <1>2, <2>1, <2>5
    <3>2. NothingQueued' /\ RemovedFirst'
      BY <2>1, <2>5 DEF NothingQueued, RemovedFirst
    <3> QED
      BY <2>5, <2>6, <3>1, <3>2
<1>6. ASSUME NEW t \in StreamWriters, BeginWrite(t) PROVE Rest
  <2>1. /\ user' = [user EXCEPT ![t] = "write"] /\ UNCHANGED <<written, lastWrite, session>> /\ session = "open"
    BY <1>6 DEF BeginWrite, Goes
  <2>2. user' \in [StreamWriters \cup {Processor} -> StreamPlaces] /\ user'[Processor] = user[Processor]
    BY <1>0, <1>2, <2>1
  <2> QED
    BY <1>1, <1>2, <2>1, <2>2 DEF NothingQueued, RemovedFirst
<1>7. ASSUME NEW t \in StreamWriters, EndWrite(t) PROVE Rest
  <2>1. /\ user' = [user EXCEPT ![t] = "out"] /\ session' = session /\ lastWrite' = Len(written')
        /\ written' = Append(written, IF session = "open" THEN "pending" ELSE "late")
    BY <1>7 DEF EndWrite, Goes
  <2>2. user' \in [StreamWriters \cup {Processor} -> StreamPlaces] /\ user'[Processor] = user[Processor]
    BY <1>0, <1>2, <2>1
  <2>3. written' \in Seq(StreamFutures)
    <3>1. (IF session = "open" THEN "pending" ELSE "late") \in StreamFutures
      BY <1>0
    <3> QED
      BY <1>2, <2>1, <3>1
  <2>4. NothingQueued'
    <3>1. CASE session = "open"
      BY <2>1, <3>1 DEF NothingQueued
    <3>2. CASE session # "open"
      <4>1. written' = Append(written, "late")
        BY <2>1, <3>2
      <4>2. \A i \in 1..Len(written') : (i \in 1..Len(written) /\ written'[i] = written[i]) \/ written'[i] = "late"
        BY <1>2, <4>1
      <4> QED
        BY <1>1, <3>2, <4>2 DEF NothingQueued
    <3> QED
      BY <3>1, <3>2
  <2> QED
    BY <1>1, <1>2, <2>1, <2>2, <2>3, <2>4 DEF RemovedFirst
<1>8. ASSUME NEW t \in StreamWriters \cup {Processor}, BeginFlush(t) PROVE Rest
  <2>1. /\ user' = [user EXCEPT ![t] = "await"] /\ UNCHANGED <<written, lastWrite, session>>
        /\ t = Processor => user[Processor] = "flush"
    BY <1>8 DEF BeginFlush, Goes
  <2>2. user' \in [StreamWriters \cup {Processor} -> StreamPlaces]
    BY <1>0, <1>2, <2>1
  <2>3. RemovedFirst'
    BY <1>1, <1>2, <2>1 DEF RemovedFirst
  <2> QED
    BY <1>1, <1>2, <2>1, <2>2, <2>3 DEF NothingQueued
<1>9. ASSUME NEW t \in StreamWriters \cup {Processor}, EndFlush(t) PROVE Rest
  <2>1. /\ user' = [user EXCEPT ![t] = "out"] /\ UNCHANGED <<written, lastWrite>> /\ user[t] = "await"
        /\ session' = IF t = Processor THEN "closed" ELSE session
    BY <1>9 DEF EndFlush, Goes
  <2>2. user' \in [StreamWriters \cup {Processor} -> StreamPlaces]
    BY <1>0, <1>2, <2>1
  <2>3. RemovedFirst'
    BY <1>1, <1>2, <2>1 DEF RemovedFirst
  <2>4. session' # "open" => session # "open"
    BY <1>1, <2>1 DEF RemovedFirst
  <2>5. NothingQueued'
    BY <1>1, <2>1, <2>4 DEF NothingQueued
  <2> QED
    BY <1>2, <2>1, <2>2, <2>3, <2>5
<1>10. Rest
  <2> HIDE DEF Rest
  <2> QED
    BY <1>3, <1>4, <1>5, <1>6, <1>7, <1>8, <1>9
<1> QED
  BY <1>1, <1>10 DEF StreamInv, StreamTypeOK, Gapless, AsleepRightly, WouldWait, inputVars

\* Each step of a stream keeps the invariant.
LEMMA StreamStep == ASSUME StreamInv, [StreamNext]_streamVars PROVE StreamInv'
<1>1. CASE UNCHANGED streamVars
  BY <1>1 DEF StreamInv, StreamTypeOK, Gapless, AsleepRightly, WouldWait, NothingQueued, RemovedFirst,
              streamVars, inputVars, outputVars
<1> QED
  BY <1>1, ArriveStep, StreamReadStep, InputStep, OutputStep DEF StreamNext

\* Nothing has arrived, and nobody sleeps.
LEMMA StreamInitially == StreamInit => StreamInv
<1> SUFFICES ASSUME StreamInit PROVE StreamInv
  OBVIOUS
<1>1. Len(got) = 0 /\ Len(buf) = 0 /\ Len(written) = 0
  BY DEF StreamInit
<1>2. user \in [StreamWriters \cup {Processor} -> StreamPlaces] /\ written \in Seq(StreamFutures)
      /\ user[Processor] = "out"
  BY DEF StreamInit, StreamPlaces
<1>3. StreamTypeOK
  <2>1. /\ arrived \in Nat /\ buf \in Seq(Nat) /\ got \in Seq(Nat) /\ session \in {"open", "destroyed", "closed"}
        /\ reader \in [StreamReaders -> {"out", "asleep", "woken"}] /\ lastWrite = 0
    BY DEF StreamInit
  <2>2. closed \in BOOLEAN /\ released \in BOOLEAN /\ exception \in BOOLEAN
    BY DEF StreamInit
  <2> QED
    BY <1>1, <1>2, <2>1, <2>2 DEF StreamTypeOK
<1>4. Gapless
  BY <1>1 DEF StreamInit, Gapless
<1> QED
  BY <1>1, <1>2, <1>3, <1>4 DEF StreamInit, StreamInv, AsleepRightly, NothingQueued, RemovedFirst

\* The invariant of the streams says that they are sound.
LEMMA StreamSoundHolds == ASSUME StreamInv PROVE StreamSound
<1>1. /\ buf \in Seq(Nat) /\ got \in Seq(Nat) /\ Len(buf) \in Nat /\ Len(got) \in Nat
      /\ Gapless /\ AsleepRightly /\ NothingQueued
      /\ written \in Seq(StreamFutures) /\ lastWrite = Len(written)
  BY DEF StreamInv, StreamTypeOK
<1>2. PICK all : all = got \o buf
  OBVIOUS
<1>2a. /\ all \in Seq(Nat) /\ Len(all) = Len(got) + Len(buf)
       /\ \A i \in 1..(Len(got) + Len(buf)) : all[i] = IF i <= Len(got) THEN got[i] ELSE buf[i - Len(got)]
  <2>1. /\ got \o buf \in Seq(Nat) /\ Len(got \o buf) = Len(got) + Len(buf)
        /\ \A i \in 1..(Len(got) + Len(buf)) : (got \o buf)[i] = IF i <= Len(got) THEN got[i] ELSE buf[i - Len(got)]
    <3>1. got \in Seq(Nat) /\ buf \in Seq(Nat)
      BY <1>1
    <3> QED
      BY <3>1, ConcatProperties
  <2> QED
    BY <1>2, <2>1
<1>3. ASSUME NEW i \in 1..Len(all) PROVE all[i] = i
  <2>1. CASE i <= Len(got)
    <3>1. i \in 1..(Len(got) + Len(buf)) /\ i \in 1..Len(got)
      BY <1>1, <1>2a, <2>1
    <3>2. all[i] = got[i]
      BY <1>2a, <2>1, <3>1
    <3>3. got[i] = i
      BY <1>1, <3>1 DEF Gapless
    <3> QED
      BY <3>2, <3>3
  <2>2. CASE i > Len(got)
    <3>1. i - Len(got) \in 1..Len(buf) /\ Len(got) + (i - Len(got)) = i
      BY <1>1, <1>2a, <2>2
    <3> QED
      <4>1. ~(i <= Len(got)) /\ i \in 1..(Len(got) + Len(buf))
        BY <1>1, <1>2a, <2>2
      <4>2. all[i] = buf[i - Len(got)]
        BY <1>2a, <4>1
      <4>3. buf[i - Len(got)] = Len(got) + (i - Len(got))
        BY <1>1, <3>1 DEF Gapless
      <4> QED
        BY <3>1, <4>2, <4>3
  <2> QED
    BY <1>1, <2>1, <2>2
<1>4. got \o buf = [i \in 1..Len(got \o buf) |-> i]
  <2>1. all = [i \in 1..Len(all) |-> i]
    <3>1. all \in Seq(Nat) /\ Len(all) \in Nat
      BY <1>2a
    <3>2. DOMAIN all = 1..Len(all)
      BY <3>1
    <3>3. all = [i \in DOMAIN all |-> all[i]]
      BY <3>1
    <3> QED
      BY <1>3, <3>2, <3>3
  <2> QED
    BY <1>2, <2>1
<1>5. ASSUME session = "destroyed", ~Answered PROVE written[lastWrite] \in {"current", "late"}
  <2>1. lastWrite \in 1..Len(written) /\ written[lastWrite] \notin {"sent", "failed"}
    BY <1>1, <1>5 DEF Answered
  <2>2. written[lastWrite] # "pending"
    BY <1>1, <1>5, <2>1 DEF NothingQueued
  <2>3. written[lastWrite] \in StreamFutures
    BY <1>1, <2>1
  <2> QED
    BY <2>1, <2>2, <2>3 DEF StreamFutures
<1> QED
  BY <1>1, <1>4, <1>5 DEF StreamSound, AsleepRightly

\* Whatever readers, writers and the processor do, what is read is what arrived,
\* nobody sleeps over what is there, and the processor that closes the streams
\* waits only for a write that is the current one or came too late.
THEOREM StreamSoundCorrect == StreamSpec => []StreamSound
<1>1. StreamInit => StreamInv
  BY StreamInitially
<1>2. StreamInv /\ [StreamNext]_streamVars => StreamInv'
  BY StreamStep
<1>3. StreamInv => StreamSound
  BY StreamSoundHolds
<1> QED
  BY <1>1, <1>2, <1>3, PTL DEF StreamSpec

----------------------------------------------------------------------------
(* The size of the read buffer: every config has its bounds in order, and  *)
(* the flag that defers a decrease tells of a small read.                  *)
Sizes == [size : Int, min : Int, max : Int]
InOrder(config) == config \in Sizes /\ config.size >= 1 /\ config.min >= 1 /\ config.min <= config.max

\* Where `defer' is down, a small read has been seen, and on the way to the
\* decrease two.
DeferRightly ==
  /\ defer \in BOOLEAN /\ smallReads \in 0..2
  /\ ~defer => smallReads >= 1
  /\ readStep = "decrease" => smallReads >= 1 /\ (~defer => smallReads = 2)

SizeInv ==
  /\ InOrder(serviceSizes) /\ InOrder(sessionSizes) /\ copied \in Int
  /\ readStep = "read" => capacity >= 1
  /\ readStep # "rest" => copied = 3
  /\ DeferRightly /\ decreasedAfter = 2

\* A config after one of its fields was set.
LEMMA SetIs ==
  ASSUME NEW config \in Sizes, NEW field \in SizeFields, NEW n \in Int
  PROVE  /\ [config EXCEPT ![field] = n] \in Sizes
         /\ [config EXCEPT ![field] = n].size = (IF field = "size" THEN n ELSE config.size)
         /\ [config EXCEPT ![field] = n].min = (IF field = "min" THEN n ELSE config.min)
         /\ [config EXCEPT ![field] = n].max = (IF field = "max" THEN n ELSE config.max)
<1>1. CASE field = "size"
  BY <1>1 DEF Sizes
<1>2. CASE field = "min"
  BY <1>2 DEF Sizes
<1>3. CASE field = "max"
  BY <1>3 DEF Sizes
<1> QED
  BY <1>1, <1>2, <1>3 DEF SizeFields

\* What the setters accept keeps the bounds of a config in order.
LEMMA SettableInOrder ==
  ASSUME NEW config, InOrder(config), NEW field \in SizeFields, NEW n \in Int, Settable(config, field, n)
  PROVE  InOrder([config EXCEPT ![field] = n])
<1>1. PICK new : new = [config EXCEPT ![field] = n]
  OBVIOUS
<1>2. /\ new \in Sizes /\ new.size = (IF field = "size" THEN n ELSE config.size)
      /\ new.min = (IF field = "min" THEN n ELSE config.min)
      /\ new.max = (IF field = "max" THEN n ELSE config.max)
  BY <1>1, SetIs DEF InOrder
<1>3. /\ config.size \in Int /\ config.min \in Int /\ config.max \in Int
      /\ config.size >= 1 /\ config.min >= 1 /\ config.min <= config.max
  BY DEF InOrder, Sizes
<1>4. n >= 1 /\ (field = "min" => n <= config.max) /\ (field = "max" => n >= config.min)
  BY DEF Settable
<1>5. new.size >= 1 /\ new.min >= 1
  BY <1>2, <1>3, <1>4
<1>6. new.min <= new.max
  BY <1>2, <1>3, <1>4
<1> QED
  BY <1>1, <1>2, <1>5, <1>6 DEF InOrder

\* The setters and the copy of the config of the service.
LEMMA ConfigStep ==
  ASSUME SizeInv,
         SetNext \/ \E field \in SizeFields, n \in SizesSet : SetServiceConfig(field, n) \/ SetSessionConfig(field, n)
  PROVE  SizeInv'
<1>1. CASE SetNext
  <2>1. copied \in 0..2 /\ Field[copied + 1] \in SizeFields /\ UNCHANGED <<serviceSizes, adaptVars>>
    <3>1. copied \in 0..2 /\ UNCHANGED <<serviceSizes, adaptVars>>
      BY <1>1 DEF SetNext
    <3>2. copied = 0 \/ copied = 1 \/ copied = 2
      BY <3>1
    <3> QED
      BY <3>1, <3>2 DEF Field, SizeFields
  <2>2. PICK field \in SizeFields : field = Field[copied + 1]
    BY <2>1
  <2>3. \/ /\ Settable(sessionSizes, field, serviceSizes[field])
           /\ sessionSizes' = [sessionSizes EXCEPT ![field] = serviceSizes[field]] /\ copied' = copied + 1
        \/ copied' = -1 /\ sessionSizes' = sessionSizes
    BY <1>1, <2>2 DEF SetNext
  <2>4. serviceSizes[field] \in Int
    BY DEF SizeInv, InOrder, Sizes, SizeFields
  <2>5. InOrder(sessionSizes')
    BY <2>3, <2>4, SettableInOrder DEF SizeInv
  <2>6. copied' \in Int
    BY <2>1, <2>3
  <2>7. readStep = "rest"
    BY <2>1 DEF SizeInv
  <2> QED
    BY <2>1, <2>5, <2>6, <2>7 DEF SizeInv, DeferRightly, adaptVars
<1>2. ASSUME NEW field \in SizeFields, NEW n \in SizesSet, SetServiceConfig(field, n) PROVE SizeInv'
  <2>1. n \in Int
    BY SizeAssumption
  <2>2. InOrder(serviceSizes')
    BY <1>2, <2>1, SettableInOrder DEF SizeInv, SetServiceConfig
  <2> QED
    BY <1>2, <2>2 DEF SetServiceConfig, SizeInv, DeferRightly, adaptVars
<1>3. ASSUME NEW field \in SizeFields, NEW n \in SizesSet, SetSessionConfig(field, n) PROVE SizeInv'
  <2>1. n \in Int
    BY SizeAssumption
  <2>2. InOrder(sessionSizes')
    BY <1>3, <2>1, SettableInOrder DEF SizeInv, SetSessionConfig
  <2> QED
    BY <1>3, <2>2 DEF SetSessionConfig, SizeInv, DeferRightly, adaptVars
<1> QED
  BY <1>1, <1>2, <1>3

\* A read, and what the processor makes of the size after it.
LEMMA AdaptStep ==
  ASSUME SizeInv,
         Allocate \/ (\E n \in 1..capacity : ReadAndCompare(n)) \/ IncreaseReadBufferSize \/ DecreaseReadBufferSize
  PROVE  SizeInv'
<1>1. InOrder(serviceSizes)' /\ copied' = copied /\ decreasedAfter' = 2 /\ InOrder(sessionSizes)'
      /\ DeferRightly' /\ (readStep' = "read" => capacity' >= 1) /\ (readStep' # "rest" => copied' = 3)
  <2>1. CASE Allocate
    BY <2>1 DEF Allocate, SizeInv, InOrder, DeferRightly, configVars
  <2>2. ASSUME NEW n \in 1..capacity, ReadAndCompare(n)
        PROVE  InOrder(serviceSizes)' /\ copied' = copied /\ decreasedAfter' = 2 /\ InOrder(sessionSizes)'
               /\ DeferRightly' /\ (readStep' = "read" => capacity' >= 1) /\ (readStep' # "rest" => copied' = 3)
    <3>1. /\ readStep = "read" /\ readStep' \in {"decrease", "increase", "rest"}
          /\ readStep' = "decrease" <=> Small(n)
          /\ smallReads' = IF (LessThanHalf(n) \/ Wraps(n)) /\ smallReads < 2 THEN smallReads + 1 ELSE smallReads
          /\ UNCHANGED <<serviceSizes, sessionSizes, copied, defer, decreasedAfter>>
      BY <2>2 DEF ReadAndCompare, configVars
    <3>2. Small(n) => LessThanHalf(n) \/ Wraps(n)
      BY DEF Small, LessThanHalf, Wraps
    <3>3. DeferRightly'
      BY <3>1, <3>2 DEF SizeInv, DeferRightly
    <3> QED
      BY <3>1, <3>3 DEF SizeInv
  <2>3. CASE IncreaseReadBufferSize
    <3>0. PICK doubled : doubled = Twice(sessionSizes.size)
      OBVIOUS
    <3>1. PICK n : /\ n = (IF doubled <= sessionSizes.max THEN doubled ELSE sessionSizes.max)
                   /\ \/ /\ Settable(sessionSizes, "size", n) /\ sessionSizes' = [sessionSizes EXCEPT !["size"] = n]
                         /\ defer' = TRUE /\ smallReads' = 0
                      \/ sessionSizes' = sessionSizes /\ defer' = defer /\ smallReads' = smallReads
      BY <2>3, <3>0 DEF IncreaseReadBufferSize
    <3>2. readStep' = "rest" /\ UNCHANGED <<serviceSizes, copied, decreasedAfter>>
      BY <2>3 DEF IncreaseReadBufferSize
    <3>3. n \in Int
      <4>1. sessionSizes.size \in Int /\ sessionSizes.max \in Int /\ ConfigMax \in Int
        BY SizeAssumption DEF SizeInv, InOrder, Sizes
      <4>2. doubled \in Int
        BY <3>0, <4>1 DEF Twice
      <4> QED
        BY <3>1, <4>1, <4>2
    <3>4. InOrder(sessionSizes')
      BY <3>1, <3>3, SettableInOrder DEF SizeInv, SizeFields
    <3>5. DeferRightly'
      <4>1. CASE defer' = TRUE /\ smallReads' = 0
        BY <3>2, <4>1 DEF DeferRightly
      <4>2. CASE defer' = defer /\ smallReads' = smallReads
        BY <3>2, <4>2 DEF SizeInv, DeferRightly
      <4> QED
        BY <3>1, <4>1, <4>2
    <3> QED
      BY <3>2, <3>4, <3>5 DEF SizeInv
  <2>4. CASE DecreaseReadBufferSize
    <3>1. /\ readStep = "decrease" /\ readStep' = "rest" /\ defer' = ~defer /\ UNCHANGED <<serviceSizes, copied>>
          /\ \/ defer /\ UNCHANGED <<sessionSizes, smallReads, decreasedAfter>>
             \/ ~defer /\ Halve /\ decreasedAfter' = smallReads /\ smallReads' = 0
      BY <2>4 DEF DecreaseReadBufferSize
    <3>2. CASE defer
      <4>1. smallReads \in 0..2 /\ smallReads >= 1
        BY <3>1 DEF SizeInv, DeferRightly
      <4>2. defer' = FALSE /\ smallReads' = smallReads /\ sessionSizes' = sessionSizes /\ decreasedAfter' = decreasedAfter
        BY <3>1, <3>2
      <4>3. DeferRightly'
        BY <3>1, <4>1, <4>2 DEF DeferRightly
      <4> QED
        BY <3>1, <4>2, <4>3 DEF SizeInv
    <3>3. CASE ~defer
      <4>1. decreasedAfter' = 2 /\ DeferRightly'
        <5>1. smallReads = 2
          BY <3>1, <3>3 DEF SizeInv, DeferRightly
        <5>2. defer' = TRUE /\ smallReads' = 0 /\ decreasedAfter' = smallReads
          BY <3>1, <3>3
        <5>3. DeferRightly'
          BY <3>1, <5>2 DEF DeferRightly
        <5> QED
          BY <5>1, <5>2, <5>3
      <4>2. InOrder(sessionSizes')
        <5>1. /\ sessionSizes \in Sizes /\ sessionSizes.size \in Int /\ sessionSizes.min \in Int /\ sessionSizes.max \in Int
              /\ sessionSizes.min >= 1
          BY DEF SizeInv, InOrder, Sizes
        <5>2. CASE sessionSizes.size > sessionSizes.min
          <6>1. sessionSizes' = [sessionSizes EXCEPT !["size"] = sessionSizes.size \div 2]
            BY <3>1, <3>3, <5>2 DEF Halve
          <6>2. sessionSizes.size \div 2 \in Int /\ sessionSizes.size \div 2 >= 1
            BY <5>1, <5>2
          <6>3. Settable(sessionSizes, "size", sessionSizes.size \div 2)
            BY <6>2 DEF Settable
          <6> QED
            BY <6>1, <6>2, <6>3, SettableInOrder DEF SizeInv, SizeFields
        <5>3. CASE ~(sessionSizes.size > sessionSizes.min)
          BY <3>1, <3>3, <5>3 DEF Halve, SizeInv
        <5> QED
          BY <5>2, <5>3
      <4> QED
        BY <3>1, <4>1, <4>2 DEF SizeInv
    <3> QED
      BY <3>2, <3>3
  <2> QED
    BY <2>1, <2>2, <2>3, <2>4
<1> QED
  BY <1>1 DEF SizeInv

\* Each step keeps the bounds in order.
LEMMA ReadSizeStep == ASSUME SizeInv, [ReadSizeNext]_readSizeVars PROVE SizeInv'
<1>1. CASE UNCHANGED readSizeVars
  BY <1>1 DEF SizeInv, DeferRightly, readSizeVars, configVars
<1> QED
  BY <1>1, ConfigStep, AdaptStep DEF ReadSizeNext

\* A new config is in order.
LEMMA ReadSizeInitially == ReadSizeInit => SizeInv
<1> SUFFICES ASSUME ReadSizeInit PROVE SizeInv
  OBVIOUS
<1>1. InOrder(DefaultSizes)
  BY SizeAssumption DEF DefaultSizes, InOrder, Sizes
<1> QED
  BY <1>1 DEF ReadSizeInit, SizeInv, DeferRightly

\* The invariant of the size says that the read buffer is sound.
LEMMA ReadBufferSoundHolds == ASSUME SizeInv PROVE ReadBufferSound
  BY DEF SizeInv, InOrder, ReadBufferSound

\* What a session reads into is never empty, and small reads shrink it in pairs.
THEOREM ReadBufferSoundCorrect == ReadSizeInit /\ [][ReadSizeNext]_readSizeVars => []ReadBufferSound
<1>1. ReadSizeInit => SizeInv
  BY ReadSizeInitially
<1>2. SizeInv /\ [ReadSizeNext]_readSizeVars => SizeInv'
  BY ReadSizeStep
<1>3. SizeInv => ReadBufferSound
  BY ReadBufferSoundHolds
<1> QED
  BY <1>1, <1>2, <1>3, PTL

----------------------------------------------------------------------------
(* The counters.  What a fold over a finite set adds up does not depend on *)
(* the order in which the fold takes the elements: each lemma about sums   *)
(* is an argument about the least counterexample.                          *)
LEMMA LessWellFounded == IsWellFoundedOn({p \in Nat \X Nat : p[1] < p[2]}, Nat)
  BY NatLessThanWellFounded DEF OpToRel

\* A set of naturals that is not empty has a least element: induction over a
\* count is an argument about the least counterexample.
LEMMA LeastNat ==
  ASSUME NEW T, T \subseteq Nat, T # {}
  PROVE  \E n \in T : \A k \in T : n <= k
<1> DEFINE R == {p \in Nat \X Nat : p[1] < p[2]}
<1>1. IsWellFoundedOn(R, Nat)
  BY LessWellFounded
<1> HIDE DEF R
<1>2. PICK n \in T : \A k \in T : <<k, n>> \notin R
  BY <1>1, WFMin
<1>3. ASSUME NEW k \in T PROVE n <= k
  <2>1. n \in Nat /\ k \in Nat /\ <<k, n>> \in Nat \X Nat
    OBVIOUS
  <2>2. ~(k < n)
    BY <1>2, <2>1 DEF R
  <2> QED
    BY <2>1, <2>2
<1> QED
  BY <1>3

LeftOf(m, r) == IF m[r].kind = "file" THEN 0 ELSE m[r].left
SumLeft(m, S) == FoldSet(LAMBDA r, n : n + LeftOf(m, r), 0, S)

\* Any of a set, as the folds take it.
AnyOf(s) == CHOOSE x \in s : TRUE

\* A set that is not empty has any element.
LEMMA AnyIn == ASSUME NEW s, s # {} PROVE AnyOf(s) \in s
  BY DEF AnyOf

\* g sums w over each subset of S.
IsSum(g, w, S) ==
  /\ g \in [SUBSET S -> Int]
  /\ \A s \in SUBSET S : g[s] = IF s = {} THEN 0 ELSE g[s \ {AnyOf(s)}] + w[AnyOf(s)]

\* The same for the subsets of S of at most n elements.
IsSumTo(g, w, S, n) ==
  /\ g \in [{s \in SUBSET S : Cardinality(s) <= n} -> Int]
  /\ \A s \in {s \in SUBSET S : Cardinality(s) <= n} : g[s] = IF s = {} THEN 0 ELSE g[s \ {AnyOf(s)}] + w[AnyOf(s)]

\* The subsets of a finite set, and what they are without one element.
LEMMA SubsetIs ==
  ASSUME NEW S, IsFiniteSet(S), NEW s \in SUBSET S
  PROVE  /\ IsFiniteSet(s) /\ Cardinality(s) \in Nat /\ Cardinality(s) <= Cardinality(S) /\ Cardinality(S) \in Nat
         /\ (Cardinality(s) = 0 <=> s = {})
         /\ \A a \in s : Cardinality(s \ {a}) = Cardinality(s) - 1 /\ IsFiniteSet(s \ {a}) /\ s \ {a} \in SUBSET S
<1>1. IsFiniteSet(s) /\ Cardinality(s) <= Cardinality(S)
  BY FS_Subset
<1>2. Cardinality(s) \in Nat /\ Cardinality(S) \in Nat /\ (Cardinality(s) = 0 <=> s = {})
  BY <1>1, FS_CardinalityType, FS_EmptySet
<1>3. \A a \in s : Cardinality(s \ {a}) = Cardinality(s) - 1 /\ IsFiniteSet(s \ {a})
  BY <1>1, FS_RemoveElement
<1> QED
  BY <1>1, <1>2, <1>3

\* Sums over small subsets extend to those with one element more.
LEMMA SumExtends ==
  ASSUME NEW S, IsFiniteSet(S), NEW w \in [S -> Int], NEW n \in Nat, n = 0 \/ \E g : IsSumTo(g, w, S, n - 1)
  PROVE  \E g : IsSumTo(g, w, S, n)
<1> DEFINE SmallSets == {s \in SUBSET S : Cardinality(s) <= n}
<1>1. CASE n = 0
  <2> DEFINE g == [s \in SmallSets |-> 0]
  <2>1. \A s \in SmallSets : s = {}
    <3> TAKE s \in SmallSets
    <3>1. Cardinality(s) \in Nat /\ Cardinality(s) <= n /\ (Cardinality(s) = 0 <=> s = {})
      BY SubsetIs
    <3> QED
      BY <1>1, <3>1
  <2>2. g \in [SmallSets -> Int] /\ \A s \in SmallSets : g[s] = IF s = {} THEN 0 ELSE g[s \ {AnyOf(s)}] + w[AnyOf(s)]
    BY <2>1
  <2> HIDE DEF g
  <2> QED
    BY <2>2 DEF IsSumTo
<1>2. CASE n # 0
  <2>1. PICK h : IsSumTo(h, w, S, n - 1)
    BY <1>2
  <2> DEFINE Smaller == {s \in SUBSET S : Cardinality(s) <= n - 1}
             g == [s \in SmallSets |-> IF s = {} THEN 0 ELSE h[s \ {AnyOf(s)}] + w[AnyOf(s)]]
  <2>2. h \in [Smaller -> Int] /\ \A s \in Smaller : h[s] = IF s = {} THEN 0 ELSE h[s \ {AnyOf(s)}] + w[AnyOf(s)]
    BY <2>1 DEF IsSumTo
  <2>3. ASSUME NEW s \in SmallSets, s # {} PROVE s \ {AnyOf(s)} \in Smaller /\ s \ {AnyOf(s)} \in SmallSets /\ w[AnyOf(s)] \in Int
    <3>1. s \in SUBSET S /\ Cardinality(s) <= n
      OBVIOUS
    <3>2. AnyOf(s) \in s
      BY <2>3, AnyIn
    <3>3. Cardinality(s \ {AnyOf(s)}) = Cardinality(s) - 1 /\ s \ {AnyOf(s)} \in SUBSET S /\ Cardinality(s) \in Nat
      BY <3>1, <3>2, SubsetIs
    <3>4. Cardinality(s \ {AnyOf(s)}) <= n - 1 /\ Cardinality(s \ {AnyOf(s)}) <= n
      BY <3>1, <3>3
    <3> QED
      BY <3>1, <3>2, <3>3, <3>4
  <2>4. g \in [SmallSets -> Int]
    BY <2>2, <2>3
  <2>5. \A s \in Smaller : s \in SmallSets /\ g[s] = h[s]
    <3> TAKE s \in Smaller
    <3>1. s \in SUBSET S /\ Cardinality(s) <= n - 1
      OBVIOUS
    <3>2. Cardinality(s) \in Nat
      BY SubsetIs
    <3>3. s \in SmallSets
      BY <3>1, <3>2
    <3> QED
      BY <2>2, <3>3
  <2>6. \A s \in SmallSets : g[s] = IF s = {} THEN 0 ELSE g[s \ {AnyOf(s)}] + w[AnyOf(s)]
    <3> TAKE s \in SmallSets
    <3>1. CASE s = {}
      BY <3>1
    <3>2. CASE s # {}
      BY <2>3, <2>5, <3>2
    <3> QED
      BY <3>1, <3>2
  <2> HIDE DEF g
  <2> QED
    BY <2>4, <2>6 DEF IsSumTo
<1> QED
  BY <1>1, <1>2

\* Every finite set has its sums: otherwise take the least size that has none.
LEMMA SumExists ==
  ASSUME NEW S, IsFiniteSet(S), NEW w \in [S -> Int]
  PROVE  \E g : IsSum(g, w, S)
<1> DEFINE T == {n \in Nat : ~\E g : IsSumTo(g, w, S, n)}
<1>1. T = {}
  <2> SUFFICES ASSUME T # {} PROVE FALSE
    OBVIOUS
  <2>1. PICK n \in T : \A k \in T : n <= k
    BY LeastNat
  <2>2. n \in Nat /\ ~\E g : IsSumTo(g, w, S, n)
    OBVIOUS
  <2>3. CASE n = 0
    BY <2>2, <2>3, SumExtends
  <2>4. CASE n # 0
    <3>1. n - 1 \in Nat /\ ~(n <= n - 1)
      BY <2>2, <2>4
    <3>2. \E g : IsSumTo(g, w, S, n - 1)
      BY <2>1, <3>1
    <3> QED
      BY <2>2, <3>2, SumExtends
  <2> QED
    BY <2>3, <2>4
<1>2. Cardinality(S) \in Nat
  BY SubsetIs
<1>3. PICK g : IsSumTo(g, w, S, Cardinality(S))
  BY <1>1, <1>2
<1>4. {s \in SUBSET S : Cardinality(s) <= Cardinality(S)} = SUBSET S
  BY SubsetIs
<1> QED
  BY <1>3, <1>4 DEF IsSumTo, IsSum

\* The fold is such a sum.
LEMMA SumLeftIs ==
  ASSUME NEW m, NEW S, IsFiniteSet(S), \A r \in S : LeftOf(m, r) \in Int
  PROVE  \E g : IsSum(g, [r \in S |-> LeftOf(m, r)], S) /\ SumLeft(m, S) = g[S]
<1> DEFINE iter == CHOOSE f : f = [s \in SUBSET S |-> IF s = {} THEN 0
                                     ELSE f[s \ {CHOOSE x \in s : TRUE}] + LeftOf(m, CHOOSE x \in s : TRUE)]
           w == [r \in S |-> LeftOf(m, r)]
<1>1. SumLeft(m, S) = iter[S]
  BY DEF SumLeft, FoldSet, MapThenFoldSet
<1>2. w \in [S -> Int] /\ \A r \in S : w[r] = LeftOf(m, r)
  OBVIOUS
<1> HIDE DEF w
<1>3. PICK g : IsSum(g, w, S)
  BY <1>2, SumExists
<1>4. ASSUME NEW s \in SUBSET S, s # {} PROVE (CHOOSE x \in s : TRUE) = AnyOf(s) /\ AnyOf(s) \in S /\ w[AnyOf(s)] = LeftOf(m, AnyOf(s))
  BY <1>2, <1>4, AnyIn DEF AnyOf
<1>5. g = [s \in SUBSET S |-> IF s = {} THEN 0
                                ELSE g[s \ {CHOOSE x \in s : TRUE}] + LeftOf(m, CHOOSE x \in s : TRUE)]
  <2> DEFINE h == [s \in SUBSET S |-> IF s = {} THEN 0
                                ELSE g[s \ {CHOOSE x \in s : TRUE}] + LeftOf(m, CHOOSE x \in s : TRUE)]
  <2>1. \A s \in SUBSET S : h[s] = g[s]
    BY <1>3, <1>4 DEF IsSum
  <2>2. h = [s \in SUBSET S |-> h[s]]
    OBVIOUS
  <2> HIDE DEF h
  <2>3. g = [s \in SUBSET S |-> g[s]]
    BY <1>3 DEF IsSum
  <2>4. g = h
    BY <2>1, <2>2, <2>3
  <2> QED
    BY <2>4 DEF h
<1>6. iter = [s \in SUBSET S |-> IF s = {} THEN 0
                                ELSE iter[s \ {CHOOSE x \in s : TRUE}] + LeftOf(m, CHOOSE x \in s : TRUE)]
  BY <1>5
<1> HIDE DEF iter
<1>7. IsSum(iter, w, S)
  <2>0. \A s \in SUBSET S : iter[s] = IF s = {} THEN 0 ELSE iter[s \ {AnyOf(s)}] + w[AnyOf(s)]
    BY <1>4, <1>6
  <2>1. \A s \in SUBSET S : iter[s] \in Int
    <3> DEFINE T == {n \in Nat : \E s \in SUBSET S : Cardinality(s) = n /\ iter[s] \notin Int}
    <3>1. T = {}
      <4> SUFFICES ASSUME T # {} PROVE FALSE
        OBVIOUS
      <4>1. PICK n \in T : \A k \in T : n <= k
        BY LeastNat
      <4>2. PICK s \in SUBSET S : Cardinality(s) = n /\ iter[s] \notin Int
        OBVIOUS
      <4>3. s # {}
        <5>1. s = {} => iter[s] = 0
          BY <2>0
        <5> QED
          BY <4>2, <5>1
      <4>4. AnyOf(s) \in s /\ Cardinality(s \ {AnyOf(s)}) = n - 1 /\ s \ {AnyOf(s)} \in SUBSET S /\ Cardinality(s) \in Nat
            /\ Cardinality(s \ {AnyOf(s)}) \in Nat
        <5>1. AnyOf(s) \in s
          BY <4>3, AnyIn
        <5>2. Cardinality(s \ {AnyOf(s)}) = n - 1 /\ s \ {AnyOf(s)} \in SUBSET S /\ Cardinality(s) \in Nat
          BY <4>2, <5>1, SubsetIs
        <5> QED
          BY <5>1, <5>2, SubsetIs
      <4>5. n - 1 \in Nat /\ ~(n <= n - 1)
        BY <4>2, <4>4
      <4>6. n - 1 \notin T
        BY <4>1, <4>5
      <4>7. iter[s \ {AnyOf(s)}] \in Int
        BY <4>4, <4>5, <4>6
      <4>8. w[AnyOf(s)] \in Int
        BY <1>2, <4>4
      <4>9. iter[s] = iter[s \ {AnyOf(s)}] + w[AnyOf(s)]
        BY <2>0, <4>2, <4>3
      <4> QED
        BY <4>2, <4>7, <4>8, <4>9
    <3> QED
      BY <3>1, SubsetIs
  <2> QED
    BY <1>6, <2>0, <2>1 DEF IsSum
<1> QED
  BY <1>1, <1>7 DEF w

\* A sum depends on nothing but what is summed.
LEMMA SumSame ==
  ASSUME NEW S, IsFiniteSet(S), NEW V, IsFiniteSet(V), NEW g, NEW w, IsSum(g, w, S), NEW h, NEW v, IsSum(h, v, V),
         NEW U, U \subseteq S, U \subseteq V, \A r \in U : w[r] = v[r]
  PROVE  g[U] = h[U]
<1> DEFINE T == {n \in Nat : \E s \in SUBSET U : Cardinality(s) = n /\ g[s] # h[s]}
<1>0. IsFiniteSet(U)
  BY FS_Subset
<1>1. T = {}
  <2> SUFFICES ASSUME T # {} PROVE FALSE
    OBVIOUS
  <2>1. PICK n \in T : \A k \in T : n <= k
    BY LeastNat
  <2>2. PICK s \in SUBSET U : Cardinality(s) = n /\ g[s] # h[s]
    OBVIOUS
  <2>3. s \in SUBSET S /\ s \in SUBSET V
    OBVIOUS
  <2>4. s # {}
    BY <2>2, <2>3 DEF IsSum
  <2>5. AnyOf(s) \in s
    BY <2>4, AnyIn
  <2>6. Cardinality(s \ {AnyOf(s)}) = n - 1 /\ s \ {AnyOf(s)} \in SUBSET U /\ Cardinality(s) \in Nat
    BY SMTT(30), <1>0, <2>2, <2>5, SubsetIs
  <2>7. Cardinality(s \ {AnyOf(s)}) \in Nat
    BY <1>0, <2>6, SubsetIs
  <2>8. n - 1 \in Nat /\ ~(n <= n - 1)
    BY <2>2, <2>6, <2>7
  <2>9. n - 1 \notin T
    BY <2>1, <2>8
  <2>10. g[s \ {AnyOf(s)}] = h[s \ {AnyOf(s)}]
    BY <2>6, <2>8, <2>9
  <2>11. g[s] = g[s \ {AnyOf(s)}] + w[AnyOf(s)] /\ h[s] = h[s \ {AnyOf(s)}] + v[AnyOf(s)]
    BY <2>3, <2>4 DEF IsSum
  <2> QED
    BY <2>2, <2>5, <2>10, <2>11
<1>2. Cardinality(U) \in Nat
  BY <1>0, FS_CardinalityType
<1> QED
  BY <1>1, <1>2

\* A sum is what it is without an element, and that element: otherwise take the
\* smallest set where it is not.
LEMMA SumWithout ==
  ASSUME NEW S, IsFiniteSet(S), NEW g, NEW w \in [S -> Int], IsSum(g, w, S), NEW U \in SUBSET S, NEW b \in U
  PROVE  g[U] = g[U \ {b}] + w[b]
<1> DEFINE T == {n \in Nat : \E s \in SUBSET S : Cardinality(s) = n /\ \E a \in s : g[s] # g[s \ {a}] + w[a]}
<1>1. T = {}
  <2> SUFFICES ASSUME T # {} PROVE FALSE
    OBVIOUS
  <2>1. PICK n \in T : \A k \in T : n <= k
    BY LeastNat
  <2>2. PICK s \in SUBSET S : Cardinality(s) = n /\ \E a \in s : g[s] # g[s \ {a}] + w[a]
    OBVIOUS
  <2>3. PICK a \in s : g[s] # g[s \ {a}] + w[a]
    BY <2>2
  <2>4. PICK x \in s : x = AnyOf(s)
    BY AnyIn
  <2>5. g[s] = g[s \ {x}] + w[x]
    BY <2>4 DEF IsSum
  <2>6. a # x
    BY <2>3, <2>5
  <2> DEFINE s1 == s \ {x}
             s2 == s \ {a}
             s3 == s1 \ {a}
  <2>7. s1 \in SUBSET S /\ s2 \in SUBSET S /\ s3 \in SUBSET S /\ a \in s1 /\ x \in s2 /\ s3 = s2 \ {x}
    BY <2>6
  <2>8. Cardinality(s1) = n - 1 /\ Cardinality(s2) = n - 1 /\ Cardinality(s1) \in Nat /\ Cardinality(s) \in Nat
    <3>1. Cardinality(s1) = n - 1 /\ Cardinality(s2) = n - 1 /\ Cardinality(s) \in Nat
      BY <2>2, SubsetIs
    <3>2. Cardinality(s1) \in Nat
      BY <2>7, SubsetIs
    <3> QED
      BY <3>1, <3>2
  <2>9. n - 1 \in Nat /\ ~(n <= n - 1)
    BY <2>2, <2>8
  <2>10. n - 1 \notin T
    BY <2>1, <2>9
  <2>11. g[s1] = g[s3] + w[a]
    BY <2>7, <2>8, <2>9, <2>10
  <2>12. g[s2] = g[s3] + w[x]
    BY ZenonT(30), <2>7, <2>8, <2>9, <2>10
  <2>13. g[s3] \in Int /\ w[a] \in Int /\ w[x] \in Int /\ g[s] = g[s1] + w[x] /\ g[s] # g[s2] + w[a]
    BY <2>3, <2>5, <2>7 DEF IsSum
  <2> HIDE DEF s1, s2, s3
  <2> QED
    BY <2>11, <2>12, <2>13
<1>2. Cardinality(U) \in Nat
  BY SubsetIs
<1> QED
  BY <1>1, <1>2

Weighed(m, S) == IsFiniteSet(S) /\ \A r \in S : LeftOf(m, r) \in Int

\* What is weighed is weighed in its parts.
LEMMA WeighedSubset ==
  ASSUME NEW m, NEW S, Weighed(m, S), NEW U, U \subseteq S
  PROVE  Weighed(m, U) /\ IsFiniteSet(U)
  BY FS_Subset DEF Weighed

\* Messages of which as much is left have the same sum.
LEMMA SumLeftSame ==
  ASSUME NEW m, NEW S, Weighed(m, S), NEW k, \A r \in S : LeftOf(k, r) = LeftOf(m, r)
  PROVE  SumLeft(k, S) = SumLeft(m, S)
<1>1. IsFiniteSet(S) /\ (\A r \in S : LeftOf(m, r) \in Int) /\ (\A r \in S : LeftOf(k, r) \in Int)
  BY DEF Weighed
<1>2. PICK g : IsSum(g, [r \in S |-> LeftOf(m, r)], S) /\ SumLeft(m, S) = g[S]
  BY <1>1, SumLeftIs
<1>3. PICK h : IsSum(h, [r \in S |-> LeftOf(k, r)], S) /\ SumLeft(k, S) = h[S]
  BY <1>1, SumLeftIs
<1>4. \A r \in S : [x \in S |-> LeftOf(k, x)][r] = [x \in S |-> LeftOf(m, x)][r]
  OBVIOUS
<1>5. h[S] = g[S]
  BY <1>1, <1>2, <1>3, <1>4, SumSame
<1> QED
  BY <1>2, <1>3, <1>5

\* What is left of the messages, and of one of them.
LEMMA SumLeftSplit ==
  ASSUME NEW m, NEW S, Weighed(m, S), NEW a \in S
  PROVE  /\ SumLeft(m, S) = SumLeft(m, S \ {a}) + LeftOf(m, a)
         /\ SumLeft(m, S \ {a}) \in Int /\ SumLeft(m, S) \in Int /\ LeftOf(m, a) \in Int
<1> DEFINE w == [r \in S |-> LeftOf(m, r)]
           v == [r \in S \ {a} |-> LeftOf(m, r)]
<1>1. IsFiniteSet(S) /\ (\A r \in S : LeftOf(m, r) \in Int) /\ IsFiniteSet(S \ {a}) /\ \A r \in S \ {a} : LeftOf(m, r) \in Int
  BY WeighedSubset DEF Weighed
<1>2. PICK g : IsSum(g, w, S) /\ SumLeft(m, S) = g[S]
  BY <1>1, SumLeftIs
<1>3. PICK h : IsSum(h, v, S \ {a}) /\ SumLeft(m, S \ {a}) = h[S \ {a}]
  BY <1>1, SumLeftIs
<1>4. w \in [S -> Int] /\ w[a] = LeftOf(m, a) /\ \A r \in S \ {a} : v[r] = w[r]
  BY <1>1
<1> HIDE DEF w, v
<1>5. g[S] = g[S \ {a}] + w[a]
  BY <1>1, <1>2, <1>4, SumWithout
<1>6. h[S \ {a}] = g[S \ {a}]
  BY <1>1, <1>2, <1>3, <1>4, SumSame
<1>7. g[S] \in Int /\ g[S \ {a}] \in Int
  BY <1>2 DEF IsSum
<1> QED
  BY <1>1, <1>2, <1>3, <1>4, <1>5, <1>6, <1>7

\* What is left is a number, and of nothing it is none.
LEMMA SumLeftInt ==
  ASSUME NEW m, NEW S, Weighed(m, S)
  PROVE  SumLeft(m, S) \in Int /\ (S = {} => SumLeft(m, S) = 0)
<1>1. PICK g : IsSum(g, [r \in S |-> LeftOf(m, r)], S) /\ SumLeft(m, S) = g[S]
  BY SumLeftIs DEF Weighed
<1>2. g[S] \in Int /\ (S = {} => g[S] = 0)
  BY <1>1 DEF IsSum
<1> QED
  BY <1>1, <1>2

\* What is left of two parts is left of the whole: otherwise take the smallest
\* part where it is not.
LEMMA SumLeftApart ==
  ASSUME NEW m, NEW S, Weighed(m, S), NEW B, B \subseteq S
  PROVE  SumLeft(m, S) = SumLeft(m, B) + SumLeft(m, S \ B)
<1> DEFINE T == {n \in Nat : \E U \in SUBSET S : Cardinality(U) = n /\ SumLeft(m, S) # SumLeft(m, U) + SumLeft(m, S \ U)}
<1>0. IsFiniteSet(S) /\ IsFiniteSet(B)
  BY WeighedSubset DEF Weighed
<1>1. T = {}
  <2> SUFFICES ASSUME T # {} PROVE FALSE
    OBVIOUS
  <2>1. PICK n \in T : \A k \in T : n <= k
    BY LeastNat
  <2>2. PICK U \in SUBSET S : Cardinality(U) = n /\ SumLeft(m, S) # SumLeft(m, U) + SumLeft(m, S \ U)
    OBVIOUS
  <2>3. CASE U = {}
    <3>1. SumLeft(m, U) = 0 /\ S \ U = S /\ SumLeft(m, S) \in Int
      BY <2>3, SumLeftInt, WeighedSubset
    <3> QED
      BY <2>2, <3>1
  <2>4. CASE U # {}
    <3>1. PICK a \in U : TRUE
      BY <2>4
    <3> DEFINE V == U \ {a}
               R == S \ U
               Q == S \ V
    <3>2. V \in SUBSET S /\ R = Q \ {a} /\ a \in Q /\ Q \subseteq S /\ R \subseteq S /\ V = U \ {a}
      OBVIOUS
    <3>3. Weighed(m, U) /\ Weighed(m, Q) /\ Weighed(m, V) /\ Weighed(m, R)
      BY <3>2, WeighedSubset
    <3>4. Cardinality(V) = n - 1 /\ n \in Nat
      BY <1>0, <2>2, SubsetIs
    <3>4a. Cardinality(V) \in Nat
      BY <1>0, <3>2, SubsetIs
    <3>5. n - 1 \in Nat /\ ~(n <= n - 1)
      BY <3>4, <3>4a
    <3>6. n - 1 \notin T
      BY <2>1, <3>5
    <3>7. SumLeft(m, S) = SumLeft(m, V) + SumLeft(m, Q)
      BY <3>2, <3>4, <3>5, <3>6
    <3>8. SumLeft(m, U) = SumLeft(m, V) + LeftOf(m, a) /\ LeftOf(m, a) \in Int /\ SumLeft(m, V) \in Int
      BY <3>1, <3>3, SumLeftSplit
    <3>9. SumLeft(m, Q) = SumLeft(m, R) + LeftOf(m, a) /\ SumLeft(m, R) \in Int
      BY <3>2, <3>3, SumLeftSplit
    <3>10. SumLeft(m, S) # SumLeft(m, U) + SumLeft(m, R)
      BY <2>2
    <3> HIDE DEF V, R, Q
    <3> QED
      BY <3>7, <3>8, <3>9, <3>10
  <2> QED
    BY <2>3, <2>4
<1>2. Cardinality(B) \in Nat
  BY <1>0, FS_CardinalityType
<1> QED
  BY <1>1, <1>2

Messages == [kind : {"buffer", "file"}, size : Nat, left : Nat]
FilesIn(m, S) == {r \in S : m[r].kind = "file"}

CountersTypeOK ==
  /\ message \in Seq(Messages) /\ counted \in [Writers -> Nat] /\ requests \in Seq(Nat) /\ current \in Nat
  /\ scheduledWriteBytes \in Int /\ scheduledWriteMessages \in Int
  /\ drift \in [bytes : Int, messages : Int]

\* A request that has been counted and not yet sent is in one place.
InOnePlace ==
  /\ \A i \in 1..Len(requests) : requests[i] \in 1..Len(message)
  /\ \A i, j \in 1..Len(requests) : i # j => requests[i] # requests[j]
  /\ current # 0 => current \in 1..Len(message) /\ \A i \in 1..Len(requests) : requests[i] # current
  /\ \A w \in Writers : counted[w] # 0 =>
       /\ counted[w] \in 1..Len(message) /\ counted[w] # current
       /\ \A i \in 1..Len(requests) : requests[i] # counted[w]
       /\ \A u \in Writers : u # w => counted[u] # counted[w]

Scheduled ==
  IF phase = "closed"
  THEN scheduledWriteBytes = 0 /\ scheduledWriteMessages = 0
  ELSE /\ scheduledWriteBytes = drift.bytes + SumLeft(message, Outstanding)
       /\ scheduledWriteMessages = drift.messages + Cardinality(FilesIn(message, Outstanding))

ScheduleInv == CountersTypeOK /\ InOnePlace /\ Scheduled

\* What is outstanding is current, queued or counted.
LEMMA OutstandingIs ==
  ASSUME requests \in Seq(Nat)
  PROVE  \A x : x \in Outstanding <=>
           x # 0 /\ (x = current \/ (\E i \in 1..Len(requests) : requests[i] = x) \/ \E w \in Writers : counted[w] = x)
<1>1. DOMAIN requests = 1..Len(requests)
  OBVIOUS
<1> QED
  BY <1>1 DEF Outstanding, ToSet

\* Outstanding requests are messages, and finitely many.
LEMMA OutstandingWeighed ==
  ASSUME ScheduleInv
  PROVE  /\ Outstanding \subseteq 1..Len(message) /\ Weighed(message, Outstanding) /\ IsFiniteSet(Outstanding)
         /\ \A r \in Outstanding : r \in 1..Len(message) /\ message[r] \in Messages
<1>1. message \in Seq(Messages) /\ requests \in Seq(Nat) /\ Len(message) \in Nat
  BY DEF ScheduleInv, CountersTypeOK
<1>2. Outstanding \subseteq 1..Len(message)
  BY SMTT(30), <1>1, OutstandingIs DEF ScheduleInv, InOnePlace
<1>3. IsFiniteSet(Outstanding)
  <2>1. IsFiniteSet(1..Len(message))
    BY <1>1, FS_Interval
  <2> QED
    BY <1>2, <2>1, FS_Subset
<1>4. \A r \in 1..Len(message) : message[r] \in Messages
  BY <1>1
<1>5. \A r \in Outstanding : LeftOf(message, r) \in Int
  BY <1>2, <1>4 DEF LeftOf, Messages
<1> QED
  BY <1>2, <1>3, <1>4, <1>5 DEF Weighed

\* The files of a set without one of its elements.
LEMMA FilesWithout ==
  ASSUME NEW m, NEW S, IsFiniteSet(S), NEW a \in S
  PROVE  /\ Cardinality(FilesIn(m, S)) = Cardinality(FilesIn(m, S \ {a})) + (IF m[a].kind = "file" THEN 1 ELSE 0)
         /\ Cardinality(FilesIn(m, S)) \in Nat /\ Cardinality(FilesIn(m, S \ {a})) \in Nat
<1>1. IsFiniteSet(FilesIn(m, S)) /\ IsFiniteSet(FilesIn(m, S \ {a}))
  BY FS_Subset DEF FilesIn
<1>2. Cardinality(FilesIn(m, S)) \in Nat /\ Cardinality(FilesIn(m, S \ {a})) \in Nat
  BY <1>1, FS_CardinalityType
<1>3. CASE m[a].kind = "file"
  <2>1. a \in FilesIn(m, S) /\ FilesIn(m, S \ {a}) = FilesIn(m, S) \ {a}
    BY <1>3 DEF FilesIn
  <2> QED
    <3>1. Cardinality(FilesIn(m, S) \ {a}) = Cardinality(FilesIn(m, S)) - 1
      BY <1>1, <2>1, FS_RemoveElement
    <3>2. Cardinality(FilesIn(m, S \ {a})) = Cardinality(FilesIn(m, S)) - 1
      BY <2>1, <3>1
    <3>3. (IF m[a].kind = "file" THEN 1 ELSE 0) = 1
      BY <1>3
    <3> QED
      BY <1>2, <3>2, <3>3
<1>4. CASE m[a].kind # "file"
  <2>1. FilesIn(m, S \ {a}) = FilesIn(m, S)
    BY <1>4 DEF FilesIn
  <2> QED
    BY <1>2, <1>4, <2>1
<1> QED
  BY <1>2, <1>3, <1>4

\* One more: what is left of the others is as before.
LEMMA OneMore ==
  ASSUME NEW m, NEW S, Weighed(m, S), NEW k, NEW a, a \notin S,
         \A r \in S : k[r] = m[r], LeftOf(k, a) \in Int
  PROVE  /\ SumLeft(k, S \cup {a}) = SumLeft(m, S) + LeftOf(k, a)
         /\ Cardinality(FilesIn(k, S \cup {a})) = Cardinality(FilesIn(m, S)) + (IF k[a].kind = "file" THEN 1 ELSE 0)
         /\ SumLeft(m, S) \in Int /\ Cardinality(FilesIn(m, S)) \in Nat
<1>1. PICK T : T = S \cup {a} /\ T \ {a} = S /\ a \in T
  <2>1. S \cup {a} = S \cup {a} /\ (S \cup {a}) \ {a} = S /\ a \in S \cup {a}
    OBVIOUS
  <2> QED
    BY <2>1
<1>2. \A r \in S : LeftOf(k, r) = LeftOf(m, r)
  BY DEF LeftOf
<1>3. IsFiniteSet(T)
  BY <1>1, FS_AddElement DEF Weighed
<1>4. Weighed(k, T)
  BY <1>1, <1>2, <1>3 DEF Weighed
<1>5. SumLeft(k, T) = SumLeft(k, S) + LeftOf(k, a)
  BY <1>1, <1>4, SumLeftSplit
<1>6. SumLeft(k, S) = SumLeft(m, S) /\ SumLeft(m, S) \in Int
  BY <1>2, SumLeftSame, SumLeftInt
<1>7. FilesIn(k, S) = FilesIn(m, S)
  BY DEF FilesIn
<1>8. /\ Cardinality(FilesIn(k, T)) = Cardinality(FilesIn(k, S)) + (IF k[a].kind = "file" THEN 1 ELSE 0)
      /\ Cardinality(FilesIn(k, S)) \in Nat
  <2>1. /\ Cardinality(FilesIn(k, T)) = Cardinality(FilesIn(k, T \ {a})) + (IF k[a].kind = "file" THEN 1 ELSE 0)
        /\ Cardinality(FilesIn(k, T \ {a})) \in Nat
    <3>1. IsFiniteSet(T) /\ a \in T
      BY <1>1, <1>3
    <3> QED
      BY ONLY <3>1, FilesWithout
  <2> QED
    BY ONLY <2>1, <1>1, Zenon
<1> QED
  BY <1>1, <1>5, <1>6, <1>7, <1>8

\* One changes: what is left of the others is as before.
LEMMA OneChanges ==
  ASSUME NEW m, NEW S, Weighed(m, S), NEW k, NEW a \in S,
         \A r \in S \ {a} : k[r] = m[r], k[a].kind = m[a].kind, LeftOf(k, a) \in Int
  PROVE  /\ SumLeft(k, S) = SumLeft(m, S) - LeftOf(m, a) + LeftOf(k, a)
         /\ Cardinality(FilesIn(k, S)) = Cardinality(FilesIn(m, S))
         /\ SumLeft(m, S) \in Int /\ Cardinality(FilesIn(m, S)) \in Nat /\ LeftOf(m, a) \in Int
<1>1. \A r \in S \ {a} : LeftOf(k, r) = LeftOf(m, r)
  BY DEF LeftOf
<1>2. Weighed(k, S) /\ IsFiniteSet(S)
  BY <1>1 DEF Weighed
<1>3. SumLeft(k, S) = SumLeft(k, S \ {a}) + LeftOf(k, a)
  BY <1>2, SumLeftSplit
<1>4. SumLeft(m, S) = SumLeft(m, S \ {a}) + LeftOf(m, a) /\ SumLeft(m, S \ {a}) \in Int /\ SumLeft(m, S) \in Int /\ LeftOf(m, a) \in Int
  BY SumLeftSplit
<1>5. SumLeft(k, S \ {a}) = SumLeft(m, S \ {a})
  <2>1. Weighed(m, S \ {a})
    BY WeighedSubset
  <2> QED
    BY <1>1, <2>1, SumLeftSame
<1>6. FilesIn(k, S) = FilesIn(m, S)
  BY DEF FilesIn
<1>7. Cardinality(FilesIn(m, S)) \in Nat
  BY <1>2, FilesWithout
<1> QED
  BY <1>3, <1>4, <1>5, <1>6, <1>7

\* One less: and what is left of the others is as before.
LEMMA OneLess ==
  ASSUME NEW m, NEW S, Weighed(m, S), NEW k, NEW a \in S, \A r \in S \ {a} : k[r] = m[r]
  PROVE  /\ SumLeft(k, S \ {a}) = SumLeft(m, S) - LeftOf(m, a)
         /\ Cardinality(FilesIn(k, S \ {a})) = Cardinality(FilesIn(m, S)) - (IF m[a].kind = "file" THEN 1 ELSE 0)
         /\ SumLeft(m, S) \in Int /\ Cardinality(FilesIn(m, S)) \in Nat /\ LeftOf(m, a) \in Int
<1>1. \A r \in S \ {a} : LeftOf(k, r) = LeftOf(m, r)
  BY DEF LeftOf
<1>2. Weighed(m, S \ {a}) /\ IsFiniteSet(S)
  BY WeighedSubset DEF Weighed
<1>3. SumLeft(k, S \ {a}) = SumLeft(m, S \ {a})
  BY <1>1, <1>2, SumLeftSame
<1>4. SumLeft(m, S) = SumLeft(m, S \ {a}) + LeftOf(m, a) /\ SumLeft(m, S \ {a}) \in Int /\ SumLeft(m, S) \in Int /\ LeftOf(m, a) \in Int
  BY SumLeftSplit
<1>5. FilesIn(k, S \ {a}) = FilesIn(m, S \ {a})
  BY DEF FilesIn
<1>6. /\ Cardinality(FilesIn(m, S)) = Cardinality(FilesIn(m, S \ {a})) + (IF m[a].kind = "file" THEN 1 ELSE 0)
      /\ Cardinality(FilesIn(m, S)) \in Nat /\ Cardinality(FilesIn(m, S \ {a})) \in Nat
  BY <1>2, FilesWithout
<1> QED
  BY <1>3, <1>4, <1>5, <1>6

\* A writer counts a new message, which is outstanding from now on.
LEMMA CountWriteStep == ASSUME ScheduleInv, NEW w \in Writers, CountWrite(w) PROVE ScheduleInv'
<1>1. /\ message \in Seq(Messages) /\ Len(message) \in Nat /\ counted \in [Writers -> Nat] /\ requests \in Seq(Nat) /\ current \in Nat
      /\ scheduledWriteBytes \in Int /\ scheduledWriteMessages \in Int /\ drift \in [bytes : Int, messages : Int]
  <2>1. message \in Seq(Messages)
    BY DEF ScheduleInv, CountersTypeOK
  <2> QED
    BY <2>1 DEF ScheduleInv, CountersTypeOK
<1>2. PICK kind \in {"buffer", "file"}, size \in 0..MaxSize :
        message' = Append(message, [kind |-> kind, size |-> size, left |-> size])
  BY DEF CountWrite, NewMessage
<1>3. size \in Nat
  BY CountersAssumption
<1>4. PICK new \in Messages : new = [kind |-> kind, size |-> size, left |-> size]
  BY <1>3 DEF Messages
<1>5. PICK n \in Nat : n = Len(message) + 1
  BY <1>1
<1>6. /\ message' \in Seq(Messages) /\ Len(message') = n /\ message'[n] = new /\ Last(message') = new
      /\ \A r \in 1..Len(message) : message'[r] = message[r]
  <2>1. message' = Append(message, new)
    BY <1>2, <1>4
  <2>2. message' \in Seq(Messages) /\ Len(message') = n /\ message'[n] = new
    BY <1>1, <1>5, <2>1
  <2> QED
    BY <1>1, <2>1, <2>2 DEF Last
<1>7. /\ phase = "open" /\ phase' = phase /\ counted[w] = 0 /\ counted' = [counted EXCEPT ![w] = n]
      /\ UNCHANGED <<requests, current, drift>>
      /\ scheduledWriteBytes' = IF kind = "buffer" THEN scheduledWriteBytes + size ELSE scheduledWriteBytes
      /\ scheduledWriteMessages' = IF kind = "buffer" THEN scheduledWriteMessages ELSE scheduledWriteMessages + 1
  <2>1. Last(message').kind = kind /\ Last(message').size = size
    BY <1>4, <1>6
  <2> QED
    BY <1>6, <2>1 DEF CountWrite, NewMessage, IncreaseScheduledWriteBytes, IncreaseScheduledWriteMessages
<1>8. /\ Outstanding \subseteq 1..Len(message) /\ Weighed(message, Outstanding)
  BY OutstandingWeighed
<1>9. n \notin 1..Len(message) /\ 1..Len(message) \subseteq 1..n /\ n # 0 /\ n \in 1..n
  BY <1>1, <1>5
<1>10. counted' \in [Writers -> Nat] /\ counted'[w] = n /\ \A u \in Writers : u # w => counted'[u] = counted[u]
  BY <1>1, <1>5, <1>7
<1>11. Outstanding' = Outstanding \cup {n}
  <2>1. \A x : x \in Outstanding <=>
          x # 0 /\ (x = current \/ (\E i \in 1..Len(requests) : requests[i] = x) \/ \E u \in Writers : counted[u] = x)
    BY <1>1, OutstandingIs
  <2>2. \A x : x \in Outstanding' <=>
          x # 0 /\ (x = current' \/ (\E i \in 1..Len(requests') : requests'[i] = x) \/ \E u \in Writers : counted'[u] = x)
    <3>1. DOMAIN requests = 1..Len(requests)
      BY <1>1
    <3> QED
      BY <1>7, <3>1 DEF Outstanding, ToSet
  <2>3. ASSUME NEW x PROVE x \in Outstanding' <=> x \in Outstanding \/ x = n
    <3>1. (\E u \in Writers : counted'[u] = x) => (x = n \/ \E u \in Writers : counted[u] = x)
      BY <1>10
    <3>2. x # 0 /\ (\E u \in Writers : counted[u] = x) => \E u \in Writers : counted'[u] = x
      BY <1>7, <1>10
    <3>3. \E u \in Writers : counted'[u] = n
      BY <1>10
    <3> QED
      BY <1>7, <1>9, <2>1, <2>2, <3>1, <3>2, <3>3
  <2> QED
    BY <2>3
<1>12. LeftOf(message', n) = (IF kind = "file" THEN 0 ELSE size) /\ message'[n].kind = kind
  BY <1>4, <1>6 DEF LeftOf
<1>13. /\ SumLeft(message', Outstanding') = SumLeft(message, Outstanding) + LeftOf(message', n)
       /\ Cardinality(FilesIn(message', Outstanding')) = Cardinality(FilesIn(message, Outstanding)) + (IF message'[n].kind = "file" THEN 1 ELSE 0)
       /\ SumLeft(message, Outstanding) \in Int /\ Cardinality(FilesIn(message, Outstanding)) \in Nat
  <2>1. n \notin Outstanding /\ LeftOf(message', n) \in Int /\ \A r \in Outstanding : message'[r] = message[r]
    BY <1>3, <1>6, <1>8, <1>9, <1>12
  <2>2. PICK k : k = message'
    OBVIOUS
  <2>3. PICK S : S = Outstanding
    OBVIOUS
  <2>4. Weighed(message, S) /\ n \notin S /\ LeftOf(k, n) \in Int /\ \A r \in S : k[r] = message[r]
    BY <1>8, <2>1, <2>2, <2>3
  <2>5. /\ SumLeft(k, S \cup {n}) = SumLeft(message, S) + LeftOf(k, n)
        /\ Cardinality(FilesIn(k, S \cup {n})) = Cardinality(FilesIn(message, S)) + (IF k[n].kind = "file" THEN 1 ELSE 0)
        /\ SumLeft(message, S) \in Int /\ Cardinality(FilesIn(message, S)) \in Nat
    BY <2>4, OneMore
  <2> QED
    BY <1>11, <2>2, <2>3, <2>5
<1>14. Scheduled'
  <2>1. /\ scheduledWriteBytes = drift.bytes + SumLeft(message, Outstanding)
        /\ scheduledWriteMessages = drift.messages + Cardinality(FilesIn(message, Outstanding))
    BY <1>7 DEF ScheduleInv, Scheduled
  <2>2. drift.bytes \in Int /\ drift.messages \in Int
    BY <1>1
  <2>3. phase' # "closed" /\ drift' = drift
    BY <1>7
  <2>4. CASE kind = "buffer"
    <3>1. scheduledWriteBytes' = scheduledWriteBytes + size /\ scheduledWriteMessages' = scheduledWriteMessages
          /\ SumLeft(message', Outstanding') = SumLeft(message, Outstanding) + size
          /\ Cardinality(FilesIn(message', Outstanding')) = Cardinality(FilesIn(message, Outstanding)) + 0
      BY <1>7, <1>12, <1>13, <2>4
    <3> QED
      BY <1>3, <1>13, <2>1, <2>2, <2>3, <3>1 DEF Scheduled
  <2>5. CASE kind = "file"
    <3>1. scheduledWriteBytes' = scheduledWriteBytes /\ scheduledWriteMessages' = scheduledWriteMessages + 1
          /\ SumLeft(message', Outstanding') = SumLeft(message, Outstanding) + 0
          /\ Cardinality(FilesIn(message', Outstanding')) = Cardinality(FilesIn(message, Outstanding)) + 1
      BY <1>7, <1>12, <1>13, <2>5
    <3> QED
      BY <1>13, <2>1, <2>2, <2>3, <3>1 DEF Scheduled
  <2> QED
    BY <1>2, <2>4, <2>5
<1>15. InOnePlace'
  <2>1. InOnePlace
    BY DEF ScheduleInv
  <2>2. \A i \in 1..Len(requests) : requests[i] # n
    BY <1>9, <2>1 DEF InOnePlace
  <2>3. current # n
    BY <1>9, <2>1 DEF InOnePlace
  <2>4. \A u \in Writers : counted[u] # n
    BY <1>9, <2>1 DEF InOnePlace
  <2>5. ASSUME NEW v \in Writers, counted'[v] # 0
        PROVE  /\ counted'[v] \in 1..n /\ counted'[v] # current
               /\ \A i \in 1..Len(requests) : requests[i] # counted'[v]
               /\ \A u \in Writers : u # v => counted'[u] # counted'[v]
    <3>1. CASE v = w
      BY <1>9, <1>10, <2>2, <2>3, <2>4, <3>1
    <3>2. CASE v # w
      <4>1. counted'[v] = counted[v] /\ counted[v] # n
        BY <1>10, <2>4, <3>2
      <4>2. /\ counted[v] \in 1..Len(message) /\ counted[v] # current
            /\ \A i \in 1..Len(requests) : requests[i] # counted[v]
            /\ \A u \in Writers : u # v => counted[u] # counted[v]
        BY <2>1, <2>5, <4>1 DEF InOnePlace
      <4>3. \A u \in Writers : u # v => counted'[u] # counted'[v]
        BY <1>10, <4>1, <4>2
      <4> QED
        BY <1>9, <4>1, <4>2, <4>3
    <3> QED
      BY <3>1, <3>2
  <2> QED
    BY <1>6, <1>7, <1>9, <2>1, <2>5 DEF InOnePlace
<1>16. CountersTypeOK'
  <2>1. scheduledWriteBytes' \in Int /\ scheduledWriteMessages' \in Int
    BY <1>1, <1>3, <1>7
  <2> QED
    BY <1>1, <1>6, <1>7, <1>10, <2>1 DEF CountersTypeOK
<1> QED
  BY <1>14, <1>15, <1>16 DEF ScheduleInv

\* A step that moves requests from place to place.
LEMMA MovedStep ==
  ASSUME ScheduleInv, requests' \in Seq(Nat), current' \in Nat, counted' \in [Writers -> Nat],
         UNCHANGED <<message, scheduledWriteBytes, scheduledWriteMessages, drift, phase>>,
         Outstanding' = Outstanding, InOnePlace'
  PROVE  ScheduleInv'
<1>1. CountersTypeOK'
  BY DEF ScheduleInv, CountersTypeOK
<1>2. Scheduled'
  BY DEF ScheduleInv, Scheduled
<1> QED
  BY <1>1, <1>2 DEF ScheduleInv

\* A writer queues what it has counted.
LEMMA OfferWriteStep == ASSUME ScheduleInv, NEW w \in Writers, OfferWrite(w) PROVE ScheduleInv'
<1>1. /\ counted \in [Writers -> Nat] /\ requests \in Seq(Nat) /\ Len(requests) \in Nat /\ current \in Nat
  <2>1. requests \in Seq(Nat)
    BY DEF ScheduleInv, CountersTypeOK
  <2> QED
    BY <2>1 DEF ScheduleInv, CountersTypeOK
<1>2. PICK n \in Nat : n = counted[w]
  BY <1>1
<1>3. /\ n # 0 /\ requests' = Append(requests, n) /\ counted' = [counted EXCEPT ![w] = 0]
      /\ UNCHANGED <<message, current, scheduledWriteBytes, scheduledWriteMessages, drift, phase>>
  BY <1>2 DEF OfferWrite, scheduleVars
<1>4. /\ requests' \in Seq(Nat) /\ Len(requests') = Len(requests) + 1 /\ requests'[Len(requests) + 1] = n
      /\ \A i \in 1..Len(requests) : requests'[i] = requests[i]
      /\ \A i \in 1..Len(requests') : i \in 1..Len(requests) \/ i = Len(requests) + 1
      /\ 1..Len(requests) \subseteq 1..Len(requests') /\ Len(requests) + 1 \in 1..Len(requests')
  BY <1>1, <1>3
<1>5. counted' \in [Writers -> Nat] /\ counted'[w] = 0 /\ \A u \in Writers : u # w => counted'[u] = counted[u]
  BY <1>1, <1>3
<1>6. /\ n \in 1..Len(message) /\ n # current /\ \A i \in 1..Len(requests) : requests[i] # n
      /\ \A u \in Writers : u # w => counted[u] # n
  BY <1>2, <1>3 DEF ScheduleInv, InOnePlace
<1>7. Outstanding' = Outstanding
  <2>1. \A x : x \in Outstanding <=>
          x # 0 /\ (x = current \/ (\E i \in 1..Len(requests) : requests[i] = x) \/ \E u \in Writers : counted[u] = x)
    BY <1>1, OutstandingIs
  <2>2. \A x : x \in Outstanding' <=>
          x # 0 /\ (x = current' \/ (\E i \in 1..Len(requests') : requests'[i] = x) \/ \E u \in Writers : counted'[u] = x)
    <3>1. DOMAIN requests' = 1..Len(requests')
      BY <1>4
    <3> QED
      BY <3>1 DEF Outstanding, ToSet
  <2>3. ASSUME NEW x PROVE x \in Outstanding' <=> x \in Outstanding
    <3>1. (\E i \in 1..Len(requests') : requests'[i] = x) <=> (x = n \/ \E i \in 1..Len(requests) : requests[i] = x)
      BY <1>4
    <3>2. x # 0 => ((\E u \in Writers : counted[u] = x) <=> (x = n \/ \E u \in Writers : counted'[u] = x))
      BY <1>2, <1>5
    <3> QED
      BY <1>3, <2>1, <2>2, <3>1, <3>2
  <2> QED
    BY <2>3
<1>8. InOnePlace'
  <2>1. InOnePlace
    BY DEF ScheduleInv
  <2>2. \A i \in 1..Len(requests') : requests'[i] \in 1..Len(message) /\ requests'[i] # current
    <3> TAKE i \in 1..Len(requests')
    <3>1. CASE i \in 1..Len(requests)
      <4>1. requests'[i] = requests[i] /\ requests[i] \in 1..Len(message)
        BY <1>4, <2>1, <3>1 DEF InOnePlace
      <4>2. current # 0 => requests[i] # current
        BY <2>1, <3>1 DEF InOnePlace
      <4>3. current = 0 => requests[i] # current
        BY <4>1
      <4> QED
        BY <4>1, <4>2, <4>3
    <3>2. CASE i = Len(requests) + 1
      BY <1>4, <1>6, <3>2
    <3> QED
      BY <1>4, <3>1, <3>2
  <2>3. ASSUME NEW i \in 1..Len(requests'), NEW j \in 1..Len(requests'), i # j PROVE requests'[i] # requests'[j]
    <3>1. CASE i \in 1..Len(requests) /\ j \in 1..Len(requests)
      BY <1>4, <2>1, <2>3, <3>1 DEF InOnePlace
    <3>2. CASE i \in 1..Len(requests) /\ j = Len(requests) + 1
      BY <1>4, <1>6, <3>2
    <3>3. CASE i = Len(requests) + 1 /\ j \in 1..Len(requests)
      BY <1>4, <1>6, <3>3
    <3> QED
      BY <1>4, <2>3, <3>1, <3>2, <3>3
  <2>4. ASSUME NEW v \in Writers, counted'[v] # 0
        PROVE  /\ counted'[v] \in 1..Len(message) /\ counted'[v] # current
               /\ \A i \in 1..Len(requests') : requests'[i] # counted'[v]
               /\ \A u \in Writers : u # v => counted'[u] # counted'[v]
    <3>1. v # w /\ counted'[v] = counted[v]
      BY <1>5, <2>4
    <3>2. /\ counted[v] \in 1..Len(message) /\ counted[v] # current
          /\ \A i \in 1..Len(requests) : requests[i] # counted[v]
          /\ \A u \in Writers : u # v => counted[u] # counted[v]
      BY <2>1, <2>4, <3>1 DEF InOnePlace
    <3>3. \A i \in 1..Len(requests') : requests'[i] # counted[v]
      BY <1>4, <1>6, <3>1, <3>2
    <3>4. \A u \in Writers : u # v => counted'[u] # counted[v]
      BY <1>5, <2>4, <3>1, <3>2
    <3> QED
      BY <3>1, <3>2, <3>3, <3>4
  <2>5. current # 0 => current \in 1..Len(message)
    BY <2>1 DEF InOnePlace
  <2> QED
    BY <1>3, <2>2, <2>3, <2>4, <2>5 DEF InOnePlace
<1> QED
  BY <1>1, <1>3, <1>4, <1>5, <1>7, <1>8, MovedStep

\* The processor takes the first request for the current one.
LEMMA TakeRequestStep == ASSUME ScheduleInv, TakeRequest PROVE ScheduleInv'
<1>1. /\ counted \in [Writers -> Nat] /\ requests \in Seq(Nat) /\ Len(requests) \in Nat
  <2>1. requests \in Seq(Nat)
    BY DEF ScheduleInv, CountersTypeOK
  <2> QED
    BY <2>1 DEF ScheduleInv, CountersTypeOK
<1>2. /\ current = 0 /\ requests # <<>> /\ current' = Head(requests) /\ requests' = Tail(requests)
      /\ UNCHANGED <<message, counted, scheduledWriteBytes, scheduledWriteMessages, drift, phase>>
  BY DEF TakeRequest, scheduleVars
<1>3. PICK n \in Nat : n = current' /\ n = requests[1] /\ 1 \in 1..Len(requests)
  BY <1>1, <1>2
<1>4. /\ requests' \in Seq(Nat) /\ Len(requests') = Len(requests) - 1 /\ Len(requests) >= 1 /\ Len(requests') \in Nat
      /\ \A i \in 1..Len(requests') : requests'[i] = requests[i + 1] /\ i + 1 \in 1..Len(requests) /\ i + 1 # 1
  BY <1>1, <1>2
<1>5. \A i \in 1..Len(requests) : i # 1 => i - 1 \in 1..Len(requests') /\ requests'[i - 1] = requests[i]
  <2> TAKE i \in 1..Len(requests)
  <2>1. i # 1 => i - 1 \in 1..Len(requests') /\ (i - 1) + 1 = i
    BY <1>1, <1>4
  <2> QED
    BY <1>4, <2>1
<1>6. InOnePlace
  BY DEF ScheduleInv
<1>7. n \in 1..Len(message) /\ n # 0 /\ \A i \in 1..Len(requests) : i # 1 => requests[i] # n
  <2>1. n \in 1..Len(message) /\ \A i \in 1..Len(requests) : i # 1 => requests[i] # n
    BY <1>3, <1>6 DEF InOnePlace
  <2> QED
    BY <2>1
<1>8. Outstanding' = Outstanding
  <2>1. \A x : x \in Outstanding <=>
          x # 0 /\ (x = current \/ (\E i \in 1..Len(requests) : requests[i] = x) \/ \E u \in Writers : counted[u] = x)
    BY <1>1, OutstandingIs
  <2>2. \A x : x \in Outstanding' <=>
          x # 0 /\ (x = current' \/ (\E i \in 1..Len(requests') : requests'[i] = x) \/ \E u \in Writers : counted'[u] = x)
    <3>1. DOMAIN requests' = 1..Len(requests')
      BY <1>4
    <3> QED
      BY <3>1 DEF Outstanding, ToSet
  <2>3. ASSUME NEW x PROVE x \in Outstanding' <=> x \in Outstanding
    <3>1. (\E i \in 1..Len(requests) : requests[i] = x) <=> (x = n \/ \E i \in 1..Len(requests') : requests'[i] = x)
      <4>1. ASSUME NEW i \in 1..Len(requests), requests[i] = x, x # n
            PROVE  \E j \in 1..Len(requests') : requests'[j] = x
        <5>1. i # 1
          BY <1>3, <4>1
        <5> QED
          BY <1>5, <4>1, <5>1
      <4>2. ASSUME NEW i \in 1..Len(requests'), requests'[i] = x
            PROVE  \E j \in 1..Len(requests) : requests[j] = x
        BY <1>4, <4>2
      <4>3. x = n => \E j \in 1..Len(requests) : requests[j] = x
        <5>1. 1 \in 1..Len(requests)
          BY <1>1, <1>4
        <5> QED
          BY <1>3, <5>1
      <4> QED
        BY <4>1, <4>2, <4>3
    <3> QED
      BY <1>2, <1>3, <2>1, <2>2, <3>1
  <2> QED
    BY <2>3
<1>9. InOnePlace'
  <2>1. \A i \in 1..Len(requests') : requests'[i] \in 1..Len(message) /\ requests'[i] # n
    BY <1>4, <1>6, <1>7 DEF InOnePlace
  <2>2. ASSUME NEW i \in 1..Len(requests'), NEW j \in 1..Len(requests'), i # j PROVE requests'[i] # requests'[j]
    <3>1. i + 1 # j + 1
      BY <1>4, <2>2
    <3> QED
      BY <1>4, <1>6, <3>1 DEF InOnePlace
  <2>3. ASSUME NEW v \in Writers, counted[v] # 0
        PROVE  /\ counted[v] \in 1..Len(message) /\ counted[v] # n
               /\ \A i \in 1..Len(requests') : requests'[i] # counted[v]
               /\ \A u \in Writers : u # v => counted[u] # counted[v]
    <3>1. /\ counted[v] \in 1..Len(message) /\ \A i \in 1..Len(requests) : requests[i] # counted[v]
          /\ \A u \in Writers : u # v => counted[u] # counted[v]
      BY <1>6, <2>3 DEF InOnePlace
    <3> QED
      BY <1>3, <1>4, <3>1
  <2> QED
    BY <1>2, <1>3, <1>7, <2>1, <2>2, <2>3 DEF InOnePlace
<1> QED
  BY <1>1, <1>2, <1>3, <1>4, <1>8, <1>9, MovedStep

\* The types of the counters and of what they count.
LEMMA ScheduleTypes ==
  ASSUME ScheduleInv
  PROVE  /\ message \in Seq(Messages) /\ Len(message) \in Nat /\ counted \in [Writers -> Nat]
         /\ requests \in Seq(Nat) /\ Len(requests) \in Nat /\ current \in Nat
         /\ scheduledWriteBytes \in Int /\ scheduledWriteMessages \in Int
         /\ drift \in [bytes : Int, messages : Int] /\ drift.bytes \in Int /\ drift.messages \in Int
<1>1. message \in Seq(Messages) /\ requests \in Seq(Nat) /\ drift \in [bytes : Int, messages : Int]
  BY DEF ScheduleInv, CountersTypeOK
<1>2. Len(message) \in Nat /\ Len(requests) \in Nat /\ drift.bytes \in Int /\ drift.messages \in Int
  BY <1>1
<1> QED
  BY <1>1, <1>2 DEF ScheduleInv, CountersTypeOK

\* The current request is an outstanding message.
LEMMA CurrentIs ==
  ASSUME ScheduleInv, current # 0
  PROVE  /\ current \in Outstanding /\ current \in 1..Len(message) /\ message[current] \in Messages
         /\ message[current].left \in Nat /\ message[current].size \in Nat /\ message[current].kind \in {"buffer", "file"}
         /\ (IsFile(current) <=> message[current].kind = "file")
         /\ LeftOf(message, current) = BytesOf(current)
         /\ BytesOf(current) = (IF IsFile(current) THEN 0 ELSE message[current].left)
<1>1. current \in Outstanding
  BY DEF Outstanding
<1>2. current \in 1..Len(message) /\ message[current] \in Messages
  BY <1>1, OutstandingWeighed
<1> QED
  BY <1>1, <1>2 DEF Messages, IsFile, LeftOf, BytesOf

\* A current request that is dropped is no longer outstanding.
LEMMA CurrentDropped ==
  ASSUME ScheduleInv, current # 0, current' = 0, UNCHANGED <<requests, counted>>, Len(message') = Len(message)
  PROVE  Outstanding' = Outstanding \ {current} /\ InOnePlace'
<1>1. requests \in Seq(Nat)
  BY ScheduleTypes
<1>2. \A x : x \in Outstanding <=>
        x # 0 /\ (x = current \/ (\E i \in 1..Len(requests) : requests[i] = x) \/ \E u \in Writers : counted[u] = x)
  BY <1>1, OutstandingIs
<1>3. \A x : x \in Outstanding' <=>
        x # 0 /\ (x = current' \/ (\E i \in 1..Len(requests) : requests[i] = x) \/ \E u \in Writers : counted[u] = x)
  <2>1. DOMAIN requests = 1..Len(requests)
    BY <1>1
  <2> QED
    BY <2>1 DEF Outstanding, ToSet
<1>4. InOnePlace
  BY DEF ScheduleInv
<1>5. (\A i \in 1..Len(requests) : requests[i] # current) /\ \A u \in Writers : counted[u] # current
  <2>1. \A i \in 1..Len(requests) : requests[i] # current
    BY <1>4 DEF InOnePlace
  <2>2. \A u \in Writers : counted[u] # current
    BY <1>4 DEF InOnePlace
  <2> QED
    BY <2>1, <2>2
<1>6. ASSUME NEW x PROVE x \in Outstanding' <=> x \in Outstanding /\ x # current
  BY <1>2, <1>3, <1>5
<1>7. Outstanding' = Outstanding \ {current}
  BY <1>6
<1>8. InOnePlace'
  BY <1>4 DEF InOnePlace
<1> QED
  BY <1>7, <1>8

\* A message has been sent, with the n bytes that were left of it.
LEMMA SentStep ==
  ASSUME ScheduleInv, phase # "closed", phase' = phase, current # 0, CountSent,
         NEW n, n = message[current].left, scheduledWriteBytes' = scheduledWriteBytes - n,
         message' \in Seq(Messages), Len(message') = Len(message),
         \A r \in 1..Len(message) : r # current => message'[r] = message[r],
         UNCHANGED <<counted, requests>>
  PROVE  ScheduleInv'
<1> DEFINE emptied == ~IsFile(current) /\ message[current].size = 0
<1>1. /\ scheduledWriteMessages' = scheduledWriteMessages - (IF IsFile(current) \/ emptied THEN 1 ELSE 0)
      /\ drift' = [drift EXCEPT !.messages = @ - (IF emptied THEN 1 ELSE 0), !.bytes = @ - (message[current].left - BytesOf(current))]
      /\ current' = 0
  BY DEF CountSent
<1>2. /\ current \in Outstanding /\ n \in Nat /\ LeftOf(message, current) = BytesOf(current) /\ BytesOf(current) \in Int
      /\ BytesOf(current) = (IF IsFile(current) THEN 0 ELSE n) /\ (IsFile(current) <=> message[current].kind = "file")
  BY CurrentIs
<1>3. Outstanding' = Outstanding \ {current} /\ InOnePlace'
  BY <1>1, CurrentDropped
<1>4. PICK e \in {0, 1} : e = IF emptied THEN 1 ELSE 0
  OBVIOUS
<1>5. PICK f \in {0, 1} : f = IF IsFile(current) THEN 1 ELSE 0
  OBVIOUS
<1>6. /\ scheduledWriteMessages' = scheduledWriteMessages - (f + e)
      /\ drift' \in [bytes : Int, messages : Int]
      /\ drift'.messages = drift.messages - e /\ drift'.bytes = drift.bytes - (n - BytesOf(current))
  <2>1. (IF IsFile(current) \/ emptied THEN 1 ELSE 0) = f + e
    BY <1>4, <1>5
  <2>2. drift' = [drift EXCEPT !.messages = @ - e, !.bytes = @ - (n - BytesOf(current))]
    BY <1>1, <1>4
  <2>3. e \in Int /\ n - BytesOf(current) \in Int
    BY <1>2
  <2>4. drift \in [bytes : Int, messages : Int]
    BY ScheduleTypes
  <2>5. /\ drift' \in [bytes : Int, messages : Int]
        /\ drift'.messages = drift.messages - e /\ drift'.bytes = drift.bytes - (n - BytesOf(current))
    <3>1. PICK x \in Int, y \in Int : x = drift.messages - e /\ y = drift.bytes - (n - BytesOf(current))
      BY <2>3, <2>4
    <3>2. drift' = [drift EXCEPT !.messages = x, !.bytes = y]
      BY <2>2, <3>1
    <3>3. drift' \in [bytes : Int, messages : Int] /\ drift'.messages = x /\ drift'.bytes = y
      BY <2>4, <3>2
    <3> QED
      BY <3>1, <3>3
  <2> QED
    BY <1>1, <2>1, <2>5
<1> HIDE DEF emptied
<1>7. /\ SumLeft(message', Outstanding') = SumLeft(message, Outstanding) - BytesOf(current)
      /\ Cardinality(FilesIn(message', Outstanding')) = Cardinality(FilesIn(message, Outstanding)) - f
      /\ SumLeft(message, Outstanding) \in Int /\ Cardinality(FilesIn(message, Outstanding)) \in Nat
  <2>1. PICK k : k = message'
    OBVIOUS
  <2>2. PICK S : S = Outstanding
    OBVIOUS
  <2>3. PICK a : a = current
    OBVIOUS
  <2>4. Weighed(message, S) /\ a \in S /\ \A r \in S \ {a} : k[r] = message[r]
    BY <1>2, <2>1, <2>2, <2>3, OutstandingWeighed
  <2>5. /\ SumLeft(k, S \ {a}) = SumLeft(message, S) - LeftOf(message, a)
        /\ Cardinality(FilesIn(k, S \ {a})) = Cardinality(FilesIn(message, S)) - (IF message[a].kind = "file" THEN 1 ELSE 0)
        /\ SumLeft(message, S) \in Int /\ Cardinality(FilesIn(message, S)) \in Nat
    BY ZenonT(30), <2>4, OneLess
  <2>6. (IF message[a].kind = "file" THEN 1 ELSE 0) = f /\ LeftOf(message, a) = BytesOf(current)
    BY <1>2, <1>5, <2>3
  <2> QED
    BY <1>3, <2>1, <2>2, <2>3, <2>5, <2>6
<1>8. /\ scheduledWriteBytes = drift.bytes + SumLeft(message, Outstanding)
      /\ scheduledWriteMessages = drift.messages + Cardinality(FilesIn(message, Outstanding))
  BY DEF ScheduleInv, Scheduled
<1>9. /\ scheduledWriteBytes \in Int /\ scheduledWriteMessages \in Int /\ drift.bytes \in Int /\ drift.messages \in Int
      /\ counted \in [Writers -> Nat] /\ requests \in Seq(Nat)
  BY ScheduleTypes
<1>10. scheduledWriteBytes' = drift'.bytes + SumLeft(message', Outstanding')
  <2>1. drift'.bytes = drift.bytes - (n - BytesOf(current)) /\ SumLeft(message', Outstanding') = SumLeft(message, Outstanding) - BytesOf(current)
    BY <1>6, <1>7
  <2>2. BytesOf(current) \in Int /\ n \in Int /\ SumLeft(message, Outstanding) \in Int
    BY <1>2, <1>7
  <2> QED
    <3>1. PICK b \in Int, t \in Int, l \in Int : b = drift.bytes /\ t = SumLeft(message, Outstanding) /\ l = BytesOf(current)
      BY <1>9, <2>2
    <3>2. scheduledWriteBytes' = (b + t) - n /\ drift'.bytes = b - (n - l) /\ SumLeft(message', Outstanding') = t - l
      BY <1>8, <2>1, <3>1
    <3> QED
      BY <2>2, <3>2
<1>11. scheduledWriteMessages' = drift'.messages + Cardinality(FilesIn(message', Outstanding'))
  <2>1. PICK b \in Int, t \in Int : b = drift.messages /\ t = Cardinality(FilesIn(message, Outstanding))
    BY <1>7, <1>9
  <2>2. /\ scheduledWriteMessages' = (b + t) - (f + e) /\ drift'.messages = b - e
        /\ Cardinality(FilesIn(message', Outstanding')) = t - f
    BY <1>6, <1>7, <1>8, <2>1
  <2> QED
    BY <2>2
<1>12. Scheduled'
  BY <1>10, <1>11 DEF Scheduled
<1>13. CountersTypeOK'
  <2>1. scheduledWriteBytes' \in Int /\ scheduledWriteMessages' \in Int
    BY <1>2, <1>6, <1>9
  <2> QED
    BY <1>1, <1>6, <1>9, <2>1 DEF CountersTypeOK
<1> QED
  BY <1>3, <1>12, <1>13 DEF ScheduleInv

\* n bytes of the current message are on their way, and not all.
LEMMA PartlyStep ==
  ASSUME ScheduleInv, phase # "closed", phase' = phase, current # 0, current' = current, UNCHANGED <<counted, requests>>,
         NEW n \in Nat, n <= message[current].left, message' = [message EXCEPT ![current].left = @ - n],
         scheduledWriteBytes' = scheduledWriteBytes - n, scheduledWriteMessages' = scheduledWriteMessages,
         drift' = IF IsFile(current) THEN [drift EXCEPT !.bytes = @ - n] ELSE drift
  PROVE  ScheduleInv'
<1>1. /\ message \in Seq(Messages) /\ Len(message) \in Nat /\ current \in 1..Len(message) /\ message[current] \in Messages
      /\ current \in Outstanding /\ message[current].left \in Nat
      /\ (IsFile(current) <=> message[current].kind = "file")
  BY CurrentIs, ScheduleTypes
<1>2. PICK new \in Messages : /\ new = [message[current] EXCEPT !.left = message[current].left - n]
                              /\ new.kind = message[current].kind /\ new.left = message[current].left - n
  <2>1. message[current].left - n \in Nat
    BY <1>1
  <2>2. [message[current] EXCEPT !.left = message[current].left - n] \in Messages
    BY <1>1, <2>1 DEF Messages
  <2>3. [message[current] EXCEPT !.left = message[current].left - n].kind = message[current].kind
        /\ [message[current] EXCEPT !.left = message[current].left - n].left = message[current].left - n
    BY <1>1 DEF Messages
  <2> QED
    BY <2>2, <2>3
<1>3. /\ message' \in Seq(Messages) /\ Len(message') = Len(message) /\ message'[current] = new
      /\ \A r \in 1..Len(message) : r # current => message'[r] = message[r]
  <2>1. message' = [message EXCEPT ![current] = new]
    BY <1>2
  <2> QED
    BY <1>1, <2>1
<1>4. Outstanding' = Outstanding /\ InOnePlace'
  BY <1>3 DEF ScheduleInv, InOnePlace, Outstanding
<1>5. PICK f \in Nat : f = IF IsFile(current) THEN n ELSE 0
  OBVIOUS
<1>6. LeftOf(message', current) = LeftOf(message, current) - (n - f) /\ LeftOf(message, current) \in Int
  <2>1. CASE IsFile(current)
    BY <1>1, <1>2, <1>3, <1>5, <2>1 DEF LeftOf
  <2>2. CASE ~IsFile(current)
    BY <1>1, <1>2, <1>3, <1>5, <2>2 DEF LeftOf
  <2> QED
    BY <2>1, <2>2
<1>7. /\ SumLeft(message', Outstanding) = SumLeft(message, Outstanding) - (n - f)
      /\ Cardinality(FilesIn(message', Outstanding)) = Cardinality(FilesIn(message, Outstanding))
      /\ SumLeft(message, Outstanding) \in Int
  <2>1. PICK k : k = message'
    OBVIOUS
  <2>2. PICK S : S = Outstanding
    OBVIOUS
  <2>3. PICK a : a = current
    OBVIOUS
  <2>4. /\ Weighed(message, S) /\ a \in S /\ \A r \in S \ {a} : k[r] = message[r]
        /\ k[a].kind = message[a].kind /\ LeftOf(k, a) \in Int
    BY <1>1, <1>2, <1>3, <1>6, <2>1, <2>2, <2>3, OutstandingWeighed
  <2>5. /\ SumLeft(k, S) = SumLeft(message, S) - LeftOf(message, a) + LeftOf(k, a)
        /\ Cardinality(FilesIn(k, S)) = Cardinality(FilesIn(message, S))
        /\ SumLeft(message, S) \in Int /\ LeftOf(message, a) \in Int
    BY <2>4, OneChanges
  <2>6. LeftOf(k, a) = LeftOf(message, a) - (n - f)
    BY <1>6, <2>1, <2>3
  <2>7. SumLeft(k, S) = SumLeft(message, S) - (n - f)
    BY <2>5, <2>6
  <2> QED
    BY <2>1, <2>2, <2>5, <2>7
<1>8. /\ scheduledWriteBytes = drift.bytes + SumLeft(message, Outstanding)
      /\ scheduledWriteMessages = drift.messages + Cardinality(FilesIn(message, Outstanding))
  BY DEF ScheduleInv, Scheduled
<1>9. drift' \in [bytes : Int, messages : Int] /\ drift'.bytes = drift.bytes - f /\ drift'.messages = drift.messages
  <2>1. drift \in [bytes : Int, messages : Int] /\ drift.bytes \in Int
    BY ScheduleTypes
  <2>2. CASE IsFile(current)
    BY <1>5, <2>1, <2>2
  <2>3. CASE ~IsFile(current)
    BY <1>5, <2>1, <2>3
  <2> QED
    BY <2>2, <2>3
<1>10. scheduledWriteBytes \in Int /\ scheduledWriteMessages \in Int /\ drift.bytes \in Int
  BY ScheduleTypes
<1>11. scheduledWriteBytes' = drift'.bytes + SumLeft(message', Outstanding')
  <2>1. drift'.bytes = drift.bytes - f /\ SumLeft(message', Outstanding') = SumLeft(message, Outstanding) - (n - f)
    BY <1>4, <1>7, <1>9
  <2> QED
    BY <1>7, <1>8, <1>10, <2>1
<1>12. Scheduled'
  BY <1>4, <1>7, <1>8, <1>9, <1>11 DEF Scheduled
<1>13. CountersTypeOK'
  BY <1>3, <1>9, <1>10, ScheduleTypes DEF CountersTypeOK
<1> QED
  BY <1>4, <1>12, <1>13 DEF ScheduleInv

\* The processor sends some or all of the current request.
LEMMA SendStep == ASSUME ScheduleInv, WriteBytes \/ WriteRegion \/ SendEmpty PROVE ScheduleInv'
<1>1. current # 0 /\ phase # "closed" /\ phase' = phase /\ UNCHANGED <<counted, requests>>
  BY DEF WriteBytes, WriteRegion, SendEmpty, CountSentBytes
<1>2. /\ message[current].left \in Nat /\ message \in Seq(Messages) /\ Len(message) \in Nat /\ scheduledWriteBytes \in Int
      /\ current \in 1..Len(message) /\ message[current] \in Messages
  BY <1>1, CurrentIs, ScheduleTypes
<1>3. CASE SendEmpty
  <2>1. CountSent /\ message[current].left = 0 /\ message' = message /\ scheduledWriteBytes' = scheduledWriteBytes
    BY <1>3 DEF SendEmpty
  <2>2. scheduledWriteBytes' = scheduledWriteBytes - message[current].left
    BY <1>2, <2>1
  <2> QED
    BY <1>1, <1>2, <2>1, <2>2, SentStep
<1>4. ASSUME NEW n \in 1..message[current].left, CountSentBytes(n) PROVE
        /\ n \in Nat /\ n <= message[current].left
        /\ message' = [message EXCEPT ![current].left = @ - n] /\ scheduledWriteBytes' = scheduledWriteBytes - n
        /\ message' \in Seq(Messages) /\ Len(message') = Len(message)
        /\ \A r \in 1..Len(message) : r # current => message'[r] = message[r]
  <2>1. n \in Nat /\ n <= message[current].left
    BY <1>2
  <2>2. message' = [message EXCEPT ![current].left = @ - n] /\ scheduledWriteBytes' = scheduledWriteBytes + (-n)
    BY <1>4 DEF CountSentBytes, IncreaseScheduledWriteBytes
  <2>3. scheduledWriteBytes' = scheduledWriteBytes - n
    BY <1>2, <2>1, <2>2
  <2>4. PICK new : new = [message[current] EXCEPT !.left = message[current].left - n]
    OBVIOUS
  <2>5. new \in Messages
    <3>1. message[current].left - n \in Nat
      BY <1>2, <2>1
    <3> QED
      BY <1>2, <2>4, <3>1 DEF Messages
  <2>6. message' = [message EXCEPT ![current] = new]
    BY <2>2, <2>4
  <2>7. /\ message' \in Seq(Messages) /\ Len(message') = Len(message)
        /\ \A r \in 1..Len(message) : r # current => message'[r] = message[r]
    BY <1>2, <2>5, <2>6
  <2> QED
    BY <2>1, <2>2, <2>3, <2>7
<1>5. CASE WriteBytes
  <2>1. PICK n \in 1..message[current].left :
          /\ CountSentBytes(n)
          /\ IF n = message[current].left THEN CountSent ELSE UNCHANGED <<current, scheduledWriteMessages, drift>>
    BY <1>5 DEF WriteBytes
  <2>2. ~IsFile(current)
    BY <1>5 DEF WriteBytes
  <2>3. CASE n = message[current].left
    BY <1>1, <1>4, <2>1, <2>3, SentStep
  <2>4. CASE n # message[current].left
    BY <1>1, <1>4, <2>1, <2>2, <2>4, PartlyStep
  <2> QED
    BY <2>3, <2>4
<1>6. CASE WriteRegion
  <2>1. PICK n \in 1..message[current].left :
          /\ CountSentBytes(n)
          /\ IF n = message[current].left THEN CountSent
             ELSE drift' = [drift EXCEPT !.bytes = @ - n] /\ UNCHANGED <<current, scheduledWriteMessages>>
    BY <1>6 DEF WriteRegion
  <2>2. IsFile(current)
    BY <1>6 DEF WriteRegion
  <2>3. CASE n = message[current].left
    BY <1>1, <1>4, <2>1, <2>3, SentStep
  <2>4. CASE n # message[current].left
    BY <1>1, <1>4, <2>1, <2>2, <2>4, PartlyStep
  <2> QED
    BY <2>3, <2>4
<1> QED
  BY <1>3, <1>5, <1>6

\* What a part of the outstanding requests adds up to.
LEMMA ApartCounted ==
  ASSUME ScheduleInv, NEW B, B \subseteq Outstanding
  PROVE  /\ SumLeft(message, Outstanding) = SumLeft(message, B) + SumLeft(message, Outstanding \ B)
         /\ SumLeft(message, B) \in Int /\ SumLeft(message, Outstanding \ B) \in Int
         /\ Cardinality(FilesIn(message, Outstanding \ B)) = Cardinality(FilesIn(message, Outstanding)) - Cardinality(FilesIn(message, B))
         /\ Cardinality(FilesIn(message, B)) \in Int /\ Cardinality(FilesIn(message, Outstanding)) \in Int
<1>1. PICK S : S = Outstanding
  OBVIOUS
<1>2. Weighed(message, S) /\ IsFiniteSet(S) /\ B \subseteq S
  BY <1>1, OutstandingWeighed
<1>3. SumLeft(message, S) = SumLeft(message, B) + SumLeft(message, S \ B)
  BY <1>2, SumLeftApart
<1>4. SumLeft(message, B) \in Int /\ SumLeft(message, S \ B) \in Int
  <2>1. Weighed(message, B) /\ Weighed(message, S \ B)
    BY <1>2, WeighedSubset
  <2> QED
    BY <2>1, SumLeftInt
<1>5. PICK F : F = FilesIn(message, S)
  OBVIOUS
<1>6. PICK G : G = FilesIn(message, B)
  OBVIOUS
<1>7. F \subseteq S /\ G \subseteq F /\ FilesIn(message, S \ B) = F \ G /\ F \cap G = G
  BY <1>2, <1>5, <1>6 DEF FilesIn
<1>8. IsFiniteSet(F) /\ IsFiniteSet(G)
  BY <1>2, <1>7, FS_Subset
<1>9. Cardinality(F \ G) = Cardinality(F) - Cardinality(F \cap G)
  BY <1>8, FS_Difference
<1>10. Cardinality(F) \in Nat /\ Cardinality(G) \in Nat
  BY <1>8, FS_CardinalityType
<1>11. Cardinality(FilesIn(message, S \ B)) = Cardinality(FilesIn(message, S)) - Cardinality(FilesIn(message, B))
  BY <1>5, <1>6, <1>7, <1>9
<1> QED
  BY <1>1, <1>3, <1>4, <1>5, <1>6, <1>10, <1>11

\* What is dropped while it is counted is in the drift.
LEMMA DroppedStep ==
  ASSUME ScheduleInv, NEW B, B \subseteq Outstanding, Outstanding' = Outstanding \ B, Dropped(B),
         phase # "closed", phase' # "closed", UNCHANGED <<message, scheduledWriteBytes, scheduledWriteMessages>>
  PROVE  Scheduled' /\ drift' \in [bytes : Int, messages : Int]
<1>1. drift' = [bytes |-> drift.bytes + SumLeft(message, B), messages |-> drift.messages + Cardinality(FilesIn(message, B))]
  <2>1. FoldSet(LAMBDA r, n : n + BytesOf(r), 0, B) = SumLeft(message, B)
    BY DEF SumLeft, LeftOf, BytesOf, IsFile, FoldSet, MapThenFoldSet
  <2>2. {r \in B : IsFile(r)} = FilesIn(message, B)
    BY DEF FilesIn, IsFile
  <2> QED
    BY <2>1, <2>2 DEF Dropped
<1>2. PICK b \in Int, t \in Int, u \in Int, d \in Int, c \in Int, g \in Int :
        /\ b = drift.bytes /\ t = SumLeft(message, B) /\ u = SumLeft(message, Outstanding \ B)
        /\ d = drift.messages /\ c = Cardinality(FilesIn(message, Outstanding)) /\ g = Cardinality(FilesIn(message, B))
  BY ApartCounted, ScheduleTypes
<1>3. SumLeft(message, Outstanding) = t + u /\ Cardinality(FilesIn(message, Outstanding \ B)) = c - g
  BY <1>2, ApartCounted
<1>4. scheduledWriteBytes = b + (t + u) /\ scheduledWriteMessages = d + c
  BY <1>2, <1>3 DEF ScheduleInv, Scheduled
<1>5. drift' = [bytes |-> b + t, messages |-> d + g]
  BY <1>1, <1>2
<1>6. drift'.bytes = b + t /\ drift'.messages = d + g /\ drift' \in [bytes : Int, messages : Int]
  BY <1>5
<1>7. scheduledWriteBytes' = drift'.bytes + SumLeft(message', Outstanding')
  <2>1. scheduledWriteBytes' = b + (t + u) /\ SumLeft(message', Outstanding') = u
    BY <1>2, <1>4
  <2> QED
    BY <1>6, <2>1
<1>8. scheduledWriteMessages' = drift'.messages + Cardinality(FilesIn(message', Outstanding'))
  <2>1. scheduledWriteMessages' = d + c /\ Cardinality(FilesIn(message', Outstanding')) = c - g
    BY <1>3, <1>4
  <2> QED
    BY <1>6, <2>1
<1> QED
  BY <1>6, <1>7, <1>8 DEF Scheduled

\* What closeNow() drains, and the current request where it is dropped as well.
LEMMA CloseNowStep ==
  ASSUME ScheduleInv, phase # "closed", CloseNow, UNCHANGED <<message, counted, scheduledWriteBytes, scheduledWriteMessages>>,
         NEW D, (D = {} /\ current' = current) \/ (D = {current} /\ current # 0 /\ current' = 0), Dropped(D \cup Drained)
  PROVE  ScheduleInv'
<1>1. InOnePlace /\ requests \in Seq(Nat) /\ current \in Nat
  BY ScheduleTypes DEF ScheduleInv
<1>2. PICK B : B = ToSet(requests)
  OBVIOUS
<1>3. PICK C : C = {counted[w] : w \in Writers}
  OBVIOUS
<1>4. \A x : x \in B <=> \E i \in 1..Len(requests) : requests[i] = x
  BY <1>1, <1>2 DEF ToSet
<1>5. Outstanding = (B \cup {current} \cup C) \ {0}
  BY <1>2, <1>3 DEF Outstanding
<1>6. (Drained = B /\ requests' = <<>>) \/ (Drained = {} /\ requests' = requests)
  BY <1>2 DEF Drained, CloseNow
<1>7. Outstanding' = (ToSet(requests') \cup {current'} \cup C) \ {0}
  BY <1>3 DEF Outstanding
<1>8. \A x \in B : x # 0 /\ x # current /\ x \notin C
  <2>1. ASSUME NEW x \in B PROVE x # 0 /\ x # current /\ x \notin C
    <3>1. PICK i \in 1..Len(requests) : requests[i] = x
      BY <1>4
    <3>2. x \in 1..Len(message)
      BY <1>1, <3>1 DEF InOnePlace
    <3>3. x # 0
      BY <3>2
    <3> QED
      BY <1>1, <1>3, <3>1, <3>3 DEF InOnePlace
  <2> QED
    BY <2>1
<1>9. current # 0 => current \notin B /\ current \notin C
  <2>1. current # 0 => current \notin C
    BY <1>1, <1>3 DEF InOnePlace
  <2> QED
    BY <1>8, <2>1
<1>10. D \cup Drained \subseteq Outstanding
  BY <1>5, <1>6, <1>8
<1>11. Outstanding' = Outstanding \ (D \cup Drained)
  <2>1. CASE Drained = B /\ requests' = <<>>
    <3>1. ToSet(requests') = {}
      BY <2>1 DEF ToSet
    <3>2. Outstanding' = ({current'} \cup C) \ {0}
      BY <1>7, <3>1
    <3> QED
      BY <1>5, <1>8, <1>9, <2>1, <3>2
  <2>2. CASE Drained = {} /\ requests' = requests
    <3>1. Outstanding' = (B \cup {current'} \cup C) \ {0}
      BY <1>2, <1>7, <2>2
    <3> QED
      BY <1>5, <1>8, <1>9, <2>2, <3>1
  <2> QED
    BY <1>6, <2>1, <2>2
<1>12. phase' # "closed"
  BY DEF CloseNow
<1>13. Scheduled' /\ drift' \in [bytes : Int, messages : Int]
  BY <1>10, <1>11, <1>12, DroppedStep
<1>14. InOnePlace'
  <2>1. CASE requests' = <<>>
    <3>1. Len(requests') = 0
      BY <2>1
    <3>2. current' = current \/ current' = 0
      OBVIOUS
    <3> QED
      BY <1>1, <3>1, <3>2 DEF InOnePlace
  <2>2. CASE requests' = requests
    <3>1. current' = current \/ current' = 0
      OBVIOUS
    <3> QED
      BY <1>1, <2>2, <3>1 DEF InOnePlace
  <2> QED
    BY <1>6, <2>1, <2>2
<1>15. CountersTypeOK'
  <2>1. requests' = <<>> \/ requests' = requests
    BY <1>6
  <2>2. requests \in Seq(Nat) /\ <<>> \in Seq(Nat)
    BY <1>1
  <2>3. requests' \in Seq(Nat)
    BY <2>1, <2>2, Zenon
  <2>4. current' = current \/ current' = 0
    OBVIOUS
  <2>5. current' \in Nat
    BY <1>1, <2>4
  <2> QED
    BY <1>13, <2>3, <2>5, ScheduleTypes DEF CountersTypeOK
<1> QED
  BY <1>13, <1>14, <1>15 DEF ScheduleInv

\* A request that timed out is dropped with what closeNow() drains, and the drift says so.
LEMMA NotifyStep == ASSUME ScheduleInv, NotifyIdle PROVE ScheduleInv'
<1>1. UNCHANGED <<message, counted, scheduledWriteBytes, scheduledWriteMessages>> /\ phase # "closed"
  BY DEF NotifyIdle, IsNotified, scheduleVars
<1>2. CASE ~WriteTimedOut
  <2>1. UNCHANGED <<current, drift, phase, requests>>
    BY <1>2 DEF NotifyIdle
  <2>2. Outstanding' = Outstanding /\ InOnePlace' /\ current' \in Nat
    BY <1>1, <2>1, ScheduleTypes DEF Outstanding, InOnePlace, ScheduleInv
  <2> QED
    BY <1>1, <2>1, <2>2, MovedStep, ScheduleTypes
<1>3. CASE WriteTimedOut
  <2>1. Dropped({current} \cup Drained) /\ current' = 0 /\ CloseNow /\ current # 0
    BY <1>3 DEF NotifyIdle, WriteTimedOut
  <2>2. PICK D : D = {current}
    OBVIOUS
  <2>3. Dropped(D \cup Drained) /\ ((D = {} /\ current' = current) \/ (D = {current} /\ current # 0 /\ current' = 0))
    BY <2>1, <2>2
  <2> QED
    BY <1>1, <2>1, <2>3, CloseNowStep
<1> QED
  BY <1>2, <1>3

\* closeNow() of a client leaves the current request alone.
LEMMA CloseSessionStep == ASSUME ScheduleInv, CloseSession PROVE ScheduleInv'
<1>1. /\ CloseNow /\ Dropped(Drained) /\ phase # "closed"
      /\ UNCHANGED <<message, counted, current, scheduledWriteBytes, scheduledWriteMessages>>
  BY DEF CloseSession, scheduleVars
<1>2. {} \cup Drained = Drained
  OBVIOUS
<1>3. PICK D : D = {}
  OBVIOUS
<1>4. D \cup Drained = Drained
  BY <1>2, <1>3
<1>5. Dropped(D \cup Drained)
  BY <1>1, <1>4
<1>6. (D = {} /\ current' = current) \/ (D = {current} /\ current # 0 /\ current' = 0)
  BY <1>1, <1>3
<1>7. UNCHANGED <<message, counted, scheduledWriteBytes, scheduledWriteMessages>>
  BY <1>1
<1> QED
  BY <1>1, <1>5, <1>6, <1>7, CloseNowStep

\* What is queued fails, and is taken off the counters.
LEMMA ClearQueueStep == ASSUME ScheduleInv, ClearQueue PROVE ScheduleInv'
<1>1. PICK B : B = ToSet(requests)
  OBVIOUS
<1>2. /\ phase # "closed" /\ phase' # "closed" /\ requests' = <<>> /\ UNCHANGED <<message, counted, current>>
      /\ scheduledWriteBytes' = scheduledWriteBytes - SumLeft(message, B)
      /\ scheduledWriteMessages' = scheduledWriteMessages - Cardinality(FilesIn(message, B)) - EmptyOnes(B)
      /\ drift' = [drift EXCEPT !.messages = @ - EmptyOnes(B)]
  <2>1. scheduledWriteBytes' = scheduledWriteBytes - FoldSet(LAMBDA r, n : n + BytesOf(r), 0, B)
    BY <1>1 DEF ClearQueue, DecreaseScheduled
  <2>2. scheduledWriteBytes' = scheduledWriteBytes - SumLeft(message, B)
    BY <2>1 DEF SumLeft, LeftOf, BytesOf, IsFile, FoldSet, MapThenFoldSet
  <2>3. scheduledWriteMessages' = scheduledWriteMessages - Cardinality(FilesIn(message, B)) - EmptyOnes(B)
    BY <1>1 DEF ClearQueue, DecreaseScheduled, FilesIn, IsFile
  <2> QED
    BY <1>1, <2>2, <2>3 DEF ClearQueue, DecreaseScheduled
<1>3. InOnePlace /\ requests \in Seq(Nat) /\ drift \in [bytes : Int, messages : Int]
  BY ScheduleTypes DEF ScheduleInv
<1>4. \A x : x \in B <=> \E i \in 1..Len(requests) : requests[i] = x
  BY <1>1, <1>3 DEF ToSet
<1>5. B \subseteq Outstanding /\ Outstanding' = Outstanding \ B
  <2>1. \A x : x \in Outstanding <=>
          x # 0 /\ (x = current \/ x \in B \/ \E w \in Writers : counted[w] = x)
    BY <1>3, <1>4, OutstandingIs
  <2>2. \A x : x \in Outstanding' <=> x # 0 /\ (x = current \/ \E w \in Writers : counted[w] = x)
    <3>1. ToSet(requests') = {}
      BY <1>2 DEF ToSet
    <3> QED
      BY <1>2, <3>1 DEF Outstanding
  <2>3. ASSUME NEW x \in B PROVE x # 0 /\ x # current /\ \A w \in Writers : counted[w] # x
    <3>1. PICK i \in 1..Len(requests) : requests[i] = x
      BY <1>4
    <3>2. x \in 1..Len(message)
      BY <1>3, <3>1 DEF InOnePlace
    <3>3. x # 0
      BY <3>2
    <3> QED
      BY <1>3, <3>1, <3>3 DEF InOnePlace
  <2> QED
    BY <2>1, <2>2, <2>3
<1>6. IsFiniteSet(Outstanding)
  BY OutstandingWeighed
<1>7. /\ SumLeft(message, Outstanding) = SumLeft(message, B) + SumLeft(message, Outstanding \ B)
      /\ SumLeft(message, B) \in Int /\ SumLeft(message, Outstanding \ B) \in Int
  BY <1>5, ApartCounted
<1>8. /\ Cardinality(FilesIn(message, Outstanding \ B)) = Cardinality(FilesIn(message, Outstanding)) - Cardinality(FilesIn(message, B))
      /\ Cardinality(FilesIn(message, B)) \in Int /\ Cardinality(FilesIn(message, Outstanding)) \in Int
  BY <1>5, ApartCounted
<1>9. EmptyOnes(B) \in Int
  <2>1. IsFiniteSet({r \in B : ~IsFile(r) /\ message[r].left = 0})
    BY <1>5, <1>6, FS_Subset
  <2> QED
    BY <2>1, FS_CardinalityType DEF EmptyOnes
<1>10. /\ scheduledWriteBytes = drift.bytes + SumLeft(message, Outstanding)
       /\ scheduledWriteMessages = drift.messages + Cardinality(FilesIn(message, Outstanding))
  BY <1>2 DEF ScheduleInv, Scheduled
<1>11. drift.bytes \in Int /\ drift.messages \in Int
  BY ScheduleTypes
<1>12. PICK e \in Int : e = EmptyOnes(B)
  BY <1>9
<1>13. drift' \in [bytes : Int, messages : Int] /\ drift'.bytes = drift.bytes /\ drift'.messages = drift.messages - e
  <2>1. drift' = [drift EXCEPT !.messages = drift.messages - e] /\ drift.messages - e \in Int
    BY <1>2, <1>11, <1>12
  <2> QED
    BY <1>3, <2>1
<1>14. PICK b \in Int, t \in Int, u \in Int, d \in Int, c \in Int, g \in Int :
         /\ b = drift.bytes /\ t = SumLeft(message, B) /\ u = SumLeft(message, Outstanding \ B)
         /\ d = drift.messages /\ c = Cardinality(FilesIn(message, Outstanding)) /\ g = Cardinality(FilesIn(message, B))
  BY <1>7, <1>8, <1>11
<1>15. scheduledWriteBytes' = drift'.bytes + SumLeft(message', Outstanding') /\ scheduledWriteBytes' \in Int
  <2>1. scheduledWriteBytes' = (b + (t + u)) - t /\ drift'.bytes = b /\ SumLeft(message', Outstanding') = u
    BY <1>2, <1>5, <1>7, <1>10, <1>13, <1>14
  <2> QED
    BY <2>1
<1>16. scheduledWriteMessages' = drift'.messages + Cardinality(FilesIn(message', Outstanding')) /\ scheduledWriteMessages' \in Int
  <2>1. scheduledWriteMessages' = (d + c) - g - e /\ drift'.messages = d - e /\ Cardinality(FilesIn(message', Outstanding')) = c - g
    BY <1>2, <1>5, <1>8, <1>10, <1>12, <1>13, <1>14
  <2> QED
    BY <2>1
<1>17. Len(requests') = 0 /\ requests' \in Seq(Nat)
  BY <1>2
<1>18. InOnePlace'
  BY <1>2, <1>3, <1>17 DEF InOnePlace
<1>19. CountersTypeOK'
  BY <1>2, <1>13, <1>15, <1>16, <1>17, ScheduleTypes DEF CountersTypeOK
<1> QED
  BY <1>2, <1>15, <1>16, <1>18, <1>19 DEF ScheduleInv, Scheduled

\* Each step keeps the counters to what is outstanding.
LEMMA ScheduleStep == ASSUME ScheduleInv, [CountersNext]_counterVars PROVE ScheduleInv'
<1>1. ASSUME UNCHANGED requestVars, phase' = "closed" <=> phase = "closed" PROVE ScheduleInv'
  BY <1>1 DEF ScheduleInv, CountersTypeOK, InOnePlace, Scheduled, Outstanding, requestVars, scheduleVars
<1>2. CASE UNCHANGED counterVars \/ ReadBytes \/ ReadMessage \/ Tick
  BY <1>1, <1>2 DEF counterVars, ReadBytes, ReadMessage, Tick
<1>3. CASE ResetScheduled
  <2>1. /\ phase' = "closed" /\ scheduledWriteBytes' = 0 /\ scheduledWriteMessages' = 0
        /\ UNCHANGED <<message, counted, requests, current, drift>>
    BY <1>3 DEF ResetScheduled
  <2>2. CountersTypeOK' /\ InOnePlace'
    BY <2>1 DEF ScheduleInv, CountersTypeOK, InOnePlace
  <2> QED
    BY <2>1, <2>2 DEF ScheduleInv, Scheduled
<1> QED
  BY <1>2, <1>3, CountWriteStep, OfferWriteStep, TakeRequestStep, SendStep, NotifyStep, CloseSessionStep, ClearQueueStep
     DEF CountersNext

IdleTypeOK ==
  /\ clock \in Nat /\ checked \in Nat /\ lastTime \in [{"read", "write"} -> Nat] /\ progress \in [{"read", "write"} -> Nat]
  /\ idle \in [Statuses -> [count : Nat, last : Nat]]

\* Once a status has been reported, each of its times has passed before it was
\* reported last.
ReportedRightly(s) ==
  /\ idle[s].last <= clock
  /\ idle[s].count > 0 => idle[s].count * IdleTime(s) <= idle[s].last - TimeOf(progress, s)

IdleInv ==
  /\ IdleTypeOK
  /\ \A k \in {"read", "write"} : progress[k] <= lastTime[k] /\ lastTime[k] <= clock
  /\ \A s \in Statuses : ReportedRightly(s)

\* A product is a number, and once more it is one time more.
LEMMA OnceMore == ASSUME NEW a \in Nat, NEW t \in Nat PROVE a * t \in Nat /\ (a + 1) * t = a * t + t
  OBVIOUS

\* The times of a status, and their order.
LEMMA TimesAre ==
  ASSUME IdleInv, NEW s \in Statuses
  PROVE  /\ TimeOf(progress, s) \in Nat /\ TimeOf(lastTime, s) \in Nat /\ TimeOf(progress, s) <= TimeOf(lastTime, s)
         /\ TimeOf(lastTime, s) <= clock /\ IdleTime(s) \in Nat /\ idle[s].count \in Nat /\ idle[s].last \in Nat /\ clock \in Nat
<1>1. /\ clock \in Nat /\ \A k \in {"read", "write"} : /\ progress[k] \in Nat /\ lastTime[k] \in Nat
                                                      /\ progress[k] <= lastTime[k] /\ lastTime[k] <= clock
  BY DEF IdleInv, IdleTypeOK
<1>2. /\ TimeOf(progress, s) \in Nat /\ TimeOf(lastTime, s) \in Nat /\ TimeOf(progress, s) <= TimeOf(lastTime, s)
      /\ TimeOf(lastTime, s) <= clock
  BY <1>1 DEF TimeOf, Later, Statuses
<1>3. IdleTime(s) \in Nat
  BY CountersAssumption DEF IdleTime, Statuses
<1> QED
  BY <1>1, <1>2, <1>3 DEF IdleInv, IdleTypeOK

\* A status that is reported once more has been idle for one time more.
LEMMA NotifyIdleStep == ASSUME IdleInv, NotifyIdle PROVE IdleInv'
<1>1. /\ checked' = clock /\ UNCHANGED <<clock, lastTime, progress>>
      /\ idle' = [s \in Statuses |-> IF FiresIdle(s) THEN [count |-> idle[s].count + 1, last |-> clock] ELSE idle[s]]
  BY DEF NotifyIdle
<1>2. idle' \in [Statuses -> [count : Nat, last : Nat]]
  <2>1. \A s \in Statuses : idle[s] \in [count : Nat, last : Nat] /\ idle[s].count + 1 \in Nat /\ clock \in Nat
    BY TimesAre DEF IdleInv, IdleTypeOK
  <2> QED
    BY <1>1, <2>1
<1>3. ASSUME NEW s \in Statuses PROVE ReportedRightly(s)'
  <2>1. PICK p \in Nat, t \in Nat, l \in Nat, c \in Nat, n \in Nat, z \in Nat :
          /\ p = TimeOf(progress, s) /\ t = IdleTime(s) /\ l = idle[s].last /\ c = idle[s].count /\ n = clock /\ z = TimeOf(lastTime, s)
          /\ p <= z /\ z <= n
    BY TimesAre
  <2>2. l <= n /\ (c > 0 => c * t <= l - p)
    BY <2>1 DEF IdleInv, ReportedRightly
  <2>3. TimeOf(progress, s)' = p /\ IdleTime(s)' = t /\ clock' = n
    BY <1>1, <2>1 DEF TimeOf, IdleTime
  <2>4. CASE ~FiresIdle(s)
    <3>1. idle'[s] = idle[s]
      BY <1>1, <2>4
    <3> QED
      BY <2>1, <2>2, <2>3, <3>1 DEF ReportedRightly
  <2>5. CASE FiresIdle(s)
    <3>1. idle'[s].count = c + 1 /\ idle'[s].last = n
      BY <1>1, <2>1, <2>5
    <3>2. n - l >= t /\ n - z >= t
      <4>1. n - Later(z, l) >= t
        BY <2>1, <2>5 DEF FiresIdle
      <4> QED
        BY <4>1, <2>1 DEF Later
    <3>3. c * t \in Nat /\ (c + 1) * t = c * t + t
      BY OnceMore
    <3>4. (c + 1) * t <= n - p
      <4>1. CASE c > 0
        BY <2>1, <2>2, <3>2, <3>3, <4>1
      <4>2. CASE c = 0
        <5>1. c * t = 0
          BY <4>2
        <5> QED
          BY <2>1, <3>2, <3>3, <5>1
      <4> QED
        BY <4>1, <4>2
    <3> QED
      BY <2>3, <3>1, <3>4 DEF ReportedRightly
  <2> QED
    BY <2>4, <2>5
<1>4. \A k \in {"read", "write"} : progress'[k] <= lastTime'[k] /\ lastTime'[k] <= clock'
  BY <1>1 DEF IdleInv
<1>5. IdleTypeOK'
  BY <1>1, <1>2 DEF IdleInv, IdleTypeOK
<1> QED
  BY <1>3, <1>4, <1>5 DEF IdleInv

\* Bytes are read or written, or a message: k is noted, and no longer idle.
LEMMA MovesStep ==
  ASSUME IdleInv, NEW k \in {"read", "write"}, UNCHANGED <<clock, checked>>,
         lastTime' = [lastTime EXCEPT ![k] = clock],
         \/ progress' = progress /\ (idle' = NotIdle(k) \/ idle' = idle)
         \/ progress' = [progress EXCEPT ![k] = clock] /\ idle' = NotIdle(k)
  PROVE  IdleInv'
<1>1. /\ clock \in Nat /\ checked \in Nat /\ lastTime \in [{"read", "write"} -> Nat] /\ progress \in [{"read", "write"} -> Nat]
      /\ idle \in [Statuses -> [count : Nat, last : Nat]]
  BY DEF IdleInv, IdleTypeOK
<1>2. \A j \in {"read", "write"} : progress[j] <= lastTime[j] /\ lastTime[j] <= clock
  BY DEF IdleInv
<1>3. lastTime' \in [{"read", "write"} -> Nat] /\ progress' \in [{"read", "write"} -> Nat]
  BY <1>1
<1>4. \A j \in {"read", "write"} : progress'[j] <= lastTime'[j] /\ lastTime'[j] <= clock'
  BY <1>1, <1>2
<1>5. ASSUME idle' = NotIdle(k)
      PROVE  /\ idle' \in [Statuses -> [count : Nat, last : Nat]]
             /\ \A s \in Statuses : /\ idle'[s].last = idle[s].last
                                    /\ idle'[s].count = (IF s \in {"both", k} THEN 0 ELSE idle[s].count)
  <2>1. "both" \in Statuses /\ k \in Statuses /\ "both" # k
    BY DEF Statuses
  <2>2. PICK one : one = [idle EXCEPT !["both"].count = 0]
    OBVIOUS
  <2>3. idle' = [one EXCEPT ![k].count = 0]
    BY <1>5, <2>2 DEF NotIdle
  <2>4. /\ one \in [Statuses -> [count : Nat, last : Nat]]
        /\ \A s \in Statuses : one[s].last = idle[s].last /\ one[s].count = (IF s = "both" THEN 0 ELSE idle[s].count)
    BY <1>1, <2>1, <2>2
  <2>5. /\ idle' \in [Statuses -> [count : Nat, last : Nat]]
        /\ \A s \in Statuses : idle'[s].last = one[s].last /\ idle'[s].count = (IF s = k THEN 0 ELSE one[s].count)
    BY <2>1, <2>3, <2>4
  <2> QED
    BY <2>4, <2>5
<1>6. idle' \in [Statuses -> [count : Nat, last : Nat]]
  BY <1>1, <1>5
<1>7. ASSUME NEW s \in Statuses PROVE ReportedRightly(s)'
  <2>1. idle[s].last <= clock /\ (idle[s].count > 0 => idle[s].count * IdleTime(s) <= idle[s].last - TimeOf(progress, s))
    BY DEF IdleInv, ReportedRightly
  <2>2. idle'[s].last = idle[s].last
    BY <1>5
  <2>3. clock' = clock
    OBVIOUS
  <2>4. CASE progress' = progress
    <3>1. TimeOf(progress, s)' = TimeOf(progress, s) /\ IdleTime(s)' = IdleTime(s)
      BY <2>4 DEF TimeOf, IdleTime
    <3>2. idle'[s].count = idle[s].count \/ idle'[s].count = 0
      BY <1>5
    <3> QED
      BY <2>1, <2>2, <2>3, <3>1, <3>2 DEF ReportedRightly
  <2>5. CASE idle' = NotIdle(k) /\ progress' = [progress EXCEPT ![k] = clock]
    <3>1. CASE s \in {"both", k}
      <4>1. idle'[s].count = 0
        BY <1>5, <2>5, <3>1
      <4> QED
        BY <2>1, <2>2, <2>3, <4>1 DEF ReportedRightly
    <3>2. CASE s \notin {"both", k}
      <4>1. s \in {"read", "write"} /\ progress'[s] = progress[s]
        BY <1>1, <2>5, <3>2 DEF Statuses
      <4>2. TimeOf(progress, s)' = TimeOf(progress, s) /\ IdleTime(s)' = IdleTime(s)
        BY <3>2, <4>1 DEF TimeOf, IdleTime
      <4>3. idle'[s].count = idle[s].count
        BY <1>5, <2>5, <3>2
      <4> QED
        BY <2>1, <2>2, <2>3, <4>2, <4>3 DEF ReportedRightly
    <3> QED
      BY <3>1, <3>2
  <2> QED
    BY <2>4, <2>5
<1> QED
  BY <1>1, <1>3, <1>4, <1>6, <1>7 DEF IdleInv, IdleTypeOK

\* Each step keeps to the idle times.
LEMMA IdleStep == ASSUME IdleInv, [CountersNext]_counterVars PROVE IdleInv'
<1>1. ASSUME UNCHANGED <<clock, idleVars>> PROVE IdleInv'
  BY <1>1 DEF IdleInv, IdleTypeOK, ReportedRightly, TimeOf, IdleTime, idleVars
<1>2. CASE UNCHANGED counterVars \/ CloseSession \/ ClearQueue \/ ResetScheduled \/ TakeRequest
           \/ \E w \in Writers : CountWrite(w) \/ OfferWrite(w)
  BY <1>1, <1>2 DEF counterVars, CloseSession, ClearQueue, ResetScheduled, TakeRequest, CountWrite, NewMessage, OfferWrite
<1>3. CASE Tick
  <2>1. clock' = clock + 1 /\ UNCHANGED <<checked, lastTime, idle, progress>>
    BY <1>3 DEF Tick, idleVars
  <2>2. clock \in Nat
    BY DEF IdleInv, IdleTypeOK
  <2>3. IdleTypeOK'
    BY <2>1, <2>2 DEF IdleInv, IdleTypeOK
  <2>4. \A k \in {"read", "write"} : progress'[k] <= lastTime'[k] /\ lastTime'[k] <= clock'
    BY <2>1, <2>2 DEF IdleInv, IdleTypeOK
  <2>5. ASSUME NEW s \in Statuses PROVE ReportedRightly(s)'
    <3>1. idle[s].last <= clock /\ (idle[s].count > 0 => idle[s].count * IdleTime(s) <= idle[s].last - TimeOf(progress, s))
      BY DEF IdleInv, ReportedRightly
    <3>2. idle[s].last <= clock'
      BY <2>1, <3>1, TimesAre
    <3>3. TimeOf(progress, s)' = TimeOf(progress, s) /\ IdleTime(s)' = IdleTime(s)
      BY <2>1 DEF TimeOf, IdleTime
    <3> QED
      BY <2>1, <3>1, <3>2, <3>3 DEF ReportedRightly
  <2> QED
    BY <2>3, <2>4, <2>5 DEF IdleInv
<1>4. CASE ReadBytes \/ ReadMessage
  BY <1>4, MovesStep DEF ReadBytes, ReadMessage
<1>5. CASE WriteBytes \/ WriteRegion \/ SendEmpty
  BY <1>5, MovesStep DEF WriteBytes, WriteRegion, SendEmpty, CountSentBytes
<1> QED
  BY <1>2, <1>3, <1>4, <1>5, NotifyIdleStep DEF CountersNext

\* Nothing is counted, and nothing was reported.
LEMMA CountersInitially == CountersInit => ScheduleInv /\ IdleInv
<1> SUFFICES ASSUME CountersInit PROVE ScheduleInv /\ IdleInv
  OBVIOUS
<1>1. /\ message = <<>> /\ counted = [w \in Writers |-> 0] /\ requests = <<>> /\ current = 0
      /\ scheduledWriteBytes = 0 /\ scheduledWriteMessages = 0 /\ drift = [bytes |-> 0, messages |-> 0] /\ phase = "open"
  BY DEF CountersInit
<1>2. message \in Seq(Messages) /\ requests \in Seq(Nat) /\ counted \in [Writers -> Nat] /\ Len(requests) = 0
      /\ drift \in [bytes : Int, messages : Int] /\ drift.bytes = 0 /\ drift.messages = 0
  BY <1>1
<1>3. CountersTypeOK /\ InOnePlace
  BY <1>1, <1>2 DEF CountersTypeOK, InOnePlace
<1>4. Outstanding = {}
  <2>1. \A x : x \notin Outstanding
    BY <1>1, <1>2, OutstandingIs
  <2> QED
    BY <2>1
<1>5. SumLeft(message, {}) = 0
  <2>1. Weighed(message, {})
    BY FS_EmptySet DEF Weighed
  <2> QED
    BY <2>1, SumLeftInt
<1>6. Cardinality(FilesIn(message, {})) = 0
  BY FS_EmptySet DEF FilesIn
<1>7. Scheduled
  BY <1>1, <1>2, <1>4, <1>5, <1>6 DEF Scheduled
<1>8. /\ lastTime = [k \in {"read", "write"} |-> 1] /\ progress = [k \in {"read", "write"} |-> 1] /\ clock = 1 /\ checked = 1
      /\ idle = [s \in Statuses |-> [count |-> 0, last |-> 0]]
  BY DEF CountersInit
<1>9. IdleTypeOK
  BY <1>8 DEF IdleTypeOK
<1>10. \A s \in Statuses : ReportedRightly(s)
  BY <1>8 DEF ReportedRightly
<1>11. IdleInv
  BY <1>8, <1>9, <1>10 DEF IdleInv
<1> QED
  BY <1>3, <1>7, <1>11 DEF ScheduleInv

\* The invariants of the counters say that they are truthful.
LEMMA CountersTruthfulHolds == ASSUME ScheduleInv, IdleInv PROVE CountersTruthful
<1>1. IF phase = "closed"
      THEN scheduledWriteBytes = 0 /\ scheduledWriteMessages = 0
      ELSE /\ scheduledWriteBytes = drift.bytes + FoldSet(LAMBDA r, n : n + BytesOf(r), 0, Outstanding)
           /\ scheduledWriteMessages = drift.messages + Cardinality({r \in Outstanding : IsFile(r)})
  <2>1. FoldSet(LAMBDA r, n : n + BytesOf(r), 0, Outstanding) = SumLeft(message, Outstanding)
    BY DEF SumLeft, LeftOf, BytesOf, IsFile, FoldSet, MapThenFoldSet
  <2>2. {r \in Outstanding : IsFile(r)} = FilesIn(message, Outstanding)
    BY DEF FilesIn, IsFile
  <2> QED
    BY <2>1, <2>2 DEF ScheduleInv, Scheduled
<1>2. ASSUME NEW s \in Statuses PROVE idle[s].count * IdleTime(s) <= clock - TimeOf(progress, s)
  <2>1. PICK p \in Nat, t \in Nat, l \in Nat, c \in Nat, n \in Nat :
          /\ p = TimeOf(progress, s) /\ t = IdleTime(s) /\ l = idle[s].last /\ c = idle[s].count /\ n = clock /\ p <= n
    BY TimesAre
  <2>2. l <= n /\ (c > 0 => c * t <= l - p)
    BY <2>1 DEF IdleInv, ReportedRightly
  <2>3. c * t <= n - p
    <3>1. CASE c > 0
      BY <2>2, <3>1, OnceMore
    <3>2. CASE c = 0
      <4>1. c * t = 0
        BY <3>2
      <4> QED
        BY <2>1, <4>1
    <3> QED
      BY <3>1, <3>2
  <2> QED
    BY <2>1, <2>3
<1> QED
  BY <1>1, <1>2 DEF CountersTruthful

\* Whatever writers and the processor do, the counters say what is outstanding,
\* up to the drift, are zero at the close, and no status is reported idle too
\* often.
THEOREM CountersTruthfulCorrect == CountersSpec => []CountersTruthful
<1>1. CountersInit => ScheduleInv /\ IdleInv
  BY CountersInitially
<1>2. (ScheduleInv /\ IdleInv) /\ [CountersNext]_counterVars => (ScheduleInv /\ IdleInv)'
  BY ScheduleStep, IdleStep
<1>3. ScheduleInv /\ IdleInv => CountersTruthful
  BY CountersTruthfulHolds
<1> QED
  BY <1>1, <1>2, <1>3, PTL DEF CountersSpec

----------------------------------------------------------------------------
(* Powers of two, which capacities and masks are.                          *)

\* A set of k elements has 2^k subsets: so a power of two is a natural number.
LEMMA PowerIsNat == ASSUME NEW k \in Nat PROVE 2^k \in Nat /\ Cardinality(SUBSET (1..k)) = 2^k
<1>1. IsFiniteSet(1..k) /\ Cardinality(1..k) = k
  BY FS_Interval
<1>2. IsFiniteSet(SUBSET (1..k)) /\ Cardinality(SUBSET (1..k)) = 2^k
  BY <1>1, FS_SUBSET, Zenon
<1> QED
  BY <1>2, FS_CardinalityType

\* The next power of two is twice this one.
LEMMA PowerDoubles == ASSUME NEW k \in Nat PROVE 2^(k + 1) = 2 * 2^k
<1> DEFINE low == SUBSET (1..k)
           high == {A \cup {k + 1} : A \in low}
<1>1. SUBSET (1..(k + 1)) = low \cup high
  <2>1. 1..(k + 1) = (1..k) \cup {k + 1}
    OBVIOUS
  <2>2. ASSUME NEW A \in SUBSET (1..(k + 1)), A \notin low PROVE A \in high
    <3>1. A \ {k + 1} \in low /\ A = (A \ {k + 1}) \cup {k + 1}
      BY <2>1, <2>2
    <3> QED
      BY <3>1
  <2>3. ASSUME NEW B \in high PROVE B \in SUBSET (1..(k + 1))
    <3>1. PICK A \in low : B = A \cup {k + 1}
      BY <2>3
    <3> QED
      BY <2>1, <3>1
  <2>4. low \subseteq SUBSET (1..(k + 1))
    BY <2>1
  <2> QED
    BY <2>2, <2>3, <2>4
<1>2. low \cap high = {}
  <2>1. k + 1 \notin 1..k
    OBVIOUS
  <2> QED
    BY <2>1
<1>3. IsFiniteSet(low) /\ Cardinality(low) = 2^k
  <2>1. IsFiniteSet(1..k)
    BY FS_Interval
  <2> QED
    BY <2>1, FS_SUBSET, PowerIsNat
<1>4. IsFiniteSet(high) /\ Cardinality(high) = Cardinality(low)
  <2> DEFINE f == [A \in low |-> A \cup {k + 1}]
  <2>1. k + 1 \notin 1..k
    OBVIOUS
  <2>2. f \in Bijection(low, high)
    <3>1. f \in [low -> high] /\ \A B \in high : \E A \in low : f[A] = B
      OBVIOUS
    <3>2. ASSUME NEW A \in low, NEW B \in low, f[A] = f[B] PROVE A = B
      <4>1. A \cup {k + 1} = B \cup {k + 1} /\ k + 1 \notin A /\ k + 1 \notin B
        BY <2>1, <3>2
      <4> QED
        BY <4>1
    <3> HIDE DEF f, low, high
    <3> QED
      BY <3>1, <3>2 DEF Bijection, Injection, Surjection, IsInjective
  <2> QED
    BY <1>3, <2>2, FS_Bijection DEF ExistsBijection
<1>5. Cardinality(low \cup high) = Cardinality(low) + Cardinality(high)
  <2>1. Cardinality(low \cup high) = Cardinality(low) + Cardinality(high) - Cardinality(low \cap high)
    BY <1>3, <1>4, FS_Union
  <2>2. Cardinality(low \cap high) = 0
    BY <1>2, FS_EmptySet
  <2>3. Cardinality(low) \in Nat /\ Cardinality(high) \in Nat
    BY <1>3, <1>4, FS_CardinalityType
  <2> QED
    BY <2>1, <2>2, <2>3
<1>6. Cardinality(SUBSET (1..(k + 1))) = 2^(k + 1) /\ 2^k \in Nat
  BY PowerIsNat, k + 1 \in Nat
<1>7. Cardinality(low \cup high) = 2^(k + 1) /\ Cardinality(low) = 2^k /\ Cardinality(high) = Cardinality(low)
  BY <1>1, <1>3, <1>4, <1>6
<1> HIDE DEF low, high
<1> QED
  BY <1>5, <1>6, <1>7

\* No power of two is zero.
LEMMA PowerPositive == ASSUME NEW k \in Nat PROVE 2^k # 0
<1> DEFINE T == {j \in Nat : 2^j = 0}
<1>1. ASSUME T # {} PROVE FALSE
  <2>1. PICK j \in T : \A i \in T : j <= i
    BY <1>1, LeastNat
  <2>2. j \in Nat /\ 2^j = 0
    OBVIOUS
  <2>3. j # 0
    <3>1. 2^0 # 0
      OBVIOUS
    <3> QED
      BY <2>2, <3>1, Zenon
  <2>4. j - 1 \in Nat /\ j - 1 \notin T /\ (j - 1) + 1 = j
    BY <2>1, <2>2, <2>3
  <2>5. 2^(j - 1) \in Nat /\ 2^((j - 1) + 1) = 2 * 2^(j - 1) /\ 2^(j - 1) # 0
    BY <2>4, PowerIsNat, PowerDoubles
  <2> HIDE DEF T
  <2> QED
    BY <2>2, <2>4, <2>5
<1> QED
  BY <1>1

\* Some power of two is at least n, at most twice as large, and found among
\* the first n.
LEMMA NextPower ==
  ASSUME NEW n \in Nat, n # 0
  PROVE  \E k \in 0..n : 2^k \in Nat /\ n <= 2^k /\ 2^k < 2 * n
<1>1. \A k \in Nat : 2^k \in Nat /\ 2^(k + 1) = 2 * 2^k
  BY PowerIsNat, PowerDoubles
<1>2. 2^0 = 1
  OBVIOUS
<1>3. \A k \in Nat : k < 2^k
  <2> DEFINE T == {k \in Nat : ~(k < 2^k)}
  <2>1. ASSUME T # {} PROVE FALSE
    <3>1. PICK k \in T : \A j \in T : k <= j
      BY <2>1, LeastNat
    <3>2. k \in Nat /\ ~(k < 2^k)
      OBVIOUS
    <3>3. k # 0
      <4>1. 0 < 2^0
        BY <1>2
      <4> QED
        BY <3>2, <4>1, Zenon
    <3>4. k - 1 \in Nat /\ k - 1 \notin T /\ (k - 1) + 1 = k
      BY <3>1, <3>2, <3>3
    <3>5. k - 1 < 2^(k - 1) /\ 2^(k - 1) \in Nat /\ 2^((k - 1) + 1) = 2 * 2^(k - 1)
      BY <1>1, <3>4
    <3>6. 2^k = 2 * 2^(k - 1)
      BY <3>4, <3>5
    <3>7. PICK m \in Nat : k - 1 < m /\ 2^k = 2 * m
      BY <3>5, <3>6
    <3>8. ~(k < 2 * m)
      BY <3>2, <3>7
    <3> HIDE DEF T
    <3> QED
      BY <3>2, <3>3, <3>7, <3>8
  <2> QED
    BY <2>1
<1> DEFINE T == {k \in Nat : n <= 2^k}
<1>4. n \in T
  BY <1>1, <1>3
<1>5. PICK k \in T : \A j \in T : k <= j
  BY <1>4, LeastNat
<1>6. k \in Nat /\ k <= n /\ 2^k \in Nat /\ n <= 2^k
  BY <1>1, <1>4, <1>5
<1>7. 2^k < 2 * n
  <2>1. CASE k = 0
    BY <1>2, <2>1
  <2>2. CASE k # 0
    <3>1. k - 1 \in Nat /\ k - 1 \notin T /\ (k - 1) + 1 = k
      BY <1>5, <1>6, <2>2
    <3>2. 2^(k - 1) \in Nat /\ 2^((k - 1) + 1) = 2 * 2^(k - 1) /\ ~(n <= 2^(k - 1))
      BY <1>1, <3>1
    <3>3. 2^k = 2 * 2^(k - 1)
      BY <3>1, <3>2
    <3> HIDE DEF T
    <3> QED
      BY <3>2, <3>3
  <2> QED
    BY <2>1, <2>2
<1> QED
  BY <1>6, <1>7

\* What normalizeCapacity() returns is enough.
LEMMA PowerOfTwoIs == ASSUME NEW n \in Nat PROVE PowerOfTwo(n) \in Nat /\ n <= PowerOfTwo(n)
<1>1. CASE n = 0
  BY <1>1 DEF PowerOfTwo
<1>2. CASE n # 0
  <2>1. PICK k \in 0..n : 2^k \in Nat /\ n <= 2^k /\ 2^k < 2 * n
    BY <1>2, NextPower
  <2> DEFINE P == {2^j : j \in 0..n}
  <2>2. \E p \in P : n <= p /\ p < 2 * n
    BY <2>1
  <2>3. PowerOfTwo(n) = CHOOSE p \in P : n <= p /\ p < 2 * n
    BY <1>2 DEF PowerOfTwo
  <2>4. PowerOfTwo(n) \in P /\ n <= PowerOfTwo(n)
    <3> HIDE DEF P
    <3> QED
      BY <2>2, <2>3
  <2>5. \A j \in 0..n : 2^j \in Nat
    <3>1. \A j \in Nat : 2^j \in Nat
      BY PowerIsNat
    <3> QED
      BY <3>1
  <2> QED
    BY <2>4, <2>5
<1> QED
  BY <1>1, <1>2

\* Halving the capacity leaves a number.
LEMMA HalvedIs == ASSUME NEW c \in Nat, NEW least \in Nat PROVE Halved(c, least) \in Nat
<1> DEFINE E == {h \in {c \div 2^k : k \in 0..c} : h >= least}
<1>1. \A k \in 0..c : c \div 2^k \in Nat
  <2> SUFFICES ASSUME NEW k \in 0..c PROVE c \div 2^k \in Nat
    OBVIOUS
  <2>1. 2^k \in Nat /\ 2^k # 0
    <3>1. k \in Nat
      OBVIOUS
    <3> QED
      BY <3>1, PowerIsNat, PowerPositive
  <2>2. PICK d \in Nat : d = 2^k /\ d # 0
    BY <2>1
  <2>3. c \div d \in Nat
    BY <2>2
  <2> QED
    BY <2>2, <2>3
<1>2. E \subseteq Nat
  BY <1>1
<1>3. CASE E = {} \/ least = 0
  <2>1. c \div 2 \in Nat
    OBVIOUS
  <2> QED
    BY <1>3, <2>1 DEF Halved
<1>4. CASE E # {} /\ least # 0
  <2>1. Halved(c, least) = Min(E)
    BY <1>4 DEF Halved
  <2>2. \E m \in E : \A j \in E : m <= j
    BY <1>2, <1>4, LeastNat
  <2>3. Min(E) \in E
    <3> HIDE DEF E
    <3> QED
      BY <2>2 DEF Min
  <2> QED
    BY <1>2, <2>1, <2>3
<1> QED
  BY <1>3, <1>4

----------------------------------------------------------------------------
(* The buffer: its marks stay in order, and what was put stays where it was. *)

BufferCells == Bytes \cup {FreshByte}

AnyBuffer ==
  [cells : Seq(BufferCells), position : Nat, limit : Nat, mark : Int,
   minimumCapacity : Nat, autoExpand : BOOLEAN, recapacityAllowed : BOOLEAN]

\* The indices of a buffer are in their order.
MarksInOrder(b) ==
  /\ b \in AnyBuffer
  /\ b.mark <= b.position /\ b.position <= b.limit /\ b.limit <= Len(b.cells)

\* c has what b has, and maybe more.
Extends(b, c) == Len(b.cells) <= Len(c.cells) /\ \A i \in 1..Len(b.cells) : c.cells[i] = b.cells[i]
SameFlags(b, c) == c.autoExpand = b.autoExpand /\ c.recapacityAllowed = b.recapacityAllowed

PutKept == DOMAIN put \subseteq Nat /\ \A i \in DOMAIN put : i < Capacity(buffer) /\ buffer.cells[i + 1] = put[i]

BufferInv == MarksInOrder(buffer) /\ PutKept

\* position(p) within the limit: the mark goes if it was behind it, and nothing else changes.
LEMMA AtPositionIs ==
  ASSUME NEW b, MarksInOrder(b), NEW p \in Nat, p <= b.limit
  PROVE  /\ MarksInOrder(AtPosition(b, p)) /\ AtPosition(b, p).cells = b.cells /\ SameFlags(b, AtPosition(b, p))
         /\ AtPosition(b, p).limit = b.limit /\ AtPosition(b, p).position = p
<1>1. PICK m \in Int : m = (IF b.mark > p THEN -1 ELSE b.mark) /\ m <= p
  BY DEF MarksInOrder, AnyBuffer
<1>2. AtPosition(b, p) = [b EXCEPT !.position = p, !.mark = m]
  BY <1>1 DEF AtPosition, MarksInOrder, AnyBuffer
<1>3. SameFlags(b, AtPosition(b, p))
  BY <1>2 DEF MarksInOrder, AnyBuffer, SameFlags
<1> QED
  BY <1>1, <1>2, <1>3 DEF MarksInOrder, AnyBuffer

\* limit(l) within the capacity: position and mark do not stay behind it.
LEMMA AtLimitIs ==
  ASSUME NEW b, MarksInOrder(b), NEW l \in Nat, l <= Len(b.cells)
  PROVE  /\ MarksInOrder(AtLimit(b, l)) /\ AtLimit(b, l).cells = b.cells /\ SameFlags(b, AtLimit(b, l))
         /\ AtLimit(b, l).limit = l /\ (b.position <= l => AtLimit(b, l).position = b.position)
<1>1. PICK p \in Nat : p = (IF b.position > l THEN l ELSE b.position) /\ p <= l
  BY DEF MarksInOrder, AnyBuffer
<1>2. PICK m \in Int : m = (IF b.mark > l THEN -1 ELSE b.mark) /\ m <= p
  <2>1. b.mark \in Int /\ b.position \in Nat /\ b.mark <= b.position
    BY DEF MarksInOrder, AnyBuffer
  <2> QED
    BY <1>1, <2>1
<1>3. AtLimit(b, l) = [b EXCEPT !.limit = l, !.position = p, !.mark = m]
  BY <1>1, <1>2 DEF AtLimit, MarksInOrder, AnyBuffer
<1>4. SameFlags(b, AtLimit(b, l))
  BY <1>3 DEF MarksInOrder, AnyBuffer, SameFlags
<1>5. /\ AtLimit(b, l).cells = b.cells /\ AtLimit(b, l).limit = l
      /\ AtLimit(b, l).position = p /\ AtLimit(b, l).mark = m
  BY <1>3 DEF MarksInOrder, AnyBuffer
<1>6. b.position <= l => p = b.position
  BY <1>1 DEF MarksInOrder, AnyBuffer
<1>7. MarksInOrder(AtLimit(b, l))
  BY <1>1, <1>2, <1>3, <1>5 DEF MarksInOrder, AnyBuffer
<1> QED
  BY <1>4, <1>5, <1>6, <1>7

\* The cells of a buffer are finitely many.
LEMMA CellsAre == ASSUME NEW b, MarksInOrder(b) PROVE b.cells \in Seq(BufferCells) /\ Len(b.cells) \in Nat
<1>1. b.cells \in Seq(BufferCells)
  BY DEF MarksInOrder, AnyBuffer
<1> QED
  BY <1>1

\* clear(): all the cells are open again and none of them changes.
LEMMA ClearedIs ==
  ASSUME NEW b, MarksInOrder(b)
  PROVE  /\ MarksInOrder(Cleared(b)) /\ Cleared(b).cells = b.cells /\ SameFlags(b, Cleared(b))
         /\ Cleared(b).limit = Len(b.cells) /\ Cleared(b).position = 0
<1>1. Len(b.cells) \in Nat
  BY DEF MarksInOrder, AnyBuffer
<1>2. SameFlags(b, Cleared(b))
  BY DEF Cleared, MarksInOrder, AnyBuffer, SameFlags
<1>3. /\ Cleared(b).cells = b.cells /\ Cleared(b).limit = Len(b.cells)
      /\ Cleared(b).position = 0 /\ Cleared(b).mark = -1
  BY DEF Cleared, MarksInOrder, AnyBuffer
<1>4. Cleared(b) \in AnyBuffer
  <2>1. PICK n \in Nat, p \in Nat, m \in Int : n = Len(b.cells) /\ p = 0 /\ m = -1
    BY <1>1
  <2>2. Cleared(b) = [b EXCEPT !.position = p, !.limit = n, !.mark = m] /\ b \in AnyBuffer
    BY <2>1 DEF MarksInOrder, Cleared
  <2> QED
    BY <2>2 DEF AnyBuffer
<1>5. MarksInOrder(Cleared(b))
  BY <1>1, <1>3, <1>4 DEF MarksInOrder, AnyBuffer
<1> QED
  BY <1>2, <1>3, <1>5

\* What is written is there, and nothing else has changed.
LEMMA WrittenIs ==
  ASSUME NEW b, MarksInOrder(b), NEW i \in Nat, NEW bytes \in Seq(Bytes), i + Len(bytes) <= Len(b.cells)
  PROVE  /\ MarksInOrder(Written(b, i, bytes)) /\ Len(Written(b, i, bytes).cells) = Len(b.cells)
         /\ Written(b, i, bytes).limit = b.limit /\ Written(b, i, bytes).position = b.position
         /\ \A j \in 1..Len(b.cells) : Written(b, i, bytes).cells[j] =
              IF j \in (i + 1)..(i + Len(bytes)) THEN bytes[j - i] ELSE b.cells[j]
<1> DEFINE c == [j \in DOMAIN b.cells |-> IF j \in (i + 1)..(i + Len(bytes)) THEN bytes[j - i] ELSE b.cells[j]]
<1>1. b.cells \in Seq(BufferCells) /\ DOMAIN b.cells = 1..Len(b.cells) /\ Len(b.cells) \in Nat /\ Len(bytes) \in Nat
  BY DEF MarksInOrder, AnyBuffer
<1>2. ASSUME NEW j \in 1..Len(b.cells) PROVE c[j] \in BufferCells
  <2>1. CASE j \in (i + 1)..(i + Len(bytes))
    <3>1. j - i \in 1..Len(bytes)
      BY <1>1, <2>1
    <3>2. bytes[j - i] \in Bytes
      BY <3>1
    <3> QED
      BY <1>1, <2>1, <3>2 DEF BufferCells
  <2>2. CASE j \notin (i + 1)..(i + Len(bytes))
    BY <1>1, <2>2
  <2> QED
    BY <2>1, <2>2
<1>3. c \in Seq(BufferCells) /\ Len(c) = Len(b.cells)
  <2>1. c \in [1..Len(b.cells) -> BufferCells]
    BY <1>1, <1>2
  <2> HIDE DEF c
  <2> QED
    BY <1>1, <2>1
<1>4. \A j \in 1..Len(b.cells) : c[j] = IF j \in (i + 1)..(i + Len(bytes)) THEN bytes[j - i] ELSE b.cells[j]
  BY <1>1
<1>5. Written(b, i, bytes) = [b EXCEPT !.cells = c]
  BY DEF Written, MarksInOrder, AnyBuffer
<1> HIDE DEF c
<1> QED
  BY <1>3, <1>4, <1>5 DEF MarksInOrder, AnyBuffer

\* Growing adds fresh memory at the end.
LEMMA RecapacityIs ==
  ASSUME NEW b, MarksInOrder(b), NEW n \in Nat, n > Len(b.cells)
  PROVE  /\ MarksInOrder(Recapacity(b, n)) /\ Len(Recapacity(b, n).cells) = n
         /\ Extends(b, Recapacity(b, n)) /\ SameFlags(b, Recapacity(b, n))
         /\ Recapacity(b, n).limit = b.limit /\ Recapacity(b, n).position = b.position
<1> DEFINE fresh == [i \in 1..(n - Len(b.cells)) |-> FreshByte]
<1>1. b.cells \in Seq(BufferCells) /\ Len(b.cells) \in Nat
  BY DEF MarksInOrder, AnyBuffer
<1>2. fresh \in Seq(BufferCells) /\ Len(fresh) = n - Len(b.cells)
  <2>1. n - Len(b.cells) \in Nat
    BY <1>1
  <2> QED
    BY <2>1 DEF BufferCells
<1>3. Recapacity(b, n) = [b EXCEPT !.cells = b.cells \o fresh]
  BY DEF Recapacity, MarksInOrder, AnyBuffer
<1> HIDE DEF fresh
<1>4. PICK c \in Seq(BufferCells) : c = b.cells \o fresh
  BY <1>1, <1>2, ConcatProperties
<1>5. Len(c) = n /\ \A i \in 1..Len(b.cells) : c[i] = b.cells[i]
  BY <1>1, <1>2, <1>4, ConcatProperties
<1>6. SameFlags(b, Recapacity(b, n))
  BY <1>3 DEF MarksInOrder, AnyBuffer, SameFlags
<1>7. /\ Recapacity(b, n).cells = c /\ Recapacity(b, n).limit = b.limit
      /\ Recapacity(b, n).position = b.position /\ Recapacity(b, n).mark = b.mark
  BY <1>3, <1>4 DEF MarksInOrder, AnyBuffer
<1>8. MarksInOrder(Recapacity(b, n))
  <2>1. Recapacity(b, n) \in AnyBuffer
    BY <1>3, <1>4 DEF MarksInOrder, AnyBuffer
  <2>2. b.mark <= b.position /\ b.position <= b.limit /\ b.limit <= Len(b.cells) /\ b.limit \in Nat
    BY DEF MarksInOrder, AnyBuffer
  <2>3. b.limit <= n
    BY <1>1, <2>2
  <2> QED
    BY <1>5, <1>7, <2>1, <2>2, <2>3 DEF MarksInOrder, AnyBuffer
<1>9. Extends(b, Recapacity(b, n))
  BY <1>1, <1>5, <1>7 DEF Extends
<1> QED
  BY <1>5, <1>6, <1>7, <1>8, <1>9

\* expand() leaves what is there where it is, and makes room.
LEMMA ExpandedIs ==
  ASSUME NEW b, MarksInOrder(b), NEW pos \in Nat, NEW expected \in Nat, NEW auto \in BOOLEAN
  PROVE  /\ MarksInOrder(Expanded(b, pos, expected, auto)) /\ Extends(b, Expanded(b, pos, expected, auto))
         /\ SameFlags(b, Expanded(b, pos, expected, auto))
         /\ pos + expected <= Expanded(b, pos, expected, auto).limit
         /\ b.limit <= Expanded(b, pos, expected, auto).limit
         /\ Expanded(b, pos, expected, auto).position = b.position
<1> DEFINE end == pos + expected
           n == IF auto THEN PowerOfTwo(end) ELSE end
           grown == IF n > Capacity(b) THEN Recapacity(b, n) ELSE b
<1>1. n \in Nat /\ end \in Nat /\ end <= n
  BY PowerOfTwoIs
<1>2. b.cells \in Seq(BufferCells) /\ Len(b.cells) \in Nat /\ b.limit \in Nat /\ b.position \in Nat
      /\ b.position <= b.limit /\ b.limit <= Len(b.cells)
  BY DEF MarksInOrder, AnyBuffer
<1>3. MarksInOrder(grown) /\ Extends(b, grown) /\ SameFlags(b, grown) /\ n <= Len(grown.cells)
      /\ grown.limit = b.limit /\ grown.position = b.position
  <2> HIDE DEF n
  <2>1. CASE n > Capacity(b)
    <3>1. n > Len(b.cells) /\ grown = Recapacity(b, n)
      BY <2>1 DEF Capacity
    <3> HIDE DEF grown
    <3>2. Len(grown.cells) = n
      BY <1>1, <3>1, RecapacityIs
    <3> QED
      BY <1>1, <3>1, <3>2, RecapacityIs
  <2>2. CASE ~(n > Capacity(b))
    <3>1. grown = b /\ n <= Len(b.cells)
      BY <1>1, <1>2, <2>2 DEF Capacity
    <3> HIDE DEF grown
    <3> QED
      BY <1>2, <3>1 DEF Extends, SameFlags
  <2> QED
    BY <2>1, <2>2
<1>4. Expanded(b, pos, expected, auto) = IF end > b.limit THEN AtLimit(grown, end) ELSE grown
  BY DEF Expanded
<1> HIDE DEF end, n, grown
<1>5. CASE end > b.limit
  <2>1. Len(grown.cells) \in Nat
    BY <1>3 DEF MarksInOrder, AnyBuffer
  <2>2. end <= Len(grown.cells) /\ grown.position <= end
    BY <1>1, <1>2, <1>3, <1>5, <2>1
  <2>3. PICK c : c = AtLimit(grown, end)
    OBVIOUS
  <2>4. MarksInOrder(c) /\ c.cells = grown.cells /\ SameFlags(grown, c) /\ c.limit = end /\ c.position = grown.position
    BY <1>1, <1>3, <2>2, <2>3, AtLimitIs
  <2>5. Extends(b, c) /\ SameFlags(b, c)
    BY <1>3, <2>4 DEF Extends, SameFlags
  <2>6. end <= c.limit /\ b.limit <= c.limit
    BY <1>1, <1>2, <1>5, <2>4
  <2> QED
    BY <1>3, <1>4, <1>5, <2>3, <2>4, <2>5, <2>6 DEF end
<1>6. CASE ~(end > b.limit)
  <2>1. end <= b.limit /\ b.limit <= b.limit
    BY <1>1, <1>2, <1>6
  <2> QED
    BY <1>3, <1>4, <1>6, <2>1 DEF end
<1> QED
  BY <1>5, <1>6

\* autoExpand(): a buffer that may expand has room for what is expected, and keeps its cells.
LEMMA AutoExpandedIs ==
  ASSUME NEW b, MarksInOrder(b), NEW pos \in Nat, NEW expected \in Nat
  PROVE  /\ MarksInOrder(AutoExpanded(b, pos, expected)) /\ Extends(b, AutoExpanded(b, pos, expected))
         /\ SameFlags(b, AutoExpanded(b, pos, expected))
         /\ IsAutoExpand(b) => pos + expected <= AutoExpanded(b, pos, expected).limit
         /\ b.limit <= AutoExpanded(b, pos, expected).limit
         /\ AutoExpanded(b, pos, expected).position = b.position
<1>1. CASE IsAutoExpand(b)
  BY <1>1, ExpandedIs DEF AutoExpanded
<1>2. CASE ~IsAutoExpand(b)
  <2>1. Extends(b, b) /\ SameFlags(b, b) /\ b.limit <= b.limit
    BY DEF MarksInOrder, AnyBuffer, Extends, SameFlags
  <2> QED
    BY <1>2, <2>1 DEF AutoExpanded
<1> QED
  BY <1>1, <1>2

\* What extends an extension extends the first.
LEMMA ExtendsAll ==
  ASSUME NEW a, NEW b, NEW c, MarksInOrder(a), MarksInOrder(b), MarksInOrder(c), Extends(a, b), Extends(b, c)
  PROVE  Extends(a, c)
<1>1. Len(a.cells) \in Nat /\ Len(b.cells) \in Nat /\ Len(c.cells) \in Nat
  BY CellsAre
<1>2. Len(a.cells) <= Len(b.cells) /\ Len(b.cells) <= Len(c.cells)
  BY DEF Extends
<1>3. Len(a.cells) <= Len(c.cells)
  BY <1>1, <1>2
<1>4. ASSUME NEW i \in 1..Len(a.cells) PROVE c.cells[i] = a.cells[i]
  <2>1. i \in 1..Len(b.cells)
    BY <1>1, <1>2
  <2> QED
    BY <2>1 DEF Extends
<1> QED
  BY <1>3, <1>4 DEF Extends

\* A buffer that extends the one before keeps what was put.
LEMMA KeepsStep ==
  ASSUME BufferInv, NEW b, MarksInOrder(b), Extends(buffer, b), Keeps(b)
  PROVE  BufferInv'
<1>1. buffer' = b /\ put' = put
  BY DEF Keeps
<1>2. MarksInOrder(buffer)'
  BY <1>1 DEF MarksInOrder
<1>3. Len(buffer.cells) \in Nat /\ Len(b.cells) \in Nat
  BY DEF BufferInv, MarksInOrder, AnyBuffer
<1>4. ASSUME NEW i \in DOMAIN put PROVE i \in Nat /\ i < Len(b.cells) /\ b.cells[i + 1] = put[i]
  <2>1. i \in Nat /\ i < Len(buffer.cells) /\ buffer.cells[i + 1] = put[i]
    BY DEF BufferInv, PutKept, Capacity
  <2>2. i + 1 \in 1..Len(buffer.cells) /\ Len(buffer.cells) <= Len(b.cells)
    BY <1>3, <2>1 DEF Extends
  <2>3. b.cells[i + 1] = buffer.cells[i + 1]
    BY <2>2 DEF Extends
  <2> QED
    BY <1>3, <2>1, <2>2, <2>3
<1>5. PutKept'
  BY <1>1, <1>4 DEF PutKept, Capacity
<1> QED
  BY <1>2, <1>5 DEF BufferInv

\* The same of a buffer with the same cells.
LEMMA KeepsCellsStep ==
  ASSUME BufferInv, NEW b, MarksInOrder(b), b.cells = buffer.cells, Keeps(b)
  PROVE  BufferInv'
<1>1. Len(buffer.cells) \in Nat
  BY DEF BufferInv, MarksInOrder, AnyBuffer
<1>2. Extends(buffer, b)
  BY <1>1 DEF Extends
<1> QED
  BY <1>2, KeepsStep

\* A buffer of which other flags are set.
LEMMA FlagsAre ==
  ASSUME NEW b, MarksInOrder(b), NEW m \in Int, m <= b.position, NEW n \in Nat, NEW auto \in BOOLEAN, NEW allowed \in BOOLEAN
  PROVE  /\ MarksInOrder([b EXCEPT !.mark = m]) /\ [b EXCEPT !.mark = m].cells = b.cells
         /\ MarksInOrder([b EXCEPT !.minimumCapacity = n]) /\ [b EXCEPT !.minimumCapacity = n].cells = b.cells
         /\ MarksInOrder([b EXCEPT !.autoExpand = auto]) /\ [b EXCEPT !.autoExpand = auto].cells = b.cells
         /\ MarksInOrder([b EXCEPT !.recapacityAllowed = allowed]) /\ [b EXCEPT !.recapacityAllowed = allowed].cells = b.cells
         /\ [b EXCEPT !.recapacityAllowed = allowed].limit = b.limit
<1>1. MarksInOrder([b EXCEPT !.mark = m]) /\ [b EXCEPT !.mark = m].cells = b.cells
  BY DEF MarksInOrder, AnyBuffer
<1>2. MarksInOrder([b EXCEPT !.minimumCapacity = n]) /\ [b EXCEPT !.minimumCapacity = n].cells = b.cells
  BY DEF MarksInOrder, AnyBuffer
<1>3. MarksInOrder([b EXCEPT !.autoExpand = auto]) /\ [b EXCEPT !.autoExpand = auto].cells = b.cells
  BY DEF MarksInOrder, AnyBuffer
<1>4. /\ MarksInOrder([b EXCEPT !.recapacityAllowed = allowed]) /\ [b EXCEPT !.recapacityAllowed = allowed].cells = b.cells
      /\ [b EXCEPT !.recapacityAllowed = allowed].limit = b.limit
  BY DEF MarksInOrder, AnyBuffer
<1> QED
  BY <1>1, <1>2, <1>3, <1>4

\* position(p), and what comes down to it.
LEMMA PositionSetIs ==
  ASSUME NEW b, MarksInOrder(b), NEW p \in Nat, IsAutoExpand(b) \/ p <= b.limit
  PROVE  MarksInOrder(PositionSet(b, p)) /\ Extends(b, PositionSet(b, p)) /\ b.limit <= PositionSet(b, p).limit
         /\ SameFlags(b, PositionSet(b, p))
<1>1. PICK c : c = AutoExpanded(b, p, 0)
  OBVIOUS
<1>2. MarksInOrder(c) /\ Extends(b, c) /\ SameFlags(b, c) /\ (IsAutoExpand(b) => p + 0 <= c.limit) /\ b.limit <= c.limit
  BY <1>1, AutoExpandedIs
<1>3. b.limit \in Nat /\ c.limit \in Nat
  BY <1>2 DEF MarksInOrder, AnyBuffer
<1>4. p <= c.limit
  <2>1. CASE IsAutoExpand(b)
    BY <1>2, <1>3, <2>1
  <2>2. CASE p <= b.limit
    BY <1>2, <1>3, <2>2
  <2> QED
    BY <2>1, <2>2
<1>5. PICK d : d = AtPosition(c, p)
  OBVIOUS
<1>6. MarksInOrder(d) /\ d.cells = c.cells /\ SameFlags(c, d) /\ d.limit = c.limit
  BY <1>2, <1>4, <1>5, AtPositionIs
<1>7. Extends(b, d) /\ SameFlags(b, d)
  BY <1>2, <1>6 DEF Extends, SameFlags
<1>8. PositionSet(b, p) = d
  BY <1>1, <1>5 DEF PositionSet
<1> QED
  BY <1>2, <1>6, <1>7, <1>8

\* limit(l) of a buffer that may expand: it grows first, and keeps its cells.
LEMMA LimitSetIs ==
  ASSUME NEW b, MarksInOrder(b), NEW l \in Nat, IsAutoExpand(b) \/ l <= Len(b.cells)
  PROVE  MarksInOrder(LimitSet(b, l)) /\ Extends(b, LimitSet(b, l)) /\ LimitSet(b, l).limit = l
         /\ SameFlags(b, LimitSet(b, l))
<1>1. PICK c : c = AutoExpanded(b, l, 0)
  OBVIOUS
<1>2. MarksInOrder(c) /\ Extends(b, c) /\ SameFlags(b, c) /\ (IsAutoExpand(b) => l + 0 <= c.limit)
  BY <1>1, AutoExpandedIs
<1>3. Len(b.cells) \in Nat /\ c.limit \in Nat /\ Len(c.cells) \in Nat /\ c.limit <= Len(c.cells)
  BY <1>2 DEF MarksInOrder, AnyBuffer
<1>4. l <= Len(c.cells)
  <2>1. CASE IsAutoExpand(b)
    BY <1>2, <1>3, <2>1
  <2>2. CASE l <= Len(b.cells)
    <3>1. Len(b.cells) <= Len(c.cells)
      BY <1>2 DEF Extends
    <3> QED
      BY <1>3, <2>2, <3>1
  <2> QED
    BY <2>1, <2>2
<1>5. PICK d : d = AtLimit(c, l)
  OBVIOUS
<1>6. MarksInOrder(d) /\ d.cells = c.cells /\ SameFlags(c, d) /\ d.limit = l
  BY <1>2, <1>4, <1>5, AtLimitIs
<1>7. Extends(b, d) /\ SameFlags(b, d)
  BY <1>2, <1>6 DEF Extends, SameFlags
<1>8. LimitSet(b, l) = d
  BY <1>1, <1>5 DEF LimitSet
<1> QED
  BY <1>6, <1>7, <1>8

\* Where there is room, an automatic expansion has made it.
LEMMA FitsIs ==
  ASSUME NEW b, MarksInOrder(b), NEW pos \in Nat, NEW size \in Nat, Fits(b, pos + size)
  PROVE  pos + size <= AutoExpanded(b, pos, size).limit
<1>1. IsAutoExpand(b) \/ pos + size <= b.limit
  BY DEF Fits
<1>2. PICK c : c = AutoExpanded(b, pos, size)
  OBVIOUS
<1>3. MarksInOrder(c) /\ (IsAutoExpand(b) => pos + size <= c.limit) /\ b.limit <= c.limit
  BY <1>2, AutoExpandedIs
<1>4. b.limit \in Nat /\ c.limit \in Nat
  BY <1>3 DEF MarksInOrder, AnyBuffer
<1>5. pos + size <= c.limit
  <2>1. CASE IsAutoExpand(b)
    BY <1>3, <2>1
  <2>2. CASE pos + size <= b.limit
    BY <1>3, <1>4, <2>2
  <2> QED
    BY <1>1, <2>1, <2>2
<1> QED
  BY <1>2, <1>5

\* The operations on the indices, and those that take.
LEMMA IndicesStep ==
  ASSUME BufferInv,
         SetPosition \/ SetLimit \/ SetMark \/ Reset \/ Flip \/ Rewind \/ Clear \/ Skip \/ Get \/ GetValue \/ Take
  PROVE  BufferInv'
<1>1. MarksInOrder(buffer) /\ buffer.position \in Nat /\ buffer.limit \in Nat /\ buffer.mark \in Int /\ Len(buffer.cells) \in Nat
      /\ buffer.mark <= buffer.position /\ buffer.position <= buffer.limit /\ buffer.limit <= Len(buffer.cells)
  BY DEF BufferInv, MarksInOrder, AnyBuffer
<1>2. CASE SetPosition
  <2>1. PICK p \in 0..MaxCapacity : Fits(buffer, p) /\ Keeps(PositionSet(buffer, p))
    BY <1>2 DEF SetPosition
  <2>2. p \in Nat /\ (IsAutoExpand(buffer) \/ p <= buffer.limit)
    BY <2>1 DEF Fits
  <2> QED
    BY <1>1, <2>1, <2>2, PositionSetIs, KeepsStep
<1>3. CASE SetLimit
  <2>1. PICK l \in Nat : (IsAutoExpand(buffer) \/ l <= Len(buffer.cells)) /\ Keeps(LimitSet(buffer, l))
    <3>1. CASE IsAutoExpand(buffer)
      BY <1>3, <3>1 DEF SetLimit
    <3>2. CASE ~IsAutoExpand(buffer)
      BY <1>1, <1>3, <3>2 DEF SetLimit, Capacity
    <3> QED
      BY <3>1, <3>2
  <2> QED
    BY <1>1, <2>1, LimitSetIs, KeepsStep
<1>4. CASE SetMark
  <2>1. buffer.position \in Int /\ buffer.position <= buffer.position
    BY <1>1
  <2>2. PICK b : b = [buffer EXCEPT !.mark = buffer.position]
    OBVIOUS
  <2>3. MarksInOrder(b) /\ b.cells = buffer.cells
    BY <1>1, <2>1, <2>2, FlagsAre
  <2> QED
    BY <1>4, <2>2, <2>3, KeepsCellsStep DEF SetMark
<1>5. ASSUME NEW p \in Nat, p <= buffer.limit, Keeps(AtPosition(buffer, p)) PROVE BufferInv'
  BY <1>1, <1>5, AtPositionIs, KeepsCellsStep
<1>6. CASE Reset
  <2>1. buffer.mark \in Nat /\ buffer.mark <= buffer.limit
    BY <1>1, <1>6 DEF Reset
  <2> QED
    BY <1>5, <1>6, <2>1 DEF Reset
<1>7. CASE Flip \/ Rewind
  <2>1. ASSUME NEW l \in Nat, l <= buffer.limit PROVE
          /\ MarksInOrder([buffer EXCEPT !.limit = l, !.position = 0, !.mark = -1])
          /\ [buffer EXCEPT !.limit = l, !.position = 0, !.mark = -1].cells = buffer.cells
    <3>1. l <= Len(buffer.cells)
      BY <1>1, <2>1
    <3>2. PICK p \in Nat, m \in Int : p = 0 /\ m = -1
      OBVIOUS
    <3>3. [buffer EXCEPT !.limit = l, !.position = p, !.mark = m] \in AnyBuffer
      BY <1>1 DEF MarksInOrder, AnyBuffer
    <3>4. PICK b : b = [buffer EXCEPT !.limit = l, !.position = p, !.mark = m]
      OBVIOUS
    <3>5. b.limit = l /\ b.position = p /\ b.mark = m /\ b.cells = buffer.cells
      BY <1>1, <3>4 DEF MarksInOrder, AnyBuffer
    <3>6. MarksInOrder(b)
      BY <3>1, <3>2, <3>3, <3>4, <3>5 DEF MarksInOrder
    <3> QED
      BY <3>2, <3>4, <3>5, <3>6
  <2>2. CASE Flip
    BY <1>1, <2>1, <2>2, KeepsCellsStep DEF Flip
  <2>3. CASE Rewind
    <3>1. [buffer EXCEPT !.position = 0, !.mark = -1] = [buffer EXCEPT !.limit = buffer.limit, !.position = 0, !.mark = -1]
      BY <1>1 DEF MarksInOrder, AnyBuffer
    <3>2. buffer.limit <= buffer.limit
      BY <1>1
    <3> QED
      BY <1>1, <2>1, <2>3, <3>1, <3>2, KeepsCellsStep DEF Rewind
  <2> QED
    BY <1>7, <2>2, <2>3
<1>8. CASE Clear
  BY <1>1, <1>8, ClearedIs, KeepsCellsStep DEF Clear
<1>9. CASE Skip
  <2>1. PICK size \in 0..MaxCapacity :
          /\ Fits(buffer, buffer.position + size)
          /\ LET b == AutoExpanded(buffer, buffer.position, size) IN Keeps(PositionSet(b, b.position + size))
    BY <1>9 DEF Skip
  <2>2. PICK b : b = AutoExpanded(buffer, buffer.position, size)
    OBVIOUS
  <2>3. size \in Nat /\ MarksInOrder(b) /\ Extends(buffer, b) /\ b.position = buffer.position
    <3>1. size \in Nat
      OBVIOUS
    <3> QED
      BY <1>1, <2>2, <3>1, AutoExpandedIs
  <2>4. buffer.position + size <= b.limit
    BY <1>1, <2>1, <2>2, <2>3, FitsIs
  <2>5. PICK p \in Nat : p = b.position + size /\ p <= b.limit
    BY <1>1, <2>3, <2>4
  <2>6. PICK c : c = PositionSet(b, p)
    OBVIOUS
  <2>7. MarksInOrder(c) /\ Extends(b, c)
    BY <2>3, <2>5, <2>6, PositionSetIs
  <2>8. Extends(buffer, c)
    BY <1>1, <2>3, <2>7, ExtendsAll
  <2>9. Keeps(c)
    BY <2>1, <2>2, <2>5, <2>6
  <2> QED
    BY <2>7, <2>8, <2>9, KeepsStep
<1>10. CASE Get
  <2>1. PICK size \in 1..MaxCapacity : buffer.position + size <= buffer.limit /\ Keeps(AtPosition(buffer, buffer.position + size))
    BY <1>10 DEF Get
  <2>2. buffer.position + size \in Nat
    BY <1>1
  <2> QED
    BY <1>5, <2>1, <2>2
<1>11. CASE GetValue
  BY <1>1, <1>5, <1>11 DEF GetValue
<1>12. CASE Take
  <2>1. PICK n \in 0..(buffer.limit - buffer.position) : Keeps(AtPosition(buffer, buffer.position + n))
    BY <1>12 DEF Take
  <2>2. buffer.position + n \in Nat /\ buffer.position + n <= buffer.limit
    BY <1>1
  <2> QED
    BY <1>5, <2>1, <2>2
<1> QED
  BY <1>2, <1>3, <1>4, <1>6, <1>7, <1>8, <1>9, <1>10, <1>11, <1>12

\* Bytes that are alike.
LEMMA AlikeAre ==
  ASSUME NEW byte \in Bytes, NEW n \in Nat
  PROVE  [k \in 1..n |-> byte] \in Seq(Bytes) /\ Len([k \in 1..n |-> byte]) = n
OBVIOUS

\* The two bytes that putShort() stores.
LEMMA TwoAre == ASSUME NEW byte \in Bytes PROVE <<byte, byte>> \in Seq(Bytes) /\ Len(<<byte, byte>>) = 2
<1>1. <<byte, byte>> = [k \in 1..2 |-> byte]
  OBVIOUS
<1> QED
  BY <1>1, AlikeAre

\* A buffer whose bytes from i on are those that were put there.
LEMMA PutsStep ==
  ASSUME BufferInv, NEW b, MarksInOrder(b), Extends(buffer, b), NEW i \in Nat, NEW bytes \in Seq(Bytes),
         i + Len(bytes) <= Len(b.cells), MarksInOrder(buffer)', buffer'.cells = Written(b, i, bytes).cells, Puts(i, bytes)
  PROVE  BufferInv'
<1>1. Len(buffer.cells) \in Nat /\ Len(b.cells) \in Nat /\ Len(bytes) \in Nat
  BY CellsAre DEF BufferInv
<1>2. /\ Len(buffer'.cells) = Len(b.cells)
      /\ \A j \in 1..Len(b.cells) : buffer'.cells[j] = IF j \in (i + 1)..(i + Len(bytes)) THEN bytes[j - i] ELSE b.cells[j]
  BY WrittenIs
<1>3. DOMAIN put \subseteq Nat /\ Len(buffer.cells) <= Len(b.cells)
  BY DEF BufferInv, PutKept, Extends
<1>4. DOMAIN put' = DOMAIN put \cup i..(i + Len(bytes) - 1)
  BY DEF Puts
<1>5. ASSUME NEW j \in DOMAIN put' PROVE j \in Nat /\ j < Len(buffer'.cells) /\ buffer'.cells[j + 1] = put'[j]
  <2>1. CASE j \in i..(i + Len(bytes) - 1)
    <3>1. j \in Nat /\ j < Len(b.cells) /\ j + 1 \in 1..Len(b.cells) /\ j + 1 \in (i + 1)..(i + Len(bytes))
          /\ (j + 1) - i = j - i + 1
      BY SMTT(30), <1>1, <2>1
    <3>2. put'[j] = bytes[j - i + 1]
      BY <1>4, <1>5, <2>1 DEF Puts
    <3>3. buffer'.cells[j + 1] = bytes[(j + 1) - i]
      BY <1>2, <3>1
    <3> QED
      BY <1>2, <3>1, <3>2, <3>3
  <2>2. CASE j \notin i..(i + Len(bytes) - 1)
    <3>1. j \in DOMAIN put /\ j \in Nat /\ put'[j] = put[j]
      BY <1>3, <1>4, <1>5, <2>2 DEF Puts
    <3>2. j < Len(buffer.cells) /\ buffer.cells[j + 1] = put[j]
      BY <3>1 DEF BufferInv, PutKept, Capacity
    <3>3. j + 1 \in 1..Len(buffer.cells) /\ j + 1 \in 1..Len(b.cells) /\ j < Len(b.cells)
          /\ j + 1 \notin (i + 1)..(i + Len(bytes))
      BY <1>1, <1>3, <2>2, <3>1, <3>2
    <3>4. b.cells[j + 1] = buffer.cells[j + 1]
      BY <3>3 DEF Extends
    <3>5. buffer'.cells[j + 1] = b.cells[j + 1]
      BY <1>2, <3>3
    <3> QED
      BY <1>2, <3>1, <3>2, <3>3, <3>4, <3>5
  <2> QED
    BY <2>1, <2>2
<1>6. PutKept'
  BY <1>5 DEF PutKept, Capacity
<1> QED
  BY <1>6 DEF BufferInv

\* What a putter of a value or fill() overwrites is given up.
LEMMA GivenUpStep ==
  ASSUME BufferInv, NEW b, MarksInOrder(b), Extends(buffer, b), NEW i \in Nat, NEW n \in Nat,
         NEW bytes \in Seq(Bytes), Len(bytes) = n,
         i + n <= Len(b.cells), MarksInOrder(buffer)', buffer'.cells = Written(b, i, bytes).cells, GivenUp(i, n)
  PROVE  BufferInv'
<1>1. Len(buffer.cells) \in Nat /\ Len(b.cells) \in Nat /\ i + Len(bytes) <= Len(b.cells)
  <2>1. Len(buffer.cells) \in Nat /\ Len(b.cells) \in Nat
    BY CellsAre DEF BufferInv
  <2>2. Len(bytes) = n /\ i + n <= Len(b.cells)
    OBVIOUS
  <2> QED
    BY <2>1, <2>2
<1>2. /\ Len(buffer'.cells) = Len(b.cells)
      /\ \A j \in 1..Len(b.cells) : buffer'.cells[j] = IF j \in (i + 1)..(i + Len(bytes)) THEN bytes[j - i] ELSE b.cells[j]
  <2>1. i + Len(bytes) <= Len(b.cells)
    BY <1>1
  <2>2. PICK w : w = Written(b, i, bytes)
    OBVIOUS
  <2>3. Len(w.cells) = Len(b.cells)
    BY <2>1, <2>2, WrittenIs
  <2>4. \A j \in 1..Len(b.cells) : w.cells[j] = IF j \in (i + 1)..(i + Len(bytes)) THEN bytes[j - i] ELSE b.cells[j]
    BY ZenonT(30), <2>1, <2>2, WrittenIs
  <2> QED
    BY <2>2, <2>3, <2>4
<1>3. ASSUME NEW j \in DOMAIN put' PROVE j \in Nat /\ j < Len(buffer'.cells) /\ buffer'.cells[j + 1] = put'[j]
  <2>1. j \in DOMAIN put /\ j \notin i..(i + n - 1) /\ put'[j] = put[j]
    BY <1>3 DEF GivenUp
  <2>2. j \in Nat /\ j < Len(buffer.cells) /\ buffer.cells[j + 1] = put[j] /\ Len(buffer.cells) <= Len(b.cells)
    BY <2>1 DEF BufferInv, PutKept, Capacity, Extends
  <2>3. j + 1 \in 1..Len(buffer.cells) /\ j + 1 \in 1..Len(b.cells) /\ j < Len(b.cells)
    BY <1>1, <2>2
  <2>4. j + 1 \notin (i + 1)..(i + Len(bytes))
    <3>1. Len(bytes) = n
      OBVIOUS
    <3> QED
      BY <2>1, <2>2, <3>1
  <2>5. b.cells[j + 1] = buffer.cells[j + 1]
    BY <2>3 DEF Extends
  <2>6. buffer'.cells[j + 1] = b.cells[j + 1]
    BY <1>2, <2>3, <2>4
  <2> QED
    BY <1>2, <2>1, <2>2, <2>3, <2>5, <2>6
<1>4. PutKept'
  BY <1>3 DEF PutKept, Capacity
<1> QED
  BY <1>4 DEF BufferInv

\* The relative puts: of bytes, of strings and of values.
LEMMA PutThere ==
  ASSUME BufferInv, NEW size \in Nat, NEW room \in Nat, NEW byte \in Bytes, NEW b, b = AutoExpanded(buffer, buffer.position, room),
         buffer.position + size <= b.limit,
         buffer' = AtPosition(Written(b, b.position, [k \in 1..size |-> byte]), b.position + size),
         Puts(buffer.position, [k \in 1..size |-> byte])
  PROVE  BufferInv'
<1>1. MarksInOrder(buffer) /\ buffer.position \in Nat
  BY DEF BufferInv, MarksInOrder, AnyBuffer
<1>2. PICK bytes \in Seq(Bytes) : bytes = [k \in 1..size |-> byte] /\ Len(bytes) = size
  BY AlikeAre
<1>3. MarksInOrder(b) /\ Extends(buffer, b) /\ b.position = buffer.position
  BY <1>1, AutoExpandedIs
<1>4. b.limit \in Nat /\ Len(b.cells) \in Nat /\ b.limit <= Len(b.cells)
  BY <1>3 DEF MarksInOrder, AnyBuffer
<1>5. PICK p \in Nat : p = buffer.position + size /\ p <= b.limit
  BY <1>1
<1>6. buffer.position + Len(bytes) <= Len(b.cells)
  BY <1>1, <1>2, <1>4, <1>5
<1>7. PICK c : c = Written(b, buffer.position, bytes)
  OBVIOUS
<1>8. MarksInOrder(c) /\ c.limit = b.limit
  BY <1>1, <1>3, <1>6, <1>7, WrittenIs
<1>9. buffer' = AtPosition(c, p)
  BY <1>2, <1>3, <1>5, <1>7
<1>10. PICK d : d = AtPosition(c, p)
  OBVIOUS
<1>11. MarksInOrder(d) /\ d.cells = c.cells
  BY <1>5, <1>8, <1>10, AtPositionIs
<1>12. MarksInOrder(buffer)' /\ buffer'.cells = Written(b, buffer.position, bytes).cells
  BY <1>7, <1>9, <1>10, <1>11 DEF MarksInOrder
<1>13. Puts(buffer.position, bytes)
  BY <1>2
<1> QED
  BY <1>1, <1>3, <1>6, <1>12, <1>13, PutsStep

\* Puts never overwrite what they do not own.
LEMMA PutStep == ASSUME BufferInv, Put \/ PutAt \/ PutString \/ PutValue \/ PutValueAt PROVE BufferInv'
<1>1. MarksInOrder(buffer) /\ buffer.position \in Nat /\ buffer.limit \in Nat
  BY DEF BufferInv, MarksInOrder, AnyBuffer
<1>2. CASE Put
  <2>1. PICK size \in 1..2, byte \in Bytes :
          LET bytes == [k \in 1..size |-> byte]
              b == AutoExpanded(buffer, buffer.position, size)
          IN  /\ Fits(buffer, buffer.position + size)
              /\ buffer' = AtPosition(Written(b, b.position, bytes), b.position + size)
              /\ Puts(buffer.position, bytes)
    BY <1>2 DEF Put
  <2>2. PICK b : b = AutoExpanded(buffer, buffer.position, size)
    OBVIOUS
  <2>3. size \in Nat
    OBVIOUS
  <2>4. buffer.position + size <= b.limit
    BY <1>1, <2>1, <2>2, <2>3, FitsIs
  <2>5. /\ buffer' = AtPosition(Written(b, b.position, [k \in 1..size |-> byte]), b.position + size)
        /\ Puts(buffer.position, [k \in 1..size |-> byte])
    BY <2>1, <2>2
  <2> QED
    BY <2>2, <2>3, <2>4, <2>5, PutThere
<1>3. CASE PutAt
  <2>1. PICK i \in 0..(MaxCapacity - 1), byte \in Bytes :
          /\ Fits(buffer, i + 1)
          /\ buffer' = Written(AutoExpanded(buffer, i, 1), i, <<byte>>)
          /\ Puts(i, <<byte>>)
    BY <1>3 DEF PutAt
  <2>2. PICK b : b = AutoExpanded(buffer, i, 1)
    OBVIOUS
  <2>3. i \in Nat /\ 1 \in Nat /\ <<byte>> \in Seq(Bytes) /\ Len(<<byte>>) = 1
    OBVIOUS
  <2>4. i + 1 <= b.limit
    BY <1>1, <2>1, <2>2, <2>3, FitsIs
  <2>5. MarksInOrder(b) /\ Extends(buffer, b)
    BY <1>1, <2>2, <2>3, AutoExpandedIs
  <2>6. b.limit \in Nat /\ Len(b.cells) \in Nat /\ b.limit <= Len(b.cells)
    BY <2>5 DEF MarksInOrder, AnyBuffer
  <2>7. PICK bytes \in Seq(Bytes) : bytes = <<byte>> /\ Len(bytes) = 1
    BY <2>3
  <2>8. i + Len(bytes) <= Len(b.cells)
    BY <2>3, <2>4, <2>6, <2>7
  <2>9. PICK c : c = Written(b, i, bytes)
    OBVIOUS
  <2>10. MarksInOrder(c)
    BY <2>3, <2>5, <2>8, <2>9, WrittenIs
  <2>11. buffer' = c /\ Puts(i, bytes)
    BY <2>1, <2>2, <2>7, <2>9
  <2>12. MarksInOrder(buffer)' /\ buffer'.cells = Written(b, i, bytes).cells
    BY <2>9, <2>10, <2>11 DEF MarksInOrder
  <2> QED
    BY <2>3, <2>5, <2>8, <2>11, <2>12, PutsStep
<1>4. CASE PutString
  <2>1. PICK length \in 0..1, byte \in Bytes :
          LET b == AutoExpanded(buffer, buffer.position, length + 1)
              size == IF Fits(buffer, buffer.position + length + 1) THEN length + 1 ELSE length
              bytes == [k \in 1..size |-> byte]
          IN  /\ Fits(buffer, buffer.position + size)
              /\ buffer' = AtPosition(Written(b, b.position, bytes), b.position + size)
              /\ Puts(buffer.position, bytes)
    BY <1>4 DEF PutString
  <2>2. PICK size : size = IF Fits(buffer, buffer.position + length + 1) THEN length + 1 ELSE length
    OBVIOUS
  <2>3. PICK b : b = AutoExpanded(buffer, buffer.position, length + 1)
    OBVIOUS
  <2>4. size \in Nat /\ length + 1 \in Nat /\ length \in Nat /\ size <= length + 1
    BY <2>2
  <2>5. /\ Fits(buffer, buffer.position + size)
        /\ buffer' = AtPosition(Written(b, b.position, [k \in 1..size |-> byte]), b.position + size)
        /\ Puts(buffer.position, [k \in 1..size |-> byte])
    BY <2>1, <2>2, <2>3
  <2>6. MarksInOrder(b) /\ buffer.limit <= b.limit /\ (IsAutoExpand(buffer) => buffer.position + (length + 1) <= b.limit)
    BY <1>1, <2>3, <2>4, AutoExpandedIs
  <2>7. b.limit \in Nat
    BY <2>6 DEF MarksInOrder, AnyBuffer
  <2>8. buffer.position + size <= b.limit
    <3>1. CASE IsAutoExpand(buffer)
      BY <1>1, <2>4, <2>6, <2>7, <3>1
    <3>2. CASE ~IsAutoExpand(buffer)
      <4>1. buffer.position + size <= buffer.limit
        BY <2>5, <3>2 DEF Fits
      <4> QED
        BY <1>1, <2>4, <2>6, <2>7, <4>1
    <3> QED
      BY <3>1, <3>2
  <2> QED
    BY <2>3, <2>4, <2>5, <2>8, PutThere
<1>5. CASE PutValue
  <2>1. PICK byte \in Bytes :
          LET b == AutoExpanded(buffer, buffer.position, 2)
              end == buffer.position + 2
              there == Written(b, b.position, <<byte, byte>>)
          IN  /\ end <= MaxCapacity /\ end <= Capacity(b)
              /\ \/ end <= b.limit /\ buffer' = AtPosition(there, end) /\ Puts(buffer.position, <<byte, byte>>)
                 \/ end > b.limit /\ buffer' = there /\ GivenUp(buffer.position, 2)
    BY <1>5 DEF PutValue
  <2>2. PICK b : b = AutoExpanded(buffer, buffer.position, 2)
    OBVIOUS
  <2>3. MarksInOrder(b) /\ Extends(buffer, b) /\ b.position = buffer.position
    BY <1>1, <2>2, AutoExpandedIs
  <2>4. [k \in 1..2 |-> byte] = <<byte, byte>>
    OBVIOUS
  <2>5. buffer.position + 2 <= Len(b.cells)
    BY <2>1, <2>2 DEF Capacity
  <2>6. CASE buffer.position + 2 <= b.limit
    <3>1. /\ buffer' = AtPosition(Written(b, b.position, <<byte, byte>>), b.position + 2)
          /\ Puts(buffer.position, <<byte, byte>>)
      <4>1. b.limit \in Nat
        BY <2>3 DEF MarksInOrder, AnyBuffer
      <4>2. ~(buffer.position + 2 > b.limit)
        BY <1>1, <2>6, <4>1
      <4> QED
        BY <2>1, <2>2, <2>3, <4>2
    <3> QED
      BY <2>2, <2>4, <2>6, <3>1, PutThere
  <2>7. CASE ~(buffer.position + 2 <= b.limit)
    <3>1. PICK bytes \in Seq(Bytes) : bytes = <<byte, byte>> /\ Len(bytes) = 2
      BY TwoAre
    <3>2. buffer' = Written(b, buffer.position, bytes) /\ GivenUp(buffer.position, 2)
      BY <2>1, <2>2, <2>3, <2>7, <3>1
    <3>3. PICK c : c = Written(b, buffer.position, bytes)
      OBVIOUS
    <3>4. MarksInOrder(c)
      BY <1>1, <2>3, <2>5, <3>1, <3>3, WrittenIs
    <3>5. MarksInOrder(buffer)' /\ buffer'.cells = Written(b, buffer.position, bytes).cells
      BY <3>2, <3>3, <3>4 DEF MarksInOrder
    <3> QED
      <4>1. 2 \in Nat
        OBVIOUS
      <4> QED
        BY <1>1, <2>3, <2>5, <3>1, <3>2, <3>5, <4>1, GivenUpStep
  <2> QED
    BY <2>6, <2>7
<1>6. CASE PutValueAt
  <2>1. PICK i \in 0..(MaxCapacity - 2), byte \in Bytes :
          LET b == AutoExpanded(buffer, i, 2)
              at == buffer.position + i
          IN  /\ at + 2 <= Capacity(b)
              /\ buffer' = Written(b, at, <<byte, byte>>)
              /\ IF buffer.position = 0 THEN Puts(i, <<byte, byte>>) ELSE GivenUp(at, 2)
    BY <1>6 DEF PutValueAt
  <2>2. PICK b : b = AutoExpanded(buffer, i, 2)
    OBVIOUS
  <2>3. PICK at \in Nat : at = buffer.position + i
    BY <1>1
  <2>4. MarksInOrder(b) /\ Extends(buffer, b)
    <3>1. i \in Nat
      OBVIOUS
    <3> QED
      BY <1>1, <2>2, <3>1, AutoExpandedIs
  <2>5. PICK bytes \in Seq(Bytes) : bytes = <<byte, byte>> /\ Len(bytes) = 2
    BY TwoAre
  <2>6. /\ at + 2 <= Len(b.cells) /\ buffer' = Written(b, at, bytes)
        /\ IF buffer.position = 0 THEN Puts(i, bytes) ELSE GivenUp(at, 2)
    BY <2>1, <2>2, <2>3, <2>5 DEF Capacity
  <2>7. PICK c : c = Written(b, at, bytes)
    OBVIOUS
  <2>8. MarksInOrder(c)
    BY <2>4, <2>5, <2>6, <2>7, WrittenIs
  <2>9. MarksInOrder(buffer)' /\ buffer'.cells = Written(b, at, bytes).cells
    BY <2>6, <2>7, <2>8 DEF MarksInOrder
  <2>10. CASE buffer.position = 0
    <3>1. at = i /\ Puts(at, bytes)
      BY <2>3, <2>6, <2>10
    <3> QED
      BY <2>4, <2>5, <2>6, <2>9, <3>1, PutsStep
  <2>11. CASE buffer.position # 0
    <3>1. 2 \in Nat /\ GivenUp(at, 2)
      BY <2>6, <2>11
    <3> QED
      BY <2>4, <2>5, <2>6, <2>9, <3>1, GivenUpStep
  <2> QED
    BY <2>10, <2>11
<1> QED
  BY <1>2, <1>3, <1>4, <1>5, <1>6

\* fill() keeps or gives up what it overwrites.
LEMMA FillsStep ==
  ASSUME BufferInv, NEW size \in Nat, NEW byte \in Bytes, NEW p \in Nat, p <= buffer.position + size, Fills(size, byte, p)
  PROVE  BufferInv'
<1>1. MarksInOrder(buffer) /\ buffer.position \in Nat /\ buffer.limit \in Nat /\ buffer.position <= buffer.limit
  BY DEF BufferInv, MarksInOrder, AnyBuffer
<1>2. PICK b : b = AutoExpanded(buffer, buffer.position, size)
  OBVIOUS
<1>3. MarksInOrder(b) /\ Extends(buffer, b) /\ b.position = buffer.position /\ buffer.limit <= b.limit
  BY <1>1, <1>2, AutoExpandedIs
<1>4. b.limit \in Nat /\ Len(b.cells) \in Nat /\ b.limit <= Len(b.cells) /\ buffer.position <= Len(b.cells)
  <2>1. b.limit \in Nat /\ Len(b.cells) \in Nat /\ b.limit <= Len(b.cells)
    BY <1>3 DEF MarksInOrder, AnyBuffer
  <2> QED
    BY <1>1, <1>3, <2>1
<1>5. PICK n \in Nat : n = (IF buffer.position + size <= Capacity(b) THEN size ELSE Capacity(b) - buffer.position)
  BY <1>1, <1>4 DEF Capacity
<1>6. buffer.position + n <= Len(b.cells)
  BY <1>1, <1>4, <1>5 DEF Capacity
<1>7. PICK bytes \in Seq(Bytes) : bytes = [k \in 1..n |-> byte] /\ Len(bytes) = n
  BY <1>5, AlikeAre
<1>8. PICK c : c = Written(b, buffer.position, bytes)
  OBVIOUS
<1>9. MarksInOrder(c) /\ c.limit = b.limit
  <2>1. buffer.position + Len(bytes) <= Len(b.cells)
    BY <1>6, <1>7
  <2> QED
    BY <1>1, <1>3, <1>8, <2>1, WrittenIs
<1>10. \/ buffer.position + size <= b.limit /\ buffer' = AtPosition(c, p) /\ Puts(buffer.position, bytes)
       \/ buffer.position + size > b.limit /\ buffer' = c /\ GivenUp(buffer.position, n)
  BY <1>2, <1>5, <1>7, <1>8 DEF Fills
<1>11. CASE buffer.position + size <= b.limit /\ buffer' = AtPosition(c, p) /\ Puts(buffer.position, bytes)
  <2>1. PICK d : d = AtPosition(c, p)
    OBVIOUS
  <2>2. p <= c.limit
    BY <1>1, <1>4, <1>9, <1>11
  <2>3. MarksInOrder(d) /\ d.cells = c.cells
    BY <1>9, <2>1, <2>2, AtPositionIs
  <2>4. MarksInOrder(buffer)' /\ buffer'.cells = Written(b, buffer.position, bytes).cells
    BY <1>8, <1>11, <2>1, <2>3 DEF MarksInOrder
  <2>5. buffer.position + Len(bytes) <= Len(b.cells)
    BY <1>6, <1>7
  <2> QED
    BY <1>1, <1>3, <1>7, <1>11, <2>4, <2>5, PutsStep
<1>12. CASE buffer.position + size > b.limit /\ buffer' = c /\ GivenUp(buffer.position, n)
  <2>1. MarksInOrder(buffer)' /\ buffer'.cells = Written(b, buffer.position, bytes).cells
    BY <1>8, <1>9, <1>12 DEF MarksInOrder
  <2> QED
    BY <1>1, <1>3, <1>5, <1>6, <1>7, <1>12, <2>1, GivenUpStep
<1> QED
  BY <1>10, <1>11, <1>12

\* fill() and fillAndReset() leave the position behind what they stored, or where it was.
LEMMA FillStep == ASSUME BufferInv, Fill \/ FillAndReset PROVE BufferInv'
<1>1. buffer.position \in Nat
  BY DEF BufferInv, MarksInOrder, AnyBuffer
<1>2. CASE Fill
  <2>1. PICK size \in 0..MaxCapacity, byte \in Bytes : Fills(size, byte, buffer.position + size)
    BY <1>2 DEF Fill
  <2>2. PICK p \in Nat : p = buffer.position + size /\ p <= buffer.position + size
    BY <1>1
  <2> QED
    BY <2>1, <2>2, FillsStep
<1>3. CASE FillAndReset
  <2>1. PICK size \in 0..MaxCapacity, byte \in Bytes : Fills(size, byte, buffer.position)
    BY <1>3 DEF FillAndReset
  <2>2. size \in Nat /\ buffer.position <= buffer.position + size
    BY <1>1
  <2> QED
    BY <1>1, <2>1, <2>2, FillsStep
<1> QED
  BY <1>2, <1>3

\* sweep() overwrites everything.
LEMMA SweepStep == ASSUME BufferInv, Sweep PROVE BufferInv'
<1>1. MarksInOrder(buffer) /\ Len(buffer.cells) \in Nat
  BY DEF BufferInv, MarksInOrder, AnyBuffer
<1>2. PICK byte \in Bytes :
        LET b == Cleared(buffer)
            bytes == [k \in 1..Capacity(b) |-> byte]
        IN  /\ buffer' = AtPosition(AtPosition(Written(AutoExpanded(b, 0, Capacity(b)), 0, bytes), Capacity(b)), 0)
            /\ put' = [i \in 0..(Capacity(b) - 1) |-> byte]
  BY DEF Sweep
<1>3. PICK b : b = Cleared(buffer)
  OBVIOUS
<1>4. MarksInOrder(b) /\ b.cells = buffer.cells /\ b.limit = Len(buffer.cells)
  BY <1>1, <1>3, ClearedIs
<1>5. PICK n \in Nat : n = Capacity(b) /\ n = Len(buffer.cells) /\ n = b.limit
  BY <1>1, <1>4 DEF Capacity
<1>6. PICK e : e = AutoExpanded(b, 0, n)
  OBVIOUS
<1>7. MarksInOrder(e) /\ b.limit <= e.limit
  <2>1. 0 \in Nat
    OBVIOUS
  <2> QED
    BY <1>4, <1>5, <1>6, <2>1, AutoExpandedIs
<1>8. PICK bytes \in Seq(Bytes) : bytes = [k \in 1..n |-> byte] /\ Len(bytes) = n
  BY <1>5, AlikeAre
<1>9. e.limit \in Nat /\ Len(e.cells) \in Nat /\ n <= e.limit /\ e.limit <= Len(e.cells)
  BY <1>5, <1>7 DEF MarksInOrder, AnyBuffer
<1>10. 0 \in Nat /\ 0 + Len(bytes) <= Len(e.cells) /\ n <= Len(e.cells)
  BY <1>5, <1>8, <1>9
<1>11. PICK w : w = Written(e, 0, bytes)
  OBVIOUS
<1>12. /\ MarksInOrder(w) /\ Len(w.cells) = Len(e.cells) /\ w.limit = e.limit
       /\ \A j \in 1..Len(e.cells) : w.cells[j] = IF j \in (0 + 1)..(0 + Len(bytes)) THEN bytes[j - 0] ELSE e.cells[j]
  BY <1>7, <1>10, <1>11, WrittenIs
<1>13. PICK c : c = AtPosition(w, n)
  OBVIOUS
<1>14. MarksInOrder(c) /\ c.cells = w.cells /\ c.limit = w.limit
  BY <1>5, <1>9, <1>12, <1>13, AtPositionIs
<1>15. PICK d : d = AtPosition(c, 0)
  OBVIOUS
<1>16. MarksInOrder(d) /\ d.cells = c.cells
  <2>1. 0 \in Nat /\ 0 <= c.limit
    BY <1>9, <1>12, <1>14
  <2> QED
    BY <1>14, <1>15, <2>1, AtPositionIs
<1>17. buffer' = d /\ put' = [i \in 0..(n - 1) |-> byte]
  BY <1>2, <1>3, <1>5, <1>6, <1>8, <1>11, <1>13, <1>15
<1>18. ASSUME NEW i \in DOMAIN put' PROVE i \in Nat /\ i < Len(buffer'.cells) /\ buffer'.cells[i + 1] = put'[i]
  <2>1. i \in 0..(n - 1) /\ put'[i] = byte
    BY <1>17
  <2>2. i \in Nat /\ i < Len(e.cells) /\ i + 1 \in 1..Len(e.cells) /\ i + 1 \in 1..n
    BY <1>5, <1>9, <1>10, <2>1
  <2>3. w.cells[i + 1] = bytes[i + 1]
    <3>1. i + 1 \in (0 + 1)..(0 + Len(bytes)) /\ (i + 1) - 0 = i + 1
      BY <1>8, <2>2
    <3> QED
      BY <1>12, <2>2, <3>1
  <2>4. bytes[i + 1] = byte
    BY <1>8, <2>2
  <2> QED
    BY <1>12, <1>14, <1>16, <1>17, <2>1, <2>2, <2>3, <2>4
<1>19. PutKept'
  BY <1>18 DEF PutKept, Capacity
<1>20. MarksInOrder(buffer)'
  BY <1>16, <1>17 DEF MarksInOrder
<1> QED
  BY <1>19, <1>20 DEF BufferInv

\* shrink() gives up what is behind the limit, and nothing else.
LEMMA ShrinkStep == ASSUME BufferInv, Shrink PROVE BufferInv'
<1>1. MarksInOrder(buffer) /\ buffer \in AnyBuffer /\ buffer.limit \in Nat /\ buffer.minimumCapacity \in Nat /\ Len(buffer.cells) \in Nat
      /\ buffer.cells \in Seq(BufferCells) /\ buffer.position \in Nat
      /\ buffer.position <= buffer.limit /\ buffer.limit <= Len(buffer.cells)
  BY DEF BufferInv, MarksInOrder, AnyBuffer
<1>2. PICK least \in Nat : least = (IF buffer.minimumCapacity > buffer.limit THEN buffer.minimumCapacity ELSE buffer.limit)
                           /\ buffer.limit <= least
  BY <1>1
<1>3. PICK halved \in Nat : halved = Halved(Capacity(buffer), least)
  BY <1>1, HalvedIs DEF Capacity
<1>4. PICK n \in Nat : n = (IF least > halved THEN least ELSE halved) /\ buffer.limit <= n
  BY <1>1, <1>2
<1> DEFINE cut == [i \in 1..n |-> IF i <= buffer.limit THEN buffer.cells[i] ELSE FreshByte]
<1>5. \/ buffer' = buffer /\ put' = put
      \/ buffer' = [buffer EXCEPT !.cells = cut, !.mark = -1] /\ (buffer' # buffer => put' = Below(buffer.limit))
         /\ (buffer' = buffer => put' = put)
  <2>1. buffer' = Shrunk(buffer) /\ put' = IF buffer' = buffer THEN put ELSE Below(buffer.limit)
    BY DEF Shrink
  <2>2. Shrunk(buffer) = buffer \/ Shrunk(buffer) = [buffer EXCEPT !.cells = cut, !.mark = -1]
    BY <1>1, <1>2, <1>3, <1>4 DEF Shrunk, AnyBuffer
  <2> QED
    BY <2>1, <2>2
<1>6. CASE buffer' = buffer
  <2>1. put' = put
    BY <1>5, <1>6
  <2> QED
    BY <1>6, <2>1 DEF BufferInv, MarksInOrder, PutKept, Capacity
<1>7. CASE buffer' # buffer
  <2>1. \A i \in 1..n : cut[i] \in BufferCells
    <3>1. ASSUME NEW i \in 1..n PROVE cut[i] \in BufferCells
      <4>1. CASE i <= buffer.limit
        <5>1. i \in 1..Len(buffer.cells)
          BY <1>1, <4>1
        <5> QED
          BY <1>1, <4>1, <5>1
      <4>2. CASE ~(i <= buffer.limit)
        BY <4>2 DEF BufferCells
      <4> QED
        BY <4>1, <4>2
    <3> QED
      BY <3>1
  <2>2. PICK s \in Seq(BufferCells) : s = cut /\ Len(s) = n
    <3>1. cut \in [1..n -> BufferCells]
      BY <2>1
    <3> HIDE DEF cut
    <3> QED
      BY <3>1
  <2>3. \A i \in 1..n : i <= buffer.limit => s[i] = buffer.cells[i]
    BY <2>2
  <2>4. PICK m \in Int : m = -1
    OBVIOUS
  <2>5. buffer' = [buffer EXCEPT !.cells = s, !.mark = m] /\ put' = Below(buffer.limit)
    BY <1>5, <1>7, <2>2, <2>4
  <2> HIDE DEF cut
  <2>6. buffer' \in AnyBuffer /\ buffer'.cells = s /\ buffer'.mark = m
        /\ buffer'.position = buffer.position /\ buffer'.limit = buffer.limit
    BY <1>1, <2>5 DEF AnyBuffer
  <2>7. MarksInOrder(buffer)'
    <3>1. m <= buffer.position
      BY <1>1, <2>4
    <3> QED
      BY <1>1, <1>4, <2>2, <2>6, <3>1 DEF MarksInOrder, AnyBuffer
  <2>8. ASSUME NEW i \in DOMAIN put' PROVE i \in Nat /\ i < Len(buffer'.cells) /\ buffer'.cells[i + 1] = put'[i]
    <3>1. i \in DOMAIN put /\ i < buffer.limit /\ put'[i] = put[i]
      BY <2>5 DEF Below
    <3>2. i \in Nat /\ buffer.cells[i + 1] = put[i]
      BY <3>1 DEF BufferInv, PutKept
    <3>3. i + 1 \in 1..n /\ i + 1 <= buffer.limit /\ i < n
      BY <1>1, <1>4, <3>1, <3>2
    <3> QED
      BY <2>2, <2>3, <2>6, <3>1, <3>2, <3>3
  <2>9. PutKept'
    BY <2>8 DEF PutKept, Capacity
  <2> QED
    BY <2>7, <2>9 DEF BufferInv
<1> QED
  BY <1>6, <1>7

\* compact() moves what is left to the front.
LEMMA CompactStep == ASSUME BufferInv, Compact PROVE BufferInv'
<1>1. buffer \in AnyBuffer /\ buffer.limit \in Nat /\ Len(buffer.cells) \in Nat
      /\ buffer.cells \in Seq(BufferCells) /\ DOMAIN buffer.cells = 1..Len(buffer.cells) /\ buffer.position \in Nat
      /\ buffer.position <= buffer.limit /\ buffer.limit <= Len(buffer.cells)
  BY DEF BufferInv, MarksInOrder, AnyBuffer
<1>2. PICK n \in Nat : n = buffer.limit - buffer.position
  BY <1>1
<1> DEFINE moved == [i \in DOMAIN buffer.cells |-> IF i <= n THEN buffer.cells[i + buffer.position] ELSE buffer.cells[i]]
<1>3. \A i \in 1..Len(buffer.cells) : moved[i] \in BufferCells
  <2>1. ASSUME NEW i \in 1..Len(buffer.cells) PROVE moved[i] \in BufferCells
    <3>1. CASE i <= n
      <4>1. i + buffer.position \in 1..Len(buffer.cells)
        BY <1>1, <1>2, <3>1
      <4> QED
        BY <1>1, <3>1, <4>1
    <3>2. CASE ~(i <= n)
      BY <1>1, <3>2
    <3> QED
      BY <3>1, <3>2
  <2> QED
    BY <2>1
<1>4. PICK s \in Seq(BufferCells) : s = moved /\ Len(s) = Len(buffer.cells)
  <2>1. moved \in [1..Len(buffer.cells) -> BufferCells]
    BY <1>1, <1>3
  <2> HIDE DEF moved
  <2> QED
    BY <1>1, <2>1
<1>5. \A i \in 1..Len(buffer.cells) : i <= n => s[i] = buffer.cells[i + buffer.position]
  BY <1>1, <1>4
<1>6. PICK m \in Int, c \in Nat : m = -1 /\ c = Len(buffer.cells)
  BY <1>1
<1>7. buffer' = [buffer EXCEPT !.cells = s, !.position = n, !.limit = c, !.mark = m]
  BY <1>1, <1>2, <1>4, <1>6 DEF Compact, Capacity, AnyBuffer
<1>8. put' = [i \in {j \in 0..(n - 1) : j + buffer.position \in DOMAIN put} |-> put[i + buffer.position]]
  BY <1>2 DEF Compact
<1> HIDE DEF moved
<1>9. buffer' \in AnyBuffer /\ buffer'.cells = s /\ buffer'.mark = m /\ buffer'.position = n /\ buffer'.limit = c
  BY <1>1, <1>7 DEF AnyBuffer
<1>10. MarksInOrder(buffer)'
  <2>1. m <= n /\ n <= c /\ c <= Len(s)
    BY <1>1, <1>2, <1>4, <1>6
  <2> QED
    BY <1>9, <2>1 DEF MarksInOrder
<1>11. ASSUME NEW i \in DOMAIN put' PROVE i \in Nat /\ i < Len(buffer'.cells) /\ buffer'.cells[i + 1] = put'[i]
  <2>1. i \in 0..(n - 1) /\ i + buffer.position \in DOMAIN put /\ put'[i] = put[i + buffer.position]
    BY <1>8
  <2>2. buffer.cells[(i + buffer.position) + 1] = put[i + buffer.position]
    BY <2>1 DEF BufferInv, PutKept
  <2>3. i + 1 \in 1..Len(buffer.cells) /\ i + 1 <= n /\ i < Len(buffer.cells) /\ i \in Nat
        /\ (i + 1) + buffer.position = (i + buffer.position) + 1
    <3>1. PICK p \in Nat, l \in Nat, c0 \in Nat :
            p = buffer.position /\ l = buffer.limit /\ c0 = Len(buffer.cells) /\ p <= l /\ l <= c0 /\ n = l - p
      BY <1>1, <1>2
    <3>2. i \in 0..(n - 1)
      BY <2>1
    <3>3. i \in Nat /\ i + 1 \in 1..c0 /\ i + 1 <= n /\ i < c0 /\ (i + 1) + p = (i + p) + 1
      <4>1. n \in Nat /\ p <= l /\ l <= c0 /\ n = l - p
        BY <1>2, <3>1
      <4>2. ASSUME NEW j \in Int, 0 <= j, j <= n - 1
            PROVE  j \in Nat /\ j + 1 \in 1..c0 /\ j + 1 <= n /\ j < c0 /\ (j + 1) + p = (j + p) + 1
        BY <4>1, <4>2
      <4>3. i \in Int /\ 0 <= i /\ i <= n - 1
        BY <3>2, <4>1
      <4> QED
        BY <4>2, <4>3
    <3> QED
      BY <3>1, <3>3
  <2>4. s[i + 1] = buffer.cells[(i + 1) + buffer.position]
    BY <1>5, <2>3
  <2> QED
    BY <1>4, <1>9, <2>1, <2>2, <2>3, <2>4
<1>12. PutKept'
  BY <1>11 DEF PutKept, Capacity
<1> QED
  BY <1>10, <1>12 DEF BufferInv

\* expand(), the settings, and what is derived.
LEMMA MemoryStep ==
  ASSUME BufferInv, Expand \/ SetMinimumCapacity \/ SetAutoExpand \/ Derive \/ GetSlice
  PROVE  BufferInv'
<1>1. MarksInOrder(buffer) /\ buffer.position \in Nat /\ buffer.limit \in Nat /\ Len(buffer.cells) \in Nat
      /\ buffer.position <= buffer.limit /\ buffer.limit <= Len(buffer.cells)
  BY DEF BufferInv, MarksInOrder, AnyBuffer
<1>2. CASE Expand
  <2>1. PICK pos \in 0..MaxCapacity, expected \in 0..MaxCapacity : Keeps(Expanded(buffer, pos, expected, FALSE))
    BY <1>2 DEF Expand
  <2>2. pos \in Nat /\ expected \in Nat /\ FALSE \in BOOLEAN
    OBVIOUS
  <2>3. PICK c : c = Expanded(buffer, pos, expected, FALSE)
    OBVIOUS
  <2>4. MarksInOrder(c) /\ Extends(buffer, c)
    BY <1>1, <2>2, <2>3, ExpandedIs
  <2> QED
    BY <2>1, <2>3, <2>4, KeepsStep
<1>3. CASE SetMinimumCapacity
  <2>1. PICK n \in 0..MaxCapacity : Keeps([buffer EXCEPT !.minimumCapacity = n])
    BY <1>3 DEF SetMinimumCapacity
  <2>2. PICK c : c = [buffer EXCEPT !.minimumCapacity = n]
    OBVIOUS
  <2>3. MarksInOrder(c) /\ c.cells = buffer.cells
    BY <1>1, <2>2 DEF MarksInOrder, AnyBuffer
  <2> QED
    BY <2>1, <2>2, <2>3, KeepsCellsStep
<1>4. CASE SetAutoExpand
  <2>1. PICK auto \in BOOLEAN : Keeps([buffer EXCEPT !.autoExpand = auto])
    BY <1>4 DEF SetAutoExpand
  <2>2. PICK c : c = [buffer EXCEPT !.autoExpand = auto]
    OBVIOUS
  <2>3. MarksInOrder(c) /\ c.cells = buffer.cells
    BY <1>1, <2>2 DEF MarksInOrder, AnyBuffer
  <2> QED
    BY <2>1, <2>2, <2>3, KeepsCellsStep
<1>5. CASE Derive
  <2>1. PICK c : c = [buffer EXCEPT !.recapacityAllowed = FALSE]
    OBVIOUS
  <2>2. MarksInOrder(c) /\ c.cells = buffer.cells
    BY <1>1, <2>1 DEF MarksInOrder, AnyBuffer
  <2> QED
    BY <1>5, <2>1, <2>2, KeepsCellsStep DEF Derive
<1>6. CASE GetSlice
  <2>1. PICK index \in 0..MaxCapacity, length \in 0..MaxCapacity :
          /\ index + length <= buffer.limit
          /\ LET narrowed == PositionSet(LimitSet(Cleared(buffer), index + length), index)
             IN  Keeps(AtPosition(AtLimit([narrowed EXCEPT !.recapacityAllowed = FALSE], buffer.limit), buffer.position))
    BY <1>6 DEF GetSlice
  <2>2. PICK end \in Nat : end = index + length /\ index <= end /\ end <= buffer.limit /\ end <= Len(buffer.cells) /\ index \in Nat
    BY <1>1, <2>1
  <2>3. PICK a : a = Cleared(buffer)
    OBVIOUS
  <2>4. MarksInOrder(a) /\ a.cells = buffer.cells
    BY <1>1, <2>3, ClearedIs
  <2>5. PICK b : b = LimitSet(a, end)
    OBVIOUS
  <2>6. MarksInOrder(b) /\ Extends(a, b) /\ b.limit = end
    BY <2>2, <2>4, <2>5, LimitSetIs
  <2>7. PICK c : c = PositionSet(b, index)
    OBVIOUS
  <2>8. MarksInOrder(c) /\ Extends(b, c)
    BY <2>2, <2>6, <2>7, PositionSetIs
  <2>9. PICK d : d = [c EXCEPT !.recapacityAllowed = FALSE]
    OBVIOUS
  <2>10. MarksInOrder(d) /\ d.cells = c.cells
    BY <2>8, <2>9 DEF MarksInOrder, AnyBuffer
  <2>11. Extends(buffer, d)
    <3>1. Extends(a, c)
      BY <2>4, <2>6, <2>8, ExtendsAll
    <3> QED
      BY <2>4, <2>10, <3>1 DEF Extends
  <2>12. buffer.limit <= Len(d.cells)
    <3>1. Len(d.cells) \in Nat /\ Len(buffer.cells) <= Len(d.cells)
      BY <2>10, <2>11 DEF MarksInOrder, AnyBuffer, Extends
    <3> QED
      BY <1>1, <3>1
  <2>13. PICK e : e = AtLimit(d, buffer.limit)
    OBVIOUS
  <2>14. MarksInOrder(e) /\ e.cells = d.cells /\ e.limit = buffer.limit
    BY <1>1, <2>10, <2>12, <2>13, AtLimitIs
  <2>15. PICK f : f = AtPosition(e, buffer.position)
    OBVIOUS
  <2>16. MarksInOrder(f) /\ f.cells = e.cells
    BY <1>1, <2>14, <2>15, AtPositionIs
  <2>17. Extends(buffer, f) /\ Keeps(f)
    BY <2>1, <2>2, <2>3, <2>5, <2>7, <2>9, <2>11, <2>13, <2>14, <2>15, <2>16 DEF Extends
  <2> QED
    BY <2>16, <2>17, KeepsStep
<1> QED
  BY <1>2, <1>3, <1>4, <1>5, <1>6

\* Every operation keeps the order of the buffer and what was put.
LEMMA BufferStep == ASSUME BufferInv, [BufferNext]_bufferVars PROVE BufferInv'
<1>1. CASE UNCHANGED bufferVars
  BY <1>1 DEF bufferVars, BufferInv, MarksInOrder, PutKept, Capacity
<1>2. CASE BufferNext
  <2>1. CASE SetPosition \/ SetLimit \/ SetMark \/ Reset \/ Flip \/ Rewind \/ Clear \/ Skip \/ Get \/ GetValue \/ Take
    BY <2>1, IndicesStep
  <2>2. CASE Put \/ PutAt \/ PutString \/ PutValue \/ PutValueAt
    BY <2>2, PutStep
  <2>3. CASE Fill \/ FillAndReset \/ Sweep
    BY <2>3, FillStep, SweepStep
  <2>4. CASE Expand \/ SetMinimumCapacity \/ SetAutoExpand \/ Derive \/ GetSlice
    BY <2>4, MemoryStep
  <2>5. CASE Shrink
    BY <2>5, ShrinkStep
  <2>6. CASE Compact
    BY <2>6, CompactStep
  <2> QED
    BY <1>2, <2>1, <2>2, <2>3, <2>4, <2>5, <2>6 DEF BufferNext, GetString, ValueAccess, StreamAccess
<1> QED
  BY <1>1, <1>2

\* A new buffer is in order, and nothing was put.
LEMMA BufferInitially == BufferInit => BufferInv
<1> SUFFICES ASSUME BufferInit PROVE BufferInv
  OBVIOUS
<1>1. PICK room \in 0..2 :
        buffer = [cells |-> [i \in 1..room |-> FreshByte], position |-> 0, limit |-> room, mark |-> -1,
                  minimumCapacity |-> room, autoExpand |-> FALSE, recapacityAllowed |-> TRUE]
  BY DEF BufferInit
<1>2. PICK s \in Seq(BufferCells) : s = [i \in 1..room |-> FreshByte] /\ Len(s) = room
  <2>1. room \in Nat /\ FreshByte \in BufferCells
    BY DEF BufferCells
  <2>2. [i \in 1..room |-> FreshByte] \in Seq(BufferCells) /\ Len([i \in 1..room |-> FreshByte]) = room
    BY <2>1
  <2> QED
    BY <2>2
<1>3. PICK c \in Nat, z \in Nat, m \in Int : c = room /\ z = 0 /\ m = -1 /\ m <= z /\ z <= c /\ c <= Len(s)
  BY <1>2
<1>4. buffer = [cells |-> s, position |-> z, limit |-> c, mark |-> m,
                minimumCapacity |-> c, autoExpand |-> FALSE, recapacityAllowed |-> TRUE]
  BY <1>1, <1>2, <1>3
<1>5. MarksInOrder(buffer)
  BY <1>3, <1>4 DEF MarksInOrder, AnyBuffer
<1>6. PutKept
  BY DEF BufferInit, PutKept
<1> QED
  BY <1>5, <1>6 DEF BufferInv

\* What the invariant says is what the run checks.
LEMMA BufferSoundHolds == ASSUME BufferInv PROVE BufferSound
BY DEF BufferInv, MarksInOrder, PutKept, BufferSound, Capacity

\* Whatever calls are made in whatever order, the indices of a buffer are in
\* their order and what was put is where it was put.
THEOREM BufferSpecSound == BufferSpec => []BufferSound
<1>1. BufferInit => BufferInv
  BY BufferInitially
<1>2. BufferInv /\ [BufferNext]_bufferVars => BufferInv'
  BY BufferStep
<1>3. BufferInv => BufferSound
  BY BufferSoundHolds
<1> QED
  BY <1>1, <1>2, <1>3, PTL DEF BufferSpec

----------------------------------------------------------------------------
(* The address filter: halving a number is shifting it, so that a prefix of *)
(* the bits is what a mask compares.                                       *)

\* Division with a remainder, and that there is one result only.
LEMMA DivIs ==
  ASSUME NEW x \in Nat, NEW p \in Nat, p # 0
  PROVE  x \div p \in Nat /\ x % p \in 0..(p - 1) /\ x = p * (x \div p) + (x % p)
OBVIOUS

\* Quotient and rest are determined by their bounds.
LEMMA DivUnique ==
  ASSUME NEW p \in Nat, NEW q \in Nat, NEW r \in Nat, NEW u \in Nat, NEW v \in Nat, r < p, v < p, p * q + r = p * u + v
  PROVE  q = u /\ r = v
<1>1. ASSUME NEW a \in Nat, NEW b \in Nat, a < b PROVE p * a + p <= p * b
  <2>1. PICK d \in Nat : b = a + 1 + d
    <3>1. b - a - 1 \in Nat /\ b = a + 1 + (b - a - 1)
      BY <1>1
    <3> QED
      BY <3>1
  <2>2. p * d \in Nat /\ p * (a + 1 + d) = p * a + p + p * d /\ p * a \in Nat
    BY <1>1
  <2> QED
    BY <2>1, <2>2
<1>2. p * q \in Nat /\ p * u \in Nat
  OBVIOUS
<1>3. ~(q < u)
  <2>1. ASSUME q < u PROVE FALSE
    <3>1. p * q + p <= p * u
      BY <1>1, <2>1
    <3> QED
      BY <1>2, <3>1
  <2> QED
    BY <2>1
<1>4. ~(u < q)
  <2>1. ASSUME u < q PROVE FALSE
    <3>1. p * u + p <= p * q
      BY <1>1, <2>1
    <3> QED
      BY <1>2, <3>1
  <2> QED
    BY <2>1
<1>5. q = u
  BY <1>3, <1>4
<1> QED
  BY <1>2, <1>5

\* Dividing twice by two powers is dividing once.
LEMMA HalfOf ==
  ASSUME NEW x \in Nat, NEW p \in Nat, p # 0
  PROVE  x \div (2 * p) = (x \div p) \div 2
<1>1. PICK q \in Nat, r \in Nat : q = x \div p /\ r < p /\ x = p * q + r
  BY DivIs
<1>2. PICK h \in Nat, b \in 0..1 : h = q \div 2 /\ q = 2 * h + b
  <2>1. q \div 2 \in Nat /\ q % 2 \in 0..1 /\ q = 2 * (q \div 2) + (q % 2)
    OBVIOUS
  <2> QED
    BY <2>1
<1>3. PICK g \in Nat, s \in Nat : g = x \div (2 * p) /\ s < 2 * p /\ x = (2 * p) * g + s
  <2>1. 2 * p \in Nat /\ 2 * p # 0
    OBVIOUS
  <2>2. PICK d \in Nat : d = 2 * p /\ d # 0
    BY <2>1
  <2>3. x \div d \in Nat /\ x % d \in 0..(d - 1) /\ x = d * (x \div d) + (x % d)
    BY <2>2, DivIs
  <2> QED
    BY <2>2, <2>3
<1>4. p * b + r \in Nat /\ p * b + r < 2 * p
  <2>1. b = 0 \/ b = 1
    OBVIOUS
  <2> QED
    BY <1>1, <2>1
<1>5. x = (2 * p) * h + (p * b + r)
  <2>1. p * (2 * h + b) = (2 * p) * h + p * b
    OBVIOUS
  <2>2. p * q = (2 * p) * h + p * b
    BY <1>2, <2>1
  <2>3. p * q \in Nat /\ (2 * p) * h \in Nat /\ p * b \in Nat
    OBVIOUS
  <2> QED
    BY <1>1, <2>2, <2>3
<1>6. g = h
  <2>1. PICK d \in Nat, e \in Nat : d = 2 * p /\ e = p * b + r /\ e < d
    BY <1>4
  <2>2. d * h + e = d * g + s /\ s < d
    BY <1>3, <1>5, <2>1
  <2> QED
    BY <2>1, <2>2, DivUnique
<1> QED
  BY <1>1, <1>2, <1>3, <1>6

\* The bits of an address from k on, one after the other.
LEMMA BitsAre ==
  ASSUME NEW x \in Nat, NEW k \in Nat
  PROVE  /\ x \div 2^k \in Nat /\ x \div 2^(k + 1) = (x \div 2^k) \div 2
         /\ (x \div 2^k) % 2 \in 0..1 /\ x \div 2^k = 2 * (x \div 2^(k + 1)) + ((x \div 2^k) % 2)
<1>1. PICK p \in Nat : p = 2^k /\ p # 0
  BY PowerIsNat, PowerPositive
<1>2. 2^(k + 1) = 2 * p
  BY <1>1, PowerDoubles
<1>3. x \div p \in Nat /\ x \div (2 * p) = (x \div p) \div 2
  BY <1>1, DivIs, HalfOf
<1>4. PICK q \in Nat : q = x \div p
  BY <1>3
<1>5. q % 2 \in 0..1 /\ q = 2 * (q \div 2) + (q % 2)
  OBVIOUS
<1>6. x \div 2^k = q /\ x \div 2^(k + 1) = q \div 2
  BY <1>1, <1>2, <1>3, <1>4
<1> QED
  BY <1>5, <1>6

\* Two addresses have the same bits from m on if what is left of them is the
\* same.
LEMMA PrefixIs ==
  ASSUME NEW x \in Addresses, NEW y \in Addresses, NEW m \in 0..Width
  PROVE  (\A k \in m..(Width - 1) : (x \div 2^k) % 2 = (y \div 2^k) % 2) <=> x \div 2^m = y \div 2^m
<1>1. Width \in Nat /\ m \in Nat
  BY AddressAssumption
<1>2. 2^Width \in Nat /\ 2^Width # 0
  BY <1>1, PowerIsNat, PowerPositive
<1>3. x \in Nat /\ y \in Nat /\ x < 2^Width /\ y < 2^Width
  BY <1>2 DEF Addresses
<1>4. x \div 2^Width = 0 /\ y \div 2^Width = 0
  <2>1. PICK p \in Nat : p = 2^Width /\ p # 0 /\ x < p /\ y < p
    BY <1>2, <1>3
  <2>2. x \div p = 0 /\ y \div p = 0
    BY <1>3, <2>1
  <2> QED
    BY <2>1, <2>2
<1>5. ASSUME \A k \in m..(Width - 1) : (x \div 2^k) % 2 = (y \div 2^k) % 2
      PROVE  x \div 2^m = y \div 2^m
  <2> DEFINE T == {d \in 0..(Width - m) : x \div 2^(Width - d) # y \div 2^(Width - d)}
  <2>1. ASSUME T # {} PROVE FALSE
    <3>1. PICK d \in T : \A e \in T : d <= e
      <4>1. T \subseteq Nat
        BY <1>1
      <4> HIDE DEF T
      <4> QED
        BY <2>1, <4>1, LeastNat
    <3>2. d \in 0..(Width - m) /\ x \div 2^(Width - d) # y \div 2^(Width - d)
      OBVIOUS
    <3>3. d # 0
      <4>1. ASSUME d = 0 PROVE Width - d = Width
        BY <1>1, <4>1
      <4> QED
        BY <1>4, <3>2, <4>1
    <3>4. d - 1 \in 0..(Width - m) /\ d - 1 \notin T
      BY <1>1, <3>1, <3>2, <3>3
    <3>5. PICK k \in m..(Width - 1) : k = Width - d /\ k + 1 = Width - (d - 1) /\ k \in Nat
      BY <1>1, <3>2, <3>3
    <3>6. x \div 2^(k + 1) = y \div 2^(k + 1)
      BY <3>4, <3>5
    <3>7. (x \div 2^k) % 2 = (y \div 2^k) % 2
      BY <1>5
    <3>8. x \div 2^k = y \div 2^k
      <4>1. /\ x \div 2^k = 2 * (x \div 2^(k + 1)) + ((x \div 2^k) % 2)
            /\ y \div 2^k = 2 * (y \div 2^(k + 1)) + ((y \div 2^k) % 2)
        BY <1>3, <3>5, BitsAre
      <4> QED
        BY <3>6, <3>7, <4>1
    <3> QED
      BY <3>2, <3>5, <3>8
  <2>2. Width - m \in 0..(Width - m) /\ Width - (Width - m) = m
    BY <1>1
  <2> QED
    BY <2>1, <2>2
<1>6. ASSUME x \div 2^m = y \div 2^m, NEW k \in m..(Width - 1)
      PROVE  (x \div 2^k) % 2 = (y \div 2^k) % 2
  <2> DEFINE T == {j \in m..Width : x \div 2^j # y \div 2^j}
  <2>1. ASSUME T # {} PROVE FALSE
    <3>1. PICK j \in T : \A e \in T : j <= e
      <4>1. T \subseteq Nat
        BY <1>1
      <4> HIDE DEF T
      <4> QED
        BY <2>1, <4>1, LeastNat
    <3>2. j \in m..Width /\ x \div 2^j # y \div 2^j
      OBVIOUS
    <3>3. j # m
      BY <1>6, <3>2
    <3>4. PICK i \in m..Width : i = j - 1 /\ j = i + 1 /\ i \notin T /\ i \in Nat
      <4>1. j - 1 \in m..Width /\ j = (j - 1) + 1 /\ j - 1 \in Nat /\ ~(j <= j - 1)
        BY <1>1, <3>2, <3>3
      <4> QED
        BY <3>1, <4>1
    <3>5. x \div 2^i = y \div 2^i
      BY <3>4
    <3>6. x \div 2^(i + 1) = (x \div 2^i) \div 2 /\ y \div 2^(i + 1) = (y \div 2^i) \div 2
      BY <1>3, <3>4, BitsAre
    <3> QED
      BY <3>2, <3>4, <3>5, <3>6
  <2>2. k \in m..Width
    BY <1>1
  <2>3. x \div 2^k = y \div 2^k
    BY <2>1, <2>2
  <2> QED
    BY <2>3
<1> QED
  BY <1>5, <1>6

\* An address is in a subnet by its mask if it has the prefix, and if the
\* subnet is given by its lowest address.
LEMMA InSubnetIs ==
  ASSUME NEW a \in Addresses, a # AnyLocalAddress, NEW s \in Addresses, NEW n \in 1..Width
  PROVE  ToSubnet(a, n) = s <=> SamePrefix(a, s, n) /\ s % 2^(Width - n) = 0
<1>1. Width \in Nat /\ Width - n \in 0..Width /\ Width - n \in Nat
  BY AddressAssumption
<1>2. PICK p \in Nat : p = 2^(Width - n) /\ p # 0
  BY <1>1, PowerIsNat, PowerPositive
<1>3. a \in Nat /\ s \in Nat
  <2>1. 2^Width \in Nat
    BY <1>1, PowerIsNat
  <2> QED
    BY <2>1 DEF Addresses
<1>4. SamePrefix(a, s, n) <=> a \div p = s \div p
  <2>1. (\A k \in (Width - n)..(Width - 1) : (a \div 2^k) % 2 = (s \div 2^k) % 2) <=> a \div 2^(Width - n) = s \div 2^(Width - n)
    BY <1>1, PrefixIs
  <2> QED
    BY <1>2, <2>1 DEF SamePrefix
<1>5. PICK q \in Nat, r \in Nat : q = a \div p /\ r = a % p /\ r < p /\ a = p * q + r
  <2>1. a \div p \in Nat /\ a % p \in 0..(p - 1) /\ a = p * (a \div p) + (a % p)
    BY <1>2, <1>3, DivIs
  <2>2. a % p \in Nat /\ a % p < p
    BY <1>2, <2>1
  <2> QED
    BY <2>1, <2>2
<1>6. PICK u \in Nat, v \in Nat : u = s \div p /\ v = s % p /\ v < p /\ s = p * u + v
  <2>1. s \div p \in Nat /\ s % p \in 0..(p - 1) /\ s = p * (s \div p) + (s % p)
    BY <1>2, <1>3, DivIs
  <2>2. s % p \in Nat /\ s % p < p
    BY <1>2, <2>1
  <2> QED
    BY <2>1, <2>2
<1>7. ToSubnet(a, n) = p * q
  <2>1. p * q \in Nat
    OBVIOUS
  <2>2. ToSubnet(a, n) = a - r
    BY <1>2, <1>5 DEF ToSubnet
  <2> QED
    BY <1>5, <2>1, <2>2
<1>8. ASSUME p * q = s PROVE q = u /\ v = 0
  <2>1. p * q + 0 = p * u + v /\ 0 < p /\ 0 \in Nat
    <3>1. PICK w \in Nat : w = p * q
      OBVIOUS
    <3>2. w + 0 = p * u + v
      BY <1>6, <1>8, <3>1
    <3>3. 0 < p
      BY <1>2
    <3> QED
      BY <3>1, <3>2, <3>3
  <2> QED
    BY <1>6, <2>1, DivUnique
<1>9. ASSUME q = u, v = 0 PROVE p * q = s
  <2>1. p * u \in Nat
    OBVIOUS
  <2> QED
    BY <1>6, <1>9, <2>1
<1>10. s % 2^(Width - n) = v
  BY <1>2, <1>6
<1> QED
  BY <1>4, <1>5, <1>6, <1>7, <1>8, <1>9, <1>10

AnyMasked == [subnetInt : Listable, suffix : 0..Width, ones : 1..Width]
Story(ph, n) ==
  IF ph = "created" THEN <<"created">>
  ELSE IF ph = "opened" THEN <<"created", "opened">> \o [i \in 1..n |-> "other"]
  ELSE <<"created", "opened">> \o [i \in 1..n |-> "other"] \o <<"closed">>

EventNames == {"created", "opened", "other", "closed"}

AddressTypeOK ==
  /\ list \in Seq(AnyMasked) /\ setting \in Seq(AnySubnets)
  /\ peer \in [FilterSessions -> [phase : {"new", "created", "opened", "closed"}, address : Addresses, idles : Nat]]
  /\ reached \in [FilterSessions -> Seq(EventNames)]
  /\ DOMAIN verdicts = FilterSessions

\* What a list that has always said the same has done to a session.
JudgedInv ==
  \A s \in FilterSessions :
    /\ peer[s].phase = "new" => verdicts[s] = {} /\ reached[s] = <<>> /\ s \notin closeNow
    /\ peer[s].phase # "new" => verdicts[s] # {}
    /\ peer[s].phase = "created" => peer[s].idles = 0
    /\ verdicts[s] = {FALSE} => reached[s] = <<>> /\ s \in closeNow
    /\ verdicts[s] = {TRUE} => s \notin closeNow /\ reached[s] = Story(peer[s].phase, peer[s].idles)

AddressInv == AddressTypeOK /\ JudgedInv

\* One verdict and no other.
LEMMA OneVerdict ==
  ASSUME NEW S, NEW v, NEW x, S \cup {v} = {x}
  PROVE  v = x /\ (S = {} \/ S = {x})
OBVIOUS

\* The list changes for a session between its events.
LEMMA ChangesStep ==
  ASSUME AddressInv, list' \in Seq(AnyMasked), setting' \in Seq(AnySubnets), Changes
  PROVE  AddressInv'
<1>1. verdicts' = Watched /\ UNCHANGED <<peer, reached, closeNow>>
  BY DEF Changes
<1>2. AddressTypeOK'
  BY <1>1 DEF AddressInv, AddressTypeOK, Watched
<1>3. ASSUME NEW s \in FilterSessions
      PROVE  IF peer[s].phase = "new" THEN verdicts'[s] = {} ELSE \E v : verdicts'[s] = verdicts[s] \cup {v}
  BY <1>1 DEF Watched
<1>4. ASSUME NEW s \in FilterSessions
      PROVE  /\ peer'[s].phase = "new" => verdicts'[s] = {} /\ reached'[s] = <<>> /\ s \notin closeNow'
             /\ peer'[s].phase # "new" => verdicts'[s] # {}
             /\ peer'[s].phase = "created" => peer'[s].idles = 0
             /\ verdicts'[s] = {FALSE} => reached'[s] = <<>> /\ s \in closeNow'
             /\ verdicts'[s] = {TRUE} => s \notin closeNow' /\ reached'[s] = Story(peer'[s].phase, peer'[s].idles)
  <2>1. CASE peer[s].phase = "new"
    <3>1. verdicts'[s] = {} /\ {} # {TRUE} /\ {} # {FALSE}
      BY <1>3, <2>1
    <3> QED
      BY <1>1, <2>1, <3>1, Zenon DEF AddressInv, JudgedInv
  <2>2. CASE peer[s].phase # "new"
    <3>1. PICK v : verdicts'[s] = verdicts[s] \cup {v}
      BY <1>3, <2>2
    <3>2. verdicts[s] # {}
      BY <2>2 DEF AddressInv, JudgedInv
    <3>3. \A x : verdicts'[s] = {x} => verdicts[s] = {x}
      BY <3>1, <3>2, OneVerdict
    <3>4. verdicts'[s] # {}
      BY <3>1
    <3> QED
      BY <1>1, <2>2, <3>3, <3>4, Zenon DEF AddressInv, JudgedInv
  <2> QED
    BY <2>1, <2>2
<1>5. JudgedInv'
  BY <1>4 DEF JudgedInv
<1> QED
  BY <1>2, <1>5 DEF AddressInv

\* The users' operations change the list to one of subnets.
LEMMA UsersStep ==
  ASSUME AddressInv,
         \/ \E pair \in AnySubnets : BlockOrAllow(pair) \/ UnblockOrDisallow(pair)
         \/ \E first, second \in AnySubnets : SetList(<<first>>) \/ SetList(<<first, second>>)
         \/ SetListNext
  PROVE  AddressInv'
<1>1. list \in Seq(AnyMasked) /\ setting \in Seq(AnySubnets)
  BY DEF AddressInv, AddressTypeOK
<1>2. ASSUME NEW pair \in AnySubnets, AddSubnet(pair) PROVE list' \in Seq(AnyMasked)
  <2>1. PICK ones \in Masks(pair.suffix) : list' = Append(list, Subnet(pair.address, pair.suffix, ones))
    BY <1>2 DEF AddSubnet
  <2>2. ones \in 1..Width
    <3>1. pair.suffix \in 0..Width /\ Width \in Nat
      BY AddressAssumption DEF AnySubnets
    <3> QED
      BY <3>1 DEF Masks
  <2>3. Subnet(pair.address, pair.suffix, ones) \in AnyMasked
    BY <2>2 DEF AnySubnets, AnyMasked, Subnet
  <2> QED
    BY <1>1, <2>1, <2>3
<1>3. ASSUME NEW pair \in AnySubnets, BlockOrAllow(pair) PROVE AddressInv'
  BY <1>1, <1>2, <1>3, ChangesStep DEF BlockOrAllow
<1>4. ASSUME NEW pair \in AnySubnets, UnblockOrDisallow(pair) PROVE AddressInv'
  <2>1. PICK i \in DOMAIN list : list' = RemoveAt(list, i)
    BY <1>4 DEF UnblockOrDisallow
  <2>2. RemoveAt(list, i) \in Seq(AnyMasked)
    <3>1. i \in 1..Len(list) /\ Len(list) \in Nat
      BY <1>1
    <3>2. SubSeq(list, 1, i - 1) \in Seq(AnyMasked)
      <4>1. \A j \in 1..(i - 1) : list[j] \in AnyMasked
        BY <1>1, <3>1
      <4> QED
        BY <1>1, <3>1, <4>1, SubSeqProperties
    <3>3. SubSeq(list, i + 1, Len(list)) \in Seq(AnyMasked)
      <4>1. \A j \in (i + 1)..Len(list) : list[j] \in AnyMasked
        BY <1>1, <3>1
      <4> QED
        BY <1>1, <3>1, <4>1, SubSeqProperties
    <3> QED
      BY <3>2, <3>3, ConcatProperties DEF RemoveAt
  <2> QED
    BY <1>1, <1>4, <2>1, <2>2, ChangesStep DEF UnblockOrDisallow
<1>5. ASSUME NEW pairs \in Seq(AnySubnets), SetList(pairs) PROVE AddressInv'
  <2>1. list' \in Seq(AnyMasked) /\ setting' \in Seq(AnySubnets)
    BY <1>5 DEF SetList
  <2> QED
    BY <1>5, <2>1, ChangesStep DEF SetList
<1>6. CASE SetListNext
  <2>1. Head(setting) \in AnySubnets /\ Tail(setting) \in Seq(AnySubnets)
    BY <1>1, <1>6 DEF SetListNext
  <2> QED
    BY <1>2, <1>6, <2>1, ChangesStep DEF SetListNext
<1>7. ASSUME NEW first \in AnySubnets, NEW second \in AnySubnets
      PROVE  <<first>> \in Seq(AnySubnets) /\ <<first, second>> \in Seq(AnySubnets)
  OBVIOUS
<1> QED
  BY <1>3, <1>4, <1>5, <1>6, <1>7

\* One more event of a session that the list has always let through.
LEMMA StoryGoesOn ==
  ASSUME NEW n \in Nat
  PROVE  /\ Story("created", 0) = Append(<<>>, "created")
         /\ Story("opened", 0) = Append(Story("created", 0), "opened")
         /\ Story("opened", n + 1) = Append(Story("opened", n), "other")
         /\ Story("closed", n) = Append(Story("opened", n), "closed")
         /\ Story("opened", n) \in Seq(EventNames) /\ Story("created", 0) \in Seq(EventNames)
<1> DEFINE others(k) == [i \in 1..k |-> "other"]
           first == <<"created", "opened">>
<1>a. "created" \in EventNames /\ "opened" \in EventNames /\ "other" \in EventNames /\ "closed" \in EventNames
  BY Zenon DEF EventNames
<1>1. first \in Seq(EventNames) /\ Len(first) = 2
  BY <1>a
<1>2. \A k \in Nat : others(k) \in Seq(EventNames) /\ Len(others(k)) = k /\ \A i \in 1..k : others(k)[i] = "other"
  <2> TAKE k \in Nat
  <2>1. others(k) \in [1..k -> EventNames]
    BY <1>a
  <2>2. others(k) \in Seq(EventNames) /\ DOMAIN others(k) = 1..k
    BY <2>1
  <2> HIDE DEF others
  <2>3. Len(others(k)) = k
    BY <2>2
  <2>4. \A i \in 1..k : others(k)[i] = "other"
    BY DEF others
  <2> QED
    BY <2>2, <2>3, <2>4
<1>3. \A k \in Nat : Story("opened", k) = first \o others(k)
  BY DEF Story
<1> HIDE DEF others, first
<1>4. \A k \in Nat : /\ Story("opened", k) \in Seq(EventNames) /\ Len(Story("opened", k)) = k + 2
                     /\ \A i \in 1..2 : Story("opened", k)[i] = first[i]
                     /\ \A i \in 1..k : Story("opened", k)[2 + i] = "other"
  <2> TAKE k \in Nat
  <2>1. PICK d : d = others(k)
    OBVIOUS
  <2>2. d \in Seq(EventNames) /\ Len(d) = k /\ \A i \in 1..k : d[i] = "other"
    BY <1>2, <2>1
  <2>3. PICK f \in Seq(EventNames) : f = first /\ Len(f) = 2
    BY <1>1
  <2>4. PICK t : t = f \o d
    OBVIOUS
  <2>5. /\ t \in Seq(EventNames) /\ Len(t) = 2 + k
        /\ \A i \in 1..(2 + k) : t[i] = IF i <= 2 THEN f[i] ELSE d[i - 2]
    BY <2>2, <2>3, <2>4, ConcatProperties
  <2>6. \A i \in 1..2 : t[i] = f[i]
    BY <2>5
  <2>7. \A i \in 1..k : t[2 + i] = "other"
    <3> TAKE i \in 1..k
    <3>1. 2 + i \in 1..(2 + k) /\ ~(2 + i <= 2) /\ (2 + i) - 2 = i
      OBVIOUS
    <3> QED
      BY <2>2, <2>5, <3>1
  <2>8. Len(t) = k + 2
    BY <2>5
  <2>9. Story("opened", k) = t
    BY <1>3, <2>1, <2>3, <2>4
  <2> QED
    BY <2>3, <2>5, <2>6, <2>7, <2>8, <2>9
<1>5. Story("created", 0) = <<"created">>
  BY DEF Story
<1>6. Story("opened", 0) = Append(Story("created", 0), "opened")
  <2>1. Story("opened", 0) \in Seq(EventNames) /\ Len(Story("opened", 0)) = 2
        /\ \A i \in 1..2 : Story("opened", 0)[i] = first[i]
    <3>1. 0 \in Nat /\ 0 + 2 = 2
      OBVIOUS
    <3> QED
      BY <1>4, <3>1
  <2>2. Story("opened", 0) = first
    BY <1>1, <2>1, SeqEqual
  <2>3. \A a, b : <<a, b>> = Append(<<a>>, b)
    OBVIOUS
  <2>4. first = Append(<<"created">>, "opened")
    BY <2>3, Zenon DEF first
  <2> QED
    BY <1>5, <2>2, <2>4, Zenon
<1>7. Story("opened", n + 1) = Append(Story("opened", n), "other")
  <2>1. PICK s \in Seq(EventNames) : s = Story("opened", n) /\ Len(s) = n + 2
        /\ (\A i \in 1..2 : s[i] = first[i]) /\ \A i \in 1..n : s[2 + i] = "other"
    BY <1>4
  <2>2. PICK t \in Seq(EventNames) : t = Story("opened", n + 1) /\ Len(t) = n + 1 + 2
        /\ (\A i \in 1..2 : t[i] = first[i]) /\ \A i \in 1..(n + 1) : t[2 + i] = "other"
    <3>1. n + 1 \in Nat
      OBVIOUS
    <3> QED
      BY <1>4, <3>1
  <2>3. PICK u \in Seq(EventNames) : u = Append(s, "other") /\ Len(u) = n + 3 /\ (\A i \in 1..(n + 2) : u[i] = s[i]) /\ u[n + 3] = "other"
    <3>1. PICK o \in EventNames : o = "other"
      BY <1>a
    <3>2. PICK u : u = Append(s, o)
      OBVIOUS
    <3>3. s \in Seq(EventNames) /\ Len(s) = n + 2 /\ Len(s) + 1 = n + 3
      BY <2>1
    <3>4. u \in Seq(EventNames) /\ Len(u) = Len(s) + 1 /\ (\A i \in 1..Len(s) : u[i] = s[i]) /\ u[Len(s) + 1] = o
      BY <3>2, <3>3, AppendProperties
    <3> QED
      BY <3>1, <3>2, <3>3, <3>4, Zenon
  <2>4. ASSUME NEW i \in 1..(n + 3) PROVE t[i] = u[i]
    <3>1. CASE i \in 1..2
      <4>1. i \in 1..(n + 2)
        BY <3>1
      <4> QED
        BY <2>1, <2>2, <2>3, <3>1, <4>1
    <3>2. CASE i \notin 1..2
      <4>1. PICK j \in 1..(n + 1) : i = 2 + j
        <5>1. i - 2 \in 1..(n + 1) /\ i = 2 + (i - 2)
          BY <3>2
        <5> QED
          BY <5>1
      <4>2. t[i] = "other"
        BY <2>2, <4>1
      <4>3. CASE i = n + 3
        BY <2>3, <4>2, <4>3
      <4>4. CASE i # n + 3
        <5>1. j \in 1..n /\ i \in 1..(n + 2)
          BY <4>1, <4>4
        <5> QED
          BY <2>1, <2>3, <4>1, <4>2, <5>1
      <4> QED
        BY <4>3, <4>4
    <3> QED
      BY <3>1, <3>2
  <2>5. t = u
    <3>1. Len(t) = n + 3
      BY <2>2
    <3> QED
      BY <2>3, <2>4, <3>1, SeqEqual
  <2> QED
    BY <2>1, <2>2, <2>3, <2>5
<1>8. Story("closed", n) = Append(Story("opened", n), "closed")
  <2>1. Story("closed", n) = (first \o others(n)) \o <<"closed">>
    BY DEF Story, first, others
  <2>2. PICK s \in Seq(EventNames) : s = Story("opened", n) /\ s = first \o others(n)
    BY <1>3, <1>4
  <2>3. s \o <<"closed">> = Append(s, "closed")
    OBVIOUS
  <2> QED
    BY <2>1, <2>2, <2>3
<1>9. Append(<<>>, "created") = <<"created">>
  OBVIOUS
<1>10. Story("created", 0) \in Seq(EventNames)
  <2>1. <<"created">> \in Seq(EventNames)
    BY <1>a
  <2> QED
    BY <1>5, <2>1, Zenon
<1>11. Story("opened", n) \in Seq(EventNames)
  BY <1>4
<1>12. Story("created", 0) = Append(<<>>, "created")
  BY <1>5, <1>9, Zenon
<1> QED
  BY <1>6, <1>7, <1>8, <1>10, <1>11, <1>12, Zenon

\* An event of a session.
LEMMA EventStep ==
  ASSUME AddressInv, NEW s \in FilterSessions, CreatedEvent(s) \/ OpenedEvent(s) \/ OtherEvent(s) \/ ClosedEvent(s)
  PROVE  AddressInv'
<1>1. /\ peer[s].idles \in Nat /\ peer[s].phase \in {"new", "created", "opened", "closed"} /\ peer[s].address \in Addresses
      /\ peer \in [FilterSessions -> [phase : {"new", "created", "opened", "closed"}, address : Addresses, idles : Nat]]
      /\ reached \in [FilterSessions -> Seq(EventNames)] /\ DOMAIN verdicts = FilterSessions
  BY DEF AddressInv, AddressTypeOK
<1>2. PICK name \in {"created", "opened", "other", "closed"}, ph \in {"created", "opened", "closed"}, idles \in Nat :
        /\ Event(s, name, ph, idles)
        /\ ph = "created" => idles = 0
        /\ \/ peer[s].phase = "new" /\ ph = "created" /\ name = "created" /\ idles = 0
           \/ peer[s].phase = "created" /\ ph = "opened" /\ name = "opened" /\ idles = 0
           \/ peer[s].phase = "opened" /\ ph = "opened" /\ name = "other" /\ idles = peer[s].idles + 1 /\ s \notin closeNow
           \/ peer[s].phase = "opened" /\ ph = "closed" /\ name = "closed" /\ idles = peer[s].idles
  <2>1. 0 \in Nat /\ peer[s].idles + 1 \in Nat
    BY <1>1
  <2> QED
    BY <1>1, <2>1 DEF CreatedEvent, OpenedEvent, OtherEvent, ClosedEvent
<1>3. PICK v : v = LetsThrough(peer[s].address)
  OBVIOUS
<1>4. v \in BOOLEAN
  BY <1>3 DEF LetsThrough, IsBlocked, IsAllowed, Listed
<1>5. /\ peer' = [peer EXCEPT ![s].phase = ph, ![s].idles = idles]
      /\ verdicts' = [verdicts EXCEPT ![s] = @ \cup {v}]
      /\ UNCHANGED <<list, setting>>
  BY <1>2, <1>3 DEF Event
<1>6. v => reached' = [reached EXCEPT ![s] = Append(@, name)] /\ UNCHANGED closeNow
  BY <1>2, <1>3, Zenon DEF Event
<1>7. ~v => closeNow' = closeNow \cup {s} /\ UNCHANGED reached
  BY <1>2, <1>3, Zenon DEF Event
<1>8. /\ peer' \in [FilterSessions -> [phase : {"new", "created", "opened", "closed"}, address : Addresses, idles : Nat]]
      /\ peer'[s].phase = ph /\ peer'[s].idles = idles
      /\ \A t \in FilterSessions \ {s} : peer'[t] = peer[t]
  BY <1>1, <1>5
<1>9. verdicts'[s] = verdicts[s] \cup {v} /\ \A t \in FilterSessions \ {s} : verdicts'[t] = verdicts[t]
  BY <1>1, <1>5
<1>10. \A t \in FilterSessions \ {s} : reached'[t] = reached[t] /\ (t \in closeNow' <=> t \in closeNow)
  <2>1. CASE v
    BY <1>1, <1>6, <2>1
  <2>2. CASE ~v
    BY <1>7, <2>2
  <2> QED
    BY <2>1, <2>2
<1>11. reached' \in [FilterSessions -> Seq(EventNames)]
  <2>1. CASE v
    <3>1. reached[s] \in Seq(EventNames) /\ name \in EventNames
      <4>1. name \in EventNames
        BY <1>2, Zenon DEF EventNames
      <4> QED
        BY <1>1, <4>1
    <3>2. Append(reached[s], name) \in Seq(EventNames)
      BY <3>1
    <3> QED
      BY <1>1, <1>6, <2>1, <3>2
  <2>2. CASE ~v
    BY <1>1, <1>7, <2>2
  <2> QED
    BY <2>1, <2>2
<1>12. AddressTypeOK'
  BY <1>5, <1>8, <1>11 DEF AddressInv, AddressTypeOK
<1>13. ASSUME NEW t \in FilterSessions, t # s
       PROVE  /\ peer'[t].phase = "new" => verdicts'[t] = {} /\ reached'[t] = <<>> /\ t \notin closeNow'
              /\ peer'[t].phase # "new" => verdicts'[t] # {}
              /\ peer'[t].phase = "created" => peer'[t].idles = 0
              /\ verdicts'[t] = {FALSE} => reached'[t] = <<>> /\ t \in closeNow'
              /\ verdicts'[t] = {TRUE} => t \notin closeNow' /\ reached'[t] = Story(peer'[t].phase, peer'[t].idles)
  <2>1. peer'[t] = peer[t] /\ verdicts'[t] = verdicts[t] /\ reached'[t] = reached[t] /\ (t \in closeNow' <=> t \in closeNow)
    BY <1>8, <1>9, <1>10, <1>13
  <2> QED
    BY <2>1, Zenon DEF AddressInv, JudgedInv
<1>14. ph # "new" /\ verdicts'[s] # {}
  BY <1>2, <1>9
<1>15. ASSUME verdicts'[s] = {FALSE} PROVE reached'[s] = <<>> /\ s \in closeNow'
  <2>1. v = FALSE /\ (verdicts[s] = {} \/ verdicts[s] = {FALSE})
    <3>1. PICK x : x = FALSE
      OBVIOUS
    <3>2. verdicts[s] \cup {v} = {x}
      BY <1>9, <1>15, <3>1, Zenon
    <3>3. v = x /\ (verdicts[s] = {} \/ verdicts[s] = {x})
      BY <3>2, OneVerdict, Zenon
    <3> QED
      BY <3>1, <3>3, Zenon
  <2>2. closeNow' = closeNow \cup {s} /\ reached' = reached
    BY <1>7, <2>1
  <2>3. reached[s] = <<>>
    <3>1. CASE verdicts[s] = {}
      BY <3>1 DEF AddressInv, JudgedInv
    <3>2. CASE verdicts[s] = {FALSE}
      BY <3>2, Zenon DEF AddressInv, JudgedInv
    <3> QED
      BY <2>1, <3>1, <3>2
  <2> QED
    BY <2>2, <2>3
<1>16. ASSUME verdicts'[s] = {TRUE} PROVE s \notin closeNow' /\ reached'[s] = Story(ph, idles)
  <2>1. v = TRUE /\ (verdicts[s] = {} \/ verdicts[s] = {TRUE})
    <3>1. PICK x : x = TRUE
      OBVIOUS
    <3>2. verdicts[s] \cup {v} = {x}
      BY <1>9, <1>16, <3>1, Zenon
    <3>3. v = x /\ (verdicts[s] = {} \/ verdicts[s] = {x})
      BY <3>2, OneVerdict, Zenon
    <3> QED
      BY <3>1, <3>3, Zenon
  <2>2. closeNow' = closeNow /\ reached' = [reached EXCEPT ![s] = Append(@, name)]
    BY <1>6, <2>1
  <2>3. reached'[s] = Append(reached[s], name)
    BY <1>1, <2>2
  <2>4. CASE peer[s].phase = "new"
    <3>1. reached[s] = <<>> /\ s \notin closeNow /\ ph = "created" /\ name = "created" /\ idles = 0
      BY <1>2, <2>4 DEF AddressInv, JudgedInv
    <3> QED
      BY <2>2, <2>3, <3>1, StoryGoesOn
  <2>5. CASE peer[s].phase # "new"
    <3>1. verdicts[s] = {TRUE}
      BY <2>1, <2>5, Zenon DEF AddressInv, JudgedInv
    <3>2. s \notin closeNow /\ reached[s] = Story(peer[s].phase, peer[s].idles) /\ (peer[s].phase = "created" => peer[s].idles = 0)
      BY <3>1, Zenon DEF AddressInv, JudgedInv
    <3>3. CASE peer[s].phase = "created"
      BY <1>2, <2>2, <2>3, <3>2, <3>3, StoryGoesOn
    <3>4. CASE peer[s].phase = "opened"
      BY <1>1, <1>2, <2>2, <2>3, <3>2, <3>4, StoryGoesOn
    <3> QED
      BY <1>2, <2>5, <3>3, <3>4
  <2> QED
    BY <2>4, <2>5
<1>17. /\ peer'[s].phase = "new" => verdicts'[s] = {} /\ reached'[s] = <<>> /\ s \notin closeNow'
       /\ peer'[s].phase # "new" => verdicts'[s] # {}
       /\ peer'[s].phase = "created" => peer'[s].idles = 0
       /\ verdicts'[s] = {FALSE} => reached'[s] = <<>> /\ s \in closeNow'
       /\ verdicts'[s] = {TRUE} => s \notin closeNow' /\ reached'[s] = Story(peer'[s].phase, peer'[s].idles)
  BY <1>2, <1>8, <1>14, <1>15, <1>16, Zenon
<1>18. JudgedInv'
  BY <1>13, <1>17, Zenon DEF JudgedInv
<1> QED
  BY <1>12, <1>18 DEF AddressInv

\* Every step keeps the types and the verdicts.
LEMMA AddressStep == ASSUME AddressInv, [AddressNext]_addressVars PROVE AddressInv'
<1>1. CASE UNCHANGED addressVars
  BY <1>1 DEF addressVars, AddressInv, AddressTypeOK, JudgedInv
<1>2. CASE AddressNext
  BY <1>2, UsersStep, EventStep DEF AddressNext
<1> QED
  BY <1>1, <1>2

\* At first nobody is judged.
LEMMA AddressInitially == AddressInit => AddressInv
<1> SUFFICES ASSUME AddressInit PROVE AddressInv
  OBVIOUS
<1>1. AddressTypeOK
  BY DEF AddressInit, AddressTypeOK
<1>2. ASSUME NEW s \in FilterSessions PROVE peer[s].phase = "new" /\ verdicts[s] = {} /\ reached[s] = <<>> /\ s \notin closeNow
  BY DEF AddressInit
<1>3. {} # {FALSE} /\ {} # {TRUE} /\ "new" # "created"
  OBVIOUS
<1>4. JudgedInv
  BY <1>2, <1>3, Zenon DEF JudgedInv
<1> QED
  BY <1>1, <1>4 DEF AddressInv

\* What the invariant says is what the run checks.
LEMMA AddressesCheckedHolds == ASSUME AddressInv PROVE AddressesChecked
<1>1. ASSUME NEW i \in DOMAIN list, NEW a \in Addresses \ {AnyLocalAddress}
      PROVE  InSubnet(a, list[i]) <=>
               SamePrefix(a, list[i].subnetInt, list[i].ones) /\ list[i].subnetInt % 2^(Width - list[i].ones) = 0
  <2>1. list[i] \in AnyMasked
    BY DEF AddressInv, AddressTypeOK
  <2>2. PICK s \in Addresses, n \in 1..Width : s = list[i].subnetInt /\ n = list[i].ones
    BY <2>1, AddressAssumption DEF AnyMasked, Addresses
  <2>3. ToSubnet(a, n) = s <=> SamePrefix(a, s, n) /\ s % 2^(Width - n) = 0
    BY InSubnetIs
  <2>4. InSubnet(a, list[i]) <=> ToSubnet(a, n) = s
    BY <2>2 DEF InSubnet
  <2> QED
    BY <2>2, <2>3, <2>4
<1>2. ASSUME NEW s \in FilterSessions
      PROVE  /\ verdicts[s] = {FALSE} => reached[s] = <<>> /\ s \in closeNow
             /\ verdicts[s] = {TRUE} => s \notin closeNow
             /\ verdicts[s] = {TRUE} /\ peer[s].phase = "closed" =>
                  reached[s] = <<"created", "opened">> \o [i \in 1..peer[s].idles |-> "other"] \o <<"closed">>
  <2>1. verdicts[s] = {FALSE} => reached[s] = <<>> /\ s \in closeNow
    BY Zenon DEF AddressInv, JudgedInv
  <2>2. verdicts[s] = {TRUE} => s \notin closeNow /\ reached[s] = Story(peer[s].phase, peer[s].idles)
    BY Zenon DEF AddressInv, JudgedInv
  <2>3. Story("closed", peer[s].idles) = <<"created", "opened">> \o [i \in 1..peer[s].idles |-> "other"] \o <<"closed">>
    BY DEF Story
  <2> QED
    BY <2>1, <2>2, <2>3, Zenon
<1> QED
  BY <1>1, <1>2, Zenon DEF AddressesChecked

\* A subnet holds the addresses it should, and a session is let through or is
\* closed as a list says that has always said the same of it.
THEOREM AddressesCheckedCorrect == AddressSpec => []AddressesChecked
<1>1. AddressInit => AddressInv
  BY AddressInitially
<1>2. AddressInv /\ [AddressNext]_addressVars => AddressInv'
  BY AddressStep
<1>3. AddressInv => AddressesChecked
  BY AddressesCheckedHolds
<1> QED
  BY <1>1, <1>2, <1>3, PTL DEF AddressSpec

----------------------------------------------------------------------------
(* The profiler: what its timers hold and what is on its way to them is, in *)
(* sum, what was recorded.                                                 *)

\* What the durations of a sequence sum up to.
SumOf(d) == FoldSeq(LAMBDA x, n : x + n, 0, d)

\* The fold over a sequence is a sum over its positions.
LEMMA SumOfIs ==
  ASSUME NEW d \in Seq(Nat)
  PROVE  IsFiniteSet(DOMAIN d) /\ \E g : IsSum(g, d, DOMAIN d) /\ SumOf(d) = g[DOMAIN d]
<1> DEFINE S == DOMAIN d
           iter == CHOOSE f : f = [s \in SUBSET S |-> IF s = {} THEN 0
                                     ELSE d[CHOOSE x \in s : TRUE] + f[s \ {CHOOSE x \in s : TRUE}]]
<1>1. SumOf(d) = iter[S]
  BY DEF SumOf, FoldSeq, FoldFunction, FoldFunctionOnSet, MapThenFoldSet
<1>2. d \in [S -> Int] /\ IsFiniteSet(S)
  <2>1. DOMAIN d = 1..Len(d) /\ Len(d) \in Nat
    OBVIOUS
  <2>2. IsFiniteSet(1..Len(d))
    BY <2>1, FS_Interval
  <2> QED
    BY <2>1, <2>2
<1>3. PICK g : IsSum(g, d, S)
  <2> HIDE DEF S
  <2> QED
    BY <1>2, SumExists
<1> HIDE DEF S
<1>4. ASSUME NEW s \in SUBSET S, s # {}
      PROVE  /\ (CHOOSE x \in s : TRUE) = AnyOf(s) /\ AnyOf(s) \in S /\ d[AnyOf(s)] \in Int
             /\ g[s \ {AnyOf(s)}] \in Int
             /\ d[AnyOf(s)] + g[s \ {AnyOf(s)}] = g[s \ {AnyOf(s)}] + d[AnyOf(s)]
  <2>1. (CHOOSE x \in s : TRUE) = AnyOf(s) /\ AnyOf(s) \in S
    BY <1>4, AnyIn DEF AnyOf
  <2>2. d[AnyOf(s)] \in Int /\ g[s \ {AnyOf(s)}] \in Int
    BY <1>2, <1>3, <2>1 DEF IsSum
  <2> QED
    BY <2>1, <2>2
<1>5. g = [s \in SUBSET S |-> IF s = {} THEN 0
                                ELSE d[CHOOSE x \in s : TRUE] + g[s \ {CHOOSE x \in s : TRUE}]]
  <2> DEFINE h == [s \in SUBSET S |-> IF s = {} THEN 0
                                ELSE d[CHOOSE x \in s : TRUE] + g[s \ {CHOOSE x \in s : TRUE}]]
  <2>1. \A s \in SUBSET S : h[s] = g[s]
    BY <1>3, <1>4 DEF IsSum
  <2>2. h = [s \in SUBSET S |-> h[s]]
    OBVIOUS
  <2> HIDE DEF h
  <2>3. g = [s \in SUBSET S |-> g[s]]
    BY <1>3 DEF IsSum
  <2>4. g = h
    BY <2>1, <2>2, <2>3
  <2> QED
    BY <2>4 DEF h
<1>6. iter = [s \in SUBSET S |-> IF s = {} THEN 0
                                ELSE d[CHOOSE x \in s : TRUE] + iter[s \ {CHOOSE x \in s : TRUE}]]
  BY <1>5
<1> HIDE DEF iter
<1>7. \A s \in SUBSET S : iter[s] = g[s]
  <2> DEFINE T == {n \in Nat : \E s \in SUBSET S : Cardinality(s) = n /\ iter[s] # g[s]}
  <2>1. T = {}
    <3> SUFFICES ASSUME T # {} PROVE FALSE
      OBVIOUS
    <3>1. PICK n \in T : \A k \in T : n <= k
      BY LeastNat
    <3>2. PICK s \in SUBSET S : Cardinality(s) = n /\ iter[s] # g[s]
      OBVIOUS
    <3>3. s # {}
      <4>1. s = {} => iter[s] = 0 /\ g[s] = 0
        BY <1>3, <1>6 DEF IsSum
      <4> QED
        BY <3>2, <4>1
    <3>4. AnyOf(s) \in s
      BY <3>3, AnyIn
    <3>5. Cardinality(s \ {AnyOf(s)}) = n - 1 /\ s \ {AnyOf(s)} \in SUBSET S /\ Cardinality(s) \in Nat
      BY <1>2, <3>2, <3>4, SubsetIs
    <3>6. Cardinality(s \ {AnyOf(s)}) \in Nat
      BY <1>2, <3>5, SubsetIs
    <3>7. n - 1 \in Nat /\ ~(n <= n - 1)
      BY <3>2, <3>5, <3>6
    <3>8. n - 1 \notin T
      BY <3>1, <3>7
    <3>9. iter[s \ {AnyOf(s)}] = g[s \ {AnyOf(s)}]
      BY <3>5, <3>7, <3>8
    <3>10. iter[s] = d[AnyOf(s)] + iter[s \ {AnyOf(s)}]
      BY ZenonT(30), <1>4, <1>6, <3>3
    <3>11. g[s] = g[s \ {AnyOf(s)}] + d[AnyOf(s)]
      BY <1>3, <3>3 DEF IsSum
    <3> QED
      BY <1>4, <3>2, <3>3, <3>9, <3>10, <3>11
  <2>2. \A s \in SUBSET S : Cardinality(s) \in Nat
    BY <1>2, SubsetIs
  <2> QED
    BY <2>1, <2>2
<1>8. SumOf(d) = g[S]
  BY <1>1, <1>7
<1> QED
  BY <1>2, <1>3, <1>8 DEF S

\* One duration more, and none.
LEMMA SumOfAppend ==
  ASSUME NEW d \in Seq(Nat), NEW x \in Nat
  PROVE  SumOf(Append(d, x)) = SumOf(d) + x /\ SumOf(d) \in Int
<1> DEFINE e == Append(d, x)
           n == Len(d) + 1
<1>0. Len(d) \in Nat /\ DOMAIN d = 1..Len(d)
  OBVIOUS
<1>00. e \in Seq(Nat) /\ Len(e) = Len(d) + 1 /\ (\A i \in 1..Len(d) : e[i] = d[i]) /\ e[Len(d) + 1] = x
  BY AppendProperties
<1> HIDE DEF e
<1>1. e \in Seq(Nat) /\ n \in DOMAIN e /\ e[n] = x /\ DOMAIN d = DOMAIN e \ {n} /\ \A i \in DOMAIN d : e[i] = d[i]
  <2>1. DOMAIN e = 1..(Len(d) + 1)
    BY <1>00
  <2>2. 1..Len(d) = (1..(Len(d) + 1)) \ {Len(d) + 1} /\ Len(d) + 1 \in 1..(Len(d) + 1)
    BY <1>0
  <2> QED
    BY <1>0, <1>00, <2>1, <2>2
<1>2. e \in [DOMAIN e -> Int]
  BY <1>1
<1> HIDE DEF n
<1>3. IsFiniteSet(DOMAIN e) /\ IsFiniteSet(DOMAIN d)
  BY <1>1, SumOfIs
<1>4. PICK g : IsSum(g, e, DOMAIN e) /\ SumOf(e) = g[DOMAIN e]
  BY <1>1, SumOfIs
<1>5. PICK h : IsSum(h, d, DOMAIN d) /\ SumOf(d) = h[DOMAIN d]
  BY SumOfIs
<1>6. g[DOMAIN e] = g[DOMAIN e \ {n}] + e[n]
  <2>1. PICK D : D = DOMAIN e
    OBVIOUS
  <2>0. PICK w : w = e
    OBVIOUS
  <2>2. w \in [D -> Int] /\ IsFiniteSet(D) /\ IsSum(g, w, D) /\ D \in SUBSET D /\ n \in D
    BY <1>1, <1>2, <1>3, <1>4, <2>0, <2>1
  <2>3. g[D] = g[D \ {n}] + w[n]
    BY <2>2, SumWithout
  <2> QED
    BY <2>0, <2>1, <2>3
<1>7. g[DOMAIN d] = h[DOMAIN d]
  BY <1>1, <1>3, <1>4, <1>5, SumSame
<1>8. h[DOMAIN d] \in Int
  BY <1>5 DEF IsSum
<1> QED
  BY <1>1, <1>4, <1>5, <1>6, <1>7, <1>8 DEF e

\* Durations of at most m sum up to at most m for each.
LEMMA SumOfBounded ==
  ASSUME NEW d \in Seq(Nat), NEW m \in Nat, \A i \in DOMAIN d : d[i] <= m
  PROVE  SumOf(d) \in Nat /\ SumOf(d) <= Len(d) * m
<1>1. IsFiniteSet(DOMAIN d) /\ Len(d) \in Nat /\ DOMAIN d = 1..Len(d) /\ Cardinality(DOMAIN d) = Len(d)
  <2>1. Len(d) \in Nat /\ DOMAIN d = 1..Len(d)
    OBVIOUS
  <2>2. IsFiniteSet(1..Len(d)) /\ Cardinality(1..Len(d)) = IF 1 > Len(d) THEN 0 ELSE Len(d) - 1 + 1
    BY <2>1, FS_Interval
  <2> QED
    BY <2>1, <2>2
<1>2. PICK g : IsSum(g, d, DOMAIN d) /\ SumOf(d) = g[DOMAIN d]
  BY SumOfIs
<1>3. \A i \in DOMAIN d : d[i] \in Nat
  OBVIOUS
<1> DEFINE T == {n \in Nat : \E s \in SUBSET DOMAIN d : Cardinality(s) = n /\ ~(g[s] \in Nat /\ g[s] <= n * m)}
<1>4. T = {}
  <2> SUFFICES ASSUME T # {} PROVE FALSE
    OBVIOUS
  <2>1. PICK n \in T : \A k \in T : n <= k
    BY LeastNat
  <2>2. PICK s \in SUBSET DOMAIN d : Cardinality(s) = n /\ ~(g[s] \in Nat /\ g[s] <= n * m)
    OBVIOUS
  <2>3. s # {}
    <3>1. s = {} => g[s] = 0 /\ Cardinality(s) = 0
      BY <1>2, FS_EmptySet DEF IsSum
    <3>2. 0 * m = 0
      OBVIOUS
    <3> QED
      BY <2>2, <3>1, <3>2
  <2>4. AnyOf(s) \in s
    BY <2>3, AnyIn
  <2>5. Cardinality(s \ {AnyOf(s)}) = n - 1 /\ s \ {AnyOf(s)} \in SUBSET DOMAIN d /\ Cardinality(s) \in Nat
    <3>1. Cardinality(s) \in Nat /\ \A a \in s : Cardinality(s \ {a}) = Cardinality(s) - 1 /\ s \ {a} \in SUBSET DOMAIN d
      BY <1>1, SubsetIs
    <3> QED
      BY <2>2, <2>4, <3>1
  <2>6. Cardinality(s \ {AnyOf(s)}) \in Nat
    BY <1>1, <2>5, SubsetIs
  <2>7. PICK k \in Nat : k = n - 1 /\ n = k + 1 /\ ~(n <= k)
    <3>1. n - 1 \in Nat /\ n = (n - 1) + 1 /\ ~(n <= n - 1)
      BY <2>2, <2>5, <2>6
    <3> QED
      BY <3>1
  <2>8. k \notin T
    BY <2>1, <2>7
  <2>9. PICK r \in Nat : r = g[s \ {AnyOf(s)}] /\ r <= k * m
    BY <2>5, <2>7, <2>8
  <2>10. PICK y \in Nat : y = d[AnyOf(s)] /\ y <= m
    BY <1>3, <2>4
  <2>11. g[s] = r + y
    BY <1>2, <2>3, <2>9, <2>10 DEF IsSum
  <2>12. PICK p \in Nat : p = k * m /\ n * m = p + m
    BY <2>7, OnceMore
  <2>13. g[s] \in Nat /\ g[s] <= p + m
    <3>1. r <= p
      BY <2>9, <2>12
    <3> QED
      BY SMTT(30), <2>10, <2>11, <3>1
  <2> QED
    BY <2>2, <2>12, <2>13
<1>5. g[DOMAIN d] \in Nat /\ g[DOMAIN d] <= Len(d) * m
  BY <1>1, <1>4
<1> QED
  BY <1>2, <1>5

\* Messages of which nothing is left sum up to nothing.
LEMMA SumLeftNone ==
  ASSUME NEW m, NEW S, IsFiniteSet(S), \A r \in S : LeftOf(m, r) = 0
  PROVE  SumLeft(m, S) = 0
<1>0. Weighed(m, S)
  BY DEF Weighed
<1> DEFINE T == {n \in Nat : \E U \in SUBSET S : Cardinality(U) = n /\ SumLeft(m, U) # 0}
<1>1. T = {}
  <2> SUFFICES ASSUME T # {} PROVE FALSE
    OBVIOUS
  <2>1. PICK n \in T : \A k \in T : n <= k
    BY LeastNat
  <2>2. PICK U \in SUBSET S : Cardinality(U) = n /\ SumLeft(m, U) # 0
    OBVIOUS
  <2>3. Weighed(m, U) /\ U # {}
    BY <1>0, <2>2, WeighedSubset, SumLeftInt
  <2>4. PICK a \in U : TRUE
    BY <2>3
  <2>5. Cardinality(U \ {a}) = n - 1 /\ U \ {a} \in SUBSET S /\ n \in Nat
    BY <2>2, SubsetIs
  <2>6. Cardinality(U \ {a}) \in Nat
    BY <2>5, SubsetIs
  <2>7. n - 1 \in Nat /\ ~(n <= n - 1)
    BY <2>5, <2>6
  <2>8. n - 1 \notin T
    BY <2>1, <2>7
  <2>9. SumLeft(m, U \ {a}) = 0
    BY <2>5, <2>7, <2>8
  <2>10. SumLeft(m, U) = SumLeft(m, U \ {a}) + LeftOf(m, a) /\ LeftOf(m, a) = 0
    BY <2>3, <2>4, SumLeftSplit
  <2> QED
    BY <2>2, <2>9, <2>10
<1>2. Cardinality(S) \in Nat
  BY FS_CardinalityType
<1> QED
  BY <1>1, <1>2

AddPlaces == {"calls", "total", "extremes"}
MeasurerStates ==
  {Out} \cup [at : {"null"}] \cup [at : {"event"}, type : EventTypes] \cup [at : AddPlaces, timer : Nat, duration : Nat]
TimerWorkers == [callsNumber : Nat, total : Nat, minimum : Nat, maximum : Nat]

\* What a thread has still to add to a TimerWorker.
AddingTo(s, w) == s.at \in AddPlaces /\ s.timer = w
CallOf(s, w) == IF s.at = "calls" /\ s.timer = w THEN 1 ELSE 0
DurationOf(s, w) == IF s.at \in {"calls", "total"} /\ s.timer = w THEN s.duration ELSE 0
CallsDue(m, w) == [t \in Measurers |-> [kind |-> "calls", left |-> CallOf(m[t], w)]]
TimeDue(m, w) == [t \in Measurers |-> [kind |-> "time", left |-> DurationOf(m[t], w)]]

\* A TimerWorker and what the threads have still to add are the durations.
TimerOK(c, d, m, w) ==
  /\ c \in TimerWorkers /\ d \in Seq(Nat)
  /\ c.callsNumber + SumLeft(CallsDue(m, w), Measurers) = Len(d)
  /\ c.total + SumLeft(TimeDue(m, w), Measurers) = SumOf(d)
  /\ c.minimum = 0
  /\ c.maximum = 0 \/ \E i \in DOMAIN d : d[i] = c.maximum
  /\ \A i \in DOMAIN d : d[i] <= c.maximum \/ \E t \in Measurers : AddingTo(m[t], w) /\ m[t].duration = d[i]
  /\ \A t \in Measurers : AddingTo(m[t], w) => \E i \in DOMAIN d : d[i] = m[t].duration

\* What one thread has still to add is a number.
LEMMA DueOfOne ==
  ASSUME NEW s \in MeasurerStates, NEW w \in Nat
  PROVE  CallOf(s, w) \in Nat /\ DurationOf(s, w) \in Nat /\ (AddingTo(s, w) => s.duration \in Nat)
<1>1. CallOf(s, w) \in Nat
  BY DEF CallOf
<1>2. ASSUME s.at \in AddPlaces PROVE s.duration \in Nat
  <2>1. "null" \notin AddPlaces /\ "event" \notin AddPlaces /\ "out" \notin AddPlaces
    BY DEF AddPlaces
  <2> QED
    BY <1>2, <2>1 DEF MeasurerStates, Out
<1>3. {"calls", "total"} \subseteq AddPlaces
  BY DEF AddPlaces
<1> QED
  BY <1>1, <1>2, <1>3 DEF AddingTo, DurationOf

\* What the threads have still to add is a number, and it changes with one of
\* them.
LEMMA DueIs ==
  ASSUME NEW m \in [Measurers -> MeasurerStates], NEW w \in Nat
  PROVE  /\ SumLeft(CallsDue(m, w), Measurers) \in Int /\ SumLeft(TimeDue(m, w), Measurers) \in Int
         /\ (\A t \in Measurers : ~AddingTo(m[t], w)) =>
              SumLeft(CallsDue(m, w), Measurers) = 0 /\ SumLeft(TimeDue(m, w), Measurers) = 0
<1>1. IsFiniteSet(Measurers)
  BY ProfilerAssumption
<1>2. \A t \in Measurers : /\ LeftOf(CallsDue(m, w), t) = CallOf(m[t], w) /\ CallOf(m[t], w) \in Nat
                           /\ LeftOf(TimeDue(m, w), t) = DurationOf(m[t], w) /\ DurationOf(m[t], w) \in Nat
  BY DueOfOne DEF LeftOf, CallsDue, TimeDue
<1>3. Weighed(CallsDue(m, w), Measurers) /\ Weighed(TimeDue(m, w), Measurers)
  BY <1>1, <1>2 DEF Weighed
<1>4. ASSUME \A t \in Measurers : ~AddingTo(m[t], w)
      PROVE  SumLeft(CallsDue(m, w), Measurers) = 0 /\ SumLeft(TimeDue(m, w), Measurers) = 0
  <2>1. \A t \in Measurers : CallOf(m[t], w) = 0 /\ DurationOf(m[t], w) = 0
    BY <1>4 DEF CallOf, DurationOf, AddingTo, AddPlaces
  <2> QED
    BY <1>1, <1>2, <2>1, SumLeftNone
<1> QED
  BY <1>3, <1>4, SumLeftInt

\* What is due changes by what one measurer takes up or delivers.
LEMMA DueChanges ==
  ASSUME NEW m \in [Measurers -> MeasurerStates], NEW w \in Nat, NEW t \in Measurers,
         NEW k \in [Measurers -> MeasurerStates], \A r \in Measurers \ {t} : k[r] = m[r]
  PROVE  /\ SumLeft(CallsDue(k, w), Measurers) = SumLeft(CallsDue(m, w), Measurers) - CallOf(m[t], w) + CallOf(k[t], w)
         /\ SumLeft(TimeDue(k, w), Measurers) = SumLeft(TimeDue(m, w), Measurers) - DurationOf(m[t], w) + DurationOf(k[t], w)
<1>1. IsFiniteSet(Measurers)
  BY ProfilerAssumption
<1>3. ASSUME NEW f \in [Measurers -> MeasurerStates]
      PROVE  \A r \in Measurers : /\ LeftOf(CallsDue(f, w), r) = CallOf(f[r], w) /\ CallOf(f[r], w) \in Nat
                                  /\ LeftOf(TimeDue(f, w), r) = DurationOf(f[r], w) /\ DurationOf(f[r], w) \in Nat
  BY DueOfOne DEF LeftOf, CallsDue, TimeDue
<1>4. ASSUME NEW f, NEW g, Weighed(f, Measurers), Weighed(g, Measurers), \A r \in Measurers \ {t} : LeftOf(g, r) = LeftOf(f, r)
      PROVE  SumLeft(g, Measurers) = SumLeft(f, Measurers) - LeftOf(f, t) + LeftOf(g, t)
  <2>1. SumLeft(g, Measurers) = SumLeft(g, Measurers \ {t}) + LeftOf(g, t) /\ LeftOf(g, t) \in Int
    BY <1>4, SumLeftSplit
  <2>2. SumLeft(f, Measurers) = SumLeft(f, Measurers \ {t}) + LeftOf(f, t) /\ LeftOf(f, t) \in Int
        /\ SumLeft(f, Measurers \ {t}) \in Int
    BY <1>4, SumLeftSplit
  <2>3. SumLeft(g, Measurers \ {t}) = SumLeft(f, Measurers \ {t})
    <3>1. Weighed(f, Measurers \ {t})
      BY <1>4, WeighedSubset
    <3> QED
      BY <1>4, <3>1, SumLeftSame
  <2> QED
    BY <2>1, <2>2, <2>3
<1>5. ASSUME NEW f \in [Measurers -> MeasurerStates] PROVE Weighed(CallsDue(f, w), Measurers) /\ Weighed(TimeDue(f, w), Measurers)
  BY <1>1, <1>3 DEF Weighed
<1>6. SumLeft(CallsDue(k, w), Measurers) = SumLeft(CallsDue(m, w), Measurers) - CallOf(m[t], w) + CallOf(k[t], w)
  <2>1. \A r \in Measurers \ {t} : LeftOf(CallsDue(k, w), r) = LeftOf(CallsDue(m, w), r)
    BY <1>3
  <2>2. LeftOf(CallsDue(m, w), t) = CallOf(m[t], w) /\ LeftOf(CallsDue(k, w), t) = CallOf(k[t], w)
    BY <1>3
  <2>3. SumLeft(CallsDue(k, w), Measurers) = SumLeft(CallsDue(m, w), Measurers) - LeftOf(CallsDue(m, w), t) + LeftOf(CallsDue(k, w), t)
    BY <1>4, <1>5, <2>1
  <2> QED
    BY <2>2, <2>3
<1>7. SumLeft(TimeDue(k, w), Measurers) = SumLeft(TimeDue(m, w), Measurers) - DurationOf(m[t], w) + DurationOf(k[t], w)
  <2>1. \A r \in Measurers \ {t} : LeftOf(TimeDue(k, w), r) = LeftOf(TimeDue(m, w), r)
    BY <1>3
  <2>2. LeftOf(TimeDue(m, w), t) = DurationOf(m[t], w) /\ LeftOf(TimeDue(k, w), t) = DurationOf(k[t], w)
    BY <1>3
  <2>3. SumLeft(TimeDue(k, w), Measurers) = SumLeft(TimeDue(m, w), Measurers) - LeftOf(TimeDue(m, w), t) + LeftOf(TimeDue(k, w), t)
    BY <1>4, <1>5, <2>1
  <2> QED
    BY <2>2, <2>3
<1> QED
  BY <1>6, <1>7

\* A thread that has nothing more to add to a TimerWorker than before leaves it
\* as it is.
LEMMA TimerUntouched ==
  ASSUME NEW c, NEW d, NEW m \in [Measurers -> MeasurerStates], NEW w \in Nat, TimerOK(c, d, m, w),
         NEW t \in Measurers, NEW x \in MeasurerStates, NEW k \in [Measurers -> MeasurerStates], k[t] = x, \A r \in Measurers \ {t} : k[r] = m[r], ~AddingTo(m[t], w), ~AddingTo(x, w)
  PROVE  TimerOK(c, d, k, w)
<1>1. \A s : ~AddingTo(s, w) => CallOf(s, w) = 0 /\ DurationOf(s, w) = 0
  BY DEF AddingTo, CallOf, DurationOf, AddPlaces
<1>2. /\ SumLeft(CallsDue(m, w), Measurers) \in Int /\ SumLeft(TimeDue(m, w), Measurers) \in Int
      /\ SumLeft(CallsDue(k, w), Measurers) = SumLeft(CallsDue(m, w), Measurers) - 0 + 0
      /\ SumLeft(TimeDue(k, w), Measurers) = SumLeft(TimeDue(m, w), Measurers) - 0 + 0
  <2>1. SumLeft(CallsDue(m, w), Measurers) \in Int /\ SumLeft(TimeDue(m, w), Measurers) \in Int
    BY DueIs
  <2>2. CallOf(m[t], w) = 0 /\ DurationOf(m[t], w) = 0 /\ CallOf(x, w) = 0 /\ DurationOf(x, w) = 0
    BY <1>1
  <2>3. /\ SumLeft(CallsDue(k, w), Measurers) = SumLeft(CallsDue(m, w), Measurers) - CallOf(m[t], w) + CallOf(x, w)
        /\ SumLeft(TimeDue(k, w), Measurers) = SumLeft(TimeDue(m, w), Measurers) - DurationOf(m[t], w) + DurationOf(x, w)
    BY DueChanges
  <2> QED
    BY <2>1, <2>2, <2>3
<1>3. SumLeft(CallsDue(k, w), Measurers) = SumLeft(CallsDue(m, w), Measurers)
      /\ SumLeft(TimeDue(k, w), Measurers) = SumLeft(TimeDue(m, w), Measurers)
  BY <1>2
<1>4. k[t] = x /\ \A r \in Measurers \ {t} : k[r] = m[r]
  OBVIOUS
<1>5. \A r \in Measurers : AddingTo(k[r], w) => AddingTo(m[r], w) /\ k[r] = m[r]
  BY <1>4
<1>6. \A r \in Measurers : AddingTo(m[r], w) => AddingTo(k[r], w) /\ k[r] = m[r]
  BY <1>4
<1>7. ASSUME NEW i \in DOMAIN d, ~(d[i] <= c.maximum)
      PROVE  \E r \in Measurers : AddingTo(k[r], w) /\ k[r].duration = d[i]
  <2>1. PICK r \in Measurers : AddingTo(m[r], w) /\ m[r].duration = d[i]
    BY <1>7 DEF TimerOK
  <2>2. AddingTo(k[r], w) /\ k[r] = m[r]
    BY <1>6, <2>1
  <2> QED
    BY <2>1, <2>2
<1>8. ASSUME NEW r \in Measurers, AddingTo(k[r], w)
      PROVE  \E i \in DOMAIN d : d[i] = k[r].duration
  <2>1. AddingTo(m[r], w) /\ k[r] = m[r]
    BY <1>5, <1>8
  <2>2. \E i \in DOMAIN d : d[i] = m[r].duration
    BY <2>1 DEF TimerOK
  <2> QED
    BY <2>1, <2>2
<1> QED
  BY <1>3, <1>7, <1>8 DEF TimerOK

\* A duration that is recorded has still to be added.
LEMMA TimerRecorded ==
  ASSUME NEW c, NEW d, NEW m \in [Measurers -> MeasurerStates], NEW w \in Nat, TimerOK(c, d, m, w),
         NEW t \in Measurers, ~AddingTo(m[t], w), NEW y \in Nat,
         NEW x, x = [at |-> "calls", timer |-> w, duration |-> y], NEW k \in [Measurers -> MeasurerStates], k[t] = x, \A r \in Measurers \ {t} : k[r] = m[r]
  PROVE  TimerOK(c, Append(d, y), k, w)
<1>1. x \in MeasurerStates /\ AddingTo(x, w) /\ x.duration = y /\ CallOf(x, w) = 1 /\ DurationOf(x, w) = y
  BY DEF MeasurerStates, AddPlaces, AddingTo, CallOf, DurationOf
<1>2. CallOf(m[t], w) = 0 /\ DurationOf(m[t], w) = 0
  BY DEF AddingTo, CallOf, DurationOf, AddPlaces
<1>3. /\ SumLeft(CallsDue(m, w), Measurers) \in Int /\ SumLeft(TimeDue(m, w), Measurers) \in Int
      /\ SumLeft(CallsDue(k, w), Measurers) = SumLeft(CallsDue(m, w), Measurers) - 0 + 1
      /\ SumLeft(TimeDue(k, w), Measurers) = SumLeft(TimeDue(m, w), Measurers) - 0 + y
  <2>1. SumLeft(CallsDue(m, w), Measurers) \in Int /\ SumLeft(TimeDue(m, w), Measurers) \in Int
    BY DueIs
  <2>2. /\ SumLeft(CallsDue(k, w), Measurers) = SumLeft(CallsDue(m, w), Measurers) - CallOf(m[t], w) + CallOf(x, w)
        /\ SumLeft(TimeDue(k, w), Measurers) = SumLeft(TimeDue(m, w), Measurers) - DurationOf(m[t], w) + DurationOf(x, w)
    BY DueChanges
  <2> QED
    BY <1>1, <1>2, <2>1, <2>2
<1>4. k[t] = x /\ \A r \in Measurers \ {t} : k[r] = m[r]
  OBVIOUS
<1>5. d \in Seq(Nat) /\ SumOf(Append(d, y)) = SumOf(d) + y /\ SumOf(d) \in Int
  BY SumOfAppend DEF TimerOK
<1>6. PICK e \in Seq(Nat) : e = Append(d, y) /\ Len(e) = Len(d) + 1 /\ Len(d) + 1 \in DOMAIN e /\ e[Len(d) + 1] = y
                            /\ DOMAIN e = DOMAIN d \cup {Len(d) + 1} /\ \A i \in DOMAIN d : e[i] = d[i]
  <2>1. PICK e : e = Append(d, y)
    OBVIOUS
  <2>2. e \in Seq(Nat) /\ Len(e) = Len(d) + 1 /\ e[Len(d) + 1] = y /\ (\A i \in 1..Len(d) : e[i] = d[i])
    BY <1>5, <2>1, AppendProperties
  <2>3. DOMAIN e = 1..(Len(d) + 1) /\ DOMAIN d = 1..Len(d) /\ Len(d) \in Nat
    BY <1>5, <2>2
  <2>4. Len(d) + 1 \in 1..(Len(d) + 1) /\ 1..(Len(d) + 1) = (1..Len(d)) \cup {Len(d) + 1}
    BY <2>3
  <2>5. Len(d) + 1 \in DOMAIN e /\ DOMAIN e = DOMAIN d \cup {Len(d) + 1} /\ \A i \in DOMAIN d : e[i] = d[i]
    BY <2>2, <2>3, <2>4
  <2> QED
    BY <2>1, <2>2, <2>5
<1>7. c \in TimerWorkers /\ c.callsNumber \in Nat /\ c.total \in Nat /\ Len(d) \in Nat
  BY <1>5 DEF TimerOK, TimerWorkers
<1>8. c.callsNumber + SumLeft(CallsDue(k, w), Measurers) = Len(e) /\ c.total + SumLeft(TimeDue(k, w), Measurers) = SumOf(e)
  <2>1. PICK a \in Int, z \in Int : a = SumLeft(CallsDue(m, w), Measurers) /\ z = SumLeft(TimeDue(m, w), Measurers)
    BY <1>3
  <2>2. c.callsNumber + a = Len(d) /\ c.total + z = SumOf(d)
    BY <2>1 DEF TimerOK
  <2>3. SumLeft(CallsDue(k, w), Measurers) = a + 1 /\ SumLeft(TimeDue(k, w), Measurers) = z + y
    BY <1>3, <2>1
  <2>4. Len(e) = Len(d) + 1 /\ SumOf(e) = SumOf(d) + y
    BY <1>5, <1>6
  <2>5. PICK p \in Nat, q \in Nat, l \in Nat, u \in Int : p = c.callsNumber /\ q = c.total /\ l = Len(d) /\ u = SumOf(d)
    BY <1>5, <1>7
  <2>6. p + a = l /\ q + z = u
    BY <2>2, <2>5
  <2>7. p + (a + 1) = l + 1 /\ q + (z + y) = u + y
    BY <2>6
  <2> QED
    BY <2>3, <2>4, <2>5, <2>7
<1>9. c.maximum = 0 \/ \E i \in DOMAIN e : e[i] = c.maximum
  BY <1>6 DEF TimerOK
<1>10. \A i \in DOMAIN e : e[i] <= c.maximum \/ \E r \in Measurers : AddingTo(k[r], w) /\ k[r].duration = e[i]
  <2> TAKE i \in DOMAIN e
  <2>1. CASE i = Len(d) + 1
    BY <1>1, <1>4, <1>6, <2>1
  <2>2. CASE i # Len(d) + 1
    <3>1. i \in DOMAIN d /\ e[i] = d[i]
      BY <1>6, <2>2
    <3>2. d[i] <= c.maximum \/ \E r \in Measurers : AddingTo(m[r], w) /\ m[r].duration = d[i]
      BY <3>1 DEF TimerOK
    <3>3. \A r \in Measurers : AddingTo(m[r], w) => k[r] = m[r]
      BY <1>4
    <3> QED
      BY <3>1, <3>2, <3>3
  <2> QED
    BY <2>1, <2>2
<1>11. \A r \in Measurers : AddingTo(k[r], w) => \E i \in DOMAIN e : e[i] = k[r].duration
  <2> TAKE r \in Measurers
  <2>1. CASE r = t
    BY <1>1, <1>4, <1>6, <2>1
  <2>2. CASE r # t
    <3>1. k[r] = m[r]
      BY <1>4, <2>2
    <3>2. AddingTo(m[r], w) => \E i \in DOMAIN d : d[i] = m[r].duration
      BY DEF TimerOK
    <3>3. \A i \in DOMAIN d : i \in DOMAIN e /\ e[i] = d[i]
      BY <1>6
    <3> QED
      BY <3>1, <3>2, <3>3
  <2> QED
    BY <2>1, <2>2
<1>12. c.minimum = 0
  BY DEF TimerOK
<1> QED
  BY <1>6, <1>7, <1>8, <1>9, <1>10, <1>11, <1>12 DEF TimerOK

\* A thread adds a call, and then its time.
LEMMA TimerAdded ==
  ASSUME NEW c, NEW d, NEW m \in [Measurers -> MeasurerStates], NEW w \in Nat, TimerOK(c, d, m, w),
         NEW t \in Measurers, AddingTo(m[t], w), NEW b, NEW x, NEW k \in [Measurers -> MeasurerStates], k[t] = x, \A r \in Measurers \ {t} : k[r] = m[r],
         \/ m[t].at = "calls" /\ x = [m[t] EXCEPT !.at = "total"] /\ b = [c EXCEPT !.callsNumber = @ + 1]
         \/ m[t].at = "total" /\ x = [m[t] EXCEPT !.at = "extremes"] /\ b = [c EXCEPT !.total = @ + m[t].duration]
  PROVE  TimerOK(b, d, k, w)
<1>1. m[t] \in [at : AddPlaces, timer : Nat, duration : Nat] /\ m[t].timer = w /\ m[t].duration \in Nat
  <2>1. m[t] \in MeasurerStates /\ m[t].at \in AddPlaces /\ m[t].timer = w
    BY DEF AddingTo
  <2>2. "null" \notin AddPlaces /\ "event" \notin AddPlaces /\ "out" \notin AddPlaces
    BY DEF AddPlaces
  <2>3. m[t] \in [at : AddPlaces, timer : Nat, duration : Nat]
    BY <2>1, <2>2 DEF MeasurerStates, Out
  <2> QED
    BY <2>1, <2>3
<1>2. x \in [at : AddPlaces, timer : Nat, duration : Nat] /\ x.timer = w /\ x.duration = m[t].duration
      /\ x.at = IF m[t].at = "calls" THEN "total" ELSE "extremes"
  <2>1. "total" \in AddPlaces /\ "extremes" \in AddPlaces
    BY DEF AddPlaces
  <2> QED
    BY <1>1, <2>1
<1>3. x \in MeasurerStates /\ AddingTo(x, w)
  BY <1>2 DEF MeasurerStates, AddingTo
<1>4. c \in TimerWorkers /\ d \in Seq(Nat)
  BY DEF TimerOK
<1>5. PICK y \in Nat : y = m[t].duration
  BY <1>1
<1>6. /\ SumLeft(CallsDue(m, w), Measurers) \in Int /\ SumLeft(TimeDue(m, w), Measurers) \in Int
      /\ SumLeft(CallsDue(k, w), Measurers) = SumLeft(CallsDue(m, w), Measurers) - CallOf(m[t], w) + CallOf(x, w)
      /\ SumLeft(TimeDue(k, w), Measurers) = SumLeft(TimeDue(m, w), Measurers) - DurationOf(m[t], w) + DurationOf(x, w)
      /\ k[t] = x /\ \A r \in Measurers \ {t} : k[r] = m[r]
  <2>1. SumLeft(CallsDue(m, w), Measurers) \in Int /\ SumLeft(TimeDue(m, w), Measurers) \in Int
    BY DueIs
  <2>2. /\ SumLeft(CallsDue(k, w), Measurers) = SumLeft(CallsDue(m, w), Measurers) - CallOf(m[t], w) + CallOf(x, w)
        /\ SumLeft(TimeDue(k, w), Measurers) = SumLeft(TimeDue(m, w), Measurers) - DurationOf(m[t], w) + DurationOf(x, w)
        /\ k[t] = x /\ \A r \in Measurers \ {t} : k[r] = m[r]
    BY DueChanges
  <2> QED
    BY <2>1, <2>2
<1>7. b \in TimerWorkers /\ b.minimum = c.minimum /\ b.maximum = c.maximum
  <2>1. c.callsNumber + 1 \in Nat /\ c.total + y \in Nat
    BY <1>4 DEF TimerWorkers
  <2>2. CASE b = [c EXCEPT !.callsNumber = @ + 1]
    BY <1>4, <2>1, <2>2 DEF TimerWorkers
  <2>3. CASE b = [c EXCEPT !.total = @ + y]
    BY <1>4, <2>1, <2>3 DEF TimerWorkers
  <2> QED
    BY <1>5, <2>2, <2>3
<1>8. /\ b.callsNumber + SumLeft(CallsDue(k, w), Measurers) = c.callsNumber + SumLeft(CallsDue(m, w), Measurers)
      /\ b.total + SumLeft(TimeDue(k, w), Measurers) = c.total + SumLeft(TimeDue(m, w), Measurers)
  <2>1. c.callsNumber \in Nat /\ c.total \in Nat
    BY <1>4 DEF TimerWorkers
  <2>2. CASE m[t].at = "calls"
    <3>1. CallOf(m[t], w) = 1 /\ CallOf(x, w) = 0 /\ DurationOf(m[t], w) = y /\ DurationOf(x, w) = y
      BY <1>1, <1>2, <1>5, <2>2 DEF CallOf, DurationOf
    <3>2. b.callsNumber = c.callsNumber + 1 /\ b.total = c.total
      BY <1>4, <2>2 DEF TimerWorkers
    <3> QED
      BY <1>6, <2>1, <3>1, <3>2
  <2>3. CASE m[t].at = "total"
    <3>1. CallOf(m[t], w) = 0 /\ CallOf(x, w) = 0 /\ DurationOf(m[t], w) = y /\ DurationOf(x, w) = 0
      BY <1>1, <1>2, <1>5, <2>3 DEF CallOf, DurationOf
    <3>2. b.callsNumber = c.callsNumber /\ b.total = c.total + y
      BY <1>4, <1>5, <2>3 DEF TimerWorkers
    <3> QED
      BY <1>6, <2>1, <3>1, <3>2
  <2> QED
    BY <2>2, <2>3
<1>9. \A r \in Measurers : (AddingTo(k[r], w) <=> AddingTo(m[r], w)) /\ (AddingTo(m[r], w) => k[r].duration = m[r].duration)
  BY <1>2, <1>3, <1>6
<1>10. \A i \in DOMAIN d : d[i] <= b.maximum \/ \E r \in Measurers : AddingTo(k[r], w) /\ k[r].duration = d[i]
  BY <1>7, <1>9 DEF TimerOK
<1>11. \A r \in Measurers : AddingTo(k[r], w) => \E i \in DOMAIN d : d[i] = k[r].duration
  BY <1>9 DEF TimerOK
<1>12. b.minimum = 0 /\ (b.maximum = 0 \/ \E i \in DOMAIN d : d[i] = b.maximum)
  BY <1>7 DEF TimerOK
<1> QED
  BY <1>3, <1>4, <1>7, <1>8, <1>10, <1>11, <1>12 DEF TimerOK

\* A thread sets the extremes and is done.
LEMMA TimerExtremes ==
  ASSUME NEW c, NEW d, NEW m \in [Measurers -> MeasurerStates], NEW w \in Nat, TimerOK(c, d, m, w),
         NEW t \in Measurers, AddingTo(m[t], w), m[t].at = "extremes", NEW k \in [Measurers -> MeasurerStates], k[t] = Out, \A r \in Measurers \ {t} : k[r] = m[r], NEW y, y = m[t].duration,
         NEW b, b = [c EXCEPT !.minimum = IF y < @ THEN y ELSE @, !.maximum = IF y > @ THEN y ELSE @]
  PROVE  TimerOK(b, d, k, w)
<1>1. y \in Nat
  BY DueOfOne
<1>2. c \in TimerWorkers /\ d \in Seq(Nat) /\ c.minimum = 0 /\ c.maximum \in Nat
  BY DEF TimerOK, TimerWorkers
<1>3. PICK z \in Nat : z = IF y > c.maximum THEN y ELSE c.maximum
  BY <1>1, <1>2
<1>4. b \in TimerWorkers /\ b.minimum = 0 /\ b.maximum = z /\ b.callsNumber = c.callsNumber /\ b.total = c.total
  <2>1. ~(y < c.minimum)
    BY <1>1, <1>2
  <2>2. b = [c EXCEPT !.minimum = c.minimum, !.maximum = z]
    BY <1>3, <2>1
  <2> QED
    BY <1>2, <2>2 DEF TimerWorkers
<1>5. Out \in MeasurerStates /\ ~AddingTo(Out, w) /\ CallOf(Out, w) = 0 /\ DurationOf(Out, w) = 0
  BY DEF MeasurerStates, Out, AddingTo, AddPlaces, CallOf, DurationOf
<1>6. CallOf(m[t], w) = 0 /\ DurationOf(m[t], w) = 0
  BY DEF CallOf, DurationOf
<1>7. /\ SumLeft(CallsDue(m, w), Measurers) \in Int /\ SumLeft(TimeDue(m, w), Measurers) \in Int
      /\ SumLeft(CallsDue(k, w), Measurers) = SumLeft(CallsDue(m, w), Measurers) - 0 + 0
      /\ SumLeft(TimeDue(k, w), Measurers) = SumLeft(TimeDue(m, w), Measurers) - 0 + 0
      /\ k[t] = Out /\ \A r \in Measurers \ {t} : k[r] = m[r]
  <2>1. SumLeft(CallsDue(m, w), Measurers) \in Int /\ SumLeft(TimeDue(m, w), Measurers) \in Int
    BY DueIs
  <2>2. /\ SumLeft(CallsDue(k, w), Measurers) = SumLeft(CallsDue(m, w), Measurers) - CallOf(m[t], w) + CallOf(Out, w)
        /\ SumLeft(TimeDue(k, w), Measurers) = SumLeft(TimeDue(m, w), Measurers) - DurationOf(m[t], w) + DurationOf(Out, w)
        /\ k[t] = Out /\ \A r \in Measurers \ {t} : k[r] = m[r]
    BY DueChanges
  <2> QED
    BY <1>5, <1>6, <2>1, <2>2
<1>8. SumLeft(CallsDue(k, w), Measurers) = SumLeft(CallsDue(m, w), Measurers)
      /\ SumLeft(TimeDue(k, w), Measurers) = SumLeft(TimeDue(m, w), Measurers)
  BY <1>7
<1>9. y <= z /\ c.maximum <= z
  BY <1>1, <1>2, <1>3
<1>10. \A i \in DOMAIN d : d[i] <= b.maximum \/ \E r \in Measurers : AddingTo(k[r], w) /\ k[r].duration = d[i]
  <2> TAKE i \in DOMAIN d
  <2>1. PICK v \in Nat : v = d[i]
    BY <1>2
  <2>2. v <= c.maximum \/ \E r \in Measurers : AddingTo(m[r], w) /\ m[r].duration = v
    BY <2>1 DEF TimerOK
  <2>3. CASE v <= c.maximum
    BY <1>2, <1>4, <1>9, <2>1, <2>3
  <2>4. ASSUME NEW r \in Measurers, AddingTo(m[r], w), m[r].duration = v
        PROVE  d[i] <= b.maximum \/ \E q \in Measurers : AddingTo(k[q], w) /\ k[q].duration = d[i]
    <3>1. CASE r = t
      BY <1>4, <1>9, <2>1, <2>4, <3>1
    <3>2. CASE r # t
      BY <1>7, <2>1, <2>4, <3>2
    <3> QED
      BY <3>1, <3>2
  <2> QED
    BY <2>2, <2>3, <2>4
<1>11. \A r \in Measurers : AddingTo(k[r], w) => \E i \in DOMAIN d : d[i] = k[r].duration
  BY SMTT(30), <1>5, <1>7 DEF TimerOK
<1>12. b.maximum = 0 \/ \E i \in DOMAIN d : d[i] = b.maximum
  <2>1. \E i \in DOMAIN d : d[i] = y
    BY DEF TimerOK
  <2>2. c.maximum = 0 \/ \E i \in DOMAIN d : d[i] = c.maximum
    BY DEF TimerOK
  <2> QED
    BY <1>3, <1>4, <2>1, <2>2
<1>13. b.callsNumber + SumLeft(CallsDue(k, w), Measurers) = Len(d) /\ b.total + SumLeft(TimeDue(k, w), Measurers) = SumOf(d)
  BY <1>4, <1>8 DEF TimerOK
<1> QED
  BY <1>2, <1>4, <1>10, <1>11, <1>12, <1>13 DEF TimerOK

ProfilerTypeOK ==
  /\ profiled \in SUBSET EventTypes /\ timerOf \in [EventTypes -> 0..Len(timers)]
  /\ timers \in Seq(TimerWorkers) /\ recorded \in Seq(Seq(Nat)) /\ Len(recorded) = Len(timers)
  /\ measurer \in [Measurers -> MeasurerStates]
  /\ \A t \in Measurers : measurer[t].at \in AddPlaces => measurer[t].timer \in 1..Len(timers)

\* The flag of a type that has no TimerWorker was just set by profile().
FlaggedRightly ==
  /\ \/ profiling = Idle
     \/ \E y \in EventTypes : profiling = [by |-> "profile", type |-> {y}]
     \/ \E y \in EventTypes : profiling = [by |-> "setProfilers", type |-> {y}] /\ timerOf[y] # 0
  /\ \A y \in profiled : timerOf[y] = 0 => profiling = [by |-> "profile", type |-> {y}]

TimersInv == \A w \in 1..Len(timers) : TimerOK(timers[w], recorded[w], measurer, w)

ProfilerInv == ProfilerTypeOK /\ FlaggedRightly /\ TimersInv

\* A TimerWorker is made for a type.
LEMMA MakeTimerStep ==
  ASSUME ProfilerInv, NEW y \in EventTypes, MakeTimer(y), UNCHANGED measurer, profiled' \in SUBSET EventTypes
  PROVE  ProfilerTypeOK' /\ TimersInv' /\ timerOf'[y] # 0 /\ \A z \in EventTypes \ {y} : timerOf'[z] = timerOf[z]
<1>1. /\ timers \in Seq(TimerWorkers) /\ recorded \in Seq(Seq(Nat)) /\ Len(recorded) = Len(timers)
      /\ timerOf \in [EventTypes -> 0..Len(timers)] /\ measurer \in [Measurers -> MeasurerStates]
  BY DEF ProfilerInv, ProfilerTypeOK
<1>2. PICK n \in Nat : n = Len(timers)
  BY <1>1
<1>3. NewTimer \in TimerWorkers
  BY DEF NewTimer, TimerWorkers
<1>4. /\ timers' \in Seq(TimerWorkers) /\ Len(timers') = n + 1 /\ timers'[n + 1] = NewTimer /\ \A w \in 1..n : timers'[w] = timers[w]
  <2>1. timers' = Append(timers, NewTimer)
    BY DEF MakeTimer
  <2> QED
    BY <1>1, <1>2, <1>3, <2>1, AppendProperties
<1>5. /\ recorded' \in Seq(Seq(Nat)) /\ Len(recorded') = n + 1 /\ recorded'[n + 1] = <<>> /\ \A w \in 1..n : recorded'[w] = recorded[w]
  <2>1. recorded' = Append(recorded, <<>>) /\ <<>> \in Seq(Nat)
    BY DEF MakeTimer
  <2> QED
    BY <1>1, <1>2, <2>1, AppendProperties
<1>6. timerOf' \in [EventTypes -> 0..Len(timers')] /\ timerOf'[y] = n + 1 /\ \A z \in EventTypes \ {y} : timerOf'[z] = timerOf[z]
  <2>1. timerOf' = [timerOf EXCEPT ![y] = n + 1] /\ n + 1 \in 0..(n + 1)
    BY <1>4 DEF MakeTimer
  <2>2. \A z \in EventTypes : timerOf[z] \in 0..(n + 1)
    BY <1>1, <1>2
  <2> QED
    BY <1>1, <1>4, <2>1, <2>2
<1>7. \A t \in Measurers : measurer[t].at \in AddPlaces => measurer[t].timer \in 1..n /\ measurer[t].timer # n + 1 /\ measurer[t].timer \in 1..(n + 1)
  BY <1>2 DEF ProfilerInv, ProfilerTypeOK
<1>8. ProfilerTypeOK'
  BY <1>1, <1>4, <1>5, <1>6, <1>7 DEF ProfilerTypeOK
<1>9. TimerOK(NewTimer, <<>>, measurer, n + 1)
  <2>1. \A t \in Measurers : ~AddingTo(measurer[t], n + 1)
    BY <1>7 DEF AddingTo
  <2>2. SumLeft(CallsDue(measurer, n + 1), Measurers) = 0 /\ SumLeft(TimeDue(measurer, n + 1), Measurers) = 0
    BY SMTT(30), <1>1, <2>1, DueIs
  <2>3. <<>> \in Seq(Nat) /\ DOMAIN <<>> = {} /\ Len(<<>>) = 0
    OBVIOUS
  <2>4. SumOf(<<>>) = 0
    <3>1. PICK e \in Seq(Nat) : e = <<>> /\ DOMAIN e = {} /\ Len(e) = 0
      BY <2>3
    <3>2. SumOf(e) \in Nat /\ SumOf(e) <= 0 * 0
      BY <3>1, SumOfBounded
    <3> QED
      BY <3>1, <3>2
  <2>5. NewTimer.callsNumber = 0 /\ NewTimer.total = 0 /\ NewTimer.minimum = 0 /\ NewTimer.maximum = 0
    BY DEF NewTimer
  <2> QED
    BY <1>3, <2>1, <2>2, <2>3, <2>4, <2>5 DEF TimerOK
<1>10. TimersInv'
  <2> SUFFICES ASSUME NEW w \in 1..(n + 1) PROVE TimerOK(timers'[w], recorded'[w], measurer', w)
    BY <1>4 DEF TimersInv
  <2>1. CASE w = n + 1
    BY <1>4, <1>5, <1>9, <2>1
  <2>2. CASE w # n + 1
    <3>1. w \in 1..n
      BY <2>2
    <3>2. TimerOK(timers[w], recorded[w], measurer, w)
      BY <1>2, <3>1 DEF ProfilerInv, TimersInv
    <3> QED
      BY <1>4, <1>5, <3>1, <3>2
  <2> QED
    BY <2>1, <2>2
<1> QED
  BY <1>2, <1>6, <1>8, <1>10

\* The user's operations.
LEMMA ProfileStep ==
  ASSUME ProfilerInv, \/ \E type \in EventTypes : Profile(type) \/ StopProfile(type) \/ SetProfiler(type)
                      \/ EndProfile \/ EndSetProfiler
  PROVE  ProfilerInv'
<1>1. /\ profiled \in SUBSET EventTypes
      /\ \A y \in profiled : timerOf[y] = 0 => profiling = [by |-> "profile", type |-> {y}]
      /\ \A y : [by |-> "profile", type |-> {y}] # Idle /\ [by |-> "profile", type |-> {y}] # [by |-> "setProfilers", type |-> {y}]
  BY DEF ProfilerInv, ProfilerTypeOK, FlaggedRightly, Idle
<1>2. ASSUME UNCHANGED <<timerOf, timers, measurer, recorded>>, profiled' \in SUBSET EventTypes
      PROVE  ProfilerTypeOK' /\ TimersInv'
  <2>1. ProfilerTypeOK'
    BY <1>2 DEF ProfilerInv, ProfilerTypeOK
  <2>2. TimersInv'
    BY <1>2 DEF ProfilerInv, TimersInv
  <2> QED
    BY <2>1, <2>2
<1>3. ASSUME NEW y \in EventTypes, Profile(y) PROVE ProfilerInv'
  <2>1. profiling = Idle /\ profiled' = profiled \cup {y} /\ profiling' = [by |-> "profile", type |-> {y}] /\ timerOf' = timerOf
        /\ UNCHANGED <<timers, measurer, recorded>>
    BY <1>3 DEF Profile
  <2>2. FlaggedRightly'
    <3>1. \A z \in profiled' : timerOf'[z] = 0 => z = y
      BY <1>1, <2>1
    <3> QED
      BY <2>1, <3>1 DEF FlaggedRightly
  <2> QED
    BY <1>1, <1>2, <2>1, <2>2 DEF ProfilerInv
<1>4. ASSUME NEW y \in EventTypes, StopProfile(y) PROVE ProfilerInv'
  <2>1. profiling = Idle /\ profiled' = profiled \ {y} /\ profiling' = profiling /\ timerOf' = timerOf
        /\ UNCHANGED <<timers, measurer, recorded>>
    BY <1>4 DEF StopProfile
  <2>2. FlaggedRightly'
    BY <1>1, <2>1 DEF FlaggedRightly
  <2> QED
    BY <1>1, <1>2, <2>1, <2>2 DEF ProfilerInv
<1>5. ASSUME NEW y \in EventTypes, SetProfiler(y) PROVE ProfilerInv'
  <2>1. profiling = Idle /\ profiling' = [by |-> "setProfilers", type |-> {y}] /\ profiled' = profiled /\ measurer' = measurer /\ MakeTimer(y)
    BY <1>5 DEF SetProfiler
  <2>2. ProfilerTypeOK' /\ TimersInv' /\ timerOf'[y] # 0 /\ \A z \in EventTypes \ {y} : timerOf'[z] = timerOf[z]
    BY <1>1, <2>1, MakeTimerStep
  <2>3. FlaggedRightly'
    <3>1. \A z \in profiled' : timerOf'[z] # 0
      BY <1>1, <2>1, <2>2
    <3> QED
      BY <2>1, <2>2, <3>1 DEF FlaggedRightly
  <2> QED
    BY <2>2, <2>3 DEF ProfilerInv
<1>6. CASE EndProfile
  <2>1. PICK y \in EventTypes : profiling = [by |-> "profile", type |-> {y}]
    BY <1>6 DEF EndProfile, ProfilerInv, FlaggedRightly, Idle
  <2>2. /\ profiling' = Idle /\ profiled' = profiled /\ measurer' = measurer
        /\ IF timerOf[y] = 0 THEN MakeTimer(y) ELSE UNCHANGED <<timerOf, timers, recorded>>
    <3>1. profiling.type = {y}
      BY <2>1
    <3> QED
      BY <1>6, <3>1 DEF EndProfile
  <2>3. \A z \in profiled : timerOf[z] = 0 => z = y
    <3>1. \A z : [by |-> "profile", type |-> {z}] = [by |-> "profile", type |-> {y}] => z = y
      OBVIOUS
    <3> QED
      BY <1>1, <2>1, <3>1
  <2>4. ProfilerTypeOK' /\ TimersInv' /\ \A z \in profiled : timerOf'[z] # 0
    <3>1. CASE timerOf[y] = 0
      <4>1. ProfilerTypeOK' /\ TimersInv' /\ timerOf'[y] # 0 /\ \A z \in EventTypes \ {y} : timerOf'[z] = timerOf[z]
        BY <1>1, <2>2, <3>1, MakeTimerStep
      <4> QED
        BY <1>1, <2>3, <4>1
    <3>2. CASE timerOf[y] # 0
      BY <1>1, <1>2, <2>2, <2>3, <3>2
    <3> QED
      BY <3>1, <3>2
  <2>5. FlaggedRightly'
    BY <2>2, <2>4 DEF FlaggedRightly
  <2> QED
    BY <2>4, <2>5 DEF ProfilerInv
<1>7. CASE EndSetProfiler
  <2>1. PICK y \in EventTypes : profiling = [by |-> "setProfilers", type |-> {y}] /\ timerOf[y] # 0
    BY <1>7 DEF EndSetProfiler, ProfilerInv, FlaggedRightly, Idle
  <2>2. profiling' = Idle /\ profiled' = profiled \cup {y} /\ timerOf' = timerOf /\ UNCHANGED <<timers, measurer, recorded>>
    <3>1. profiling.type = {y}
      BY <2>1
    <3> QED
      BY <1>7, <3>1 DEF EndSetProfiler
  <2>3. \A z \in profiled' : timerOf'[z] # 0
    <3>1. \A z : [by |-> "profile", type |-> {z}] # [by |-> "setProfilers", type |-> {y}]
      OBVIOUS
    <3> QED
      BY <1>1, <2>1, <2>2, <3>1
  <2>4. FlaggedRightly'
    BY <2>2, <2>3 DEF FlaggedRightly
  <2> QED
    BY <1>1, <1>2, <2>2, <2>4 DEF ProfilerInv
<1> QED
  BY <1>3, <1>4, <1>5, <1>6, <1>7

\* A thread begins, leaves or measures an event.
LEMMA MeasureEventStep ==
  ASSUME ProfilerInv, NEW t \in Measurers,
         \/ \E type \in EventTypes : BeginEvent(t, type)
         \/ \E duration \in 0..MaxDuration : EndEvent(t, duration)
         \/ EventThrows(t)
  PROVE  ProfilerInv'
<1>1. /\ timers \in Seq(TimerWorkers) /\ recorded \in Seq(Seq(Nat)) /\ Len(recorded) = Len(timers)
      /\ timerOf \in [EventTypes -> 0..Len(timers)] /\ measurer \in [Measurers -> MeasurerStates]
      /\ \A r \in Measurers : measurer[r].at \in AddPlaces => measurer[r].timer \in 1..Len(timers)
  BY DEF ProfilerInv, ProfilerTypeOK
<1>2. "event" \notin AddPlaces /\ "null" \notin AddPlaces /\ "out" \notin AddPlaces /\ "calls" \in AddPlaces
  BY DEF AddPlaces
<1>3. UNCHANGED <<profiled, timerOf, timers, profiling>> /\ measurer[t].at \notin AddPlaces
  BY SMTT(30), <1>2 DEF BeginEvent, EndEvent, EventThrows, Out
<1>4. FlaggedRightly'
  BY <1>3 DEF ProfilerInv, FlaggedRightly
<1>5. \A w \in Nat : ~AddingTo(measurer[t], w)
  BY <1>3 DEF AddingTo
<1>6. ASSUME NEW x \in MeasurerStates, x.at \notin AddPlaces, measurer' = [measurer EXCEPT ![t] = x], recorded' = recorded
      PROVE  ProfilerInv'
  <2>1. measurer' \in [Measurers -> MeasurerStates] /\ measurer'[t] = x /\ \A r \in Measurers \ {t} : measurer'[r] = measurer[r]
    BY <1>1, <1>6
  <2>2. ProfilerTypeOK'
    <3>1. \A r \in Measurers : measurer'[r].at \in AddPlaces => measurer'[r].timer \in 1..Len(timers')
      BY <1>1, <1>3, <1>6, <2>1
    <3> QED
      BY <1>3, <1>6, <2>1, <3>1 DEF ProfilerInv, ProfilerTypeOK
  <2>3. TimersInv'
    <3> SUFFICES ASSUME NEW w \in 1..Len(timers) PROVE TimerOK(timers[w], recorded[w], measurer', w)
      BY <1>3, <1>6 DEF TimersInv
    <3>1. TimerOK(timers[w], recorded[w], measurer, w) /\ w \in Nat
      BY DEF ProfilerInv, TimersInv
    <3>2. ~AddingTo(x, w) /\ ~AddingTo(measurer[t], w)
      BY <1>5, <1>6 DEF AddingTo
    <3> QED
      BY <1>1, <1>6, <2>1, <3>1, <3>2, TimerUntouched
  <2> QED
    BY <1>4, <2>2, <2>3 DEF ProfilerInv
<1>7. ASSUME NEW type \in EventTypes, BeginEvent(t, type) PROVE ProfilerInv'
  <2>1. PICK x : x = [at |-> "event", type |-> type]
    OBVIOUS
  <2>2. x \in MeasurerStates /\ x.at \notin AddPlaces
    BY <1>2, <2>1 DEF MeasurerStates
  <2> QED
    BY <1>6, <1>7, <2>1, <2>2 DEF BeginEvent
<1>8. ASSUME EventThrows(t) PROVE ProfilerInv'
  <2>1. Out \in MeasurerStates /\ Out.at \notin AddPlaces
    BY <1>2 DEF MeasurerStates, Out
  <2> QED
    BY <1>6, <1>8, <2>1 DEF EventThrows
<1>9. ASSUME NEW y \in 0..MaxDuration, EndEvent(t, y) PROVE ProfilerInv'
  <2>0. y \in Nat
    BY ProfilerAssumption
  <2>1. PICK v : v = timerOf[measurer[t].type]
    OBVIOUS
  <2>2. CASE v = 0
    <3>1. PICK x : x = [at |-> "null"]
      OBVIOUS
    <3>2. x \in MeasurerStates /\ x.at \notin AddPlaces
      BY <1>2, <3>1 DEF MeasurerStates
    <3>3. measurer' = [measurer EXCEPT ![t] = x] /\ recorded' = recorded
      BY <1>9, <2>1, <2>2, <3>1 DEF EndEvent
    <3> QED
      BY <1>6, <3>2, <3>3
  <2>3. CASE v # 0
    <3>1. PICK x : x = [at |-> "calls", timer |-> v, duration |-> y]
      OBVIOUS
    <3>2. measurer' = [measurer EXCEPT ![t] = x] /\ recorded' = [recorded EXCEPT ![v] = Append(@, y)]
      BY <1>9, <2>1, <2>3, <3>1 DEF EndEvent
    <3>3. v \in 1..Len(timers) /\ v \in Nat
      <4>1. measurer[t].type \in EventTypes
        <5>1. measurer[t].at = "event" /\ measurer[t] \in MeasurerStates
          BY <1>1, <1>9 DEF EndEvent
        <5> QED
          BY <1>2, <5>1 DEF MeasurerStates, Out
      <4>2. v \in 0..Len(timers) /\ Len(timers) \in Nat
        BY <1>1, <2>1, <4>1
      <4> QED
        BY <2>3, <4>2
    <3>4. x \in MeasurerStates
      BY <1>2, <2>0, <3>1, <3>3 DEF MeasurerStates
    <3>5. measurer' \in [Measurers -> MeasurerStates] /\ measurer'[t] = x /\ \A r \in Measurers \ {t} : measurer'[r] = measurer[r]
      BY <1>1, <3>2, <3>4
    <3>6. PICK d \in Seq(Nat) : d = recorded[v] /\ Append(d, y) \in Seq(Nat)
      <4>1. recorded[v] \in Seq(Nat)
        BY <1>1, <3>3
      <4> QED
        BY <2>0, <4>1, AppendProperties
    <3>7. recorded' \in Seq(Seq(Nat)) /\ Len(recorded') = Len(timers) /\ recorded'[v] = Append(d, y)
          /\ \A w \in 1..Len(timers) : w # v => recorded'[w] = recorded[w]
      <4>1. PICK n \in Nat : n = Len(timers)
        BY <1>1
      <4>2. recorded \in [1..n -> Seq(Nat)]
        BY <1>1, <4>1
      <4>3. recorded' \in [1..n -> Seq(Nat)] /\ recorded'[v] = Append(d, y) /\ \A w \in 1..n : w # v => recorded'[w] = recorded[w]
        BY <3>2, <3>3, <3>6, <4>1, <4>2
      <4>4. recorded' \in Seq(Seq(Nat)) /\ Len(recorded') = n
        BY <4>3
      <4> QED
        BY <4>1, <4>3, <4>4
    <3>8. ProfilerTypeOK'
      <4>1. \A r \in Measurers : measurer'[r].at \in AddPlaces => measurer'[r].timer \in 1..Len(timers')
        <5> TAKE r \in Measurers
        <5>1. CASE r = t
          <6>1. measurer'[r].timer = v /\ timers' = timers
            BY <1>3, <3>1, <3>5, <5>1
          <6> QED
            BY <3>3, <6>1
        <5>2. CASE r # t
          BY <1>1, <1>3, <3>5, <5>2
        <5> QED
          BY <5>1, <5>2
      <4> QED
        BY <1>3, <3>5, <3>7, <4>1 DEF ProfilerInv, ProfilerTypeOK
    <3>9. TimersInv'
      <4> SUFFICES ASSUME NEW w \in 1..Len(timers) PROVE TimerOK(timers[w], recorded'[w], measurer', w)
        BY <1>3 DEF TimersInv
      <4>1. TimerOK(timers[w], recorded[w], measurer, w) /\ w \in Nat
        BY DEF ProfilerInv, TimersInv
      <4>2. CASE w = v
        <5>1. TimerOK(timers[w], d, measurer, w) /\ x = [at |-> "calls", timer |-> w, duration |-> y] /\ ~AddingTo(measurer[t], w)
          BY <1>5, <3>1, <3>6, <4>1, <4>2
        <5>2. TimerOK(timers[w], Append(d, y), measurer', w)
          BY <1>1, <2>0, <3>5, <4>1, <5>1, TimerRecorded
        <5> QED
          BY <3>7, <4>2, <5>2
      <4>3. CASE w # v
        <5>1. ~AddingTo(x, w) /\ ~AddingTo(measurer[t], w)
          BY <1>5, <3>1, <4>1, <4>3 DEF AddingTo
        <5>2. TimerOK(timers[w], recorded[w], measurer', w)
          BY <1>1, <3>4, <3>5, <4>1, <5>1, TimerUntouched
        <5> QED
          BY <3>7, <4>3, <5>2
      <4> QED
        BY <4>2, <4>3
    <3> QED
      BY <1>4, <3>8, <3>9 DEF ProfilerInv
  <2> QED
    BY <2>2, <2>3
<1> QED
  BY <1>7, <1>8, <1>9

\* A thread adds a duration to a TimerWorker, or sets its extremes.
LEMMA AddStep ==
  ASSUME ProfilerInv, NEW t \in Measurers, CountCall(t) \/ AddTotal(t) \/ SetExtremes(t)
  PROVE  ProfilerInv'
<1>1. /\ timers \in Seq(TimerWorkers) /\ recorded \in Seq(Seq(Nat)) /\ Len(recorded) = Len(timers)
      /\ timerOf \in [EventTypes -> 0..Len(timers)] /\ measurer \in [Measurers -> MeasurerStates]
      /\ \A r \in Measurers : measurer[r].at \in AddPlaces => measurer[r].timer \in 1..Len(timers)
  BY DEF ProfilerInv, ProfilerTypeOK
<1>2. UNCHANGED <<profiled, timerOf, profiling, recorded>> /\ measurer[t].at \in AddPlaces
  BY DEF CountCall, AddTotal, SetExtremes, AddPlaces
<1>3. FlaggedRightly'
  BY <1>2 DEF ProfilerInv, FlaggedRightly
<1>4. PICK v \in 1..Len(timers) : v = measurer[t].timer /\ v \in Nat
  BY <1>1, <1>2
<1>5. AddingTo(measurer[t], v) /\ \A w \in Nat \ {v} : ~AddingTo(measurer[t], w)
  BY <1>2, <1>4 DEF AddingTo
<1>6. TimerOK(timers[v], recorded[v], measurer, v)
  BY <1>4 DEF ProfilerInv, TimersInv
<1>7. measurer[t] \in [at : AddPlaces, timer : Nat, duration : Nat]
  <2>1. "null" \notin AddPlaces /\ "event" \notin AddPlaces /\ "out" \notin AddPlaces
    BY DEF AddPlaces
  <2>2. measurer[t] \in MeasurerStates
    BY <1>1
  <2> QED
    BY <1>2, <2>1, <2>2 DEF MeasurerStates, Out
<1>8. ASSUME NEW b, NEW x \in MeasurerStates, measurer' = [measurer EXCEPT ![t] = x], timers' = [timers EXCEPT ![v] = b],
             \A w \in Nat \ {v} : ~AddingTo(x, w), x.at \in AddPlaces => x.timer = v,
             measurer' \in [Measurers -> MeasurerStates] /\ measurer'[t] = x /\ (\A r \in Measurers \ {t} : measurer'[r] = measurer[r])
               => TimerOK(b, recorded[v], measurer', v)
      PROVE  ProfilerInv'
  <2>1. measurer' \in [Measurers -> MeasurerStates] /\ measurer'[t] = x /\ \A r \in Measurers \ {t} : measurer'[r] = measurer[r]
    BY <1>1, <1>8
  <2>2. TimerOK(b, recorded[v], measurer', v) /\ b \in TimerWorkers
    BY <1>8, <2>1 DEF TimerOK
  <2>3. PICK n \in Nat : n = Len(timers)
    BY <1>1
  <2>4. timers' \in Seq(TimerWorkers) /\ Len(timers') = n /\ timers'[v] = b /\ \A w \in 1..n : w # v => timers'[w] = timers[w]
    <3>1. timers \in [1..n -> TimerWorkers]
      BY <1>1, <2>3
    <3>2. timers' \in [1..n -> TimerWorkers] /\ timers'[v] = b /\ \A w \in 1..n : w # v => timers'[w] = timers[w]
      BY <1>4, <1>8, <2>2, <2>3, <3>1
    <3> QED
      BY <3>2
  <2>5. ProfilerTypeOK'
    <3>1. \A r \in Measurers : measurer'[r].at \in AddPlaces => measurer'[r].timer \in 1..n
      BY <1>1, <1>4, <1>8, <2>1, <2>3
    <3> QED
      BY <1>2, <2>1, <2>3, <2>4, <3>1 DEF ProfilerInv, ProfilerTypeOK
  <2>6. TimersInv'
    <3> SUFFICES ASSUME NEW w \in 1..n PROVE TimerOK(timers'[w], recorded[w], measurer', w)
      BY <1>2, <2>4 DEF TimersInv
    <3>1. TimerOK(timers[w], recorded[w], measurer, w) /\ w \in Nat
      BY <2>3 DEF ProfilerInv, TimersInv
    <3>2. CASE w = v
      BY <2>2, <2>4, <3>2
    <3>3. CASE w # v
      <4>1. ~AddingTo(x, w) /\ ~AddingTo(measurer[t], w)
        BY <1>5, <1>8, <3>1, <3>3
      <4>2. TimerOK(timers[w], recorded[w], measurer', w)
        BY <1>1, <1>8, <2>1, <3>1, <4>1, TimerUntouched
      <4> QED
        BY <2>4, <3>3, <4>2
    <3> QED
      BY <3>2, <3>3
  <2> QED
    BY <1>3, <2>5, <2>6 DEF ProfilerInv
<1>9. ASSUME NEW b, NEW x, measurer' = [measurer EXCEPT ![t] = x], timers' = [timers EXCEPT ![v] = b],
             \/ measurer[t].at = "calls" /\ x = [measurer[t] EXCEPT !.at = "total"] /\ b = [timers[v] EXCEPT !.callsNumber = @ + 1]
             \/ measurer[t].at = "total" /\ x = [measurer[t] EXCEPT !.at = "extremes"] /\ b = [timers[v] EXCEPT !.total = @ + measurer[t].duration]
      PROVE  ProfilerInv'
  <2>1. x \in [at : AddPlaces, timer : Nat, duration : Nat] /\ x.timer = v
    <3>1. "total" \in AddPlaces /\ "extremes" \in AddPlaces
      BY DEF AddPlaces
    <3> QED
      BY <1>4, <1>7, <1>9, <3>1
  <2>2. x \in MeasurerStates /\ \A w \in Nat \ {v} : ~AddingTo(x, w)
    BY <2>1 DEF MeasurerStates, AddingTo
  <2>3. ASSUME measurer' \in [Measurers -> MeasurerStates], measurer'[t] = x, \A r \in Measurers \ {t} : measurer'[r] = measurer[r]
        PROVE  TimerOK(b, recorded[v], measurer', v)
    <3>1. PICK c, d, m, k : c = timers[v] /\ d = recorded[v] /\ m = measurer /\ k = measurer'
      OBVIOUS
    <3>2. /\ m \in [Measurers -> MeasurerStates] /\ v \in Nat /\ TimerOK(c, d, m, v) /\ AddingTo(m[t], v)
          /\ k \in [Measurers -> MeasurerStates] /\ k[t] = x /\ \A r \in Measurers \ {t} : k[r] = m[r]
      BY <1>1, <1>4, <1>5, <1>6, <2>3, <3>1
    <3>3. \/ m[t].at = "calls" /\ x = [m[t] EXCEPT !.at = "total"] /\ b = [c EXCEPT !.callsNumber = @ + 1]
          \/ m[t].at = "total" /\ x = [m[t] EXCEPT !.at = "extremes"] /\ b = [c EXCEPT !.total = @ + m[t].duration]
      BY <1>9, <3>1
    <3>4. TimerOK(b, d, k, v)
      BY <3>2, <3>3, TimerAdded
    <3> QED
      BY <3>1, <3>4
  <2> QED
    BY <1>8, <1>9, <2>1, <2>2, <2>3
<1>10. ASSUME CountCall(t) PROVE ProfilerInv'
  <2>1. PICK b, x : b = [timers[v] EXCEPT !.callsNumber = @ + 1] /\ x = [measurer[t] EXCEPT !.at = "total"]
    OBVIOUS
  <2>2. measurer' = [measurer EXCEPT ![t] = x] /\ timers' = [timers EXCEPT ![v] = b] /\ measurer[t].at = "calls"
    BY <1>1, <1>4, <1>10, <2>1 DEF CountCall, MeasurerGoes
  <2> QED
    BY <1>9, <2>1, <2>2
<1>11. ASSUME AddTotal(t) PROVE ProfilerInv'
  <2>1. PICK b, x : b = [timers[v] EXCEPT !.total = @ + measurer[t].duration] /\ x = [measurer[t] EXCEPT !.at = "extremes"]
    OBVIOUS
  <2>2. measurer' = [measurer EXCEPT ![t] = x] /\ timers' = [timers EXCEPT ![v] = b] /\ measurer[t].at = "total"
    BY <1>1, <1>4, <1>11, <2>1 DEF AddTotal, MeasurerGoes
  <2> QED
    BY <1>9, <2>1, <2>2
<1>12. ASSUME SetExtremes(t) PROVE ProfilerInv'
  <2>1. PICK y, b : y = measurer[t].duration /\ b = [timers[v] EXCEPT !.minimum = IF y < @ THEN y ELSE @, !.maximum = IF y > @ THEN y ELSE @]
    OBVIOUS
  <2>2. measurer' = [measurer EXCEPT ![t] = Out] /\ measurer[t].at = "extremes"
        /\ timers' = [timers EXCEPT ![v].minimum = IF y < @ THEN y ELSE @, ![v].maximum = IF y > @ THEN y ELSE @]
    BY <1>4, <1>12, <2>1 DEF SetExtremes
  <2>3. timers' = [timers EXCEPT ![v] = b]
    BY <1>1, <1>4, <2>1, <2>2
  <2>4. Out \in MeasurerStates /\ Out.at \notin AddPlaces
    BY DEF MeasurerStates, Out, AddPlaces
  <2>5. \A w \in Nat \ {v} : ~AddingTo(Out, w)
    BY <2>4 DEF AddingTo
  <2>6. ASSUME measurer' \in [Measurers -> MeasurerStates], measurer'[t] = Out, \A r \in Measurers \ {t} : measurer'[r] = measurer[r]
        PROVE  TimerOK(b, recorded[v], measurer', v)
    BY <1>1, <1>4, <1>5, <1>6, <2>1, <2>2, <2>6, TimerExtremes
  <2> QED
    BY <1>8, <2>2, <2>3, <2>4, <2>5, <2>6
<1> QED
  BY <1>10, <1>11, <1>12

\* Every step of the profiler keeps its invariant.
LEMMA ProfilerStep == ASSUME ProfilerInv, [ProfilerNext]_profilerVars PROVE ProfilerInv'
<1>1. CASE UNCHANGED profilerVars
  BY <1>1 DEF profilerVars, ProfilerInv, ProfilerTypeOK, FlaggedRightly, TimersInv
<1>2. CASE ProfilerNext
  BY <1>2, ProfileStep, MeasureEventStep, AddStep DEF ProfilerNext
<1> QED
  BY <1>1, <1>2

\* Each of the first types has a TimerWorker of its own.
LEMMA OrderIs ==
  ASSUME NEW S, IsFiniteSet(S)
  PROVE  /\ SetToSeq(S) \in Seq(S) /\ DOMAIN SetToSeq(S) = 1..Cardinality(S) /\ Cardinality(S) \in Nat
         /\ \A y \in S : \E i \in DOMAIN SetToSeq(S) : SetToSeq(S)[i] = y
<1>1. Cardinality(S) \in Nat /\ ExistsBijection(1..Cardinality(S), S)
  BY FS_CardinalityType
<1>2. PICK n \in Nat : n = Cardinality(S)
  BY <1>1
<1>3. PICK f : f \in [1..n -> S] /\ IsInjective(f)
  BY <1>1, <1>2 DEF ExistsBijection, Bijection, Injection
<1>4. PICK o : o = SetToSeq(S)
  OBVIOUS
<1>5. o \in [1..n -> S] /\ IsInjective(o)
  BY <1>2, <1>3, <1>4 DEF SetToSeq
<1>6. o \in Surjection(1..n, S)
  <2>1. o \in Injection(1..n, S)
    BY <1>5 DEF Injection
  <2>2. Cardinality(1..n) = n
    <3>1. Cardinality(1..n) = IF 1 > n THEN 0 ELSE n - 1 + 1
      BY FS_Interval
    <3> QED
      BY <3>1
  <2>3. Cardinality(1..n) = Cardinality(S)
    BY <1>2, <2>2
  <2>4. (Cardinality(1..n) = Cardinality(S)) <=> (o \in Surjection(1..n, S))
    BY <2>1, FS_Injection
  <2> QED
    BY <2>3, <2>4
<1>7. \A y \in S : \E i \in 1..n : o[i] = y
  BY <1>6 DEF Surjection
<1> QED
  BY <1>2, <1>4, <1>5, <1>7

\* The filter begins with a TimerWorker for each of some types.
LEMMA ProfilerInitially == ProfilerInit => ProfilerInv
<1> SUFFICES ASSUME ProfilerInit PROVE ProfilerInv
  OBVIOUS
<1>1. PICK first \in SUBSET EventTypes :
        /\ profiled = first
        /\ timerOf = [y \in EventTypes |-> IF y \in first THEN CHOOSE i \in DOMAIN SetToSeq(first) : SetToSeq(first)[i] = y ELSE 0]
        /\ timers = [i \in DOMAIN SetToSeq(first) |-> NewTimer]
        /\ recorded = [i \in DOMAIN SetToSeq(first) |-> <<>>]
        /\ measurer = [t \in Measurers |-> Out] /\ profiling = Idle
  BY DEF ProfilerInit
<1>2. PICK n \in Nat : n = Cardinality(first) /\ DOMAIN SetToSeq(first) = 1..n
                       /\ \A y \in first : \E i \in 1..n : SetToSeq(first)[i] = y
  <2>1. IsFiniteSet(first)
    BY ProfilerAssumption, FS_Subset
  <2> QED
    BY <2>1, OrderIs
<1>3. NewTimer \in TimerWorkers /\ NewTimer.callsNumber = 0 /\ NewTimer.total = 0 /\ NewTimer.minimum = 0 /\ NewTimer.maximum = 0
  BY DEF NewTimer, TimerWorkers
<1>4. timers \in Seq(TimerWorkers) /\ Len(timers) = n /\ \A w \in 1..n : timers[w] = NewTimer
  <2>1. timers = [i \in 1..n |-> NewTimer]
    BY <1>1, <1>2
  <2> QED
    BY <1>3, <2>1
<1>5. recorded \in Seq(Seq(Nat)) /\ Len(recorded) = n /\ \A w \in 1..n : recorded[w] = <<>>
  <2>1. recorded = [i \in 1..n |-> <<>>] /\ <<>> \in Seq(Nat)
    BY <1>1, <1>2
  <2> QED
    BY <2>1
<1>6. \A y \in EventTypes : timerOf[y] \in 0..n /\ (y \in first => timerOf[y] # 0)
  <2> TAKE y \in EventTypes
  <2>1. CASE y \in first
    <3>1. timerOf[y] = CHOOSE i \in 1..n : SetToSeq(first)[i] = y
      BY <1>1, <1>2, <2>1
    <3>2. timerOf[y] \in 1..n
      BY <1>2, <2>1, <3>1
    <3> QED
      BY <3>2
  <2>2. CASE y \notin first
    BY <1>1, <2>2
  <2> QED
    BY <2>1, <2>2
<1>7. measurer \in [Measurers -> MeasurerStates] /\ \A t \in Measurers : measurer[t].at \notin AddPlaces
  BY <1>1 DEF MeasurerStates, Out, AddPlaces
<1>8. ProfilerTypeOK
  <2>1. timerOf \in [EventTypes -> 0..n]
    BY <1>1, <1>6
  <2> QED
    BY <1>1, <1>4, <1>5, <1>7, <2>1 DEF ProfilerTypeOK
<1>9. FlaggedRightly
  BY <1>1, <1>6 DEF FlaggedRightly
<1>10. SumOf(<<>>) = 0
  <2>0. <<>> \in Seq(Nat) /\ DOMAIN <<>> = {} /\ Len(<<>>) = 0
    OBVIOUS
  <2>1. PICK e \in Seq(Nat) : e = <<>> /\ DOMAIN e = {} /\ Len(e) = 0
    BY <2>0
  <2>2. SumOf(e) \in Nat /\ SumOf(e) <= 0 * 0
    BY <2>1, SumOfBounded
  <2> QED
    BY <2>1, <2>2
<1>11. TimersInv
  <2> SUFFICES ASSUME NEW w \in 1..n PROVE TimerOK(NewTimer, <<>>, measurer, w)
    BY <1>4, <1>5 DEF TimersInv
  <2>1. \A t \in Measurers : ~AddingTo(measurer[t], w)
    BY <1>7 DEF AddingTo
  <2>2. SumLeft(CallsDue(measurer, w), Measurers) = 0 /\ SumLeft(TimeDue(measurer, w), Measurers) = 0
    BY <1>7, <2>1, DueIs
  <2>3. <<>> \in Seq(Nat) /\ DOMAIN <<>> = {} /\ Len(<<>>) = 0
    OBVIOUS
  <2> QED
    BY <1>3, <1>10, <2>1, <2>2, <2>3 DEF TimerOK
<1> QED
  BY <1>8, <1>9, <1>11 DEF ProfilerInv

\* A TimerWorker to which no thread is adding tells the truth.
LEMMA RestingTimer ==
  ASSUME NEW c, NEW d, NEW m \in [Measurers -> MeasurerStates], NEW w \in Nat, TimerOK(c, d, m, w),
         \A t \in Measurers : ~AddingTo(m[t], w)
  PROVE  /\ c \in TimerWorkers /\ c.callsNumber = Len(d) /\ c.total = SumOf(d) /\ c.minimum = 0
         /\ ToSet(d) # {} => c.maximum = Max(ToSet(d))
         /\ c.callsNumber # 0 => 0 <= c.total \div c.callsNumber /\ c.total \div c.callsNumber <= c.maximum
<1>1. c \in TimerWorkers /\ d \in Seq(Nat) /\ c.maximum \in Nat /\ c.total \in Nat /\ c.callsNumber \in Nat /\ c.minimum = 0
  BY DEF TimerOK, TimerWorkers
<1>2. c.callsNumber + 0 = Len(d) /\ c.total + 0 = SumOf(d)
  <2>1. SumLeft(CallsDue(m, w), Measurers) = 0 /\ SumLeft(TimeDue(m, w), Measurers) = 0
    BY DueIs
  <2> QED
    BY <2>1 DEF TimerOK
<1>3. c.callsNumber = Len(d) /\ c.total = SumOf(d)
  BY <1>1, <1>2
<1>4. \A i \in DOMAIN d : d[i] \in Nat /\ d[i] <= c.maximum
  BY <1>1 DEF TimerOK
<1>5. ASSUME ToSet(d) # {} PROVE c.maximum = Max(ToSet(d))
  <2>1. c.maximum \in ToSet(d)
    <3>1. CASE \E i \in DOMAIN d : d[i] = c.maximum
      BY <3>1 DEF ToSet
    <3>2. CASE c.maximum = 0
      <4>1. PICK i \in DOMAIN d : TRUE
        BY <1>5 DEF ToSet
      <4>2. d[i] = 0
        BY <1>4, <3>2
      <4> QED
        BY <3>2, <4>2 DEF ToSet
    <3> QED
      BY <3>1, <3>2 DEF TimerOK
  <2>2. \A x \in ToSet(d) : x \in Nat /\ x <= c.maximum
    BY <1>4 DEF ToSet
  <2>3. \A x \in ToSet(d) : c.maximum >= x
    BY <1>1, <2>2
  <2>4. Max(ToSet(d)) \in ToSet(d) /\ \A y \in ToSet(d) : Max(ToSet(d)) >= y
    BY <2>1, <2>3 DEF Max
  <2>5. PICK x : x = Max(ToSet(d))
    OBVIOUS
  <2>6. x \in Nat /\ x <= c.maximum /\ x >= c.maximum
    BY <2>1, <2>2, <2>4, <2>5
  <2> QED
    BY <1>1, <2>5, <2>6
<1>6. ASSUME c.callsNumber # 0
      PROVE  0 <= c.total \div c.callsNumber /\ c.total \div c.callsNumber <= c.maximum
  <2>1. SumOf(d) <= Len(d) * c.maximum
    BY <1>1, <1>4, SumOfBounded
  <2>2. PICK n \in Nat, u \in Nat, z \in Nat : n = c.callsNumber /\ u = c.total /\ z = c.maximum
    BY <1>1
  <2>3. u <= n * z /\ n # 0
    BY <1>3, <1>6, <2>1, <2>2
  <2>4. u \div n \in Nat /\ u % n \in 0..(n - 1) /\ u = n * (u \div n) + (u % n)
    BY <2>3, DivIs
  <2>5. PICK q \in Nat, r \in Nat : q = u \div n /\ u = n * q + r
    BY <2>4
  <2>6. q <= z
    <3> SUFFICES ASSUME z < q PROVE FALSE
      OBVIOUS
    <3>1. PICK e \in Nat : q = z + e + 1
      <4>1. q - z - 1 \in Nat /\ q = z + (q - z - 1) + 1
        OBVIOUS
      <4> QED
        BY <4>1
    <3>2. n * q = n * z + n * e + n
      BY <3>1
    <3>3. PICK p \in Nat, s \in Nat, o \in Nat : p = n * q /\ s = n * z /\ o = n * e
      OBVIOUS
    <3>4. p = s + o + n /\ u = p + r /\ u <= s
      BY <2>3, <2>5, <3>2, <3>3
    <3> QED
      BY <2>3, <3>4
  <2> QED
    BY <2>2, <2>5, <2>6
<1> QED
  BY <1>1, <1>3, <1>5, <1>6

\* What the invariant says is what the run checks.
LEMMA ProfilesTruthfulHolds == ASSUME ProfilerInv PROVE ProfilesTruthful
<1> SUFFICES ASSUME NEW y \in profiled
             PROVE  IF timerOf[y] = 0 THEN profiling = [by |-> "profile", type |-> {y}]
                    ELSE TimerRests(timerOf[y]) =>
                      /\ GetTotalCalls(y) = Len(recorded[timerOf[y]])
                      /\ GetTotalTime(y) = FoldSeq(LAMBDA d, n : d + n, 0, recorded[timerOf[y]])
                      /\ Durations(timerOf[y]) # {} => GetMaximumTime(y) = Max(Durations(timerOf[y]))
                      /\ GetMinimumTime(y) <= GetAverageTime(y) /\ GetAverageTime(y) <= GetMaximumTime(y)
  BY Zenon DEF ProfilesTruthful
<1>1. CASE timerOf[y] = 0
  BY <1>1 DEF ProfilerInv, FlaggedRightly
<1>2. CASE timerOf[y] # 0
  <2> SUFFICES ASSUME TimerRests(timerOf[y])
               PROVE  /\ GetTotalCalls(y) = Len(recorded[timerOf[y]])
                      /\ GetTotalTime(y) = FoldSeq(LAMBDA d, n : d + n, 0, recorded[timerOf[y]])
                      /\ Durations(timerOf[y]) # {} => GetMaximumTime(y) = Max(Durations(timerOf[y]))
                      /\ GetMinimumTime(y) <= GetAverageTime(y) /\ GetAverageTime(y) <= GetMaximumTime(y)
    BY <1>2
  <2>1. timerOf[y] \in 1..Len(timers) /\ timerOf[y] \in Nat /\ measurer \in [Measurers -> MeasurerStates]
    <3>1. timerOf[y] \in 0..Len(timers) /\ Len(timers) \in Nat /\ measurer \in [Measurers -> MeasurerStates]
      BY DEF ProfilerInv, ProfilerTypeOK
    <3> QED
      BY <1>2, <3>1
  <2>2. PICK w, c, d : w \in Nat /\ w = timerOf[y] /\ c = timers[w] /\ d = recorded[w]
    BY <2>1
  <2>3. TimerOK(c, d, measurer, w)
    BY <2>1, <2>2 DEF ProfilerInv, TimersInv
  <2>4. \A t \in Measurers : ~AddingTo(measurer[t], w)
    BY <2>2 DEF TimerRests, AddingTo, AddPlaces
  <2>5. /\ c \in TimerWorkers /\ c.callsNumber = Len(d) /\ c.total = SumOf(d) /\ c.minimum = 0
        /\ ToSet(d) # {} => c.maximum = Max(ToSet(d))
        /\ c.callsNumber # 0 => 0 <= c.total \div c.callsNumber /\ c.total \div c.callsNumber <= c.maximum
    BY <2>1, <2>2, <2>3, <2>4, RestingTimer
  <2>6. GetTotalCalls(y) = c.callsNumber /\ GetTotalTime(y) = c.total /\ GetMinimumTime(y) = c.minimum /\ GetMaximumTime(y) = c.maximum
        /\ (GetAverageTime(y) = IF c.callsNumber = 0 THEN 0 ELSE c.total \div c.callsNumber)
        /\ Durations(timerOf[y]) = ToSet(d) /\ recorded[timerOf[y]] = d
    <3>1. Timer(y) = c /\ Durations(timerOf[y]) = ToSet(d) /\ recorded[timerOf[y]] = d
      BY <2>2, Zenon DEF Timer, Durations
    <3>2. GetTotalCalls(y) = c.callsNumber /\ GetTotalTime(y) = c.total
      BY <3>1, Zenon DEF GetTotalCalls, GetTotalTime
    <3>3. GetMinimumTime(y) = c.minimum /\ GetMaximumTime(y) = c.maximum
      BY <3>1, Zenon DEF GetMinimumTime, GetMaximumTime
    <3>4. GetAverageTime(y) = IF c.callsNumber = 0 THEN 0 ELSE c.total \div c.callsNumber
      BY <3>2, Zenon DEF GetAverageTime
    <3> QED
      BY <3>1, <3>2, <3>3, <3>4
  <2>7. SumOf(recorded[timerOf[y]]) = FoldSeq(LAMBDA x, n : x + n, 0, recorded[timerOf[y]])
    BY DEF SumOf
  <2>8. c.maximum \in Nat
    BY <2>5 DEF TimerWorkers
  <2>9. GetMinimumTime(y) <= GetAverageTime(y) /\ GetAverageTime(y) <= GetMaximumTime(y)
    <3>1. CASE c.callsNumber = 0
      BY <2>5, <2>6, <2>8, <3>1
    <3>2. CASE c.callsNumber # 0
      BY <2>5, <2>6, <3>2
    <3> QED
      BY <3>1, <3>2
  <2>10. GetTotalTime(y) = SumOf(recorded[timerOf[y]])
    BY <2>5, <2>6
  <2>11. GetTotalTime(y) = FoldSeq(LAMBDA x, n : x + n, 0, recorded[timerOf[y]])
    BY <2>7, <2>10
  <2>12. GetTotalCalls(y) = Len(recorded[timerOf[y]])
    BY <2>5, <2>6
  <2>13. Durations(timerOf[y]) # {} => GetMaximumTime(y) = Max(Durations(timerOf[y]))
    BY <2>5, <2>6
  <2> QED
    BY <2>9, <2>11, <2>12, <2>13
<1> QED
  BY <1>1, <1>2

\* What the filter says of a type is true whenever no thread is adding to it.
THEOREM ProfilesTruthfulCorrect == ProfilerSpec => []ProfilesTruthful
<1>1. ProfilerInit => ProfilerInv
  BY ProfilerInitially
<1>2. ProfilerInv /\ [ProfilerNext]_profilerVars => ProfilerInv'
  BY ProfilerStep
<1>3. ProfilerInv => ProfilesTruthful
  BY ProfilesTruthfulHolds
<1> QED
  BY <1>1, <1>2, <1>3, PTL DEF ProfilerSpec

----------------------------------------------------------------------------
(* The chain of handlers: the list that both links give, with ranks that rise *)
(* along it, and in every execution.                                       *)

\* A list whose entries have rising ranks: so none is in it twice.
Rising(s, rank) == \A i, j \in 1..Len(s) : i < j => rank[s[i]] < rank[s[j]]
Ranks == [Entries -> Nat]

\* Every rank above the one of an entry makes room for a new entry behind it.
Shifted(rank, e, near) ==
  [x \in Entries |-> IF x = e THEN rank[near] + 1 ELSE IF rank[x] > rank[near] THEN rank[x] + 1 ELSE rank[x]]
Inserted(s, k, e) == [i \in 1..(Len(s) + 1) |-> IF i <= k THEN s[i] ELSE IF i = k + 1 THEN e ELSE s[i - 1]]
Without(s, k) == [i \in 1..(Len(s) - 1) |-> IF i < k THEN s[i] ELSE s[i + 1]]

\* No two places of a rising list are the same.
LEMMA RisingOnce ==
  ASSUME NEW rank \in Ranks, NEW s \in Seq(Entries), Rising(s, rank)
  PROVE  \A i, j \in 1..Len(s) : s[i] = s[j] => i = j
<1> SUFFICES ASSUME NEW i \in 1..Len(s), NEW j \in 1..Len(s), s[i] = s[j], i # j PROVE FALSE
  OBVIOUS
<1>1. \A k \in 1..Len(s) : rank[s[k]] \in Nat
  BY DEF Ranks
<1>2. i < j \/ j < i
  OBVIOUS
<1>3. rank[s[i]] < rank[s[j]] \/ rank[s[j]] < rank[s[i]]
  BY <1>2 DEF Rising
<1> QED
  BY <1>1, <1>3

\* The new ranks leave the old order, and put the new entry behind its neighbour.
LEMMA ShiftedKeeps ==
  ASSUME NEW rank \in Ranks, NEW e \in Entries, NEW near \in Entries, e # near
  PROVE  LET new == Shifted(rank, e, near)
         IN  /\ new \in Ranks /\ new[near] < new[e]
             /\ \A x \in Entries \ {e} : rank[near] < rank[x] => new[e] < new[x]
             /\ \A x \in Entries \ {e} : rank[x] <= rank[near] => new[x] < new[e]
             /\ \A x, y \in Entries \ {e} : new[x] < new[y] <=> rank[x] < rank[y]
<1> DEFINE new == Shifted(rank, e, near)
<1>1. new[e] = rank[near] + 1 /\ rank[near] \in Nat
  BY DEF Shifted, Ranks
<1>2. \A x \in Entries \ {e} : rank[x] \in Nat /\ new[x] = IF rank[x] > rank[near] THEN rank[x] + 1 ELSE rank[x]
  BY DEF Shifted, Ranks
<1>3. new \in Ranks
  <2>1. \A x \in Entries : new[x] \in Nat
    BY <1>1, <1>2
  <2> QED
    BY <2>1 DEF Ranks, Shifted
<1> HIDE DEF new
<1>4. new[near] < new[e]
  BY <1>1, <1>2
<1>5. \A x \in Entries \ {e} : rank[near] < rank[x] => new[e] < new[x]
  BY <1>1, <1>2
<1>6. \A x \in Entries \ {e} : rank[x] <= rank[near] => new[x] < new[e]
  BY <1>1, <1>2
<1>7. \A x, y \in Entries \ {e} : new[x] < new[y] <=> rank[x] < rank[y]
  BY <1>1, <1>2
<1> QED
  BY <1>3, <1>4, <1>5, <1>6, <1>7 DEF new

\* What a list is with one more entry behind its k-th.
LEMMA InsertedIn ==
  ASSUME NEW s \in Seq(Entries), NEW e \in Entries, NEW k \in 1..(Len(s) - 1)
  PROVE  LET t == Inserted(s, k, e)
         IN  /\ t \in Seq(Entries) /\ Len(t) = Len(s) + 1 /\ t[k + 1] = e
             /\ \A i \in 1..k : t[i] = s[i]
             /\ \A i \in (k + 1)..Len(s) : t[i + 1] = s[i]
<1> DEFINE t == Inserted(s, k, e)
<1>1. Len(s) \in Nat /\ k \in Nat /\ k < Len(s)
  OBVIOUS
<1>2. \A i \in 1..(Len(s) + 1) : t[i] = IF i <= k THEN s[i] ELSE IF i = k + 1 THEN e ELSE s[i - 1]
  BY DEF Inserted
<1>3. t \in [1..(Len(s) + 1) -> Entries]
  <2>1. \A i \in 1..(Len(s) + 1) : (IF i <= k THEN s[i] ELSE IF i = k + 1 THEN e ELSE s[i - 1]) \in Entries
    <3> TAKE i \in 1..(Len(s) + 1)
    <3>1. i <= k => i \in 1..Len(s)
      BY <1>1
    <3>2. ~(i <= k) /\ i # k + 1 => i - 1 \in 1..Len(s)
      BY <1>1
    <3>3. \A j \in 1..Len(s) : s[j] \in Entries
      OBVIOUS
    <3> QED
      BY <3>1, <3>2, <3>3
  <2> QED
    BY <2>1 DEF Inserted
<1>4. t \in Seq(Entries) /\ Len(t) = Len(s) + 1
  BY <1>1, <1>3
<1> HIDE DEF t
<1>5. t[k + 1] = e
  BY <1>1, <1>2
<1>6. \A i \in 1..k : t[i] = s[i]
  BY <1>1, <1>2
<1>7. ASSUME NEW i \in (k + 1)..Len(s) PROVE t[i + 1] = s[i]
  <2>1. i + 1 \in 1..(Len(s) + 1) /\ ~(i + 1 <= k) /\ i + 1 # k + 1 /\ (i + 1) - 1 = i
    BY <1>1
  <2> QED
    BY <1>2, <2>1
<1> QED
  BY <1>4, <1>5, <1>6, <1>7 DEF t

\* A place of the longer list is one of the old ones or the new one.
LEMMA InsertedPlaces ==
  ASSUME NEW n \in Nat, NEW k \in 1..(n - 1), NEW i \in 1..(n + 1)
  PROVE  i \in 1..k \/ i = k + 1 \/ \E j \in (k + 1)..n : i = j + 1
<1>1. CASE i > k + 1
  <2>1. i - 1 \in (k + 1)..n /\ i = (i - 1) + 1
    BY <1>1
  <2> QED
    BY <2>1
<1> QED
  BY <1>1

\* What a list is without its k-th entry.
LEMMA WithoutIn ==
  ASSUME NEW s \in Seq(Entries), NEW k \in 2..(Len(s) - 1)
  PROVE  LET t == Without(s, k)
         IN  /\ t \in Seq(Entries) /\ Len(t) = Len(s) - 1
             /\ \A i \in 1..(k - 1) : t[i] = s[i]
             /\ \A i \in k..(Len(s) - 1) : t[i] = s[i + 1]
<1> DEFINE t == Without(s, k)
<1>1. Len(s) \in Nat /\ k \in Nat /\ k < Len(s) /\ k >= 2
  OBVIOUS
<1>2. \A i \in 1..(Len(s) - 1) : t[i] = IF i < k THEN s[i] ELSE s[i + 1]
  BY DEF Without
<1>3. t \in [1..(Len(s) - 1) -> Entries]
  <2>1. \A i \in 1..(Len(s) - 1) : (IF i < k THEN s[i] ELSE s[i + 1]) \in Entries
    <3> TAKE i \in 1..(Len(s) - 1)
    <3>1. i \in 1..Len(s) /\ i + 1 \in 1..Len(s)
      BY <1>1
    <3>2. \A j \in 1..Len(s) : s[j] \in Entries
      OBVIOUS
    <3> QED
      BY <3>1, <3>2
  <2> QED
    BY <2>1 DEF Without
<1>4. t \in Seq(Entries) /\ Len(t) = Len(s) - 1
  BY <1>1, <1>3
<1> HIDE DEF t
<1>5. \A i \in 1..(k - 1) : t[i] = s[i]
  BY <1>1, <1>2
<1>6. \A i \in k..(Len(s) - 1) : t[i] = s[i + 1]
  BY <1>1, <1>2
<1> QED
  BY <1>4, <1>5, <1>6 DEF t

\* A list of different entries has no more than there are.
LEMMA ListLength ==
  ASSUME NEW s \in Seq(Entries), \A i, j \in 1..Len(s) : s[i] = s[j] => i = j
  PROVE  Len(s) \in Nat /\ Len(s) <= MaxCommands + 2 /\ Cardinality({s[i] : i \in DOMAIN s}) = Len(s)
<1>1. MaxCommands \in Nat /\ Len(s) \in Nat
  BY HandlerAssumption
<1>2. IsFiniteSet(Entries) /\ Cardinality(Entries) = MaxCommands + 2
  <2>1. IsFiniteSet(0..(MaxCommands + 1)) /\ Cardinality(0..(MaxCommands + 1)) = IF 0 > MaxCommands + 1 THEN 0 ELSE (MaxCommands + 1) - 0 + 1
    BY <1>1, FS_Interval
  <2> QED
    BY <1>1, <2>1 DEF Entries, HeadCommand, TailCommand
<1>3. IsFiniteSet(1..Len(s)) /\ Cardinality(1..Len(s)) = Len(s)
  <2>1. Cardinality(1..Len(s)) = IF 1 > Len(s) THEN 0 ELSE Len(s) - 1 + 1
    BY SMTT(30), <1>1, FS_Interval
  <2> QED
    BY SMTT(30), <1>1, <2>1, FS_Interval
<1>4. Cardinality(1..Len(s)) <= Cardinality(Entries)
  <2>1. s \in [1..Len(s) -> Entries]
    OBVIOUS
  <2>2. s \in Injection(1..Len(s), Entries)
    BY <2>1 DEF Injection, IsInjective
  <2> QED
    BY <1>2, <2>2, FS_Injection DEF ExistsInjection
<1>5. Cardinality({s[i] : i \in DOMAIN s}) = Len(s)
  <2>1. PICK T : T = {s[i] : i \in DOMAIN s}
    OBVIOUS
  <2>2. s \in [1..Len(s) -> T] /\ \A x \in T : \E i \in 1..Len(s) : s[i] = x
    BY <2>1
  <2>3. s \in Bijection(1..Len(s), T)
    BY <2>2 DEF Bijection, Injection, Surjection, IsInjective
  <2>4. ExistsBijection(1..Len(s), T)
    BY <2>3 DEF ExistsBijection
  <2>5. Cardinality(T) = Cardinality(1..Len(s))
    BY <1>3, <2>4, FS_Bijection
  <2> QED
    BY <1>3, <2>1, <2>5
<1> QED
  BY <1>1, <1>2, <1>3, <1>4, <1>5

\* A list that the links give is what Along() reads, without its two ends.
LEMMA AlongIs ==
  ASSUME NEW links, NEW s \in Seq(Entries), Len(s) >= 2, Len(s) <= MaxCommands + 2,
         NEW to, s[Len(s)] = to, \A i \in 1..(Len(s) - 1) : s[i] # to /\ links[s[i]] = s[i + 1]
  PROVE  Along(links, s[1], to) = SubSeq(s, 2, Len(s) - 1)
<1> DEFINE K == TailCommand
           walk == CHOOSE f : f = [i \in 0..K |->
                     IF i = 0 THEN <<s[1]>>
                     ELSE IF Last(f[i - 1]) = to THEN f[i - 1] ELSE Append(f[i - 1], links[Last(f[i - 1])])]
           upTo(i) == IF i + 1 <= Len(s) THEN SubSeq(s, 1, i + 1) ELSE s
<1>1. Along(links, s[1], to) = SubSeq(walk[K], 2, Len(walk[K]) - 1)
  BY DEF Along
<1>k. K \in Nat /\ Len(s) \in Nat /\ Len(s) <= K + 1
  BY HandlerAssumption DEF TailCommand
<1> HIDE DEF K
<1>2. ASSUME NEW i \in 0..K, i + 1 <= Len(s)
      PROVE  upTo(i) \in Seq(Entries) /\ Len(upTo(i)) = i + 1 /\ \A j \in 1..(i + 1) : upTo(i)[j] = s[j]
  BY <1>2, <1>k
<1>2a. ASSUME NEW i \in 0..K, i + 1 > Len(s) PROVE upTo(i) = s
  BY <1>2a, <1>k
<1>2b. upTo(0) = <<s[1]>> /\ upTo(K) = s
  <2>1. upTo(0) = <<s[1]>>
    <3>1. upTo(0) \in Seq(Entries) /\ Len(upTo(0)) = 1 /\ upTo(0)[1] = s[1]
      BY <1>2, <1>k
    <3> HIDE DEF upTo
    <3> QED
      BY <3>1, SeqEqual
  <2>2. upTo(K) = s
    BY <1>k
  <2> QED
    BY <2>1, <2>2
<1> HIDE DEF upTo
<1>3. \A i \in 1..K : upTo(i) = IF Last(upTo(i - 1)) = to THEN upTo(i - 1)
                                ELSE Append(upTo(i - 1), links[Last(upTo(i - 1))])
  <2> SUFFICES ASSUME NEW i \in 1..K
               PROVE  upTo(i) = IF Last(upTo(i - 1)) = to THEN upTo(i - 1)
                                ELSE Append(upTo(i - 1), links[Last(upTo(i - 1))])
    OBVIOUS
  <2>0. i - 1 \in 0..K /\ i \in 0..K /\ (i - 1) + 1 = i
    BY <1>k
  <2>1. CASE i + 1 <= Len(s)
    <3>0. upTo(i - 1) \in Seq(Entries) /\ Len(upTo(i - 1)) = i /\ \A j \in 1..i : upTo(i - 1)[j] = s[j]
      BY <1>2, <1>k, <2>0, <2>1
    <3>1. Last(upTo(i - 1)) = s[i] /\ s[i] # to /\ links[s[i]] = s[i + 1] /\ s[i + 1] \in Entries
      BY <1>k, <2>1, <3>0 DEF Last
    <3>2. upTo(i) \in Seq(Entries) /\ Len(upTo(i)) = i + 1 /\ \A j \in 1..(i + 1) : upTo(i)[j] = s[j]
      BY <1>2, <2>0, <2>1
    <3>3. upTo(i) = Append(upTo(i - 1), s[i + 1])
      <4> DEFINE t == Append(upTo(i - 1), s[i + 1])
      <4>1. t \in Seq(Entries) /\ Len(t) = i + 1 /\ \A j \in 1..(i + 1) : t[j] = s[j]
        BY <1>k, <3>0, <3>1
      <4> HIDE DEF t
      <4>2. upTo(i) = t
        BY <3>2, <4>1, SeqEqual
      <4> QED
        BY <4>2 DEF t
    <3> QED
      BY <3>1, <3>3
  <2>2. CASE i + 1 > Len(s)
    <3>1. upTo(i) = s
      BY <1>2a, <2>0, <2>2
    <3>2. upTo(i - 1) = s
      <4>1. CASE i > Len(s)
        BY <1>2a, <2>0, <4>1
      <4>2. CASE i = Len(s)
        <5>1. upTo(i - 1) \in Seq(Entries) /\ Len(upTo(i - 1)) = i /\ \A j \in 1..i : upTo(i - 1)[j] = s[j]
          BY <1>2, <1>k, <2>0, <4>2
        <5> QED
          BY <4>2, <5>1, SeqEqual
      <4> QED
        BY <1>k, <2>2, <4>1, <4>2
    <3> QED
      BY <3>1, <3>2 DEF Last
  <2> QED
    BY <1>k, <2>1, <2>2
<1>5. \E f : f = [i \in 0..K |->
                  IF i = 0 THEN <<s[1]>>
                  ELSE IF Last(f[i - 1]) = to THEN f[i - 1] ELSE Append(f[i - 1], links[Last(f[i - 1])])]
  <2> DEFINE g == [i \in 0..K |-> upTo(i)]
  <2>1. \A i \in 0..K : i # 0 => i \in 1..K /\ i - 1 \in 0..K
    BY <1>k
  <2>2. \A i \in 0..K : upTo(i) = IF i = 0 THEN <<s[1]>>
                  ELSE IF Last(g[i - 1]) = to THEN g[i - 1] ELSE Append(g[i - 1], links[Last(g[i - 1])])
    BY <1>3, <1>2b, <2>1
  <2>3. g = [i \in 0..K |->
                  IF i = 0 THEN <<s[1]>>
                  ELSE IF Last(g[i - 1]) = to THEN g[i - 1] ELSE Append(g[i - 1], links[Last(g[i - 1])])]
    BY <2>2
  <2> QED
    BY <2>3
<1>6. walk = [i \in 0..K |->
                  IF i = 0 THEN <<s[1]>>
                  ELSE IF Last(walk[i - 1]) = to THEN walk[i - 1] ELSE Append(walk[i - 1], links[Last(walk[i - 1])])]
  BY <1>5
<1> HIDE DEF walk
<1>7. \A i \in 0..K : walk[i] = upTo(i)
  <2> DEFINE T == {i \in 0..K : walk[i] # upTo(i)}
  <2>1. SUFFICES ASSUME T # {} PROVE FALSE
    OBVIOUS
  <2>2. PICK n \in T : \A k \in T : n <= k
    <3>1. T \subseteq Nat
      OBVIOUS
    <3> HIDE DEF T
    <3> QED
      BY <2>1, <3>1, LeastNat
  <2>3. n \in 0..K /\ walk[n] # upTo(n)
    OBVIOUS
  <2>4. n # 0
    BY <1>2b, <1>6, <1>k, <2>3
  <2>5. n \in 1..K /\ n - 1 \in 0..K /\ n - 1 \notin T
    BY <1>k, <2>2, <2>3, <2>4
  <2>6. walk[n - 1] = upTo(n - 1)
    BY <2>5
  <2>7. walk[n] = IF Last(walk[n - 1]) = to THEN walk[n - 1] ELSE Append(walk[n - 1], links[Last(walk[n - 1])])
    BY <1>6, <2>4, <2>3
  <2> QED
    BY <1>3, <2>3, <2>5, <2>6, <2>7
<1>8. walk[K] = s
  BY <1>2b, <1>7, <1>k
<1> QED
  BY <1>1, <1>8

\* A list read from its other end.
LEMMA BackIs ==
  ASSUME NEW s \in Seq(Entries), Len(s) >= 2
  PROVE  /\ Reverse(s) \in Seq(Entries) /\ Len(Reverse(s)) = Len(s) /\ Len(s) \in Nat
         /\ \A i \in 1..Len(s) : Reverse(s)[i] = s[Len(s) - i + 1]
<1> DEFINE r == Reverse(s)
<1>1. Len(s) \in Nat /\ \A i \in 1..Len(s) : s[i] \in Entries
  OBVIOUS
<1>2. \A i \in 1..Len(s) : Len(s) - i + 1 \in 1..Len(s)
  BY <1>1
<1>3. \A i \in 1..Len(s) : s[Len(s) - i + 1] \in Entries
  BY <1>1, <1>2
<1>4. r \in [1..Len(s) -> Entries]
  BY <1>3 DEF Reverse
<1> QED
  BY <1>1, <1>4 DEF Reverse

\* The middle of a list.
LEMMA MiddleIs ==
  ASSUME NEW s \in Seq(Entries), Len(s) >= 2
  PROVE  /\ SubSeq(s, 2, Len(s) - 1) \in Seq(Entries) /\ Len(SubSeq(s, 2, Len(s) - 1)) = Len(s) - 2
         /\ \A i \in 1..(Len(s) - 2) : SubSeq(s, 2, Len(s) - 1)[i] = s[i + 1]
<1>1. PICK n \in Nat : n = Len(s)
  OBVIOUS
<1>2. n >= 2 /\ 2 \in Nat /\ n - 1 \in Nat /\ \A i \in 1..n : s[i] \in Entries
  BY <1>1
<1>3. \A i \in 2..(n - 1) : s[i] \in Entries
  BY <1>2
<1>4. PICK t : t = SubSeq(s, 2, n - 1)
  OBVIOUS
<1>5. t \in Seq(Entries) /\ Len(t) = (IF 2 <= n - 1 THEN (n - 1) - 2 + 1 ELSE 0)
      /\ \A i \in 1..((n - 1) - 2 + 1) : t[i] = s[2 + i - 1]
  BY <1>1, <1>2, <1>3, <1>4, SubSeqProperties
<1>6. Len(t) = n - 2
  BY <1>2, <1>5
<1>7. \A i \in 1..(n - 2) : i \in 1..((n - 1) - 2 + 1) /\ 2 + i - 1 = i + 1
  BY <1>2
<1>8. \A i \in 1..(n - 2) : t[i] = s[i + 1]
  BY <1>5, <1>7
<1> QED
  BY <1>1, <1>4, <1>5, <1>6, <1>8

\* The list s is what both directions of the links give, from the head to the tail.
Joined(s, next, prev) ==
  /\ s \in Seq(Entries) /\ Len(s) >= 2 /\ s[1] = HeadCommand /\ s[Len(s)] = TailCommand
  /\ \A i \in 1..(Len(s) - 1) : next[s[i]] = s[i + 1] /\ prev[s[i + 1]] = s[i]
Lists(s, live) == (\A i \in 1..Len(s) : s[i] \in live) /\ \A x \in live : \E i \in 1..Len(s) : s[i] = x

\* With a new entry behind its k-th, the list is joined by the new links.
LEMMA InsertedJoined ==
  ASSUME NEW next, NEW prev, NEW s, Joined(s, next, prev), NEW rank \in Ranks, Rising(s, rank),
         NEW e \in Entries, \A i \in 1..Len(s) : s[i] # e, NEW k \in 1..(Len(s) - 1),
         NEW next2, next2[e] = s[k + 1], next2[s[k]] = e, \A x \in Entries \ {e, s[k]} : next2[x] = next[x],
         NEW prev2, prev2[e] = s[k], prev2[s[k + 1]] = e, \A x \in Entries \ {e, s[k + 1]} : prev2[x] = prev[x]
  PROVE  Joined(Inserted(s, k, e), next2, prev2)
<1> DEFINE t == Inserted(s, k, e)
<1>0. s \in Seq(Entries) /\ Len(s) >= 2 /\ s[1] = HeadCommand /\ s[Len(s)] = TailCommand
      /\ \A i \in 1..(Len(s) - 1) : next[s[i]] = s[i + 1] /\ prev[s[i + 1]] = s[i]
  BY DEF Joined
<1>1. /\ s \in Seq(Entries) /\ Len(s) \in Nat /\ Len(s) >= 2 /\ s[1] = HeadCommand /\ s[Len(s)] = TailCommand
      /\ \A i \in 1..(Len(s) - 1) : next[s[i]] = s[i + 1] /\ prev[s[i + 1]] = s[i]
      /\ \A i \in 1..Len(s) : s[i] \in Entries
  BY <1>0
<1>2. k \in Nat /\ k >= 1 /\ k < Len(s)
  BY <1>1
<1>3. /\ t \in Seq(Entries) /\ Len(t) = Len(s) + 1 /\ t[k + 1] = e
      /\ \A i \in 1..k : t[i] = s[i]
      /\ \A i \in (k + 1)..Len(s) : t[i + 1] = s[i]
  BY <1>1, InsertedIn
<1> HIDE DEF t
<1>4. \A i, j \in 1..Len(s) : s[i] = s[j] => i = j
  BY <1>1, RisingOnce
<1>5. t[1] = HeadCommand /\ t[Len(t)] = TailCommand /\ Len(t) >= 2
  <2>1. 1 \in 1..k /\ Len(s) \in (k + 1)..Len(s)
    BY <1>1, <1>2
  <2> QED
    BY <1>1, <1>3, <2>1
<1>6. ASSUME NEW i \in 1..(Len(t) - 1) PROVE next2[t[i]] = t[i + 1] /\ prev2[t[i + 1]] = t[i]
  <2>0. i \in Nat /\ i >= 1 /\ i <= Len(s)
    BY <1>1, <1>3
  <2>1. CASE i < k
    <3>1. i \in 1..k /\ i + 1 \in 1..k /\ i \in 1..Len(s) /\ i + 1 \in 1..Len(s) /\ k \in 1..Len(s) /\ k + 1 \in 1..Len(s)
          /\ i # k /\ i + 1 # k + 1 /\ i \in 1..(Len(s) - 1)
      BY <1>1, <1>2, <2>0, <2>1
    <3>2. t[i] = s[i] /\ t[i + 1] = s[i + 1]
      BY <1>3, <3>1
    <3>3. s[i] # s[k] /\ s[i + 1] # s[k + 1]
      BY <1>4, <3>1
    <3>4. s[i] \in Entries \ {e, s[k]} /\ s[i + 1] \in Entries \ {e, s[k + 1]}
      BY <1>1, <3>1, <3>3
    <3>5. next[s[i]] = s[i + 1] /\ prev[s[i + 1]] = s[i]
      BY <1>1, <3>1
    <3>6. next2[s[i]] = next[s[i]] /\ prev2[s[i + 1]] = prev[s[i + 1]]
      BY <3>4
    <3> QED
      BY <3>2, <3>5, <3>6
  <2>2. CASE i = k
    <3>1. t[i] = s[k] /\ t[i + 1] = e
      BY <1>2, <1>3, <2>2
    <3> QED
      BY <3>1
  <2>3. CASE i = k + 1
    <3>1. t[i] = e /\ t[i + 1] = s[k + 1]
      BY <1>1, <1>2, <1>3, <2>3
    <3> QED
      BY <3>1
  <2>4. CASE i > k + 1
    <3>0. PICK n \in Nat : n = i - 1
      BY <2>0
    <3>1. n \in (k + 1)..Len(s) /\ i = n + 1 /\ i \in (k + 1)..Len(s) /\ n \in 1..Len(s) /\ n + 1 \in 1..Len(s)
          /\ n # k /\ n + 1 # k + 1 /\ k \in 1..Len(s) /\ k + 1 \in 1..Len(s) /\ n \in 1..(Len(s) - 1)
      BY <1>1, <1>2, <2>0, <2>4, <3>0
    <3>2. t[i] = s[n] /\ t[i + 1] = s[n + 1]
      BY <1>3, <3>1
    <3>3. s[n] # s[k] /\ s[n + 1] # s[k + 1]
      BY <1>4, <3>1
    <3>4. s[n] \in Entries \ {e, s[k]} /\ s[n + 1] \in Entries \ {e, s[k + 1]}
      BY <1>1, <3>1, <3>3
    <3>5. next[s[n]] = s[n + 1] /\ prev[s[n + 1]] = s[n]
      BY <1>1, <3>1
    <3>6. next2[s[n]] = next[s[n]] /\ prev2[s[n + 1]] = prev[s[n + 1]]
      BY <3>4
    <3> QED
      BY <3>2, <3>5, <3>6
  <2> QED
    BY <1>2, <2>0, <2>1, <2>2, <2>3, <2>4
<1>7. Joined(t, next2, prev2)
  BY <1>3, <1>5, <1>6 DEF Joined
<1> QED
  BY <1>7 DEF t

\* Its ranks rise again, and its entries are the old ones and the new one.
LEMMA InsertedRises ==
  ASSUME NEW s \in Seq(Entries), NEW rank \in Ranks, Rising(s, rank),
         NEW e \in Entries, \A i \in 1..Len(s) : s[i] # e, NEW k \in 1..(Len(s) - 1),
         NEW live, Lists(s, live)
  PROVE  /\ Rising(Inserted(s, k, e), Shifted(rank, e, s[k]))
         /\ Lists(Inserted(s, k, e), live \cup {e})
<1> DEFINE t == Inserted(s, k, e)
           new == Shifted(rank, e, s[k])
<1>1. Len(s) \in Nat /\ k \in Nat /\ k >= 1 /\ k < Len(s) /\ k \in 1..Len(s) /\ \A i \in 1..Len(s) : s[i] \in Entries \ {e}
  OBVIOUS
<1>2. /\ t \in Seq(Entries) /\ Len(t) = Len(s) + 1 /\ t[k + 1] = e
      /\ \A i \in 1..k : t[i] = s[i]
      /\ \A i \in (k + 1)..Len(s) : t[i + 1] = s[i]
  BY InsertedIn
<1>3. /\ new \in Ranks /\ new[s[k]] < new[e]
      /\ \A x \in Entries \ {e} : rank[s[k]] < rank[x] => new[e] < new[x]
      /\ \A x \in Entries \ {e} : rank[x] <= rank[s[k]] => new[x] < new[e]
      /\ \A x, y \in Entries \ {e} : new[x] < new[y] <=> rank[x] < rank[y]
  BY <1>1, ShiftedKeeps
<1> HIDE DEF t, new
<1>4. ASSUME NEW i \in 1..Len(t) PROVE i \in 1..k \/ i = k + 1 \/ \E j \in (k + 1)..Len(s) : i = j + 1
  <2>1. i \in 1..(Len(s) + 1) /\ Len(s) \in Nat
    BY <1>1, <1>2
  <2> QED
    BY <2>1, InsertedPlaces
<1>5. 1..k \subseteq 1..Len(s) /\ (k + 1)..Len(s) \subseteq 1..Len(s) /\ \A i \in 1..Len(s) : rank[s[i]] \in Nat
  BY <1>1 DEF Ranks
<1>6. Rising(t, new)
  <2> SUFFICES ASSUME NEW i \in 1..Len(t), NEW j \in 1..Len(t), i < j PROVE new[t[i]] < new[t[j]]
    BY DEF Rising
  <2>0. \A m, n \in 1..Len(s) : m < n => rank[s[m]] < rank[s[n]] /\ new[s[m]] < new[s[n]]
    BY <1>1, <1>3 DEF Rising
  <2>1. ASSUME NEW m \in 1..k PROVE new[s[m]] < new[e]
    <3>1. m = k \/ m < k
      BY <1>1
    <3>2. rank[s[m]] <= rank[s[k]]
      BY <1>1, <1>5, <2>0, <3>1
    <3> QED
      BY <1>1, <1>3, <1>5, <3>2
  <2>2. ASSUME NEW n \in (k + 1)..Len(s) PROVE new[e] < new[s[n]]
    <3>1. rank[s[k]] < rank[s[n]]
      BY <1>1, <1>5, <2>0
    <3> QED
      BY <1>1, <1>3, <1>5, <3>1
  <2>3. CASE i \in 1..k
    <3>1. t[i] = s[i] /\ i \in 1..Len(s)
      BY <1>2, <1>5, <2>3
    <3>2. CASE j \in 1..k
      BY <1>2, <1>5, <2>0, <3>1, <3>2
    <3>3. CASE j = k + 1
      BY <1>2, <2>1, <2>3, <3>1, <3>3
    <3>4. ASSUME NEW n \in (k + 1)..Len(s), j = n + 1 PROVE new[t[i]] < new[t[j]]
      <4>1. t[j] = s[n] /\ n \in 1..Len(s) /\ i < n
        BY <1>1, <1>2, <1>5, <2>3, <3>4
      <4> QED
        BY <2>0, <3>1, <4>1
    <3> QED
      BY <1>4, <3>2, <3>3, <3>4
  <2>4. CASE i = k + 1
    <3>1. PICK n \in (k + 1)..Len(s) : j = n + 1
      BY <1>1, <1>4, <2>4
    <3> QED
      BY <1>2, <2>2, <2>4, <3>1
  <2>5. ASSUME NEW m \in (k + 1)..Len(s), i = m + 1 PROVE new[t[i]] < new[t[j]]
    <3>1. PICK n \in (k + 1)..Len(s) : j = n + 1
      BY <1>1, <1>4, <2>5
    <3>2. t[i] = s[m] /\ t[j] = s[n] /\ m \in 1..Len(s) /\ n \in 1..Len(s) /\ m < n
      BY <1>1, <1>2, <1>5, <2>5, <3>1
    <3> QED
      BY <2>0, <3>2
  <2> QED
    BY <1>4, <2>3, <2>4, <2>5
<1>7. ASSUME NEW i \in 1..Len(t) PROVE t[i] \in live \cup {e}
  <2>1. \A j \in 1..Len(s) : s[j] \in live
    BY DEF Lists
  <2>2. CASE i \in 1..k
    BY <1>2, <1>5, <2>1, <2>2
  <2>3. CASE i = k + 1
    BY <1>2, <2>3
  <2>4. ASSUME NEW j \in (k + 1)..Len(s), i = j + 1 PROVE t[i] \in live \cup {e}
    BY <1>2, <1>5, <2>1, <2>4
  <2> QED
    BY <1>4, <2>2, <2>3, <2>4
<1>8. ASSUME NEW x \in live \cup {e} PROVE \E i \in 1..Len(t) : t[i] = x
  <2>1. CASE x = e
    <3>1. k + 1 \in 1..Len(t)
      BY <1>1, <1>2
    <3> QED
      BY <1>2, <2>1, <3>1
  <2>2. CASE x \in live
    <3>1. PICK i \in 1..Len(s) : s[i] = x
      BY <2>2 DEF Lists
    <3>2. CASE i <= k
      <4>1. i \in 1..k /\ i \in 1..Len(t)
        BY <1>1, <1>2, <3>2
      <4> QED
        BY <1>2, <3>1, <4>1
    <3>3. CASE i > k
      <4>1. i \in (k + 1)..Len(s) /\ i + 1 \in 1..Len(t)
        BY <1>1, <1>2, <3>3
      <4> QED
        BY <1>2, <3>1, <4>1
    <3> QED
      BY <1>1, <3>2, <3>3
  <2> QED
    BY <2>1, <2>2
<1>9. Lists(t, live \cup {e})
  BY <1>7, <1>8 DEF Lists
<1> QED
  BY <1>6, <1>9 DEF t, new

\* Without its k-th entry, the list is joined by the new links and rises still.
LEMMA WithoutJoined ==
  ASSUME NEW next, NEW prev, NEW s, Joined(s, next, prev), NEW rank \in Ranks, Rising(s, rank),
         NEW k \in 2..(Len(s) - 1),
         NEW next2, next2[s[k - 1]] = s[k + 1], \A x \in Entries \ {s[k - 1]} : next2[x] = next[x],
         NEW prev2, prev2[s[k + 1]] = s[k - 1], \A x \in Entries \ {s[k + 1]} : prev2[x] = prev[x],
         NEW live, Lists(s, live)
  PROVE  /\ Joined(Without(s, k), next2, prev2) /\ Rising(Without(s, k), rank)
         /\ Lists(Without(s, k), live \ {s[k]})
<1> DEFINE t == Without(s, k)
<1>0. s \in Seq(Entries) /\ Len(s) >= 2 /\ s[1] = HeadCommand /\ s[Len(s)] = TailCommand
      /\ \A i \in 1..(Len(s) - 1) : next[s[i]] = s[i + 1] /\ prev[s[i + 1]] = s[i]
  BY DEF Joined
<1>1. /\ s \in Seq(Entries) /\ Len(s) \in Nat /\ Len(s) >= 2 /\ s[1] = HeadCommand /\ s[Len(s)] = TailCommand
      /\ \A i \in 1..(Len(s) - 1) : next[s[i]] = s[i + 1] /\ prev[s[i + 1]] = s[i]
      /\ \A i \in 1..Len(s) : s[i] \in Entries
  BY <1>0
<1>2. k \in Nat /\ k >= 2 /\ k < Len(s) /\ k \in 1..Len(s) /\ k - 1 \in 1..Len(s) /\ k + 1 \in 1..Len(s)
  BY <1>1
<1>3. /\ t \in Seq(Entries) /\ Len(t) = Len(s) - 1
      /\ \A i \in 1..(k - 1) : t[i] = s[i]
      /\ \A i \in k..(Len(s) - 1) : t[i] = s[i + 1]
  BY <1>1, WithoutIn
<1> HIDE DEF t
<1>4. \A i, j \in 1..Len(s) : s[i] = s[j] => i = j
  BY <1>1, RisingOnce
<1>5. t[1] = HeadCommand /\ t[Len(t)] = TailCommand /\ Len(t) >= 2
  <2>1. 1 \in 1..(k - 1) /\ Len(s) - 1 \in k..(Len(s) - 1) /\ (Len(s) - 1) + 1 = Len(s)
    BY <1>1, <1>2
  <2> QED
    BY <1>1, <1>2, <1>3, <2>1
<1>6. ASSUME NEW i \in 1..(Len(t) - 1) PROVE next2[t[i]] = t[i + 1] /\ prev2[t[i + 1]] = t[i]
  <2>0. i \in Nat /\ i >= 1 /\ i <= Len(s) - 2
    BY <1>1, <1>3
  <2>1. CASE i < k - 1
    <3>1. i \in 1..(k - 1) /\ i + 1 \in 1..(k - 1) /\ i \in 1..Len(s) /\ i + 1 \in 1..Len(s)
          /\ i # k - 1 /\ i + 1 # k + 1 /\ i \in 1..(Len(s) - 1)
      BY <1>1, <1>2, <2>0, <2>1
    <3>2. t[i] = s[i] /\ t[i + 1] = s[i + 1]
      BY <1>3, <3>1
    <3>3. s[i] # s[k - 1] /\ s[i + 1] # s[k + 1]
      BY <1>2, <1>4, <3>1
    <3>4. s[i] \in Entries \ {s[k - 1]} /\ s[i + 1] \in Entries \ {s[k + 1]}
      BY <1>1, <3>1, <3>3
    <3>5. next[s[i]] = s[i + 1] /\ prev[s[i + 1]] = s[i]
      BY <1>1, <3>1
    <3>6. next2[s[i]] = next[s[i]] /\ prev2[s[i + 1]] = prev[s[i + 1]]
      BY <3>4
    <3> QED
      BY <3>2, <3>5, <3>6
  <2>2. CASE i = k - 1
    <3>1. t[i] = s[k - 1] /\ t[i + 1] = s[k + 1]
      BY <1>1, <1>2, <1>3, <2>2
    <3> QED
      BY <3>1
  <2>3. CASE i >= k
    <3>0. PICK n \in Nat : n = i + 1
      BY <2>0
    <3>1. i \in k..(Len(s) - 1) /\ i + 1 \in k..(Len(s) - 1) /\ (i + 1) + 1 = n + 1 /\ n \in 1..Len(s) /\ n + 1 \in 1..Len(s)
          /\ n # k - 1 /\ n + 1 # k + 1 /\ n \in 1..(Len(s) - 1)
      BY <1>1, <1>2, <2>0, <2>3, <3>0
    <3>2. t[i] = s[n] /\ t[i + 1] = s[n + 1]
      BY <1>3, <3>0, <3>1
    <3>3. s[n] # s[k - 1] /\ s[n + 1] # s[k + 1]
      BY <1>2, <1>4, <3>1
    <3>4. s[n] \in Entries \ {s[k - 1]} /\ s[n + 1] \in Entries \ {s[k + 1]}
      BY <1>1, <3>1, <3>3
    <3>5. next[s[n]] = s[n + 1] /\ prev[s[n + 1]] = s[n]
      BY <1>1, <3>1
    <3>6. next2[s[n]] = next[s[n]] /\ prev2[s[n + 1]] = prev[s[n + 1]]
      BY <3>4
    <3> QED
      BY <3>2, <3>5, <3>6
  <2> QED
    BY <1>2, <2>0, <2>1, <2>2, <2>3
<1>7. Joined(t, next2, prev2)
  BY <1>3, <1>5, <1>6 DEF Joined
<1>8. \A i \in 1..Len(t) : \E m \in 1..Len(s) : m # k /\ t[i] = s[m] /\ m = (IF i < k THEN i ELSE i + 1)
  <2> TAKE i \in 1..Len(t)
  <2>1. CASE i < k
    <3>1. i \in 1..(k - 1) /\ i \in 1..Len(s) /\ i # k
      BY <1>1, <1>2, <1>3, <2>1
    <3> QED
      BY <1>3, <2>1, <3>1
  <2>2. CASE ~(i < k)
    <3>1. i \in k..(Len(s) - 1) /\ i + 1 \in 1..Len(s) /\ i + 1 # k
      BY <1>1, <1>2, <1>3, <2>2
    <3> QED
      BY <1>3, <2>2, <3>1
  <2> QED
    BY <2>1, <2>2
<1>9. Rising(t, rank)
  <2> SUFFICES ASSUME NEW i \in 1..Len(t), NEW j \in 1..Len(t), i < j PROVE rank[t[i]] < rank[t[j]]
    BY DEF Rising
  <2>1. PICK m \in 1..Len(s) : t[i] = s[m] /\ m = (IF i < k THEN i ELSE i + 1)
    BY <1>8
  <2>2. PICK n \in 1..Len(s) : t[j] = s[n] /\ n = (IF j < k THEN j ELSE j + 1)
    BY <1>8
  <2>3. m < n
    BY <1>2, <2>1, <2>2
  <2> QED
    BY <2>1, <2>2, <2>3 DEF Rising
<1>10. Lists(t, live \ {s[k]})
  <2>1. ASSUME NEW i \in 1..Len(t) PROVE t[i] \in live \ {s[k]}
    <3>1. PICK m \in 1..Len(s) : m # k /\ t[i] = s[m]
      BY <1>8
    <3>2. s[m] # s[k]
      BY <1>2, <1>4, <3>1
    <3> QED
      BY <3>1, <3>2 DEF Lists
  <2>2. ASSUME NEW x \in live \ {s[k]} PROVE \E i \in 1..Len(t) : t[i] = x
    <3>1. PICK m \in 1..Len(s) : s[m] = x
      BY DEF Lists
    <3>2. m # k
      BY <3>1
    <3>3. CASE m < k
      <4>1. m \in 1..(k - 1) /\ m \in 1..Len(t)
        BY <1>1, <1>2, <1>3, <3>3
      <4> QED
        BY <1>3, <3>1, <4>1
    <3>4. CASE m > k
      <4>1. m - 1 \in k..(Len(s) - 1) /\ m - 1 \in 1..Len(t) /\ (m - 1) + 1 = m
        BY <1>1, <1>2, <1>3, <3>4
      <4> QED
        BY <1>3, <3>1, <4>1
    <3> QED
      BY <1>2, <3>2, <3>3, <3>4
  <2> QED
    BY <2>1, <2>2 DEF Lists
<1> QED
  BY <1>7, <1>9, <1>10 DEF t

\* What the names lead to, between the ends of the chain, and what there ever was.
Live == {HeadCommand, TailCommand} \cup {name2command[n] : n \in CommandNames}
Known == {HeadCommand, TailCommand} \cup 1..Len(commandName)

Walks == [at : Int, nested : BOOLEAN, seen : Seq(Entries)]
Place(r) == IF r.at = OuterChain THEN TailCommand ELSE r.at

HandlerTypeOK ==
  /\ commandName \in Seq(CommandNames) /\ Len(commandName) \in 0..MaxCommands
  /\ nextCommand \in [Entries -> Entries] /\ prevCommand \in [Entries -> Entries]
  /\ name2command \in [CommandNames -> 0..Len(commandName)]
  /\ \A n \in CommandNames : name2command[n] # 0 => commandName[name2command[n]] = n
  /\ deleted \subseteq 1..Len(commandName) /\ unlinked \in 0..Len(commandName)
  /\ execution \in [Executions -> Walks] /\ mustSee \in [Executions -> SUBSET Entries]

\* An entry is in the chain, or unlinked, or freed.
StoreInv ==
  /\ \A e \in Known : e \in Live \/ e \in deleted \/ e = unlinked
  /\ Live \cap deleted = {}
  /\ unlinked # 0 => unlinked \notin Live /\ unlinked \notin deleted

ChainInv(s, rank) == Joined(s, nextCommand, prevCommand) /\ Rising(s, rank) /\ Lists(s, Live)

\* What is unlinked still leads to what was behind it.
UnlinkedInv(s, rank) ==
  unlinked # 0 => \E i \in 1..(Len(s) - 1) :
    nextCommand[unlinked] = s[i + 1] /\ rank[s[i]] < rank[unlinked] /\ rank[unlinked] < rank[s[i + 1]]

\* An execution has seen entries of rising rank up to the one where it is, and
\* what it must see and has not seen is behind that one.
WalkOK(r, must, rank, live, known) ==
  /\ r.at \in known \cup {OuterChain}
  /\ r.seen \in Seq(known) /\ Rising(r.seen, rank)
  /\ r.seen = <<>> => r.at = HeadCommand
  /\ r.seen # <<>> => r.seen[Len(r.seen)] = Place(r)
  /\ must \subseteq live \ {HeadCommand, TailCommand}
  /\ \A m \in must : (\E i \in 1..Len(r.seen) : r.seen[i] = m) \/ rank[Place(r)] < rank[m]

WalksInv(rank) ==
  \A x \in Executions : IF execution[x] = Outside THEN mustSee[x] = {} ELSE WalkOK(execution[x], mustSee[x], rank, Live, Known)

HandlerInv ==
  /\ HandlerTypeOK /\ StoreInv
  /\ \E s \in Seq(Entries), rank \in Ranks : ChainInv(s, rank) /\ UnlinkedInv(s, rank) /\ WalksInv(rank)

\* The entries are numbers between the head and the tail.
LEMMA EntriesAre ==
  ASSUME HandlerTypeOK
  PROVE  /\ MaxCommands \in Nat /\ Len(commandName) \in Nat /\ Len(commandName) <= MaxCommands
         /\ HeadCommand = 0 /\ TailCommand = MaxCommands + 1 /\ OuterChain = MaxCommands + 2
         /\ Entries = 0..(MaxCommands + 1) /\ Known \subseteq Entries /\ Live \subseteq Known
         /\ HeadCommand \in Live /\ TailCommand \in Live /\ OuterChain \notin Entries /\ TailCommand \notin 1..Len(commandName)
<1>1. MaxCommands \in Nat /\ Len(commandName) \in Nat /\ Len(commandName) <= MaxCommands
  BY HandlerAssumption DEF HandlerTypeOK
<1>2. Known \subseteq Entries /\ OuterChain \notin Entries /\ TailCommand \notin 1..Len(commandName) /\ Entries = 0..(MaxCommands + 1)
  BY <1>1 DEF Known, Entries, HeadCommand, TailCommand, OuterChain
<1>3. Live \subseteq Known
  <2>1. \A n \in CommandNames : name2command[n] \in 0..Len(commandName)
    BY DEF HandlerTypeOK
  <2>2. 0..Len(commandName) \subseteq {0} \cup 1..Len(commandName)
    BY <1>1
  <2> QED
    BY <2>1, <2>2 DEF Live, Known, HeadCommand
<1> QED
  BY <1>1, <1>2, <1>3 DEF Live, HeadCommand, TailCommand, OuterChain

\* What getAll() and getAllReversed() read.
LEMMA CommandsAre ==
  ASSUME HandlerTypeOK, NEW s, NEW rank \in Ranks, ChainInv(s, rank)
  PROVE  /\ GetAll = SubSeq(s, 2, Len(s) - 1) /\ GetAllReversed = SubSeq(Reverse(s), 2, Len(s) - 1)
         /\ CommandsInChain = Live \ {HeadCommand, TailCommand}
<1>1. /\ s \in Seq(Entries) /\ Len(s) >= 2 /\ s[1] = HeadCommand /\ s[Len(s)] = TailCommand
      /\ \A i \in 1..(Len(s) - 1) : nextCommand[s[i]] = s[i + 1] /\ prevCommand[s[i + 1]] = s[i]
      /\ Rising(s, rank) /\ Lists(s, Live)
  BY DEF ChainInv, Joined
<1>2. \A i, j \in 1..Len(s) : s[i] = s[j] => i = j
  BY <1>1, RisingOnce
<1>3. Len(s) \in Nat /\ Len(s) <= MaxCommands + 2
  BY <1>1, <1>2, ListLength
<1>4. GetAll = SubSeq(s, 2, Len(s) - 1)
  <2>1. \A i \in 1..(Len(s) - 1) : s[i] # TailCommand /\ nextCommand[s[i]] = s[i + 1]
    <3> TAKE i \in 1..(Len(s) - 1)
    <3>1. i \in 1..Len(s) /\ Len(s) \in 1..Len(s) /\ i # Len(s)
      BY <1>1, <1>3
    <3> QED
      BY <1>1, <1>2, <3>1
  <2>2. Along(nextCommand, s[1], TailCommand) = SubSeq(s, 2, Len(s) - 1)
    BY SMTT(30), <1>1, <1>3, <2>1, AlongIs
  <2> QED
    BY <1>1, <2>2 DEF GetAll
<1>5. GetAllReversed = SubSeq(Reverse(s), 2, Len(s) - 1)
  <2>0. PICK r : r = Reverse(s)
    OBVIOUS
  <2>1. r \in Seq(Entries) /\ Len(r) = Len(s) /\ \A i \in 1..Len(s) : r[i] = s[Len(s) - i + 1]
    BY <1>1, <2>0, BackIs
  <2>2. r[1] = TailCommand /\ r[Len(r)] = HeadCommand
    <3>1. Len(s) - 1 + 1 = Len(s) /\ Len(s) - Len(s) + 1 = 1 /\ 1 \in 1..Len(s) /\ Len(s) \in 1..Len(s)
      BY <1>1, <1>3
    <3> QED
      BY <1>1, <2>1, <3>1
  <2>3. ASSUME NEW i \in 1..(Len(r) - 1) PROVE r[i] # HeadCommand /\ prevCommand[r[i]] = r[i + 1]
    <3>a. PICK n \in Nat : n = Len(s) /\ n = Len(r)
      BY <1>3, <2>1
    <3>b. i \in 1..(n - 1) /\ n >= 2
      BY <1>1, <3>a
    <3>c. i \in Nat /\ i >= 1 /\ i <= n - 1
      BY <3>b
    <3>1. PICK j \in Nat : j = n - i
      BY <3>c
    <3>d. /\ i \in 1..n /\ i + 1 \in 1..n /\ n - i + 1 = j + 1 /\ n - (i + 1) + 1 = j
          /\ j \in 1..(n - 1) /\ j + 1 \in 1..n /\ 1 \in 1..n /\ j + 1 # 1
      BY <3>b, <3>c, <3>1
    <3>2. /\ i \in 1..Len(s) /\ i + 1 \in 1..Len(s) /\ Len(s) - i + 1 = j + 1 /\ Len(s) - (i + 1) + 1 = j
          /\ j \in 1..(Len(s) - 1) /\ j + 1 \in 1..Len(s) /\ 1 \in 1..Len(s) /\ j + 1 # 1
      BY <3>a, <3>d
    <3>3. r[i] = s[j + 1] /\ r[i + 1] = s[j]
      BY <2>1, <3>2
    <3>4. s[j + 1] # s[1]
      BY <1>2, <3>2
    <3> QED
      BY <1>1, <3>2, <3>3, <3>4
  <2>4. Along(prevCommand, r[1], HeadCommand) = SubSeq(r, 2, Len(r) - 1)
    <3>1. Len(r) >= 2 /\ Len(r) <= MaxCommands + 2
      BY <1>1, <1>3, <2>1
    <3> QED
      BY ZenonT(30), <2>1, <2>2, <2>3, <3>1, AlongIs
  <2> QED
    BY <2>0, <2>1, <2>2, <2>4 DEF GetAllReversed
<1>6. CommandsInChain = Live \ {HeadCommand, TailCommand}
  <2>0. PICK t : t = SubSeq(s, 2, Len(s) - 1)
    OBVIOUS
  <2>1. t \in Seq(Entries) /\ Len(t) = Len(s) - 2 /\ \A i \in 1..(Len(s) - 2) : t[i] = s[i + 1]
    BY <1>1, <2>0, MiddleIs
  <2>2. CommandsInChain = {t[i] : i \in 1..(Len(s) - 2)}
    <3>1. DOMAIN t = 1..(Len(s) - 2)
      BY <2>1
    <3> QED
      BY <1>4, <2>0, <3>1, Zenon DEF CommandsInChain
  <2>3. ASSUME NEW i \in 1..(Len(s) - 2) PROVE t[i] \in Live \ {HeadCommand, TailCommand}
    <3>1. i + 1 \in 1..Len(s) /\ i + 1 # 1 /\ i + 1 # Len(s) /\ 1 \in 1..Len(s) /\ Len(s) \in 1..Len(s)
      BY <1>1, <1>3
    <3>2. s[i + 1] # s[1] /\ s[i + 1] # s[Len(s)]
      BY <1>2, <3>1
    <3> QED
      BY <1>1, <2>1, <3>1, <3>2 DEF Lists
  <2>4. ASSUME NEW x \in Live \ {HeadCommand, TailCommand} PROVE \E i \in 1..(Len(s) - 2) : t[i] = x
    <3>1. PICK j \in 1..Len(s) : s[j] = x
      BY <1>1 DEF Lists
    <3>2. j # 1 /\ j # Len(s)
      BY <1>1, <3>1
    <3>3. j - 1 \in 1..(Len(s) - 2) /\ (j - 1) + 1 = j
      BY <1>1, <1>3, <3>2
    <3> QED
      BY <2>1, <3>1, <3>3
  <2> QED
    BY <2>2, <2>3, <2>4
<1> QED
  BY <1>4, <1>5, <1>6

\* An execution is not disturbed by entries that are added, nor by new ranks in
\* the old order.
LEMMA WalkKept ==
  ASSUME NEW rank \in Ranks, NEW rank2 \in Ranks, NEW known \in SUBSET Entries, NEW known2 \in SUBSET Entries, known \subseteq known2,
         NEW live, NEW live2, live \subseteq known, TailCommand \in known, OuterChain \notin known,
         \A x, y \in known : rank[x] < rank[y] => rank2[x] < rank2[y],
         NEW r, NEW must, NEW must2, must2 \subseteq must, must2 \subseteq live2, WalkOK(r, must, rank, live, known)
  PROVE  WalkOK(r, must2, rank2, live2, known2)
<1>1. r.seen \in Seq(known) /\ r.seen \in Seq(known2) /\ Place(r) \in known
  BY DEF WalkOK, Place
<1>2. \A i \in 1..Len(r.seen) : r.seen[i] \in known
  BY <1>1
<1>3. Rising(r.seen, rank2)
  BY <1>2 DEF WalkOK, Rising
<1>4. \A m \in must2 : m \in known
  BY DEF WalkOK
<1>5. \A m \in must2 : (\E i \in 1..Len(r.seen) : r.seen[i] = m) \/ rank2[Place(r)] < rank2[m]
  BY <1>1, <1>4 DEF WalkOK
<1> QED
  BY <1>1, <1>3, <1>5 DEF WalkOK

\* A command that is added is new to the links, to the store and to whoever is
\* on its way.
LEMMA AddCommandStep ==
  ASSUME HandlerInv, NEW name \in CommandNames, AddCommand(name)
  PROVE  HandlerInv'
<1>1. PICK s \in Seq(Entries), rank \in Ranks : ChainInv(s, rank) /\ UnlinkedInv(s, rank) /\ WalksInv(rank)
  BY DEF HandlerInv
<1>2. /\ MaxCommands \in Nat /\ Len(commandName) \in Nat /\ Len(commandName) <= MaxCommands
      /\ HeadCommand = 0 /\ TailCommand = MaxCommands + 1 /\ OuterChain = MaxCommands + 2
      /\ Entries = 0..(MaxCommands + 1) /\ Known \subseteq Entries /\ Live \subseteq Known
      /\ HeadCommand \in Live /\ TailCommand \in Live /\ OuterChain \notin Entries /\ TailCommand \notin 1..Len(commandName)
  BY EntriesAre DEF HandlerInv
<1>3. PICK e : e = Len(commandName) + 1
  OBVIOUS
<1>4. e \in 1..MaxCommands /\ e \in Entries /\ e \notin Known /\ e # HeadCommand /\ e # TailCommand /\ e \notin 1..Len(commandName)
  <2>1. Len(commandName) < MaxCommands
    BY DEF AddCommand
  <2>2. e \in 1..MaxCommands /\ e \in Entries /\ e # HeadCommand /\ e # TailCommand /\ e \notin 1..Len(commandName)
    BY <1>2, <1>3, <2>1
  <2> QED
    BY <2>2 DEF Known
<1>5. PICK near : /\ near \in CommandsInChain \cup {HeadCommand} /\ RegisterCommand(e, near)
  BY <1>3 DEF AddCommand
<1>6. /\ unlinked = 0 /\ name2command[name] = 0 /\ name2command' = [name2command EXCEPT ![name] = e]
      /\ commandName' = Append(commandName, name)
      /\ UNCHANGED <<deleted, unlinked, execution, mustSee>>
  BY <1>3 DEF AddCommand, Monitor
<1>7. near \in Live /\ near # TailCommand
  <2>1. CommandsInChain = Live \ {HeadCommand, TailCommand}
    BY <1>1, CommandsAre DEF HandlerInv
  <2> QED
    BY <1>2, <1>5, <2>1
<1>8. /\ s[1] = HeadCommand /\ s[Len(s)] = TailCommand /\ Len(s) >= 2 /\ Len(s) \in Nat
      /\ \A i \in 1..(Len(s) - 1) : nextCommand[s[i]] = s[i + 1] /\ prevCommand[s[i + 1]] = s[i]
      /\ \A i \in 1..Len(s) : s[i] \in Live
      /\ Joined(s, nextCommand, prevCommand) /\ Rising(s, rank) /\ Lists(s, Live)
  <2>1. s[1] = HeadCommand /\ s[Len(s)] = TailCommand /\ Len(s) >= 2
        /\ \A i \in 1..(Len(s) - 1) : nextCommand[s[i]] = s[i + 1] /\ prevCommand[s[i + 1]] = s[i]
    BY <1>1 DEF ChainInv, Joined
  <2>2. Joined(s, nextCommand, prevCommand) /\ Rising(s, rank) /\ Lists(s, Live)
    BY <1>1 DEF ChainInv
  <2>3. Len(s) \in Nat
    OBVIOUS
  <2> QED
    BY <2>1, <2>2, <2>3 DEF Lists
<1>9. PICK k \in 1..(Len(s) - 1) : s[k] = near
  <2>1. PICK k \in 1..Len(s) : s[k] = near
    BY <1>7, <1>8 DEF Lists
  <2>2. k # Len(s)
    BY <1>7, <1>8, <2>1
  <2>3. k \in 1..(Len(s) - 1)
    BY <1>8, <2>2
  <2> QED
    BY <2>1, <2>3
<1>10. k \in 1..Len(s) /\ k + 1 \in 1..Len(s) /\ nextCommand[near] = s[k + 1] /\ near \in Entries /\ s[k + 1] \in Entries
       /\ near # e /\ s[k + 1] # e
  <2>1. k \in 1..Len(s) /\ k + 1 \in 1..Len(s)
    BY <1>8, <1>9
  <2>2. near \in Live /\ s[k + 1] \in Live
    BY <1>7, <1>8, <2>1
  <2>3. nextCommand[near] = s[k + 1]
    BY <1>8, <1>9
  <2>4. Live \subseteq Entries /\ e \notin Live
    BY <1>2, <1>4
  <2> QED
    BY <2>1, <2>2, <2>3, <2>4
<1>11. nextCommand \in [Entries -> Entries] /\ prevCommand \in [Entries -> Entries]
  BY DEF HandlerInv, HandlerTypeOK
<1>12. /\ nextCommand' \in [Entries -> Entries] /\ nextCommand'[e] = s[k + 1] /\ nextCommand'[s[k]] = e
       /\ \A x \in Entries \ {e, s[k]} : nextCommand'[x] = nextCommand[x]
  <2>1. nextCommand' = [nextCommand EXCEPT ![e] = s[k + 1], ![near] = e]
    BY <1>5, <1>10 DEF RegisterCommand
  <2> QED
    BY <1>4, <1>9, <1>10, <1>11, <2>1
<1>13. /\ prevCommand' \in [Entries -> Entries] /\ prevCommand'[e] = s[k] /\ prevCommand'[s[k + 1]] = e
       /\ \A x \in Entries \ {e, s[k + 1]} : prevCommand'[x] = prevCommand[x]
  <2>1. prevCommand' = [prevCommand EXCEPT ![e] = near, ![s[k + 1]] = e]
    BY <1>5, <1>10 DEF RegisterCommand
  <2> QED
    BY <1>4, <1>9, <1>10, <1>11, <2>1
<1>14. \A i \in 1..Len(s) : s[i] # e
  BY <1>2, <1>4, <1>8
<1>15. PICK t, new : t = Inserted(s, k, e) /\ new = Shifted(rank, e, s[k])
  OBVIOUS
<1>16. Joined(t, nextCommand', prevCommand')
  <2>1. PICK n2, p2 : n2 = nextCommand' /\ p2 = prevCommand'
    OBVIOUS
  <2>2. /\ n2[e] = s[k + 1] /\ n2[s[k]] = e /\ \A x \in Entries \ {e, s[k]} : n2[x] = nextCommand[x]
        /\ p2[e] = s[k] /\ p2[s[k + 1]] = e /\ \A x \in Entries \ {e, s[k + 1]} : p2[x] = prevCommand[x]
    BY <1>12, <1>13, <2>1
  <2>3. Joined(t, n2, p2)
    BY <1>4, <1>8, <1>14, <1>15, <2>2, InsertedJoined
  <2> QED
    BY <2>1, <2>3
<1>17. Rising(t, new) /\ Lists(t, Live \cup {e})
  BY <1>4, <1>8, <1>14, <1>15, InsertedRises
<1>18. /\ commandName' \in Seq(CommandNames) /\ Len(commandName') = Len(commandName) + 1 /\ commandName'[e] = name
       /\ \A i \in 1..Len(commandName) : commandName'[i] = commandName[i]
  <2>1. commandName \in Seq(CommandNames)
    BY DEF HandlerInv, HandlerTypeOK
  <2> QED
    BY <1>3, <1>6, <2>1
<1>19. /\ name2command \in [CommandNames -> 0..Len(commandName)]
       /\ name2command'[name] = e /\ \A n \in CommandNames \ {name} : name2command'[n] = name2command[n]
  BY <1>6 DEF HandlerInv, HandlerTypeOK
<1>20. name2command' \in [CommandNames -> 0..Len(commandName')]
  <2>1. e \in 0..Len(commandName') /\ 0..Len(commandName) \subseteq 0..Len(commandName')
    BY <1>2, <1>3, <1>18
  <2> QED
    BY <1>6, <1>19, <2>1
<1>21. Live' = Live \cup {e} /\ Known' = Known \cup {e} /\ (1..Len(commandName))' = 1..Len(commandName) \cup {e}
  <2>1. Live' = Live \cup {e}
    <3>1. HeadCommand' = HeadCommand /\ TailCommand' = TailCommand
      BY DEF HeadCommand, TailCommand
    <3>2. ASSUME NEW x \in Live' PROVE x \in Live \cup {e}
      BY <1>19, <3>1 DEF Live
    <3>3. ASSUME NEW x \in Live PROVE x \in Live'
      <4>1. CASE x = HeadCommand \/ x = TailCommand
        BY <3>1, <4>1 DEF Live
      <4>2. ASSUME NEW n \in CommandNames, x = name2command[n], x # HeadCommand PROVE x \in Live'
        <5>1. n # name
          BY <1>2, <1>6, <4>2
        <5> QED
          BY <1>19, <4>2, <5>1 DEF Live
      <4> QED
        BY <4>1, <4>2 DEF Live
    <3>4. e \in Live'
      BY <1>19 DEF Live
    <3> QED
      BY <3>2, <3>3, <3>4
  <2>2. 1..Len(commandName') = 1..Len(commandName) \cup {e}
    BY <1>2, <1>3, <1>18
  <2> QED
    BY <2>1, <2>2 DEF Known, HeadCommand, TailCommand
<1>22. HandlerTypeOK'
  <2>1. Len(commandName') \in 0..MaxCommands
    BY <1>2, <1>3, <1>4, <1>18
  <2>2. ASSUME NEW n \in CommandNames, name2command'[n] # 0 PROVE commandName'[name2command'[n]] = n
    <3>1. CASE n = name
      BY <1>18, <1>19, <3>1
    <3>2. CASE n # name
      <4>1. name2command'[n] = name2command[n] /\ name2command[n] \in 0..Len(commandName) /\ name2command[n] # 0
        BY <1>19, <2>2, <3>2
      <4>2. name2command[n] \in 1..Len(commandName) /\ commandName[name2command[n]] = n
        BY SMTT(30), <1>2, <4>1 DEF HandlerInv, HandlerTypeOK
      <4> QED
        BY <1>18, <4>1, <4>2
    <3> QED
      BY <3>1, <3>2
  <2>3. deleted' \subseteq 1..Len(commandName') /\ unlinked' \in 0..Len(commandName')
    <3>1. deleted \subseteq 1..Len(commandName)
      BY DEF HandlerInv, HandlerTypeOK
    <3>2. 0 \in 0..Len(commandName')
      BY <1>2, <1>18
    <3> QED
      BY <1>6, <1>21, <3>1, <3>2
  <2>4. execution' \in [Executions -> Walks] /\ mustSee' \in [Executions -> SUBSET Entries]
    BY <1>6 DEF HandlerInv, HandlerTypeOK
  <2> QED
    BY <1>12, <1>13, <1>18, <1>20, <2>1, <2>2, <2>3, <2>4 DEF HandlerTypeOK
<1>23. StoreInv'
  <2>1. \A x \in Known \cup {e} : x \in Live \cup {e} \/ x \in deleted \/ x = unlinked
    BY DEF HandlerInv, StoreInv
  <2>2. e \notin deleted
    BY <1>4 DEF HandlerInv, HandlerTypeOK
  <2>3. (Live \cup {e}) \cap deleted = {}
    BY <2>2 DEF HandlerInv, StoreInv
  <2> QED
    BY <1>6, <1>21, <2>1, <2>3 DEF StoreInv
<1>24. new \in Ranks /\ \A x, y \in Known : rank[x] < rank[y] => new[x] < new[y]
  <2>1. new \in Ranks /\ \A x, y \in Entries \ {e} : new[x] < new[y] <=> rank[x] < rank[y]
    BY <1>4, <1>9, <1>10, <1>15, ShiftedKeeps
  <2>2. Known \subseteq Entries \ {e}
    BY <1>2, <1>4
  <2> QED
    BY <2>1, <2>2
<1>25. WalksInv(new)'
  <2> SUFFICES ASSUME NEW x \in Executions
               PROVE  IF execution[x] = Outside THEN mustSee[x] = {} ELSE WalkOK(execution[x], mustSee[x], new, Live', Known')
    BY <1>6, Zenon DEF WalksInv, Outside
  <2>1. CASE execution[x] = Outside
    BY <1>1, <2>1 DEF WalksInv
  <2>2. CASE execution[x] # Outside
    <3>1. WalkOK(execution[x], mustSee[x], rank, Live, Known)
      BY <1>1, <2>2 DEF WalksInv
    <3>2. PICK r, must, k2, l2 : r = execution[x] /\ must = mustSee[x] /\ k2 = Known \cup {e} /\ l2 = Live \cup {e}
      OBVIOUS
    <3>3. must \subseteq Live
      BY <3>1, <3>2 DEF WalkOK
    <3>4. Known \in SUBSET Entries /\ k2 \in SUBSET Entries /\ Known \subseteq k2 /\ Live \subseteq Known
          /\ TailCommand \in Known /\ OuterChain \notin Known /\ must \subseteq l2
      BY <1>2, <1>4, <3>2, <3>3
    <3>5. WalkOK(r, must, new, l2, k2)
      BY <1>24, <3>1, <3>2, <3>4, WalkKept
    <3> QED
      BY <1>21, <2>2, <3>2, <3>5
  <2> QED
    BY <2>1, <2>2
<1>26. UnlinkedInv(t, new)'
  BY <1>6 DEF UnlinkedInv
<1>27. ChainInv(t, new)'
  BY <1>16, <1>17, <1>21 DEF ChainInv
<1>28. t \in Seq(Entries)
  BY <1>16 DEF Joined
<1> QED
  BY <1>22, <1>23, <1>24, <1>25, <1>26, <1>27, <1>28 DEF HandlerInv

\* A command that is removed leaves the links and the store; what is on its way
\* in it still finds the next one.
LEMMA RemoveCommandStep ==
  ASSUME HandlerInv, NEW name \in CommandNames, RemoveCommand(name)
  PROVE  HandlerInv'
<1>1. PICK s \in Seq(Entries), rank \in Ranks : ChainInv(s, rank) /\ UnlinkedInv(s, rank) /\ WalksInv(rank)
  BY DEF HandlerInv
<1>2. /\ MaxCommands \in Nat /\ Len(commandName) \in Nat /\ Len(commandName) <= MaxCommands
      /\ HeadCommand = 0 /\ TailCommand = MaxCommands + 1 /\ OuterChain = MaxCommands + 2
      /\ Entries = 0..(MaxCommands + 1) /\ Known \subseteq Entries /\ Live \subseteq Known
      /\ HeadCommand \in Live /\ TailCommand \in Live /\ OuterChain \notin Entries /\ TailCommand \notin 1..Len(commandName)
  BY EntriesAre DEF HandlerInv
<1>3. PICK e : e = name2command[name]
  OBVIOUS
<1>4. /\ unlinked = 0 /\ e # 0 /\ Deregister(e) /\ unlinked' = e
      /\ mustSee' = [x \in Executions |-> mustSee[x] \ {e}]
      /\ UNCHANGED <<commandName, deleted, execution>>
  BY <1>3 DEF RemoveCommand, Monitor
<1>5. e \in 1..Len(commandName) /\ e # HeadCommand /\ e # TailCommand /\ e \in Live /\ e \in Known /\ commandName[e] = name
  <2>1. e \in 0..Len(commandName) /\ commandName[e] = name
    BY <1>3, <1>4 DEF HandlerInv, HandlerTypeOK
  <2>2. e \in 1..Len(commandName)
    BY <1>2, <1>4, <2>1
  <2>3. e \in Live
    BY <1>3 DEF Live
  <2> QED
    BY <1>2, <2>1, <2>2, <2>3
<1>6. /\ s[1] = HeadCommand /\ s[Len(s)] = TailCommand /\ Len(s) >= 2 /\ Len(s) \in Nat
      /\ \A i \in 1..(Len(s) - 1) : nextCommand[s[i]] = s[i + 1] /\ prevCommand[s[i + 1]] = s[i]
      /\ \A i \in 1..Len(s) : s[i] \in Live
      /\ Joined(s, nextCommand, prevCommand) /\ Rising(s, rank) /\ Lists(s, Live)
  <2>1. s[1] = HeadCommand /\ s[Len(s)] = TailCommand /\ Len(s) >= 2
        /\ \A i \in 1..(Len(s) - 1) : nextCommand[s[i]] = s[i + 1] /\ prevCommand[s[i + 1]] = s[i]
    BY <1>1 DEF ChainInv, Joined
  <2>2. Joined(s, nextCommand, prevCommand) /\ Rising(s, rank) /\ Lists(s, Live)
    BY <1>1 DEF ChainInv
  <2>3. Len(s) \in Nat
    OBVIOUS
  <2> QED
    BY <2>1, <2>2, <2>3 DEF Lists
<1>7. PICK k \in 2..(Len(s) - 1) : s[k] = e
  <2>1. PICK k \in 1..Len(s) : s[k] = e
    BY <1>5, <1>6 DEF Lists
  <2>2. k # Len(s) /\ k # 1
    BY <1>5, <1>6, <2>1
  <2>3. k \in 2..(Len(s) - 1)
    BY <1>6, <2>2
  <2> QED
    BY <2>1, <2>3
<1>8. /\ k \in 1..Len(s) /\ k + 1 \in 1..Len(s) /\ k - 1 \in 1..Len(s) /\ k - 1 \in 1..(Len(s) - 1) /\ k \in 1..(Len(s) - 1)
      /\ (k - 1) + 1 = k /\ k - 1 < k /\ k < k + 1
  BY <1>6, <1>7
<1>9. /\ nextCommand[e] = s[k + 1] /\ prevCommand[e] = s[k - 1]
      /\ s[k - 1] \in Entries /\ s[k + 1] \in Entries /\ e \in Entries /\ s[k - 1] # e
  <2>1. nextCommand[e] = s[k + 1]
    BY <1>6, <1>7, <1>8
  <2>2. prevCommand[e] = s[k - 1]
    <3>1. prevCommand[s[(k - 1) + 1]] = s[k - 1]
      BY <1>6, <1>8
    <3> QED
      BY <1>7, <1>8, <3>1
  <2>3. \A i, j \in 1..Len(s) : s[i] = s[j] => i = j
    BY <1>6, RisingOnce
  <2>4. k - 1 # k
    BY <1>8
  <2>5. s[k - 1] # s[k]
    BY <1>8, <2>3, <2>4
  <2> QED
    BY <1>2, <1>5, <1>6, <1>7, <1>8, <2>1, <2>2, <2>5
<1>10. nextCommand \in [Entries -> Entries] /\ prevCommand \in [Entries -> Entries]
  BY DEF HandlerInv, HandlerTypeOK
<1>11. /\ nextCommand' \in [Entries -> Entries] /\ nextCommand'[s[k - 1]] = s[k + 1]
       /\ \A x \in Entries \ {s[k - 1]} : nextCommand'[x] = nextCommand[x]
  <2>1. nextCommand' = [nextCommand EXCEPT ![s[k - 1]] = s[k + 1]]
    BY <1>4, <1>9 DEF Deregister
  <2> QED
    BY <1>9, <1>10, <2>1
<1>12. /\ prevCommand' \in [Entries -> Entries] /\ prevCommand'[s[k + 1]] = s[k - 1]
       /\ \A x \in Entries \ {s[k + 1]} : prevCommand'[x] = prevCommand[x]
  <2>1. prevCommand' = [prevCommand EXCEPT ![s[k + 1]] = s[k - 1]]
    BY <1>4, <1>9 DEF Deregister
  <2> QED
    BY <1>9, <1>10, <2>1
<1>13. PICK t : t = Without(s, k)
  OBVIOUS
<1>14. Joined(t, nextCommand', prevCommand') /\ Rising(t, rank) /\ Lists(t, Live \ {e})
  <2>1. PICK n2, p2 : n2 = nextCommand' /\ p2 = prevCommand'
    OBVIOUS
  <2>2. /\ n2[s[k - 1]] = s[k + 1] /\ \A x \in Entries \ {s[k - 1]} : n2[x] = nextCommand[x]
        /\ p2[s[k + 1]] = s[k - 1] /\ \A x \in Entries \ {s[k + 1]} : p2[x] = prevCommand[x]
    BY <1>11, <1>12, <2>1
  <2>3. Joined(t, n2, p2) /\ Rising(t, rank) /\ Lists(t, Live \ {s[k]})
    BY <1>6, <1>13, <2>2, WithoutJoined
  <2> QED
    BY <1>7, <2>1, <2>3
<1>15. /\ t \in Seq(Entries) /\ Len(t) = Len(s) - 1
       /\ \A i \in 1..(k - 1) : t[i] = s[i]
       /\ \A i \in k..(Len(s) - 1) : t[i] = s[i + 1]
  BY <1>13, WithoutIn
<1>16. name2command' = [name2command EXCEPT ![name] = 0]
  BY <1>4, <1>5 DEF Deregister
<1>17. /\ name2command \in [CommandNames -> 0..Len(commandName)] /\ name2command'[name] = 0
       /\ \A n \in CommandNames \ {name} : name2command'[n] = name2command[n]
  BY <1>16 DEF HandlerInv, HandlerTypeOK
<1>18. Live' = Live \ {e} /\ Known' = Known
  <2>0. HeadCommand' = HeadCommand /\ TailCommand' = TailCommand /\ commandName' = commandName
    BY <1>4 DEF HeadCommand, TailCommand
  <2>1. ASSUME NEW n \in CommandNames, n # name PROVE name2command[n] # e
    <3>1. name2command[n] = e => commandName[e] = n
      BY <1>4 DEF HandlerInv, HandlerTypeOK
    <3> QED
      BY <1>5, <2>1, <3>1
  <2>2. ASSUME NEW x \in Live' PROVE x \in Live \ {e}
    <3>1. CASE x = HeadCommand \/ x = TailCommand
      BY <1>2, <1>5, <3>1
    <3>2. ASSUME NEW n \in CommandNames, x = name2command'[n] PROVE x \in Live \ {e}
      <4>1. CASE n = name
        BY <1>2, <1>5, <1>17, <3>2, <4>1
      <4>2. CASE n # name
        BY <1>17, <2>1, <3>2, <4>2 DEF Live
      <4> QED
        BY <4>1, <4>2
    <3> QED
      BY <2>0, <3>1, <3>2 DEF Live
  <2>3. ASSUME NEW x \in Live \ {e} PROVE x \in Live'
    <3>1. CASE x = HeadCommand \/ x = TailCommand
      BY <2>0, <3>1 DEF Live
    <3>2. ASSUME NEW n \in CommandNames, x = name2command[n] PROVE x \in Live'
      <4>1. n # name
        BY <1>3, <2>3, <3>2
      <4> QED
        BY <1>17, <3>2, <4>1 DEF Live
    <3> QED
      BY <3>1, <3>2 DEF Live
  <2>4. Known' = Known
    BY <2>0 DEF Known
  <2> QED
    BY <2>2, <2>3, <2>4
<1>19. HandlerTypeOK'
  <2>1. name2command' \in [CommandNames -> 0..Len(commandName')]
    <3>1. 0 \in 0..Len(commandName)
      BY <1>2
    <3> QED
      BY <1>4, <1>16, <1>17, <3>1
  <2>2. ASSUME NEW n \in CommandNames, name2command'[n] # 0 PROVE commandName'[name2command'[n]] = n
    <3>1. n # name /\ name2command'[n] = name2command[n]
      BY <1>17, <2>2
    <3> QED
      BY <1>4, <2>2, <3>1 DEF HandlerInv, HandlerTypeOK
  <2>3. unlinked' \in 0..Len(commandName')
    BY <1>2, <1>4, <1>5
  <2>4. mustSee' \in [Executions -> SUBSET Entries]
    BY <1>4 DEF HandlerInv, HandlerTypeOK
  <2> QED
    BY <1>4, <1>11, <1>12, <2>1, <2>2, <2>3, <2>4 DEF HandlerInv, HandlerTypeOK
<1>20. StoreInv'
  <2>1. e \notin deleted /\ (Live \ {e}) \cap deleted = {}
    BY <1>5 DEF HandlerInv, StoreInv
  <2>2. \A x \in Known : x \in Live \ {e} \/ x \in deleted \/ x = e
    <3>1. \A x \in Known : x \in Live \/ x \in deleted \/ x = 0
      BY <1>4 DEF HandlerInv, StoreInv
    <3>2. 0 \in Live \ {e}
      BY <1>2, <1>5
    <3> QED
      BY <3>1, <3>2
  <2> QED
    BY <1>4, <1>18, <2>1, <2>2 DEF StoreInv
<1>21. WalksInv(rank)'
  <2> SUFFICES ASSUME NEW x \in Executions
               PROVE  IF execution[x] = Outside THEN mustSee'[x] = {} ELSE WalkOK(execution[x], mustSee'[x], rank, Live', Known')
    BY <1>4, Zenon DEF WalksInv, Outside
  <2>0. mustSee'[x] = mustSee[x] \ {e}
    BY <1>4
  <2>1. CASE execution[x] = Outside
    BY <1>1, <2>0, <2>1 DEF WalksInv
  <2>2. CASE execution[x] # Outside
    <3>1. WalkOK(execution[x], mustSee[x], rank, Live, Known)
      BY <1>1, <2>2 DEF WalksInv
    <3>2. PICK r, must, m2, l2 : r = execution[x] /\ must = mustSee[x] /\ m2 = mustSee[x] \ {e} /\ l2 = Live \ {e}
      OBVIOUS
    <3>3. must \subseteq Live
      BY <3>1, <3>2 DEF WalkOK
    <3>4. Known \in SUBSET Entries /\ Known \subseteq Known /\ Live \subseteq Known
          /\ TailCommand \in Known /\ OuterChain \notin Known /\ m2 \subseteq must /\ m2 \subseteq l2
      BY <1>2, <3>2, <3>3
    <3>5. \A y, z \in Known : rank[y] < rank[z] => rank[y] < rank[z]
      OBVIOUS
    <3>6. WalkOK(r, m2, rank, l2, Known)
      BY <3>1, <3>2, <3>4, <3>5, WalkKept
    <3> QED
      BY <1>18, <2>0, <2>2, <3>2, <3>6
  <2> QED
    BY <2>1, <2>2
<1>22. UnlinkedInv(t, rank)'
  <2>1. k - 1 \in 1..(Len(t) - 1) /\ k - 1 \in 1..(k - 1) /\ k \in k..(Len(s) - 1)
    <3>1. PICK n \in Nat, m \in Nat : n = Len(s) /\ m = k
      BY <1>6, <1>7
    <3>2. m >= 2 /\ m <= n - 1 /\ Len(t) = n - 1
      BY <1>7, <1>15, <3>1
    <3>3. m - 1 \in 1..((n - 1) - 1) /\ m - 1 \in 1..(m - 1) /\ m \in m..(n - 1)
      BY <3>1, <3>2
    <3> QED
      BY <3>1, <3>2, <3>3
  <2>2. t[k - 1] = s[k - 1] /\ t[(k - 1) + 1] = s[k + 1]
    BY <1>8, <1>15, <2>1
  <2>3. rank[s[k - 1]] < rank[s[k]] /\ rank[s[k]] < rank[s[k + 1]]
    BY <1>6, <1>8 DEF Rising
  <2>4. nextCommand'[e] = s[k + 1]
    BY <1>9, <1>11
  <2> QED
    BY <1>4, <1>7, <2>1, <2>2, <2>3, <2>4 DEF UnlinkedInv
<1>23. ChainInv(t, rank)'
  BY <1>14, <1>18 DEF ChainInv
<1> QED
  BY <1>15, <1>19, <1>20, <1>21, <1>22, <1>23 DEF HandlerInv

\* What is unlinked is freed: it is in the store as one that is freed.
LEMMA FreeCommandStep ==
  ASSUME HandlerInv, FreeCommand
  PROVE  HandlerInv'
<1>1. PICK s \in Seq(Entries), rank \in Ranks : ChainInv(s, rank) /\ UnlinkedInv(s, rank) /\ WalksInv(rank)
  BY DEF HandlerInv
<1>2. unlinked # 0 /\ deleted' = deleted \cup {unlinked} /\ unlinked' = 0
      /\ UNCHANGED <<commandName, nextCommand, prevCommand, name2command, execution, mustSee>>
  BY DEF FreeCommand, Monitor
<1>3. Live' = Live /\ Known' = Known
  BY <1>2 DEF Live, Known, HeadCommand, TailCommand
<1>4. unlinked \in 1..Len(commandName) /\ 0 \in 0..Len(commandName)
  <2>1. unlinked \in 0..Len(commandName) /\ Len(commandName) \in Nat
    BY EntriesAre DEF HandlerInv, HandlerTypeOK
  <2> QED
    BY <1>2, <2>1
<1>5. HandlerTypeOK'
  BY <1>2, <1>4 DEF HandlerInv, HandlerTypeOK
<1>6. StoreInv'
  BY <1>2, <1>3 DEF HandlerInv, StoreInv
<1>7. ChainInv(s, rank)' /\ UnlinkedInv(s, rank)'
  BY <1>1, <1>2, <1>3 DEF ChainInv, UnlinkedInv
<1>8. WalksInv(rank)'
  BY <1>1, <1>2, <1>3 DEF WalksInv, Outside
<1> QED
  BY <1>1, <1>5, <1>6, <1>7, <1>8 DEF HandlerInv

\* A step of one execution leaves the chain, and the other executions.
LEMMA ExecutionStep ==
  ASSUME HandlerInv, NEW x \in Executions, NEW r \in Walks, NEW must \in SUBSET Entries,
         UNCHANGED <<commandName, nextCommand, prevCommand, name2command, deleted, unlinked>>,
         execution' = [execution EXCEPT ![x] = r], mustSee' = [mustSee EXCEPT ![x] = must],
         \A s \in Seq(Entries), rank \in Ranks :
           ChainInv(s, rank) /\ UnlinkedInv(s, rank) /\ WalksInv(rank) =>
             IF r = Outside THEN must = {} ELSE WalkOK(r, must, rank, Live, Known)
  PROVE  HandlerInv'
<1>1. PICK s \in Seq(Entries), rank \in Ranks : ChainInv(s, rank) /\ UnlinkedInv(s, rank) /\ WalksInv(rank)
  BY DEF HandlerInv
<1>2. Live' = Live /\ Known' = Known
  BY DEF Live, Known, HeadCommand, TailCommand
<1>3. execution \in [Executions -> Walks] /\ mustSee \in [Executions -> SUBSET Entries]
  BY DEF HandlerInv, HandlerTypeOK
<1>4. /\ execution' \in [Executions -> Walks] /\ mustSee' \in [Executions -> SUBSET Entries]
      /\ execution'[x] = r /\ mustSee'[x] = must
      /\ \A y \in Executions \ {x} : execution'[y] = execution[y] /\ mustSee'[y] = mustSee[y]
  BY <1>3
<1>5. HandlerTypeOK'
  BY <1>4 DEF HandlerInv, HandlerTypeOK
<1>6. StoreInv'
  BY <1>2 DEF HandlerInv, StoreInv
<1>7. ChainInv(s, rank)' /\ UnlinkedInv(s, rank)'
  BY <1>1, <1>2 DEF ChainInv, UnlinkedInv
<1>8. WalksInv(rank)'
  <2> SUFFICES ASSUME NEW y \in Executions
               PROVE  IF execution'[y] = Outside THEN mustSee'[y] = {} ELSE WalkOK(execution'[y], mustSee'[y], rank, Live', Known')
    BY Zenon DEF WalksInv, Outside
  <2>1. CASE y = x
    BY <1>1, <1>2, <1>4, <2>1
  <2>2. CASE y # x
    <3>1. execution'[y] = execution[y] /\ mustSee'[y] = mustSee[y]
      BY <1>4, <2>2
    <3>2. IF execution[y] = Outside THEN mustSee[y] = {} ELSE WalkOK(execution[y], mustSee[y], rank, Live, Known)
      BY <1>1 DEF WalksInv
    <3> QED
      BY <1>2, <3>1, <3>2
  <2> QED
    BY <2>1, <2>2
<1> QED
  BY <1>1, <1>5, <1>6, <1>7, <1>8 DEF HandlerInv

\* Where an execution is not outside, it has the invariant of an execution.
LEMMA WalkIs ==
  ASSUME HandlerInv, NEW x \in Executions, execution[x].at # -1, NEW rank, WalksInv(rank)
  PROVE  /\ WalkOK(execution[x], mustSee[x], rank, Live, Known)
         /\ execution[x] \in Walks /\ mustSee[x] \in SUBSET Entries
<1>1. execution[x] # Outside
  BY DEF Outside
<1> QED
  BY <1>1 DEF WalksInv, HandlerInv, HandlerTypeOK

\* An execution begins at the head, and must see what is in the chain.
LEMMA ExecuteStep ==
  ASSUME HandlerInv, NEW x \in Executions, Execute(x)
  PROVE  HandlerInv'
<1>1. PICK nested \in BOOLEAN : execution' = [execution EXCEPT ![x] = [at |-> HeadCommand, nested |-> nested, seen |-> <<>>]]
  BY DEF Execute
<1>2. PICK r : r = [at |-> HeadCommand, nested |-> nested, seen |-> <<>>]
  OBVIOUS
<1>3. PICK must : must = CommandsInChain
  OBVIOUS
<1>4. Known \subseteq Entries /\ Live \subseteq Known /\ HeadCommand \in Live /\ TailCommand \in Live
      /\ HeadCommand = 0 /\ OuterChain \notin Entries
  BY EntriesAre DEF HandlerInv
<1>5. r.at = HeadCommand /\ r.seen = <<>> /\ r \in Walks
  <2>1. HeadCommand \in Int /\ <<>> \in Seq(Entries)
    BY <1>4
  <2> QED
    BY <1>2, <2>1 DEF Walks
<1>6. ASSUME NEW s \in Seq(Entries), NEW rank \in Ranks, ChainInv(s, rank)
      PROVE  must = Live \ {HeadCommand, TailCommand} /\ WalkOK(r, must, rank, Live, Known)
  <2>1. must = Live \ {HeadCommand, TailCommand}
    BY <1>3, <1>6, CommandsAre DEF HandlerInv
  <2>2. Place(r) = HeadCommand
    BY <1>4, <1>5 DEF Place
  <2>3. ASSUME NEW m \in must PROVE rank[HeadCommand] < rank[m]
    <3>1. s[1] = HeadCommand /\ Rising(s, rank) /\ Lists(s, Live) /\ Len(s) >= 2
      BY <1>6 DEF ChainInv, Joined
    <3>2. PICK i \in 1..Len(s) : s[i] = m
      BY <2>1, <2>3, <3>1 DEF Lists
    <3>3. i # 1
      BY <2>1, <2>3, <3>1, <3>2
    <3>4. 1 \in 1..Len(s) /\ 1 < i
      BY <3>1, <3>2, <3>3
    <3> QED
      BY <3>1, <3>2, <3>4 DEF Rising
  <2>4. Rising(r.seen, rank) /\ r.seen \in Seq(Known)
    BY <1>5 DEF Rising
  <2> QED
    BY <1>4, <1>5, <2>1, <2>2, <2>3, <2>4 DEF WalkOK
<1>7. r # Outside
  BY <1>4, <1>5 DEF Outside
<1>8. must \in SUBSET Entries
  <2>1. \E s \in Seq(Entries), rank \in Ranks : ChainInv(s, rank)
    BY DEF HandlerInv
  <2> QED
    BY <1>4, <1>6, <2>1
<1>9. /\ UNCHANGED <<commandName, nextCommand, prevCommand, name2command, deleted, unlinked>>
      /\ execution' = [execution EXCEPT ![x] = r] /\ mustSee' = [mustSee EXCEPT ![x] = must]
  BY <1>1, <1>2, <1>3 DEF Execute
<1> QED
  BY <1>5, <1>6, <1>7, <1>8, <1>9, ExecutionStep

\* The next command of an execution has the next rank of all that are in the chain.
LEMMA NextRank ==
  ASSUME HandlerInv, NEW s \in Seq(Entries), NEW rank \in Ranks, ChainInv(s, rank), UnlinkedInv(s, rank),
         NEW e \in Known, e # TailCommand, e \notin deleted
  PROVE  /\ nextCommand[e] \in Live /\ nextCommand[e] # HeadCommand /\ rank[e] < rank[nextCommand[e]]
         /\ \A m \in Live : rank[e] < rank[m] => m = nextCommand[e] \/ rank[nextCommand[e]] < rank[m]
<1>1. /\ s[1] = HeadCommand /\ s[Len(s)] = TailCommand /\ Len(s) >= 2 /\ Len(s) \in Nat
      /\ \A i \in 1..(Len(s) - 1) : nextCommand[s[i]] = s[i + 1]
      /\ Rising(s, rank) /\ Lists(s, Live)
  <2>1. Joined(s, nextCommand, prevCommand) /\ Rising(s, rank) /\ Lists(s, Live)
    BY DEF ChainInv
  <2> QED
    BY <2>1 DEF Joined
<1>2. \A i \in 1..Len(s) : rank[s[i]] \in Nat
  BY DEF Ranks
<1>3. e \in Live \/ e = unlinked
  BY DEF HandlerInv, StoreInv
<1>4. Known \subseteq Entries /\ Live \subseteq Known /\ HeadCommand = 0 /\ HeadCommand \in Live
  BY EntriesAre DEF HandlerInv
<1>5. \A x \in Entries : rank[x] \in Nat
  BY DEF Ranks
<1>6. PICK k \in 1..(Len(s) - 1) : nextCommand[e] = s[k + 1] /\ rank[s[k]] <= rank[e] /\ rank[e] < rank[s[k + 1]]
  <2>1. CASE e \in Live
    <3>1. PICK k \in 1..Len(s) : s[k] = e
      BY <1>1, <2>1 DEF Lists
    <3>2. k # Len(s)
      BY <1>1, <3>1
    <3>3. k \in 1..(Len(s) - 1) /\ k + 1 \in 1..Len(s) /\ k < k + 1
      BY <1>1, <3>2
    <3>4. nextCommand[e] = s[k + 1] /\ rank[e] < rank[s[k + 1]]
      BY <1>1, <3>1, <3>3 DEF Rising
    <3>5. rank[s[k]] <= rank[e]
      BY <1>2, <3>1
    <3> QED
      BY <3>3, <3>4, <3>5
  <2>2. CASE e \notin Live
    <3>1. e = unlinked /\ unlinked # 0
      BY <1>3, <1>4, <2>2
    <3>2. PICK k \in 1..(Len(s) - 1) : nextCommand[e] = s[k + 1] /\ rank[s[k]] < rank[e] /\ rank[e] < rank[s[k + 1]]
      BY <3>1 DEF UnlinkedInv
    <3>3. k \in 1..Len(s) /\ rank[e] \in Nat /\ rank[s[k]] \in Nat
      BY <1>1, <1>2, <1>4, <1>5
    <3> QED
      BY <3>2, <3>3
  <2> QED
    BY <2>1, <2>2
<1>7. k \in 1..Len(s) /\ k + 1 \in 1..Len(s) /\ 1 \in 1..Len(s) /\ 1 < k + 1
  BY <1>1
<1>8. nextCommand[e] \in Live
  BY <1>1, <1>6, <1>7 DEF Lists
<1>9. nextCommand[e] # HeadCommand
  <2>1. rank[s[1]] < rank[s[k + 1]]
    BY <1>1, <1>7 DEF Rising
  <2>2. rank[s[1]] # rank[s[k + 1]]
    BY <1>2, <1>7, <2>1
  <2> QED
    BY <1>1, <1>6, <2>2
<1>10. ASSUME NEW m \in Live, rank[e] < rank[m] PROVE m = nextCommand[e] \/ rank[nextCommand[e]] < rank[m]
  <2>1. PICK j \in 1..Len(s) : s[j] = m
    BY <1>1 DEF Lists
  <2>2. CASE j <= k
    <3>1. j = k \/ rank[s[j]] < rank[s[k]]
      BY <1>1, <1>7, <2>2 DEF Rising
    <3>2. rank[s[j]] <= rank[s[k]] /\ rank[e] \in Nat
      BY <1>2, <1>4, <1>5, <1>7, <3>1
    <3> QED
      BY <1>2, <1>6, <1>7, <1>10, <2>1, <3>2
  <2>3. CASE j = k + 1
    BY <1>6, <2>1, <2>3
  <2>4. CASE k + 1 < j
    BY <1>1, <1>6, <1>7, <2>1, <2>4 DEF Rising
  <2> QED
    BY <1>7, <2>2, <2>3, <2>4
<1> QED
  BY <1>6, <1>8, <1>9, <1>10

\* An execution goes on to the next command: its ranks go on rising, and nothing
\* that it must see lies between.
LEMMA CallNextCommandStep ==
  ASSUME HandlerInv, NEW x \in Executions, CallNextCommand(x)
  PROVE  HandlerInv'
<1>1. Known \subseteq Entries /\ Live \subseteq Known /\ HeadCommand = 0 /\ OuterChain \notin Entries /\ -1 \notin Entries /\ Entries \subseteq Int
  BY EntriesAre DEF HandlerInv
<1>2. execution[x].at \in Entries \ {TailCommand} /\ execution[x].at \notin deleted
  BY DEF CallNextCommand, Inside
<1>3. execution[x].at # -1
  BY <1>1, <1>2
<1>4. execution[x] \in Walks /\ mustSee[x] \in SUBSET Entries
  BY DEF HandlerInv, HandlerTypeOK
<1>5. PICK a, q, must, e : a = execution[x].at /\ q = execution[x].seen /\ must = mustSee[x] /\ e = nextCommand[a]
  OBVIOUS
<1>6. PICK r : r = [execution[x] EXCEPT !.at = e, !.seen = Append(@, e)]
  OBVIOUS
<1>7. a \in Entries /\ a # TailCommand /\ a \notin deleted /\ a # OuterChain /\ q \in Seq(Entries) /\ Len(q) \in Nat
  BY <1>1, <1>2, <1>4, <1>5 DEF Walks
<1>8. e \in Entries
  BY <1>5, <1>7 DEF HandlerInv, HandlerTypeOK
<1>9. r.at = e /\ r.seen = Append(q, e) /\ r \in Walks
  <2>1. Append(q, e) \in Seq(Entries) /\ e \in Int
    BY <1>1, <1>7, <1>8
  <2>2. r = [at |-> e, nested |-> execution[x].nested, seen |-> Append(q, e)]
    BY <1>4, <1>5, <1>6 DEF Walks
  <2>3. execution[x].nested \in BOOLEAN
    BY <1>4 DEF Walks
  <2> QED
    BY <2>1, <2>2, <2>3 DEF Walks
<1>10. ASSUME NEW s \in Seq(Entries), NEW rank \in Ranks, ChainInv(s, rank), UnlinkedInv(s, rank), WalksInv(rank)
       PROVE  WalkOK(r, must, rank, Live, Known)
  <2>1. WalkOK(execution[x], must, rank, Live, Known)
    BY <1>3, <1>5, <1>10, WalkIs
  <2>2. /\ a \in Known /\ q \in Seq(Known) /\ Rising(q, rank)
        /\ q # <<>> => q[Len(q)] = a
        /\ must \subseteq Live \ {HeadCommand, TailCommand}
        /\ \A m \in must : (\E i \in 1..Len(q) : q[i] = m) \/ rank[a] < rank[m]
    BY <1>5, <1>7, <2>1 DEF WalkOK, Place
  <2>3. /\ e \in Live /\ e # HeadCommand /\ rank[a] < rank[e]
        /\ \A m \in Live : rank[a] < rank[m] => m = e \/ rank[e] < rank[m]
    BY <1>5, <1>7, <1>10, <2>2, NextRank
  <2>4. PICK p : p = Append(q, e)
    OBVIOUS
  <2>5. /\ p \in Seq(Known) /\ Len(p) = Len(q) + 1 /\ p[Len(q) + 1] = e /\ \A i \in 1..Len(q) : p[i] = q[i]
    BY <1>1, <1>7, <2>2, <2>3, <2>4, AppendProperties
  <2>6. \A y \in Known : rank[y] \in Nat
    BY <1>1 DEF Ranks
  <2>7. Rising(p, rank)
    <3> SUFFICES ASSUME NEW i \in 1..Len(p), NEW j \in 1..Len(p), i < j PROVE rank[p[i]] < rank[p[j]]
      BY DEF Rising
    <3>1. i \in 1..Len(q)
      BY <1>7, <2>5
    <3>2. CASE j \in 1..Len(q)
      BY <2>2, <2>5, <3>1, <3>2 DEF Rising
    <3>3. CASE j = Len(q) + 1
      <4>1. q # <<>> /\ Len(q) \in 1..Len(q)
        BY <1>7, <3>1
      <4>2. i = Len(q) \/ rank[q[i]] < rank[q[Len(q)]]
        BY <1>7, <2>2, <3>1, <4>1 DEF Rising
      <4>3. rank[q[i]] <= rank[a] /\ q[i] \in Known
        <5>1. q[i] \in Known
          BY <2>2, <3>1
        <5> QED
          BY <2>2, <2>6, <4>1, <4>2, <5>1
      <4>4. rank[q[i]] < rank[e]
        <5>1. rank[q[i]] \in Nat /\ rank[a] \in Nat /\ rank[e] \in Nat
          BY <1>1, <2>2, <2>3, <2>6, <4>3
        <5> QED
          BY <2>3, <4>3, <5>1
      <4> QED
        BY <2>5, <3>1, <3>3, <4>4
    <3> QED
      BY <1>7, <2>5, <3>2, <3>3
  <2>8. p # <<>> /\ p[Len(p)] = e /\ Place(r) = e
    BY <1>1, <1>7, <1>8, <1>9, <2>5 DEF Place
  <2>9. ASSUME NEW m \in must PROVE (\E i \in 1..Len(p) : p[i] = m) \/ rank[e] < rank[m]
    <3>1. Len(q) + 1 \in 1..Len(p) /\ 1..Len(q) \subseteq 1..Len(p)
      BY <1>7, <2>5
    <3>2. CASE \E i \in 1..Len(q) : q[i] = m
      BY <2>5, <3>1, <3>2
    <3>3. CASE rank[a] < rank[m]
      <4>1. m = e \/ rank[e] < rank[m]
        BY <2>2, <2>3, <3>3
      <4> QED
        BY <2>5, <3>1, <4>1
    <3> QED
      BY <2>2, <3>2, <3>3
  <2>10. e \in Known
    BY <1>1, <2>3
  <2> QED
    BY <1>9, <2>2, <2>4, <2>5, <2>7, <2>8, <2>9, <2>10 DEF WalkOK
<1>11. r # Outside
  BY <1>1, <1>8, <1>9 DEF Outside
<1>12. /\ UNCHANGED <<commandName, nextCommand, prevCommand, name2command, deleted, unlinked>>
       /\ execution' = [execution EXCEPT ![x] = r] /\ mustSee' = [mustSee EXCEPT ![x] = must]
  <2>1. execution \in [Executions -> Walks] /\ mustSee \in [Executions -> SUBSET Entries]
    BY DEF HandlerInv, HandlerTypeOK
  <2>2. execution' = [execution EXCEPT ![x].at = e, ![x].seen = Append(@, e)]
    BY <1>5 DEF CallNextCommand
  <2>3. execution' = [execution EXCEPT ![x] = r]
    BY <1>6, <2>1, <2>2
  <2>4. mustSee' = [mustSee EXCEPT ![x] = must]
    BY <1>5, <2>1 DEF CallNextCommand
  <2> QED
    BY <2>3, <2>4 DEF CallNextCommand
<1>13. must \in SUBSET Entries
  BY <1>4, <1>5
<1> QED
  BY <1>9, <1>10, <1>11, <1>12, <1>13, ExecutionStep

\* In the chain around this one, an execution is behind its tail.
LEMMA CallOuterStep ==
  ASSUME HandlerInv, NEW x \in Executions, CallOuter(x)
  PROVE  HandlerInv'
<1>1. HeadCommand = 0 /\ TailCommand = MaxCommands + 1 /\ OuterChain = MaxCommands + 2 /\ MaxCommands \in Nat
  BY EntriesAre DEF HandlerInv
<1>2. execution[x].at = TailCommand /\ execution[x].at # -1
  BY <1>1 DEF CallOuter
<1>3. execution[x] \in Walks /\ mustSee[x] \in SUBSET Entries
  BY DEF HandlerInv, HandlerTypeOK
<1>4. PICK r, must : r = [execution[x] EXCEPT !.at = OuterChain] /\ must = mustSee[x]
  OBVIOUS
<1>5. r.at = OuterChain /\ r.seen = execution[x].seen /\ r \in Walks
  <2>1. OuterChain \in Int
    BY <1>1
  <2> QED
    BY <1>3, <1>4, <2>1 DEF Walks
<1>6. Place(r) = Place(execution[x]) /\ TailCommand # HeadCommand /\ TailCommand # OuterChain
  BY <1>1, <1>2, <1>5 DEF Place
<1>7. ASSUME NEW rank, WalksInv(rank) PROVE WalkOK(r, must, rank, Live, Known)
  <2>1. WalkOK(execution[x], must, rank, Live, Known)
    BY <1>2, <1>4, <1>7, WalkIs
  <2>2. r.seen # <<>>
    BY <1>2, <1>5, <1>6, <2>1 DEF WalkOK
  <2> QED
    BY <1>5, <1>6, <2>1, <2>2 DEF WalkOK
<1>8. r # Outside
  BY <1>1, <1>5 DEF Outside
<1>9. /\ UNCHANGED <<commandName, nextCommand, prevCommand, name2command, deleted, unlinked>>
      /\ execution' = [execution EXCEPT ![x] = r] /\ mustSee' = [mustSee EXCEPT ![x] = must]
  <2>1. execution \in [Executions -> Walks] /\ mustSee \in [Executions -> SUBSET Entries]
    BY DEF HandlerInv, HandlerTypeOK
  <2>2. execution' = [execution EXCEPT ![x] = r]
    BY <1>4, <2>1 DEF CallOuter
  <2>3. mustSee' = [mustSee EXCEPT ![x] = must]
    BY <1>4, <2>1 DEF CallOuter
  <2> QED
    BY <2>2, <2>3 DEF CallOuter
<1>10. must \in SUBSET Entries
  BY <1>3, <1>4
<1> QED
  BY <1>5, <1>7, <1>8, <1>9, <1>10, ExecutionStep

\* An execution that ends must see nothing.
LEMMA ExecutionReturnsStep ==
  ASSUME HandlerInv, NEW x \in Executions, ExecutionReturns(x)
  PROVE  HandlerInv'
<1>1. Outside \in Walks
  BY DEF Outside, Walks
<1>2. PICK must : must = {}
  OBVIOUS
<1>3. PICK r : r = Outside
  OBVIOUS
<1>4. /\ UNCHANGED <<commandName, nextCommand, prevCommand, name2command, deleted, unlinked>>
      /\ execution' = [execution EXCEPT ![x] = r] /\ mustSee' = [mustSee EXCEPT ![x] = must]
  BY <1>2, <1>3 DEF ExecutionReturns
<1>5. r \in Walks /\ must \in SUBSET Entries /\ (IF r = Outside THEN must = {} ELSE FALSE)
  BY <1>1, <1>2, <1>3
<1>6. \A rank : IF r = Outside THEN must = {} ELSE WalkOK(r, must, rank, Live, Known)
  BY <1>2, <1>3
<1> QED
  BY <1>4, <1>5, <1>6, ExecutionStep

\* Every step of the chain and of its executions keeps the invariant.
LEMMA HandlerStep == ASSUME HandlerInv, [HandlerNext]_handlerVars PROVE HandlerInv'
<1>1. CASE UNCHANGED handlerVars
  <2>1. UNCHANGED <<commandName, nextCommand, prevCommand, name2command, deleted, unlinked, execution, mustSee>>
    BY <1>1 DEF handlerVars
  <2>2. Live' = Live /\ Known' = Known
    BY <2>1 DEF Live, Known, HeadCommand, TailCommand
  <2>3. HandlerTypeOK' /\ StoreInv'
    BY <2>1, <2>2 DEF HandlerInv, HandlerTypeOK, StoreInv
  <2>4. PICK s \in Seq(Entries), rank \in Ranks : ChainInv(s, rank) /\ UnlinkedInv(s, rank) /\ WalksInv(rank)
    BY DEF HandlerInv
  <2>5. ChainInv(s, rank)' /\ UnlinkedInv(s, rank)' /\ WalksInv(rank)'
    BY <2>1, <2>2, <2>4 DEF ChainInv, UnlinkedInv, WalksInv, Outside
  <2> QED
    BY <2>3, <2>4, <2>5 DEF HandlerInv
<1>2. CASE HandlerNext
  BY <1>2, AddCommandStep, RemoveCommandStep, FreeCommandStep, ExecuteStep, CallNextCommandStep, CallOuterStep, ExecutionReturnsStep
     DEF HandlerNext
<1> QED
  BY <1>1, <1>2

\* An empty chain is its head and its tail.
LEMMA HandlerInitially == HandlerInit => HandlerInv
<1> SUFFICES ASSUME HandlerInit PROVE HandlerInv
  OBVIOUS
<1>1. /\ commandName = <<>> /\ name2command = [n \in CommandNames |-> 0] /\ deleted = {} /\ unlinked = 0
      /\ nextCommand = [e \in Entries |-> IF e = HeadCommand THEN TailCommand ELSE HeadCommand]
      /\ prevCommand = [e \in Entries |-> HeadCommand]
      /\ execution = [x \in Executions |-> Outside] /\ mustSee = [x \in Executions |-> {}]
  BY DEF HandlerInit
<1>2. /\ MaxCommands \in Nat /\ HeadCommand \in Entries /\ TailCommand \in Entries /\ HeadCommand # TailCommand
      /\ HeadCommand = 0 /\ HeadCommand < TailCommand /\ Entries \subseteq Nat
  BY HandlerAssumption DEF Entries, HeadCommand, TailCommand
<1>3. Outside \in Walks
  BY DEF Outside, Walks
<1>4. HandlerTypeOK
  <2>1. Len(commandName) = 0 /\ commandName \in Seq(CommandNames) /\ 0 \in 0..MaxCommands /\ 0 \in 0..0
    BY <1>1, <1>2
  <2>2. nextCommand \in [Entries -> Entries] /\ prevCommand \in [Entries -> Entries]
    BY <1>1, <1>2
  <2> QED
    BY <1>1, <1>3, <2>1, <2>2 DEF HandlerTypeOK
<1>5. Live = {HeadCommand, TailCommand} /\ Known = {HeadCommand, TailCommand}
  BY <1>1, <1>2 DEF Live, Known
<1>6. StoreInv
  BY <1>1, <1>5 DEF StoreInv
<1>7. PICK s \in Seq(Entries) : Len(s) = 2 /\ s[1] = HeadCommand /\ s[2] = TailCommand
  <2>1. <<HeadCommand, TailCommand>> \in Seq(Entries)
    BY <1>2
  <2> QED
    BY <2>1
<1>8. PICK rank \in Ranks : rank = [e \in Entries |-> e]
  BY <1>2 DEF Ranks
<1>9. ChainInv(s, rank)
  <2>1. 1..Len(s) = {1, 2} /\ 1..(Len(s) - 1) = {1}
    BY <1>7
  <2>2. Joined(s, nextCommand, prevCommand)
    BY <1>1, <1>2, <1>7, <2>1 DEF Joined
  <2>3. Rising(s, rank)
    BY <1>2, <1>7, <1>8, <2>1 DEF Rising
  <2>4. Lists(s, Live)
    BY <1>5, <1>7, <2>1 DEF Lists
  <2> QED
    BY <2>2, <2>3, <2>4 DEF ChainInv
<1>10. UnlinkedInv(s, rank) /\ WalksInv(rank)
  BY <1>1 DEF UnlinkedInv, WalksInv
<1> QED
  BY <1>4, <1>6, <1>9, <1>10 DEF HandlerInv

\* Both directions and the names agree, and what comes to the tail has seen what
\* it must.
LEMMA HandlersCalledHolds == ASSUME HandlerInv PROVE HandlersCalled
<1>1. PICK s \in Seq(Entries), rank \in Ranks : ChainInv(s, rank) /\ UnlinkedInv(s, rank) /\ WalksInv(rank)
  BY DEF HandlerInv
<1>2. /\ MaxCommands \in Nat /\ Len(commandName) \in Nat /\ Len(commandName) <= MaxCommands
      /\ HeadCommand = 0 /\ TailCommand = MaxCommands + 1 /\ OuterChain = MaxCommands + 2
      /\ Entries = 0..(MaxCommands + 1) /\ Known \subseteq Entries /\ Live \subseteq Known
  BY EntriesAre DEF HandlerInv
<1>3. /\ GetAll = SubSeq(s, 2, Len(s) - 1) /\ GetAllReversed = SubSeq(Reverse(s), 2, Len(s) - 1)
      /\ CommandsInChain = Live \ {HeadCommand, TailCommand}
  BY <1>1, CommandsAre DEF HandlerInv
<1>4. GetAllReversed = [i \in DOMAIN GetAll |-> GetAll[Len(GetAll) + 1 - i]]
  <2>1. Len(s) >= 2 /\ Len(s) \in Nat
    BY <1>1 DEF ChainInv, Joined
  <2>2. PICK n, t, u, r : n \in Nat /\ n = Len(s) /\ t = GetAll /\ u = GetAllReversed /\ r = Reverse(s)
    BY <2>1
  <2>3. t \in Seq(Entries) /\ Len(t) = n - 2 /\ \A i \in 1..(n - 2) : t[i] = s[i + 1]
    BY <1>3, <2>1, <2>2, MiddleIs
  <2>4. r \in Seq(Entries) /\ Len(r) = n /\ \A i \in 1..n : r[i] = s[n - i + 1]
    BY <2>1, <2>2, BackIs
  <2>5. u \in Seq(Entries) /\ Len(u) = n - 2 /\ \A i \in 1..(n - 2) : u[i] = r[i + 1]
    <3>1. u = SubSeq(r, 2, Len(r) - 1) /\ Len(r) >= 2
      BY <1>3, <2>1, <2>2, <2>4
    <3> QED
      BY <2>4, <3>1, MiddleIs
  <2>6. ASSUME NEW i \in 1..(n - 2) PROVE u[i] = t[Len(t) + 1 - i]
    <3>a. i \in Nat /\ i >= 1 /\ i <= n - 2 /\ n \in Nat
      BY <2>2
    <3>1. i + 1 \in 1..n /\ n - (i + 1) + 1 = n - i /\ (n - 2) + 1 - i \in 1..(n - 2) /\ ((n - 2) + 1 - i) + 1 = n - i
      BY <3>a
    <3>2. u[i] = s[n - i]
      BY <2>4, <2>5, <3>1
    <3>3. t[(n - 2) + 1 - i] = s[n - i]
      BY <2>3, <3>1
    <3> QED
      BY <2>3, <3>2, <3>3
  <2>7. DOMAIN t = 1..(n - 2) /\ DOMAIN u = 1..(n - 2)
    BY <2>3, <2>5
  <2>8. u = [i \in 1..(n - 2) |-> u[i]]
    BY <2>5, <2>7
  <2>9. u = [i \in DOMAIN t |-> t[Len(t) + 1 - i]]
    BY <2>6, <2>7, <2>8
  <2> QED
    BY <2>2, <2>9
<1>5. CommandsInChain = {name2command[n] : n \in CommandNames} \ {0} /\ CommandsInChain \cap deleted = {}
  <2>1. \A n \in CommandNames : name2command[n] # TailCommand
    <3>1. \A n \in CommandNames : name2command[n] \in 0..Len(commandName)
      BY DEF HandlerInv, HandlerTypeOK
    <3>2. TailCommand \notin 0..Len(commandName)
      BY <1>2
    <3> QED
      BY <3>1, <3>2
  <2>2. Live \ {HeadCommand, TailCommand} = {name2command[n] : n \in CommandNames} \ {0}
    BY <1>2, <2>1 DEF Live
  <2>3. Live \cap deleted = {}
    BY DEF HandlerInv, StoreInv
  <2> QED
    BY <1>3, <2>2, <2>3
<1>6. ASSUME NEW x \in Executions, execution[x].at \in {TailCommand, OuterChain}
      PROVE  mustSee[x] \subseteq Seen(x) /\ Cardinality(Seen(x)) = Len(execution[x].seen)
  <2>1. execution[x].at # -1
    BY <1>2, <1>6
  <2>2. PICK q, must : q = execution[x].seen /\ must = mustSee[x]
    OBVIOUS
  <2>3. WalkOK(execution[x], must, rank, Live, Known) /\ Place(execution[x]) = TailCommand
    <3>1. Place(execution[x]) = TailCommand
      BY <1>6 DEF Place
    <3> QED
      BY <1>1, <2>1, <2>2, <3>1, WalkIs
  <2>4. /\ q \in Seq(Known) /\ Rising(q, rank) /\ must \subseteq Live \ {HeadCommand, TailCommand}
        /\ \A m \in must : (\E i \in 1..Len(q) : q[i] = m) \/ rank[TailCommand] < rank[m]
    BY <2>2, <2>3 DEF WalkOK
  <2>5. q \in Seq(Entries) /\ DOMAIN q = 1..Len(q)
    <3>1. Known \subseteq Entries
      BY <1>2
    <3> QED
      BY <2>4, <3>1
  <2>6. ASSUME NEW m \in must PROVE ~(rank[TailCommand] < rank[m])
    <3>1. /\ s[Len(s)] = TailCommand /\ Len(s) \in 1..Len(s) /\ Lists(s, Live) /\ Rising(s, rank)
          /\ \A i \in 1..Len(s) : rank[s[i]] \in Nat
      <4>1. Len(s) >= 2 /\ s[Len(s)] = TailCommand /\ Lists(s, Live) /\ Rising(s, rank)
        BY <1>1 DEF ChainInv, Joined
      <4>2. \A i \in 1..Len(s) : rank[s[i]] \in Nat
        BY DEF Ranks
      <4> QED
        BY <4>1, <4>2
    <3>2. PICK i \in 1..Len(s) : s[i] = m
      BY <2>4, <2>6, <3>1 DEF Lists
    <3>3. i < Len(s) \/ i = Len(s)
      BY <3>1
    <3>4. rank[m] < rank[TailCommand] \/ m = TailCommand
      BY <3>1, <3>2, <3>3 DEF Rising
    <3>5. rank[m] \in Nat /\ rank[TailCommand] \in Nat
      BY <3>1, <3>2
    <3> QED
      BY <3>4, <3>5
  <2>7. PICK T : T = {q[i] : i \in DOMAIN q}
    OBVIOUS
  <2>8. must \subseteq T
    BY <2>4, <2>5, <2>6, <2>7
  <2>9. Cardinality(T) = Len(q)
    <3>1. \A i, j \in 1..Len(q) : q[i] = q[j] => i = j
      BY <2>4, <2>5, RisingOnce
    <3> QED
      BY <2>5, <2>7, <3>1, ListLength
  <2>10. Seen(x) = T
    BY <2>2, <2>7 DEF Seen
  <2> QED
    BY <2>2, <2>8, <2>9, <2>10
<1> QED
  BY <1>4, <1>5, <1>6, Zenon DEF HandlersCalled

\* However commands are added and removed on the way of an execution, it calls
\* every command that is in the chain all the time, and none twice; and the chain
\* is the same from either end.
THEOREM HandlersCalledCorrect == HandlerSpec => []HandlersCalled
<1>1. HandlerInit => HandlerInv
  BY HandlerInitially
<1>2. HandlerInv /\ [HandlerNext]_handlerVars => HandlerInv'
  BY HandlerStep
<1>3. HandlerInv => HandlersCalled
  BY HandlersCalledHolds
<1> QED
  BY <1>1, <1>2, <1>3, PTL DEF HandlerSpec

----------------------------------------------------------------------------
(* The session as a whole: a step of Next is a step of one part.           *)

\* A step of the session is, in each part, a step of that part or none.
LEMMA StepOfParts ==
  ASSUME [Next]_vars
  PROVE  /\ [ReadsNext]_readVars /\ [CountersNext]_counterVars
         /\ [StreamNext]_streamVars /\ [ReadSizeNext]_readSizeVars
         /\ [BufferNext]_bufferVars /\ [AddressNext]_addressVars
         /\ [HandlerNext]_handlerVars /\ [ProfilerNext]_profilerVars
<1>1. CASE UNCHANGED vars
  BY <1>1 DEF vars, OfSession, Codecs, InChain
<1>2. CASE Next
  <2>1. ReadsNext \/ UNCHANGED readVars
    BY <1>2 DEF Next, OfSession
  <2>2. CountersNext \/ UNCHANGED counterVars
    BY <1>2 DEF Next, OfSession
  <2>3. StreamNext \/ UNCHANGED streamVars
    BY <1>2 DEF Next, OfSession
  <2>4. ReadSizeNext \/ UNCHANGED readSizeVars
    BY <1>2 DEF Next, OfSession
  <2>5. BufferNext \/ UNCHANGED bufferVars
    BY <1>2 DEF Next, Codecs
  <2>6. AddressNext \/ UNCHANGED addressVars
    BY <1>2 DEF Next, InChain
  <2>7. HandlerNext \/ UNCHANGED handlerVars
    BY <1>2 DEF Next, InChain
  <2>8. ProfilerNext \/ UNCHANGED profilerVars
    BY <1>2 DEF Next, InChain
  <2> QED
    BY <2>1, <2>2, <2>3, <2>4, <2>5, <2>6, <2>7, <2>8
<1> QED
  BY <1>1, <1>2

\* The futures of the reads, the counters, the streams and the read buffer of a
\* session are sound, whichever of them the session is about.
THEOREM SessionSoundCorrect == Spec => []SessionSound
<1> DEFINE Inv == ReadsInv /\ ScheduleInv /\ IdleInv /\ StreamInv /\ SizeInv
<1>1. Init => Inv
  BY ReadsInitially, CountersInitially, StreamInitially, ReadSizeInitially DEF Init
<1>2. Inv /\ [Next]_vars => Inv'
  BY StepOfParts, ReadsStep, ScheduleStep, IdleStep, StreamStep, ReadSizeStep
<1>3. Inv => SessionSound
  BY ReadsInOrderHolds, CountersTruthfulHolds, StreamSoundHolds, ReadBufferSoundHolds DEF SessionSound
<1> QED
  BY <1>1, <1>2, <1>3, PTL DEF Spec

\* The marks of a session's buffers stay in order, and what was put stays where
\* it was put, however often the buffer grows.
THEOREM BufferSoundCorrect == Spec => []BufferSound
<1>1. Init => BufferInv
  BY BufferInitially DEF Init
<1>2. BufferInv /\ [Next]_vars => BufferInv'
  BY StepOfParts, BufferStep
<1>3. BufferInv => BufferSound
  BY BufferSoundHolds
<1> QED
  BY <1>1, <1>2, <1>3, PTL DEF Spec

\* What an address filter lets through, whom a chain of handlers calls, and what a
\* profiler counts: each is right, whatever the others do.
THEOREM FiltersSoundCorrect == Spec => []FiltersSound
<1> DEFINE Inv == AddressInv /\ HandlerInv /\ ProfilerInv
<1>1. Init => Inv
  BY AddressInitially, HandlerInitially, ProfilerInitially DEF Init
<1>2. Inv /\ [Next]_vars => Inv'
  BY StepOfParts, AddressStep, HandlerStep, ProfilerStep
<1>3. Inv => FiltersSound
  BY AddressesCheckedHolds, HandlersCalledHolds, ProfilesTruthfulHolds DEF FiltersSound
<1> QED
  BY <1>1, <1>2, <1>3, PTL DEF Spec
===============================================================================
