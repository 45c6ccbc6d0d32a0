--------------------------- MODULE ServiceStatistics ---------------------------
(***************************************************************************)
(* EIoServiceStatistics: counters that the processors' threads raise, and  *)
(* throughputs that are computed from them when a message was received or  *)
(* sent.  A thread looks at the clock, then takes the lock.                *)
(***************************************************************************)
EXTENDS Integers, FiniteSets

CONSTANTS
  IoThreads,    \* threads of processors
  Counted,      \* readBytes, writtenMessages, ...: all are treated alike
  IntRange,     \* how many values an int has
  Pauses,       \* by how much the clock goes on
  MaxCounted, MaxClock \* bounds

ASSUME StatisticsAssumption ==
  /\ IntRange \in Nat \ {0} /\ (IntRange % 2) = 0 /\ Pauses \subseteq Nat \ {0}
  /\ MaxCounted \in Nat /\ MaxClock \in Nat

VARIABLES
  now,          \* the clock
  looked,       \* the time a thread has seen and uses next, 0: none
  counter,      \* readBytes, writtenMessages, ...
  lastCounter,  \* lastReadBytes, ...
  lastCalculation, \* lastThroughputCalculationTime
  minInterval,  \* throughputCalculationInterval
  throughput,   \* what was counted, and the divisor
  largestThroughput,      \* the largest throughput
  elapsed,      \* the true time between the last two calculations
  wrapped       \* was a time ever too far from the last for an int?

statisticsVars == <<now, looked, counter, lastCounter, lastCalculation, minInterval, throughput, largestThroughput, elapsed, wrapped>>

NoThroughput == [delta |-> 0, interval |-> 1]
Exceeds(a, b) == a.delta * b.interval > b.delta * a.interval

StatisticsInit ==
  /\ now = 1 /\ looked = [t \in IoThreads |-> 0]
  /\ counter = [k \in Counted |-> 0] /\ lastCounter = counter /\ lastCalculation = 1
  /\ minInterval = 1
  /\ throughput = [k \in Counted |-> NoThroughput] /\ largestThroughput = throughput
  /\ elapsed = 1 /\ wrapped = FALSE

Tick == \E pause \in Pauses :
  /\ now + pause <= MaxClock /\ now' = now + pause
  /\ UNCHANGED <<looked, counter, lastCounter, lastCalculation, minInterval, throughput, largestThroughput, elapsed, wrapped>>

Look(t) ==
  /\ looked[t] = 0 /\ looked' = [looked EXCEPT ![t] = now]
  /\ UNCHANGED <<now, counter, lastCounter, lastCalculation, minInterval, throughput, largestThroughput, elapsed, wrapped>>

(* increaseReadBytes() and the others. *)
Increase(t, k) ==
  /\ looked[t] # 0 /\ looked' = [looked EXCEPT ![t] = 0]
  /\ counter[k] < MaxCounted /\ counter' = [counter EXCEPT ![k] = @ + 1]
  /\ UNCHANGED <<now, lastCounter, lastCalculation, minInterval, throughput, largestThroughput, elapsed, wrapped>>

SetThroughputCalculationInterval ==
  /\ \E n \in 0..2 : minInterval' = n
  /\ UNCHANGED <<now, looked, counter, lastCounter, lastCalculation, throughput, largestThroughput, elapsed, wrapped>>

Half == IntRange \div 2
ToInt(n) == ((n + Half) % IntRange) - Half

(* Fault: only whether the statistics are wanted is looked at. *)
TooEarlyUnchecked(interval) == minInterval = 0
TooEarly(interval) == minInterval = 0 \/ interval < minInterval

(* updateThroughput(): the interval is cut to an int.                      *)
UpdateThroughput(t) ==
  LET interval == ToInt(looked[t] - lastCalculation)
      new == [k \in Counted |-> [delta |-> counter[k] - lastCounter[k], interval |-> interval]]
  IN  /\ looked[t] # 0 /\ looked' = [looked EXCEPT ![t] = 0]
      /\ IF TooEarly(interval)
         THEN UNCHANGED <<lastCounter, lastCalculation, throughput, largestThroughput, elapsed>>
         ELSE /\ throughput' = new /\ lastCounter' = counter /\ lastCalculation' = looked[t]
              /\ largestThroughput' = [k \in Counted |-> IF Exceeds(new[k], largestThroughput[k]) THEN new[k] ELSE largestThroughput[k]]
              /\ elapsed' = looked[t] - lastCalculation
      /\ wrapped' = (wrapped \/ interval # looked[t] - lastCalculation)
      /\ UNCHANGED <<now, counter, minInterval>>

StatisticsNext ==
  \/ Tick \/ SetThroughputCalculationInterval
  \/ \E t \in IoThreads : Look(t) \/ UpdateThroughput(t) \/ \E k \in Counted : Increase(t, k)

StatisticsSpec == StatisticsInit /\ [][StatisticsNext]_statisticsVars

----------------------------------------------------------------------------
(* Threads that come late with an old time change no throughput: what is   *)
(* divided by is never zero or negative, and no throughput exceeds the     *)
(* largest; and as long as no time is 2^31 ms away from the last one, time  *)
(* that is accounted for never goes back, and a throughput is over the     *)
(* time that has passed since the one before.  (After a longer pause the   *)
(* throughput may be far too large, and stays the largest; or time goes    *)
(* back, or nothing is computed for weeks.)                                *)
StatisticsTruthful ==
  /\ \A k \in Counted : throughput[k].interval > 0 /\ ~Exceeds(throughput[k], largestThroughput[k])
  /\ ~wrapped => elapsed > 0 /\ lastCalculation <= now
  /\ ~wrapped => \A k \in Counted : throughput[k] = NoThroughput \/ throughput[k].interval = elapsed
===============================================================================
