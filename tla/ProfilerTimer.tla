----------------------------- MODULE ProfilerTimer -----------------------------
(***************************************************************************)
(* EProfilerTimerFilter: the time that events take in the filters behind   *)
(* it.  Each type of event has a flag and a TimerWorker; the threads of    *)
(* the processors measure while the user's thread changes both.            *)
(***************************************************************************)
EXTENDS Integers, Sequences, FiniteSets, SequencesExt

CONSTANTS
  EventTypes,   \* types of events
  Measurers,    \* threads that deliver events
  MaxDuration, MaxMeasured, MaxTimers \* bounds

ASSUME ProfilerAssumption ==
  {MaxDuration, MaxMeasured, MaxTimers} \subseteq Nat /\ IsFiniteSet(EventTypes) /\ IsFiniteSet(Measurers)

VARIABLES
  profiled,     \* the types whose flag is set
  timerOf,      \* of each type the number of its TimerWorker, 0: null
  timers,       \* the TimerWorkers, in order of creation
  measurer,     \* what a thread is doing
  profiling,    \* the type profile() or setProfilers() is about to finish
  recorded      \* of each TimerWorker the durations given to it

profilerVars == <<profiled, timerOf, timers, measurer, profiling, recorded>>

NewTimer == [callsNumber |-> 0, total |-> 0, minimum |-> 0, maximum |-> 0]
Out == [at |-> "out"]
Idle == [by |-> "nobody", type |-> {}]

(* The constructor: setProfilers() for some types. *)
ProfilerInit ==
  \E first \in SUBSET EventTypes :
    LET order == SetToSeq(first)
    IN  /\ profiled = first
        /\ timerOf = [y \in EventTypes |-> IF y \in first THEN CHOOSE i \in DOMAIN order : order[i] = y ELSE 0]
        /\ timers = [i \in DOMAIN order |-> NewTimer]
        /\ recorded = [i \in DOMAIN order |-> <<>>]
        /\ measurer = [t \in Measurers |-> Out] /\ profiling = Idle

----------------------------------------------------------------------------
(* The user: profile(), stopProfile() and setEventsToProfile().            *)

MakeTimer(type) ==
  /\ Len(timers) < MaxTimers
  /\ timers' = Append(timers, NewTimer) /\ recorded' = Append(recorded, <<>>)
  /\ timerOf' = [timerOf EXCEPT ![type] = Len(timers')]

(* profile() sets the flag first. *)
Profile(type) ==
  /\ profiling = Idle
  /\ profiled' = profiled \cup {type} /\ profiling' = [by |-> "profile", type |-> {type}]
  /\ UNCHANGED <<timerOf, timers, measurer, recorded>>

EndProfile ==
  /\ profiling.by = "profile" /\ profiling' = Idle
  /\ \E type \in profiling.type :
       IF timerOf[type] = 0 THEN MakeTimer(type) ELSE UNCHANGED <<timerOf, timers, recorded>>
  /\ UNCHANGED <<profiled, measurer>>

StopProfile(type) ==
  /\ profiling = Idle /\ type \in profiled /\ profiled' = profiled \ {type}
  /\ UNCHANGED <<timerOf, timers, measurer, profiling, recorded>>

(* Fault: the flag is set before there is a TimerWorker. *)
SetProfilerFlagged(type) ==
  /\ profiling = Idle
  /\ profiled' = profiled \cup {type} /\ profiling' = [by |-> "setProfilers", type |-> {type}]
  /\ UNCHANGED <<timerOf, timers, measurer, recorded>>

(* setProfilers() makes a new TimerWorker, also for a type that has one,   *)
(* and flags of other types stay set.  It does so for one type after the   *)
(* other.                                                                  *)
SetProfiler(type) ==
  /\ profiling = Idle
  /\ MakeTimer(type) /\ profiling' = [by |-> "setProfilers", type |-> {type}]
  /\ UNCHANGED <<profiled, measurer>>

EndSetProfiler ==
  /\ profiling.by = "setProfilers" /\ profiling' = Idle
  /\ profiled' = profiled \cup profiling.type
  /\ UNCHANGED <<timerOf, timers, measurer, recorded>>

----------------------------------------------------------------------------
(* The events. *)

(* messageReceived() and the others: the flag is looked at before the      *)
(* event goes on, the TimerWorker after it.                                *)
BeginEvent(t, type) ==
  /\ measurer[t] = Out /\ type \in profiled
  /\ measurer' = [measurer EXCEPT ![t] = [at |-> "event", type |-> type]]
  /\ UNCHANGED <<profiled, timerOf, timers, profiling, recorded>>

EventThrows(t) ==
  /\ measurer[t].at = "event" /\ measurer' = [measurer EXCEPT ![t] = Out]
  /\ UNCHANGED <<profiled, timerOf, timers, profiling, recorded>>

(* A TimerWorker that is null takes no duration: the thread is at an end.  *)
EndEvent(t, duration) ==
  /\ measurer[t].at = "event"
  /\ LET w == timerOf[measurer[t].type]
     IN  IF w = 0 THEN measurer' = [measurer EXCEPT ![t] = [at |-> "null"]] /\ UNCHANGED recorded
         ELSE /\ Len(FlattenSeq(recorded)) < MaxMeasured
              /\ measurer' = [measurer EXCEPT ![t] = [at |-> "calls", timer |-> w, duration |-> duration]]
              /\ recorded' = [recorded EXCEPT ![w] = Append(@, duration)]
  /\ UNCHANGED <<profiled, timerOf, timers, profiling>>

(* addNewDuration(): two atomic additions, then the extremes under a lock. *)
MeasurerGoes(t, place) == measurer' = [measurer EXCEPT ![t].at = place]

CountCall(t) ==
  /\ measurer[t].at = "calls" /\ MeasurerGoes(t, "total")
  /\ timers' = [timers EXCEPT ![measurer[t].timer].callsNumber = @ + 1]
  /\ UNCHANGED <<profiled, timerOf, profiling, recorded>>

AddTotal(t) ==
  /\ measurer[t].at = "total" /\ MeasurerGoes(t, "extremes")
  /\ timers' = [timers EXCEPT ![measurer[t].timer].total = @ + measurer[t].duration]
  /\ UNCHANGED <<profiled, timerOf, profiling, recorded>>

SetExtremes(t) ==
  /\ measurer[t].at = "extremes" /\ measurer' = [measurer EXCEPT ![t] = Out]
  /\ LET d == measurer[t].duration
     IN  timers' = [timers EXCEPT ![measurer[t].timer].minimum = IF d < @ THEN d ELSE @,
                                  ![measurer[t].timer].maximum = IF d > @ THEN d ELSE @]
  /\ UNCHANGED <<profiled, timerOf, profiling, recorded>>

ProfilerNext ==
  \/ \E type \in EventTypes : Profile(type) \/ StopProfile(type) \/ SetProfiler(type)
  \/ EndProfile \/ EndSetProfiler
  \/ \E t \in Measurers :
       \/ \E type \in EventTypes : BeginEvent(t, type)
       \/ \E duration \in 0..MaxDuration : EndEvent(t, duration)
       \/ EventThrows(t) \/ CountCall(t) \/ AddTotal(t) \/ SetExtremes(t)

ProfilerSpec == ProfilerInit /\ [][ProfilerNext]_profilerVars

----------------------------------------------------------------------------
(* What the filter says of a type it monitors. *)

Timer(type) == timers[timerOf[type]]
GetTotalCalls(type) == Timer(type).callsNumber
GetTotalTime(type) == Timer(type).total
GetMinimumTime(type) == Timer(type).minimum
GetMaximumTime(type) == Timer(type).maximum
GetAverageTime(type) == IF GetTotalCalls(type) = 0 THEN 0 ELSE GetTotalTime(type) \div GetTotalCalls(type)

Durations(w) == ToSet(recorded[w])
TimerRests(w) == \A t \in Measurers : measurer[t].at \in {"calls", "total", "extremes"} => measurer[t].timer # w

(* A type is monitored without a TimerWorker only inside of profile(), and *)
(* what the filter says of a type, when no thread is adding to it, is true *)
(* of the durations since its TimerWorker was made: their number, sum,     *)
(* average and maximum.  (The minimum begins with 0 and stays there; and a *)
(* short event that ends inside of profile() meets a null pointer.)        *)
ProfilesTruthful ==
  \A type \in profiled :
    IF timerOf[type] = 0 THEN profiling = [by |-> "profile", type |-> {type}]
    ELSE TimerRests(timerOf[type]) =>
      /\ GetTotalCalls(type) = Len(recorded[timerOf[type]])
      /\ GetTotalTime(type) = FoldSeq(LAMBDA d, n : d + n, 0, recorded[timerOf[type]])
      /\ Durations(timerOf[type]) # {} => GetMaximumTime(type) = Max(Durations(timerOf[type]))
      /\ GetMinimumTime(type) <= GetAverageTime(type) /\ GetAverageTime(type) <= GetMaximumTime(type)
===============================================================================
