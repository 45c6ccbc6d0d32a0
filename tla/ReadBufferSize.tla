--------------------------- MODULE ReadBufferSize ---------------------------
(***************************************************************************)
(* The size of the buffer a session reads into.  EAbstractIoSessionConfig  *)
(* keeps it with its bounds; a new session copies the three numbers of its *)
(* service, one after the other; after each read the Processor doubles or  *)
(* halves the session's, which the application may set meanwhile.          *)
(***************************************************************************)
EXTENDS Integers

CONSTANTS
  ConfigMax,    \* the largest int
  DefaultSize, DefaultMin, DefaultMax, \* what a new config holds
  SizesSet,     \* numbers the application sets
  MaxSettings   \* bound: calls of setters

SizeFields == {"size", "min", "max"}
ASSUME SizeAssumption ==
  /\ ConfigMax \in Nat /\ SizesSet \subseteq 1..ConfigMax /\ MaxSettings \in Nat
  /\ {DefaultSize, DefaultMin, DefaultMax} \subseteq 1..ConfigMax /\ DefaultMin <= DefaultMax

DefaultSizes == [size |-> DefaultSize, min |-> DefaultMin, max |-> DefaultMax]

VARIABLES
  serviceSizes, sessionSizes,
  copied,       \* how many fields setAll() has copied, or -1: it threw
  settings,
  defer,        \* deferDecreaseReadBuffer
  readStep,     \* where the Processor is in read()
  capacity,     \* of the buffer it reads into
  smallReads,   \* history: small reads since the Processor last changed the size (2: or more),
                \* with those whose double is no int
  decreasedAfter \* history: smallReads when it was last decreased

configVars == <<serviceSizes, sessionSizes, copied, settings>>
readSizeVars == <<configVars, defer, readStep, capacity, smallReads, decreasedAfter>>
adaptVars == <<defer, readStep, capacity, smallReads, decreasedAfter>>

ReadSizeInit ==
  /\ serviceSizes = DefaultSizes /\ sessionSizes = DefaultSizes
  /\ copied = 0 /\ settings = 0
  /\ defer = TRUE /\ readStep = "rest" /\ capacity = 0 /\ smallReads = 0
  /\ decreasedAfter = 2

----------------------------------------------------------------------------
(* The config. setReadBufferSize() knows no bounds, the others each other. *)

Settable(config, field, n) ==
  /\ n >= 1
  /\ field = "min" => n <= config.max
  /\ field = "max" => n >= config.min

(* The application, before the session is made and after. *)
SetServiceConfig(field, n) ==
  /\ settings < MaxSettings /\ settings' = settings + 1
  /\ Settable(serviceSizes, field, n)
  /\ serviceSizes' = [serviceSizes EXCEPT ![field] = n]
  /\ UNCHANGED <<sessionSizes, copied, adaptVars>>

SetSessionConfig(field, n) ==
  /\ settings < MaxSettings /\ settings' = settings + 1
  /\ copied = 3
  /\ Settable(sessionSizes, field, n)
  /\ sessionSizes' = [sessionSizes EXCEPT ![field] = n]
  /\ UNCHANGED <<serviceSizes, copied, adaptVars>>

(* setAll() sets the size, the minimum, the maximum: it throws at a        *)
(* minimum above the maximum the new config began with, and there is no    *)
(* session.                                                                *)
Field == <<"size", "min", "max">>

(* Fault: nobody compares the two. *)
CopyUnchecked ==
  /\ copied \in 0..2
  /\ sessionSizes' = [sessionSizes EXCEPT ![Field[copied + 1]] = serviceSizes[Field[copied + 1]]]
  /\ copied' = copied + 1
  /\ UNCHANGED <<serviceSizes, settings, adaptVars>>

SetNext ==
  /\ copied \in 0..2
  /\ LET field == Field[copied + 1] IN
       \/ /\ Settable(sessionSizes, field, serviceSizes[field])
          /\ sessionSizes' = [sessionSizes EXCEPT ![field] = serviceSizes[field]]
          /\ copied' = copied + 1
       \/ /\ ~Settable(sessionSizes, field, serviceSizes[field])
          /\ copied' = -1 /\ UNCHANGED sessionSizes
  /\ UNCHANGED <<serviceSizes, settings, adaptVars>>

----------------------------------------------------------------------------
(* read(), of a session that is a stream. *)

Allocate ==
  /\ copied = 3 /\ readStep = "rest"
  /\ capacity' = sessionSizes.size /\ readStep' = "read"
  /\ UNCHANGED <<configVars, defer, smallReads, decreasedAfter>>

(* What was read is delivered, then compared with the size, that is with   *)
(* the one set meanwhile.  Both are doubled in an int.                     *)
Twice(n) == IF 2 * n <= ConfigMax THEN 2 * n ELSE 2 * n - 2 * (ConfigMax + 1)
FillsBuffer(n) == n = sessionSizes.size
Small(n) == Twice(n) < sessionSizes.size

Wraps(n) == Twice(n) # 2 * n
LessThanHalf(n) == 2 * n < sessionSizes.size

ReadAndCompare(n) ==
  /\ readStep = "read"
  /\ readStep' = IF Small(n) THEN "decrease" ELSE IF FillsBuffer(n) THEN "increase" ELSE "rest"
  /\ smallReads' = IF (LessThanHalf(n) \/ Wraps(n)) /\ smallReads < 2 THEN smallReads + 1 ELSE smallReads
  /\ UNCHANGED <<configVars, defer, capacity, decreasedAfter>>

IncreaseReadBufferSize ==
  /\ readStep = "increase" /\ readStep' = "rest"
  /\ LET doubled == Twice(sessionSizes.size)
         n == IF doubled <= sessionSizes.max THEN doubled ELSE sessionSizes.max IN
       \/ /\ Settable(sessionSizes, "size", n)
          /\ sessionSizes' = [sessionSizes EXCEPT !.size = n]
          /\ defer' = TRUE /\ smallReads' = 0
       \/ ~Settable(sessionSizes, "size", n) /\ UNCHANGED <<sessionSizes, defer, smallReads>>
  /\ UNCHANGED <<serviceSizes, copied, settings, capacity, decreasedAfter>>

Halve ==
  sessionSizes' = IF sessionSizes.size > sessionSizes.min
                  THEN [sessionSizes EXCEPT !.size = @ \div 2] ELSE sessionSizes

(* Fault: the flag stays as it is. *)
DecreaseAgain ==
  /\ readStep = "decrease" /\ readStep' = "rest"
  /\ defer' = FALSE
  /\ \/ defer /\ UNCHANGED <<sessionSizes, smallReads, decreasedAfter>>
     \/ ~defer /\ Halve /\ decreasedAfter' = smallReads /\ smallReads' = 0
  /\ UNCHANGED <<serviceSizes, copied, settings, capacity>>

(* The first small read is only noted. *)
DecreaseReadBufferSize ==
  /\ readStep = "decrease" /\ readStep' = "rest"
  /\ defer' = ~defer
  /\ \/ defer /\ UNCHANGED <<sessionSizes, smallReads, decreasedAfter>>
     \/ ~defer /\ Halve /\ decreasedAfter' = smallReads /\ smallReads' = 0
  /\ UNCHANGED <<serviceSizes, copied, settings, capacity>>

ReadSizeNext ==
  \/ \E field \in SizeFields, n \in SizesSet : SetServiceConfig(field, n) \/ SetSessionConfig(field, n)
  \/ SetNext
  \/ Allocate \/ \E n \in 1..capacity : ReadAndCompare(n)
  \/ IncreaseReadBufferSize \/ DecreaseReadBufferSize

----------------------------------------------------------------------------
(* A session that exists reads into a buffer that is not empty and has     *)
(* bounds in their order, wherever its config was copied from, and however *)
(* large the size gets; and one small read among large ones does not       *)
(* shrink the buffer: each decrease takes two reads that fill less than    *)
(* half of it, or so much of a large one that the double of it is no int.  *)
ReadBufferSound ==
  /\ copied = 3 => sessionSizes.size >= 1 /\ sessionSizes.min <= sessionSizes.max
  /\ readStep = "read" => capacity >= 1
  /\ decreasedAfter = 2
=============================================================================
