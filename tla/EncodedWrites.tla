----------------------------- MODULE EncodedWrites -----------------------------
(***************************************************************************)
(* The way out through EProtocolCodecFilter: filterWrite() has a message   *)
(* encoded into a queue that the session's encoder output keeps, takes the *)
(* parts from it one by one and sends a request for the message behind     *)
(* them.  Nothing keeps two threads from doing so for one session.         *)
(***************************************************************************)
EXTENDS Integers, Sequences, FiniteSets, SequencesExt

CONSTANTS
  Encoders,     \* threads that write messages
  MaxParts,     \* bound: parts of a message
  MaxMessagesOut \* bound: messages

ASSUME EncodedAssumption == MaxParts \in Nat /\ MaxMessagesOut \in Nat

VARIABLES
  partsOf,      \* of each message how many parts were encoded
  messageQueue, \* parts that nobody has taken: pairs of a message and a number
  encoding,     \* of each thread its message and what it does with it
  passed,       \* what went to the next filter: parts, and messages with part 0
  sentDown,     \* how much of it the processor has sent
  messagesSent, \* the messages the application knows to be sent
  overlapped,   \* messages that were written while another one was
  threw         \* messages at which the encoder threw

encodedVars == <<partsOf, messageQueue, encoding, passed, sentDown, messagesSent, overlapped, threw>>

NotEncoding == [message |-> 0, at |-> "out", part |-> <<>>]

EncodedInit ==
  /\ partsOf = <<>> /\ messageQueue = <<>> /\ encoding = [t \in Encoders |-> NotEncoding]
  /\ passed = <<>> /\ sentDown = 0 /\ messagesSent = <<>> /\ overlapped = {} /\ threw = {}

Others(t) == {encoding[u].message : u \in Encoders \ {t}} \ {0}

----------------------------------------------------------------------------
(* filterWrite() *)

BeginEncode(t) ==
  /\ encoding[t] = NotEncoding /\ Len(partsOf) < MaxMessagesOut
  /\ partsOf' = Append(partsOf, 0)
  /\ encoding' = [encoding EXCEPT ![t] = [message |-> Len(partsOf'), at |-> "encode", part |-> <<>>]]
  /\ overlapped' = overlapped \cup (IF Others(t) = {} THEN {} ELSE Others(t) \cup {Len(partsOf')})
  /\ UNCHANGED <<messageQueue, passed, sentDown, messagesSent, threw>>

EncodePart(t) ==
  LET m == encoding[t].message
  IN  /\ encoding[t].at = "encode" /\ partsOf[m] < MaxParts
      /\ partsOf' = [partsOf EXCEPT ![m] = @ + 1]
      /\ messageQueue' = Append(messageQueue, <<m, partsOf'[m]>>)
      /\ UNCHANGED <<encoding, passed, sentDown, messagesSent, overlapped, threw>>

(* The parts that were encoded stay in the queue.                          *)
EncoderThrows(t) ==
  /\ encoding[t].at = "encode" /\ threw' = threw \cup {encoding[t].message}
  /\ encoding' = [encoding EXCEPT ![t] = NotEncoding]
  /\ UNCHANGED <<partsOf, messageQueue, passed, sentDown, messagesSent, overlapped>>

EndEncode(t) ==
  /\ encoding[t].at = "encode" /\ encoding' = [encoding EXCEPT ![t].at = "poll"]
  /\ UNCHANGED <<partsOf, messageQueue, passed, sentDown, messagesSent, overlapped, threw>>

(* Fault: the request of the message goes out while parts are left. *)
PollPartOnce(t) ==
  /\ encoding[t].at = "poll"
  /\ IF messageQueue = <<>> \/ (passed # <<>> /\ passed[Len(passed)][1] = encoding[t].message)
     THEN encoding' = [encoding EXCEPT ![t].at = "pass", ![t].part = <<encoding[t].message, 0>>]
          /\ UNCHANGED messageQueue
     ELSE /\ encoding' = [encoding EXCEPT ![t].at = "pass", ![t].part = Head(messageQueue)]
          /\ messageQueue' = Tail(messageQueue)
  /\ UNCHANGED <<partsOf, passed, sentDown, messagesSent, overlapped, threw>>

(* poll(): whoever asks gets the next part of any message; with none left  *)
(* it is the turn of the message itself.                                   *)
PollPart(t) ==
  /\ encoding[t].at = "poll"
  /\ IF messageQueue = <<>>
     THEN encoding' = [encoding EXCEPT ![t].at = "pass", ![t].part = <<encoding[t].message, 0>>]
          /\ UNCHANGED messageQueue
     ELSE /\ encoding' = [encoding EXCEPT ![t].at = "pass", ![t].part = Head(messageQueue)]
          /\ messageQueue' = Tail(messageQueue)
  /\ UNCHANGED <<partsOf, passed, sentDown, messagesSent, overlapped, threw>>

(* nextFilter->filterWrite() with an EncodedWriteRequest, or at the end    *)
(* with the MessageWriteRequest.                                           *)
PassPart(t) ==
  /\ encoding[t].at = "pass" /\ passed' = Append(passed, encoding[t].part)
  /\ encoding' = [encoding EXCEPT ![t] = IF encoding[t].part[2] = 0 THEN NotEncoding ELSE [@ EXCEPT !.at = "poll", !.part = <<>>]]
  /\ UNCHANGED <<partsOf, messageQueue, sentDown, messagesSent, overlapped, threw>>

(* messageSent(): the application is told of messages only.                *)
MessageSent ==
  /\ sentDown < Len(passed) /\ sentDown' = sentDown + 1
  /\ messagesSent' = IF passed[sentDown'][2] = 0 THEN Append(messagesSent, passed[sentDown'][1]) ELSE messagesSent
  /\ UNCHANGED <<partsOf, messageQueue, encoding, passed, overlapped, threw>>

EncodedNext ==
  \/ \E t \in Encoders :
       BeginEncode(t) \/ EncodePart(t) \/ EncoderThrows(t) \/ EndEncode(t) \/ PollPart(t) \/ PassPart(t)
  \/ MessageSent

EncodedSpec == EncodedInit /\ [][EncodedNext]_encodedVars

----------------------------------------------------------------------------
HeldParts == {encoding[t].part : t \in Encoders} \ ({<<>>} \cup {<<m, 0>> : m \in DOMAIN partsOf})

(* Every part that was encoded is in one place, and goes out once; what    *)
(* the application knows to be sent had all of its parts sent before it,   *)
(* in their order, unless another thread wrote meanwhile.  (Then the parts *)
(* of one message may be in the hands of the other thread when the message *)
(* goes out; and parts left by an encoder that threw go out with the next  *)
(* message.)                                                               *)
EncodedInOrder ==
  /\ LET parts == {p \in ToSet(passed) : p[2] # 0}
     IN  /\ parts \cup ToSet(messageQueue) \cup HeldParts = UNION {{<<m, k>> : k \in 1..partsOf[m]} : m \in DOMAIN partsOf}
         /\ parts \cap (ToSet(messageQueue) \cup HeldParts) = {} /\ IsInjective(passed) /\ IsInjective(messageQueue)
  /\ \A i \in DOMAIN messagesSent :
       messagesSent[i] \notin overlapped =>
         LET m == messagesSent[i]
         IN  SelectSeq(SubSeq(passed, 1, sentDown), LAMBDA p : p[1] = m)
               = [k \in 1..(partsOf[m] + 1) |-> <<m, IF k > partsOf[m] THEN 0 ELSE k>>]
===============================================================================
