----------------------------- MODULE LineDecoding -----------------------------
(***************************************************************************)
(* Bytes that arrive in fragments become messages:                         *)
(* EProtocolCodecFilter::messageReceived(), ECumulativeProtocolDecoder,    *)
(* which keeps in the session what is no message yet, and ETextLineDecoder.*)
(* A user's decoder in the place of the latter may throw at a line.        *)
(***************************************************************************)
EXTENDS Integers, Sequences, FiniteSets, SequencesExt

CONSTANTS
  Letters,     \* bytes that are no part of a delimiter
  Bad,         \* one of them: the decoder throws at a line with it
  CR, LF,
  MaxStream,   \* bound: bytes of the whole stream
  MaxFragment  \* bound: bytes of one read

ASSUME LineAssumption ==
  /\ Bad \in Letters /\ {CR, LF} \cap Letters = {} /\ CR # LF
  /\ MaxStream \in Nat /\ MaxFragment \in Nat \ {0}

VARIABLES
  fragments,   \* does the transport fragment messages?
  stream,      \* all bytes that were read
  kept,        \* the buffer in the session, and where it is written next
  lines,       \* the messages of the decoder
  spinning,    \* does messageReceived() loop for ever?
  ended        \* sessionClosed

lineVars == <<fragments, stream, kept, lines, spinning, ended>>

NothingKept == [bytes |-> <<>>, at |-> 0]

LineInit ==
  /\ fragments \in BOOLEAN
  /\ stream = <<>> /\ kept = NothingKept /\ lines = <<>>
  /\ spinning = FALSE /\ ended = FALSE

(* The ends of the lines in some bytes. *)
Delimited(bytes) == {e \in 2..Len(bytes) : bytes[e - 1] = CR /\ bytes[e] = LF}

----------------------------------------------------------------------------
(* doDecode(): the line from p to the first delimiter behind it. *)
EndOfLine(bytes, p) == Min({e \in Delimited(bytes) : e >= p + 2})

(* The loop of decode(), from position p on: the lines, and where it       *)
(* stops.  An exception ends it; the filter calls the decoder again for    *)
(* what is left of the fragment it was given, which is nothing if the      *)
(* fragment was appended to the session's buffer.                          *)
Decoded(bytes, retries) ==
  LET run[p \in 0..Len(bytes)] ==
        IF \A e \in Delimited(bytes) : e < p + 2 THEN [lines |-> <<>>, at |-> p, threw |-> FALSE]
        ELSE LET e == EndOfLine(bytes, p)
                 line == SubSeq(bytes, p + 1, e)
             IN  IF Bad \notin ToSet(line) THEN [run[e] EXCEPT !.lines = <<line>> \o @]
                 ELSE IF retries THEN run[e]
                 ELSE [lines |-> <<>>, at |-> e, threw |-> TRUE]
  IN  run[0]

(* The buffer is written where it was left, and flip() cuts the rest off.  *)
Appended(bytes) == SubSeq(kept.bytes, 1, kept.at) \o bytes

(* Fault: the rest of the session's buffer is not kept a second time. *)
KeepOnce(bytes, decoded) ==
  kept' = IF kept # NothingKept \/ decoded.at = Len(bytes) THEN NothingKept
          ELSE LET rest == SubSeq(bytes, decoded.at + 1, Len(bytes)) IN [bytes |-> rest, at |-> Len(rest)]

(* What is left is kept: compact() and storeRemainingInSession() write     *)
(* behind it, while an exception leaves the buffer as it was read.         *)
Keep(bytes, decoded) ==
  kept' = IF decoded.threw THEN [bytes |-> bytes, at |-> decoded.at]
          ELSE IF decoded.at = Len(bytes) THEN NothingKept
          ELSE LET rest == SubSeq(bytes, decoded.at + 1, Len(bytes)) IN [bytes |-> rest, at |-> Len(rest)]

Fragments == UNION {[1..n -> Letters \cup {CR, LF}] : n \in 1..MaxFragment}
Arrives(in) ==
  /\ ~spinning /\ ~ended /\ Len(stream) + Len(in) <= MaxStream
  /\ stream' = stream \o in
  /\ UNCHANGED <<fragments, ended>>

MessageReceived ==
  /\ fragments
  /\ \E in \in Fragments :
       LET bytes == Appended(in)
           decoded == Decoded(bytes, kept = NothingKept)
       IN  /\ Arrives(in)
           /\ lines' = lines \o decoded.lines
           /\ Keep(bytes, decoded)
  /\ UNCHANGED spinning

(* A datagram is decoded by itself.  If it does not end with a delimiter,  *)
(* decode() returns with the rest unread, and messageReceived() calls it   *)
(* again and again.                                                        *)
DatagramReceived ==
  /\ ~fragments
  /\ \E in \in Fragments :
       LET decoded == Decoded(in, TRUE)
       IN  /\ Arrives(in)
           /\ lines' = lines \o decoded.lines
           /\ spinning' = (decoded.at < Len(in))
  /\ UNCHANGED kept

(* sessionClosed(): finishDecode() makes what is kept the last line.       *)
DecoderSessionClosed ==
  /\ ~spinning /\ ~ended /\ ended' = TRUE
  /\ lines' = IF kept.at = 0 THEN lines ELSE Append(lines, SubSeq(kept.bytes, 1, kept.at))
  /\ UNCHANGED <<fragments, stream, kept, spinning>>

LineNext == MessageReceived \/ DatagramReceived \/ DecoderSessionClosed

LineSpec == LineInit /\ [][LineNext]_lineVars

----------------------------------------------------------------------------
(* However the stream was cut into reads, its lines are delivered, each    *)
(* once and in order, and an unfinished one at the end of the session.     *)
(* (Not so once the decoder threw: while bytes are kept, the lines before  *)
(* the exception are decoded again and the bytes behind it are lost.)      *)
LinesDecoded ==
  fragments /\ Bad \notin ToSet(stream) =>
    LET ends == SetToSortSeq(Delimited(stream), <)
        all == IF ended /\ stream # <<>> /\ Len(stream) \notin Delimited(stream) THEN Append(ends, Len(stream)) ELSE ends
    IN  lines = [i \in DOMAIN all |-> SubSeq(stream, (IF i = 1 THEN 0 ELSE all[i - 1]) + 1, all[i])]
===============================================================================
