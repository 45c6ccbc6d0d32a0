----------------------------- MODULE ProxyResponse -----------------------------
(***************************************************************************)
(* How an HTTP proxy's demands for credentials are read, fragment for      *)
(* fragment: EAbstractHttpLogicHandler::messageReceived() with its         *)
(* EIoBufferDecoder.  The proxy sends the next response when the one       *)
(* before it was answered.                                                 *)
(***************************************************************************)
EXTENDS Integers, Sequences, FiniteSets, SequencesExt

CONSTANTS
  MaxBody,        \* bound: the longest body
  MaxResponses,   \* bound: responses of the proxy
  NoContentLength, \* a head without the header
  NoBuffer        \* null

ASSUME ResponseAssumption ==
  MaxBody \in Nat /\ MaxResponses \in Nat /\ NoContentLength \notin Nat

VARIABLES
  coming,         \* what is still to be read of the response under way
  announced,      \* of each response its content length
  matchCount, contentLength, decodedBuffer, \* the DecodingContext
  parsedResponse, \* has the head been parsed?
  entityBodyStartPosition,
  handled,        \* of each response handled the content gathered and what setBody() got of it
  failed,         \* EProxyAuthException, or a null header
  split           \* what came in pieces so far: heads, bodies

responseVars == <<coming, announced, matchCount, contentLength, decodedBuffer, parsedResponse,
                  entityBodyStartPosition, handled, failed, split>>

ResponseInit ==
  /\ coming = <<>> /\ announced = <<>>
  /\ matchCount = 0 /\ contentLength = -1 /\ decodedBuffer = NoBuffer
  /\ parsedResponse = FALSE /\ entityBodyStartPosition = 0 /\ handled = <<>> /\ failed = FALSE /\ split = {}

Delimiter == <<"cr", "lf", "cr", "lf">>
ResponseHeads == {<<"x">> \o Delimiter, <<"x", "cr", "lf", "x">> \o Delimiter, <<"x", "cr">> \o Delimiter}

(* The proxy. *)
Respond ==
  /\ Len(announced) = Len(handled) /\ coming = <<>> /\ ~failed /\ Len(announced) < MaxResponses
  /\ \E head \in ResponseHeads, length \in 0..MaxBody \cup {NoContentLength} :
       /\ announced' = Append(announced, length)
       /\ coming' = head \o [i \in 1..(IF length = NoContentLength THEN 0 ELSE length) |-> "b"]
  /\ UNCHANGED <<matchCount, contentLength, decodedBuffer, parsedResponse, entityBodyStartPosition, handled, failed, split>>

----------------------------------------------------------------------------
(* decodeFully() *)

Before == IF decodedBuffer = NoBuffer THEN <<>> ELSE decodedBuffer

(* The search for the delimiter goes back behind the place where a match   *)
(* that failed began, to the start of the fragment at most.                *)
Search(in) ==
  LET run[p \in 0..Len(in), m \in 0..3] ==
        IF p = Len(in) THEN [found |-> FALSE, at |-> p, match |-> m]
        ELSE IF in[p + 1] # Delimiter[m + 1] THEN run[IF p + 1 > m THEN p + 1 - m ELSE 0, 0]
        ELSE IF m = 3 THEN [found |-> TRUE, at |-> p + 1, match |-> 0]
        ELSE run[p + 1, m + 1]
  IN  run[0, matchCount]

(* entityBodyLimitPosition, which is set behind chunks only.               *)
EntityBodyLimitPosition == 0

(* What setBody() gets of responseData: a head of start bytes, which the   *)
(* content follows, up to the limit of the body.                           *)
Handled(start, content) ==
  [content |-> content, body |-> SubSeq(content, 1, EntityBodyLimitPosition - start)]

(* Fault: what is missing is not counted. *)
GatherUncounted(in, start, length) ==
  LET all == Before \o (IF Len(in) < length THEN in ELSE SubSeq(in, 1, length))
  IN  /\ parsedResponse' = (Len(in) < length)
      /\ contentLength' = IF parsedResponse' THEN length ELSE -1
      /\ handled' = IF parsedResponse' THEN handled ELSE Append(handled, Handled(start, all))
      /\ decodedBuffer' = IF decodedBuffer = NoBuffer /\ ~parsedResponse' THEN NoBuffer ELSE all

(* A content that is not complete is gathered in a buffer, which the       *)
(* context keeps for good: what is decoded next is put behind it.          *)
Gather(in, start, length) ==
  LET all == Before \o (IF Len(in) < length THEN in ELSE SubSeq(in, 1, length))
  IN  /\ parsedResponse' = (Len(in) < length)
      /\ contentLength' = IF parsedResponse' THEN length - Len(in) ELSE -1
      /\ handled' = IF parsedResponse' THEN handled ELSE Append(handled, Handled(start, all))
      /\ decodedBuffer' = IF decodedBuffer = NoBuffer /\ ~parsedResponse' THEN NoBuffer ELSE all

----------------------------------------------------------------------------
(* messageReceived() *)

Reads(n, pieces) ==
  /\ ~failed /\ coming' = SubSeq(coming, n + 1, Len(coming))
  /\ split' = (IF n < Len(coming) THEN split \cup pieces ELSE split)
  /\ UNCHANGED announced
Fails ==
  failed' = TRUE /\ UNCHANGED <<matchCount, contentLength, decodedBuffer, parsedResponse, entityBodyStartPosition, handled>>

(* No end of a head: what was read is not kept, only how much of the       *)
(* delimiter was matched.                                                  *)
ReadPartOfHead ==
  \E n \in 1..Len(coming) :
    LET search == Search(SubSeq(coming, 1, n))
    IN  /\ ~parsedResponse /\ ~search.found
        /\ Reads(n, {"head"})
        /\ IF decodedBuffer # NoBuffer THEN Fails
           ELSE /\ matchCount' = search.match
                /\ UNCHANGED <<contentLength, decodedBuffer, parsedResponse, entityBodyStartPosition, handled, failed>>

(* decodeResponse() needs the status line; a header that is missing is a   *)
(* null pointer, and setContentLength() takes no 0.  Then the body is      *)
(* asked for, which may have come with the head.                           *)
ReadWholeHead ==
  \E n \in 1..Len(coming) :
    LET in == SubSeq(coming, 1, n)
        search == Search(in)
        head == Before \o SubSeq(in, 1, search.at)
        length == announced[Len(announced)]
    IN  /\ ~parsedResponse /\ search.found
        /\ Reads(n, {"body"})
        /\ IF head \notin ResponseHeads \/ length \in {0, NoContentLength} THEN Fails
           ELSE /\ matchCount' = 0 /\ entityBodyStartPosition' = Len(head)
                /\ Gather(SubSeq(in, search.at + 1, n), Len(head), length) /\ UNCHANGED failed

ReadBody ==
  \E n \in 1..Len(coming) :
    /\ parsedResponse /\ Reads(n, {})
    /\ Gather(SubSeq(coming, 1, n), entityBodyStartPosition, contentLength)
    /\ UNCHANGED <<matchCount, entityBodyStartPosition, failed>>

ResponseNext == Respond \/ ReadPartOfHead \/ ReadWholeHead \/ ReadBody

ResponseSpec == ResponseInit /\ [][ResponseNext]_responseVars

----------------------------------------------------------------------------
(* A response whose head comes in one read, after responses that each came *)
(* in one read, is handled when its last byte has been read and not        *)
(* before: its content is whole, wherever it is cut, though setBody() gets *)
(* nothing of it.  (A head in pieces is lost; a body that did not come     *)
(* with its head is read again as the beginning of the next head, so the   *)
(* handshake ends with the second response; and a response must have a     *)
(* body.)                                                                  *)
ResponsesRead ==
  "head" \notin split /\ (\A i \in DOMAIN announced : announced[i] \notin {0, NoContentLength}) =>
    LET whole == Len(announced) - (IF coming # <<>> THEN 1 ELSE 0)
    IN  "body" \notin split \/ Len(announced) = 1 =>
          /\ handled = [i \in 1..whole |-> [content |-> [k \in 1..announced[i] |-> "b"], body |-> <<>>]]
          /\ ~failed
===============================================================================
