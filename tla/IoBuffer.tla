------------------------------- MODULE IoBuffer -------------------------------
(***************************************************************************)
(* EIoBuffer: a ByteBuffer (a library's EIOByteBuffer) that grows, shrinks *)
(* and is sliced.  An operation that throws changes nothing that the model *)
(* shows, so it is an action that is not enabled.  A value of one byte     *)
(* stands for values of every type: puts and gets of shorts, integers,     *)
(* floats and strings differ in the number of bytes.                       *)
(***************************************************************************)
EXTENDS Integers, Sequences, FiniteSets, SequencesExt

CONSTANTS
  Bytes,        \* bytes that are put
  FreshByte,    \* what newly allocated memory holds
  MaxCapacity   \* bound: no operation asks for more

ASSUME BufferAssumption == MaxCapacity \in Nat /\ FreshByte \notin Bytes

VARIABLES
  buffer,       \* the fields of the buffer
  put           \* the bytes that were put and not given up, by their index

bufferVars == <<buffer, put>>

BufferInit ==
  /\ \E capacity \in 0..2 :
       buffer = [cells |-> [i \in 1..capacity |-> FreshByte], position |-> 0, limit |-> capacity, mark |-> -1,
                 minimumCapacity |-> capacity, autoExpand |-> FALSE, recapacityAllowed |-> TRUE]
  /\ put = [i \in {} |-> FreshByte]

Capacity(b) == Len(b.cells)

----------------------------------------------------------------------------
(* The ByteBuffer below. *)

AtPosition(b, p) == [b EXCEPT !.position = p, !.mark = IF @ > p THEN -1 ELSE @]
AtLimit(b, l) ==
  [b EXCEPT !.limit = l, !.position = IF @ > l THEN l ELSE @, !.mark = IF @ > l THEN -1 ELSE @]
Cleared(b) == [b EXCEPT !.position = 0, !.limit = Len(b.cells), !.mark = -1]
Written(b, i, bytes) ==
  [b EXCEPT !.cells = [j \in DOMAIN @ |-> IF j \in (i + 1)..(i + Len(bytes)) THEN bytes[j - i] ELSE @[j]]]

----------------------------------------------------------------------------
(* capacity(newCapacity), shrink() and expand(). *)

Recapacity(b, n) ==
  [b EXCEPT !.cells = @ \o [i \in 1..(n - Len(@)) |-> FreshByte]]

(* The capacity is halved as long as it is enough, for nothing once. *)
Halved(capacity, least) ==
  LET enough == {h \in {capacity \div 2^k : k \in 0..capacity} : h >= least}
  IN  IF least = 0 THEN capacity \div 2 ELSE IF enough = {} THEN capacity ELSE Min(enough)

(* The mark is lost. *)
Shrunk(b) ==
  LET least == IF b.minimumCapacity > b.limit THEN b.minimumCapacity ELSE b.limit
      halved == Halved(Capacity(b), least)
      n == IF least > halved THEN least ELSE halved
  IN  IF Capacity(b) = b.limit \/ n = Capacity(b) THEN b
      ELSE [b EXCEPT !.cells = [i \in 1..n |-> IF i <= b.limit THEN @[i] ELSE FreshByte], !.mark = -1]

(* normalizeCapacity(): the next power of two. *)
PowerOfTwo(n) == IF n = 0 THEN 0 ELSE CHOOSE p \in {2^k : k \in 0..n} : n <= p /\ p < 2 * n

Expanded(b, pos, expectedRemaining, auto) ==
  LET end == pos + expectedRemaining
      n == IF auto THEN PowerOfTwo(end) ELSE end
      grown == IF n > Capacity(b) THEN Recapacity(b, n) ELSE b
  IN  IF end > b.limit THEN AtLimit(grown, end) ELSE grown

IsAutoExpand(b) == b.autoExpand /\ b.recapacityAllowed
AutoExpanded(b, pos, expectedRemaining) ==
  IF IsAutoExpand(b) THEN Expanded(b, pos, expectedRemaining, TRUE) ELSE b

PositionSet(b, p) == AtPosition(AutoExpanded(b, p, 0), p)
LimitSet(b, l) == AtLimit(AutoExpanded(b, l, 0), l)

Fits(b, end) == end <= (IF IsAutoExpand(b) THEN MaxCapacity ELSE b.limit)
Keeps(b) == buffer' = b /\ UNCHANGED put

----------------------------------------------------------------------------
(* The operations on the indices. *)

SetPosition == \E p \in 0..MaxCapacity : Fits(buffer, p) /\ Keeps(PositionSet(buffer, p))
SetLimit ==
  \E l \in 0..(IF IsAutoExpand(buffer) THEN MaxCapacity ELSE Capacity(buffer)) : Keeps(LimitSet(buffer, l))
SetMark == Keeps([buffer EXCEPT !.mark = buffer.position])
Reset == buffer.mark >= 0 /\ Keeps(AtPosition(buffer, buffer.mark))
Flip == Keeps([buffer EXCEPT !.limit = buffer.position, !.position = 0, !.mark = -1])
Rewind == Keeps([buffer EXCEPT !.position = 0, !.mark = -1])
Clear == Keeps(Cleared(buffer))
Skip ==
  \E size \in 0..MaxCapacity :
    LET b == AutoExpanded(buffer, buffer.position, size)
    IN  Fits(buffer, buffer.position + size) /\ Keeps(PositionSet(b, b.position + size))

(* get() and the getters of every type. *)
Get ==
  \E size \in 1..MaxCapacity :
    /\ buffer.position + size <= buffer.limit
    /\ Keeps(AtPosition(buffer, buffer.position + size))

----------------------------------------------------------------------------
(* put() of bytes, arrays and buffers; put() at an index.                  *)

Puts(i, bytes) ==
  put' = [j \in DOMAIN put \cup i..(i + Len(bytes) - 1) |->
            IF j \in i..(i + Len(bytes) - 1) THEN bytes[j - i + 1] ELSE put[j]]

Put ==
  \E size \in 1..2, byte \in Bytes :
    LET bytes == [k \in 1..size |-> byte]
        b == AutoExpanded(buffer, buffer.position, size)
    IN  /\ Fits(buffer, buffer.position + size)
        /\ buffer' = AtPosition(Written(b, b.position, bytes), b.position + size)
        /\ Puts(buffer.position, bytes)

PutAt ==
  \E i \in 0..(MaxCapacity - 1), byte \in Bytes :
    /\ Fits(buffer, i + 1)
    /\ buffer' = Written(AutoExpanded(buffer, i, 1), i, <<byte>>)
    /\ Puts(i, <<byte>>)

(* putString() writes its bytes and then a last one, for which there may   *)
(* be no room.                                                             *)
PutString ==
  \E length \in 0..1, byte \in Bytes :
    LET b == AutoExpanded(buffer, buffer.position, length + 1)
        size == IF Fits(buffer, buffer.position + length + 1) THEN length + 1 ELSE length
        bytes == [k \in 1..size |-> byte]
    IN  /\ Fits(buffer, buffer.position + size)
        /\ buffer' = AtPosition(Written(b, b.position, bytes), b.position + size)
        /\ Puts(buffer.position, bytes)

(* The getters and putters of shorts, integers, floats: of two bytes.  A   *)
(* putter writes before anybody looks at the limit, and one with an index  *)
(* writes as many bytes behind the position.  (Behind the capacity nobody  *)
(* knows what it overwrites.)                                              *)
GetValue == buffer.position + 2 <= buffer.limit /\ Keeps(AtPosition(buffer, buffer.position + 2))

GivenUp(i, n) == put' = [j \in DOMAIN put \ i..(i + n - 1) |-> put[j]]

PutValue ==
  \E byte \in Bytes :
    LET b == AutoExpanded(buffer, buffer.position, 2)
        end == buffer.position + 2
        there == Written(b, b.position, <<byte, byte>>)
    IN  /\ end <= MaxCapacity /\ end <= Capacity(b)
        /\ \/ end <= b.limit /\ buffer' = AtPosition(there, end) /\ Puts(buffer.position, <<byte, byte>>)
           \/ end > b.limit /\ buffer' = there /\ GivenUp(buffer.position, 2)

PutValueAt ==
  \E i \in 0..(MaxCapacity - 2), byte \in Bytes :
    LET b == AutoExpanded(buffer, i, 2)
        at == buffer.position + i
    IN  /\ at + 2 <= Capacity(b)
        /\ buffer' = Written(b, at, <<byte, byte>>)
        /\ IF buffer.position = 0 THEN Puts(i, <<byte, byte>>) ELSE GivenUp(at, 2)

ValueAccess == GetValue \/ PutValue \/ PutValueAt

(* getString(), and read() and skip() of the stream, take what is there.   *)
Take == \E n \in 0..(buffer.limit - buffer.position) : Keeps(AtPosition(buffer, buffer.position + n))
GetString == Take
StreamAccess == Take \/ Put

(* fill() and fillAndReset() store before position() looks at the limit:   *)
(* a call that throws has overwritten what is behind it, in the buffer and *)
(* beyond.  Only what lies in the buffer is modelled.                      *)
Fills(size, byte, position) ==
  LET b == AutoExpanded(buffer, buffer.position, size)
      end == buffer.position + size
      inside == IF end <= Capacity(b) THEN size ELSE Capacity(b) - buffer.position
      bytes == [k \in 1..inside |-> byte]
      there == Written(b, buffer.position, bytes)
  IN  /\ IsAutoExpand(buffer) => end <= MaxCapacity
      /\ \/ end <= b.limit /\ buffer' = AtPosition(there, position) /\ Puts(buffer.position, bytes)
         \/ end > b.limit /\ buffer' = there /\ GivenUp(buffer.position, inside)

Fill == \E size \in 0..MaxCapacity, byte \in Bytes : Fills(size, byte, buffer.position + size)
FillAndReset == \E size \in 0..MaxCapacity, byte \in Bytes : Fills(size, byte, buffer.position)

(* sweep(): clear() and fillAndReset() up to the capacity.                 *)
Sweep ==
  \E byte \in Bytes :
    LET b == Cleared(buffer)
        bytes == [k \in 1..Capacity(b) |-> byte]
    IN  /\ buffer' = AtPosition(AtPosition(Written(AutoExpanded(b, 0, Capacity(b)), 0, bytes), Capacity(b)), 0)
        /\ put' = [i \in 0..(Capacity(b) - 1) |-> byte]

----------------------------------------------------------------------------
(* The operations on the memory. *)

Expand ==
  \E pos, expectedRemaining \in 0..MaxCapacity :
    /\ buffer.recapacityAllowed /\ pos + expectedRemaining <= MaxCapacity
    /\ Keeps(Expanded(buffer, pos, expectedRemaining, FALSE))

Below(limit) == [i \in {j \in DOMAIN put : j < limit} |-> put[i]]

(* Fault: the limit is not looked at. *)
ShrinkBelowLimit ==
  /\ buffer.recapacityAllowed
  /\ LET n == Halved(Capacity(buffer), buffer.minimumCapacity)
     IN  buffer' = [buffer EXCEPT !.cells = SubSeq(@, 1, n), !.mark = -1]
  /\ put' = Below(buffer.limit)

Shrink ==
  /\ buffer.recapacityAllowed
  /\ buffer' = Shrunk(buffer)
  /\ put' = IF buffer' = buffer THEN put ELSE Below(buffer.limit)

Compact ==
  LET n == buffer.limit - buffer.position
  IN  /\ buffer' = [buffer EXCEPT
           !.cells = [i \in DOMAIN @ |-> IF i <= n THEN @[i + buffer.position] ELSE @[i]],
           !.position = n, !.limit = Capacity(buffer), !.mark = -1]
      /\ put' = [i \in {j \in 0..(n - 1) : j + buffer.position \in DOMAIN put} |-> put[i + buffer.position]]

SetMinimumCapacity == \E n \in 0..MaxCapacity : Keeps([buffer EXCEPT !.minimumCapacity = n])
SetAutoExpand == \E auto \in BOOLEAN : buffer.recapacityAllowed /\ Keeps([buffer EXCEPT !.autoExpand = auto])

(* duplicate() and slice() bind the buffer to its memory for good. *)
Derive == Keeps([buffer EXCEPT !.recapacityAllowed = FALSE])

(* getSlice(): the indices are moved, the slice is taken and they are put  *)
(* back; the mark is lost.                                                 *)
GetSlice ==
  \E index, length \in 0..MaxCapacity :
    /\ index + length <= buffer.limit
    /\ LET narrowed == PositionSet(LimitSet(Cleared(buffer), index + length), index)
       IN  Keeps(AtPosition(AtLimit([narrowed EXCEPT !.recapacityAllowed = FALSE], buffer.limit), buffer.position))

BufferNext ==
  \/ SetPosition \/ SetLimit \/ SetMark \/ Reset \/ Flip \/ Rewind \/ Clear \/ Skip \/ Get
  \/ Put \/ PutAt \/ PutString \/ GetString \/ ValueAccess \/ StreamAccess
  \/ Fill \/ FillAndReset \/ Sweep
  \/ Expand \/ Shrink \/ Compact \/ SetMinimumCapacity \/ SetAutoExpand \/ Derive \/ GetSlice

BufferSpec == BufferInit /\ [][BufferNext]_bufferVars

----------------------------------------------------------------------------
(* After any sequence of calls the indices are in their order, and every   *)
(* byte that was put and not given up is where it was put: growing,        *)
(* shrinking, compacting and slicing lose none, and no call overwrites more *)
(* than it should but those that store before they look at the limit: the  *)
(* putters of values, fill() and fillAndReset().                           *)
BufferSound ==
  /\ buffer.mark <= buffer.position /\ buffer.position <= buffer.limit /\ buffer.limit <= Capacity(buffer)
  /\ \A i \in DOMAIN put : i < Capacity(buffer) /\ buffer.cells[i + 1] = put[i]
===============================================================================
