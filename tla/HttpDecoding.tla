----------------------------- MODULE HttpDecoding -----------------------------
(***************************************************************************)
(* EHttpServerDecoder and EHttpClientDecoder: a head, which may arrive in  *)
(* pieces, then a content of the announced length.  A stream is a sequence *)
(* of tokens: pieces of a head, the end of a head with what it announces,  *)
(* and bytes of a content.                                                 *)
(***************************************************************************)
EXTENDS Integers, Sequences, FiniteSets, SequencesExt

CONSTANTS
  MaxContent,   \* bound: the longest content
  MaxMessages,  \* bound: messages of the peer
  NoLength      \* a head without a content-length

ASSUME HttpAssumption == MaxContent \in Nat /\ MaxMessages \in Nat /\ NoLength \notin Nat

VARIABLES
  side,         \* the decoder of a "server" or a "client"
  unread,       \* the tokens the peer has sent that nobody has read
  sent, received, \* the lengths of the messages sent, the tokens read
  decoderState, \* http.ds: "NEW", "HEAD", "BODY"
  partialHead,  \* http.ph
  bodyRemaining, \* http.brb
  chunked,      \* http.ckd
  out,          \* what the decoder wrote: heads, contents, ends of content
  spins,        \* does messageReceived() loop for ever?
  tame          \* so far every read suited the decoder

httpVars == <<side, unread, sent, received, decoderState, partialHead, bodyRemaining, chunked, out, spins, tame>>

HttpInit ==
  /\ side \in {"server", "client"}
  /\ unread = <<>> /\ sent = <<>> /\ received = <<>>
  /\ decoderState = "NEW" /\ partialHead = <<>> /\ bodyRemaining = 0 /\ chunked = FALSE
  /\ out = <<>> /\ spins = FALSE /\ tame = TRUE

HeadPiece == [kind |-> "head", length |-> NoLength]
EndOfHead(length) == [kind |-> "end of head", length |-> length]
Content == [kind |-> "content", length |-> NoLength]

IsEnd(t) == t.kind = "end of head"
HasHead(bytes) == \E i \in DOMAIN bytes : IsEnd(bytes[i])
(* The head is looked for from the address of the buffer on, wherever its  *)
(* position is, and the position is put behind it.                         *)
HeadEnd(bytes) == Min({i \in DOMAIN bytes : IsEnd(bytes[i])})

ContentOf(bytes) == IF bytes = <<>> THEN <<>> ELSE <<[what |-> "content", length |-> Len(bytes)]>>
TheEnd == <<[what |-> "end", length |-> 0]>>
HeadOf(length) == <<[what |-> "head", length |-> length]>>

----------------------------------------------------------------------------
(* The peer sends a message, a chunked one of a server too; it may not     *)
(* wait for an answer.                                                     *)
Chunked == -1
PeerSends ==
  /\ Len(sent) < MaxMessages
  /\ \E length \in 0..MaxContent \cup (IF side = "server" THEN {NoLength} ELSE {Chunked}) :
       /\ sent' = Append(sent, length)
       /\ unread' = unread \o <<HeadPiece, EndOfHead(length)>>
                    \o [i \in 1..(IF length = NoLength THEN 0 ELSE IF length = Chunked THEN 1 ELSE length) |-> Content]
  /\ UNCHANGED <<side, received, decoderState, partialHead, bodyRemaining, chunked, out, spins, tame>>

(* Fault: the bytes behind the head are not taken off the length. *)
BodyReadUncounted(bytes, remaining, written) ==
  /\ decoderState' = "BODY" /\ bodyRemaining' = remaining
  /\ out' = out \o written \o ContentOf(bytes)
  /\ UNCHANGED chunked

(* The rest of the content: whatever there is is passed on.                *)
BodyRead(bytes, remaining, written) ==
  LET left == IF chunked THEN Len(bytes) ELSE remaining - Len(bytes)
  IN  IF left <= 0
      THEN /\ decoderState' = "NEW" /\ bodyRemaining' = 0 /\ chunked' = FALSE
           /\ out' = out \o written \o ContentOf(bytes) \o TheEnd
      ELSE /\ decoderState' = "BODY"
           /\ bodyRemaining' = (IF chunked THEN bodyRemaining ELSE left)
           /\ out' = out \o written \o ContentOf(bytes)
           /\ UNCHANGED chunked

ReadHead(bytes) ==
  IF decoderState = "HEAD" THEN partialHead \o bytes ELSE bytes

(* parse...Head() finds no end of a head: what was read is kept.           *)
KeepPartialHead(in) ==
  /\ decoderState \in {"NEW", "HEAD"} /\ ~HasHead(ReadHead(in))
  /\ decoderState' = "HEAD" /\ partialHead' = ReadHead(in)
  /\ UNCHANGED <<bodyRemaining, chunked, out, spins>>

(* The server's decoder goes on to the content.  Without one the rest of   *)
(* the fragment is decoded again: from its address on, where the same head *)
(* is found, again and again.  If the head came in pieces the rest is lost.*)
ServerReadsHead(in) ==
  /\ side = "server" /\ decoderState \in {"NEW", "HEAD"} /\ HasHead(ReadHead(in))
  /\ LET bytes == ReadHead(in)
         e == HeadEnd(bytes)
         length == bytes[e].length
         rest == SubSeq(bytes, e + 1, Len(bytes))
     IN  IF length = NoLength
         THEN /\ decoderState' = "NEW" /\ out' = out \o HeadOf(length) \o TheEnd
              /\ spins' = (decoderState = "NEW" /\ rest # <<>>)
              /\ UNCHANGED <<bodyRemaining, chunked>>
         ELSE BodyRead(rest, length, HeadOf(length)) /\ UNCHANGED spins
  /\ UNCHANGED partialHead

(* The client's decoder leaves the content to the next call, which comes   *)
(* at once if the fragment has one and the head is whole in it.  If the    *)
(* head came in pieces the content beside it is lost.                      *)
ClientReadsHead(in) ==
  /\ side = "client" /\ decoderState \in {"NEW", "HEAD"} /\ HasHead(ReadHead(in))
  /\ LET bytes == ReadHead(in)
         e == HeadEnd(bytes)
         length == bytes[e].length
         rest == IF decoderState = "HEAD" THEN <<>> ELSE SubSeq(bytes, e + 1, Len(bytes))
     IN  IF length = Chunked
         THEN /\ decoderState' = "BODY" /\ chunked' = TRUE
              /\ out' = out \o HeadOf(length) \o ContentOf(rest)
              /\ UNCHANGED bodyRemaining
         ELSE IF rest # <<>> THEN BodyRead(rest, length, HeadOf(length))
         ELSE /\ decoderState' = "BODY" /\ bodyRemaining' = length
              /\ out' = out \o HeadOf(length) /\ UNCHANGED chunked
  /\ UNCHANGED <<partialHead, spins>>

ReadContent(in) ==
  /\ decoderState = "BODY"
  /\ BodyRead(in, bodyRemaining, <<>>)
  /\ UNCHANGED <<partialHead, spins>>

(* A read that both decoders are made for: it ends no later than the       *)
(* message it begins in; and the client is sent whole heads, lengths, and  *)
(* a content.                                                              *)
Tame(in) ==
  /\ \A i \in 1..(Len(in) - 1) : in[i + 1].kind = "head" => in[i].kind = "head"
  /\ side = "client" => /\ in[Len(in)].kind # "head"
                        /\ \A i \in DOMAIN in : IsEnd(in[i]) => in[i].length > 0

Read(in, rest) ==
  /\ ~spins
  /\ unread' = rest /\ received' = received \o in
  /\ tame' = (tame /\ Tame(in))
  /\ UNCHANGED <<side, sent>>

Decode ==
  \E n \in 1..Len(unread) :
    LET in == SubSeq(unread, 1, n)
    IN  /\ Read(in, SubSeq(unread, n + 1, Len(unread)))
        /\ KeepPartialHead(in) \/ ServerReadsHead(in) \/ ClientReadsHead(in) \/ ReadContent(in)

HttpNext == PeerSends \/ Decode

HttpSpec == HttpInit /\ [][HttpNext]_httpVars

----------------------------------------------------------------------------
Total(what) == FoldSeq(LAMBDA o, n : IF o.what = what THEN n + o.length ELSE n, 0, out)
Ends == {i \in DOMAIN out : out[i].what = "end"}

(* Wherever a fitting stream is cut into reads: every head that has        *)
(* arrived is delivered once and in order, every byte of content that has  *)
(* arrived, and an end of content for every message that is complete.      *)
MessagesDecoded ==
  tame =>
    /\ SelectSeq(out, LAMBDA o : o.what = "head")
         = [i \in 1..Cardinality({j \in DOMAIN received : IsEnd(received[j])}) |-> HeadOf(sent[i])[1]]
    /\ Total("content") = Cardinality({j \in DOMAIN received : received[j] = Content})
    /\ Cardinality(Ends) = Cardinality({i \in DOMAIN received :
          /\ i = Len(received) \/ received[i + 1].kind = "head"
          /\ received[i].kind # "head"
          /\ unread = <<>> \/ unread[1].kind = "head" \/ i < Len(received)})
===============================================================================
