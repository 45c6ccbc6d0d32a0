--------------------------- MODULE DirectiveParsing ---------------------------
(***************************************************************************)
(* EStringUtilities::parseDirectives(): a challenge is a list of           *)
(* directives, key = value, where a value may be quoted and is then any    *)
(* text.  A peer writes a list, directive for directive; the parser reads  *)
(* the whole.                                                              *)
(***************************************************************************)
EXTENDS Naturals, Sequences, SequencesExt, Functions

CONSTANTS
  Keys,         \* keys of one byte
  PlainBytes,      \* bytes that need no quotes
  MaxValue      \* bound: bytes of the first value, of the second one less

Special == {",", "=", "quote", "backslash", "space"}
ASSUME DirectiveAssumption == Keys \cap Special = {} /\ PlainBytes \cap Special = {} /\ MaxValue \in Nat

VARIABLES
  listed,      \* the directives: [key, value, quoted, separator]
  text          \* their bytes

directiveVars == <<listed, text>>
DirectiveInit == listed = <<>> /\ text = <<>>

Lws(byte) == byte = "space"

(* Where the first byte that is no space is, from i on.                    *)
SkipLws(buf, i) ==
  LET blacks == {k \in i..Len(buf) : ~Lws(buf[k])} IN IF blacks = {} THEN Len(buf) + 1 ELSE Min(blacks)

(* What the parser holds at byte i. *)
Beginning(buf) ==
  [i |-> SkipLws(buf, 1), getting |-> "key", key |-> <<>>, value |-> <<>>,
   map |-> [k \in {} |-> <<>>], error |-> FALSE]
Failed(p) == [p EXCEPT !.error = TRUE]

Extracted(p) ==
  IF p.key \in DOMAIN p.map THEN Failed(p)
  ELSE [p EXCEPT !.map = [k \in DOMAIN @ \cup {p.key} |-> IF k = p.key THEN p.value ELSE @[k]],
                 !.key = <<>>, !.value = <<>>, !.getting = "key"]

(* Fault: what follows the backslash is looked at. *)
InQuotesUnescaped(buf, p) ==
  IF buf[p.i] = "backslash" THEN [p EXCEPT !.i = @ + 1]
  ELSE IF buf[p.i] = "quote" THEN [p EXCEPT !.i = @ + 1, !.getting = "separator"]
  ELSE [p EXCEPT !.i = @ + 1, !.value = Append(@, buf[p.i])]

InQuotes(buf, p) ==
  IF buf[p.i] = "backslash"
  THEN IF p.i = Len(buf) THEN Failed(p) ELSE [p EXCEPT !.i = @ + 2, !.value = Append(@, buf[p.i + 1])]
  ELSE IF buf[p.i] = "quote" THEN [p EXCEPT !.i = @ + 1, !.getting = "separator"]
  ELSE [p EXCEPT !.i = @ + 1, !.value = Append(@, buf[p.i])]

InKey(buf, p) ==
  LET next == SkipLws(buf, p.i + 1) IN
  IF buf[p.i] = "," THEN IF p.key # <<>> THEN Failed(p) ELSE [p EXCEPT !.i = next]
  ELSE IF buf[p.i] = "="
  THEN IF p.key = <<>> \/ next > Len(buf) THEN Failed(p)
       ELSE IF buf[next] = "quote" THEN [p EXCEPT !.i = next + 1, !.getting = "quoted"]
       ELSE [p EXCEPT !.i = next, !.getting = "value"]
  ELSE IF Lws(buf[p.i])
  THEN IF next > Len(buf) \/ buf[next] # "=" THEN Failed(p) ELSE [p EXCEPT !.i = next]
  ELSE [p EXCEPT !.i = @ + 1, !.key = Append(@, buf[p.i])]

(* A value, or behind the quotes of one.                                   *)
InValue(buf, p) ==
  IF Lws(buf[p.i]) \/ buf[p.i] = "," THEN [Extracted(p) EXCEPT !.i = SkipLws(buf, p.i + 1)]
  ELSE IF p.getting = "separator" THEN Failed(p)
  ELSE [p EXCEPT !.i = @ + 1, !.value = Append(@, buf[p.i])]

(* The last directive needs no separator; every step takes a byte or more. *)
ParseDirectives(buf) ==
  LET Parse(p, k) ==
        IF p.error \/ p.i > Len(buf) THEN p
        ELSE IF p.getting = "key" THEN InKey(buf, p)
        ELSE IF p.getting = "quoted" THEN InQuotes(buf, p)
        ELSE InValue(buf, p)
      end == FoldLeft(Parse, Beginning(buf), [k \in 1..Len(buf) |-> k])
  IN  IF end.error \/ end.getting = "quoted" THEN Failed(end)
      ELSE IF end.key # <<>> THEN Extracted(end) ELSE end

----------------------------------------------------------------------------
(* The peer. *)

Quoted(value) ==
  LET escaped(byte) == IF byte \in {"quote", "backslash"} THEN <<"backslash", byte>> ELSE <<byte>>
  IN  <<"quote">> \o FlattenSeq([k \in DOMAIN value |-> escaped(value[k])]) \o <<"quote">>

Separators == {<<",">>, <<"space">>, <<",", "space">>, <<"space", ",">>}
Texts(bytes, n) == UNION {[1..k -> bytes] : k \in 0..n}

Write(key, value, quoted, equals, separator) ==
  /\ ~quoted => value # <<>> /\ ToSet(value) \subseteq PlainBytes \cup {"="}
  /\ text' = text \o <<key>> \o equals \o (IF quoted THEN Quoted(value) ELSE value) \o separator
  /\ listed' = Append(listed, [key |-> <<key>>, value |-> value])

DirectiveNext ==
  Len(listed) < MaxValue /\
  \E key \in Keys, value \in Texts(PlainBytes \cup Special, MaxValue - Len(listed)), quoted \in BOOLEAN, separator \in Separators :
    \E equals \in {<<"=">>, <<"space", "=", "space">>} : Write(key, value, quoted, equals, separator)

----------------------------------------------------------------------------
(* A challenge that was written with any spaces and quotes is read as it   *)
(* was meant, with its last separator or without; and the parser refuses a *)
(* key that comes twice, and nothing else.                                 *)
DirectivesParsed ==
  LET twice == \E i, j \in DOMAIN listed : i < j /\ listed[i].key = listed[j].key
      Meant(p) == IF twice THEN p.error
                  ELSE ~p.error /\ {<<k, p.map[k]>> : k \in DOMAIN p.map} = {<<w.key, w.value>> : w \in ToSet(listed)}
  IN  /\ Meant(ParseDirectives(text))
      /\ text # <<>> /\ Last(text) = "," => Meant(ParseDirectives(Front(text)))
===============================================================================
