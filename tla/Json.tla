-------------------------------- MODULE Json --------------------------------
(***************************************************************************)
(* The JSON reader and writer (JsonParser and JsonValue,                   *)
(* src/util/json.cpp) as operators on sequences of bytes.  Every message   *)
(* and the saved history pass through them.                                *)
(*                                                                         *)
(* A value is a record: [t |-> "null"], [t |-> "bool", b], [t |-> "num",   *)
(* n], [t |-> "str", s], [t |-> "arr", a] with a sequence of values or     *)
(* [t |-> "obj", o] with a function of the keys.  A number is an integer   *)
(* with an optional minus: fractions, exponents and the rounding of        *)
(* doubles above 10^15 are left out.                                       *)
(***************************************************************************)
EXTENDS Integers, Sequences, FiniteSets, SequencesExt

CONSTANT MaxDepth  \* the 64 of ParseValue

ASSUME DepthAssumption == MaxDepth \in Nat

Quote     == 34
Minus     == 45
Backslash == 92
True      == <<116, 114, 117, 101>>
False     == <<102, 97, 108, 115, 101>>
Null      == <<110, 117, 108, 108>>
Blanks    == {32, 9, 13, 10}
Digits    == 48..57

\* The letter after a backslash, and the byte it stands for.
Escapes == [c \in {34, 92, 98, 102, 110, 114, 116} |->
  CASE c = 98 -> 8 [] c = 102 -> 12 [] c = 110 -> 10 [] c = 114 -> 13 [] c = 116 -> 9 [] OTHER -> c]

-----------------------------------------------------------------------------
(* JsonValue                                                                *)

Nothing == [t |-> "null"]
Bool(b) == [t |-> "bool", b |-> b]
Number(n) == [t |-> "num", n |-> n]
String(s) == [t |-> "str", s |-> s]
MakeArray == [t |-> "arr", a |-> <<>>]
MakeObject == [t |-> "obj", o |-> <<>>]

\* A value of another type is dropped first (SetType).
SetKey(v, key, x) ==
  LET o == IF v.t = "obj" THEN v.o ELSE <<>> IN
  [t |-> "obj", o |-> [k \in DOMAIN o \cup {key} |-> IF k = key THEN x ELSE o[k]]]

AppendTo(v, x) == [t |-> "arr", a |-> Append(IF v.t = "arr" THEN v.a ELSE <<>>, x)]

-----------------------------------------------------------------------------
(* The writer                                                               *)

HexChar(n) == IF n < 10 THEN 48 + n ELSE 87 + n

\* Mutant: only the quote and the backslash are escaped.
EscapeByteRaw(c) == IF c \in {Quote, Backslash} THEN <<Backslash, c>> ELSE <<c>>

EscapeByte(c) ==
  LET letters == {l \in DOMAIN Escapes : Escapes[l] = c} IN
  IF letters # {} THEN <<Backslash, CHOOSE l \in letters : TRUE>>
  ELSE IF c < 32 THEN <<Backslash, 117, 48, 48, HexChar(c \div 16), HexChar(c % 16)>>
  ELSE <<c>>

EscapeString(s) == <<Quote>> \o FlattenSeq([i \in DOMAIN s |-> EscapeByte(s[i])]) \o <<Quote>>

\* The order of std::string, and of the keys of a std::map.
Less(s, t) == LET n == Len(LongestCommonPrefix({s, t})) IN
  n < Len(t) /\ (n = Len(s) \/ s[n + 1] < t[n + 1])

RECURSIVE Decimal(_)
Decimal(n) == IF n < 0 THEN <<Minus>> \o Decimal(-n)
              ELSE IF n < 10 THEN <<48 + n>> ELSE Append(Decimal(n \div 10), 48 + (n % 10))

\* The parts with commas between them.
Commas(parts) == FlattenSeq([i \in DOMAIN parts |-> IF i = 1 THEN parts[i] ELSE <<44>> \o parts[i]])

RECURSIVE Serialize(_)
Serialize(v) ==
  CASE v.t = "null" -> Null
    [] v.t = "bool" -> IF v.b THEN True ELSE False
    [] v.t = "num" -> Decimal(v.n)
    [] v.t = "str" -> EscapeString(v.s)
    [] v.t = "arr" -> <<91>> \o Commas([i \in DOMAIN v.a |-> Serialize(v.a[i])]) \o <<93>>
    [] v.t = "obj" -> LET keys == SetToSortSeq(DOMAIN v.o, Less) IN
         <<123>> \o Commas([i \in DOMAIN keys |->
           EscapeString(keys[i]) \o <<58>> \o Serialize(v.o[keys[i]])]) \o <<125>>

-----------------------------------------------------------------------------
(* The reader: each part gets the text and a position, and returns whether  *)
(* it succeeded, where it is and what it has read.                          *)

Fail == [ok |-> FALSE]
Got(i, v) == [ok |-> TRUE, i |-> i, v |-> v]
At(t, i, c) == i <= Len(t) /\ t[i] = c
Spelled(t, i, word) == i + Len(word) - 1 <= Len(t) /\ SubSeq(t, i, i + Len(word) - 1) = word

RECURSIVE SkipWhitespace(_, _)
SkipWhitespace(t, i) == IF i <= Len(t) /\ t[i] \in Blanks THEN SkipWhitespace(t, i + 1) ELSE i

HexDigit(c) ==
  CASE c \in 48..57 -> c - 48 [] c \in 97..102 -> c - 87 [] c \in 65..70 -> c - 55 [] OTHER -> -1

\* Four hexadecimal digits from i on, or -1.
Code(t, i) ==
  IF i + 3 > Len(t) \/ \E k \in i..(i + 3) : HexDigit(t[k]) < 0 THEN -1
  ELSE HexDigit(t[i]) * 4096 + HexDigit(t[i + 1]) * 256 + HexDigit(t[i + 2]) * 16 + HexDigit(t[i + 3])

AppendUtf8(code) ==
  CASE code < 128 -> <<code>>
    [] code \in 128..2047 -> <<192 + (code \div 64), 128 + (code % 64)>>
    [] code \in 2048..65535 -> <<224 + (code \div 4096), 128 + ((code \div 64) % 64), 128 + (code % 64)>>
    [] OTHER -> <<240 + (code \div 262144), 128 + ((code \div 4096) % 64),
                  128 + ((code \div 64) % 64), 128 + (code % 64)>>

\* Mutant: the two halves of a character are read on their own.
UnicodeHalf(t, i) == IF Code(t, i) < 0 THEN Fail ELSE Got(i + 4, AppendUtf8(Code(t, i)))

\* A high half takes the low half that follows with it; a half that is alone
\* is kept.
Halves(i, high, low) ==
  IF high < 0 THEN Fail
  ELSE IF high \in 55296..56319 /\ low \in 56320..57343
  THEN Got(i + 10, AppendUtf8(65536 + (high - 55296) * 1024 + (low - 56320)))
  ELSE Got(i + 4, AppendUtf8(high))

\* After \u.
Unicode(t, i) ==
  Halves(i, Code(t, i), IF At(t, i + 4, Backslash) /\ At(t, i + 5, 117) THEN Code(t, i + 6) ELSE -1)

\* One byte or one escape.
StringPart(t, i) ==
  IF t[i] # Backslash THEN Got(i + 1, <<t[i]>>)
  ELSE IF i = Len(t) THEN Fail
  ELSE IF t[i + 1] = 117 THEN Unicode(t, i + 2)
  ELSE IF t[i + 1] = 47 THEN Got(i + 2, <<47>>)
  ELSE IF t[i + 1] \in DOMAIN Escapes THEN Got(i + 2, <<Escapes[t[i + 1]]>>)
  ELSE Fail

\* The part p has been read.
RECURSIVE ParseString(_, _, _), AfterPart(_, _, _)
AfterPart(t, p, out) == IF p.ok THEN ParseString(t, p.i, out \o p.v) ELSE Fail

\* i is after the opening quote.
ParseString(t, i, out) ==
  IF i > Len(t) THEN Fail
  ELSE IF t[i] = Quote THEN Got(i + 1, out)
  ELSE AfterPart(t, StringPart(t, i), out)

\* The digits from i on and their value.
RECURSIVE ReadDigits(_, _, _)
ReadDigits(t, i, n) ==
  IF i <= Len(t) /\ t[i] \in Digits THEN ReadDigits(t, i + 1, n * 10 + t[i] - 48) ELSE Got(i, n)

ParseNumber(t, i) ==
  LET first == IF At(t, i, Minus) \/ At(t, i, 43) THEN i + 1 ELSE i
      d == ReadDigits(t, first, 0)
  IN  IF d.i = first THEN Fail ELSE Got(d.i, Number(IF At(t, i, Minus) THEN -d.v ELSE d.v))

TooDeep(depth) == depth > MaxDepth

StringValue(s) == IF s.ok THEN Got(s.i, String(s.v)) ELSE Fail

RECURSIVE ParseValue(_, _, _), ParseElements(_, _, _, _), ParseMembers(_, _, _, _),
          AfterElement(_, _, _, _), AfterKey(_, _, _, _), AfterMember(_, _, _, _, _)

ParseValue(t, i, depth) ==
  IF TooDeep(depth) \/ i > Len(t) THEN Fail
  ELSE CASE t[i] = 123 -> LET j == SkipWhitespace(t, i + 1) IN
              IF At(t, j, 125) THEN Got(j + 1, MakeObject) ELSE ParseMembers(t, j, depth + 1, MakeObject)
         [] t[i] = 91 -> LET j == SkipWhitespace(t, i + 1) IN
              IF At(t, j, 93) THEN Got(j + 1, MakeArray) ELSE ParseElements(t, j, depth + 1, MakeArray)
         [] t[i] = Quote -> StringValue(ParseString(t, i + 1, <<>>))
         [] t[i] = 116 -> IF Spelled(t, i, True) THEN Got(i + 4, Bool(TRUE)) ELSE Fail
         [] t[i] = 102 -> IF Spelled(t, i, False) THEN Got(i + 5, Bool(FALSE)) ELSE Fail
         [] t[i] = 110 -> IF Spelled(t, i, Null) THEN Got(i + 4, Nothing) ELSE Fail
         [] OTHER -> ParseNumber(t, i)

\* The loop of ParseArray; AfterElement has read the element x.
ParseElements(t, i, depth, out) ==
  AfterElement(t, depth, out, ParseValue(t, SkipWhitespace(t, i), depth))

AfterElement(t, depth, out, x) ==
  IF ~x.ok THEN Fail
  ELSE LET j == SkipWhitespace(t, x.i) IN
       IF At(t, j, 44) THEN ParseElements(t, j + 1, depth, AppendTo(out, x.v))
       ELSE IF At(t, j, 93) THEN Got(j + 1, AppendTo(out, x.v)) ELSE Fail

\* The loop of ParseObject; AfterKey has read the key, AfterMember its value x.
ParseMembers(t, i, depth, out) ==
  LET k == SkipWhitespace(t, i) IN
  IF At(t, k, Quote) THEN AfterKey(t, depth, out, ParseString(t, k + 1, <<>>)) ELSE Fail

AfterKey(t, depth, out, key) ==
  IF ~key.ok THEN Fail
  ELSE LET c == SkipWhitespace(t, key.i) IN
       IF At(t, c, 58)
       THEN AfterMember(t, depth, out, key.v, ParseValue(t, SkipWhitespace(t, c + 1), depth))
       ELSE Fail

AfterMember(t, depth, out, key, x) ==
  IF ~x.ok THEN Fail
  ELSE LET j == SkipWhitespace(t, x.i) IN
       IF At(t, j, 44) THEN ParseMembers(t, j + 1, depth, SetKey(out, key, x.v))
       ELSE IF At(t, j, 125) THEN Got(j + 1, SetKey(out, key, x.v)) ELSE Fail

\* JsonValue::Parse: the whole text is one value.
Parse(t) ==
  LET x == ParseValue(t, SkipWhitespace(t, 1), 0) IN
  IF x.ok /\ SkipWhitespace(t, x.i) = Len(t) + 1 THEN x ELSE Fail
=============================================================================
