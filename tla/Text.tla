-------------------------------- MODULE Text --------------------------------
(***************************************************************************)
(* The helpers for texts, names and paths (src/util/common.cpp), and what  *)
(* the protocol builds from them: query parameters (register.cpp) and the  *)
(* URL of a share (download.cpp).  Texts are sequences of bytes, as in     *)
(* Json; a wide character of a name counts as one byte.                    *)
(***************************************************************************)
EXTENDS Json

CONSTANTS
  NameMax, NameCut,  \* the 200 and 190 of SanitizeFileNameW
  DefaultPort        \* LSXP_DEFAULT_PORT

ASSUME NameAssumption == NameMax \in Nat /\ NameCut \in 0..NameMax /\ DefaultPort \in 1..65535

\* The positions of the bytes in S, and find_first_of and find_last_of.
Where(t, S) == {i \in DOMAIN t : t[i] \in S}
FirstOf(t, S) == IF Where(t, S) = {} THEN 0 ELSE CHOOSE i \in Where(t, S) : \A j \in Where(t, S) : i <= j
LastOf(t, S) == IF Where(t, S) = {} THEN 0 ELSE CHOOSE i \in Where(t, S) : \A j \in Where(t, S) : i >= j

From(t, i) == SubSeq(t, i, Len(t))
Upto(t, i) == SubSeq(t, 1, i)

Trim(t) ==
  LET seen == {i \in DOMAIN t : t[i] > 32} IN
  IF seen = {} THEN <<>>
  ELSE SubSeq(t, CHOOSE i \in seen : \A j \in seen : i <= j, CHOOSE i \in seen : \A j \in seen : i >= j)

ToLower(t) == [i \in DOMAIN t |-> IF t[i] \in 65..90 THEN t[i] + 32 ELSE t[i]]

StartsWith(t, prefix) == IsPrefix(prefix, t)

EqualsNoCase(s, t) == Len(s) = Len(t) /\ ToLower(s) = ToLower(t)

\* The parts between the separators, empty ones included.
Split(t, separator) ==
  LET step(parts, c) == IF c = separator THEN Append(parts, <<>>)
                        ELSE [parts EXCEPT ![Len(parts)] = Append(@, c)]
  IN  FoldLeft(step, <<<<>>>>, t)

-----------------------------------------------------------------------------
(* URLs                                                                     *)

Percent == 37
Plain == (48..57) \cup (65..90) \cup (97..122) \cup {45, 46, 95, 126}

UpperHex(n) == IF n < 10 THEN 48 + n ELSE 55 + n

\* Mutant: the percent sign itself stays as it is.
EncodeByteOnce(c) == IF c \in Plain \cup {Percent} THEN <<c>>
                     ELSE <<Percent, UpperHex(c \div 16), UpperHex(c % 16)>>

EncodeByte(c) == IF c \in Plain THEN <<c>> ELSE <<Percent, UpperHex(c \div 16), UpperHex(c % 16)>>

UrlEncode(t) == FlattenSeq([i \in DOMAIN t |-> EncodeByte(t[i])])

RECURSIVE UrlDecode(_)
UrlDecode(t) ==
  IF t = <<>> THEN <<>>
  ELSE IF t[1] = Percent /\ Len(t) >= 3 /\ \A k \in {2, 3} : HexDigit(t[k]) >= 0
  THEN <<HexDigit(t[2]) * 16 + HexDigit(t[3])>> \o UrlDecode(From(t, 4))
  ELSE <<IF t[1] = 43 THEN 32 ELSE t[1]>> \o UrlDecode(From(t, 2))

\* The first parameter of this name; empty if there is none.
QueryParam(target, key) ==
  LET question == FirstOf(target, {63})
      pairs    == IF question = 0 THEN <<>> ELSE Split(From(target, question + 1), 38)
      equals(p) == FirstOf(p, {61})
      name(p)  == UrlDecode(IF equals(p) = 0 THEN p ELSE Upto(p, equals(p) - 1))
      found    == SelectSeq(pairs, LAMBDA p : p # <<>> /\ EqualsNoCase(name(p), key))
  IN  IF found = <<>> \/ equals(Head(found)) = 0 THEN <<>>
      ELSE UrlDecode(From(Head(found), equals(Head(found)) + 1))

\* The text before the ? of a request.
PathOf(target) == LET q == FirstOf(target, {63}) IN IF q = 0 THEN target ELSE Upto(target, q - 1)

Http  == <<104, 116, 116, 112, 58, 47, 47>>
Https == <<104, 116, 116, 112, 115, 58, 47, 47>>
SessionIdKey == <<115, 101, 115, 115, 105, 111, 110, 73, 100>>
PinKey == <<112, 105, 110>>

\* FetchShareList: the target of a prepare-download request.
ListTarget(sessionId, pin) ==
  LET withPin == IF pin = <<>> THEN <<>> ELSE PinKey \o <<61>> \o UrlEncode(pin)
      session == IF sessionId = <<>> THEN <<>> ELSE SessionIdKey \o <<61>> \o UrlEncode(sessionId)
      query   == IF withPin = <<>> \/ session = <<>> THEN withPin \o session
                 ELSE withPin \o <<38>> \o session
  IN  <<47>> \o (IF query = <<>> THEN <<>> ELSE <<63>> \o query)

\* ShareManager::BuildUrl.
BuildUrl(ip, port, sessionId) ==
  Http \o ip \o <<58>> \o Decimal(port) \o <<47, 63>> \o SessionIdKey \o <<61>> \o sessionId

\* atoi of a text without a sign.
Atoi(t) == ReadDigits(t, 1, 0).v

NoShare == [ok |-> FALSE]

\* ParseShareUrl, for hosts that resolve to themselves.
ParseShareUrl(url) ==
  LET trimmed   == Trim(url)
      unquoted  == IF Len(trimmed) > 2 /\ trimmed[1] = Quote /\ trimmed[Len(trimmed)] = Quote
                   THEN SubSeq(trimmed, 2, Len(trimmed) - 1) ELSE trimmed
      secure    == StartsWith(ToLower(unquoted), Https)
      text      == IF secure THEN From(unquoted, 9)
                   ELSE IF StartsWith(ToLower(unquoted), Http) THEN From(unquoted, 8) ELSE unquoted
      separator == FirstOf(text, {47, 63})
      authority == IF separator = 0 THEN text ELSE Upto(text, separator - 1)
      query     == IF separator = 0 THEN <<>> ELSE From(text, separator)
      colon     == FirstOf(authority, {58})
      host      == IF colon = 0 THEN authority ELSE Upto(authority, colon - 1)
      port      == IF colon = 0 THEN DefaultPort ELSE Atoi(From(authority, colon + 1))
  IN  IF host = <<>> \/ port \notin 1..65535 THEN NoShare
      ELSE [ok |-> TRUE, secure |-> secure, ip |-> host, port |-> port,
            sessionId |-> QueryParam(query, SessionIdKey), pin |-> QueryParam(query, PinKey)]

-----------------------------------------------------------------------------
(* Names and paths                                                          *)

Dot == 46
Space == 32
Separators == {47, 92}
Forbidden == (0..31) \cup {34, 42, 47, 58, 60, 62, 63, 92, 124}
Unnamed == <<117, 110, 110, 97, 109, 101, 100>>

DirectoryFromPath(path) ==
  LET last == LastOf(path, Separators) IN IF last = 0 THEN <<>> ELSE Upto(path, last - 1)
FileNameFromPath(path) == From(path, LastOf(path, Separators) + 1)
FileExtension(path) ==
  LET name == FileNameFromPath(path)
      dot  == LastOf(name, {Dot})
  IN  IF dot = 0 THEN <<>> ELSE ToLower(From(name, dot + 1))
EnsureTrailingSlash(path) ==
  IF path = <<>> \/ path[Len(path)] \in Separators THEN path ELSE Append(path, 92)
JoinPath(directory, name) == IF directory = <<>> THEN name ELSE EnsureTrailingSlash(directory) \o name

Underscored(name) == [i \in DOMAIN name |-> IF name[i] \in Forbidden THEN 95 ELSE name[i]]

\* Mutant: the end of the name is left as it is.
StrippedNot(name) == name

\* Without the dots and spaces at its end.
Stripped(name) ==
  LET kept == {i \in DOMAIN name : name[i] \notin {Dot, Space}} IN
  IF kept = {} THEN <<>> ELSE Upto(name, CHOOSE i \in kept : \A j \in kept : i >= j)

\* SanitizeFileNameW: the name under which a received file is stored.
SanitizeFileName(name) ==
  LET stripped == Stripped(Underscored(name))
      named    == IF stripped = <<>> THEN Unnamed ELSE stripped
      ext      == FileExtension(named)
  IN  IF Len(named) <= NameMax THEN named
      ELSE Upto(named, NameCut) \o (IF ext = <<>> THEN <<>> ELSE <<Dot>> \o ext)
=============================================================================
