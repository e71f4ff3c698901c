------------------------------- MODULE Codecs -------------------------------
(***************************************************************************)
(* What the messages of the protocol are made with, against what it is     *)
(* for: JSON (Json), texts, URLs and names (Text), and the buffering of    *)
(* SHA-256 (src/util/sha256.cpp).                                          *)
(*                                                                         *)
(* A behaviour works on one kind of input.  A JSON value grows by          *)
(* JsonValue::Set and Append, a text by one byte or character at a time; a *)
(* digest is fed chunk by chunk, as Sha256File and HandleUpload do with    *)
(* whatever a read returns.                                                *)
(***************************************************************************)
EXTENDS Text

CONSTANTS
  Scalars, Keys, MaxSize,    \* JSON: the leaves, the keys, the bound on the size of a value
  Damage,                    \* bytes that replace one of a JSON text
  Characters, MaxString,     \* code points of a string, lone halves too, and its length
  NamePieces, MaxName,       \* what a file name is put together of, and its length
  Devices,                   \* the names Windows keeps for devices, in lower case
  ParamBytes, MaxParam,      \* the bytes of two parameters, and their length
  Block, LengthBytes,        \* SHA-256: 64 and 8
  MaxFed                     \* bytes of a file

ASSUME BlockAssumption == Block \in Nat /\ LengthBytes \in 1..(Block - 1)

VARIABLES
  kind,    \* what is worked on
  value,   \* the JSON value
  text,    \* the characters of a string, the bytes of a name or of parameters
  fed,     \* bytes of the file so far: the i-th is i
  bits,    \* m_bitCount
  buffer,  \* m_buffer, zero at first
  blocks,  \* what Transform was given
  final    \* Final has been called

input == <<value, text>>
hash  == <<fed, bits, buffer, blocks, final>>
vars  == <<kind, input, hash>>

Init ==
  /\ kind \in {"json", "string", "name", "params", "file"}
  /\ value = Nothing /\ text = <<>>
  /\ fed = 0 /\ bits = 0 /\ buffer = [i \in 1..Block |-> 0] /\ blocks = <<>> /\ final = FALSE

-----------------------------------------------------------------------------
(* Inputs                                                                   *)

\* A leaf is put in, or the value itself is put into a new one.
Build ==
  /\ kind = "json" /\ Len(Serialize(value)) < MaxSize
  /\ \/ \E x \in Scalars : value' = x \/ value' = AppendTo(value, x)
     \/ \E x \in Scalars, k \in Keys : value' = SetKey(value, k, x)
     \/ value' = AppendTo(MakeArray, value) \/ value' = MakeArray
     \/ \E k \in Keys : value' = SetKey(MakeObject, k, value)
  /\ UNCHANGED <<kind, text, hash>>

TypeIn(k, pieces, limit) ==
  /\ kind = k
  /\ \E p \in pieces : text' = text \o p /\ Len(text') <= limit
  /\ UNCHANGED <<kind, value, hash>>

-----------------------------------------------------------------------------
(* SHA-256                                                                  *)

\* Mutant: a chunk that just fills the block is kept.
FillsLate(data, room) == Len(data) > room

\* Sha256::Update: the chunk completes the block.
Fills(data, room) == Len(data) >= room

\* memcpy to the buffer at an index.
Put(buf, index, data) ==
  [i \in 1..Block |-> IF i - index \in DOMAIN data THEN data[i - index] ELSE buf[i]]

Whole(data) == [k \in 1..(Len(data) \div Block) |-> SubSeq(data, (k - 1) * Block + 1, k * Block)]

\* Sha256::Update on [bits, buffer, blocks].
Updated(s, data) ==
  LET index == (s.bits \div 8) % Block
      room  == Block - index
      fill  == IF index = 0 THEN 0 ELSE room
      rest  == SubSeq(data, fill + 1, Len(data))
      tail  == SubSeq(rest, Len(rest) - (Len(rest) % Block) + 1, Len(rest))
      bits1 == s.bits + 8 * Len(data)
      full  == Put(s.buffer, index, SubSeq(data, 1, room))
  IN  IF index > 0 /\ ~Fills(data, room)
      THEN [s EXCEPT !.bits = bits1, !.buffer = Put(s.buffer, index, data)]
      ELSE [bits |-> bits1,
            buffer |-> Put(IF index > 0 THEN full ELSE s.buffer, 0, tail),
            blocks |-> s.blocks \o (IF index > 0 THEN <<full>> ELSE <<>>) \o Whole(rest)]

State == [bits |-> bits, buffer |-> buffer, blocks |-> blocks]
Becomes(s) == bits' = s.bits /\ buffer' = s.buffer /\ blocks' = s.blocks

\* One read of the file and its Update.
Update ==
  /\ kind = "file" /\ ~final
  /\ \E n \in 1..(MaxFed - fed) :
       /\ Becomes(Updated(State, [i \in 1..n |-> fed + i]))
       /\ fed' = fed + n
  /\ UNCHANGED <<kind, input, final>>

BitsOf(n) == [i \in 1..LengthBytes |-> (n \div (256 ^ (LengthBytes - i))) % 256]

\* Sha256::Final, up to the digest.
Final ==
  /\ kind = "file" /\ ~final
  /\ LET index == (bits \div 8) % Block
         limit == Block - LengthBytes
         pad   == IF index < limit THEN limit - index ELSE limit + Block - index
         first == Updated(State, <<128>> \o [i \in 1..(pad - 1) |-> 0])
     IN  Becomes(Updated(first, BitsOf(bits)))
  /\ final' = TRUE
  /\ UNCHANGED <<kind, input, fed>>

Next ==
  \/ Build \/ Update \/ Final
  \/ TypeIn("string", {<<c>> : c \in Characters}, MaxString)
  \/ TypeIn("name", NamePieces, MaxName)
  \/ TypeIn("params", {<<c>> : c \in ParamBytes}, MaxParam)

Spec == Init /\ [][Next]_vars

-----------------------------------------------------------------------------
(* Properties                                                               *)

RECURSIVE Depth(_)
Depth(v) ==
  LET over(S) == IF S = {} THEN 0 ELSE 1 + (CHOOSE d \in S : \A e \in S : d >= e) IN
  CASE v.t = "arr" -> over({Depth(v.a[i]) : i \in DOMAIN v.a})
    [] v.t = "obj" -> over({Depth(v.o[k]) : k \in DOMAIN v.o})
    [] OTHER -> 0

ReadsBack(v) == LET x == Parse(Serialize(v)) IN
  x.ok = (Depth(v) <= MaxDepth) /\ (x.ok => x.v = v)

\* A written value is read back as it was unless it is nested too deeply; it
\* has no control bytes, which other readers refuse in a string; an object or
\* array that is cut anywhere is refused.
WrittenIsRead ==
  LET t == Serialize(value) IN
  /\ ReadsBack(value) /\ \A i \in DOMAIN t : t[i] >= 32
  /\ value.t \in {"arr", "obj"} => \A n \in 0..(Len(t) - 1) : ~Parse(Upto(t, n)).ok

\* What is read from a damaged text is some value, not too deep, which is
\* written and read as itself.
DamagedIsSound ==
  LET t == Serialize(value) IN
  \A i \in DOMAIN t : \A d \in {<<>>} \cup {<<c>> : c \in Damage} :
    LET x == Parse(Upto(t, i - 1) \o d \o From(t, i + 1)) IN
    x.ok => Depth(x.v) <= MaxDepth /\ ReadsBack(x.v)

Units(code) == IF code < 65536 THEN <<code>>
               ELSE <<55296 + ((code - 65536) \div 1024), 56320 + ((code - 65536) % 1024)>>
Hex4(u) == <<HexChar(u \div 4096), HexChar((u \div 256) % 16), HexChar((u \div 16) % 16), HexChar(u % 16)>>
Spelling(code) == FlattenSeq([i \in DOMAIN Units(code) |-> <<Backslash, 117>> \o Hex4(Units(code)[i])])

\* The code points of UTF-8, of that of a lone half too.
RECURSIVE Points(_)
Points(b) ==
  LET low(i) == b[i] - 128 IN
  CASE b = <<>> -> <<>>
    [] b # <<>> /\ b[1] < 128 -> <<b[1]>> \o Points(From(b, 2))
    [] b # <<>> /\ b[1] \in 192..223 -> <<(b[1] - 192) * 64 + low(2)>> \o Points(From(b, 3))
    [] b # <<>> /\ b[1] \in 224..239 ->
         <<(b[1] - 224) * 4096 + low(2) * 64 + low(3)>> \o Points(From(b, 4))
    [] b # <<>> /\ b[1] >= 240 ->
         <<(b[1] - 240) * 262144 + low(2) * 4096 + low(3) * 64 + low(4)>> \o Points(From(b, 5))

\* A high half with the low half that follows it is one character.
Joined(t) ==
  LET join(s, c) == IF s # <<>> /\ s[Len(s)] \in 55296..56319 /\ c \in 56320..57343
                    THEN Append(Front(s), 65536 + (s[Len(s)] - 55296) * 1024 + (c - 56320))
                    ELSE Append(s, c)
  IN  FoldLeft(join, <<>>, t)

\* A name that another client writes with \u escapes is the same name in
\* UTF-8; two halves are one character, and one that is alone stays by itself
\* and leaves its neighbours as they are.
EscapedIsRead ==
  LET x == Parse(<<Quote>> \o FlattenSeq([i \in DOMAIN text |-> Spelling(text[i])]) \o <<Quote>>) IN
  kind = "string" => x.ok /\ Points(x.v.s) = Joined(text)

\* JSON is exact (JsonParser, JsonValue): what is written is read, nothing
\* torn is taken for a message, damage makes no value that could not have been
\* sent, and both spellings of a name are one.
JsonExact == (kind = "json" => WrittenIsRead /\ DamagedIsSound) /\ EscapedIsRead

\* A PIN and a session id, whatever their bytes, arrive as they were entered
\* (FetchShareList to QueryParam); a share's URL, as it is or as it comes out
\* of a clipboard, leads to the share (BuildUrl to ParseShareUrl).
QueryExact ==
  /\ \A n \in 0..Len(text) :
       LET target == ListTarget(Upto(text, n), From(text, n + 1)) IN
       /\ QueryParam(target, SessionIdKey) = Upto(text, n)
       /\ QueryParam(target, PinKey) = From(text, n + 1)
       /\ PathOf(target) = <<47>>
  /\ LET id == SelectSeq(text, LAMBDA c : c \in Plain)
         ip == <<49, 46, 50>>
     IN  \A port \in {1024, 53317, 65535} : LET url == BuildUrl(ip, port, id) IN
         \A u \in {url, <<32>> \o url \o <<13, 10>>, <<Quote>> \o url \o <<Quote>>} :
           ParseShareUrl(u) = [ok |-> TRUE, secure |-> FALSE, ip |-> ip, port |-> port, sessionId |-> id, pin |-> <<>>]

\* Windows takes the name for a device's, whatever is after the first dot.
Reserved(name) ==
  LET dot  == FirstOf(name, {Dot})
      base == Stripped(IF dot = 0 THEN name ELSE Upto(name, dot - 1))
  IN  \E d \in Devices : EqualsNoCase(base, d)

\* A received file has a name that Windows can store, in the directory it was
\* meant for (SanitizeFileNameW); but one that is cut without an extension may
\* end in a space, one with a very long extension stays too long, as the
\* extension is put after the cut, and a device's name, as NUL or NUL.txt, is
\* let through where it was sent, or made by a cut.
NameStorable ==
  LET name == SanitizeFileName(text)
      dir  == <<67, 58, 92, 100>>
      sent == Stripped(Underscored(text))
      ext  == FileExtension(sent)
  IN  /\ name # <<>> /\ \A i \in DOMAIN name : name[i] \notin Forbidden
      /\ FileNameFromPath(JoinPath(dir, name)) = name /\ DirectoryFromPath(JoinPath(dir, name)) = dir
      /\ name[Len(name)] \in {Dot, Space} => Len(name) = NameCut /\ ext = <<>>
      /\ Len(name) > NameMax => Len(ext) >= NameMax - NameCut
      /\ Reserved(name) => Reserved(sent) \/ Len(sent) > NameMax

\* Texts, URLs and names.
TextExact == (kind = "params" => QueryExact) /\ (kind = "name" => NameStorable)

Padded(n) ==
  LET zeros == CHOOSE z \in 0..(Block - 1) : (n + 1 + z + LengthBytes) % Block = 0 IN
  [i \in 1..n |-> i] \o <<128>> \o [i \in 1..zeros |-> 0] \o BitsOf(8 * n)

\* The digest is that of the whole file, padded, however the reads have cut it
\* into chunks (Sha256::Update, Final).
DigestChunked == blocks = Whole(IF final THEN Padded(fed) ELSE [i \in 1..fed |-> i])
=============================================================================
