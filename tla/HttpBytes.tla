----------------------------- MODULE HttpBytes -----------------------------
(***************************************************************************)
(* What HTTP puts on a connection, for HttpConnection and HttpClient.      *)
(* Line is the first line with the headers up to the empty line; Size is   *)
(* the number in front of a chunk; Data is a unit of body.                 *)
(***************************************************************************)
EXTENDS Integers, Sequences, FiniteSetsExt

Tokens == [kind: {"line", "data", "size", "cr", "lf"}, n: Nat]
Token(kind, n) == [kind |-> kind, n |-> n]
Line(r) == Token("line", r)
Data(r) == Token("data", r)
Size(n) == Token("size", n)
CR      == Token("cr", 0)
LF      == Token("lf", 0)
CRLF    == <<CR, LF>>

Units(r, n) == [i \in 1..n |-> Data(r)]
Chunk(r, n) == <<Size(n)>> \o CRLF \o (Units(r, n) \o CRLF)

\* The units in the first n chunks, and the bytes of the last n chunks with the
\* end of the body.
Sums(chunks) ==
  LET sum[n \in 0..Len(chunks)] == IF n = 0 THEN 0 ELSE sum[n - 1] + chunks[n] IN sum
Framed(r, chunks) ==
  LET bytes[n \in 0..Len(chunks)] ==
        IF n = 0 THEN <<Size(0)>> \o CRLF \o CRLF
        ELSE Chunk(r, chunks[Len(chunks) - n + 1]) \o bytes[n - 1]
  IN  bytes

Total(s)      == Sums(s.chunks)[Len(s.chunks)]
Chunked(r, s) == Framed(r, s.chunks)[Len(s.chunks)]

\* Where text first occurs in bytes (std::string::find); 0 is npos.
Find(text, bytes) ==
  LET At == {i \in 1..(Len(bytes) - Len(text) + 1) :
               SubSeq(bytes, i, i + Len(text) - 1) = text}
  IN  IF At = {} THEN 0 ELSE Min(At)
Upto(bytes, n)  == SubSeq(bytes, 1, n)
After(bytes, n) == SubSeq(bytes, n + 1, Len(bytes))

\* strtol of the line: what is not a size counts as 0.
SizeIn(bytes) ==
  IF bytes # <<>> /\ bytes[1].kind = "size" THEN bytes[1].n ELSE 0
=============================================================================
