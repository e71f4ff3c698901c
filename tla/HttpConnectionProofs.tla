------------------------ MODULE HttpConnectionProofs ------------------------
(***************************************************************************)
(* Theorems about HttpConnection, for any number of requests with any      *)
(* bodies, cut into segments anywhere.                                     *)
(*                                                                         *)
(* The reader is aligned with its request: what it has and what is still   *)
(* on the line is the rest of the body that it expects (ReaderInv).  The   *)
(* bytes before a head are none, or the rest of an earlier body, which has *)
(* no first line of a request in it (HeadInv); without a failed read they  *)
(* are the end of a chunked body at most, and the answers are in order     *)
(* (OrderInv).                                                             *)
(***************************************************************************)
EXTENDS HttpConnection, SequenceTheorems, WellFoundedInduction, TLAPS

Last      == Len(sent)
Blank     == CRLF \o CRLF
LineFree(w) == \A i \in DOMAIN w : w[i].kind # "line"
IsEnd(w)  == w \in {<<>>, <<LF>>, CRLF}

Body(r, s) == IF s.chunked THEN Chunked(r, s) ELSE Units(r, Total(s))
BytesOf(q) == Bytes(q, sent[q])

\* The bytes on the line that belong to request q; a later request is there
\* as a whole.
OnLine(q) == IF q = Last THEN line ELSE <<>>
Behind(q) == q < Last => line = BytesOf(Last)

\* The last k chunks of request q have not begun.
ChunksAhead(q, k) ==
  LET chunks == sent[q].chunks
      rest   == Framed(q, chunks)[k]
      taken  == Sums(chunks)[Len(chunks) - k]
  IN
  IF reader.left = SizeNext
    THEN /\ reader.pending \o OnLine(q) = rest
         /\ phase = "body" => got = Units(q, taken)
    ELSE /\ reader.pending \o OnLine(q) = Units(q, reader.left) \o (CRLF \o rest)
         /\ reader.left <= taken
         /\ phase = "body" => got = Units(q, taken - reader.left)

ChunkedAt(q) ==
  /\ ~reader.complete => \E k \in 0..Len(sent[q].chunks) : ChunksAhead(q, k)
  /\ reader.complete /\ ~failed => reader.pending \o OnLine(q) = CRLF
  /\ phase = "body" /\ told = "end" => reader.complete /\ got = Units(q, Total(sent[q]))

FixedAt(q) ==
  /\ reader.left \in 0..Total(sent[q])
  /\ reader.pending \o OnLine(q) = Units(q, reader.left)
  /\ phase = "body" => got = Units(q, Total(sent[q]) - reader.left)
  /\ phase = "body" /\ told = "end" => reader.left = 0

Aligned(q) ==
  /\ reader.chunked = sent[q].chunked /\ req \in {q, NoRequest}
  /\ Behind(q) /\ LineFree(OnLine(q))
  /\ IF reader.chunked THEN ChunkedAt(q) ELSE FixedAt(q)
  /\ ~failed => /\ phase = "body" => q = Last /\ req = q /\ Len(answers) = Last - 1
                /\ Len(answers) \in {Last - 1, Last}
                /\ q < Last => Len(answers) = Last - 1

\* What was taken for a head was the rest of a body.
Unaligned ==
  /\ req = NoRequest /\ ~reader.chunked /\ reader.left = 0 /\ failed
  /\ LineFree(line) \/ (Last > 0 /\ line = BytesOf(Last))

\* A reader that called itself complete is read no more, but for one that has
\* returned all of a body of fixed length.
ReadingOK ==
  /\ phase = "body" /\ reading => told = "more"
  /\ phase = "body" /\ told = "failed" => failed
  /\ (phase = "body" /\ told = "more") \/ phase = "drain" =>
       (reader.complete => ~reader.chunked /\ reader.left = 0)

ReaderInv ==
  /\ reading => phase \in {"body", "drain"}
  /\ phase \in {"body", "drain"} =>
       buffer = <<>> /\ ReadingOK /\ (Unaligned \/ \E q \in 1..Last : Aligned(q))

\* The head of request q comes after m bytes of something else.
Begun(q, m) ==
  LET junk == Upto(buffer, m) IN
  /\ LineFree(junk) /\ (Find(Blank, junk) = 0 \/ m = Len(buffer))
  /\ buffer \o OnLine(q) = junk \o BytesOf(q)
  /\ Behind(q)
  /\ ~failed => /\ q = Last /\ Len(answers) = q - 1
                /\ IsEnd(junk) /\ (junk # <<>> => q > 1 /\ sent[q - 1].chunked)

Idle ==
  /\ LineFree(buffer) /\ LineFree(line)
  /\ ~failed => /\ Len(answers) \in {Last - 1, Last}
                /\ IsEnd(buffer \o line)
                /\ buffer \o line # <<>> => Last > 0 /\ sent[Last].chunked

HeadInv == phase = "head" => Idle \/ \E q \in 1..Last : \E m \in 0..Len(buffer) : Begun(q, m)

OrderInv ==
  /\ ~failed /\ phase # "closed" => \A i \in DOMAIN answers : answers[i] = i
  /\ AnswersInOrder

IInv == TypeOK /\ ReaderInv /\ HeadInv /\ OrderInv
-----------------------------------------------------------------------------
(* Induction, in a form that needs no operator: a set of numbers that has 0 *)
(* and with each number the next one has them all.                         *)

LEMMA MinIs ==
  ASSUME NEW S \in SUBSET Nat, S # {}
  PROVE  Min(S) \in S /\ \A n \in S : Min(S) <= n
<1> DEFINE R == {p \in Nat \X Nat : p[1] < p[2]}
<1>1. IsWellFoundedOn(R, Nat)
  BY NatLessThanWellFounded DEF OpToRel
<1>2. PICK m \in S : \A n \in S : <<n, m>> \notin R
  BY <1>1, WFMin
<1>3. \A n \in S : ~(n < m)
  BY <1>2
<1>4. \A n \in S : m <= n
  BY <1>3
<1> QED
  BY <1>4 DEF Min

LEMMA NatSet ==
  ASSUME NEW S \in SUBSET Nat, 0 \in S, \A n \in S : n + 1 \in S
  PROVE  S = Nat
<1> SUFFICES ASSUME Nat \ S # {} PROVE FALSE
  OBVIOUS
<1>1. PICK m \in Nat \ S : \A n \in Nat \ S : m <= n
  BY MinIs
<1>2. m # 0 /\ m - 1 \in Nat /\ ~(m <= m - 1)
  OBVIOUS
<1>3. m - 1 \in S
  BY <1>1, <1>2
<1> QED
  BY <1>2, <1>3

\* f is what step makes of first, n times at n.
Iterates(f, T, first, N, step) ==
  f \in [0..N -> T] /\ f[0] = first /\ \A n \in 1..N : f[n] = step[<<n, f[n - 1]>>]

LEMMA Recursion ==
  ASSUME NEW T, NEW first \in T, NEW N \in Nat, NEW step \in [(1..N) \X T -> T]
  PROVE  \E f : Iterates(f, T, first, N, step)
<1> DEFINE Fits(k, f) == f[0] = first /\ \A n \in 1..k : f[n] = step[<<n, f[n - 1]>>]
           S == {k \in Nat : k <= N => \E f \in [0..k -> T] : Fits(k, f)}
<1>1. 0 \in S
  <2> DEFINE f == [n \in 0..0 |-> first]
  <2>1. f \in [0..0 -> T] /\ f[0] = first /\ \A n \in 1..0 : FALSE
    OBVIOUS
  <2> QED
    BY <2>1
<1>2. ASSUME NEW k \in Nat, k + 1 <= N, NEW f \in [0..k -> T], Fits(k, f)
      PROVE  \E g \in [0..(k + 1) -> T] : Fits(k + 1, g)
  <2> DEFINE next == step[<<k + 1, f[k]>>]
             g == [n \in 0..(k + 1) |-> IF n = k + 1 THEN next ELSE f[n]]
  <2>1. k + 1 \in 1..N /\ f[k] \in T
    BY <1>2
  <2>2. next \in T
    BY <2>1
  <2> HIDE DEF next
  <2>3. g \in [0..(k + 1) -> T]
    BY <2>2
  <2>4. g[0] = first
    BY <1>2
  <2>5. ASSUME NEW n \in 1..(k + 1)
        PROVE  g[n] = step[<<n, g[n - 1]>>]
    <3>1. CASE n = k + 1
      <4>1. g[n] = next /\ g[n - 1] = f[k]
        BY <3>1
      <4> QED
        BY <4>1, <3>1 DEF next
    <3>2. CASE n # k + 1
      <4>1. n \in 1..k /\ g[n] = f[n] /\ g[n - 1] = f[n - 1]
        BY <3>2
      <4> QED
        BY <4>1, <1>2
    <3> QED
      BY <3>1, <3>2
  <2> QED
    BY <2>3, <2>4, <2>5
<1>3. S = Nat
  <2>1. ASSUME NEW k \in S
        PROVE  k + 1 \in S
    <3> SUFFICES ASSUME k + 1 <= N
                 PROVE  \E g \in [0..(k + 1) -> T] : Fits(k + 1, g)
      OBVIOUS
    <3>1. k \in Nat /\ k <= N
      OBVIOUS
    <3>2. PICK f \in [0..k -> T] : Fits(k, f)
      BY <3>1
    <3> HIDE DEF Fits
    <3> QED
      BY <1>2, <3>1, <3>2
  <2> HIDE DEF S
  <2>2. S \in SUBSET Nat
    BY DEF S
  <2> QED
    BY <1>1, <2>1, <2>2, NatSet
<1>4. N \in S
  BY <1>3
<1> QED
  BY <1>4 DEF Iterates

-----------------------------------------------------------------------------
(* The bytes of a body                                                      *)

LEMMA SumsIs ==
  ASSUME NEW c \in Seq(Nat \ {0})
  PROVE  /\ Sums(c) \in [0..Len(c) -> Nat] /\ Sums(c)[0] = 0
         /\ \A n \in 1..Len(c) : Sums(c)[n] = Sums(c)[n - 1] + c[n]
<1> DEFINE N == Len(c)
           F(f) == [n \in 0..N |-> IF n = 0 THEN 0 ELSE f[n - 1] + c[n]]
           step == [x \in (1..N) \X Nat |-> x[2] + c[x[1]]]
<1>1. N \in Nat /\ \A n \in 1..N : c[n] \in Nat
  BY LenProperties, ElementOfSeq
<1> HIDE DEF N
<1>2. step \in [(1..N) \X Nat -> Nat]
  <2> SUFFICES ASSUME NEW x \in (1..N) \X Nat
               PROVE  x[2] + c[x[1]] \in Nat
    OBVIOUS
  <2>1. x[1] \in 1..N /\ x[2] \in Nat
    OBVIOUS
  <2> QED
    BY <1>1, <2>1
<1>3. \E f : Iterates(f, Nat, 0, N, step)
  <2>1. 0 \in Nat
    OBVIOUS
  <2> HIDE DEF step
  <2> QED
    BY <1>1, <1>2, <2>1, Recursion, Zenon
<1>4. PICK f \in [0..N -> Nat] : f[0] = 0 /\ \A n \in 1..N : f[n] = step[<<n, f[n - 1]>>]
  BY <1>3 DEF Iterates
<1>5. \A n \in 1..N : f[n] = f[n - 1] + c[n]
  <2> SUFFICES ASSUME NEW n \in 1..N
               PROVE  f[n] = f[n - 1] + c[n]
    OBVIOUS
  <2>1. n - 1 \in 0..N /\ f[n - 1] \in Nat
    BY <1>1
  <2>2. <<n, f[n - 1]>> \in (1..N) \X Nat
    BY <2>1
  <2> QED
    BY <1>4, <2>2
<1>6. f = F(f)
  BY <1>1, <1>4, <1>5
<1>7. \E g : g = F(g)
  BY <1>6
<1>8. Sums(c) = CHOOSE g : g = F(g)
  BY DEF Sums, N
<1>9. Sums(c) = F(Sums(c))
  <2> HIDE DEF F
  <2> QED
    BY <1>7, <1>8
<1>10. DOMAIN Sums(c) = 0..N /\ \A n \in 0..N : Sums(c)[n] = IF n = 0 THEN 0 ELSE Sums(c)[n - 1] + c[n]
  BY <1>9
<1> DEFINE S == {n \in Nat : n <= N => Sums(c)[n] \in Nat}
<1>11. S = Nat
  <2>1. 0 \in S
    BY <1>1, <1>10
  <2>2. ASSUME NEW n \in S
        PROVE  n + 1 \in S
    <3> SUFFICES ASSUME n + 1 <= N
                 PROVE  Sums(c)[n + 1] \in Nat
      OBVIOUS
    <3>1. n + 1 \in 1..N /\ n + 1 \in 0..N /\ (n + 1) - 1 = n /\ n + 1 # 0 /\ Sums(c)[n] \in Nat
      BY <1>1
    <3>2. c[n + 1] \in Nat
      BY <1>1, <3>1
    <3>3. Sums(c)[n + 1] = Sums(c)[n] + c[n + 1]
      BY <1>10, <3>1
    <3> QED
      BY <3>1, <3>2, <3>3
  <2> HIDE DEF S
  <2>3. S \in SUBSET Nat
    BY DEF S
  <2> QED
    BY <2>1, <2>2, <2>3, NatSet
<1>12. \A n \in 0..N : Sums(c)[n] \in Nat
  BY <1>1, <1>11
<1>13. Sums(c) \in [0..N -> Nat]
  BY <1>9, <1>10, <1>12
<1> QED
  BY <1>1, <1>10, <1>13 DEF N

LEMMA TokenIs ==
  /\ CR \in Tokens /\ LF \in Tokens /\ CR # LF /\ CR.kind = "cr" /\ LF.kind = "lf"
  /\ \A n \in Nat : /\ Line(n) \in Tokens /\ Line(n).kind = "line" /\ Line(n).n = n
                    /\ Data(n) \in Tokens /\ Data(n).kind = "data"
                    /\ Size(n) \in Tokens /\ Size(n).kind = "size" /\ Size(n).n = n
  BY DEF CR, LF, Line, Data, Size, Token, Tokens

LEMMA OneIs ==
  ASSUME NEW t \in Tokens
  PROVE  <<t>> \in Seq(Tokens) /\ Len(<<t>>) = 1 /\ <<t>>[1] = t
  OBVIOUS

LEMMA CRLFIs ==
  CRLF \in Seq(Tokens) /\ Len(CRLF) = 2 /\ CRLF[1] = CR /\ CRLF[2] = LF
  BY TokenIs DEF CRLF

LEMMA UnitsIs ==
  ASSUME NEW q \in Nat, NEW n \in Nat
  PROVE  /\ Units(q, n) \in Seq(Tokens) /\ Len(Units(q, n)) = n
         /\ \A i \in 1..n : Units(q, n)[i] = Data(q)
<1>1. Data(q) \in Tokens
  BY TokenIs
<1>2. Units(q, n) \in [1..n -> Tokens]
  BY <1>1 DEF Units
<1> QED
  BY <1>2 DEF Units

LEMMA ConcatIs ==
  ASSUME NEW a \in Seq(Tokens), NEW b \in Seq(Tokens)
  PROVE  /\ a \o b \in Seq(Tokens) /\ Len(a \o b) = Len(a) + Len(b)
         /\ Len(a) \in Nat /\ Len(b) \in Nat
         /\ \A i \in 1..Len(a) : (a \o b)[i] = a[i]
         /\ \A i \in 1..Len(b) : (a \o b)[Len(a) + i] = b[i]
<1>1. Len(a) \in Nat /\ Len(b) \in Nat
  BY LenProperties
<1>2. /\ a \o b \in Seq(Tokens) /\ Len(a \o b) = Len(a) + Len(b)
      /\ \A i \in 1..(Len(a) + Len(b)) : (a \o b)[i] = IF i <= Len(a) THEN a[i] ELSE b[i - Len(a)]
  BY ConcatProperties
<1>3. \A i \in 1..Len(a) : (a \o b)[i] = a[i]
  BY <1>1, <1>2
<1>4. ASSUME NEW i \in 1..Len(b)
      PROVE  (a \o b)[Len(a) + i] = b[i]
  <2>1. /\ Len(a) + i \in 1..(Len(a) + Len(b)) /\ ~(Len(a) + i <= Len(a))
        /\ Len(a) + i - Len(a) = i
    BY <1>1
  <2> QED
    BY <1>2, <2>1
<1> QED
  BY <1>1, <1>2, <1>3, <1>4

LEMMA ConcatThree ==
  ASSUME NEW a \in Seq(Tokens), NEW b \in Seq(Tokens), NEW c \in Seq(Tokens)
  PROVE  (a \o b) \o c = a \o (b \o c)
  BY ConcatAssociative

LEMMA FreeConcat ==
  ASSUME NEW a \in Seq(Tokens), NEW b \in Seq(Tokens)
  PROVE  LineFree(a \o b) <=> LineFree(a) /\ LineFree(b)
<1>1. /\ DOMAIN a = 1..Len(a) /\ DOMAIN b = 1..Len(b) /\ DOMAIN (a \o b) = 1..(Len(a) + Len(b))
      /\ Len(a) \in Nat /\ Len(b) \in Nat
  BY ConcatIs, LenProperties
<1>2. ASSUME LineFree(a \o b)
      PROVE  LineFree(a) /\ LineFree(b)
  <2>1. \A i \in 1..Len(b) : Len(a) + i \in 1..(Len(a) + Len(b))
    BY <1>1
  <2>2. \A i \in 1..Len(a) : i \in 1..(Len(a) + Len(b))
    BY <1>1
  <2>3. LineFree(a)
    <3> SUFFICES ASSUME NEW i \in 1..Len(a)
                 PROVE  a[i].kind # "line"
      BY <1>1 DEF LineFree
    <3>1. (a \o b)[i] = a[i]
      BY ConcatIs
    <3> QED
      BY <1>1, <1>2, <2>2, <3>1 DEF LineFree
  <2>4. LineFree(b)
    <3> SUFFICES ASSUME NEW i \in 1..Len(b)
                 PROVE  b[i].kind # "line"
      BY <1>1 DEF LineFree
    <3>1. (a \o b)[Len(a) + i] = b[i]
      BY ConcatIs
    <3> QED
      BY <1>1, <1>2, <2>1, <3>1 DEF LineFree
  <2> QED
    BY <2>3, <2>4
<1>3. ASSUME LineFree(a), LineFree(b)
      PROVE  LineFree(a \o b)
  <2> SUFFICES ASSUME NEW i \in 1..(Len(a) + Len(b))
               PROVE  (a \o b)[i].kind # "line"
    BY <1>1 DEF LineFree
  <2>1. CASE i <= Len(a)
    <3>1. i \in 1..Len(a)
      BY <1>1, <2>1
    <3> QED
      BY <1>1, <1>3, <3>1, ConcatIs DEF LineFree
  <2>2. CASE i > Len(a)
    <3>1. i - Len(a) \in 1..Len(b) /\ i = Len(a) + (i - Len(a))
      BY <1>1, <2>2
    <3>2. (a \o b)[i] = b[i - Len(a)]
      BY <3>1, ConcatIs
    <3> QED
      BY <1>1, <1>3, <3>1, <3>2 DEF LineFree
  <2> QED
    BY <1>1, <2>1, <2>2
<1> QED
  BY <1>2, <1>3

LEMMA FreeParts ==
  /\ LineFree(<<>>) /\ LineFree(CRLF) /\ LineFree(<<LF>>)
  /\ \A q, n \in Nat : LineFree(Units(q, n)) /\ LineFree(<<Size(n)>>)
<1>1. LineFree(CRLF) /\ LineFree(<<LF>>) /\ LineFree(<<>>)
  BY TokenIs DEF LineFree, CRLF
<1>2. ASSUME NEW q \in Nat, NEW n \in Nat
      PROVE  LineFree(Units(q, n)) /\ LineFree(<<Size(n)>>)
  <2>1. Data(q).kind # "line" /\ Size(n).kind # "line"
    BY TokenIs
  <2>2. DOMAIN Units(q, n) = 1..n
    BY UnitsIs, LenProperties
  <2>3. LineFree(Units(q, n))
    BY <2>1, <2>2, UnitsIs DEF LineFree
  <2>4. LineFree(<<Size(n)>>)
    BY <2>1 DEF LineFree
  <2> QED
    BY <2>3, <2>4
<1> QED
  BY <1>1, <1>2

LEMMA ChunkIs ==
  ASSUME NEW q \in Nat, NEW n \in Nat
  PROVE  Chunk(q, n) \in Seq(Tokens) /\ LineFree(Chunk(q, n))
<1>1. Size(n) \in Tokens
  BY TokenIs
<1>2. <<Size(n)>> \in Seq(Tokens) /\ LineFree(<<Size(n)>>)
  BY <1>1, OneIs, FreeParts
<1>3. CRLF \in Seq(Tokens) /\ LineFree(CRLF)
  BY CRLFIs, FreeParts
<1>4. Units(q, n) \in Seq(Tokens) /\ LineFree(Units(q, n))
  BY UnitsIs, FreeParts
<1>5. <<Size(n)>> \o CRLF \in Seq(Tokens) /\ LineFree(<<Size(n)>> \o CRLF)
  BY <1>2, <1>3, ConcatIs, FreeConcat
<1>6. Units(q, n) \o CRLF \in Seq(Tokens) /\ LineFree(Units(q, n) \o CRLF)
  BY <1>3, <1>4, ConcatIs, FreeConcat
<1>7. Chunk(q, n) = (<<Size(n)>> \o CRLF) \o (Units(q, n) \o CRLF)
  BY <1>2, <1>3, <1>6, ConcatAssociative DEF Chunk
<1> QED
  BY <1>5, <1>6, <1>7, ConcatIs, FreeConcat

LEMMA FramedIs ==
  ASSUME NEW q \in Nat, NEW c \in Seq(Nat \ {0})
  PROVE  /\ \A n \in 0..Len(c) : Framed(q, c)[n] \in Seq(Tokens) /\ LineFree(Framed(q, c)[n])
         /\ Framed(q, c)[0] = <<Size(0)>> \o CRLF \o CRLF
         /\ \A n \in 1..Len(c) : Framed(q, c)[n] = Chunk(q, c[Len(c) - n + 1]) \o Framed(q, c)[n - 1]
<1> DEFINE N == Len(c)
           T == Seq(Tokens)
           end == <<Size(0)>> \o CRLF \o CRLF
           F(f) == [n \in 0..N |-> IF n = 0 THEN end ELSE Chunk(q, c[N - n + 1]) \o f[n - 1]]
           step == [x \in (1..N) \X T |-> Chunk(q, c[N - x[1] + 1]) \o x[2]]
<1>1. N \in Nat /\ \A n \in 1..N : N - n + 1 \in 1..N /\ c[N - n + 1] \in Nat
  BY LenProperties, ElementOfSeq
<1> HIDE DEF N
<1>2. \A n \in 1..N : Chunk(q, c[N - n + 1]) \in T /\ LineFree(Chunk(q, c[N - n + 1]))
  BY <1>1, ChunkIs
<1>3. end \in T /\ LineFree(end)
  <2>1. <<Size(0)>> \in T /\ LineFree(<<Size(0)>>)
    BY TokenIs, OneIs, FreeParts
  <2>2. <<Size(0)>> \o CRLF \in T /\ LineFree(<<Size(0)>> \o CRLF)
    BY <2>1, CRLFIs, FreeParts, ConcatIs, FreeConcat
  <2> QED
    BY <2>2, CRLFIs, FreeParts, ConcatIs, FreeConcat
<1>4. step \in [(1..N) \X T -> T]
  <2> SUFFICES ASSUME NEW x \in (1..N) \X T
               PROVE  Chunk(q, c[N - x[1] + 1]) \o x[2] \in T
    OBVIOUS
  <2>1. x[1] \in 1..N /\ x[2] \in T
    OBVIOUS
  <2> QED
    BY <1>2, <2>1, ConcatIs
<1>5. \E f : Iterates(f, T, end, N, step)
  <2> HIDE DEF step, end, T
  <2> QED
    BY <1>1, <1>3, <1>4, Recursion, Zenon
<1>6. PICK f \in [0..N -> T] : f[0] = end /\ \A n \in 1..N : f[n] = step[<<n, f[n - 1]>>]
  BY <1>5 DEF Iterates
<1>7. ASSUME NEW n \in 1..N
      PROVE  f[n] = Chunk(q, c[N - n + 1]) \o f[n - 1]
  <2>1. n - 1 \in 0..N /\ f[n - 1] \in T
    BY <1>1, <1>6
  <2>2. <<n, f[n - 1]>> \in (1..N) \X T
    BY <2>1
  <2> QED
    BY <1>6, <2>2
<1> HIDE DEF end, step
<1>8. f = F(f)
  <2> DEFINE rest(n) == IF n = 0 THEN end ELSE Chunk(q, c[N - n + 1]) \o f[n - 1]
  <2>1. \A n \in 0..N : f[n] = rest(n)
    <3> SUFFICES ASSUME NEW n \in 0..N
                 PROVE  f[n] = rest(n)
      OBVIOUS
    <3>1. n = 0 \/ (n \in 1..N /\ n # 0)
      BY <1>1
    <3> QED
      BY <1>6, <1>7, <3>1
  <2>2. f = [n \in 0..N |-> f[n]]
    BY <1>6
  <2> HIDE DEF rest
  <2>3. f = [n \in 0..N |-> rest(n)]
    BY <2>1, <2>2
  <2> QED
    BY <2>3 DEF rest
<1>9. \E g : g = F(g)
  BY <1>8
<1>10. Framed(q, c) = CHOOSE g : g = F(g)
  BY DEF Framed, N, end
<1>11. Framed(q, c) = F(Framed(q, c))
  <2> HIDE DEF F
  <2> QED
    BY <1>9, <1>10
<1> DEFINE B == Framed(q, c)
<1>12. \A n \in 0..N : B[n] = IF n = 0 THEN end ELSE Chunk(q, c[N - n + 1]) \o B[n - 1]
  BY <1>11
<1> DEFINE S == {n \in Nat : n <= N => B[n] \in T /\ LineFree(B[n])}
<1> HIDE DEF B
<1>13. S = Nat
  <2>1. 0 \in S
    BY <1>1, <1>3, <1>12
  <2>2. ASSUME NEW n \in S
        PROVE  n + 1 \in S
    <3> SUFFICES ASSUME n + 1 <= N
                 PROVE  B[n + 1] \in T /\ LineFree(B[n + 1])
      OBVIOUS
    <3>1. n \in Nat /\ n + 1 \in 1..N /\ n + 1 \in 0..N /\ (n + 1) - 1 = n /\ n + 1 # 0
      BY <1>1
    <3>2. B[n] \in T /\ LineFree(B[n])
      BY <1>1
    <3>3. B[n + 1] = Chunk(q, c[N - (n + 1) + 1]) \o B[n]
      BY <1>12, <3>1
    <3> QED
      BY <1>2, <3>1, <3>2, <3>3, ConcatIs, FreeConcat
  <2> HIDE DEF S
  <2>3. S \in SUBSET Nat
    BY DEF S
  <2> QED
    BY <2>1, <2>2, <2>3, NatSet
<1>14. \A n \in 0..N : B[n] \in T /\ LineFree(B[n])
  <2> SUFFICES ASSUME NEW n \in 0..N
               PROVE  B[n] \in T /\ LineFree(B[n])
    OBVIOUS
  <2>1. n \in Nat /\ n <= N
    BY <1>1
  <2>2. n \in S
    BY <1>13, <2>1
  <2> QED
    BY <2>1, <2>2
<1>15. B[0] = end
  BY <1>1, <1>12
<1>16. ASSUME NEW n \in 1..N
       PROVE  B[n] = Chunk(q, c[N - n + 1]) \o B[n - 1]
  <2>1. n \in 0..N /\ n # 0
    BY <1>1
  <2> QED
    BY <1>12, <2>1
<1> QED
  BY <1>14, <1>15, <1>16 DEF N, B, end

-----------------------------------------------------------------------------
(* Cutting and searching                                                    *)

LEMMA CutIs ==
  ASSUME NEW w \in Seq(Tokens), NEW n \in 0..Len(w)
  PROVE  /\ Upto(w, n) \in Seq(Tokens) /\ Len(Upto(w, n)) = n
         /\ \A i \in 1..n : Upto(w, n)[i] = w[i]
         /\ After(w, n) \in Seq(Tokens) /\ Len(After(w, n)) = Len(w) - n
         /\ \A i \in 1..(Len(w) - n) : After(w, n)[i] = w[n + i]
         /\ Upto(w, n) \o After(w, n) = w
<1>1. Len(w) \in Nat /\ n \in Nat /\ n <= Len(w) /\ \A i \in 1..Len(w) : w[i] \in Tokens
  BY LenProperties, ElementOfSeq
<1>2. /\ Upto(w, n) \in Seq(Tokens) /\ Len(Upto(w, n)) = n
      /\ \A i \in 1..n : Upto(w, n)[i] = w[i]
  <2>1. /\ Upto(w, n) \in Seq(Tokens) /\ Len(Upto(w, n)) = IF 1 <= n THEN n - 1 + 1 ELSE 0
        /\ \A i \in 1..(n - 1 + 1) : Upto(w, n)[i] = w[1 + i - 1]
    <3>1. \A i \in 1..n : w[i] \in Tokens
      BY <1>1
    <3> QED
      BY <1>1, <3>1, SubSeqProperties DEF Upto
  <2>2. Len(Upto(w, n)) = n
    BY <1>1, <2>1
  <2>3. \A i \in 1..n : Upto(w, n)[i] = w[i]
    BY <1>1, <2>1
  <2> QED
    BY <2>1, <2>2, <2>3
<1>3. /\ After(w, n) \in Seq(Tokens) /\ Len(After(w, n)) = Len(w) - n
      /\ \A i \in 1..(Len(w) - n) : After(w, n)[i] = w[n + i]
  <2>1. /\ After(w, n) \in Seq(Tokens)
        /\ Len(After(w, n)) = IF n + 1 <= Len(w) THEN Len(w) - (n + 1) + 1 ELSE 0
        /\ \A i \in 1..(Len(w) - (n + 1) + 1) : After(w, n)[i] = w[(n + 1) + i - 1]
    <3>1. \A i \in (n + 1)..Len(w) : w[i] \in Tokens
      BY <1>1
    <3> QED
      BY <1>1, <3>1, SubSeqProperties DEF After
  <2>2. Len(After(w, n)) = Len(w) - n
    BY <1>1, <2>1
  <2>3. \A i \in 1..(Len(w) - n) : After(w, n)[i] = w[n + i]
    BY <1>1, <2>1
  <2> QED
    BY <2>1, <2>2, <2>3
<1>4. Upto(w, n) \o After(w, n) = w
  <2> DEFINE a == Upto(w, n)
             b == After(w, n)
  <2> HIDE DEF a, b
  <2>0. a \in Seq(Tokens) /\ Len(a) = n /\ b \in Seq(Tokens) /\ Len(b) = Len(w) - n
    BY <1>2, <1>3 DEF a, b
  <2>1. a \o b \in Seq(Tokens) /\ Len(a \o b) = Len(w)
    <3>1. a \o b \in Seq(Tokens) /\ Len(a \o b) = Len(a) + Len(b)
      BY <2>0, ConcatIs
    <3> QED
      BY <1>1, <2>0, <3>1
  <2>2. ASSUME NEW i \in 1..Len(w)
        PROVE  (a \o b)[i] = w[i]
    <3>1. CASE i <= n
      <4>1. i \in 1..n
        BY <1>1, <3>1
      <4>2. (a \o b)[i] = a[i]
        BY <2>0, <4>1, ConcatIs
      <4> QED
        BY <1>2, <4>1, <4>2 DEF a
    <3>2. CASE i > n
      <4>1. i - n \in 1..(Len(w) - n) /\ i = n + (i - n)
        BY <1>1, <3>2
      <4>2. (a \o b)[n + (i - n)] = b[i - n]
        BY <2>0, <4>1, ConcatIs
      <4> QED
        BY <1>3, <4>1, <4>2 DEF b
    <3>3. i <= n \/ i > n
      BY <1>1
    <3> QED
      BY <3>1, <3>2, <3>3
  <2>3. a \o b = w
    BY <2>1, <2>2, SeqEqual
  <2> QED
    BY <2>3 DEF a, b
<1> QED
  BY <1>2, <1>3, <1>4

LEMMA FreeCut ==
  ASSUME NEW w \in Seq(Tokens), NEW n \in 0..Len(w), LineFree(w)
  PROVE  LineFree(Upto(w, n)) /\ LineFree(After(w, n))
<1>1. Upto(w, n) \in Seq(Tokens) /\ After(w, n) \in Seq(Tokens) /\ Upto(w, n) \o After(w, n) = w
  BY CutIs
<1>2. LineFree(Upto(w, n) \o After(w, n))
  BY <1>1
<1> QED
  BY <1>1, <1>2, FreeConcat

\* Two ways to put the same bytes together, cut at the same place.
LEMMA SameCut ==
  ASSUME NEW a \in Seq(Tokens), NEW b \in Seq(Tokens), NEW c \in Seq(Tokens), NEW d \in Seq(Tokens),
         a \o b = c \o d, Len(a) = Len(c)
  PROVE  a = c /\ b = d
<1>1. Len(a) \in Nat /\ Len(b) \in Nat /\ Len(d) \in Nat /\ Len(a) + Len(b) = Len(c) + Len(d)
  <2>1. Len(a \o b) = Len(a) + Len(b) /\ Len(a) \in Nat /\ Len(b) \in Nat
    BY ConcatIs
  <2>2. Len(c \o d) = Len(c) + Len(d) /\ Len(d) \in Nat
    BY ConcatIs
  <2> QED
    BY <2>1, <2>2
<1>2. Len(b) = Len(d)
  BY <1>1
<1>3. \A i \in 1..Len(a) : a[i] = c[i]
  <2> SUFFICES ASSUME NEW i \in 1..Len(a)
               PROVE  a[i] = c[i]
    OBVIOUS
  <2>1. (a \o b)[i] = a[i] /\ (c \o d)[i] = c[i]
    BY ConcatIs
  <2> QED
    BY <2>1
<1>4. \A i \in 1..Len(b) : b[i] = d[i]
  <2> SUFFICES ASSUME NEW i \in 1..Len(b)
               PROVE  b[i] = d[i]
    OBVIOUS
  <2>1. (a \o b)[Len(a) + i] = b[i]
    BY ConcatIs
  <2>2. i \in 1..Len(d)
    BY <1>2
  <2>3. (c \o d)[Len(c) + i] = d[i]
    BY <2>2, ConcatIs
  <2> QED
    BY <2>1, <2>3
<1> QED
  BY <1>2, <1>3, <1>4, SeqEqual

\* What is taken from the bytes p that have come is what was to come first.
LEMMA Taken ==
  ASSUME NEW p \in Seq(Tokens), NEW t \in Seq(Tokens), NEW a \in Seq(Tokens), NEW b \in Seq(Tokens),
         p \o t = a \o b, Len(a) <= Len(p)
  PROVE  Upto(p, Len(a)) = a /\ After(p, Len(a)) \o t = b
<1>1. Len(a) \in 0..Len(p)
  BY LenProperties
<1> DEFINE u == Upto(p, Len(a))
           v == After(p, Len(a))
<1>2. u \in Seq(Tokens) /\ v \in Seq(Tokens) /\ Len(u) = Len(a) /\ u \o v = p
  BY <1>1, CutIs
<1> HIDE DEF u, v
<1>3. u \o (v \o t) = a \o b /\ v \o t \in Seq(Tokens)
  <2>0. u \in Seq(Tokens) /\ v \in Seq(Tokens)
    BY <1>2
  <2>1. (u \o v) \o t = u \o (v \o t)
    BY <2>0, ConcatThree, Zenon
  <2> QED
    BY <1>2, <2>1, ConcatIs
<1>4. u = a /\ v \o t = b
  BY <1>2, <1>3, SameCut
<1> QED
  BY <1>4 DEF u, v

Occurs(text, w, i) ==
  /\ i \in 1..(Len(w) - Len(text) + 1)
  /\ \A j \in 1..Len(text) : w[i + j - 1] = text[j]

\* Find returns the first place, or 0 (std::string::npos).
LEMMA FindIs ==
  ASSUME NEW text \in Seq(Tokens), Len(text) >= 1, NEW w \in Seq(Tokens)
  PROVE  /\ Find(text, w) \in Nat
         /\ Find(text, w) # 0 => Occurs(text, w, Find(text, w))
         /\ \A i : Occurs(text, w, i) => Find(text, w) # 0 /\ Find(text, w) <= i
<1> DEFINE At == {i \in 1..(Len(w) - Len(text) + 1) : SubSeq(w, i, i + Len(text) - 1) = text}
<1>1. Len(text) \in Nat /\ Len(w) \in Nat
  BY LenProperties
<1>2. ASSUME NEW i \in 1..(Len(w) - Len(text) + 1)
      PROVE  SubSeq(w, i, i + Len(text) - 1) = text <=> Occurs(text, w, i)
  <2> DEFINE n == i + Len(text) - 1
             s == SubSeq(w, i, n)
  <2>1. i \in Int /\ n \in Int /\ i <= n /\ n - i + 1 = Len(text) /\ n <= Len(w) /\ 1 <= i
    BY <1>1
  <2>2. \A j \in i..n : w[j] \in Tokens
    BY <1>1, <2>1, ElementOfSeq
  <2> HIDE DEF n
  <2>3. /\ s \in Seq(Tokens) /\ Len(s) = IF i <= n THEN n - i + 1 ELSE 0
        /\ \A j \in 1..(n - i + 1) : s[j] = w[i + j - 1]
    BY <2>1, <2>2, SubSeqProperties
  <2>4. Len(s) = Len(text) /\ \A j \in 1..Len(text) : s[j] = w[i + j - 1]
    BY <2>1, <2>3
  <2> HIDE DEF s
  <2>5. s = text <=> \A j \in 1..Len(text) : s[j] = text[j]
    <3>1. (\A j \in 1..Len(text) : s[j] = text[j]) => s = text
      BY <2>3, <2>4, SeqEqual
    <3> QED
      BY <3>1
  <2>6. s = text <=> Occurs(text, w, i)
    BY <2>4, <2>5 DEF Occurs
  <2> QED
    BY <2>6 DEF s, n
<1>3. At \in SUBSET Nat /\ 0 \notin At /\ \A i : i \in At <=> Occurs(text, w, i)
  <2>1. \A i : i \in At <=> Occurs(text, w, i)
    BY <1>2 DEF Occurs
  <2> QED
    BY <1>1, <2>1
<1>4. Find(text, w) = IF At = {} THEN 0 ELSE Min(At)
  BY DEF Find
<1> HIDE DEF At
<1>5. CASE At = {}
  BY <1>3, <1>4, <1>5
<1>6. CASE At # {}
  <2>1. Min(At) \in At /\ \A i \in At : Min(At) <= i
    BY <1>3, <1>6, MinIs
  <2> QED
    BY <1>3, <1>4, <1>6, <2>1
<1> QED
  BY <1>5, <1>6

LEMMA UnitsJoin ==
  ASSUME NEW q \in Nat, NEW m \in Nat, NEW n \in Nat
  PROVE  Units(q, m) \o Units(q, n) = Units(q, m + n)
<1> DEFINE a == Units(q, m)
           b == Units(q, n)
           w == Units(q, m + n)
<1>1. /\ a \in Seq(Tokens) /\ b \in Seq(Tokens) /\ w \in Seq(Tokens) /\ m + n \in Nat
      /\ Len(a) = m /\ Len(b) = n /\ Len(w) = m + n
      /\ (\A i \in 1..m : a[i] = Data(q)) /\ (\A i \in 1..n : b[i] = Data(q))
      /\ \A i \in 1..(m + n) : w[i] = Data(q)
  BY UnitsIs
<1> HIDE DEF a, b, w
<1>2. a \o b \in Seq(Tokens) /\ Len(a \o b) = m + n
  BY <1>1, ConcatIs
<1>3. ASSUME NEW i \in 1..(m + n)
      PROVE  (a \o b)[i] = w[i]
  <2>1. CASE i <= m
    <3>1. i \in 1..m
      BY <2>1
    <3>2. (a \o b)[i] = a[i]
      BY <1>1, <3>1, ConcatIs
    <3> QED
      BY <1>1, <3>1, <3>2
  <2>2. CASE i > m
    <3>1. i - m \in 1..n /\ i = m + (i - m)
      BY <2>2
    <3>2. (a \o b)[m + (i - m)] = b[i - m]
      BY <1>1, <3>1, ConcatIs
    <3> QED
      BY <1>1, <3>1, <3>2
  <2>3. i <= m \/ i > m
    OBVIOUS
  <2> QED
    BY <2>1, <2>2, <2>3
<1>4. a \o b = w
  BY <1>1, <1>2, <1>3, SeqEqual
<1> QED
  BY <1>4 DEF a, b, w

\* The bytes w come in order: p has come and t is to come.
Comes(p, t, w) == p \in Seq(Tokens) /\ t \in Seq(Tokens) /\ p \o t = w

LEMMA FirstCome ==
  ASSUME NEW p, NEW t, NEW a \in Seq(Tokens), NEW b \in Seq(Tokens),
         Comes(p, t, a \o b), Len(a) <= Len(p)
  PROVE  Upto(p, Len(a)) = a /\ Comes(After(p, Len(a)), t, b)
<1>1. p \in Seq(Tokens) /\ t \in Seq(Tokens) /\ p \o t = a \o b
  BY DEF Comes
<1>2. Upto(p, Len(a)) = a /\ After(p, Len(a)) \o t = b
  BY <1>1, Taken
<1>3. Len(a) \in 0..Len(p)
  BY <1>1, LenProperties
<1>4. After(p, Len(a)) \in Seq(Tokens)
  BY <1>1, <1>3, CutIs
<1> QED
  BY <1>1, <1>2, <1>4 DEF Comes

LEMMA UnitsCome ==
  ASSUME NEW q \in Nat, NEW m \in Nat, NEW n \in Nat, n <= m,
         NEW p, NEW t, NEW b \in Seq(Tokens),
         Comes(p, t, Units(q, m) \o b), n <= Len(p)
  PROVE  Upto(p, n) = Units(q, n) /\ Comes(After(p, n), t, Units(q, m - n) \o b)
<1> DEFINE u == Units(q, n)
           v == Units(q, m - n)
<1>1. m - n \in Nat /\ n + (m - n) = m
  OBVIOUS
<1>2. u \in Seq(Tokens) /\ v \in Seq(Tokens) /\ Len(u) = n
  BY <1>1, UnitsIs
<1>3. u \o v = Units(q, m)
  <2>1. u \o v = Units(q, n + (m - n))
    BY <1>1, UnitsJoin
  <2> QED
    BY <1>1, <2>1
<1> HIDE DEF u, v
<1>4. (u \o v) \o b = u \o (v \o b)
  BY <1>2, ConcatThree, Zenon
<1>5. v \o b \in Seq(Tokens)
  BY <1>2, ConcatIs
<1>6. Comes(p, t, u \o (v \o b)) /\ Len(u) <= Len(p)
  BY <1>2, <1>3, <1>4
<1>7. Upto(p, Len(u)) = u /\ Comes(After(p, Len(u)), t, v \o b)
  BY <1>2, <1>5, <1>6, FirstCome
<1> QED
  BY <1>2, <1>7 DEF u, v

\* The same when nothing comes after the units.
LEMMA OnlyUnitsCome ==
  ASSUME NEW q \in Nat, NEW m \in Nat, NEW n \in Nat, n <= m,
         NEW p, NEW t, Comes(p, t, Units(q, m)), n <= Len(p)
  PROVE  Upto(p, n) = Units(q, n) /\ Comes(After(p, n), t, Units(q, m - n))
<1> DEFINE e == <<>>
<1>1. e \in Seq(Tokens) /\ \A w \in Seq(Tokens) : w \o e = w
  BY ConcatEmptySeq, EmptySeq
<1>2. m - n \in Nat
  OBVIOUS
<1>3. Units(q, m) \in Seq(Tokens) /\ Units(q, m - n) \in Seq(Tokens)
  BY <1>2, UnitsIs
<1> HIDE DEF e
<1>4. Units(q, m) \o e = Units(q, m) /\ Units(q, m - n) \o e = Units(q, m - n)
  BY <1>1, <1>3
<1>5. Comes(p, t, Units(q, m) \o e) /\ e \in Seq(Tokens)
  BY <1>1, <1>4
<1>6. Upto(p, n) = Units(q, n) /\ Comes(After(p, n), t, Units(q, m - n) \o e)
  BY <1>5, UnitsCome
<1> QED
  BY <1>4, <1>6

SizeLine(n) == <<Size(n)>> \o CRLF

LEMMA SizeLineIs ==
  ASSUME NEW n \in Nat
  PROVE  /\ SizeLine(n) \in Seq(Tokens) /\ Len(SizeLine(n)) = 3
         /\ SizeLine(n)[1] = Size(n) /\ SizeLine(n)[2] = CR /\ SizeLine(n)[3] = LF
<1>1. <<Size(n)>> \in Seq(Tokens) /\ Len(<<Size(n)>>) = 1 /\ <<Size(n)>>[1] = Size(n)
  BY TokenIs, OneIs
<1> DEFINE a == <<Size(n)>>
<1> HIDE DEF a
<1>2. /\ a \o CRLF \in Seq(Tokens) /\ Len(a \o CRLF) = Len(a) + 2
      /\ \A i \in 1..Len(a) : (a \o CRLF)[i] = a[i]
      /\ \A i \in 1..2 : (a \o CRLF)[Len(a) + i] = CRLF[i]
  BY <1>1, CRLFIs, ConcatIs DEF a
<1>3. Len(a) = 1 /\ a[1] = Size(n)
  BY <1>1 DEF a
<1>4. Len(a \o CRLF) = 3 /\ (a \o CRLF)[1] = Size(n)
  BY <1>2, <1>3
<1>5. (a \o CRLF)[2] = CR /\ (a \o CRLF)[3] = LF
  <2>1. (a \o CRLF)[Len(a) + 1] = CR /\ (a \o CRLF)[Len(a) + 2] = LF
    BY <1>2, CRLFIs
  <2>2. Len(a) + 1 = 2 /\ Len(a) + 2 = 3
    BY <1>3
  <2> QED
    BY <2>1, <2>2
<1> QED
  BY <1>2, <1>4, <1>5 DEF SizeLine, a

\* What is ahead when a size is to come: the end, or a chunk.
LEMMA FramedFront ==
  ASSUME NEW q \in Nat, NEW c \in Seq(Nat \ {0}), NEW k \in 0..Len(c)
  PROVE  \/ k = 0 /\ Framed(q, c)[k] = SizeLine(0) \o CRLF
         \/ /\ k \in 1..Len(c) /\ k - 1 \in 0..Len(c)
            /\ c[Len(c) - k + 1] \in Nat \ {0}
            /\ Framed(q, c)[k] = SizeLine(c[Len(c) - k + 1])
                 \o (Units(q, c[Len(c) - k + 1]) \o (CRLF \o Framed(q, c)[k - 1]))
<1>1. CASE k = 0
  BY <1>1, FramedIs DEF SizeLine
<1>2. CASE k # 0
  <2>1. Len(c) \in Nat
    BY LenProperties
  <2>2. k \in 1..Len(c) /\ k - 1 \in 0..Len(c) /\ Len(c) - k + 1 \in 1..Len(c)
    BY <1>2, <2>1
  <2> DEFINE n == c[Len(c) - k + 1]
             s == <<Size(n)>>
             u == Units(q, n)
             r == Framed(q, c)[k - 1]
  <2>3. n \in Nat \ {0}
    BY <2>2, ElementOfSeq
  <2>4. s \in Seq(Tokens) /\ u \in Seq(Tokens) /\ r \in Seq(Tokens)
    BY <2>2, <2>3, TokenIs, OneIs, UnitsIs, FramedIs
  <2>5. Framed(q, c)[k] = Chunk(q, n) \o r
    BY <2>2, FramedIs
  <2>6. Chunk(q, n) = s \o CRLF \o (u \o CRLF)
    BY DEF Chunk
  <2> HIDE DEF s, u, r, n
  <2>7. s \o CRLF \in Seq(Tokens) /\ u \o CRLF \in Seq(Tokens)
    BY <2>4, CRLFIs, ConcatIs
  <2>8. Chunk(q, n) = (s \o CRLF) \o (u \o CRLF)
    BY <2>4, <2>6, <2>7, CRLFIs, ConcatThree
  <2>9. Framed(q, c)[k] = (s \o CRLF) \o ((u \o CRLF) \o r)
    <3>1. r \in Seq(Tokens)
      BY <2>4
    <3>2. ((s \o CRLF) \o (u \o CRLF)) \o r = (s \o CRLF) \o ((u \o CRLF) \o r)
      BY <2>7, <3>1, ConcatThree, Zenon
    <3> QED
      BY <2>5, <2>8, <3>2
  <2>10. (u \o CRLF) \o r = u \o (CRLF \o r)
    BY <2>4, CRLFIs, ConcatThree
  <2> QED
    BY <2>2, <2>3, <2>9, <2>10 DEF SizeLine, s, u, r, n
<1> QED
  BY <1>1, <1>2

HeadBytes(r) == <<Line(r)>> \o CRLF \o CRLF

LEMMA BlankIs ==
  /\ Blank \in Seq(Tokens) /\ Len(Blank) = 4
  /\ Blank[1] = CR /\ Blank[2] = LF /\ Blank[3] = CR /\ Blank[4] = LF
<1> DEFINE a == CRLF
<1>1. a \in Seq(Tokens) /\ Len(a) = 2 /\ a[1] = CR /\ a[2] = LF
  BY CRLFIs
<1> HIDE DEF a
<1> DEFINE w == a \o a
<1>2. /\ w \in Seq(Tokens) /\ Len(w) = Len(a) + Len(a)
      /\ \A i \in 1..Len(a) : w[i] = a[i]
      /\ \A i \in 1..Len(a) : w[Len(a) + i] = a[i]
  BY <1>1, ConcatIs
<1> HIDE DEF w
<1>3. Len(w) = 4
  BY <1>1, <1>2
<1>4. 1 \in 1..Len(a) /\ 2 \in 1..Len(a) /\ Len(a) + 1 = 3 /\ Len(a) + 2 = 4
  BY <1>1
<1>5. w[Len(a) + 1] = a[1] /\ w[Len(a) + 2] = a[2]
  BY <1>2, <1>4
<1>6. w[3] = CR /\ w[4] = LF
  BY <1>1, <1>4, <1>5
<1>7. w[1] = CR /\ w[2] = LF
  BY <1>1, <1>2, <1>4
<1> QED
  BY <1>2, <1>3, <1>6, <1>7 DEF Blank, a, w

LEMMA HeadIs ==
  ASSUME NEW r \in Nat
  PROVE  /\ HeadBytes(r) \in Seq(Tokens) /\ Len(HeadBytes(r)) = 5
         /\ HeadBytes(r)[1] = Line(r) /\ \A i \in 1..4 : HeadBytes(r)[i + 1] = Blank[i]
<1> DEFINE a == <<Line(r)>>
<1>1. a \in Seq(Tokens) /\ Len(a) = 1 /\ a[1] = Line(r)
  BY TokenIs, OneIs
<1> HIDE DEF a
<1>2. HeadBytes(r) = a \o Blank
  BY <1>1, CRLFIs, ConcatThree DEF HeadBytes, Blank, a
<1> DEFINE w == a \o Blank
<1>3. /\ w \in Seq(Tokens) /\ Len(w) = Len(a) + Len(Blank)
      /\ \A i \in 1..Len(a) : w[i] = a[i]
      /\ \A i \in 1..Len(Blank) : w[Len(a) + i] = Blank[i]
  BY <1>1, BlankIs, ConcatIs
<1> HIDE DEF w
<1>4. Len(w) = 5 /\ w[1] = Line(r)
  BY <1>1, <1>3, BlankIs
<1>5. \A i \in 1..4 : i \in 1..Len(Blank) /\ Len(a) + i = i + 1
  BY <1>1, BlankIs
<1>6. \A i \in 1..4 : w[i + 1] = Blank[i]
  BY <1>3, <1>5
<1> QED
  BY <1>2, <1>3, <1>4, <1>6 DEF w

LEMMA TotalIs ==
  ASSUME NEW s \in Shapes
  PROVE  /\ s.chunked \in BOOLEAN /\ s.keep \in BOOLEAN /\ s.chunks \in Seq(Nat \ {0})
         /\ Len(s.chunks) \in Nat /\ Total(s) \in Nat
<1>1. s.chunked \in BOOLEAN /\ s.keep \in BOOLEAN /\ s.chunks \in Seq(Nat \ {0})
  BY ShapesAssumption
<1>2. Len(s.chunks) \in Nat
  BY <1>1, LenProperties
<1>3. Sums(s.chunks) \in [0..Len(s.chunks) -> Nat]
  BY <1>1, SumsIs
<1> QED
  BY <1>1, <1>2, <1>3 DEF Total

LEMMA BytesAre ==
  ASSUME NEW r \in Nat, NEW s \in Shapes
  PROVE  /\ Body(r, s) \in Seq(Tokens) /\ LineFree(Body(r, s))
         /\ Bytes(r, s) \in Seq(Tokens) /\ Bytes(r, s) = HeadBytes(r) \o Body(r, s)
<1>1. Len(s.chunks) \in 0..Len(s.chunks)
  BY TotalIs
<1>2. Chunked(r, s) \in Seq(Tokens) /\ LineFree(Chunked(r, s))
  BY <1>1, TotalIs, FramedIs DEF Chunked
<1>3. Units(r, Total(s)) \in Seq(Tokens) /\ LineFree(Units(r, Total(s)))
  BY TotalIs, UnitsIs, FreeParts
<1>4. Body(r, s) \in Seq(Tokens) /\ LineFree(Body(r, s))
  BY <1>2, <1>3 DEF Body
<1>5. Bytes(r, s) = HeadBytes(r) \o Body(r, s)
  BY DEF Bytes, HeadBytes, Body
<1> QED
  BY <1>4, <1>5, HeadIs, ConcatIs

\* The first end of a head in bytes that begin with some without a first line
\* of a request, which have no end of a head, and then the head of r.
LEMMA HeadFound ==
  ASSUME NEW j \in Seq(Tokens), NEW r \in Nat, NEW b \in Seq(Tokens),
         NEW w, NEW t, Comes(w, t, j \o (HeadBytes(r) \o b)),
         LineFree(j), Find(Blank, j) = 0
  PROVE  /\ Find(Blank, w) # 0 => Find(Blank, w) = Len(j) + 2 /\ Len(j) + 5 <= Len(w)
         /\ Len(j) + 5 <= Len(w) => Find(Blank, w) # 0
<1> DEFINE h == HeadBytes(r)
           m == Len(j)
           W == w \o t
<1>0. w \in Seq(Tokens) /\ t \in Seq(Tokens) /\ W = j \o (h \o b)
  BY DEF Comes
<1>1. /\ h \in Seq(Tokens) /\ Len(h) = 5 /\ h[1] = Line(r) /\ \A i \in 1..4 : h[i + 1] = Blank[i]
      /\ m \in Nat /\ Len(w) \in Nat /\ Len(t) \in Nat /\ Len(b) \in Nat
  BY <1>0, HeadIs, LenProperties
<1> HIDE DEF h
<1>2. h \o b \in Seq(Tokens) /\ Len(h \o b) = 5 + Len(b) /\ \A i \in 1..5 : (h \o b)[i] = h[i]
  <2>1. /\ h \o b \in Seq(Tokens) /\ Len(h \o b) = Len(h) + Len(b)
        /\ \A i \in 1..Len(h) : (h \o b)[i] = h[i]
    BY <1>1, ConcatIs
  <2> QED
    BY <1>1, <2>1
<1>3. /\ Len(W) = m + (5 + Len(b)) /\ \A i \in 1..m : W[i] = j[i]
      /\ \A i \in 1..5 : W[m + i] = h[i]
  <2> DEFINE v == h \o b
  <2> HIDE DEF v
  <2>1. /\ Len(j \o v) = m + Len(v) /\ \A i \in 1..m : (j \o v)[i] = j[i]
        /\ \A i \in 1..Len(v) : (j \o v)[m + i] = v[i]
    BY <1>2, ConcatIs DEF v
  <2>2. Len(v) = 5 + Len(b) /\ \A i \in 1..5 : i \in 1..Len(v) /\ v[i] = h[i]
    BY <1>1, <1>2 DEF v
  <2>3. W = j \o v
    BY <1>0 DEF v, h
  <2> QED
    BY <2>1, <2>2, <2>3
<1>4. Len(W) = Len(w) + Len(t) /\ \A i \in 1..Len(w) : W[i] = w[i]
  BY <1>0, ConcatIs
<1> HIDE DEF W
<1>5. Len(Blank) = 4 /\ \A i \in 1..4 : Blank[i].kind # "line"
  <2>1. \A i \in 1..4 : i = 1 \/ i = 2 \/ i = 3 \/ i = 4
    OBVIOUS
  <2> QED
    BY <2>1, BlankIs, TokenIs
<1>6. ASSUME NEW i, Occurs(Blank, w, i)
      PROVE  m + 2 <= i
  <2>1. i \in 1..(Len(w) - 3) /\ \A k \in 1..4 : w[i + k - 1] = Blank[k]
    BY <1>1, <1>5, <1>6 DEF Occurs
  <2>2. \A k \in 1..4 : i + k - 1 \in 1..Len(w)
    BY <1>1, <2>1
  <2>3. \A k \in 1..4 : W[i + k - 1] = Blank[k]
    BY <1>4, <2>1, <2>2
  <2>4. CASE i + 3 <= m
    <3>1. i \in 1..(m - 4 + 1) /\ \A k \in 1..4 : i + k - 1 \in 1..m
      BY <1>1, <2>1, <2>4
    <3>2. \A k \in 1..4 : j[i + k - 1] = Blank[k]
      BY <1>3, <2>3, <3>1
    <3>3. Occurs(Blank, j, i)
      BY <1>5, <3>1, <3>2 DEF Occurs
    <3>4. Len(Blank) >= 1 /\ Blank \in Seq(Tokens)
      BY BlankIs
    <3>5. Find(Blank, j) # 0
      BY <3>3, <3>4, FindIs
    <3> QED
      BY <3>5
  <2>5. CASE i <= m + 1 /\ m + 1 <= i + 3
    <3>0. i \in Int /\ m \in Int
      BY <1>1, <2>1
    <3>1. m + 1 - i + 1 \in 1..4 /\ i + (m + 1 - i + 1) - 1 = m + 1
      BY <3>0, <2>5
    <3>2. W[m + 1] = Blank[m + 1 - i + 1]
      BY <2>3, <3>1
    <3>3. W[m + 1] = Line(r)
      BY <1>1, <1>3
    <3>4. Line(r).kind = "line"
      BY TokenIs
    <3> QED
      BY <1>5, <3>1, <3>2, <3>3, <3>4
  <2>6. i \in Int /\ m \in Int
    BY <1>1, <2>1
  <2> QED
    BY <2>4, <2>5, <2>6
<1>7. ASSUME m + 5 <= Len(w)
      PROVE  Occurs(Blank, w, m + 2)
  <2>1. m + 2 \in 1..(Len(w) - 4 + 1)
    BY <1>1, <1>7
  <2>2. ASSUME NEW k \in 1..4
        PROVE  w[m + 2 + k - 1] = Blank[k]
    <3>1. m + 2 + k - 1 = m + (k + 1) /\ k + 1 \in 1..5 /\ m + (k + 1) \in 1..Len(w)
      BY <1>1, <1>7
    <3>2. w[m + (k + 1)] = h[k + 1]
      BY <1>3, <1>4, <3>1
    <3> QED
      BY <1>1, <3>1, <3>2 DEF h
  <2> QED
    BY <1>5, <2>1, <2>2 DEF Occurs
<1> DEFINE f == Find(Blank, w)
<1>8. /\ f \in Nat /\ (f # 0 => Occurs(Blank, w, f))
      /\ \A i : Occurs(Blank, w, i) => f # 0 /\ f <= i
  <2>1. Len(Blank) >= 1 /\ Blank \in Seq(Tokens)
    BY BlankIs
  <2> QED
    BY <1>0, <2>1, FindIs
<1> HIDE DEF f
<1>9. ASSUME f # 0
      PROVE  f = m + 2 /\ m + 5 <= Len(w)
  <2>1. m + 2 <= f /\ f \in 1..(Len(w) - 4 + 1)
    BY <1>5, <1>6, <1>8, <1>9 DEF Occurs
  <2>2. m + 5 <= Len(w)
    BY <1>1, <2>1
  <2>3. f <= m + 2
    BY <1>7, <1>8, <2>2
  <2> QED
    BY <1>1, <1>8, <2>1, <2>2, <2>3
<1> QED
  BY <1>7, <1>8, <1>9 DEF f

-----------------------------------------------------------------------------
(* What TypeOK says of the parts, and small facts about short sequences.    *)

LEMMA EmptyIs ==
  /\ <<>> \in Seq(Tokens) /\ Len(<<>>) = 0
  /\ \A w \in Seq(Tokens) : w \o <<>> = w /\ <<>> \o w = w /\ (Len(w) = 0 => w = <<>>)
  /\ \A q \in Nat : Units(q, 0) = <<>>
<1>1. \A w \in Seq(Tokens) : w \o <<>> = w /\ <<>> \o w = w /\ (Len(w) = 0 => w = <<>>)
  BY ConcatEmptySeq, EmptySeq
<1>2. ASSUME NEW q \in Nat
      PROVE  Units(q, 0) = <<>>
  <2>1. Units(q, 0) \in Seq(Tokens) /\ Len(Units(q, 0)) = 0
    BY UnitsIs
  <2> QED
    BY <1>1, <2>1
<1> QED
  BY <1>1, <1>2, EmptySeq

\* The end of CR LF, or of nothing.
LEMMA EndIs ==
  ASSUME NEW a \in Seq(Tokens), NEW b \in Seq(Tokens)
  PROVE  /\ a \o b = <<>> => a = <<>> /\ b = <<>>
         /\ a \o b = CRLF => IsEnd(b)
<1> DEFINE w == a \o b
           m == Len(a)
           n == Len(b)
           k == Len(w)
<1>0. k = m + n /\ m \in Nat /\ n \in Nat
  BY ConcatIs
<1>1. \A i \in 1..n : w[m + i] = b[i]
  BY ConcatIs
<1> HIDE DEF w, m, n, k
<1>2. ASSUME w = <<>>
      PROVE  a = <<>> /\ b = <<>>
  <2>1. k = 0
    BY <1>2, EmptyIs DEF k
  <2>2. m = 0 /\ n = 0
    BY <1>0, <2>1
  <2> QED
    BY <2>2, EmptyIs DEF m, n
<1>3. ASSUME w = CRLF
      PROVE  IsEnd(b)
  <2>1. k = 2 /\ w[2] = LF
    BY <1>3, CRLFIs DEF k
  <2>2. m = 0 \/ m = 1 \/ m = 2
    BY <1>0, <2>1
  <2>3. CASE m = 0
    <3>1. a = <<>>
      BY <2>3, EmptyIs DEF m
    <3>2. w = b
      BY <3>1, EmptyIs DEF w
    <3> QED
      BY <1>3, <3>2 DEF IsEnd
  <2>4. CASE m = 1
    <3>1. n = 1 /\ 1 \in 1..n /\ m + 1 = 2
      BY <1>0, <2>1, <2>4
    <3>2. b[1] = LF
      BY <1>1, <2>1, <3>1
    <3>3. <<LF>> \in Seq(Tokens) /\ Len(<<LF>>) = 1 /\ <<LF>>[1] = LF
      BY TokenIs, OneIs
    <3> DEFINE l == <<LF>>
    <3> HIDE DEF l
    <3>4. b = l
      <4>1. l \in Seq(Tokens) /\ Len(b) = Len(l) /\ \A i \in 1..Len(b) : b[i] = l[i]
        BY <3>1, <3>2, <3>3 DEF l, n
      <4> QED
        BY <4>1, SeqEqual
    <3> QED
      BY <3>4 DEF IsEnd, l
  <2>5. CASE m = 2
    <3>1. n = 0
      BY <1>0, <2>1, <2>5
    <3>2. b = <<>>
      BY <3>1, EmptyIs DEF n
    <3> QED
      BY <3>2 DEF IsEnd
  <2> QED
    BY <2>2, <2>3, <2>4, <2>5
<1> QED
  BY <1>2, <1>3 DEF w

\* The end of a body is too short for the end of a head.
LEMMA ShortEnd ==
  ASSUME NEW w, IsEnd(w)
  PROVE  w \in Seq(Tokens) /\ LineFree(w) /\ Len(w) <= 2 /\ Find(Blank, w) = 0
<1>1. <<LF>> \in Seq(Tokens) /\ Len(<<LF>>) = 1
  BY TokenIs, OneIs
<1>2. w \in Seq(Tokens) /\ Len(w) <= 2 /\ LineFree(w) /\ Len(w) \in Nat
  <2>1. CASE w = <<>>
    BY <2>1, EmptyIs, FreeParts
  <2>2. CASE w = <<LF>>
    BY <1>1, <2>2, FreeParts
  <2>3. CASE w = CRLF
    BY <2>3, CRLFIs, FreeParts
  <2> QED
    BY <2>1, <2>2, <2>3 DEF IsEnd
<1>3. Blank \in Seq(Tokens) /\ Len(Blank) = 4 /\ Len(Blank) >= 1
  BY BlankIs
<1>4. Find(Blank, w) # 0 => Occurs(Blank, w, Find(Blank, w))
  BY <1>2, <1>3, FindIs
<1>5. Find(Blank, w) # 0 => Find(Blank, w) \in 1..(Len(w) - 4 + 1)
  BY <1>3, <1>4 DEF Occurs
<1> QED
  BY <1>2, <1>5

Readers == [chunked: BOOLEAN, complete: BOOLEAN, left: Nat \cup {SizeNext},
            pending: Seq(Tokens)]

LEMMA StateIs ==
  ASSUME TypeOK
  PROVE  /\ Last \in Nat /\ Last <= MaxRequests /\ Len(answers) \in Nat
         /\ \A q \in 1..Last : q \in Nat /\ q \in Requests /\ sent[q] \in Shapes
         /\ line \in Seq(Tokens) /\ buffer \in Seq(Tokens) /\ got \in Seq(Tokens)
         /\ Len(line) \in Nat /\ Len(buffer) \in Nat
         /\ \A q : OnLine(q) \in Seq(Tokens)
         /\ reader.chunked \in BOOLEAN /\ reader.complete \in BOOLEAN
         /\ reader.left \in Nat \cup {SizeNext} /\ reader.pending \in Seq(Tokens)
         /\ Len(reader.pending) \in Nat /\ reader \in Readers
<1>1. Last \in Nat /\ Len(answers) \in Nat /\ Last <= MaxRequests
  BY LenProperties DEF TypeOK, Last
<1>2. \A q \in 1..Last : q \in Nat /\ q \in Requests /\ sent[q] \in Shapes
  BY <1>1, ElementOfSeq, RequestsAssumption DEF TypeOK, Last, Requests
<1>3. line \in Seq(Tokens) /\ buffer \in Seq(Tokens) /\ got \in Seq(Tokens)
  BY DEF TypeOK
<1>4. \A q : OnLine(q) \in Seq(Tokens)
  BY <1>3, EmptyIs DEF OnLine
<1>5. /\ reader.chunked \in BOOLEAN /\ reader.complete \in BOOLEAN
      /\ reader.left \in Nat \cup {SizeNext} /\ reader.pending \in Seq(Tokens)
      /\ reader \in Readers
  BY DEF TypeOK, Readers
<1> QED
  BY <1>1, <1>2, <1>3, <1>4, <1>5, LenProperties

-----------------------------------------------------------------------------
(* The steps.  Those that leave the answers alone keep them in order.       *)

LEMMA OrderKept ==
  ASSUME OrderInv, phase # "closed", UNCHANGED answers, ~failed' => ~failed
  PROVE  OrderInv'
  BY DEF OrderInv, AnswersInOrder

\* The thread waits for a head again with an empty buffer.
LEMMA HeadAgain ==
  ASSUME TypeOK, UNCHANGED <<sent, line>>, buffer' = <<>>,
         ~failed' => Len(answers') \in {Last - 1, Last},
         \/ /\ LineFree(line)
            /\ ~failed' => IsEnd(line) /\ (line # <<>> => Last > 0 /\ sent[Last].chunked)
         \/ /\ Last > 0 /\ line = BytesOf(Last)
            /\ ~failed' => Len(answers') = Last - 1
  PROVE  HeadInv'
<1>0. Last \in Nat /\ Last' = Last /\ line \in Seq(Tokens)
  BY StateIs DEF Last
<1>1. CASE /\ LineFree(line)
           /\ ~failed' => IsEnd(line) /\ (line # <<>> => Last > 0 /\ sent[Last].chunked)
  <2>1. buffer' \o line' = line
    BY <1>0, EmptyIs
  <2>2. LineFree(buffer') /\ LineFree(line')
    BY <1>1, FreeParts
  <2>3. Idle'
    BY <1>0, <1>1, <2>1, <2>2 DEF Idle, LineFree, IsEnd
  <2> QED
    BY <2>3 DEF HeadInv
<1>2. CASE /\ Last > 0 /\ line = BytesOf(Last)
           /\ ~failed' => Len(answers') = Last - 1
  <2> PICK q \in 1..Last : q = Last
    BY <1>0, <1>2
  <2> DEFINE junk == Upto(buffer', 0)
  <2>1. junk = <<>> /\ Len(buffer') = 0
    <3>1. buffer' \in Seq(Tokens) /\ 0 \in 0..Len(buffer') /\ Len(buffer') = 0
      BY EmptyIs
    <3>2. junk \in Seq(Tokens) /\ Len(junk) = 0
      BY <3>1, CutIs
    <3> HIDE DEF junk
    <3> QED
      BY <3>1, <3>2, EmptyIs
  <2> HIDE DEF junk
  <2>2. /\ LineFree(junk) /\ IsEnd(junk) /\ Find(Blank, junk) = 0
    BY <2>1, ShortEnd DEF IsEnd
  <2>3. buffer' \o OnLine(q)' = junk \o BytesOf(q)'
    <3>1. OnLine(q)' = line /\ BytesOf(q)' = line
      BY <1>0, <1>2 DEF OnLine, BytesOf
    <3> QED
      BY <2>1, <3>1
  <2>4. ~failed' => Len(answers') = Last' - 1
    BY <1>0, <1>2
  <2>5. Begun(q, 0)'
    BY <1>0, <2>1, <2>2, <2>3, <2>4 DEF Begun, Behind, junk, LineFree, IsEnd, Blank
  <2>6. 0 \in 0..Len(buffer') /\ q \in 1..Last'
    BY <1>0, <2>1
  <2> QED
    BY <2>5, <2>6 DEF HeadInv
<1> QED
  BY <1>1, <1>2

\* The same from a reader whose request is q.
LEMMA HeadAfter ==
  ASSUME TypeOK, NEW q \in 1..Last, UNCHANGED <<sent, line>>, buffer' = <<>>,
         Behind(q), LineFree(OnLine(q)),
         ~failed' => /\ Len(answers') \in {Last - 1, Last}
                     /\ q < Last => Len(answers') = Last - 1
                     /\ IsEnd(OnLine(q)) /\ (OnLine(q) # <<>> => sent[q].chunked)
  PROVE  HeadInv'
<1>1. Last \in Nat
  BY StateIs
<1>2. CASE q = Last
  <2>1. OnLine(q) = line
    BY <1>2 DEF OnLine
  <2>2. ~failed' => IsEnd(line) /\ (line # <<>> => Last > 0 /\ sent[Last].chunked)
    BY <1>1, <1>2, <2>1
  <2> QED
    BY <2>1, <2>2, HeadAgain
<1>3. CASE q < Last
  <2>1. Last > 0 /\ line = BytesOf(Last)
    BY <1>1, <1>3 DEF Behind
  <2> QED
    BY <1>3, <2>1, HeadAgain
<1> QED
  BY <1>1, <1>2, <1>3

\* A Read that is not at an end has a request.
LEMMA WhereReading ==
  ASSUME IInv, reading, ~AtEnd
  PROVE  /\ phase \in {"body", "drain"} /\ (phase = "body" => told = "more")
         /\ ~reader.complete /\ buffer = <<>>
         /\ \E q \in 1..Last : Aligned(q)
<1>1. phase \in {"body", "drain"}
  BY DEF IInv, ReaderInv
<1>2. ~Unaligned
  BY DEF Unaligned, AtEnd
<1> QED
  BY <1>1, <1>2 DEF IInv, ReaderInv, ReadingOK, AtEnd

\* It goes on in the body.
LEMMA ReadGoes ==
  ASSUME IInv, reading, ~AtEnd, NEW q \in 1..Last, Aligned(q),
         UNCHANGED <<sent, answers, phase, buffer, told, req, keep, failed>>,
         reading' \in BOOLEAN, line' \in Seq(Tokens), got' \in Seq(Tokens),
         reader' \in Readers,
         reader'.chunked = reader.chunked,
         reader'.complete => ~reader'.chunked /\ reader'.left = 0,
         Behind(q)', LineFree(OnLine(q)'),
         IF reader'.chunked THEN ChunkedAt(q)' ELSE FixedAt(q)'
  PROVE  IInv'
<1>1. /\ phase \in {"body", "drain"} /\ (phase = "body" => told = "more")
      /\ ~reader.complete /\ buffer = <<>>
  BY WhereReading
<1>2. TypeOK'
  BY DEF IInv, TypeOK, Readers
<1>3. Aligned(q)'
  <2>1. reader'.chunked = sent'[q].chunked /\ req' \in {q, NoRequest}
    BY DEF Aligned
  <2>2. Last' = Last
    BY DEF Last
  <2>3. LineFree(OnLine(q))'
    BY DEF LineFree
  <2> QED
    BY <2>1, <2>2, <2>3 DEF Aligned
<1>4. ReadingOK'
  BY <1>1 DEF ReadingOK
<1>5. ReaderInv'
  <2>1. Last' = Last
    BY DEF Last
  <2> QED
    BY <1>1, <1>3, <1>4, <2>1 DEF ReaderInv
<1>6. HeadInv'
  BY <1>1 DEF HeadInv
<1>7. OrderInv'
  BY <1>1, OrderKept DEF IInv
<1> QED
  BY <1>2, <1>5, <1>6, <1>7 DEF IInv

\* A Read returns 0 or -1.
LEMMA ReadReturns ==
  ASSUME IInv, reading, NEW result \in {"end", "failed"}, Returns(result),
         UNCHANGED <<sent, line, answers, req, keep>>,
         failed' \in BOOLEAN, ~failed' => ~failed, result = "failed" => failed',
         reader' \in Readers,
         phase = "body" => Unaligned' \/ \E q \in 1..Last : Aligned(q)',
         phase = "drain" => HeadInv'
  PROVE  IInv'
<1>1. phase \in {"body", "drain"} /\ buffer = <<>>
  BY DEF IInv, ReaderInv
<1>2. TypeOK'
  BY EmptyIs DEF IInv, TypeOK, Readers, Returns
<1>3. OrderInv'
  BY <1>1, OrderKept DEF IInv
<1>4. CASE phase = "body"
  <2>1. phase' = "body" /\ buffer' = <<>> /\ told' = result /\ ~reading'
    BY <1>1, <1>4 DEF Returns
  <2>2. ReadingOK'
    BY <2>1 DEF ReadingOK
  <2>3. ReaderInv'
    <3>1. Last' = Last
      BY DEF Last
    <3> QED
      BY <1>4, <2>1, <2>2, <3>1 DEF ReaderInv
  <2>4. HeadInv'
    BY <2>1 DEF HeadInv
  <2> QED
    BY <1>2, <1>3, <2>3, <2>4 DEF IInv
<1>5. CASE phase = "drain"
  <2>1. phase' = "head" /\ ~reading'
    BY <1>5 DEF Returns
  <2>2. ReaderInv'
    BY <2>1 DEF ReaderInv
  <2> QED
    BY <1>2, <1>3, <1>5, <2>2 DEF IInv
<1> QED
  BY <1>1, <1>4, <1>5

LEMMA ReadEndKeeps ==
  ASSUME IInv, ReadEnd
  PROVE  IInv'
<1>1. phase \in {"body", "drain"} /\ reading /\ AtEnd /\ ReadingOK
  BY DEF IInv, ReaderInv, ReadEnd
<1>2. ~reader.chunked /\ reader.left = 0
  BY <1>1 DEF AtEnd, ReadingOK
<1>3. /\ reader' = [reader EXCEPT !.complete = TRUE] /\ Returns("end")
      /\ UNCHANGED <<sent, line, answers, req, keep, failed>>
  BY DEF ReadEnd
<1>4. /\ reader' \in Readers /\ ~reader'.chunked /\ reader'.left = 0
      /\ reader'.pending = reader.pending
  BY <1>2, <1>3, StateIs DEF IInv, Readers
<1>5. failed \in BOOLEAN /\ TypeOK /\ Last' = Last /\ failed' = failed
  BY <1>3 DEF IInv, TypeOK, Last
<1>6. phase = "drain" => buffer' = <<>>
  BY <1>3 DEF Returns
<1>7. CASE Unaligned
  <2>1. Unaligned'
    BY <1>3, <1>4, <1>5, <1>7 DEF Unaligned, LineFree, BytesOf
  <2>2. phase = "drain" => HeadInv'
    BY <1>3, <1>5, <1>6, <1>7, HeadAgain DEF Unaligned
  <2> QED
    BY <1>1, <1>3, <1>4, <1>5, <2>1, <2>2, ReadReturns
<1>8. ASSUME NEW q \in 1..Last, Aligned(q)
      PROVE  IInv'
  <2>1. FixedAt(q) /\ reader.chunked = sent[q].chunked
    BY <1>2, <1>8 DEF Aligned
  <2>2. reader.pending \o OnLine(q) = Units(q, 0) /\ q \in Nat
    BY <1>2, <1>5, <2>1, StateIs DEF FixedAt
  <2>3. OnLine(q) = <<>>
    BY <1>5, <2>2, StateIs, EmptyIs, EndIs
  <2>4. OnLine(q)' = OnLine(q)
    BY <1>3, <1>5 DEF OnLine
  <2>5. phase = "body" => Aligned(q)'
    <3> SUFFICES ASSUME phase = "body"
                 PROVE  Aligned(q)'
      OBVIOUS
    <3>1. phase' = "body" /\ got' = got
      BY <1>3 DEF Returns
    <3>2. FixedAt(q)'
      BY <1>2, <1>3, <1>4, <2>1, <2>4, <3>1 DEF FixedAt
    <3>3. LineFree(OnLine(q))' /\ Behind(q)'
      BY <1>3, <1>5, <1>8, <2>4 DEF Aligned, LineFree, Behind, BytesOf
    <3> QED
      BY <1>3, <1>4, <1>5, <1>8, <3>1, <3>2, <3>3 DEF Aligned
  <2>6. phase = "drain" => HeadInv'
    <3> SUFFICES ASSUME phase = "drain"
                 PROVE  HeadInv'
      OBVIOUS
    <3>1. Behind(q) /\ LineFree(OnLine(q)) /\ IsEnd(OnLine(q))
      BY <1>8, <2>3 DEF Aligned, IsEnd
    <3>2. ~failed' => Len(answers') \in {Last - 1, Last} /\ (q < Last => Len(answers') = Last - 1)
      BY <1>3, <1>5, <1>8 DEF Aligned
    <3> QED
      BY <1>3, <1>5, <1>6, <2>3, <3>1, <3>2, HeadAfter
  <2> QED
    BY <1>1, <1>3, <1>4, <1>5, <2>5, <2>6, ReadReturns
<1>9. Unaligned \/ \E q \in 1..Last : Aligned(q)
  BY <1>1 DEF IInv, ReaderInv
<1> QED
  BY <1>7, <1>8, <1>9

LEMMA ReadStopsKeeps ==
  ASSUME IInv, ReadStops
  PROVE  IInv'
<1>1. reading /\ ~AtEnd
  BY DEF ReadStops, InFixed, InChunked
<1>2. PICK q \in 1..Last : Aligned(q)
  BY <1>1, WhereReading
<1>3. /\ reader' = [reader EXCEPT !.complete = TRUE] /\ failed' = TRUE /\ Returns("failed")
      /\ UNCHANGED <<sent, line, answers, req, keep>>
  BY DEF ReadStops
<1>4. /\ reader' \in Readers /\ reader'.chunked = reader.chunked /\ reader'.complete
      /\ reader'.left = reader.left /\ reader'.pending = reader.pending
  BY <1>3, StateIs DEF IInv, Readers
<1>5. TypeOK /\ Last' = Last /\ OnLine(q)' = OnLine(q)
  BY <1>3 DEF IInv, Last, OnLine
<1>6. phase = "body" => Aligned(q)'
  <2> SUFFICES ASSUME phase = "body"
               PROVE  Aligned(q)'
    OBVIOUS
  <2>1. phase' = "body" /\ told' = "failed" /\ got' = got
    BY <1>3 DEF Returns
  <2>2. CASE reader.chunked
    <3>1. ChunkedAt(q)'
      BY <1>3, <1>4, <2>1 DEF ChunkedAt
    <3>2. LineFree(OnLine(q))' /\ Behind(q)'
      BY <1>2, <1>3, <1>5 DEF Aligned, LineFree, Behind, BytesOf
    <3> QED
      BY <1>2, <1>3, <1>4, <2>1, <2>2, <3>1, <3>2 DEF Aligned
  <2>3. CASE ~reader.chunked
    <3>1. FixedAt(q)'
      BY <1>2, <1>3, <1>4, <1>5, <2>1, <2>3 DEF Aligned, FixedAt
    <3>2. LineFree(OnLine(q))' /\ Behind(q)'
      BY <1>2, <1>3, <1>5 DEF Aligned, LineFree, Behind, BytesOf
    <3> QED
      BY <1>2, <1>3, <1>4, <2>1, <2>3, <3>1, <3>2 DEF Aligned
  <2> QED
    BY <2>2, <2>3
<1>7. phase = "drain" => HeadInv'
  <2> SUFFICES ASSUME phase = "drain"
               PROVE  HeadInv'
    OBVIOUS
  <2>1. buffer' = <<>>
    BY <1>3 DEF Returns
  <2>2. Behind(q) /\ LineFree(OnLine(q))
    BY <1>2 DEF Aligned
  <2> QED
    BY <1>3, <1>5, <2>1, <2>2, HeadAfter
<1>8. phase = "body" => Unaligned' \/ \E r \in 1..Last : Aligned(r)'
  BY <1>6
<1> QED
  BY <1>1, <1>3, <1>4, <1>7, <1>8, ReadReturns

\* Units of a body of fixed length are delivered.
LEMMA FixedGoes ==
  ASSUME IInv, InFixed, NEW q \in 1..Last, Aligned(q), NEW n \in 0..reader.left,
         reader' \in Readers, ~reader'.chunked, reader'.left = reader.left - n,
         reader'.complete => reader.left = n,
         reader'.pending \o OnLine(q)' = Units(q, reader.left - n),
         line' \in Seq(Tokens), Behind(q)', LineFree(OnLine(q)'),
         Delivers(Units(q, n)),
         UNCHANGED <<sent, answers, req, keep, failed>>
  PROVE  IInv'
<1>1. reading /\ ~AtEnd /\ ~reader.chunked /\ FixedAt(q) /\ TypeOK
  BY DEF InFixed, Aligned, IInv
<1>2. q \in Nat /\ sent[q] \in Shapes
  BY <1>1, StateIs
<1> DEFINE T == Total(sent[q])
<1>3. T \in Nat
  BY <1>2, TotalIs
<1>4. T' = T
  BY DEF Total
<1> HIDE DEF T
<1>5. reader.left \in 0..T /\ n \in Nat /\ n <= reader.left /\ reader.left \in Nat
  BY <1>1, <1>3 DEF FixedAt, T
<1>6. reader'.left \in 0..T
  BY <1>3, <1>5
<1>7. phase = "body" => got' = Units(q, T - reader'.left)
  <2> SUFFICES ASSUME phase = "body"
               PROVE  got' = Units(q, T - reader'.left)
    OBVIOUS
  <2>1. got = Units(q, T - reader.left) /\ got' = got \o Units(q, n)
    BY <1>1 DEF FixedAt, Delivers, T
  <2>2. T - reader.left \in Nat /\ (T - reader.left) + n = T - reader'.left
    BY <1>3, <1>5
  <2>3. Units(q, T - reader.left) \o Units(q, n) = Units(q, (T - reader.left) + n)
    BY <1>2, <1>5, <2>2, UnitsJoin
  <2> QED
    BY <2>1, <2>2, <2>3
<1>8. phase' = phase /\ told' = told /\ buffer' = buffer /\ reading' \in BOOLEAN
  BY DEF Delivers
<1>9. phase = "body" => told = "more"
  BY <1>1, WhereReading
<1>10. FixedAt(q)'
  BY <1>4, <1>6, <1>7, <1>8, <1>9 DEF FixedAt, T
<1>11. got' \in Seq(Tokens)
  <2>1. Units(q, n) \in Seq(Tokens) /\ got \in Seq(Tokens)
    BY <1>1, <1>2, <1>5, UnitsIs, StateIs
  <2>2. got \o Units(q, n) \in Seq(Tokens)
    BY <2>1, ConcatIs
  <2> QED
    BY <2>1, <2>2 DEF Delivers
<1>12. reader'.complete => ~reader'.chunked /\ reader'.left = 0
  <2>1. n = reader.left => reader.left - n = 0
    BY <1>5
  <2> QED
    BY <2>1
<1>13. reader'.chunked = reader.chunked
  BY <1>1, StateIs DEF Readers
<1>14. IF reader'.chunked THEN ChunkedAt(q)' ELSE FixedAt(q)'
  BY <1>10
<1>15. UNCHANGED <<sent, answers, phase, buffer, told, req, keep, failed>>
  BY <1>8
<1> QED
  BY <1>1, <1>8, <1>11, <1>12, <1>13, <1>14, <1>15, ReadGoes

LEMMA LessIs ==
  ASSUME NEW a \in Nat, NEW b \in Nat
  PROVE  Min({a, b}) \in Nat /\ Min({a, b}) <= a /\ Min({a, b}) <= b
<1>1. Min({a, b}) \in {a, b} /\ \A n \in {a, b} : Min({a, b}) <= n
  BY MinIs
<1> QED
  BY <1>1

LEMMA FixedBufferedKeeps ==
  ASSUME IInv, FixedBuffered
  PROVE  IInv'
<1> DEFINE n == Min({reader.left, Len(reader.pending)})
<1>1. /\ InFixed /\ Delivers(Upto(reader.pending, n))
      /\ reader' = [reader EXCEPT !.left = @ - n, !.complete = (reader.left = n),
                                  !.pending = After(@, n)]
      /\ UNCHANGED <<sent, line, answers, req, keep, failed>>
  BY DEF FixedBuffered
<1> HIDE DEF n
<1>2. reading /\ ~AtEnd /\ ~reader.chunked /\ TypeOK
  BY <1>1 DEF InFixed, IInv
<1>3. PICK q \in 1..Last : Aligned(q)
  BY <1>2, WhereReading
<1>4. q \in Nat /\ sent[q] \in Shapes /\ OnLine(q) \in Seq(Tokens) /\ reader.pending \in Seq(Tokens)
  BY <1>2, StateIs
<1>5. /\ reader.left \in 0..Total(sent[q]) /\ reader.pending \o OnLine(q) = Units(q, reader.left)
  BY <1>2, <1>3 DEF Aligned, FixedAt
<1>6. reader.left \in Nat /\ Len(reader.pending) \in Nat
  BY <1>2, <1>4, <1>5, TotalIs, StateIs
<1>7. n \in 0..reader.left /\ n \in 0..Len(reader.pending) /\ reader.left - n \in Nat
  <2>1. n \in Nat /\ n <= reader.left /\ n <= Len(reader.pending)
    BY <1>6, LessIs DEF n
  <2> QED
    BY <1>6, <2>1
<1>8. OnLine(q)' = OnLine(q)
  BY <1>1 DEF OnLine, Last
<1>9. /\ Upto(reader.pending, n) = Units(q, n)
      /\ Comes(After(reader.pending, n), OnLine(q), Units(q, reader.left - n))
  <2>1. Comes(reader.pending, OnLine(q), Units(q, reader.left))
    BY <1>4, <1>5 DEF Comes
  <2>2. n \in Nat /\ n <= reader.left /\ n <= Len(reader.pending)
    BY <1>6, <1>7
  <2> QED
    BY <1>4, <1>6, <2>1, <2>2, OnlyUnitsCome
<1>10. /\ After(reader.pending, n) \in Seq(Tokens)
       /\ After(reader.pending, n) \o OnLine(q) = Units(q, reader.left - n)
  BY <1>9 DEF Comes
<1>11. /\ reader' \in Readers /\ ~reader'.chunked /\ reader'.left = reader.left - n
       /\ (reader'.complete => reader.left = n) /\ reader'.pending = After(reader.pending, n)
  BY <1>1, <1>2, <1>7, <1>10, StateIs DEF Readers
<1>12. Behind(q)' /\ LineFree(OnLine(q)')
  BY <1>1, <1>3, <1>8 DEF Aligned, Behind, BytesOf, Last
<1>13. line' \in Seq(Tokens)
  BY <1>1, <1>2, StateIs
<1> QED
  BY <1>1, <1>3, <1>7, <1>8, <1>9, <1>10, <1>11, <1>12, <1>13, FixedGoes

LEMMA FixedReceivedKeeps ==
  ASSUME IInv, NEW n \in 1..Len(line), FixedReceived(n)
  PROVE  IInv'
<1>1. /\ InFixed /\ Delivers(Upto(line, n)) /\ reader.pending = <<>> /\ n <= reader.left
      /\ reader' = [reader EXCEPT !.left = @ - n, !.complete = (reader.left = n)]
      /\ line' = After(line, n)
      /\ UNCHANGED <<sent, answers, req, keep, failed>>
  BY DEF FixedReceived
<1>2. reading /\ ~AtEnd /\ ~reader.chunked /\ reader.left # 0 /\ TypeOK
  BY <1>1 DEF InFixed, AtEnd, IInv
<1>3. PICK q \in 1..Last : Aligned(q)
  BY <1>2, WhereReading
<1>4. /\ q \in Nat /\ sent[q] \in Shapes /\ OnLine(q) \in Seq(Tokens) /\ line \in Seq(Tokens)
      /\ Len(line) \in Nat /\ Last \in Nat
  BY <1>2, StateIs
<1>5. /\ reader.left \in 0..Total(sent[q]) /\ reader.pending \o OnLine(q) = Units(q, reader.left)
  BY <1>2, <1>3 DEF Aligned, FixedAt
<1>6. reader.left \in Nat
  BY <1>4, <1>5, TotalIs
<1>7. n \in 0..reader.left /\ n \in 0..Len(line) /\ reader.left - n \in Nat
  BY <1>1, <1>4, <1>6
<1>8. OnLine(q) = Units(q, reader.left)
  BY <1>1, <1>4, <1>5, EmptyIs
<1>9. q = Last /\ OnLine(q) = line
  <2>1. OnLine(q) # <<>>
    <3>1. Len(Units(q, reader.left)) = reader.left
      BY <1>4, <1>6, UnitsIs
    <3> QED
      BY <1>2, <1>8, <3>1, EmptyIs
  <2> QED
    BY <2>1 DEF OnLine
<1>10. /\ Upto(line, n) = Units(q, n)
       /\ After(line, n) = Units(q, reader.left - n)
  <2>1. Comes(line, <<>>, Units(q, reader.left))
    BY <1>4, <1>8, <1>9, EmptyIs DEF Comes
  <2>2. n \in Nat /\ n <= reader.left /\ n <= Len(line)
    BY <1>1, <1>7
  <2>3. Upto(line, n) = Units(q, n) /\ Comes(After(line, n), <<>>, Units(q, reader.left - n))
    BY <1>4, <1>6, <2>1, <2>2, OnlyUnitsCome
  <2> QED
    BY <2>3, EmptyIs DEF Comes
<1>11. /\ reader' \in Readers /\ ~reader'.chunked /\ reader'.left = reader.left - n
       /\ (reader'.complete => reader.left = n) /\ reader'.pending = <<>>
  BY <1>1, <1>2, <1>7, StateIs DEF Readers
<1>12. /\ OnLine(q)' = After(line, n) /\ line' \in Seq(Tokens) /\ LineFree(OnLine(q)')
       /\ Behind(q)'
  <2>1. OnLine(q)' = After(line, n)
    BY <1>1, <1>9 DEF OnLine, Last
  <2>2. After(line, n) \in Seq(Tokens) /\ LineFree(After(line, n))
    BY <1>3, <1>4, <1>7, <1>9, CutIs, FreeCut DEF Aligned
  <2>3. Behind(q)'
    BY <1>1, <1>4, <1>9 DEF Behind, Last
  <2> QED
    BY <1>1, <2>1, <2>2, <2>3
<1>13. reader'.pending \o OnLine(q)' = Units(q, reader.left - n)
  <2>1. <<>> \o After(line, n) = After(line, n)
    BY <1>1, <1>12, EmptyIs
  <2> QED
    BY <1>10, <1>11, <1>12, <2>1
<1> QED
  BY <1>1, <1>3, <1>7, <1>10, <1>11, <1>12, <1>13, FixedGoes

\* What the request of a chunked body that is being read is like.
LEMMA ChunkedIs ==
  ASSUME IInv, InChunked
  PROVE  \E q \in 1..Last :
           /\ Aligned(q) /\ q \in Nat /\ sent[q].chunked /\ sent[q].chunks \in Seq(Nat \ {0})
           /\ OnLine(q) \in Seq(Tokens)
           /\ \E k \in 0..Len(sent[q].chunks) : ChunksAhead(q, k)
<1>1. reading /\ ~AtEnd /\ reader.chunked /\ TypeOK
  BY DEF InChunked, IInv
<1>2. PICK q \in 1..Last : Aligned(q)
  BY <1>1, WhereReading
<1>3. q \in Nat /\ sent[q] \in Shapes /\ OnLine(q) \in Seq(Tokens)
  BY <1>1, StateIs
<1>4. sent[q].chunked /\ ChunkedAt(q) /\ ~reader.complete
  BY <1>1, <1>2, WhereReading DEF Aligned
<1>5. \E k \in 0..Len(sent[q].chunks) : ChunksAhead(q, k)
  BY <1>4 DEF ChunkedAt
<1> QED
  BY <1>2, <1>3, <1>4, <1>5, TotalIs

\* Chunks are read on.
LEMMA ChunksGo ==
  ASSUME IInv, InChunked, NEW q \in 1..Last, Aligned(q),
         UNCHANGED <<sent, answers, phase, buffer, told, req, keep, failed>>,
         reading' \in BOOLEAN, line' \in Seq(Tokens), got' \in Seq(Tokens),
         reader' \in Readers, reader'.chunked, ~reader'.complete,
         Behind(q)', LineFree(OnLine(q)'),
         \E k \in 0..Len(sent[q].chunks) : ChunksAhead(q, k)'
  PROVE  IInv'
<1>1. reading /\ ~AtEnd /\ reader.chunked /\ TypeOK
  BY DEF InChunked, IInv
<1>2. reader'.chunked = reader.chunked
  BY <1>1, StateIs DEF Readers
<1>3. phase = "body" => told = "more"
  BY <1>1, WhereReading
<1>4. ChunkedAt(q)'
  BY <1>3 DEF ChunkedAt
<1>5. IF reader'.chunked THEN ChunkedAt(q)' ELSE FixedAt(q)'
  BY <1>4
<1> QED
  BY <1>1, <1>2, <1>5, ReadGoes

LEMMA AheadIs ==
  ASSUME NEW q \in Nat, NEW c \in Seq(Nat \ {0}), NEW k \in 0..Len(c)
  PROVE  /\ Framed(q, c)[k] \in Seq(Tokens) /\ Framed(q, c)[k] # <<>>
         /\ CRLF \o Framed(q, c)[k] \in Seq(Tokens)
         /\ \A n \in Nat : Units(q, n) \o (CRLF \o Framed(q, c)[k]) # <<>>
         /\ Sums(c)[Len(c) - k] \in Nat
<1> DEFINE rest == Framed(q, c)[k]
<1>1. rest \in Seq(Tokens)
  BY FramedIs
<1>2. rest # <<>>
  <2>1. \E n \in Nat : \E w \in Seq(Tokens) : rest = SizeLine(n) \o w
    <3>1. CASE k = 0 /\ rest = SizeLine(0) \o CRLF
      BY <3>1, CRLFIs
    <3>2. CASE /\ k \in 1..Len(c) /\ k - 1 \in 0..Len(c)
               /\ c[Len(c) - k + 1] \in Nat \ {0}
               /\ rest = SizeLine(c[Len(c) - k + 1])
                    \o (Units(q, c[Len(c) - k + 1]) \o (CRLF \o Framed(q, c)[k - 1]))
      <4> DEFINE n == c[Len(c) - k + 1]
                 u == Units(q, n)
                 r == Framed(q, c)[k - 1]
      <4>1. n \in Nat /\ r \in Seq(Tokens) /\ rest = SizeLine(n) \o (u \o (CRLF \o r))
        BY <3>2, FramedIs
      <4>2. u \in Seq(Tokens)
        BY <4>1, UnitsIs
      <4> HIDE DEF n, u, r, rest
      <4>3. CRLF \o r \in Seq(Tokens)
        BY <4>1, CRLFIs, ConcatIs
      <4>4. u \o (CRLF \o r) \in Seq(Tokens)
        BY <4>2, <4>3, ConcatIs
      <4> QED
        BY <4>1, <4>4
    <3> QED
      BY <3>1, <3>2, FramedFront
  <2>2. PICK n \in Nat, w \in Seq(Tokens) : rest = SizeLine(n) \o w
    BY <2>1
  <2>3. SizeLine(n) \in Seq(Tokens) /\ Len(SizeLine(n)) = 3
    BY SizeLineIs
  <2> HIDE DEF rest
  <2>4. rest = <<>> => SizeLine(n) = <<>>
    BY <2>2, <2>3, EndIs
  <2>5. Len(<<>>) # 3
    OBVIOUS
  <2> QED
    BY <2>3, <2>4, <2>5
<1> HIDE DEF rest
<1>3. CRLF \o rest \in Seq(Tokens) /\ CRLF \o rest # <<>>
  <2>1. CRLF \o rest \in Seq(Tokens)
    BY <1>1, CRLFIs, ConcatIs
  <2>2. CRLF \o rest = <<>> => rest = <<>>
    BY <1>1, CRLFIs, EndIs
  <2> QED
    BY <1>2, <2>1, <2>2
<1>4. ASSUME NEW n \in Nat
      PROVE  Units(q, n) \o (CRLF \o rest) # <<>>
  <2> DEFINE v == CRLF \o rest
  <2>1. v \in Seq(Tokens) /\ v # <<>>
    BY <1>3
  <2> HIDE DEF v
  <2>2. Units(q, n) \in Seq(Tokens)
    BY UnitsIs
  <2>3. Units(q, n) \o v = <<>> => v = <<>>
    BY <2>1, <2>2, EndIs
  <2> QED
    BY <2>1, <2>3 DEF v
<1>5. Sums(c)[Len(c) - k] \in Nat
  <2>1. Len(c) - k \in 0..Len(c)
    BY LenProperties
  <2> QED
    BY <2>1, SumsIs
<1> QED
  BY <1>1, <1>2, <1>3, <1>4, <1>5 DEF rest

LEMMA FillKeeps ==
  ASSUME IInv, NEW n \in 1..Len(line), Fill(n)
  PROVE  IInv'
<1>1. /\ InChunked /\ reader.pending = <<>>
      /\ reader' = [reader EXCEPT !.pending = Upto(line, n)] /\ line' = After(line, n)
      /\ UNCHANGED <<sent, answers, phase, buffer, req, keep, reading, told, got, failed>>
  BY DEF Fill
<1>2. reading /\ ~AtEnd /\ reader.chunked /\ TypeOK
  BY <1>1 DEF InChunked, IInv
<1>3. PICK q \in 1..Last :
           /\ Aligned(q) /\ q \in Nat /\ sent[q].chunked /\ sent[q].chunks \in Seq(Nat \ {0})
           /\ OnLine(q) \in Seq(Tokens)
           /\ \E k \in 0..Len(sent[q].chunks) : ChunksAhead(q, k)
  BY <1>1, ChunkedIs
<1>4. PICK k \in 0..Len(sent[q].chunks) : ChunksAhead(q, k)
  BY <1>3
<1>5. line \in Seq(Tokens) /\ n \in 0..Len(line) /\ reader.left \in Nat \cup {SizeNext}
  BY <1>2, StateIs
<1>6. reader.pending \o OnLine(q) = OnLine(q)
  BY <1>1, <1>3, EmptyIs
<1>7. OnLine(q) # <<>>
  BY <1>3, <1>4, <1>5, <1>6, AheadIs DEF ChunksAhead
<1>8. q = Last /\ OnLine(q) = line
  BY <1>7 DEF OnLine
<1>9. /\ Upto(line, n) \in Seq(Tokens) /\ After(line, n) \in Seq(Tokens)
      /\ Upto(line, n) \o After(line, n) = line /\ LineFree(After(line, n))
  BY <1>3, <1>5, <1>8, CutIs, FreeCut DEF Aligned
<1>10. /\ reader' \in Readers /\ reader'.chunked /\ ~reader'.complete
       /\ reader'.left = reader.left /\ reader'.pending = Upto(line, n)
  BY <1>1, <1>2, <1>9, StateIs, WhereReading DEF Readers
<1>11. OnLine(q)' = After(line, n) /\ Behind(q)'
  <2>1. Last \in Nat
    BY <1>2, StateIs
  <2> QED
    BY <1>1, <1>8, <2>1 DEF OnLine, Behind, Last
<1>12. reader'.pending \o OnLine(q)' = reader.pending \o OnLine(q)
  BY <1>6, <1>8, <1>9, <1>10, <1>11
<1>13. ChunksAhead(q, k)'
  BY <1>1, <1>4, <1>10, <1>12 DEF ChunksAhead
<1>14. line' \in Seq(Tokens) /\ got' \in Seq(Tokens) /\ reading' \in BOOLEAN
  BY <1>1, <1>2, <1>9 DEF TypeOK
<1> QED
  BY <1>1, <1>3, <1>9, <1>10, <1>11, <1>13, <1>14, ChunksGo

LEMMA ChunkTailKeeps ==
  ASSUME IInv, ChunkTail
  PROVE  IInv'
<1>1. /\ InChunked /\ reader.left = 0 /\ Len(reader.pending) >= 2
      /\ reader' = [reader EXCEPT !.left = SizeNext, !.pending = After(@, 2)]
      /\ UNCHANGED <<sent, line, answers, phase, buffer, req, keep, reading, told, got, failed>>
  BY DEF ChunkTail
<1>2. reading /\ ~AtEnd /\ reader.chunked /\ TypeOK
  BY <1>1 DEF InChunked, IInv
<1>3. PICK q \in 1..Last :
           /\ Aligned(q) /\ q \in Nat /\ sent[q].chunked /\ sent[q].chunks \in Seq(Nat \ {0})
           /\ OnLine(q) \in Seq(Tokens)
           /\ \E k \in 0..Len(sent[q].chunks) : ChunksAhead(q, k)
  BY <1>1, ChunkedIs
<1>4. PICK k \in 0..Len(sent[q].chunks) : ChunksAhead(q, k)
  BY <1>3
<1> DEFINE rest == Framed(q, sent[q].chunks)[k]
           taken == Sums(sent[q].chunks)[Len(sent[q].chunks) - k]
<1>5. rest \in Seq(Tokens) /\ taken \in Nat /\ CRLF \o rest \in Seq(Tokens)
  BY <1>3, AheadIs
<1>6. /\ reader.pending \o OnLine(q) = Units(q, 0) \o (CRLF \o rest)
      /\ phase = "body" => got = Units(q, taken - 0)
  <2>1. reader.left # SizeNext
    BY <1>1 DEF SizeNext
  <2>2. /\ reader.pending \o OnLine(q) = Units(q, reader.left) \o (CRLF \o rest)
        /\ phase = "body" => got = Units(q, taken - reader.left)
    BY <1>4, <2>1 DEF ChunksAhead
  <2> QED
    BY <1>1, <2>2
<1>7. reader.pending \o OnLine(q) = CRLF \o rest
  BY <1>3, <1>5, <1>6, EmptyIs
<1>8. reader.pending \in Seq(Tokens)
  BY <1>2, StateIs
<1> HIDE DEF rest, taken
<1>9. /\ After(reader.pending, 2) \in Seq(Tokens)
      /\ After(reader.pending, 2) \o OnLine(q) = rest
  <2>1. Comes(reader.pending, OnLine(q), CRLF \o rest)
    BY <1>3, <1>7, <1>8 DEF Comes
  <2>2. CRLF \in Seq(Tokens) /\ Len(CRLF) = 2
    BY CRLFIs
  <2>3. Comes(After(reader.pending, Len(CRLF)), OnLine(q), rest)
    BY <1>1, <1>5, <2>1, <2>2, FirstCome
  <2> QED
    BY <2>2, <2>3 DEF Comes
<1>10. /\ reader' \in Readers /\ reader'.chunked /\ ~reader'.complete
       /\ reader'.left = SizeNext /\ reader'.pending = After(reader.pending, 2)
  BY <1>1, <1>2, <1>9, StateIs, WhereReading DEF Readers
<1>11. OnLine(q)' = OnLine(q) /\ Behind(q)' /\ LineFree(OnLine(q)')
  BY <1>1, <1>3 DEF OnLine, Behind, Last, Aligned, BytesOf
<1>12. ChunksAhead(q, k)'
  <2>1. taken - 0 = taken
    BY <1>5
  <2>2. phase' = "body" => got' = Units(q, taken)
    BY <1>1, <1>6, <2>1
  <2> QED
    BY <1>1, <1>9, <1>10, <1>11, <2>2 DEF ChunksAhead, rest, taken
<1>13. line' \in Seq(Tokens) /\ got' \in Seq(Tokens) /\ reading' \in BOOLEAN
  BY <1>1, <1>2 DEF TypeOK
<1> QED
  BY <1>1, <1>3, <1>10, <1>11, <1>12, <1>13, ChunksGo

LEMMA ChunkDataKeeps ==
  ASSUME IInv, ChunkData
  PROVE  IInv'
<1> DEFINE n == Min({reader.left, Len(reader.pending)})
           left == reader.left
           pending == reader.pending
<1>1. /\ InChunked /\ left > 0 /\ Delivers(Upto(pending, n))
      /\ reader' = [reader EXCEPT !.left = @ - n, !.pending = After(@, n)]
      /\ UNCHANGED <<sent, line, answers, req, keep, failed>>
  BY DEF ChunkData
<1>2. reading /\ ~AtEnd /\ reader.chunked /\ TypeOK
  BY <1>1 DEF InChunked, IInv
<1>3. PICK q \in 1..Last :
           /\ Aligned(q) /\ q \in Nat /\ sent[q].chunked /\ sent[q].chunks \in Seq(Nat \ {0})
           /\ OnLine(q) \in Seq(Tokens)
           /\ \E k \in 0..Len(sent[q].chunks) : ChunksAhead(q, k)
  BY <1>1, ChunkedIs
<1>4. PICK k \in 0..Len(sent[q].chunks) : ChunksAhead(q, k)
  BY <1>3
<1> DEFINE rest == Framed(q, sent[q].chunks)[k]
           taken == Sums(sent[q].chunks)[Len(sent[q].chunks) - k]
<1>5. rest \in Seq(Tokens) /\ taken \in Nat /\ CRLF \o rest \in Seq(Tokens)
  BY <1>3, AheadIs
<1>6. left \in Nat /\ left # SizeNext /\ pending \in Seq(Tokens) /\ Len(pending) \in Nat
  BY <1>1, <1>2, StateIs DEF SizeNext
<1>7. /\ pending \o OnLine(q) = Units(q, left) \o (CRLF \o rest)
      /\ left <= taken
      /\ phase = "body" => got = Units(q, taken - left)
  BY <1>4, <1>6 DEF ChunksAhead
<1>8. n \in Nat /\ n <= left /\ n <= Len(pending)
  BY <1>6, LessIs
<1> HIDE DEF n
<1>9. left - n \in Nat /\ left - n <= taken /\ taken - left \in Nat
      /\ (taken - left) + n = taken - (left - n) /\ left - n # SizeNext
  <2> HIDE DEF left, taken, rest, pending
  <2>1. left \in Nat /\ taken \in Nat /\ n \in Nat /\ n <= left /\ left <= taken
    BY <1>5, <1>6, <1>7, <1>8
  <2> QED
    BY <2>1 DEF SizeNext
<1>10. /\ Upto(pending, n) = Units(q, n) /\ After(pending, n) \in Seq(Tokens)
       /\ After(pending, n) \o OnLine(q) = Units(q, left - n) \o (CRLF \o rest)
  <2> HIDE DEF left, pending, rest, taken
  <2> DEFINE b == CRLF \o rest
  <2>1. b \in Seq(Tokens)
    BY <1>5
  <2>2. Comes(pending, OnLine(q), Units(q, left) \o b)
    BY <1>3, <1>6, <1>7 DEF Comes
  <2> HIDE DEF b
  <2>3. q \in Nat
    BY <1>3
  <2>4. Upto(pending, n) = Units(q, n) /\ Comes(After(pending, n), OnLine(q), Units(q, left - n) \o b)
    BY <1>6, <1>8, <2>1, <2>2, <2>3, UnitsCome
  <2> QED
    BY <2>4 DEF Comes, b
<1>11. /\ reader' \in Readers /\ reader'.chunked /\ ~reader'.complete
       /\ reader'.left = left - n /\ reader'.pending = After(pending, n)
  BY <1>1, <1>2, <1>9, <1>10, StateIs, WhereReading DEF Readers
<1>12. phase' = phase /\ told' = told /\ buffer' = buffer /\ reading' \in BOOLEAN
  BY <1>1 DEF Delivers
<1>13. OnLine(q)' = OnLine(q) /\ Behind(q)' /\ LineFree(OnLine(q)')
  BY <1>1, <1>3 DEF OnLine, Behind, Last, Aligned, BytesOf
<1>14. phase = "body" => got' = Units(q, taken - (left - n))
  <2> SUFFICES ASSUME phase = "body"
               PROVE  got' = Units(q, taken - (left - n))
    OBVIOUS
  <2>1. got' = got \o Units(q, n)
    BY <1>1, <1>10 DEF Delivers
  <2>2. Units(q, taken - left) \o Units(q, n) = Units(q, (taken - left) + n)
    BY <1>3, <1>8, <1>9, UnitsJoin
  <2> QED
    BY <1>7, <1>9, <2>1, <2>2
<1>15. got' \in Seq(Tokens)
  <2>1. Units(q, n) \in Seq(Tokens) /\ got \in Seq(Tokens)
    BY <1>2, <1>3, <1>8, UnitsIs, StateIs
  <2>2. got \o Units(q, n) \in Seq(Tokens)
    BY <2>1, ConcatIs
  <2> QED
    BY <1>1, <1>10, <2>1, <2>2 DEF Delivers
<1>16. ChunksAhead(q, k)'
  <2> HIDE DEF left, pending, rest, taken
  <2>1. reader'.left # SizeNext /\ reader'.left <= taken
    BY <1>9, <1>11
  <2>2. reader'.pending \o OnLine(q)' = Units(q, reader'.left) \o (CRLF \o rest)
    BY <1>10, <1>11, <1>13
  <2>3. phase' = "body" => got' = Units(q, taken - reader'.left)
    BY <1>11, <1>12, <1>14
  <2> QED
    BY <1>1, <2>1, <2>2, <2>3 DEF ChunksAhead, rest, taken
<1>17. line' \in Seq(Tokens)
  BY <1>1, <1>2 DEF TypeOK
<1> QED
  BY <1>1, <1>3, <1>11, <1>12, <1>13, <1>15, <1>16, <1>17, ChunksGo

\* The size that ends at the first CR LF of what is pending.
LEMMA SizeFound ==
  ASSUME NEW p, NEW t, NEW n \in Nat, NEW b \in Seq(Tokens),
         Comes(p, t, SizeLine(n) \o b), Find(CRLF, p) # 0
  PROVE  /\ Find(CRLF, p) = 2 /\ SizeIn(Upto(p, Find(CRLF, p) - 1)) = n
         /\ Comes(After(p, Find(CRLF, p) + 1), t, b)
<1> DEFINE f == Find(CRLF, p)
           s == SizeLine(n)
<1>1. p \in Seq(Tokens) /\ Len(p) \in Nat /\ t \in Seq(Tokens) /\ p \o t = s \o b
  BY LenProperties DEF Comes
<1>2. s \in Seq(Tokens) /\ Len(s) = 3 /\ s[1] = Size(n) /\ s[2] = CR /\ s[3] = LF
  BY SizeLineIs
<1>3. f \in Nat /\ f # 0 /\ Occurs(CRLF, p, f) /\ \A i : Occurs(CRLF, p, i) => f <= i
  <2>1. CRLF \in Seq(Tokens) /\ Len(CRLF) >= 1
    BY CRLFIs
  <2> QED
    BY <1>1, <2>1, FindIs
<1> HIDE DEF f, s
<1>4. f \in 1..(Len(p) - 2 + 1) /\ p[f + 1 - 1] = CR /\ p[f + 2 - 1] = LF
  <2>1. f \in 1..(Len(p) - 2 + 1) /\ \A j \in 1..2 : p[f + j - 1] = CRLF[j]
    BY <1>3, CRLFIs DEF Occurs
  <2> QED
    BY <2>1, CRLFIs
<1>5. 1 \in 1..Len(p) /\ p[1] = Size(n)
  <2>1. 1 \in 1..Len(p) /\ 1 \in 1..Len(s)
    BY <1>1, <1>2, <1>4
  <2>2. (p \o t)[1] = p[1]
    BY <1>1, <2>1, ConcatIs
  <2>3. (s \o b)[1] = s[1]
    BY <1>2, <2>1, ConcatIs
  <2> QED
    BY <1>1, <1>2, <2>1, <2>2, <2>3
<1>6. f # 1
  <2>1. Size(n).kind # CR.kind
    BY TokenIs
  <2>2. f = 1 => p[1] = CR
    BY <1>4
  <2> QED
    BY <1>5, <2>1, <2>2
<1>7. 3 <= Len(p) /\ 2 <= f
  BY <1>1, <1>3, <1>4, <1>6
<1>8. p[2] = CR /\ p[3] = LF
  <2>1. 2 \in 1..Len(p) /\ 2 \in 1..Len(s) /\ 3 \in 1..Len(p) /\ 3 \in 1..Len(s)
    BY <1>1, <1>2, <1>7
  <2>2. (p \o t)[2] = p[2] /\ (p \o t)[3] = p[3]
    BY <1>1, <2>1, ConcatIs
  <2>3. (s \o b)[2] = s[2] /\ (s \o b)[3] = s[3]
    BY <1>2, <2>1, ConcatIs
  <2> QED
    BY <1>1, <1>2, <2>2, <2>3
<1>9. Occurs(CRLF, p, 2)
  <2>1. 2 \in 1..(Len(p) - 2 + 1)
    BY <1>1, <1>7
  <2>2. \A j \in 1..2 : p[2 + j - 1] = CRLF[j]
    <3> SUFFICES ASSUME NEW j \in 1..2
                 PROVE  p[2 + j - 1] = CRLF[j]
      OBVIOUS
    <3>1. j = 1 \/ j = 2
      OBVIOUS
    <3> QED
      BY <1>8, <3>1, CRLFIs
  <2> QED
    BY <2>1, <2>2, CRLFIs DEF Occurs
<1>10. f = 2
  <2>1. f <= 2
    BY <1>3, <1>9
  <2> QED
    BY <1>3, <1>7, <2>1
<1>11. SizeIn(Upto(p, 1)) = n
  <2>1. 1 \in 0..Len(p)
    BY <1>1, <1>7
  <2>2. Upto(p, 1) \in Seq(Tokens) /\ Len(Upto(p, 1)) = 1 /\ Upto(p, 1)[1] = p[1]
    <3>1. p \in Seq(Tokens)
      BY <1>1
    <3>2. \A i \in 1..1 : Upto(p, 1)[i] = p[i]
      BY <2>1, <3>1, CutIs
    <3>3. Upto(p, 1) \in Seq(Tokens) /\ Len(Upto(p, 1)) = 1
      BY <2>1, <3>1, CutIs, Zenon
    <3>4. 1 \in 1..1
      OBVIOUS
    <3> QED
      BY <3>2, <3>3, <3>4
  <2>3. Upto(p, 1) # <<>>
    BY <2>2, EmptySeq
  <2>4. Size(n).kind = "size" /\ Size(n).n = n
    BY TokenIs
  <2> QED
    BY <1>5, <2>2, <2>3, <2>4 DEF SizeIn
<1>12. Comes(After(p, 3), t, b)
  <2>1. Len(s) <= Len(p) /\ Comes(p, t, s \o b)
    BY <1>2, <1>7 DEF s
  <2>2. Comes(After(p, Len(s)), t, b)
    BY <1>2, <2>1, FirstCome
  <2> QED
    BY <1>2, <2>2
<1> QED
  BY <1>10, <1>11, <1>12 DEF f

LEMMA ChunkSizeKeeps ==
  ASSUME IInv, ChunkSize
  PROVE  IInv'
<1> DEFINE pending == reader.pending
           end  == Find(CRLF, pending)
           size == SizeIn(Upto(pending, end - 1))
<1>1. /\ InChunked /\ reader.left = SizeNext /\ end # 0
      /\ IF size = 0
           THEN /\ reader' = [reader EXCEPT !.complete = TRUE, !.pending = After(@, end + 1)]
                /\ Returns("end")
           ELSE /\ reader' = [reader EXCEPT !.left = size, !.pending = After(@, end + 1)]
                /\ UNCHANGED <<phase, buffer, reading, told, got>>
      /\ UNCHANGED <<sent, line, answers, req, keep, failed>>
  BY DEF ChunkSize
<1>2. reading /\ ~AtEnd /\ reader.chunked /\ ~reader.complete /\ TypeOK
  BY <1>1, WhereReading DEF InChunked, IInv
<1>3. PICK q \in 1..Last :
           /\ Aligned(q) /\ q \in Nat /\ sent[q].chunked /\ sent[q].chunks \in Seq(Nat \ {0})
           /\ OnLine(q) \in Seq(Tokens)
           /\ \E k \in 0..Len(sent[q].chunks) : ChunksAhead(q, k)
  BY <1>1, ChunkedIs
<1>4. PICK k \in 0..Len(sent[q].chunks) : ChunksAhead(q, k)
  BY <1>3
<1> DEFINE c == sent[q].chunks
           rest == Framed(q, c)[k]
           taken == Sums(c)[Len(c) - k]
<1>5. /\ pending \o OnLine(q) = rest
      /\ phase = "body" => got = Units(q, taken)
  BY <1>1, <1>4 DEF ChunksAhead
<1>6. pending \in Seq(Tokens) /\ Comes(pending, OnLine(q), rest)
  BY <1>2, <1>3, <1>5, StateIs DEF Comes
<1>7. OnLine(q)' = OnLine(q) /\ Behind(q)' /\ LineFree(OnLine(q)') /\ Last' = Last
  BY <1>1, <1>3 DEF OnLine, Behind, Last, Aligned, BytesOf
<1>8. CASE k = 0 /\ rest = SizeLine(0) \o CRLF
  <2>1. /\ end = 2 /\ size = 0
        /\ Comes(After(pending, end + 1), OnLine(q), CRLF)
    <3> HIDE DEF pending, rest, c
    <3>1. CRLF \in Seq(Tokens) /\ 0 \in Nat
      BY CRLFIs
    <3>2. Comes(pending, OnLine(q), SizeLine(0) \o CRLF)
      BY <1>6, <1>8
    <3> QED
      BY <1>1, <3>1, <3>2, SizeFound
  <2> HIDE DEF size, end
  <2>2. reader' = [reader EXCEPT !.complete = TRUE, !.pending = After(@, end + 1)] /\ Returns("end")
    BY <1>1, <2>1
  <2>3. After(pending, end + 1) \in Seq(Tokens) /\ After(pending, end + 1) \o OnLine(q) = CRLF
    BY <2>1 DEF Comes
  <2>4. /\ reader' \in Readers /\ reader'.chunked /\ reader'.complete
        /\ reader'.pending = After(pending, end + 1)
    BY <1>2, <2>2, <2>3, StateIs DEF Readers
  <2>5. failed' \in BOOLEAN /\ ~failed' => ~failed
    BY <1>1
  <2>6. phase = "body" => Aligned(q)'
    <3> SUFFICES ASSUME phase = "body"
                 PROVE  Aligned(q)'
      OBVIOUS
    <3>1. phase' = "body" /\ got' = got
      BY <2>2 DEF Returns
    <3>2. taken = Total(sent[q])
      <4>1. Len(c) - k = Len(c)
        BY <1>3, <1>8, LenProperties
      <4> QED
        BY <4>1 DEF Total
    <3>3. got' = Units(q, Total(sent'[q]))
      BY <1>1, <1>5, <3>1, <3>2
    <3>4. ChunkedAt(q)'
      BY <1>7, <2>3, <2>4, <3>3 DEF ChunkedAt
    <3>5. LineFree(OnLine(q))'
      BY <1>7 DEF LineFree
    <3> QED
      BY <1>1, <1>2, <1>3, <1>7, <2>4, <3>1, <3>4, <3>5 DEF Aligned
  <2>7. phase = "drain" => HeadInv'
    <3> SUFFICES ASSUME phase = "drain"
                 PROVE  HeadInv'
      OBVIOUS
    <3>1. buffer' = <<>>
      BY <2>2 DEF Returns
    <3>2. IsEnd(OnLine(q))
      BY <1>3, <2>3, EndIs
    <3>3. Behind(q) /\ LineFree(OnLine(q))
      BY <1>3 DEF Aligned
    <3>4. ~failed' => Len(answers') \in {Last - 1, Last} /\ (q < Last => Len(answers') = Last - 1)
      BY <1>1, <1>3 DEF Aligned
    <3> QED
      BY <1>1, <1>2, <1>3, <3>1, <3>2, <3>3, <3>4, HeadAfter
  <2>8. failed' \in BOOLEAN
    BY <1>1, <1>2 DEF TypeOK
  <2>9. phase = "body" => Unaligned' \/ \E r \in 1..Last : Aligned(r)'
    BY <2>6
  <2> QED
    BY <1>1, <1>2, <2>2, <2>4, <2>7, <2>8, <2>9, ReadReturns
<1>9. CASE /\ k \in 1..Len(c) /\ k - 1 \in 0..Len(c) /\ c[Len(c) - k + 1] \in Nat \ {0}
           /\ rest = SizeLine(c[Len(c) - k + 1])
                \o (Units(q, c[Len(c) - k + 1]) \o (CRLF \o Framed(q, c)[k - 1]))
  <2> DEFINE n == c[Len(c) - k + 1]
             r == Framed(q, c)[k - 1]
             b == Units(q, n) \o (CRLF \o r)
             after == Sums(c)[Len(c) - (k - 1)]
  <2>1. n \in Nat /\ n # 0
    BY <1>9
  <2>2. CRLF \o r \in Seq(Tokens)
    BY <1>3, <1>9, AheadIs
  <2>3. b \in Seq(Tokens)
    BY <1>3, <2>1, <2>2, UnitsIs, ConcatIs
  <2>4. end = 2 /\ size = n /\ Comes(After(pending, end + 1), OnLine(q), b)
    <3> HIDE DEF pending, n, b
    <3>1. Comes(pending, OnLine(q), SizeLine(n) \o b)
      BY <1>6, <1>9 DEF b, n
    <3> QED
      BY <1>1, <2>1, <2>3, <3>1, SizeFound
  <2> HIDE DEF size, end
  <2>5. /\ reader' = [reader EXCEPT !.left = size, !.pending = After(@, end + 1)]
        /\ UNCHANGED <<phase, buffer, reading, told, got>>
    BY <1>1, <2>1, <2>4
  <2>6. After(pending, end + 1) \in Seq(Tokens) /\ After(pending, end + 1) \o OnLine(q) = b
    BY <2>4 DEF Comes
  <2>7. /\ reader' \in Readers /\ reader'.chunked /\ ~reader'.complete /\ reader'.left = n
        /\ reader'.pending = After(pending, end + 1)
    <3> HIDE DEF n, b, pending
    <3> QED
      BY <1>2, <2>1, <2>4, <2>5, <2>6, StateIs DEF Readers, pending
  <2>8. taken \in Nat /\ after = taken + n
    <3>1. Len(c) - k + 1 \in 1..Len(c) /\ Len(c) - (k - 1) = Len(c) - k + 1
      BY <1>3, <1>9, LenProperties
    <3>2. (Len(c) - k + 1) - 1 = Len(c) - k
      BY <1>3, <1>9, LenProperties
    <3>3. Sums(c)[Len(c) - k + 1] = Sums(c)[(Len(c) - k + 1) - 1] + c[Len(c) - k + 1]
      BY <1>3, <3>1, SumsIs
    <3>4. taken \in Nat
      BY <1>3, AheadIs
    <3> QED
      BY <3>1, <3>2, <3>3, <3>4
  <2>9. ChunksAhead(q, k - 1)'
    <3> HIDE DEF n, r, after, taken, pending, c
    <3>1. reader'.left # SizeNext /\ n <= after /\ after - n = taken
      BY <2>1, <2>7, <2>8 DEF SizeNext
    <3>2. reader'.pending \o OnLine(q)' = Units(q, reader'.left) \o (CRLF \o r)
      BY <1>7, <2>6, <2>7
    <3>3. phase' = "body" => got' = Units(q, after - reader'.left)
      BY <1>5, <2>5, <2>7, <3>1
    <3> QED
      BY <1>1, <2>7, <3>1, <3>2, <3>3 DEF ChunksAhead, r, after, c
  <2>10. line' \in Seq(Tokens) /\ got' \in Seq(Tokens) /\ reading' \in BOOLEAN
    BY <1>1, <1>2, <2>5 DEF TypeOK
  <2>11. \E j \in 0..Len(sent[q].chunks) : ChunksAhead(q, j)'
    BY <1>9, <2>9
  <2> QED
    BY <1>1, <1>3, <1>7, <2>5, <2>7, <2>10, <2>11, ChunksGo
<1>10. \/ k = 0 /\ rest = SizeLine(0) \o CRLF
       \/ /\ k \in 1..Len(c) /\ k - 1 \in 0..Len(c) /\ c[Len(c) - k + 1] \in Nat \ {0}
          /\ rest = SizeLine(c[Len(c) - k + 1])
               \o (Units(q, c[Len(c) - k + 1]) \o (CRLF \o Framed(q, c)[k - 1]))
  <2>1. c \in Seq(Nat \ {0}) /\ k \in 0..Len(c) /\ q \in Nat
    BY <1>3
  <2> HIDE DEF c
  <2> QED
    BY <2>1, FramedFront, Zenon
<1> QED
  BY <1>8, <1>9, <1>10

LEMMA HandlerReadsKeeps ==
  ASSUME IInv, HandlerReads
  PROVE  IInv'
<1>1. /\ phase = "body" /\ told = "more" /\ reading' = TRUE
      /\ UNCHANGED <<sent, line, answers, phase, buffer, req, keep, reader, told, got, failed>>
  BY DEF HandlerReads
<1>2. TypeOK'
  BY <1>1 DEF IInv, TypeOK
<1>3. ReaderInv'
  <2>1. ReadingOK'
    BY <1>1 DEF IInv, ReaderInv, ReadingOK
  <2>2. Last' = Last
    BY <1>1 DEF Last
  <2>3. Unaligned => Unaligned'
    BY <1>1 DEF Unaligned, LineFree, BytesOf, Last
  <2>4. ASSUME NEW q \in 1..Last, Aligned(q)
        PROVE  Aligned(q)'
    <3>1. OnLine(q)' = OnLine(q) /\ Behind(q)' /\ LineFree(OnLine(q))'
      BY <1>1, <2>4 DEF Aligned, OnLine, Behind, LineFree, BytesOf, Last
    <3>2. ChunkedAt(q)' <=> ChunkedAt(q)
      BY <1>1, <3>1 DEF ChunkedAt, ChunksAhead
    <3>3. FixedAt(q)' <=> FixedAt(q)
      BY <1>1, <3>1 DEF FixedAt
    <3> QED
      BY <1>1, <2>2, <2>4, <3>1, <3>2, <3>3 DEF Aligned
  <2>5. Unaligned \/ \E q \in 1..Last : Aligned(q)
    BY <1>1 DEF IInv, ReaderInv
  <2>6. buffer' = <<>>
    BY <1>1 DEF IInv, ReaderInv
  <2> QED
    BY <1>1, <2>1, <2>2, <2>3, <2>4, <2>5, <2>6 DEF ReaderInv
<1>4. HeadInv'
  BY <1>1 DEF HeadInv
<1>5. OrderInv'
  BY <1>1, OrderKept DEF IInv
<1> QED
  BY <1>2, <1>3, <1>4, <1>5 DEF IInv

\* The thread leaves, or stays in the send; the answers stay as they are.
LEMMA LeavesKeeps ==
  ASSUME IInv, HeadStops \/ AnswerFails \/ ClientStopsReading
  PROVE  IInv'
<1>1. /\ phase # "closed" /\ phase' \in {"blocked", "closed"}
      /\ UNCHANGED <<answers, sent, line, buffer, req, keep, body>>
  BY DEF HeadStops, AnswerFails, ClientStopsReading
<1>2. TypeOK'
  BY <1>1 DEF IInv, TypeOK, body
<1>3. ~reading'
  BY <1>1 DEF IInv, ReaderInv, HeadStops, AnswerFails, ClientStopsReading, body
<1>4. ReaderInv' /\ HeadInv'
  BY <1>1, <1>3 DEF ReaderInv, HeadInv
<1>5. OrderInv'
  BY <1>1, OrderKept DEF IInv, body
<1> QED
  BY <1>2, <1>4, <1>5 DEF IInv

\* After the answer, or what there is of it.
LEMMA ContinuesKeeps ==
  ASSUME IInv, phase = "body", ~reading, Continues,
         answers' \in Seq(Requests \cup {NoRequest, BadHead}),
         ~failed => /\ Len(answers') \in {Last - 1, Last}
                    /\ \A i \in DOMAIN answers' : answers'[i] = i
  PROVE  IInv'
<1>1. /\ phase' = IF ~keep THEN "closed" ELSE IF reader.complete THEN "head" ELSE "drain"
      /\ reading' = (phase' = "drain")
      /\ UNCHANGED <<sent, line, buffer, req, keep, reader, told, got, failed>>
  BY DEF Continues
<1>2. TypeOK /\ buffer = <<>> /\ ReadingOK
  BY DEF IInv, ReaderInv
<1>3. Last' = Last /\ \A q : OnLine(q)' = OnLine(q)
  BY <1>1 DEF Last, OnLine
<1>4. TypeOK'
  BY <1>1, <1>2 DEF TypeOK
<1>5. OrderInv'
  BY <1>1 DEF OrderInv, AnswersInOrder
<1>6. ASSUME phase' = "head"
      PROVE  HeadInv'
  <2>1. reader.complete
    BY <1>1, <1>6
  <2>2. CASE Unaligned
    BY <1>1, <1>2, <2>2, HeadAgain DEF Unaligned
  <2>3. ASSUME NEW q \in 1..Last, Aligned(q)
        PROVE  HeadInv'
    <3>1. Behind(q) /\ LineFree(OnLine(q)) /\ OnLine(q) \in Seq(Tokens) /\ reader.pending \in Seq(Tokens)
      BY <1>2, <2>3, StateIs DEF Aligned
    <3>2. ~failed => IsEnd(OnLine(q)) /\ (OnLine(q) # <<>> => sent[q].chunked)
      <4> SUFFICES ASSUME ~failed
                   PROVE  IsEnd(OnLine(q)) /\ (OnLine(q) # <<>> => sent[q].chunked)
        OBVIOUS
      <4>1. CASE reader.chunked
        <5>1. reader.pending \o OnLine(q) = CRLF /\ sent[q].chunked
          BY <2>1, <2>3, <4>1 DEF Aligned, ChunkedAt
        <5> QED
          BY <3>1, <5>1, EndIs
      <4>2. CASE ~reader.chunked
        <5>1. FixedAt(q)
          BY <2>3, <4>2 DEF Aligned
        <5>2. reader.left = 0
          BY <1>2, <2>1, <5>1 DEF ReadingOK, FixedAt, TypeOK
        <5>3. reader.pending \o OnLine(q) = <<>>
          <6>1. q \in Nat
            BY <1>2, StateIs
          <6> QED
            BY <5>1, <5>2, <6>1, EmptyIs DEF FixedAt
        <5>4. OnLine(q) = <<>>
          BY <3>1, <5>3, EndIs
        <5> QED
          BY <5>4 DEF IsEnd
      <4> QED
        BY <4>1, <4>2
    <3>3. ~failed => q = Last
      BY <2>3 DEF Aligned
    <3>4. Last \in Nat
      BY <1>2, StateIs
    <3> QED
      BY <1>1, <1>2, <3>1, <3>2, <3>3, <3>4, HeadAfter
  <2> QED
    BY <2>2, <2>3 DEF IInv, ReaderInv
<1>7. ASSUME phase' = "drain"
      PROVE  ReaderInv'
  <2>1. ~reader.complete /\ ~reader'.complete
    BY <1>1, <1>7
  <2>2. ReadingOK'
    BY <1>7, <2>1 DEF ReadingOK
  <2>3. Unaligned => Unaligned'
    BY <1>1 DEF Unaligned, LineFree, BytesOf, Last
  <2>4. ASSUME NEW q \in 1..Last, Aligned(q)
        PROVE  Aligned(q)'
    <3>1. OnLine(q)' = OnLine(q) /\ Behind(q)' /\ LineFree(OnLine(q))'
      BY <1>1, <2>4 DEF Aligned, OnLine, Behind, LineFree, BytesOf, Last
    <3>2. ChunkedAt(q) => ChunkedAt(q)'
      BY <1>1, <1>7, <2>1, <3>1 DEF ChunkedAt, ChunksAhead
    <3>3. FixedAt(q) => FixedAt(q)'
      BY <1>1, <1>7, <3>1 DEF FixedAt
    <3>4. ~failed => q = Last
      BY <2>4 DEF Aligned
    <3>5. Last \in Nat
      BY <1>2, StateIs
    <3> QED
      BY <1>1, <1>3, <1>7, <2>4, <3>1, <3>2, <3>3, <3>4, <3>5 DEF Aligned
  <2>5. Unaligned \/ \E q \in 1..Last : Aligned(q)
    BY DEF IInv, ReaderInv
  <2> QED
    BY <1>1, <1>2, <1>3, <1>7, <2>2, <2>3, <2>4, <2>5 DEF ReaderInv
<1>8. phase' \in {"head", "drain", "closed"} /\ (reading' => phase' = "drain")
  BY <1>1
<1>9. HeadInv'
  BY <1>6 DEF HeadInv
<1>10. ReaderInv'
  BY <1>7, <1>8 DEF ReaderInv
<1> QED
  BY <1>4, <1>5, <1>9, <1>10 DEF IInv

LEMMA AnswersKeeps ==
  ASSUME IInv, Answers \/ AnswersShort
  PROVE  IInv'
<1>1. phase = "body" /\ ~reading /\ Continues /\ TypeOK
  BY DEF Answers, AnswersShort, IInv
<1>2. ASSUME ~failed
      PROVE  /\ Last \in Nat \ {0} /\ req = Last /\ Len(answers) = Last - 1
             /\ \A i \in DOMAIN answers : answers[i] = i
  <2>1. PICK q \in 1..Last : Aligned(q)
    BY <1>1, <1>2 DEF IInv, ReaderInv, Unaligned
  <2>2. q = Last /\ req = q /\ Len(answers) = Last - 1
    BY <1>1, <1>2, <2>1 DEF Aligned
  <2>3. Last \in Nat
    BY <1>1, StateIs
  <2> QED
    BY <1>1, <1>2, <2>2, <2>3 DEF IInv, OrderInv
<1>3. CASE Answers
  <2>1. answers' = Append(answers, req)
    BY <1>3 DEF Answers
  <2>2. answers \in Seq(Requests \cup {NoRequest, BadHead}) /\ req \in Requests \cup {NoRequest, BadHead}
    BY <1>1 DEF TypeOK
  <2>3. /\ answers' \in Seq(Requests \cup {NoRequest, BadHead}) /\ Len(answers') = Len(answers) + 1
        /\ \A i \in 1..Len(answers) : answers'[i] = answers[i]
        /\ answers'[Len(answers) + 1] = req
    BY <2>1, <2>2, AppendProperties
  <2>4. DOMAIN answers = 1..Len(answers) /\ DOMAIN answers' = 1..Len(answers') /\ Len(answers) \in Nat
    BY <2>2, <2>3, LenProperties
  <2>5. ~failed => /\ Len(answers') \in {Last - 1, Last}
                   /\ \A i \in DOMAIN answers' : answers'[i] = i
    <3> SUFFICES ASSUME ~failed
                 PROVE  /\ Len(answers') = Last
                        /\ \A i \in DOMAIN answers' : answers'[i] = i
      OBVIOUS
    <3>1. Len(answers') = Last
      BY <1>2, <2>3
    <3>2. ASSUME NEW i \in DOMAIN answers'
          PROVE  answers'[i] = i
      <4>1. i \in 1..(Len(answers) + 1)
        BY <2>3, <2>4
      <4>2. CASE i = Len(answers) + 1
        BY <1>2, <2>3, <4>2
      <4>3. CASE i # Len(answers) + 1
        <5>1. i \in 1..Len(answers)
          BY <2>4, <4>1, <4>3
        <5> QED
          BY <1>2, <2>3, <2>4, <5>1
      <4> QED
        BY <4>2, <4>3
    <3> QED
      BY <3>1, <3>2
  <2> QED
    BY <1>1, <2>3, <2>5, ContinuesKeeps
<1>4. CASE AnswersShort
  <2>1. UNCHANGED answers
    BY <1>4 DEF AnswersShort
  <2>2. answers' \in Seq(Requests \cup {NoRequest, BadHead})
    BY <1>1, <2>1 DEF TypeOK
  <2> QED
    BY <1>1, <1>2, <2>1, <2>2, ContinuesKeeps
<1> QED
  BY <1>3, <1>4

LEMMA WholeCut ==
  ASSUME NEW w \in Seq(Tokens)
  PROVE  Upto(w, Len(w)) = w /\ Upto(w, 0) = <<>>
<1>1. Len(w) \in 0..Len(w) /\ 0 \in 0..Len(w)
  BY LenProperties
<1> DEFINE u == Upto(w, Len(w))
           z == Upto(w, 0)
<1>2. u \in Seq(Tokens) /\ Len(u) = Len(w) /\ \A i \in 1..Len(w) : u[i] = w[i]
  BY <1>1, CutIs
<1>3. z \in Seq(Tokens) /\ Len(z) = 0
  BY <1>1, CutIs
<1> HIDE DEF u, z
<1>4. u = w
  BY <1>2, SeqEqual
<1>5. z = <<>>
  BY <1>3, EmptyIs
<1> QED
  BY <1>4, <1>5 DEF u, z

LEMMA ClientSendsKeeps ==
  ASSUME IInv, NEW s \in Shapes, ClientSends(s)
  PROVE  IInv'
<1>1. /\ phase # "closed" /\ line = <<>> /\ Len(answers) >= Len(sent) /\ Len(sent) < MaxRequests
      /\ sent' = Append(sent, s) /\ line' = Bytes(Len(sent'), s)
      /\ UNCHANGED <<answers, phase, buffer, req, keep, reader, reading, told, got, failed>>
  BY DEF ClientSends, body
<1>2. TypeOK
  BY DEF IInv
<1>3. Last \in Nat /\ Len(answers) \in Nat /\ buffer \in Seq(Tokens) /\ Len(buffer) \in Nat
  BY <1>2, StateIs
<1>4. /\ sent' \in Seq(Shapes) /\ Last' = Last + 1 /\ sent'[Last + 1] = s
      /\ \A q \in 1..Last : sent'[q] = sent[q]
  BY <1>1, <1>2, AppendProperties DEF TypeOK, Last
<1>5. line' = BytesOf(Last)' /\ line' = Bytes(Last + 1, s)
  BY <1>1, <1>4 DEF BytesOf, Last
<1>6. line' \in Seq(Tokens)
  BY <1>3, <1>5, BytesAre
<1>7. TypeOK'
  BY <1>1, <1>2, <1>4, <1>6, RequestsAssumption DEF TypeOK, Last
<1>8. ASSUME NEW q \in 1..Last
      PROVE  /\ OnLine(q) = <<>> /\ OnLine(q)' = <<>> /\ Behind(q)'
             /\ sent'[q] = sent[q] /\ BytesOf(q)' = BytesOf(q) /\ q < Last'
  <2>1. q \in Nat /\ q < Last' /\ q # Last' /\ sent'[q] = sent[q]
    BY <1>3, <1>4
  <2>2. OnLine(q) = <<>> /\ OnLine(q)' = <<>>
    BY <1>1, <2>1 DEF OnLine
  <2>3. Behind(q)'
    BY <1>5 DEF Behind
  <2>4. BytesOf(q)' = BytesOf(q)
    BY <2>1 DEF BytesOf
  <2> QED
    BY <2>1, <2>2, <2>3, <2>4
<1>9. ReaderInv'
  <2>1. CASE phase \in {"body", "drain"}
    <3>1. buffer' = <<>> /\ ReadingOK'
      BY <1>1, <2>1 DEF IInv, ReaderInv, ReadingOK
    <3>2. Unaligned => Unaligned'
      BY <1>1, <1>3, <1>4, <1>5 DEF Unaligned
    <3>3. ASSUME NEW q \in 1..Last, Aligned(q)
          PROVE  Aligned(q)'
      <4>1. /\ OnLine(q)' = OnLine(q) /\ Behind(q)' /\ LineFree(OnLine(q))'
            /\ sent'[q] = sent[q] /\ q < Last'
        BY <1>8, FreeParts DEF LineFree
      <4>2. ChunkedAt(q) => ChunkedAt(q)'
        BY <1>1, <4>1 DEF ChunkedAt, ChunksAhead
      <4>3. FixedAt(q) => FixedAt(q)'
        BY <1>1, <4>1 DEF FixedAt
      <4>4. ~failed => phase # "body" /\ Len(answers) = Last
        BY <1>1, <1>3, <3>3 DEF Aligned, Last
      <4> QED
        BY <1>1, <1>3, <1>4, <3>3, <4>1, <4>2, <4>3, <4>4 DEF Aligned
    <3>4. Unaligned \/ \E q \in 1..Last : Aligned(q)
      BY <2>1 DEF IInv, ReaderInv
    <3>5. \A q \in 1..Last : q \in 1..Last'
      BY <1>3, <1>4
    <3> QED
      BY <1>1, <2>1, <3>1, <3>2, <3>3, <3>4, <3>5 DEF ReaderInv
  <2>2. CASE phase \notin {"body", "drain"}
    BY <1>1, <2>2 DEF IInv, ReaderInv
  <2> QED
    BY <2>1, <2>2
<1>10. HeadInv'
  <2> SUFFICES ASSUME phase = "head"
               PROVE  \E q \in 1..Last' : \E m \in 0..Len(buffer') : Begun(q, m)'
    BY <1>1 DEF HeadInv
  <2>1. CASE Idle
    <3> PICK q \in 1..Last' : q = Last + 1
      BY <1>3, <1>4
    <3> DEFINE m == Len(buffer)
               junk == Upto(buffer', m)
    <3>1. junk = buffer /\ m = Len(buffer') /\ m \in 0..Len(buffer')
      BY <1>1, <1>3, WholeCut
    <3> HIDE DEF junk
    <3>2. buffer \o line = buffer
      BY <1>1, <1>3, EmptyIs
    <3>3. OnLine(q)' = line' /\ BytesOf(q)' = line' /\ Behind(q)'
      BY <1>3, <1>4, <1>5 DEF OnLine, Behind, BytesOf
    <3>4. LineFree(junk) /\ buffer' \o OnLine(q)' = junk \o BytesOf(q)'
      BY <1>1, <2>1, <3>1, <3>3 DEF Idle
    <3>5. ~failed' => /\ q = Last' /\ Len(answers') = q - 1
                      /\ IsEnd(junk) /\ (junk # <<>> => q > 1 /\ sent'[q - 1].chunked)
      <4> SUFFICES ASSUME ~failed
                   PROVE  /\ Len(answers) = Last /\ IsEnd(buffer)
                          /\ buffer # <<>> => Last > 0 /\ sent'[Last].chunked
        <5>1. q - 1 = Last /\ (q > 1 <=> Last > 0) /\ q = Last'
          BY <1>3, <1>4
        <5> QED
          BY <1>1, <3>1, <5>1
      <4>1. /\ Len(answers) \in {Last - 1, Last} /\ IsEnd(buffer)
            /\ buffer # <<>> => Last > 0 /\ sent[Last].chunked
        BY <2>1, <3>2 DEF Idle
      <4>2. Len(answers) = Last
        BY <1>1, <1>3, <4>1 DEF Last
      <4>3. Last > 0 => sent'[Last] = sent[Last]
        BY <1>3, <1>4
      <4> QED
        BY <4>1, <4>2, <4>3
    <3>6. Begun(q, m)'
      BY <3>1, <3>3, <3>4, <3>5 DEF Begun, LineFree, IsEnd, junk
    <3> QED
      BY <3>1, <3>6
  <2>2. ASSUME NEW q \in 1..Last, NEW m \in 0..Len(buffer), Begun(q, m)
        PROVE  Begun(q, m)' /\ q \in 1..Last' /\ m \in 0..Len(buffer')
    <3>1. failed
      BY <1>1, <1>3, <2>2 DEF Begun, Last
    <3>2. buffer' = buffer /\ OnLine(q)' = OnLine(q) /\ BytesOf(q)' = BytesOf(q) /\ Behind(q)' /\ failed'
      BY <1>1, <1>8, <3>1
    <3>3. Begun(q, m)'
      BY <2>2, <3>2 DEF Begun, LineFree, Blank
    <3> QED
      BY <1>3, <1>4, <3>2, <3>3
  <2>3. Idle \/ \E q \in 1..Last : \E m \in 0..Len(buffer) : Begun(q, m)
    BY DEF IInv, HeadInv
  <2> QED
    BY <2>1, <2>2, <2>3
<1>11. OrderInv'
  BY <1>1, OrderKept DEF IInv
<1> QED
  BY <1>7, <1>9, <1>10, <1>11 DEF IInv

\* The beginning stays as more comes.
LEMMA SameBeginning ==
  ASSUME NEW a \in Seq(Tokens), NEW b \in Seq(Tokens), NEW m \in 0..Len(a)
  PROVE  Upto(a \o b, m) = Upto(a, m) /\ m \in 0..Len(a \o b)
<1> DEFINE w == a \o b
           u == Upto(w, m)
           v == Upto(a, m)
<1>1. w \in Seq(Tokens) /\ m \in 0..Len(w) /\ m \in Nat /\ \A i \in 1..m : i \in 1..Len(a)
  <2>1. w \in Seq(Tokens) /\ Len(w) = Len(a) + Len(b) /\ Len(a) \in Nat /\ Len(b) \in Nat
    BY ConcatIs
  <2> QED
    BY <2>1
<1>2. \A i \in 1..Len(a) : w[i] = a[i]
  BY ConcatIs
<1> HIDE DEF w
<1>3. u \in Seq(Tokens) /\ Len(u) = m /\ \A i \in 1..m : u[i] = w[i]
  BY <1>1, CutIs
<1>4. v \in Seq(Tokens) /\ Len(v) = m /\ \A i \in 1..m : v[i] = a[i]
  BY CutIs
<1> HIDE DEF u, v
<1>5. \A i \in 1..m : u[i] = v[i]
  BY <1>1, <1>2, <1>3, <1>4
<1>6. u = v
  BY <1>3, <1>4, <1>5, SeqEqual
<1> QED
  BY <1>1, <1>6 DEF u, v, w

\* The bytes that the buffer and the line hold when a head has begun.
LEMMA BegunIs ==
  ASSUME TypeOK, NEW q \in 1..Last, NEW m \in 0..Len(buffer), Begun(q, m)
  PROVE  /\ Upto(buffer, m) \in Seq(Tokens) /\ Len(Upto(buffer, m)) = m /\ m \in Nat
         /\ LineFree(Upto(buffer, m))
         /\ Body(q, sent[q]) \in Seq(Tokens) /\ LineFree(Body(q, sent[q]))
         /\ Comes(buffer, OnLine(q), Upto(buffer, m) \o (HeadBytes(q) \o Body(q, sent[q])))
<1>1. q \in Nat /\ sent[q] \in Shapes /\ buffer \in Seq(Tokens) /\ OnLine(q) \in Seq(Tokens)
  BY StateIs
<1>2. Upto(buffer, m) \in Seq(Tokens) /\ Len(Upto(buffer, m)) = m /\ m \in Nat
  BY <1>1, CutIs, LenProperties
<1>3. /\ Body(q, sent[q]) \in Seq(Tokens) /\ LineFree(Body(q, sent[q]))
      /\ BytesOf(q) = HeadBytes(q) \o Body(q, sent[q])
  BY <1>1, BytesAre DEF BytesOf
<1> QED
  BY <1>1, <1>2, <1>3 DEF Begun, Comes

LEMMA HeadReceivesKeeps ==
  ASSUME IInv, NEW n \in 1..Len(line), HeadReceives(n)
  PROVE  IInv'
<1>1. /\ phase = "head" /\ Find(Blank, buffer) = 0
      /\ buffer' = buffer \o Upto(line, n) /\ line' = After(line, n)
      /\ UNCHANGED <<sent, answers, phase, req, keep, reader, reading, told, got, failed>>
  BY DEF HeadReceives, HeadEnd, body, Blank
<1>2. TypeOK /\ ~reading
  BY <1>1 DEF IInv, ReaderInv
<1>3. line \in Seq(Tokens) /\ buffer \in Seq(Tokens) /\ n \in 0..Len(line) /\ Last \in Nat
  BY <1>2, StateIs
<1>4. Last' = Last
  BY <1>1 DEF Last
<1> DEFINE u == Upto(line, n)
           v == After(line, n)
<1>5. u \in Seq(Tokens) /\ v \in Seq(Tokens) /\ u \o v = line
  BY <1>3, CutIs
<1> HIDE DEF u, v
<1>6. buffer' = buffer \o u /\ line' = v
  BY <1>1 DEF u, v
<1>7. buffer' \in Seq(Tokens) /\ line' \in Seq(Tokens) /\ buffer' \o line' = buffer \o line
  <2>1. buffer \in Seq(Tokens) /\ u \in Seq(Tokens) /\ v \in Seq(Tokens)
    BY <1>3, <1>5
  <2>2. (buffer \o u) \o v = buffer \o (u \o v)
    BY <2>1, ConcatThree, Zenon
  <2>3. buffer \o u \in Seq(Tokens)
    BY <2>1, ConcatIs
  <2> QED
    BY <1>5, <1>6, <2>1, <2>2, <2>3
<1>8. TypeOK'
  BY <1>1, <1>2, <1>7 DEF TypeOK
<1>9. ReaderInv'
  BY <1>1, <1>2 DEF ReaderInv
<1>10. OrderInv'
  BY <1>1, OrderKept DEF IInv
<1>11. CASE Idle
  <2>1. LineFree(u) /\ LineFree(v)
    BY <1>3, <1>11, FreeCut DEF Idle, u, v
  <2>2. LineFree(buffer') /\ LineFree(line')
    BY <1>3, <1>5, <1>6, <1>11, <2>1, FreeConcat DEF Idle
  <2>3. Idle'
    BY <1>1, <1>4, <1>7, <1>11, <2>2 DEF Idle, LineFree, IsEnd
  <2> QED
    BY <1>8, <1>9, <1>10, <2>3 DEF IInv, HeadInv
<1>12. ASSUME NEW q \in 1..Last, NEW m \in 0..Len(buffer), Begun(q, m)
       PROVE  Begun(q, m)' /\ m \in 0..Len(buffer') /\ q \in 1..Last'
  <2> DEFINE junk == Upto(buffer, m)
             b == Body(q, sent[q])
  <2>1. /\ junk \in Seq(Tokens) /\ Len(junk) = m /\ m \in Nat /\ LineFree(junk) /\ b \in Seq(Tokens)
        /\ Comes(buffer, OnLine(q), junk \o (HeadBytes(q) \o b)) /\ q \in Nat
    BY <1>2, <1>12, BegunIs
  <2>2. Find(Blank, junk) = 0
    <3>1. m = Len(buffer) => junk = buffer
      BY <1>3, WholeCut
    <3> QED
      BY <1>1, <1>12, <3>1 DEF Begun
  <2> HIDE DEF b
  <2>3. q = Last
    <3> SUFFICES ASSUME q # Last PROVE FALSE
      OBVIOUS
    <3>1. OnLine(q) = <<>>
      BY DEF OnLine
    <3> DEFINE t == OnLine(q)
               h == HeadBytes(q)
               j == junk
    <3>2. buffer \o t = buffer
      BY <1>3, <3>1, EmptyIs
    <3>3. t \in Seq(Tokens) /\ buffer \o t = j \o (h \o b)
      BY <2>1 DEF Comes
    <3>4. h \in Seq(Tokens) /\ Len(h) = 5 /\ j \in Seq(Tokens) /\ Len(j) = m
      BY <2>1, HeadIs
    <3> HIDE DEF t, h, j
    <3>5. h \o b \in Seq(Tokens) /\ Len(h \o b) = Len(h) + Len(b) /\ Len(b) \in Nat
      BY <2>1, <3>4, ConcatIs
    <3>6. Len(j \o (h \o b)) = Len(j) + Len(h \o b)
      BY <3>4, <3>5, ConcatIs
    <3>7. m + 5 <= Len(buffer)
      <4>1. Len(buffer) = m + (5 + Len(b))
        BY <3>2, <3>3, <3>4, <3>5, <3>6
      <4> QED
        BY <2>1, <3>5, <4>1
    <3>8. LineFree(j) /\ Find(Blank, j) = 0 /\ Len(j) + 5 <= Len(buffer)
      BY <2>1, <2>2, <3>4, <3>7 DEF j
    <3>9. Comes(buffer, t, j \o (HeadBytes(q) \o b)) /\ j \in Seq(Tokens) /\ b \in Seq(Tokens)
      BY <1>3, <2>1, <3>3, <3>4 DEF h, Comes
    <3>10. Find(Blank, buffer) # 0
      BY <2>1, <3>8, <3>9, HeadFound
    <3> QED
      BY <1>1, <3>10
  <2>4. OnLine(q) = line /\ OnLine(q)' = line'
    BY <1>4, <2>3 DEF OnLine
  <2>5. Upto(buffer', m) = junk /\ m \in 0..Len(buffer')
    BY <1>3, <1>5, <1>6, SameBeginning
  <2>6. BytesOf(q)' = BytesOf(q) /\ Behind(q)'
    BY <1>1, <1>3, <1>4, <2>3 DEF BytesOf, Behind
  <2>7. buffer' \o OnLine(q)' = junk \o BytesOf(q)'
    BY <1>7, <1>12, <2>4, <2>6 DEF Begun
  <2>8. ~failed' => /\ q = Last' /\ Len(answers') = q - 1
                    /\ IsEnd(junk) /\ (junk # <<>> => q > 1 /\ sent'[q - 1].chunked)
    BY <1>1, <1>4, <1>12 DEF Begun
  <2>9. LineFree(junk) /\ Find(Blank, junk) = 0
    BY <2>1, <2>2
  <2> HIDE DEF junk
  <2>10. Begun(q, m)'
    BY <2>5, <2>6, <2>7, <2>8, <2>9 DEF Begun, LineFree, IsEnd, Blank
  <2> QED
    BY <1>4, <2>5, <2>10
<1>13. Idle \/ \E q \in 1..Last : \E m \in 0..Len(buffer) : Begun(q, m)
  BY <1>1 DEF IInv, HeadInv
<1>14. ASSUME NEW q \in 1..Last, NEW m \in 0..Len(buffer), Begun(q, m)
       PROVE  IInv'
  <2>1. HeadInv'
    BY <1>12, <1>14 DEF HeadInv
  <2> QED
    BY <1>8, <1>9, <1>10, <2>1 DEF IInv
<1> QED
  BY <1>11, <1>13, <1>14

\* What was taken for a head: the rest of a body, or what is left of one before
\* the first line of the request q.
Stray(head) ==
  /\ failed /\ head \in Seq(Tokens) /\ LineFree(head)
  /\ LineFree(line) \/ (Last > 0 /\ line = BytesOf(Last))

HeadOfRequest(head, pending, q, junk) ==
  /\ junk \in Seq(Tokens) /\ LineFree(junk) /\ head = junk \o <<Line(q)>>
  /\ Comes(pending, OnLine(q), Body(q, sent[q])) /\ LineFree(OnLine(q)) /\ Behind(q)
  /\ ~failed => /\ q = Last /\ Len(answers) = q - 1
                /\ IsEnd(junk) /\ (junk # <<>> => q > 1 /\ sent[q - 1].chunked)

LEMMA HeadOf ==
  ASSUME IInv, phase = "head", HeadEnd # 0
  PROVE  /\ After(buffer, HeadEnd + 3) \in Seq(Tokens)
         /\ \/ Stray(Upto(buffer, HeadEnd - 1))
            \/ \E q \in 1..Last : \E junk :
                 HeadOfRequest(Upto(buffer, HeadEnd - 1), After(buffer, HeadEnd + 3), q, junk)
<1> DEFINE f == HeadEnd
<1>1. TypeOK /\ buffer \in Seq(Tokens) /\ Len(buffer) \in Nat /\ line \in Seq(Tokens) /\ Last \in Nat
  BY StateIs DEF IInv
<1>2. f = Find(Blank, buffer)
  BY DEF HeadEnd, Blank
<1>3. f \in 1..(Len(buffer) - 3)
  <2>1. Blank \in Seq(Tokens) /\ Len(Blank) = 4 /\ Len(Blank) >= 1
    BY BlankIs
  <2>2. Occurs(Blank, buffer, f)
    BY <1>1, <1>2, <2>1, FindIs
  <2>3. f \in 1..(Len(buffer) - 4 + 1)
    BY <2>1, <2>2 DEF Occurs
  <2> QED
    BY <1>1, <2>3
<1> HIDE DEF f
<1>4. f - 1 \in 0..Len(buffer) /\ f + 3 \in 0..Len(buffer)
  BY <1>1, <1>3
<1>5. Upto(buffer, f - 1) \in Seq(Tokens) /\ After(buffer, f + 3) \in Seq(Tokens)
  BY <1>1, <1>4, CutIs, Zenon
<1>6. CASE Idle
  <2>1. LineFree(Upto(buffer, f - 1)) /\ LineFree(line)
    BY <1>1, <1>4, <1>6, FreeCut DEF Idle
  <2>2. failed
    <3> SUFFICES ASSUME ~failed PROVE FALSE
      OBVIOUS
    <3>1. IsEnd(buffer \o line)
      BY <1>6 DEF Idle
    <3>2. Len(buffer \o line) <= 2
      BY <3>1, ShortEnd
    <3>3. Len(buffer \o line) = Len(buffer) + Len(line) /\ Len(line) \in Nat
      BY <1>1, ConcatIs
    <3>4. Len(buffer) <= 2
      BY <1>1, <3>2, <3>3
    <3> QED
      BY <1>1, <1>3, <3>4
  <2> QED
    BY <1>5, <2>1, <2>2 DEF Stray, f
<1>7. ASSUME NEW q \in 1..Last, NEW m \in 0..Len(buffer), Begun(q, m)
      PROVE  \/ Stray(Upto(buffer, f - 1))
             \/ \E junk : HeadOfRequest(Upto(buffer, f - 1), After(buffer, f + 3), q, junk)
  <2> DEFINE junk == Upto(buffer, m)
             b == Body(q, sent[q])
  <2>1. /\ junk \in Seq(Tokens) /\ Len(junk) = m /\ m \in Nat /\ LineFree(junk)
        /\ b \in Seq(Tokens) /\ LineFree(b)
        /\ Comes(buffer, OnLine(q), junk \o (HeadBytes(q) \o b)) /\ q \in Nat
    BY <1>1, <1>7, BegunIs, StateIs
  <2>2. CASE Find(Blank, junk) # 0
    <3>1. junk = buffer /\ LineFree(buffer)
      BY <1>1, <1>7, <2>1, <2>2, WholeCut DEF Begun
    <3>2. LineFree(Upto(buffer, f - 1))
      BY <1>1, <1>4, <3>1, FreeCut
    <3>3. failed
      BY <1>7, <2>2, ShortEnd DEF Begun
    <3>4. Last > 0 /\ line = BytesOf(Last)
      <4>1. CASE q < Last
        BY <1>1, <1>7, <4>1 DEF Begun, Behind
      <4>2. CASE q = Last
        <5>1. OnLine(q) = line /\ sent[q] \in Shapes
          BY <1>1, <4>2, StateIs DEF OnLine
        <5>2. BytesOf(q) \in Seq(Tokens)
          BY <2>1, <5>1, BytesAre DEF BytesOf
        <5>3. buffer \o line = buffer \o BytesOf(q)
          BY <1>7, <3>1, <5>1 DEF Begun
        <5>4. line = BytesOf(q)
          BY <1>1, <5>2, <5>3, SameCut, Zenon
        <5> QED
          BY <1>1, <4>2, <5>4
      <4> QED
        BY <1>1, <4>1, <4>2
    <3> QED
      BY <1>5, <3>2, <3>3, <3>4 DEF Stray
  <2>3. CASE Find(Blank, junk) = 0
    <3> HIDE DEF junk, b
    <3>1. f = m + 2 /\ m + 5 <= Len(buffer)
      <4>1. Find(Blank, buffer) = Len(junk) + 2 /\ Len(junk) + 5 <= Len(buffer)
        BY <1>2, <1>3, <2>1, <2>3, HeadFound DEF f
      <4> QED
        BY <1>2, <2>1, <4>1
    <3> DEFINE l == <<Line(q)>>
               a == junk \o l
               h == HeadBytes(q)
    <3>2. l \in Seq(Tokens) /\ Len(l) = 1 /\ h \in Seq(Tokens) /\ Len(h) = 5
      BY <2>1, TokenIs, OneIs, HeadIs
    <3>3. h = l \o Blank
      BY <3>2, CRLFIs, ConcatThree DEF HeadBytes, Blank
    <3> HIDE DEF l, h
    <3>4. a \in Seq(Tokens) /\ Len(a) = m + 1
      <4>1. junk \in Seq(Tokens) /\ l \in Seq(Tokens)
        BY <2>1, <3>2
      <4>2. junk \o l \in Seq(Tokens) /\ Len(junk \o l) = Len(junk) + Len(l)
        BY <4>1, ConcatIs, Zenon
      <4> QED
        BY <2>1, <3>2, <4>2
    <3>5. junk \o h \in Seq(Tokens) /\ Len(junk \o h) = m + 5
      <4>1. junk \in Seq(Tokens) /\ h \in Seq(Tokens)
        BY <2>1, <3>2
      <4>2. junk \o h \in Seq(Tokens) /\ Len(junk \o h) = Len(junk) + Len(h)
        BY <4>1, ConcatIs, Zenon
      <4> QED
        BY <2>1, <3>2, <4>2
    <3>6. junk \o (h \o b) = (junk \o h) \o b
      <4>1. junk \in Seq(Tokens) /\ h \in Seq(Tokens) /\ b \in Seq(Tokens)
        BY <2>1, <3>2
      <4> QED
        BY <4>1, ConcatThree
    <3>7. junk \o (h \o b) = a \o (Blank \o b)
      <4>1. junk \in Seq(Tokens) /\ l \in Seq(Tokens) /\ Blank \in Seq(Tokens) /\ b \in Seq(Tokens)
        BY <2>1, <3>2, BlankIs
      <4>2. Blank \o b \in Seq(Tokens)
        BY <4>1, ConcatIs
      <4>3. (l \o Blank) \o b = l \o (Blank \o b)
        BY <4>1, ConcatThree, Zenon
      <4>4. (junk \o l) \o (Blank \o b) = junk \o (l \o (Blank \o b))
        BY <4>1, <4>2, ConcatThree, Zenon
      <4> QED
        BY <3>3, <4>3, <4>4
    <3> HIDE DEF a
    <3>8. Comes(buffer, OnLine(q), junk \o (h \o b))
      BY <2>1 DEF h
    <3>9. Upto(buffer, m + 1) = a
      <4>1. Comes(buffer, OnLine(q), a \o (Blank \o b)) /\ Len(a) <= Len(buffer)
        BY <1>1, <2>1, <3>1, <3>4, <3>7, <3>8
      <4>2. Blank \o b \in Seq(Tokens)
        BY <2>1, BlankIs, ConcatIs
      <4> QED
        BY <3>4, <4>1, <4>2, FirstCome
    <3>10. Comes(After(buffer, m + 5), OnLine(q), b)
      <4> DEFINE c == junk \o h
      <4>1. c \in Seq(Tokens) /\ Len(c) = m + 5
        BY <3>5
      <4>2. Comes(buffer, OnLine(q), c \o b)
        BY <3>6, <3>8
      <4> HIDE DEF c
      <4> QED
        BY <2>1, <3>1, <4>1, <4>2, FirstCome
    <3>11. f - 1 = m + 1 /\ f + 3 = m + 5
      BY <2>1, <3>1
    <3>12. LineFree(OnLine(q))
      <4>1. After(buffer, m + 5) \in Seq(Tokens) /\ OnLine(q) \in Seq(Tokens)
            /\ LineFree(After(buffer, m + 5) \o OnLine(q))
        BY <2>1, <3>10 DEF Comes
      <4> QED
        BY <4>1, FreeConcat
    <3>13. /\ Behind(q)
           /\ ~failed => /\ q = Last /\ Len(answers) = q - 1
                         /\ IsEnd(junk) /\ (junk # <<>> => q > 1 /\ sent[q - 1].chunked)
      BY <1>7 DEF Begun, junk
    <3>14. HeadOfRequest(Upto(buffer, f - 1), After(buffer, f + 3), q, junk)
      BY <2>1, <3>9, <3>10, <3>11, <3>12, <3>13 DEF HeadOfRequest, a, l, b
    <3> QED
      BY <3>14
  <2> QED
    BY <2>2, <2>3
<1>8. Idle \/ \E q \in 1..Last : \E m \in 0..Len(buffer) : Begun(q, m)
  BY DEF IInv, HeadInv
<1>9. \/ Stray(Upto(buffer, f - 1))
      \/ \E q \in 1..Last : \E junk :
           HeadOfRequest(Upto(buffer, f - 1), After(buffer, f + 3), q, junk)
  BY <1>6, <1>7, <1>8 DEF f
<1> QED
  BY <1>5, <1>9 DEF f

LEMMA NamedIs ==
  ASSUME NEW head \in Seq(Tokens)
  PROVE  /\ LineFree(head) => Named(head) = {}
         /\ \A q \in Requests, junk \in Seq(Tokens) :
              LineFree(junk) /\ head = junk \o <<Line(q)>> => Named(head) = {q}
<1>0. \A r \in Requests : r \in Nat
  BY RequestsAssumption DEF Requests
<1>1. \A r \in Requests : Line(r).kind = "line" /\ Line(r).n = r
  BY <1>0, TokenIs
<1>2. LineFree(head) => Named(head) = {}
  BY <1>1 DEF LineFree, Named
<1>3. ASSUME NEW q \in Requests, NEW junk \in Seq(Tokens),
             LineFree(junk), head = junk \o <<Line(q)>>
      PROVE  Named(head) = {q}
  <2> DEFINE l == <<Line(q)>>
             m == Len(junk)
  <2>1. l \in Seq(Tokens) /\ Len(l) = 1 /\ l[1] = Line(q)
    BY <1>0, TokenIs, OneIs
  <2> HIDE DEF l
  <2>2. /\ Len(junk \o l) = m + Len(l) /\ m \in Nat
        /\ \A i \in 1..m : (junk \o l)[i] = junk[i]
        /\ \A i \in 1..Len(l) : (junk \o l)[m + i] = l[i]
    BY <2>1, ConcatIs
  <2>3. head = junk \o l
    BY <1>3 DEF l
  <2>4. DOMAIN head = 1..(m + 1) /\ head[m + 1] = Line(q) /\ \A i \in 1..m : head[i] = junk[i]
    <3>1. Len(head) = m + 1
      BY <2>1, <2>2, <2>3
    <3>2. DOMAIN head = 1..Len(head)
      BY LenProperties
    <3>3. 1 \in 1..Len(l)
      BY <2>1
    <3> QED
      BY <2>1, <2>2, <2>3, <3>1, <3>2, <3>3
  <2>5. \A i \in 1..m : head[i].kind # "line"
    <3>1. DOMAIN junk = 1..m
      BY LenProperties
    <3> QED
      BY <1>3, <2>4, <3>1 DEF LineFree
  <2>6. m + 1 \in DOMAIN head
    BY <2>2, <2>4
  <2>7. q \in Named(head)
    BY <2>4, <2>6 DEF Named
  <2>8. ASSUME NEW r \in Named(head)
        PROVE  r = q
    <3>1. r \in Requests
      BY DEF Named
    <3>2. PICK i \in DOMAIN head : head[i] = Line(r)
      BY DEF Named
    <3>3. i \notin 1..m
      BY <1>1, <2>5, <3>1, <3>2
    <3>4. i = m + 1
      BY <2>2, <2>4, <3>3
    <3> QED
      BY <1>1, <2>4, <3>1, <3>2, <3>4
  <2> QED
    BY <2>7, <2>8
<1> QED
  BY <1>2, <1>3

LEMMA LineNamed ==
  ASSUME NEW r \in Requests
  PROVE  r \in Named(<<Line(r)>>)
<1>1. 1 \in DOMAIN <<Line(r)>> /\ <<Line(r)>>[1] = Line(r)
  OBVIOUS
<1> QED
  BY <1>1 DEF Named

LEMMA LineSplits ==
  ASSUME NEW q \in Nat, MayNotSplit(<<Line(q)>>)
  PROVE  FALSE
<1> DEFINE head == <<Line(q)>>
<1>1. head \in Seq(Tokens) /\ Len(head) = 1 /\ head[1] = Line(q) /\ Line(q).kind = "line"
  BY TokenIs, OneIs
<1>2. DOMAIN head = 1..1
  BY <1>1
<1> HIDE DEF head
<1>3. <<LF>> \in Seq(Tokens) /\ Len(<<LF>>) = 1 /\ <<LF>>[1] = LF /\ LF.kind = "lf"
  BY TokenIs, OneIs
<1>4. Find(<<LF>>, head) = 0
  <2> SUFFICES ASSUME Find(<<LF>>, head) # 0 PROVE FALSE
    OBVIOUS
  <2> DEFINE l == <<LF>>
             f == Find(l, head)
  <2>1. l \in Seq(Tokens) /\ Len(l) = 1 /\ l[1] = LF /\ Len(l) >= 1
    BY <1>3
  <2> HIDE DEF l
  <2>2. Occurs(l, head, f)
    BY <1>1, <2>1, FindIs DEF l
  <2> HIDE DEF f
  <2>3. f \in 1..1 /\ head[f + 1 - 1] = LF
    BY <1>1, <2>1, <2>2 DEF Occurs
  <2>4. f = 1 /\ f + 1 - 1 = 1
    BY <2>3
  <2> QED
    BY <1>1, <1>3, <2>3, <2>4
<1>5. FirstLine(head) = head
  BY <1>4 DEF FirstLine
<1>6. 1 \in DOMAIN FirstLine(head)
  BY <1>2, <1>5
<1> QED
  BY <1>1, <1>6 DEF MayNotSplit, head

\* An end of a body in front of the first line is what is split.
LEMMA EndSplits ==
  ASSUME NEW q \in Nat, NEW junk, IsEnd(junk), junk # <<>>, Splits(junk \o <<Line(q)>>)
  PROVE  FALSE
<1> DEFINE l == <<Line(q)>>
           head == junk \o l
           e == <<LF>>
           f == Find(e, head)
           m == Len(junk)
<1>1. l \in Seq(Tokens) /\ junk \in Seq(Tokens) /\ e \in Seq(Tokens) /\ Len(e) = 1 /\ e[1] = LF
  BY TokenIs, OneIs, ShortEnd
<1>2. m \in 1..2 /\ junk[m] = LF /\ \A i \in 1..m : junk[i] \in {CR, LF}
  <2>1. CASE junk = <<LF>>
    <3>1. m = 1 /\ junk[1] = LF
      BY <1>1, <2>1
    <3>2. \A i \in 1..1 : i = 1
      OBVIOUS
    <3> QED
      BY <3>1, <3>2
  <2>2. CASE junk = CRLF
    <3>1. m = 2 /\ junk[1] = CR /\ junk[2] = LF
      BY <2>2, CRLFIs
    <3>2. \A i \in 1..2 : i = 1 \/ i = 2
      OBVIOUS
    <3> QED
      BY <3>1, <3>2
  <2> QED
    BY <2>1, <2>2 DEF IsEnd
<1> HIDE DEF l, e
<1>3. /\ head \in Seq(Tokens) /\ Len(head) = m + Len(l) /\ Len(l) \in Nat
      /\ \A i \in 1..m : head[i] = junk[i]
  BY <1>1, ConcatIs
<1> HIDE DEF head, m
<1>4. Occurs(e, head, m)
  <2>1. m \in 1..(Len(head) - 1 + 1) /\ head[m + 1 - 1] = LF
    <3>1. head[m] = LF /\ m + 1 - 1 = m
      BY <1>2, <1>3
    <3>2. m \in 1..(Len(head) - 1 + 1)
      BY <1>2, <1>3
    <3> QED
      BY <3>1, <3>2
  <2>2. \A j \in 1..1 : j = 1
    OBVIOUS
  <2> QED
    BY <1>1, <2>1, <2>2 DEF Occurs
<1>5. f \in Nat /\ f # 0 /\ f <= m
  <2>1. Len(e) >= 1
    BY <1>1
  <2> QED
    BY <1>1, <1>3, <1>4, <2>1, FindIs
<1>6. FirstLine(head) = Upto(head, f)
  BY <1>5 DEF FirstLine, e
<1> HIDE DEF f
<1>7. f \in 0..Len(head) /\ f \in Nat
  BY <1>2, <1>3, <1>5
<1>8. Upto(head, f) \in Seq(Tokens) /\ Len(Upto(head, f)) = f
  BY <1>3, <1>7, CutIs, Zenon
<1>9. DOMAIN FirstLine(head) = 1..f
  BY <1>6, <1>8, LenProperties
<1>10. \A i \in 1..f : head[i] \in {CR, LF}
  BY <1>2, <1>3, <1>5
<1>11. CR.kind = "cr" /\ LF.kind = "lf"
  BY TokenIs
<1>12. Splits(head)
  BY DEF head, l
<1> QED
  BY <1>9, <1>10, <1>11, <1>12 DEF Splits

LEMMA HeadRefusedKeeps ==
  ASSUME IInv, HeadRefused
  PROVE  IInv'
<1> DEFINE head == Upto(buffer, HeadEnd - 1)
<1>1. /\ phase = "head" /\ HeadEnd # 0 /\ MayNotSplit(head)
      /\ answers' = Append(answers, BadHead) /\ phase' = "closed"
      /\ UNCHANGED <<sent, line, buffer, req, keep, reader, reading, told, got, failed>>
  BY DEF HeadRefused, body
<1>2. TypeOK /\ ~reading
  BY <1>1 DEF IInv, ReaderInv
<1>3. answers \in Seq(Requests \cup {NoRequest, BadHead}) /\ BadHead \in Requests \cup {NoRequest, BadHead}
  BY <1>2 DEF TypeOK
<1>4. /\ answers' \in Seq(Requests \cup {NoRequest, BadHead}) /\ Len(answers') = Len(answers) + 1
      /\ \A i \in 1..Len(answers) : answers'[i] = answers[i]
      /\ answers'[Len(answers) + 1] = BadHead
  BY <1>1, <1>3, AppendProperties
<1>5. DOMAIN answers = 1..Len(answers) /\ DOMAIN answers' = 1..Len(answers') /\ Len(answers) \in Nat
  BY <1>3, <1>4, LenProperties
<1>6. TypeOK'
  BY <1>1, <1>2, <1>4 DEF TypeOK
<1>7. ReaderInv' /\ HeadInv'
  BY <1>1, <1>2 DEF ReaderInv, HeadInv
<1>8. ~failed => /\ Len(answers) + 1 > 1 /\ sent[Len(answers)].chunked
                 /\ \A i \in DOMAIN answers : answers[i] = i
  <2> SUFFICES ASSUME ~failed
               PROVE  /\ Len(answers) + 1 > 1 /\ sent[Len(answers)].chunked
                      /\ \A i \in DOMAIN answers : answers[i] = i
    OBVIOUS
  <2>0. PICK q \in 1..Last : \E junk : HeadOfRequest(head, After(buffer, HeadEnd + 3), q, junk)
    BY <1>1, HeadOf DEF Stray
  <2>1. PICK junk : HeadOfRequest(head, After(buffer, HeadEnd + 3), q, junk)
    BY <2>0
  <2>2. Len(answers) = q - 1 /\ (junk # <<>> => q > 1 /\ sent[q - 1].chunked)
    BY <2>1 DEF HeadOfRequest
  <2>3. q \in Nat
    BY <1>2, StateIs
  <2>4. junk # <<>>
    <3> SUFFICES ASSUME junk = <<>> PROVE FALSE
      OBVIOUS
    <3>1. <<Line(q)>> \in Seq(Tokens)
      BY <2>3, TokenIs, OneIs
    <3>2. head = <<Line(q)>>
      BY <2>1, <3>1, EmptyIs DEF HeadOfRequest
    <3> QED
      BY <1>1, <2>3, <3>2, LineSplits
  <2>5. Len(answers) + 1 > 1 /\ sent[Len(answers)].chunked
    BY <2>2, <2>3, <2>4
  <2> QED
    BY <1>1, <2>5 DEF IInv, OrderInv
<1>9. OrderInv'
  <2>1. ASSUME ~failed, NEW i \in DOMAIN answers'
        PROVE  \/ answers'[i] = i
               \/ /\ answers'[i] = BadHead /\ i = Len(answers')
                  /\ phase' = "closed" /\ i > 1 /\ sent'[i - 1].chunked
    <3>1. CASE i = Len(answers) + 1
      <4>1. i - 1 = Len(answers)
        BY <1>5, <3>1
      <4> QED
        BY <1>1, <1>4, <1>8, <2>1, <3>1, <4>1
    <3>2. CASE i # Len(answers) + 1
      <4>1. i \in 1..Len(answers)
        BY <1>4, <1>5, <3>2
      <4> QED
        BY <1>4, <1>5, <1>8, <2>1, <4>1
    <3> QED
      BY <3>1, <3>2
  <2> QED
    BY <1>1, <2>1 DEF OrderInv, AnswersInOrder
<1> QED
  BY <1>6, <1>7, <1>9 DEF IInv

LEMMA NothingIs ==
  /\ Total(NoHeaders) = 0 /\ Total(NoHeaders) \in Nat
  /\ NoHeaders.chunked = FALSE /\ NoHeaders.chunked \in BOOLEAN /\ NoHeaders.keep \in BOOLEAN
<1>1. <<>> \in Seq(Nat \ {0}) /\ Len(<<>>) = 0
  BY EmptySeq
<1>2. Sums(<<>>)[0] = 0
  BY <1>1, SumsIs
<1>3. /\ NoHeaders.chunks = <<>> /\ NoHeaders.chunked = FALSE
      /\ NoHeaders.chunked \in BOOLEAN /\ NoHeaders.keep \in BOOLEAN
  BY DEF NoHeaders
<1>4. Total(NoHeaders) = Sums(<<>>)[0]
  BY <1>1, <1>3 DEF Total
<1> QED
  BY <1>2, <1>3, <1>4

LEMMA HeadTakenKeeps ==
  ASSUME IInv, HeadTaken
  PROVE  IInv'
<1> DEFINE head == Upto(buffer, HeadEnd - 1)
           p == After(buffer, HeadEnd + 3)
<1>1. /\ phase = "head" /\ HeadEnd # 0 /\ Splits(head)
      /\ phase' = "body" /\ buffer' = <<>>
      /\ req' = IF \E r \in Requests : head = <<Line(r)>>
                THEN CHOOSE r \in Requests : head = <<Line(r)>> ELSE NoRequest
      /\ keep' = Framing(head).keep /\ reader' = NewReader(Framing(head), p)
      /\ reading' = FALSE /\ told' = "more" /\ got' = <<>>
      /\ UNCHANGED <<sent, line, answers, failed>>
  BY DEF HeadTaken
<1>2. TypeOK /\ Last' = Last /\ Last \in Nat
  BY <1>1, StateIs DEF IInv, Last
<1>3. /\ p \in Seq(Tokens)
      /\ \/ Stray(head)
         \/ \E q \in 1..Last : \E junk : HeadOfRequest(head, p, q, junk)
  BY <1>1, HeadOf
<1> HIDE DEF head, p
<1>4. req' \in {r \in Requests : head = <<Line(r)>>} \cup {NoRequest}
  BY <1>1
<1>5. HeadInv'
  BY <1>1 DEF HeadInv
<1>6. OrderInv'
  BY <1>1, OrderKept DEF IInv
<1>7. ASSUME NEW s, Framing(head) = s, s.chunked \in BOOLEAN, s.keep \in BOOLEAN, Total(s) \in Nat
      PROVE  /\ reader' \in Readers /\ reader'.chunked = s.chunked /\ reader'.complete = FALSE
             /\ reader'.pending = p /\ reader'.left = IF s.chunked THEN SizeNext ELSE Total(s)
             /\ TypeOK' /\ ReadingOK'
  <2>1. /\ reader' \in Readers /\ reader'.chunked = s.chunked /\ reader'.complete = FALSE
        /\ reader'.pending = p /\ reader'.left = IF s.chunked THEN SizeNext ELSE Total(s)
    <3>1. reader' = NewReader(s, p)
      BY <1>1, <1>7
    <3>2. s.chunked \in BOOLEAN /\ Total(s) \in Nat /\ p \in Seq(Tokens)
      BY <1>3, <1>7
    <3> QED
      BY <3>1, <3>2 DEF NewReader, Readers
  <2>2. TypeOK'
    BY <1>1, <1>2, <1>4, <1>7, <2>1, EmptyIs DEF TypeOK, Readers
  <2>3. ReadingOK'
    BY <1>1, <2>1 DEF ReadingOK
  <2> QED
    BY <2>1, <2>2, <2>3
<1>8. CASE Stray(head)
  <2>1. Named(head) = {} /\ Framing(head) = NoHeaders
    BY <1>8, NamedIs DEF Stray, Framing
  <2>2. /\ Total(NoHeaders) = 0 /\ NoHeaders.chunked = FALSE /\ Total(NoHeaders) \in Nat
        /\ NoHeaders.chunked \in BOOLEAN /\ NoHeaders.keep \in BOOLEAN
    BY NothingIs, Zenon
  <2>3. ~reader'.chunked /\ reader'.left = 0 /\ TypeOK' /\ ReadingOK'
    <3> DEFINE s == NoHeaders
    <3>1. /\ Framing(head) = s /\ s.chunked \in BOOLEAN /\ s.keep \in BOOLEAN /\ Total(s) \in Nat
          /\ Total(s) = 0 /\ s.chunked = FALSE
      BY <2>1, <2>2
    <3> HIDE DEF s
    <3>2. /\ reader'.chunked = s.chunked /\ reader'.left = IF s.chunked THEN SizeNext ELSE Total(s)
          /\ TypeOK' /\ ReadingOK'
      BY <1>7, <3>1
    <3> QED
      BY <3>1, <3>2
  <2>4. req' = NoRequest
    BY <1>4, <2>1, LineNamed
  <2>5. Unaligned'
    BY <1>1, <1>2, <1>8, <2>3, <2>4 DEF Stray, Unaligned, LineFree, BytesOf
  <2> QED
    BY <1>1, <1>5, <1>6, <2>3, <2>5 DEF IInv, ReaderInv
<1>9. ASSUME NEW q \in 1..Last, NEW junk, HeadOfRequest(head, p, q, junk)
      PROVE  IInv'
  <2>1. q \in Nat /\ q \in Requests /\ sent[q] \in Shapes
    BY <1>2, StateIs
  <2> DEFINE s == sent[q]
             c == s.chunks
  <2>2. s.chunked \in BOOLEAN /\ s.keep \in BOOLEAN /\ c \in Seq(Nat \ {0}) /\ Len(c) \in Nat /\ Total(s) \in Nat
    BY <2>1, TotalIs
  <2>3. /\ junk \in Seq(Tokens) /\ LineFree(junk) /\ head = junk \o <<Line(q)>>
        /\ Comes(p, OnLine(q), Body(q, s)) /\ LineFree(OnLine(q)) /\ Behind(q)
        /\ ~failed => /\ q = Last /\ Len(answers) = q - 1 /\ IsEnd(junk)
    BY <1>9 DEF HeadOfRequest
  <2>4. <<Line(q)>> \in Seq(Tokens)
    BY <2>1, TokenIs, OneIs
  <2>5. Named(head) = {q}
    <3>1. head \in Seq(Tokens)
      BY <2>3, <2>4, ConcatIs
    <3> QED
      BY <2>1, <2>3, <3>1, NamedIs
  <2>6. Framing(head) = s
    BY <2>5 DEF Framing
  <2> HIDE DEF s
  <2>7. /\ reader' \in Readers /\ reader'.chunked = s.chunked /\ reader'.complete = FALSE
        /\ reader'.pending = p /\ reader'.left = IF s.chunked THEN SizeNext ELSE Total(s)
        /\ TypeOK' /\ ReadingOK'
    BY <1>7, <2>2, <2>6
  <2>8. req' \in {q, NoRequest}
    BY <1>4, <2>5, LineNamed
  <2>9. ~failed => req' = q
    <3> SUFFICES ASSUME ~failed PROVE req' = q
      OBVIOUS
    <3>1. junk = <<>>
      BY <1>1, <2>1, <2>3, EndSplits
    <3>2. head = <<Line(q)>>
      BY <2>3, <2>4, <3>1, EmptyIs
    <3>3. \E r \in Requests : head = <<Line(r)>>
      BY <2>1, <3>2
    <3>4. req' \in Requests /\ head = <<Line(req')>>
      BY <1>1, <3>3
    <3> QED
      BY <2>5, <3>4, LineNamed
  <2>10. OnLine(q)' = OnLine(q) /\ Behind(q)' /\ LineFree(OnLine(q))' /\ sent'[q] = s
    BY <1>1, <1>2, <2>3 DEF OnLine, Behind, LineFree, BytesOf, Last, s
  <2>11. reader'.pending \o OnLine(q)' = Body(q, s)
    BY <2>3, <2>7, <2>10 DEF Comes
  <2>12. got' = Units(q, 0)
    BY <1>1, <2>1, EmptyIs
  <2>13. CASE s.chunked
    <3>1. reader'.left = SizeNext /\ Body(q, s) = Framed(q, c)[Len(c)]
      BY <2>7, <2>13 DEF Body, Chunked
    <3>2. Len(c) \in 0..Len(c) /\ Len(c) - Len(c) = 0 /\ Sums(c)[0] = 0
      BY <2>2, SumsIs
    <3> PICK n \in 0..Len(c) : n = Len(c)
      BY <3>2
    <3>3. ChunksAhead(q, n)'
      <4>1. reader'.pending \o OnLine(q)' = Framed(q, c)[n] /\ got' = Units(q, Sums(c)[Len(c) - n])
        BY <2>11, <2>12, <3>1, <3>2
      <4> QED
        BY <2>10, <3>1, <4>1 DEF ChunksAhead
    <3>4. \E k \in 0..Len(sent'[q].chunks) : ChunksAhead(q, k)'
      BY <2>10, <3>3
    <3>5. ChunkedAt(q)'
      BY <1>1, <2>7, <3>4 DEF ChunkedAt
    <3>6. reader'.chunked
      BY <2>7, <2>13
    <3>7. Aligned(q)'
      BY <1>1, <1>2, <2>3, <2>7, <2>8, <2>9, <2>10, <3>5, <3>6 DEF Aligned
    <3> QED
      BY <1>1, <1>2, <1>5, <1>6, <2>7, <3>7 DEF IInv, ReaderInv
  <2>14. CASE ~s.chunked
    <3>1. reader'.left = Total(s) /\ Body(q, s) = Units(q, Total(s)) /\ ~reader'.chunked
      BY <2>7, <2>14 DEF Body
    <3>2. reader'.left \in 0..Total(s) /\ Total(s) - reader'.left = 0
      BY <2>2, <3>1
    <3>3. FixedAt(q)'
      BY <1>1, <2>10, <2>11, <2>12, <3>1, <3>2 DEF FixedAt
    <3>4. Aligned(q)'
      BY <1>1, <1>2, <2>3, <2>7, <2>8, <2>9, <2>10, <3>1, <3>3 DEF Aligned
    <3> QED
      BY <1>1, <1>2, <1>5, <1>6, <2>7, <3>4 DEF IInv, ReaderInv
  <2> QED
    BY <2>13, <2>14
<1> QED
  BY <1>3, <1>8, <1>9

LEMMA InitIs ==
  ASSUME Init
  PROVE  IInv
<1>1. Last = 0 /\ <<>> \in Seq(Tokens) /\ <<>> \in Seq(Shapes) /\ Len(<<>>) = 0
  BY EmptySeq DEF Init, Last
<1>2. reader \in Readers
  <2>1. NoHeaders.chunked \in BOOLEAN /\ Total(NoHeaders) \in Nat
    BY NothingIs, Zenon
  <2>2. NewReader(NoHeaders, <<>>) \in Readers
    BY <1>1, <2>1 DEF NewReader, Readers
  <2> QED
    BY <2>2 DEF Init
<1>3. TypeOK
  <2>1. answers \in Seq(Requests \cup {NoRequest, BadHead})
    BY EmptySeq DEF Init
  <2>2. Len(sent) <= MaxRequests
    BY <1>1, RequestsAssumption DEF Last
  <2> QED
    BY <1>1, <1>2, <2>1, <2>2 DEF Init, TypeOK, Readers
<1>4. Idle
  <2>1. buffer \o line = <<>>
    BY <1>1, EmptyIs DEF Init
  <2> QED
    BY <1>1, <2>1, FreeParts DEF Init, Idle, IsEnd
<1>5. DOMAIN answers = {}
  BY DEF Init
<1> QED
  BY <1>3, <1>4, <1>5 DEF Init, IInv, ReaderInv, HeadInv, OrderInv, AnswersInOrder

-----------------------------------------------------------------------------
(* The theorems.                                                            *)

LEMMA StutterKeeps ==
  ASSUME IInv, UNCHANGED vars
  PROVE  IInv'
<1>1. UNCHANGED <<sent, line, answers, phase, buffer, req, keep, reader, reading, told, got, failed>>
  BY DEF vars, body
<1>2. TypeOK'
  BY <1>1 DEF IInv, TypeOK
<1>3. OrderInv'
  BY <1>1 DEF IInv, OrderInv, AnswersInOrder
<1>4. Last' = Last /\ \A q : OnLine(q)' = OnLine(q) /\ (Behind(q) <=> Behind(q)')
  BY <1>1 DEF Last, OnLine, Behind, BytesOf
<1>5. HeadInv'
  <2>1. Idle => Idle'
    BY <1>1, <1>4 DEF Idle, LineFree, IsEnd
  <2>2. ASSUME NEW q, NEW m, Begun(q, m)
        PROVE  Begun(q, m)'
    BY <1>1, <1>4, <2>2 DEF Begun, BytesOf, LineFree, IsEnd, Blank
  <2> QED
    BY <1>1, <1>4, <2>1, <2>2 DEF IInv, HeadInv
<1>6. ReaderInv'
  <2>1. Unaligned => Unaligned'
    BY <1>1, <1>4 DEF Unaligned, LineFree, BytesOf
  <2>2. ASSUME NEW q, Aligned(q)
        PROVE  Aligned(q)'
    <3>1. (ChunkedAt(q) => ChunkedAt(q)') /\ (FixedAt(q) => FixedAt(q)')
      BY <1>1, <1>4 DEF ChunkedAt, ChunksAhead, FixedAt
    <3>2. LineFree(OnLine(q)) => LineFree(OnLine(q))'
      BY <1>4 DEF LineFree
    <3> QED
      BY <1>1, <1>4, <2>2, <3>1, <3>2 DEF Aligned
  <2>3. ReadingOK => ReadingOK'
    BY <1>1 DEF ReadingOK
  <2> QED
    BY <1>1, <1>4, <2>1, <2>2, <2>3 DEF IInv, ReaderInv
<1> QED
  BY <1>2, <1>3, <1>5, <1>6 DEF IInv

LEMMA BodyIs ==
  ASSUME IInv
  PROVE  BodyExact
<1> SUFFICES ASSUME phase = "body", told = "end", req # NoRequest
             PROVE  got = Units(req, Total(sent[req]))
  BY DEF BodyExact
<1>1. PICK q \in 1..Last : Aligned(q)
  BY DEF IInv, ReaderInv, Unaligned
<1>2. req = q
  BY <1>1 DEF Aligned
<1>3. CASE reader.chunked
  BY <1>1, <1>2, <1>3 DEF Aligned, ChunkedAt
<1>4. CASE ~reader.chunked
  <2>1. FixedAt(q)
    BY <1>1, <1>4 DEF Aligned
  <2>2. got = Units(q, Total(sent[q]) - 0)
    BY <2>1 DEF FixedAt
  <2>3. Total(sent[q]) - 0 = Total(sent[q])
    BY <1>1, StateIs, TotalIs DEF IInv
  <2> QED
    BY <1>2, <2>2, <2>3
<1> QED
  BY <1>3, <1>4

\* The invariant of the connection and its reader.
THEOREM ConnectionTheorem == Spec => []IInv
<1>1. ASSUME IInv, [Next]_vars
      PROVE  IInv'
  <2>1. CASE UNCHANGED vars
    BY <1>1, <2>1, StutterKeeps
  <2>2. CASE Thread
    <3>1. CASE HeadStops \/ AnswerFails
      BY <1>1, <3>1, LeavesKeeps
    <3>2. CASE HeadRefused
      BY <1>1, <3>2, HeadRefusedKeeps
    <3>3. CASE HeadTaken
      BY <1>1, <3>3, HeadTakenKeeps
    <3>4. CASE HandlerReads
      BY <1>1, <3>4, HandlerReadsKeeps
    <3>5. CASE ReadEnd
      BY <1>1, <3>5, ReadEndKeeps
    <3>6. CASE FixedBuffered
      BY <1>1, <3>6, FixedBufferedKeeps
    <3>7. CASE ReadStops
      BY <1>1, <3>7, ReadStopsKeeps
    <3>8. CASE ChunkSize
      BY <1>1, <3>8, ChunkSizeKeeps
    <3>9. CASE ChunkData
      BY <1>1, <3>9, ChunkDataKeeps
    <3>10. CASE ChunkTail
      BY <1>1, <3>10, ChunkTailKeeps
    <3>11. CASE Answers \/ AnswersShort
      BY <1>1, <3>11, AnswersKeeps
    <3> QED
      BY <2>2, <3>1, <3>2, <3>3, <3>4, <3>5, <3>6, <3>7, <3>8, <3>9, <3>10, <3>11 DEF Thread
  <2>3. CASE Receives
    <3>1. PICK n \in 1..Len(line) : HeadReceives(n) \/ FixedReceived(n) \/ Fill(n)
      BY <2>3 DEF Receives
    <3> QED
      BY <1>1, <3>1, HeadReceivesKeeps, FixedReceivedKeeps, FillKeeps
  <2>4. ASSUME NEW s \in Shapes, ClientSends(s)
        PROVE  IInv'
    BY <1>1, <2>4, ClientSendsKeeps
  <2>5. CASE ClientStopsReading
    BY <1>1, <2>5, LeavesKeeps
  <2> QED
    BY <1>1, <2>1, <2>2, <2>3, <2>4, <2>5 DEF Next
<1> QED
  BY <1>1, InitIs, PTL DEF Spec

\* The members of the connection and of its HttpBodyReader have their types.
THEOREM TypeTheorem == Spec => []TypeOK
BY ConnectionTheorem, PTL DEF IInv

\* What a handler that was told that the body has ended has read is the body of
\* the request it handles, in any segments and in any chunks
\* (HttpBodyReader::Read, HttpContext::ReadBody).
THEOREM BodyTheorem == Spec => []BodyExact
<1>1. IInv => BodyExact
  BY BodyIs
<1> QED
  BY <1>1, ConnectionTheorem, PTL

\* The answers on a connection on which no read of a body failed are those to
\* the requests, in their order (HttpServer::ServeConnection).
THEOREM OrderTheorem == Spec => []AnswersInOrder
<1>1. IInv => AnswersInOrder
  BY DEF IInv, OrderInv
<1> QED
  BY <1>1, ConnectionTheorem, PTL

=============================================================================
