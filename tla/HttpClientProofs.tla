-------------------------- MODULE HttpClientProofs --------------------------
(***************************************************************************)
(* Theorems about HttpClient, for any calls, answers and sizes of a piece: *)
(* what a call has sent when it succeeds, and after it was canceled, and   *)
(* what it returns.                                                        *)
(*                                                                         *)
(* ReqInv says of each step how much of the body is out: all of it from    *)
(* the moment the client waits for an answer, whatever the peer does.      *)
(* AnswerInv says what has come of the answer and not been used: what is   *)
(* left of it, from a boundary that the client knows.                      *)
(***************************************************************************)
EXTENDS HttpClient, SequenceTheorems, FiniteSetTheorems, WellFoundedInduction, TLAPS

Announced == IF call.kind = "download" THEN 0 ELSE call.length

\* The steps that follow the request.
Later == {"answer", "body", "reason", "reading", "spins", "ok", "failed"}

ReqInv ==
  /\ call.kind \in Kinds /\ call.length \in Nat /\ call.disk \in Nat
  /\ wired \in Nat
  /\ phase \in {"connect", "request", "file", "told", "blocked"} \cup Later
  /\ phase \in {"connect", "request"} => wired = 0
  /\ phase \in {"file", "told"} => call.kind = "file" /\ wired <= call.length
  /\ phase = "file" => wired < call.length
  /\ phase \in Later \ {"failed"} => wired = Announced

\* No piece follows the callback that was the first after the cancel.
LateInv ==
  /\ late \in Nat /\ late <= 1
  /\ late # 0 => canceled /\ phase \in {"told"} \cup Later

LEMMA MinOfThree ==
  ASSUME NEW a \in Int, NEW b \in Int, NEW c \in Int
  PROVE  /\ Min({a, b, c}) \in {a, b, c}
         /\ Min({a, b, c}) <= a /\ Min({a, b, c}) <= b /\ Min({a, b, c}) <= c
<1>1. \E x \in {a, b, c} : \A y \in {a, b, c} : x <= y
  BY SMT
<1> QED
  BY <1>1, SMT DEF Min

LEMMA InitInv == Init => ReqInv /\ LateInv
  BY CallsAssumption DEF Init, ReqInv, LateInv, Later

\* Whatever follows the request leaves it as it was.
LEMMA LaterStep ==
  ASSUME ReqInv, LateInv, UNCHANGED <<request, canceled>>,
         phase \in Later \ {"ok", "failed"}, phase' \in Later
  PROVE  (ReqInv /\ LateInv)'
BY DEF ReqInv, LateInv, Later, request, Announced

LEMMA StepInv == ASSUME ReqInv, LateInv, [Next]_vars PROVE (ReqInv /\ LateInv)'
<1> USE DEF ReqInv, LateInv, Later, request, response, remote, Goto
<1>1. CASE Connects \/ SendFails \/ FileShrank \/ PeerStopsReading
  BY <1>1 DEF Connects, SendFails, FileShrank, PeerStopsReading
<1>2. CASE SendsRequest
  BY <1>2 DEF SendsRequest, Announced, Kinds
<1>3. CASE SendsPiece
  <2>1. /\ NextPiece \in Int /\ NextPiece > 0 /\ NextPiece <= call.length - wired
    <3>1. /\ Piece \in Int /\ Piece > 0
          /\ call.length - wired \in Int /\ call.length - wired > 0
          /\ call.disk - wired \in Int /\ call.disk - wired > 0
      BY <1>3, LimitsAssumption DEF SendsPiece
    <3>2. /\ NextPiece \in {Piece, call.length - wired, call.disk - wired}
          /\ NextPiece <= call.length - wired
      BY <3>1, MinOfThree, Zenon DEF NextPiece
    <3> QED BY <3>1, <3>2
  <2>2. wired' \in Nat /\ wired' <= call.length /\ late = 0
    BY <1>3, <2>1 DEF SendsPiece
  <2> QED BY <1>3, <2>2 DEF SendsPiece
<1>4. CASE Told
  <2>1. phase = "told" /\ UNCHANGED <<request, canceled>>
    BY <1>4 DEF Told
  <2>2. CASE canceled
    <3>1. phase' = "failed"
      BY <1>4, <2>2, Zenon DEF Told
    <3> QED BY <2>1, <3>1
  <2>3. CASE ~canceled /\ wired < call.length
    <3>1. phase' = "file"
      BY <1>4, <2>3 DEF Told
    <3> QED BY <2>1, <2>3, <3>1
  <2>4. CASE ~canceled /\ ~(wired < call.length)
    <3>1. phase' = "answer"
      BY <1>4, <2>4 DEF Told
    <3> QED BY <2>1, <2>4, <3>1 DEF Announced
  <2> QED BY <2>2, <2>3, <2>4
<1>5. CASE UserCancels
  BY <1>5 DEF UserCancels, Announced
<1>6. CASE Peer
  BY <1>6 DEF Peer, PeerAnswers, PeerGoes, Announced
<1>7. CASE HeadStops \/ HeadTaken
  <2>1. UNCHANGED <<request, canceled>> /\ phase = "answer" /\ phase' \in Later
    BY <1>7 DEF HeadStops, HeadTaken, Follows
  <2> QED BY <2>1, LaterStep
<1>8. CASE LengthReached \/ ChunkTaken \/ BodyStops
  <2>1. UNCHANGED <<request, canceled>> /\ phase = "body" /\ phase' \in Later
    BY <1>8 DEF LengthReached, ChunkTaken, BodyStops
  <2> QED BY <2>1, LaterStep
<1>9. CASE ReasonStops \/ FileSpins \/ FileEnds \/ FileStops \/ Receives
  <2>1. /\ UNCHANGED <<request, canceled>> /\ phase' \in Later
        /\ phase \in {"answer", "body", "reason", "reading"}
    BY <1>9 DEF ReasonStops, FileSpins, FileEnds, FileStops, Receives, HeadReceives, BodyReceives,
                ReasonReceives, FileReads
  <2> QED BY <2>1, LaterStep
<1>10. CASE UNCHANGED vars
  BY <1>10 DEF vars, Announced
<1> QED
  BY <1>1, <1>2, <1>3, <1>4, <1>5, <1>6, <1>7, <1>8, <1>9, <1>10 DEF Next, Thread

\* A call that has succeeded has sent exactly the body it announced, also when
\* the file has shrunk or grown (ExecuteStreaming).
THEOREM RequestTheorem == Spec => []RequestExact
<1>1. ReqInv => RequestExact
  BY DEF ReqInv, RequestExact, Later, Announced
<1> QED
  BY <1>1, InitInv, StepInv, PTL DEF Spec

\* An upload sends at most one piece after it was canceled, whatever the sizes
\* of the piece and of the file (the progress callback).
THEOREM CancelTheorem == Spec => []CancelHeeded
<1>1. LateInv => CancelHeeded
  BY DEF LateInv, CancelHeeded
<1> QED
  BY <1>1, InitInv, StepInv, PTL DEF Spec

-----------------------------------------------------------------------------
(* Induction, in a form that needs no operator.                             *)

LEMMA MinIs ==
  ASSUME NEW S \in SUBSET Nat, S # {}
  PROVE  Min(S) \in S /\ \A n \in S : Min(S) <= n
<1> DEFINE R == {p \in Nat \X Nat : p[1] < p[2]}
<1>1. IsWellFoundedOn(R, Nat)
  BY NatLessThanWellFounded DEF OpToRel
<1>2. PICK m \in S : \A n \in S : <<n, m>> \notin R
  BY <1>1, WFMin
<1>3. \A n \in S : ~(n < m)
  BY <1>2
<1>4. \A n \in S : m <= n
  BY <1>3
<1> QED
  BY <1>4 DEF Min

LEMMA NatSet ==
  ASSUME NEW S \in SUBSET Nat, 0 \in S, \A n \in S : n + 1 \in S
  PROVE  S = Nat
<1> SUFFICES ASSUME Nat \ S # {} PROVE FALSE
  OBVIOUS
<1>1. PICK m \in Nat \ S : \A n \in Nat \ S : m <= n
  BY MinIs
<1>2. m # 0 /\ m - 1 \in Nat /\ ~(m <= m - 1)
  OBVIOUS
<1>3. m - 1 \in S
  BY <1>1, <1>2
<1> QED
  BY <1>2, <1>3

\* f is what step makes of first, n times at n.
Iterates(f, T, first, N, step) ==
  f \in [0..N -> T] /\ f[0] = first /\ \A n \in 1..N : f[n] = step[<<n, f[n - 1]>>]

LEMMA Recursion ==
  ASSUME NEW T, NEW first \in T, NEW N \in Nat, NEW step \in [(1..N) \X T -> T]
  PROVE  \E f : Iterates(f, T, first, N, step)
<1> DEFINE Fits(k, f) == f[0] = first /\ \A n \in 1..k : f[n] = step[<<n, f[n - 1]>>]
           S == {k \in Nat : k <= N => \E f \in [0..k -> T] : Fits(k, f)}
<1>1. 0 \in S
  <2> DEFINE f == [n \in 0..0 |-> first]
  <2>1. f \in [0..0 -> T] /\ f[0] = first /\ \A n \in 1..0 : FALSE
    OBVIOUS
  <2> QED
    BY <2>1
<1>2. ASSUME NEW k \in Nat, k + 1 <= N, NEW f \in [0..k -> T], Fits(k, f)
      PROVE  \E g \in [0..(k + 1) -> T] : Fits(k + 1, g)
  <2> DEFINE next == step[<<k + 1, f[k]>>]
             g == [n \in 0..(k + 1) |-> IF n = k + 1 THEN next ELSE f[n]]
  <2>1. k + 1 \in 1..N /\ f[k] \in T
    BY <1>2
  <2>2. next \in T
    BY <2>1
  <2> HIDE DEF next
  <2>3. g \in [0..(k + 1) -> T]
    BY <2>2
  <2>4. g[0] = first
    BY <1>2
  <2>5. ASSUME NEW n \in 1..(k + 1)
        PROVE  g[n] = step[<<n, g[n - 1]>>]
    <3>1. CASE n = k + 1
      <4>1. g[n] = next /\ g[n - 1] = f[k]
        BY <3>1
      <4> QED
        BY <4>1, <3>1 DEF next
    <3>2. CASE n # k + 1
      <4>1. n \in 1..k /\ g[n] = f[n] /\ g[n - 1] = f[n - 1]
        BY <3>2
      <4> QED
        BY <4>1, <1>2
    <3> QED
      BY <3>1, <3>2
  <2> QED
    BY <2>3, <2>4, <2>5
<1>3. S = Nat
  <2>1. ASSUME NEW k \in S
        PROVE  k + 1 \in S
    <3> SUFFICES ASSUME k + 1 <= N
                 PROVE  \E g \in [0..(k + 1) -> T] : Fits(k + 1, g)
      OBVIOUS
    <3>1. k \in Nat /\ k <= N
      OBVIOUS
    <3>2. PICK f \in [0..k -> T] : Fits(k, f)
      BY <3>1
    <3> HIDE DEF Fits
    <3> QED
      BY <1>2, <3>1, <3>2
  <2> HIDE DEF S
  <2>2. S \in SUBSET Nat
    BY DEF S
  <2> QED
    BY <1>1, <2>1, <2>2, NatSet
<1>4. N \in S
  BY <1>3
<1> QED
  BY <1>4 DEF Iterates

-----------------------------------------------------------------------------
(* The bytes of an answer                                                   *)

LEMMA SumsIs ==
  ASSUME NEW c \in Seq(Nat \ {0})
  PROVE  /\ Sums(c) \in [0..Len(c) -> Nat] /\ Sums(c)[0] = 0
         /\ \A n \in 1..Len(c) : Sums(c)[n] = Sums(c)[n - 1] + c[n]
<1> DEFINE N == Len(c)
           F(f) == [n \in 0..N |-> IF n = 0 THEN 0 ELSE f[n - 1] + c[n]]
           step == [x \in (1..N) \X Nat |-> x[2] + c[x[1]]]
<1>1. N \in Nat /\ \A n \in 1..N : c[n] \in Nat
  BY LenProperties, ElementOfSeq
<1> HIDE DEF N
<1>2. step \in [(1..N) \X Nat -> Nat]
  <2> SUFFICES ASSUME NEW x \in (1..N) \X Nat
               PROVE  x[2] + c[x[1]] \in Nat
    OBVIOUS
  <2>1. x[1] \in 1..N /\ x[2] \in Nat
    OBVIOUS
  <2> QED
    BY <1>1, <2>1
<1>3. \E f : Iterates(f, Nat, 0, N, step)
  <2>1. 0 \in Nat
    OBVIOUS
  <2> HIDE DEF step
  <2> QED
    BY <1>1, <1>2, <2>1, Recursion, Zenon
<1>4. PICK f \in [0..N -> Nat] : f[0] = 0 /\ \A n \in 1..N : f[n] = step[<<n, f[n - 1]>>]
  BY <1>3 DEF Iterates
<1>5. \A n \in 1..N : f[n] = f[n - 1] + c[n]
  <2> SUFFICES ASSUME NEW n \in 1..N
               PROVE  f[n] = f[n - 1] + c[n]
    OBVIOUS
  <2>1. n - 1 \in 0..N /\ f[n - 1] \in Nat
    BY <1>1
  <2>2. <<n, f[n - 1]>> \in (1..N) \X Nat
    BY <2>1
  <2> QED
    BY <1>4, <2>2
<1>6. f = F(f)
  BY <1>1, <1>4, <1>5
<1>7. \E g : g = F(g)
  BY <1>6
<1>8. Sums(c) = CHOOSE g : g = F(g)
  BY DEF Sums, N
<1>9. Sums(c) = F(Sums(c))
  <2> HIDE DEF F
  <2> QED
    BY <1>7, <1>8
<1>10. DOMAIN Sums(c) = 0..N /\ \A n \in 0..N : Sums(c)[n] = IF n = 0 THEN 0 ELSE Sums(c)[n - 1] + c[n]
  BY <1>9
<1> DEFINE S == {n \in Nat : n <= N => Sums(c)[n] \in Nat}
<1>11. S = Nat
  <2>1. 0 \in S
    BY <1>1, <1>10
  <2>2. ASSUME NEW n \in S
        PROVE  n + 1 \in S
    <3> SUFFICES ASSUME n + 1 <= N
                 PROVE  Sums(c)[n + 1] \in Nat
      OBVIOUS
    <3>1. n + 1 \in 1..N /\ n + 1 \in 0..N /\ (n + 1) - 1 = n /\ n + 1 # 0 /\ Sums(c)[n] \in Nat
      BY <1>1
    <3>2. c[n + 1] \in Nat
      BY <1>1, <3>1
    <3>3. Sums(c)[n + 1] = Sums(c)[n] + c[n + 1]
      BY <1>10, <3>1
    <3> QED
      BY <3>1, <3>2, <3>3
  <2> HIDE DEF S
  <2>3. S \in SUBSET Nat
    BY DEF S
  <2> QED
    BY <2>1, <2>2, <2>3, NatSet
<1>12. \A n \in 0..N : Sums(c)[n] \in Nat
  BY <1>1, <1>11
<1>13. Sums(c) \in [0..N -> Nat]
  BY <1>9, <1>10, <1>12
<1> QED
  BY <1>1, <1>10, <1>13 DEF N

LEMMA TokenIs ==
  /\ CR \in Tokens /\ LF \in Tokens /\ CR # LF /\ CR.kind = "cr" /\ LF.kind = "lf"
  /\ \A n \in Nat : /\ Line(n) \in Tokens /\ Line(n).kind = "line" /\ Line(n).n = n
                    /\ Data(n) \in Tokens /\ Data(n).kind = "data"
                    /\ Size(n) \in Tokens /\ Size(n).kind = "size" /\ Size(n).n = n
  BY DEF CR, LF, Line, Data, Size, Token, Tokens

LEMMA OneIs ==
  ASSUME NEW t \in Tokens
  PROVE  <<t>> \in Seq(Tokens) /\ Len(<<t>>) = 1 /\ <<t>>[1] = t
  OBVIOUS

LEMMA CRLFIs ==
  CRLF \in Seq(Tokens) /\ Len(CRLF) = 2 /\ CRLF[1] = CR /\ CRLF[2] = LF
  BY TokenIs DEF CRLF

LEMMA UnitsIs ==
  ASSUME NEW q \in Nat, NEW n \in Nat
  PROVE  /\ Units(q, n) \in Seq(Tokens) /\ Len(Units(q, n)) = n
         /\ \A i \in 1..n : Units(q, n)[i] = Data(q)
<1>1. Data(q) \in Tokens
  BY TokenIs
<1>2. Units(q, n) \in [1..n -> Tokens]
  BY <1>1 DEF Units
<1> QED
  BY <1>2 DEF Units

LEMMA ConcatIs ==
  ASSUME NEW a \in Seq(Tokens), NEW b \in Seq(Tokens)
  PROVE  /\ a \o b \in Seq(Tokens) /\ Len(a \o b) = Len(a) + Len(b)
         /\ Len(a) \in Nat /\ Len(b) \in Nat
         /\ \A i \in 1..Len(a) : (a \o b)[i] = a[i]
         /\ \A i \in 1..Len(b) : (a \o b)[Len(a) + i] = b[i]
<1>1. Len(a) \in Nat /\ Len(b) \in Nat
  BY LenProperties
<1>2. /\ a \o b \in Seq(Tokens) /\ Len(a \o b) = Len(a) + Len(b)
      /\ \A i \in 1..(Len(a) + Len(b)) : (a \o b)[i] = IF i <= Len(a) THEN a[i] ELSE b[i - Len(a)]
  BY ConcatProperties
<1>3. \A i \in 1..Len(a) : (a \o b)[i] = a[i]
  BY <1>1, <1>2
<1>4. ASSUME NEW i \in 1..Len(b)
      PROVE  (a \o b)[Len(a) + i] = b[i]
  <2>1. /\ Len(a) + i \in 1..(Len(a) + Len(b)) /\ ~(Len(a) + i <= Len(a))
        /\ Len(a) + i - Len(a) = i
    BY <1>1
  <2> QED
    BY <1>2, <2>1
<1> QED
  BY <1>1, <1>2, <1>3, <1>4

LEMMA ConcatThree ==
  ASSUME NEW a \in Seq(Tokens), NEW b \in Seq(Tokens), NEW c \in Seq(Tokens)
  PROVE  (a \o b) \o c = a \o (b \o c)
  BY ConcatAssociative

LEMMA JoinIs ==
  ASSUME NEW a \in Seq(Tokens)
  PROVE  /\ a \o CRLF \in Seq(Tokens) /\ Len(a \o CRLF) = Len(a) + 2
         /\ \A i \in 1..Len(a) : (a \o CRLF)[i] = a[i]
         /\ (a \o CRLF)[Len(a) + 1] = CR /\ (a \o CRLF)[Len(a) + 2] = LF
<1>1. /\ a \o CRLF \in Seq(Tokens) /\ Len(a \o CRLF) = Len(a) + Len(CRLF)
      /\ \A i \in 1..Len(a) : (a \o CRLF)[i] = a[i]
      /\ \A i \in 1..Len(CRLF) : (a \o CRLF)[Len(a) + i] = CRLF[i]
  BY CRLFIs, ConcatIs
<1>2. Len(CRLF) = 2 /\ CRLF[1] = CR /\ CRLF[2] = LF /\ 1 \in 1..2 /\ 2 \in 1..2
  BY CRLFIs
<1>3. (a \o CRLF)[Len(a) + 1] = CRLF[1] /\ (a \o CRLF)[Len(a) + 2] = CRLF[2]
  BY <1>1, <1>2
<1> QED
  BY <1>1, <1>2, <1>3

LEMMA ChunkIs ==
  ASSUME NEW q \in Nat, NEW n \in Nat
  PROVE  /\ Chunk(q, n) \in Seq(Tokens) /\ Len(Chunk(q, n)) = n + 5
         /\ Chunk(q, n) = (<<Size(n)>> \o CRLF) \o (Units(q, n) \o CRLF)
         /\ Chunk(q, n)[1] = Size(n) /\ Chunk(q, n)[2] = CR /\ Chunk(q, n)[3] = LF
         /\ \A i \in 1..n : Chunk(q, n)[3 + i] = Data(q)
         /\ Chunk(q, n)[n + 4] = CR /\ Chunk(q, n)[n + 5] = LF
<1> DEFINE s == <<Size(n)>>
           u == Units(q, n)
           a == s \o CRLF
           b == u \o CRLF
<1>1. /\ s \in Seq(Tokens) /\ Len(s) = 1 /\ s[1] = Size(n) /\ CRLF \in Seq(Tokens) /\ Len(CRLF) = 2
      /\ CRLF[1] = CR /\ CRLF[2] = LF /\ u \in Seq(Tokens) /\ Len(u) = n
      /\ \A i \in 1..n : u[i] = Data(q)
  BY TokenIs, OneIs, CRLFIs, UnitsIs
<1> HIDE DEF s, u
<1>2. a \in Seq(Tokens) /\ Len(a) = 3 /\ a[1] = Size(n) /\ a[2] = CR /\ a[3] = LF
  <2>1. /\ a \in Seq(Tokens) /\ Len(a) = Len(s) + Len(CRLF)
        /\ \A i \in 1..Len(s) : a[i] = s[i]
        /\ \A i \in 1..Len(CRLF) : a[Len(s) + i] = CRLF[i]
    BY <1>1, ConcatIs
  <2> HIDE DEF a
  <2>2. a[1] = s[1] /\ a[1 + 1] = CRLF[1] /\ a[1 + 2] = CRLF[2]
    BY <1>1, <2>1
  <2> QED
    BY <1>1, <2>1, <2>2
<1>3. /\ b \in Seq(Tokens) /\ Len(b) = n + 2 /\ \A i \in 1..n : b[i] = Data(q)
      /\ b[n + 1] = CR /\ b[n + 2] = LF
  <2>1. /\ b \in Seq(Tokens) /\ Len(b) = Len(u) + 2
        /\ \A i \in 1..Len(u) : b[i] = u[i]
        /\ b[Len(u) + 1] = CR /\ b[Len(u) + 2] = LF
    BY <1>1, JoinIs
  <2> HIDE DEF b
  <2> QED
    BY <1>1, <2>1
<1>4. Chunk(q, n) = a \o b
  BY DEF Chunk, s, u
<1> HIDE DEF a, b
<1>5. Chunk(q, n) \in Seq(Tokens) /\ Len(Chunk(q, n)) = n + 5
  <2>1. a \o b \in Seq(Tokens) /\ Len(a \o b) = Len(a) + Len(b)
    BY <1>2, <1>3, ConcatIs
  <2> QED
    BY <1>2, <1>3, <1>4, <2>1
<1>6. Chunk(q, n)[1] = a[1] /\ Chunk(q, n)[2] = a[2] /\ Chunk(q, n)[3] = a[3]
  <2>1. \A i \in 1..Len(a) : (a \o b)[i] = a[i]
    BY <1>2, <1>3, ConcatIs
  <2>2. 1 \in 1..Len(a) /\ 2 \in 1..Len(a) /\ 3 \in 1..Len(a)
    BY <1>2
  <2>3. (a \o b)[1] = a[1] /\ (a \o b)[2] = a[2] /\ (a \o b)[3] = a[3]
    BY <2>1, <2>2, Zenon
  <2> QED
    BY <1>4, <2>3
<1>7. \A i \in 1..(n + 2) : Chunk(q, n)[3 + i] = b[i]
  <2>1. \A i \in 1..Len(b) : (a \o b)[Len(a) + i] = b[i]
    BY <1>2, <1>3, ConcatIs
  <2> QED
    BY <1>2, <1>3, <1>4, <2>1
<1>8. \A i \in 1..n : Chunk(q, n)[3 + i] = Data(q)
  BY <1>3, <1>7
<1>9. Chunk(q, n)[n + 4] = CR /\ Chunk(q, n)[n + 5] = LF
  <2>1. n + 1 \in 1..(n + 2) /\ n + 2 \in 1..(n + 2) /\ 3 + (n + 1) = n + 4 /\ 3 + (n + 2) = n + 5
    OBVIOUS
  <2>2. Chunk(q, n)[3 + (n + 1)] = b[n + 1] /\ Chunk(q, n)[3 + (n + 2)] = b[n + 2]
    BY <1>7, <2>1, Zenon
  <2> QED
    BY <1>3, <2>1, <2>2
<1> QED
  BY <1>2, <1>4, <1>5, <1>6, <1>8, <1>9 DEF a, b, s, u

LEMMA FramedIs ==
  ASSUME NEW q \in Nat, NEW c \in Seq(Nat \ {0})
  PROVE  /\ \A n \in 0..Len(c) : Framed(q, c)[n] \in Seq(Tokens)
         /\ Framed(q, c)[0] = <<Size(0)>> \o CRLF \o CRLF
         /\ \A n \in 1..Len(c) : Framed(q, c)[n] = Chunk(q, c[Len(c) - n + 1]) \o Framed(q, c)[n - 1]
<1> DEFINE N == Len(c)
           T == Seq(Tokens)
           end == <<Size(0)>> \o CRLF \o CRLF
           F(f) == [n \in 0..N |-> IF n = 0 THEN end ELSE Chunk(q, c[N - n + 1]) \o f[n - 1]]
           step == [x \in (1..N) \X T |-> Chunk(q, c[N - x[1] + 1]) \o x[2]]
<1>1. N \in Nat /\ \A n \in 1..N : N - n + 1 \in 1..N /\ c[N - n + 1] \in Nat
  BY LenProperties, ElementOfSeq
<1> HIDE DEF N
<1>2. \A n \in 1..N : Chunk(q, c[N - n + 1]) \in T
  BY <1>1, ChunkIs
<1>3. end \in T
  <2>1. <<Size(0)>> \in T /\ CRLF \in T
    BY TokenIs, OneIs, CRLFIs
  <2> QED
    BY <2>1, ConcatIs
<1>4. step \in [(1..N) \X T -> T]
  <2> SUFFICES ASSUME NEW x \in (1..N) \X T
               PROVE  Chunk(q, c[N - x[1] + 1]) \o x[2] \in T
    OBVIOUS
  <2>1. x[1] \in 1..N /\ x[2] \in T
    OBVIOUS
  <2> QED
    BY <1>2, <2>1, ConcatIs
<1>5. \E f : Iterates(f, T, end, N, step)
  <2> HIDE DEF step, end, T
  <2> QED
    BY <1>1, <1>3, <1>4, Recursion, Zenon
<1>6. PICK f \in [0..N -> T] : f[0] = end /\ \A n \in 1..N : f[n] = step[<<n, f[n - 1]>>]
  BY <1>5 DEF Iterates
<1>7. ASSUME NEW n \in 1..N
      PROVE  f[n] = Chunk(q, c[N - n + 1]) \o f[n - 1]
  <2>1. n - 1 \in 0..N /\ f[n - 1] \in T
    BY <1>1, <1>6
  <2>2. <<n, f[n - 1]>> \in (1..N) \X T
    BY <2>1
  <2> QED
    BY <1>6, <2>2
<1> HIDE DEF end, step
<1>8. f = F(f)
  <2> DEFINE rest(n) == IF n = 0 THEN end ELSE Chunk(q, c[N - n + 1]) \o f[n - 1]
  <2>1. \A n \in 0..N : f[n] = rest(n)
    <3> SUFFICES ASSUME NEW n \in 0..N
                 PROVE  f[n] = rest(n)
      OBVIOUS
    <3>1. n = 0 \/ (n \in 1..N /\ n # 0)
      BY <1>1
    <3> QED
      BY <1>6, <1>7, <3>1
  <2>2. f = [n \in 0..N |-> f[n]]
    BY <1>6
  <2> HIDE DEF rest
  <2>3. f = [n \in 0..N |-> rest(n)]
    BY <2>1, <2>2
  <2> QED
    BY <2>3 DEF rest
<1>9. \E g : g = F(g)
  BY <1>8
<1>10. Framed(q, c) = CHOOSE g : g = F(g)
  BY DEF Framed, N, end
<1>11. Framed(q, c) = F(Framed(q, c))
  <2> HIDE DEF F
  <2> QED
    BY <1>9, <1>10
<1> DEFINE B == Framed(q, c)
<1>12. \A n \in 0..N : B[n] = IF n = 0 THEN end ELSE Chunk(q, c[N - n + 1]) \o B[n - 1]
  BY <1>11
<1> DEFINE S == {n \in Nat : n <= N => B[n] \in T}
<1> HIDE DEF B
<1>13. S = Nat
  <2>1. 0 \in S
    BY <1>1, <1>3, <1>12
  <2>2. ASSUME NEW n \in S
        PROVE  n + 1 \in S
    <3> SUFFICES ASSUME n + 1 <= N
                 PROVE  B[n + 1] \in T
      OBVIOUS
    <3>1. n \in Nat /\ n + 1 \in 1..N /\ n + 1 \in 0..N /\ (n + 1) - 1 = n /\ n + 1 # 0
      BY <1>1
    <3>2. B[n] \in T
      BY <1>1
    <3>3. B[n + 1] = Chunk(q, c[N - (n + 1) + 1]) \o B[n]
      BY <1>12, <3>1
    <3> QED
      BY <1>2, <3>1, <3>2, <3>3, ConcatIs
  <2> HIDE DEF S
  <2>3. S \in SUBSET Nat
    BY DEF S
  <2> QED
    BY <2>1, <2>2, <2>3, NatSet
<1>14. \A n \in 0..N : B[n] \in T
  <2> SUFFICES ASSUME NEW n \in 0..N
               PROVE  B[n] \in T
    OBVIOUS
  <2>1. n \in Nat /\ n <= N
    BY <1>1
  <2>2. n \in S
    BY <1>13, <2>1
  <2> QED
    BY <2>1, <2>2
<1>15. B[0] = end
  BY <1>1, <1>12
<1>16. ASSUME NEW n \in 1..N
       PROVE  B[n] = Chunk(q, c[N - n + 1]) \o B[n - 1]
  <2>1. n \in 0..N /\ n # 0
    BY <1>1
  <2> QED
    BY <1>12, <2>1
<1> QED
  BY <1>14, <1>15, <1>16 DEF N, B, end

LEMMA CutIs ==
  ASSUME NEW w \in Seq(Tokens), NEW n \in 0..Len(w)
  PROVE  /\ Upto(w, n) \in Seq(Tokens) /\ Len(Upto(w, n)) = n
         /\ \A i \in 1..n : Upto(w, n)[i] = w[i]
         /\ After(w, n) \in Seq(Tokens) /\ Len(After(w, n)) = Len(w) - n
         /\ \A i \in 1..(Len(w) - n) : After(w, n)[i] = w[n + i]
         /\ Upto(w, n) \o After(w, n) = w
<1>1. Len(w) \in Nat /\ n \in Nat /\ n <= Len(w) /\ \A i \in 1..Len(w) : w[i] \in Tokens
  BY LenProperties, ElementOfSeq
<1>2. /\ Upto(w, n) \in Seq(Tokens) /\ Len(Upto(w, n)) = n
      /\ \A i \in 1..n : Upto(w, n)[i] = w[i]
  <2>1. /\ Upto(w, n) \in Seq(Tokens) /\ Len(Upto(w, n)) = IF 1 <= n THEN n - 1 + 1 ELSE 0
        /\ \A i \in 1..(n - 1 + 1) : Upto(w, n)[i] = w[1 + i - 1]
    <3>1. \A i \in 1..n : w[i] \in Tokens
      BY <1>1
    <3> QED
      BY <1>1, <3>1, SubSeqProperties DEF Upto
  <2>2. Len(Upto(w, n)) = n
    BY <1>1, <2>1
  <2>3. \A i \in 1..n : Upto(w, n)[i] = w[i]
    BY <1>1, <2>1
  <2> QED
    BY <2>1, <2>2, <2>3
<1>3. /\ After(w, n) \in Seq(Tokens) /\ Len(After(w, n)) = Len(w) - n
      /\ \A i \in 1..(Len(w) - n) : After(w, n)[i] = w[n + i]
  <2>1. /\ After(w, n) \in Seq(Tokens)
        /\ Len(After(w, n)) = IF n + 1 <= Len(w) THEN Len(w) - (n + 1) + 1 ELSE 0
        /\ \A i \in 1..(Len(w) - (n + 1) + 1) : After(w, n)[i] = w[(n + 1) + i - 1]
    <3>1. \A i \in (n + 1)..Len(w) : w[i] \in Tokens
      BY <1>1
    <3> QED
      BY <1>1, <3>1, SubSeqProperties DEF After
  <2>2. Len(After(w, n)) = Len(w) - n
    BY <1>1, <2>1
  <2>3. ASSUME NEW i \in 1..(Len(w) - n)
        PROVE  After(w, n)[i] = w[n + i]
    <3>1. i \in 1..(Len(w) - (n + 1) + 1) /\ (n + 1) + i - 1 = n + i
      BY <1>1
    <3> QED
      BY <2>1, <3>1
  <2> QED
    BY <2>1, <2>2, <2>3
<1>4. Upto(w, n) \o After(w, n) = w
  <2> DEFINE a == Upto(w, n)
             b == After(w, n)
  <2> HIDE DEF a, b
  <2>0. a \in Seq(Tokens) /\ Len(a) = n /\ b \in Seq(Tokens) /\ Len(b) = Len(w) - n
    BY <1>2, <1>3 DEF a, b
  <2>1. a \o b \in Seq(Tokens) /\ Len(a \o b) = Len(w)
    <3>1. a \o b \in Seq(Tokens) /\ Len(a \o b) = Len(a) + Len(b)
      BY <2>0, ConcatIs
    <3> QED
      BY <1>1, <2>0, <3>1
  <2>2. ASSUME NEW i \in 1..Len(w)
        PROVE  (a \o b)[i] = w[i]
    <3>1. CASE i <= n
      <4>1. i \in 1..n
        BY <1>1, <3>1
      <4>2. (a \o b)[i] = a[i]
        BY <2>0, <4>1, ConcatIs
      <4> QED
        BY <1>2, <4>1, <4>2 DEF a
    <3>2. CASE i > n
      <4>1. i - n \in 1..(Len(w) - n) /\ i = n + (i - n)
        BY <1>1, <3>2
      <4>2. (a \o b)[n + (i - n)] = b[i - n]
        BY <2>0, <4>1, ConcatIs
      <4> QED
        BY <1>3, <4>1, <4>2 DEF b
    <3>3. i <= n \/ i > n
      BY <1>1
    <3> QED
      BY <3>1, <3>2, <3>3
  <2>3. a \o b = w
    BY <2>1, <2>2, SeqEqual
  <2> QED
    BY <2>3 DEF a, b
<1> QED
  BY <1>2, <1>3, <1>4

Occurs(text, w, i) ==
  /\ i \in 1..(Len(w) - Len(text) + 1)
  /\ \A j \in 1..Len(text) : w[i + j - 1] = text[j]

\* Find returns the first place, or 0 (std::string::npos).
LEMMA FindIs ==
  ASSUME NEW text \in Seq(Tokens), Len(text) >= 1, NEW w \in Seq(Tokens)
  PROVE  /\ Find(text, w) \in Nat
         /\ Find(text, w) # 0 => Occurs(text, w, Find(text, w))
         /\ \A i : Occurs(text, w, i) => Find(text, w) # 0 /\ Find(text, w) <= i
<1> DEFINE At == {i \in 1..(Len(w) - Len(text) + 1) : SubSeq(w, i, i + Len(text) - 1) = text}
<1>1. Len(text) \in Nat /\ Len(w) \in Nat
  BY LenProperties
<1>2. ASSUME NEW i \in 1..(Len(w) - Len(text) + 1)
      PROVE  SubSeq(w, i, i + Len(text) - 1) = text <=> Occurs(text, w, i)
  <2> DEFINE n == i + Len(text) - 1
             s == SubSeq(w, i, n)
  <2>1. i \in Int /\ n \in Int /\ i <= n /\ n - i + 1 = Len(text) /\ n <= Len(w) /\ 1 <= i
    BY <1>1
  <2>2. \A j \in i..n : w[j] \in Tokens
    BY <1>1, <2>1, ElementOfSeq
  <2> HIDE DEF n
  <2>3. /\ s \in Seq(Tokens) /\ Len(s) = IF i <= n THEN n - i + 1 ELSE 0
        /\ \A j \in 1..(n - i + 1) : s[j] = w[i + j - 1]
    BY <2>1, <2>2, SubSeqProperties
  <2>4. Len(s) = Len(text) /\ \A j \in 1..Len(text) : s[j] = w[i + j - 1]
    BY <2>1, <2>3
  <2> HIDE DEF s
  <2>5. s = text <=> \A j \in 1..Len(text) : s[j] = text[j]
    <3>1. (\A j \in 1..Len(text) : s[j] = text[j]) => s = text
      BY <2>3, <2>4, SeqEqual
    <3> QED
      BY <3>1
  <2>6. s = text <=> Occurs(text, w, i)
    BY <2>4, <2>5 DEF Occurs
  <2> QED
    BY <2>6 DEF s, n
<1>3. At \in SUBSET Nat /\ 0 \notin At /\ \A i : i \in At <=> Occurs(text, w, i)
  <2>1. \A i : i \in At <=> Occurs(text, w, i)
    BY <1>2 DEF Occurs
  <2> QED
    BY <1>1, <2>1
<1>4. Find(text, w) = IF At = {} THEN 0 ELSE Min(At)
  BY DEF Find
<1> HIDE DEF At
<1>5. CASE At = {}
  BY <1>3, <1>4, <1>5
<1>6. CASE At # {}
  <2>1. Min(At) \in At /\ \A i \in At : Min(At) <= i
    BY <1>3, <1>6, MinIs
  <2> QED
    BY <1>3, <1>4, <1>6, <2>1
<1> QED
  BY <1>5, <1>6

-----------------------------------------------------------------------------
(* Counting the units of body                                               *)

DataIn(w) == {i \in DOMAIN w : w[i].kind = "data"}

LEMMA CountIs ==
  ASSUME NEW w \in Seq(Tokens)
  PROVE  IsFiniteSet(DataIn(w)) /\ Bodies(w) \in Nat /\ DataIn(w) \subseteq 1..Len(w) /\ Bodies(w) = Cardinality(DataIn(w))
<1>1. Len(w) \in Nat /\ DOMAIN w = 1..Len(w)
  BY LenProperties
<1>2. DataIn(w) \subseteq 1..Len(w) /\ IsFiniteSet(1..Len(w))
  BY <1>1, FS_Interval DEF DataIn
<1>3. IsFiniteSet(DataIn(w))
  BY <1>2, FS_Subset
<1> QED
  BY <1>2, <1>3, FS_CardinalityType DEF Bodies, DataIn

LEMMA AllData ==
  ASSUME NEW w \in Seq(Tokens), \A i \in 1..Len(w) : w[i].kind = "data"
  PROVE  Bodies(w) = Len(w)
<1>1. Len(w) \in Nat /\ DOMAIN w = 1..Len(w)
  BY LenProperties
<1>2. DataIn(w) = 1..Len(w)
  BY <1>1 DEF DataIn
<1>3. Cardinality(1..Len(w)) = IF 1 > Len(w) THEN 0 ELSE Len(w) - 1 + 1
  BY <1>1, FS_Interval
<1>4. Bodies(w) = Cardinality(1..Len(w))
  BY <1>2, CountIs
<1> QED
  BY <1>1, <1>3, <1>4

LEMMA NoData ==
  ASSUME NEW w \in Seq(Tokens), \A i \in 1..Len(w) : w[i].kind # "data"
  PROVE  Bodies(w) = 0
<1>1. DOMAIN w = 1..Len(w)
  BY LenProperties
<1>2. DataIn(w) = {}
  BY <1>1 DEF DataIn
<1> QED
  BY <1>2, CountIs, FS_EmptySet

LEMMA CountConcat ==
  ASSUME NEW a \in Seq(Tokens), NEW b \in Seq(Tokens)
  PROVE  Bodies(a \o b) = Bodies(a) + Bodies(b)
<1> DEFINE n == Len(a)
           behind == {n + i : i \in DataIn(b)}
           shift == [i \in DataIn(b) |-> n + i]
<1>1. /\ n \in Nat /\ Len(b) \in Nat /\ a \o b \in Seq(Tokens) /\ Len(a \o b) = n + Len(b)
      /\ \A i \in 1..n : (a \o b)[i] = a[i]
      /\ \A i \in 1..Len(b) : (a \o b)[n + i] = b[i]
  BY ConcatIs
<1>2. DOMAIN a = 1..n /\ DOMAIN b = 1..Len(b) /\ DOMAIN (a \o b) = 1..(n + Len(b))
  BY <1>1, LenProperties
<1> HIDE DEF n
<1>3. DataIn(a \o b) = DataIn(a) \cup behind
  <2>1. ASSUME NEW j \in DataIn(a \o b)
        PROVE  j \in DataIn(a) \cup behind
    <3>1. j \in 1..(n + Len(b)) /\ (a \o b)[j].kind = "data"
      BY <1>2 DEF DataIn
    <3>2. CASE j <= n
      <4>1. j \in 1..n
        BY <1>1, <3>1, <3>2
      <4> QED
        BY <1>1, <1>2, <3>1, <4>1 DEF DataIn
    <3>3. CASE j > n
      <4>1. j - n \in 1..Len(b) /\ j = n + (j - n)
        BY <1>1, <3>1, <3>3
      <4>2. b[j - n].kind = "data"
        BY <1>1, <3>1, <4>1
      <4>3. j - n \in DataIn(b)
        BY <1>2, <4>1, <4>2 DEF DataIn
      <4> QED
        BY <4>1, <4>3
    <3> QED
      BY <1>1, <3>1, <3>2, <3>3
  <2>2. ASSUME NEW j \in DataIn(a)
        PROVE  j \in DataIn(a \o b)
    <3>1. j \in 1..n /\ a[j].kind = "data"
      BY <1>2 DEF DataIn
    <3>2. j \in 1..(n + Len(b))
      BY <1>1, <3>1
    <3> QED
      BY <1>1, <1>2, <3>1, <3>2 DEF DataIn
  <2>3. ASSUME NEW i \in DataIn(b)
        PROVE  n + i \in DataIn(a \o b)
    <3>1. i \in 1..Len(b) /\ b[i].kind = "data"
      BY <1>2 DEF DataIn
    <3>2. n + i \in 1..(n + Len(b))
      BY <1>1, <3>1
    <3> QED
      BY <1>1, <1>2, <3>1, <3>2 DEF DataIn
  <2> QED
    BY <2>1, <2>2, <2>3
<1>4. shift \in Bijection(DataIn(b), behind)
  <2>1. DataIn(b) \subseteq Nat
    BY <1>1, CountIs
  <2>2. \A i, j \in DataIn(b) : shift[i] = shift[j] => i = j
    BY <1>1, <2>1
  <2> QED
    BY <2>2 DEF Bijection, Injection, Surjection, IsInjective
<1>5. IsFiniteSet(behind) /\ Cardinality(behind) = Cardinality(DataIn(b))
  <2>1. ExistsBijection(DataIn(b), behind)
    BY <1>4 DEF ExistsBijection
  <2> HIDE DEF behind
  <2> QED
    BY <2>1, CountIs, FS_Bijection
<1>6. DataIn(a) \cap behind = {}
  <2>1. DataIn(a) \subseteq 1..n /\ DataIn(b) \subseteq 1..Len(b)
    BY CountIs DEF n
  <2> QED
    BY <1>1, <2>1
<1> HIDE DEF behind
<1>7. Cardinality(DataIn(a \o b)) = Cardinality(DataIn(a)) + Cardinality(DataIn(b))
  <2>1. /\ Cardinality(DataIn(a) \cup behind) =
             Cardinality(DataIn(a)) + Cardinality(behind) - Cardinality(DataIn(a) \cap behind)
        /\ Cardinality(DataIn(a)) \in Nat
    BY <1>5, CountIs, FS_Union, FS_CardinalityType
  <2>2. Cardinality(DataIn(a) \cap behind) = 0 /\ Cardinality(behind) \in Nat
    BY <1>5, <1>6, FS_EmptySet, FS_CardinalityType
  <2> QED
    BY <1>3, <1>5, <2>1, <2>2
<1> QED
  BY <1>1, <1>7, CountIs

LEMMA CountChunk ==
  ASSUME NEW q \in Nat, NEW n \in Nat
  PROVE  Bodies(Chunk(q, n)) = n
<1> DEFINE s == <<Size(n)>>
           u == Units(q, n)
<1>1. s \in Seq(Tokens) /\ CRLF \in Seq(Tokens) /\ u \in Seq(Tokens) /\ Len(u) = n
  BY TokenIs, OneIs, CRLFIs, UnitsIs
<1>2. Chunk(q, n) = (s \o CRLF) \o (u \o CRLF)
  BY ChunkIs
<1>3. Bodies(s) = 0
  <2>1. Len(s) = 1 /\ s[1].kind = "size"
    BY TokenIs, OneIs
  <2> HIDE DEF s
  <2> QED
    BY <1>1, <2>1, NoData
<1>4. Bodies(CRLF) = 0
  <2>1. \A i \in 1..2 : CRLF[i].kind # "data"
    BY CRLFIs, TokenIs
  <2> QED
    BY <2>1, CRLFIs, NoData
<1>5. Bodies(u) = n
  <2>1. \A i \in 1..n : u[i].kind = "data"
    BY UnitsIs, TokenIs
  <2> HIDE DEF u
  <2> QED
    BY <1>1, <2>1, AllData
<1> HIDE DEF s, u
<1>6. Bodies(s \o CRLF) = 0 /\ Bodies(u \o CRLF) = n
  BY <1>1, <1>3, <1>4, <1>5, CountConcat
<1>7. s \o CRLF \in Seq(Tokens) /\ u \o CRLF \in Seq(Tokens)
  BY <1>1, ConcatIs
<1>8. Bodies((s \o CRLF) \o (u \o CRLF)) = Bodies(s \o CRLF) + Bodies(u \o CRLF)
  BY <1>7, CountConcat
<1> QED
  BY <1>2, <1>6, <1>8

-----------------------------------------------------------------------------
(* What is left of an answer                                                *)

\* The bytes b have come and l are on the line: the first of w, all of them
\* unless some are gone.
Left(b, l, gone, w) ==
  /\ Len(b) + Len(l) <= Len(w)
  /\ \A i \in 1..Len(b) : b[i] = w[i]
  /\ \A i \in 1..Len(l) : l[i] = w[Len(b) + i]
  /\ ~gone => Len(b) + Len(l) = Len(w)

LEMMA LeftReceives ==
  ASSUME NEW b \in Seq(Tokens), NEW l \in Seq(Tokens), NEW w \in Seq(Tokens), NEW gone,
         Left(b, l, gone, w), NEW n \in 1..Len(l)
  PROVE  /\ b \o Upto(l, n) \in Seq(Tokens) /\ After(l, n) \in Seq(Tokens)
         /\ Left(b \o Upto(l, n), After(l, n), gone, w)
<1> DEFINE u == Upto(l, n)
           v == After(l, n)
           c == b \o u
<1>1. /\ Len(b) \in Nat /\ Len(l) \in Nat /\ Len(w) \in Nat /\ n \in Nat /\ n <= Len(l)
      /\ u \in Seq(Tokens) /\ v \in Seq(Tokens) /\ Len(u) = n /\ Len(v) = Len(l) - n
      /\ \A i \in 1..n : u[i] = l[i]
      /\ \A i \in 1..(Len(l) - n) : v[i] = l[n + i]
  <2>1. Len(l) \in Nat
    BY LenProperties
  <2>2. n \in 0..Len(l) /\ n \in Nat /\ n <= Len(l)
    BY <2>1
  <2> QED
    BY <2>1, <2>2, CutIs, LenProperties, Zenon
<1> HIDE DEF u, v
<1>2. /\ c \in Seq(Tokens) /\ Len(c) = Len(b) + Len(u)
      /\ \A i \in 1..Len(b) : c[i] = b[i]
      /\ \A i \in 1..Len(u) : c[Len(b) + i] = u[i]
  BY <1>1, ConcatIs
<1> HIDE DEF c
<1>3. ASSUME NEW i \in 1..Len(c)
      PROVE  c[i] = w[i]
  <2>1. CASE i <= Len(b)
    <3>1. i \in 1..Len(b)
      BY <1>1, <2>1
    <3> QED
      BY <1>2, <3>1 DEF Left
  <2>2. CASE i > Len(b)
    <3>1. i - Len(b) \in 1..n /\ i - Len(b) \in 1..Len(l) /\ i = Len(b) + (i - Len(b))
      BY <1>1, <1>2, <2>2
    <3>2. c[i] = u[i - Len(b)] /\ u[i - Len(b)] = l[i - Len(b)] /\ l[i - Len(b)] = w[i]
      BY <1>1, <1>2, <3>1 DEF Left
    <3> QED
      BY <3>2
  <2> QED
    BY <1>1, <1>2, <2>1, <2>2
<1>4. ASSUME NEW i \in 1..Len(v)
      PROVE  v[i] = w[Len(c) + i]
  <2>1. n + i \in 1..Len(l) /\ i \in 1..(Len(l) - n) /\ Len(c) + i = Len(b) + (n + i)
    BY <1>1, <1>2
  <2>2. v[i] = l[n + i] /\ l[n + i] = w[Len(b) + (n + i)]
    BY <1>1, <2>1 DEF Left
  <2> QED
    BY <2>1, <2>2
<1>5. Left(c, v, gone, w)
  <2>1. /\ Len(b) + Len(l) <= Len(w)
        /\ ~gone => Len(b) + Len(l) = Len(w)
    BY Zenon DEF Left
  <2>2. Len(c) + Len(v) = Len(b) + Len(l)
    BY <1>1, <1>2
  <2> QED
    BY <1>3, <1>4, <2>1, <2>2, Zenon DEF Left
<1> QED
  BY <1>1, <1>2, <1>5 DEF c, u, v

LEMMA LeftGoes ==
  ASSUME NEW b \in Seq(Tokens), NEW l \in Seq(Tokens), NEW w \in Seq(Tokens),
         Left(b, l, FALSE, w), NEW n \in 0..Len(l)
  PROVE  Upto(l, n) \in Seq(Tokens) /\ Left(b, Upto(l, n), n < Len(l), w)
<1> DEFINE u == Upto(l, n)
<1>1. /\ Len(b) \in Nat /\ Len(l) \in Nat /\ Len(w) \in Nat /\ n \in Nat /\ n <= Len(l)
      /\ u \in Seq(Tokens) /\ Len(u) = n /\ \A i \in 1..n : u[i] = l[i]
  BY CutIs, LenProperties
<1> HIDE DEF u
<1>2. \A i \in 1..n : i \in 1..Len(l)
  BY <1>1
<1>3. /\ Len(b) + Len(u) <= Len(w)
      /\ \A i \in 1..Len(b) : b[i] = w[i]
      /\ \A i \in 1..Len(u) : u[i] = w[Len(b) + i]
      /\ ~(n < Len(l)) => Len(b) + Len(u) = Len(w)
  <2>1. /\ Len(b) + Len(l) = Len(w)
        /\ \A i \in 1..Len(b) : b[i] = w[i]
        /\ \A i \in 1..Len(l) : l[i] = w[Len(b) + i]
    BY Zenon DEF Left
  <2>2. \A i \in 1..n : u[i] = w[Len(b) + i]
    BY <1>1, <1>2, <2>1, Zenon
  <2>3. Len(b) + n <= Len(w) /\ (~(n < Len(l)) => n = Len(l))
    BY <1>1, <2>1
  <2>4. Len(u) = n
    BY <1>1
  <2> QED
    BY <2>1, <2>2, <2>3, <2>4, Zenon
<1>4. Left(b, u, n < Len(l), w)
  BY <1>3, Zenon DEF Left
<1> QED
  BY <1>1, <1>4 DEF u

\* The bytes of a are used.
LEMMA LeftUsed ==
  ASSUME NEW b \in Seq(Tokens), NEW l \in Seq(Tokens), NEW a \in Seq(Tokens), NEW w \in Seq(Tokens),
         NEW gone, Left(b, l, gone, a \o w), Len(b) >= Len(a)
  PROVE  After(b, Len(a)) \in Seq(Tokens) /\ Left(After(b, Len(a)), l, gone, w)
<1> DEFINE n == Len(a)
           v == After(b, n)
           x == a \o w
<1>1. /\ Len(b) \in Nat /\ Len(l) \in Nat /\ Len(w) \in Nat /\ n \in Nat
      /\ x \in Seq(Tokens) /\ Len(x) = n + Len(w) /\ \A i \in 1..Len(w) : x[n + i] = w[i]
  BY ConcatIs, LenProperties
<1>2. /\ v \in Seq(Tokens) /\ Len(v) = Len(b) - n
      /\ \A i \in 1..(Len(b) - n) : v[i] = b[n + i]
  <2>1. n \in 0..Len(b)
    BY <1>1
  <2> QED
    BY <2>1, CutIs
<1>3. /\ Len(b) + Len(l) <= Len(x)
      /\ \A i \in 1..Len(b) : b[i] = x[i]
      /\ \A i \in 1..Len(l) : l[i] = x[Len(b) + i]
      /\ ~gone => Len(b) + Len(l) = Len(x)
  BY DEF Left
<1> HIDE DEF v, x, n
<1>4. Len(b) >= n
  BY DEF n
<1>5. ASSUME NEW i \in 1..Len(v)
      PROVE  v[i] = w[i]
  <2>1. i \in 1..(Len(b) - n) /\ n + i \in 1..Len(b) /\ i \in 1..Len(w)
    BY <1>1, <1>2, <1>3, <1>4
  <2> QED
    BY <1>1, <1>2, <1>3, <2>1
<1>6. ASSUME NEW i \in 1..Len(l)
      PROVE  l[i] = w[Len(v) + i]
  <2>1. Len(v) + i \in 1..Len(w) /\ n + (Len(v) + i) = Len(b) + i
    BY <1>1, <1>2, <1>3, <1>4
  <2>2. l[i] = x[Len(b) + i] /\ x[n + (Len(v) + i)] = w[Len(v) + i]
    BY <1>1, <1>3, <2>1
  <2> QED
    BY <2>1, <2>2
<1>7. Left(v, l, gone, w)
  BY <1>1, <1>2, <1>3, <1>5, <1>6 DEF Left
<1> QED
  BY <1>2, <1>7 DEF v, n

\* A text that follows the first byte is found there.
LEMMA FindSecond ==
  ASSUME NEW text \in Seq(Tokens), Len(text) >= 1, NEW b \in Seq(Tokens),
         b # <<>> => b[1] # text[1],
         Len(b) >= Len(text) + 1 => \A j \in 1..Len(text) : b[1 + j] = text[j],
         Find(text, b) # 0
  PROVE  Find(text, b) = 2 /\ Len(b) >= Len(text) + 1
<1>1. Len(text) \in Nat /\ Len(b) \in Nat /\ (Len(b) # 0 => b # <<>>)
  BY LenProperties
<1> DEFINE f == Find(text, b)
<1>2. f \in Nat /\ Occurs(text, b, f) /\ \A i : Occurs(text, b, i) => f <= i
  BY FindIs
<1> HIDE DEF f
<1>3. f \in 1..(Len(b) - Len(text) + 1) /\ \A j \in 1..Len(text) : b[f + j - 1] = text[j]
  BY <1>2 DEF Occurs
<1>4. f # 1
  <2> SUFFICES ASSUME f = 1 PROVE FALSE
    OBVIOUS
  <2>1. 1 \in 1..Len(text) /\ f + 1 - 1 = 1 /\ b # <<>>
    BY <1>1, <1>3
  <2>2. b[f + 1 - 1] = text[1]
    BY <1>3, <2>1
  <2> QED
    BY <2>1, <2>2
<1>5. Len(b) >= Len(text) + 1 /\ 2 <= f
  BY <1>1, <1>3, <1>4
<1>6. Occurs(text, b, 2)
  <2>1. 2 \in 1..(Len(b) - Len(text) + 1) /\ \A j \in 1..Len(text) : 2 + j - 1 = 1 + j
    BY <1>1, <1>5
  <2> QED
    BY <1>5, <2>1 DEF Occurs
<1>7. f <= 2
  BY <1>2, <1>6
<1> QED
  BY <1>2, <1>5, <1>7 DEF f

LEMMA HeadIs ==
  ASSUME NEW n \in Nat
  PROVE  /\ HeadOf(n) \in Seq(Tokens) /\ Len(HeadOf(n)) = 5
         /\ HeadOf(n)[1] = Line(n) /\ HeadOf(n)[2] = CR /\ HeadOf(n)[3] = LF
         /\ HeadOf(n)[4] = CR /\ HeadOf(n)[5] = LF
<1> DEFINE a == <<Line(n)>>
           b == a \o CRLF
           c == b \o CRLF
<1>1. a \in Seq(Tokens) /\ Len(a) = 1 /\ a[1] = Line(n)
  BY TokenIs, OneIs
<1> HIDE DEF a
<1>2. /\ b \in Seq(Tokens) /\ Len(b) = Len(a) + 2 /\ b[Len(a) + 1] = CR /\ b[Len(a) + 2] = LF
      /\ \A i \in 1..Len(a) : b[i] = a[i]
  BY <1>1, JoinIs
<1> HIDE DEF b
<1>3. b[1] = Line(n) /\ b[2] = CR /\ b[3] = LF /\ Len(b) = 3
  <2>1. b[1] = a[1]
    BY <1>1, <1>2
  <2> QED
    BY <1>1, <1>2, <2>1
<1>4. /\ c \in Seq(Tokens) /\ Len(c) = Len(b) + 2 /\ c[Len(b) + 1] = CR /\ c[Len(b) + 2] = LF
      /\ \A i \in 1..Len(b) : c[i] = b[i]
  BY <1>2, <1>3, JoinIs
<1> HIDE DEF c
<1>5. c[1] = b[1] /\ c[2] = b[2] /\ c[3] = b[3]
  BY <1>3, <1>4
<1>6. HeadOf(n) = c
  BY DEF HeadOf, a, b, c
<1> QED
  BY <1>3, <1>4, <1>5, <1>6

LEMMA BlankIs ==
  /\ CRLF \o CRLF \in Seq(Tokens) /\ Len(CRLF \o CRLF) = 4
  /\ (CRLF \o CRLF)[1] = CR /\ (CRLF \o CRLF)[2] = LF /\ (CRLF \o CRLF)[3] = CR /\ (CRLF \o CRLF)[4] = LF
<1> DEFINE c == CRLF \o CRLF
<1>1. CRLF \in Seq(Tokens) /\ Len(CRLF) = 2 /\ CRLF[1] = CR /\ CRLF[2] = LF
  BY CRLFIs
<1>2. /\ c \in Seq(Tokens) /\ Len(c) = Len(CRLF) + 2 /\ c[Len(CRLF) + 1] = CR /\ c[Len(CRLF) + 2] = LF
      /\ \A i \in 1..Len(CRLF) : c[i] = CRLF[i]
  BY <1>1, JoinIs
<1> HIDE DEF c
<1>3. c[1] = CRLF[1] /\ c[2] = CRLF[2]
  BY <1>1, <1>2
<1>4. /\ c \in Seq(Tokens) /\ Len(c) = 4
      /\ c[1] = CR /\ c[2] = LF /\ c[3] = CR /\ c[4] = LF
  BY <1>1, <1>2, <1>3
<1> QED
  BY <1>4 DEF c

BodyBytes(a) == IF a.framing = "chunked" THEN Chunked(0, a) ELSE Units(0, Total(a))
\* An answer without an interim one.
Whole(a)     == HeadOf(a.status) \o BodyBytes(a)

LEMMA AnswerIs ==
  ASSUME NEW a \in Answers
  PROVE  /\ a # None /\ a.status \in {200, 204, 403} /\ a.chunks \in Seq(Nat \ {0})
         /\ a.interim \in BOOLEAN /\ a.framing \in Framings /\ Total(a) \in Nat
         /\ BodyBytes(a) \in Seq(Tokens) /\ Whole(a) \in Seq(Tokens) /\ Bytes(a) \in Seq(Tokens)
         /\ Bytes(a) = IF a.interim THEN HeadOf(Interim) \o Whole(a) ELSE Whole(a)
<1>1. /\ a # None /\ a.status \in {200, 204, 403} /\ a.chunks \in Seq(Nat \ {0})
      /\ a.interim \in BOOLEAN /\ a.framing \in Framings
  BY AnswersAssumption
<1>2. Len(a.chunks) \in 0..Len(a.chunks)
  BY <1>1, LenProperties
<1>3. Total(a) \in Nat
  BY <1>1, <1>2, SumsIs DEF Total
<1>4. BodyBytes(a) \in Seq(Tokens)
  <2>1. Chunked(0, a) \in Seq(Tokens)
    <3> DEFINE c == a.chunks
    <3>1. c \in Seq(Nat \ {0}) /\ Len(c) \in 0..Len(c) /\ 0 \in Nat
      BY <1>1, <1>2
    <3> HIDE DEF c
    <3>2. \A n \in 0..Len(c) : Framed(0, c)[n] \in Seq(Tokens)
      BY <3>1, FramedIs
    <3>3. Framed(0, c)[Len(c)] \in Seq(Tokens)
      BY <3>1, <3>2
    <3> QED
      BY <3>3 DEF Chunked, c
  <2>2. Units(0, Total(a)) \in Seq(Tokens)
    BY <1>3, UnitsIs
  <2> QED
    BY <2>1, <2>2, Zenon DEF BodyBytes
<1>5. HeadOf(a.status) \in Seq(Tokens) /\ HeadOf(Interim) \in Seq(Tokens)
  BY <1>1, HeadIs DEF Interim
<1>6. Whole(a) \in Seq(Tokens)
  BY <1>4, <1>5, ConcatIs DEF Whole
<1>7. CASE a.interim
  <2>1. Bytes(a) = (HeadOf(Interim) \o HeadOf(a.status)) \o BodyBytes(a)
    BY <1>7, Zenon DEF Bytes, BodyBytes
  <2>2. Bytes(a) = HeadOf(Interim) \o Whole(a)
    BY <1>4, <1>5, <2>1, ConcatThree, Zenon DEF Whole
  <2> QED
    BY <1>1, <1>3, <1>4, <1>5, <1>6, <1>7, <2>2, ConcatIs
<1>8. CASE ~a.interim
  <2>1. Bytes(a) = (<<>> \o HeadOf(a.status)) \o BodyBytes(a)
    BY <1>8, Zenon DEF Bytes, BodyBytes
  <2>2. <<>> \o HeadOf(a.status) = HeadOf(a.status)
    BY <1>5, ConcatEmptySeq
  <2>3. Bytes(a) = Whole(a)
    BY <2>1, <2>2 DEF Whole
  <2> QED
    BY <1>1, <1>3, <1>4, <1>6, <1>8, <2>3
<1> QED
  BY <1>7, <1>8

\* What ReadResponseHead finds, and what is left behind it.
LEMMA HeadFound ==
  ASSUME NEW b \in Seq(Tokens), NEW l \in Seq(Tokens), NEW n \in Nat, NEW w \in Seq(Tokens),
         NEW gone, Left(b, l, gone, HeadOf(n) \o w), Find(CRLF \o CRLF, b) # 0
  PROVE  /\ Find(CRLF \o CRLF, b) = 2 /\ b[1].n = n
         /\ After(b, 5) \in Seq(Tokens) /\ Left(After(b, 5), l, gone, w)
<1> DEFINE x == HeadOf(n) \o w
<1>1. /\ Len(b) \in Nat /\ HeadOf(n) \in Seq(Tokens) /\ Len(HeadOf(n)) = 5
      /\ x[1] = Line(n) /\ x[2] = CR /\ x[3] = LF /\ x[4] = CR /\ x[5] = LF
  <2>1. HeadOf(n) \in Seq(Tokens) /\ Len(HeadOf(n)) = 5 /\ Len(b) \in Nat
    BY HeadIs, LenProperties
  <2>2. \A i \in 1..Len(HeadOf(n)) : x[i] = HeadOf(n)[i]
    BY <2>1, ConcatIs
  <2>3. /\ x[1] = HeadOf(n)[1] /\ x[2] = HeadOf(n)[2] /\ x[3] = HeadOf(n)[3]
        /\ x[4] = HeadOf(n)[4] /\ x[5] = HeadOf(n)[5]
    <3> DEFINE h == HeadOf(n)
    <3>1. Len(h) = 5 /\ \A i \in 1..Len(h) : x[i] = h[i]
      BY <2>1, <2>2
    <3> HIDE DEF h, x
    <3> QED
      BY <3>1 DEF h
  <2> QED
    BY <2>1, <2>3, HeadIs
<1> HIDE DEF x
<1>2. \A i \in 1..Len(b) : b[i] = x[i]
  BY Zenon DEF Left, x
<1>3. b # <<>> => b[1] = Line(n)
  <2>1. b # <<>> => 1 \in 1..Len(b)
    BY <1>1, EmptySeq
  <2> QED
    BY <1>1, <1>2, <2>1
<1>4. Line(n) # CR /\ Line(n).n = n
  BY TokenIs
<1>5. Find(CRLF \o CRLF, b) = 2 /\ Len(b) >= 5
  <2> DEFINE text == CRLF \o CRLF
  <2>1. text \in Seq(Tokens) /\ Len(text) = 4 /\ text[1] = CR /\ text[2] = LF /\ text[3] = CR /\ text[4] = LF
    BY BlankIs
  <2> HIDE DEF text
  <2>2. ASSUME Len(b) >= Len(text) + 1, NEW j \in 1..Len(text)
        PROVE  b[1 + j] = text[j]
    <3>1. j \in {1, 2, 3, 4} /\ 1 + j \in 1..Len(b)
      BY <1>1, <2>1, <2>2
    <3>2. x[1 + j] = text[j]
      BY <1>1, <2>1, <3>1
    <3> QED
      BY <1>2, <3>1, <3>2
  <2>3. b # <<>> => b[1] # text[1]
    BY <1>3, <1>4, <2>1
  <2>4. Len(text) >= 1
    BY <2>1
  <2>5. Find(text, b) # 0
    BY DEF text
  <2>6. Find(text, b) = 2 /\ Len(b) >= Len(text) + 1
    BY <2>1, <2>2, <2>3, <2>4, <2>5, FindSecond
  <2> QED
    BY <2>1, <2>6 DEF text
<1>6. b # <<>>
  BY <1>5
<1>7. After(b, 5) \in Seq(Tokens) /\ Left(After(b, 5), l, gone, w)
  <2>1. Len(b) >= Len(HeadOf(n))
    BY <1>1, <1>5
  <2> QED
    BY <1>1, <2>1, LeftUsed
<1> QED
  BY <1>3, <1>4, <1>5, <1>6, <1>7

\* What ReadChunkedBody finds.
LEMMA SizeFound ==
  ASSUME NEW b \in Seq(Tokens), NEW l \in Seq(Tokens), NEW n \in Nat, NEW x \in Seq(Tokens), NEW gone,
         x[1] = Size(n), x[2] = CR, x[3] = LF, Left(b, l, gone, x), Find(CRLF, b) # 0
  PROVE  Find(CRLF, b) = 2 /\ Len(b) >= 3 /\ SizeIn(Upto(b, 1)) = n
<1>1. \A i \in 1..Len(b) : b[i] = x[i]
  BY Zenon DEF Left
<1>2. Len(b) \in Nat
  BY LenProperties
<1>3. b # <<>> => b[1] = Size(n)
  <2>1. b # <<>> => 1 \in 1..Len(b)
    BY <1>2, EmptySeq
  <2> QED
    BY <1>1, <2>1
<1>4. CRLF \in Seq(Tokens) /\ Len(CRLF) = 2 /\ CRLF[1] = CR /\ CRLF[2] = LF /\ Len(CRLF) >= 1
  BY CRLFIs
<1>5. Size(n) # CR /\ Size(n).kind = "size" /\ Size(n).n = n
  BY TokenIs
<1>6. Find(CRLF, b) = 2 /\ Len(b) >= Len(CRLF) + 1
  <2>1. ASSUME Len(b) >= Len(CRLF) + 1, NEW j \in 1..Len(CRLF)
        PROVE  b[1 + j] = CRLF[j]
    <3>1. j \in {1, 2} /\ 1 + j \in 1..Len(b)
      BY <1>2, <1>4, <2>1
    <3> QED
      BY <1>1, <1>4, <3>1
  <2>2. b # <<>> => b[1] # CRLF[1]
    BY <1>3, <1>4, <1>5
  <2> QED
    BY <1>4, <2>1, <2>2, FindSecond
<1>7. Len(b) >= 3 /\ b # <<>>
  BY <1>4, <1>6
<1>8. SizeIn(Upto(b, 1)) = n
  <2>1. 1 \in 0..Len(b) /\ 1 \in 1..1
    BY <1>2, <1>7
  <2>2. Len(Upto(b, 1)) = 1 /\ Upto(b, 1)[1] = b[1]
    BY <2>1, CutIs
  <2>3. Upto(b, 1) # <<>>
    BY <2>2
  <2> QED
    BY <1>3, <1>5, <1>7, <2>2, <2>3 DEF SizeIn
<1> QED
  BY <1>6, <1>7, <1>8

\* The number before the last k chunks.
SizeAt(c, k) == IF k = 0 THEN 0 ELSE c[Len(c) - k + 1]

LEMMA ChunkNext ==
  ASSUME NEW c \in Seq(Nat \ {0}), NEW k \in 1..Len(c)
  PROVE  /\ Len(c) \in Nat /\ k - 1 \in 0..Len(c) /\ SizeAt(c, k) \in Nat \ {0}
         /\ Chunk(0, SizeAt(c, k)) \in Seq(Tokens) /\ Len(Chunk(0, SizeAt(c, k))) = SizeAt(c, k) + 5
         /\ Framed(0, c)[k - 1] \in Seq(Tokens) /\ Framed(0, c)[k] \in Seq(Tokens)
         /\ Framed(0, c)[k] = Chunk(0, SizeAt(c, k)) \o Framed(0, c)[k - 1]
         /\ Sums(c)[Len(c) - (k - 1)] = Sums(c)[Len(c) - k] + SizeAt(c, k)
         /\ Sums(c)[Len(c) - k] \in Nat
<1>1. /\ Len(c) \in Nat /\ k - 1 \in 0..Len(c) /\ k \in 0..Len(c) /\ Len(c) - k \in 0..Len(c)
      /\ Len(c) - k + 1 \in 1..Len(c) /\ k # 0 /\ Len(c) - (k - 1) = Len(c) - k + 1
      /\ Len(c) - (k - 1) - 1 = Len(c) - k
  BY LenProperties
<1>2. SizeAt(c, k) = c[Len(c) - k + 1]
  BY <1>1 DEF SizeAt
<1>3. SizeAt(c, k) \in Nat \ {0}
  BY <1>1, <1>2, ElementOfSeq
<1>4. Chunk(0, SizeAt(c, k)) \in Seq(Tokens) /\ Len(Chunk(0, SizeAt(c, k))) = SizeAt(c, k) + 5
  BY <1>3, ChunkIs
<1>5. /\ Framed(0, c)[k - 1] \in Seq(Tokens) /\ Framed(0, c)[k] \in Seq(Tokens)
      /\ Framed(0, c)[k] = Chunk(0, SizeAt(c, k)) \o Framed(0, c)[k - 1]
  BY <1>1, <1>2, FramedIs
<1>6. /\ Sums(c)[Len(c) - k + 1] = Sums(c)[Len(c) - k + 1 - 1] + c[Len(c) - k + 1]
      /\ Sums(c)[Len(c) - k] \in Nat
  <2> DEFINE m == Len(c) - k + 1
             g == Sums(c)
  <2>1. m \in 1..Len(c) /\ m - 1 = Len(c) - k /\ m - 1 \in 0..Len(c)
    BY <1>1
  <2>2. g \in [0..Len(c) -> Nat] /\ \A i \in 1..Len(c) : g[i] = g[i - 1] + c[i]
    BY SumsIs
  <2> HIDE DEF m, g
  <2>3. g[m] = g[m - 1] + c[m] /\ g[m - 1] \in Nat
    BY <2>1, <2>2
  <2>4. g[Len(c) - k] \in Nat
    BY <2>1, <2>3
  <2> QED
    BY <2>3, <2>4 DEF m, g
<1>7. Sums(c)[Len(c) - (k - 1)] = Sums(c)[Len(c) - k] + SizeAt(c, k)
  BY <1>1, <1>2, <1>6
<1> QED
  BY <1>1, <1>3, <1>4, <1>5, <1>6, <1>7

LEMMA FramedEnd ==
  ASSUME NEW c \in Seq(Nat \ {0})
  PROVE  LET x == Framed(0, c)[0] IN
         /\ x \in Seq(Tokens) /\ Len(x) = 5 /\ x[1] = Size(0) /\ x[2] = CR /\ x[3] = LF
         /\ \A i \in 1..5 : x[i].kind # "data"
<1> DEFINE s == <<Size(0)>>
           a == s \o CRLF
           x == a \o CRLF
<1>1. s \in Seq(Tokens) /\ Len(s) = 1 /\ s[1] = Size(0)
  BY TokenIs, OneIs
<1> HIDE DEF s
<1>2. /\ a \in Seq(Tokens) /\ Len(a) = Len(s) + 2 /\ a[Len(s) + 1] = CR /\ a[Len(s) + 2] = LF
      /\ \A i \in 1..Len(s) : a[i] = s[i]
  BY <1>1, JoinIs
<1> HIDE DEF a
<1>3. a[1] = Size(0) /\ a[2] = CR /\ a[3] = LF /\ Len(a) = 3
  BY <1>1, <1>2
<1>4. /\ x \in Seq(Tokens) /\ Len(x) = Len(a) + 2 /\ x[Len(a) + 1] = CR /\ x[Len(a) + 2] = LF
      /\ \A i \in 1..Len(a) : x[i] = a[i]
  BY <1>2, JoinIs
<1> HIDE DEF x
<1>5. /\ x \in Seq(Tokens) /\ Len(x) = 5
      /\ x[1] = Size(0) /\ x[2] = CR /\ x[3] = LF /\ x[4] = CR /\ x[5] = LF
  BY <1>3, <1>4
<1>6. Size(0).kind = "size" /\ CR.kind = "cr" /\ LF.kind = "lf"
  BY TokenIs
<1>7. \A i \in 1..5 : x[i].kind # "data"
  BY <1>5, <1>6
<1>8. Framed(0, c)[0] = x
  BY FramedIs DEF s, a, x
<1> QED
  BY <1>5, <1>7, <1>8

LEMMA SizeFront ==
  ASSUME NEW c \in Seq(Nat \ {0}), NEW k \in 0..Len(c)
  PROVE  /\ SizeAt(c, k) \in Nat /\ Framed(0, c)[k] \in Seq(Tokens)
         /\ Framed(0, c)[k][1] = Size(SizeAt(c, k))
         /\ Framed(0, c)[k][2] = CR /\ Framed(0, c)[k][3] = LF
<1>1. CASE k = 0
  BY <1>1, FramedEnd DEF SizeAt
<1>2. CASE k # 0
  <2>1. k \in 1..Len(c)
    BY <1>2
  <2> DEFINE n == SizeAt(c, k)
             a == Chunk(0, n)
             w == Framed(0, c)[k - 1]
  <2>2. /\ n \in Nat /\ a \in Seq(Tokens) /\ Len(a) = n + 5 /\ w \in Seq(Tokens)
        /\ Framed(0, c)[k] \in Seq(Tokens) /\ Framed(0, c)[k] = a \o w
    BY <2>1, ChunkNext
  <2>3. a[1] = Size(n) /\ a[2] = CR /\ a[3] = LF
    BY <2>2, ChunkIs
  <2> HIDE DEF n, a, w
  <2>4. \A i \in 1..Len(a) : (a \o w)[i] = a[i]
    BY <2>2, ConcatIs
  <2>5. 1 \in 1..Len(a) /\ 2 \in 1..Len(a) /\ 3 \in 1..Len(a)
    BY <2>2
  <2>6. (a \o w)[1] = a[1] /\ (a \o w)[2] = a[2] /\ (a \o w)[3] = a[3]
    BY <2>4, <2>5, Zenon
  <2> QED
    BY <2>2, <2>3, <2>6 DEF n
<1> QED
  BY <1>1, <1>2

\* A chunk that has come as a whole is used (ReadChunkedBody).
LEMMA ChunkUsed ==
  ASSUME NEW c \in Seq(Nat \ {0}), NEW k \in 1..Len(c), NEW b \in Seq(Tokens), NEW l \in Seq(Tokens),
         NEW gone, Left(b, l, gone, Framed(0, c)[k]), Len(b) >= SizeAt(c, k) + 5
  PROVE  /\ After(b, SizeAt(c, k) + 5) \in Seq(Tokens)
         /\ Left(After(b, SizeAt(c, k) + 5), l, gone, Framed(0, c)[k - 1])
         /\ Upto(b, SizeAt(c, k) + 5) = Chunk(0, SizeAt(c, k))
<1> DEFINE n == SizeAt(c, k)
           a == Chunk(0, n)
           w == Framed(0, c)[k - 1]
<1>1. /\ n \in Nat /\ a \in Seq(Tokens) /\ Len(a) = n + 5 /\ w \in Seq(Tokens)
      /\ Framed(0, c)[k] = a \o w /\ Len(b) \in Nat
  BY ChunkNext, LenProperties
<1>2. Left(b, l, gone, a \o w) /\ Len(b) >= n + 5
  BY <1>1
<1> HIDE DEF n, a, w
<1>3. After(b, Len(a)) \in Seq(Tokens) /\ Left(After(b, Len(a)), l, gone, w)
  <2>1. Len(b) >= Len(a)
    BY <1>1, <1>2
  <2> QED
    BY <1>1, <1>2, <2>1, LeftUsed
<1>4. Upto(b, n + 5) = a
  <2> DEFINE u == Upto(b, n + 5)
  <2>1. u \in Seq(Tokens) /\ Len(u) = n + 5 /\ \A i \in 1..(n + 5) : u[i] = b[i]
    <3>1. n + 5 \in 0..Len(b)
      BY <1>1, <1>2
    <3> QED
      BY <3>1, CutIs
  <2> HIDE DEF u
  <2>2. \A i \in 1..Len(a) : (a \o w)[i] = a[i]
    BY <1>1, ConcatIs
  <2>3. \A i \in 1..Len(b) : b[i] = (a \o w)[i]
    BY <1>2, Zenon DEF Left
  <2>4. ASSUME NEW i \in 1..Len(u)
        PROVE  u[i] = a[i]
    <3>1. i \in 1..(n + 5) /\ i \in 1..Len(a) /\ i \in 1..Len(b)
      BY <1>1, <1>2, <2>1
    <3> QED
      BY <2>1, <2>2, <2>3, <3>1
  <2>5. u = a
    BY <1>1, <2>1, <2>4, SeqEqual
  <2> QED
    BY <2>5 DEF u
<1> QED
  BY <1>1, <1>3, <1>4 DEF n, a, w

HasEnd(b) == \E j \in 1..Len(b) : b[j] = Size(0)

\* When the last size line has come, all the data have.
LEMMA AllCome ==
  ASSUME NEW c \in Seq(Nat \ {0}), NEW b \in Seq(Tokens),
         Left(b, <<>>, TRUE, Framed(0, c)[Len(c)]), HasEnd(b)
  PROVE  Bodies(b) = Sums(c)[Len(c)]
<1> DEFINE N == Len(c)
           Come(d, k) == Left(d, <<>>, TRUE, Framed(0, c)[k]) /\ HasEnd(d)
           S == {k \in Nat : k <= N => \A d \in Seq(Tokens) :
                   Come(d, k) => Bodies(d) = Sums(c)[N] - Sums(c)[N - k]}
<1>1. N \in Nat /\ Sums(c)[N] \in Nat /\ Sums(c)[0] = 0
  <2>1. N \in Nat
    BY LenProperties
  <2>2. N \in 0..N
    BY <2>1
  <2> QED
    BY <2>1, <2>2, SumsIs
<1>2. 0 \in S
  <2> SUFFICES ASSUME NEW d \in Seq(Tokens), Come(d, 0)
               PROVE  Bodies(d) = Sums(c)[N] - Sums(c)[N - 0]
    OBVIOUS
  <2> DEFINE x == Framed(0, c)[0]
  <2>1. Len(x) = 5 /\ \A i \in 1..5 : x[i].kind # "data"
    BY FramedEnd
  <2>2. Len(d) + Len(<<>>) <= Len(x) /\ \A i \in 1..Len(d) : d[i] = x[i]
    BY Zenon DEF Left
  <2> HIDE DEF x
  <2>3. Len(d) \in Nat /\ Len(d) <= 5
    BY <2>1, <2>2, LenProperties
  <2>4. \A i \in 1..Len(d) : d[i].kind # "data"
    BY <2>1, <2>2, <2>3
  <2>5. Bodies(d) = 0
    BY <2>4, NoData
  <2>6. N - 0 = N
    BY <1>1
  <2> QED
    BY <1>1, <2>5, <2>6
<1>3. ASSUME NEW m \in S
      PROVE  m + 1 \in S
  <2> DEFINE k == m + 1
             n == SizeAt(c, k)
             a == Chunk(0, n)
  <2>0. m \in Nat /\ k \in Nat
    OBVIOUS
  <2> SUFFICES ASSUME k <= N, NEW d \in Seq(Tokens), Come(d, k)
               PROVE  Bodies(d) = Sums(c)[N] - Sums(c)[N - k]
    <3> HIDE DEF Come, N, k
    <3>1. k <= N => \A d \in Seq(Tokens) : Come(d, k) => Bodies(d) = Sums(c)[N] - Sums(c)[N - k]
      OBVIOUS
    <3>2. k \in S
      BY <2>0, <3>1
    <3> QED
      BY <3>2 DEF k
  <2>1. k \in 1..N /\ k - 1 = m /\ m \in Nat /\ m <= N
    BY <1>1
  <2>2. /\ n \in Nat \ {0} /\ a \in Seq(Tokens) /\ Len(a) = n + 5 /\ Framed(0, c)[m] \in Seq(Tokens)
        /\ Framed(0, c)[k] = a \o Framed(0, c)[m]
        /\ Sums(c)[N - m] = Sums(c)[N - k] + n /\ Sums(c)[N - k] \in Nat
    BY <2>1, ChunkNext
  <2>3. /\ Len(d) + Len(<<>>) <= Len(Framed(0, c)[k])
        /\ \A i \in 1..Len(d) : d[i] = Framed(0, c)[k][i]
    BY Zenon DEF Left
  <2>4. PICK j \in 1..Len(d) : d[j] = Size(0)
    BY DEF HasEnd
  <2>5. Len(d) \in Nat /\ j \in Nat /\ j >= 1 /\ j <= Len(d)
    BY <2>4, LenProperties
  <2>6. j > n + 5
    <3> SUFFICES ASSUME j <= n + 5 PROVE FALSE
      BY <2>2, <2>5
    <3>1. j \in 1..Len(a)
      BY <2>2, <2>5
    <3>2. a[j] = Size(0)
      <4>1. (a \o Framed(0, c)[m])[j] = a[j]
        BY <2>2, <3>1, ConcatIs
      <4> QED
        BY <2>2, <2>3, <2>4, <4>1
    <3>3. /\ a[1] = Size(n) /\ a[2] = CR /\ a[3] = LF /\ a[n + 4] = CR /\ a[n + 5] = LF
          /\ \A i \in 1..n : a[3 + i] = Data(0)
      BY <2>2, ChunkIs
    <3>4. n \in Nat \ {0}
      BY <2>2
    <3> HIDE DEF n
    <3>5. Size(n) # Size(0) /\ CR # Size(0) /\ LF # Size(0) /\ Data(0) # Size(0)
      <4>1. Size(n).n = n /\ Size(0).n = 0 /\ Size(0).kind = "size"
        BY <3>4, TokenIs
      <4>2. CR.kind = "cr" /\ LF.kind = "lf" /\ Data(0).kind = "data"
        BY TokenIs
      <4> QED
        BY <3>4, <4>1, <4>2
    <3>6. \/ j = 1 \/ j = 2 \/ j = 3 \/ j = n + 4 \/ j = n + 5
          \/ j - 3 \in 1..n /\ j = 3 + (j - 3)
      BY <2>5, <3>4
    <3> HIDE DEF k, a
    <3> QED
      BY <3>2, <3>3, <3>5, <3>6
  <2> DEFINE v == After(d, n + 5)
             u == Upto(d, n + 5)
  <2>7. v \in Seq(Tokens) /\ Left(v, <<>>, TRUE, Framed(0, c)[m]) /\ u = a
    <3>1. Len(d) >= n + 5 /\ <<>> \in Seq(Tokens)
      BY <2>2, <2>5, <2>6
    <3>2. Left(d, <<>>, TRUE, Framed(0, c)[k])
      OBVIOUS
    <3> HIDE DEF k
    <3> QED
      BY <2>1, <3>1, <3>2, ChunkUsed
  <2>8. Len(v) = Len(d) - (n + 5) /\ (\A i \in 1..(Len(d) - (n + 5)) : v[i] = d[n + 5 + i]) /\ u \o v = d
    <3>1. n + 5 \in 0..Len(d)
      BY <2>2, <2>5, <2>6
    <3> HIDE DEF n
    <3> QED
      BY <3>1, CutIs
  <2>9. HasEnd(v)
    <3>0. n \in Nat
      BY <2>2
    <3> HIDE DEF n, v
    <3>1. j - (n + 5) \in 1..(Len(d) - (n + 5)) /\ n + 5 + (j - (n + 5)) = j
      BY <2>5, <2>6, <3>0
    <3>2. v[j - (n + 5)] = Size(0) /\ j - (n + 5) \in 1..Len(v)
      BY <2>4, <2>8, <3>1
    <3> QED
      BY <3>2 DEF HasEnd
  <2>10. Bodies(v) = Sums(c)[N] - Sums(c)[N - m]
    BY <2>1, <2>7, <2>9
  <2>11. Bodies(d) = Bodies(u) + Bodies(v)
    <3>1. u \in Seq(Tokens)
      BY <2>2, <2>7
    <3> HIDE DEF u, v
    <3> QED
      BY <2>7, <2>8, <3>1, CountConcat
  <2>12. Bodies(u) = n
    <3>1. Bodies(a) = n
      BY <2>2, CountChunk
    <3> QED
      BY <2>7, <3>1
  <2> HIDE DEF u, v, n, k, N
  <2> QED
    BY <1>1, <2>2, <2>10, <2>11, <2>12
<1>4. S = Nat
  <2> HIDE DEF S
  <2>1. S \in SUBSET Nat
    BY DEF S
  <2> QED
    BY <1>2, <1>3, <2>1, NatSet
<1>5. N \in S
  BY <1>1, <1>4
<1>6. Bodies(b) = Sums(c)[N] - Sums(c)[N - N]
  <2>1. Come(b, N)
    OBVIOUS
  <2>2. N <= N
    BY <1>1
  <2> HIDE DEF Come, N
  <2>3. N <= N => \A d \in Seq(Tokens) : Come(d, N) => Bodies(d) = Sums(c)[N] - Sums(c)[N - N]
    BY <1>5
  <2> QED
    BY <2>1, <2>2, <2>3
<1>7. N - N = 0
  BY <1>1
<1> QED
  BY <1>1, <1>6, <1>7

LEMMA UnitsCome ==
  ASSUME NEW n \in Nat, NEW b \in Seq(Tokens), NEW l \in Seq(Tokens), NEW gone, Left(b, l, gone, Units(0, n))
  PROVE  /\ Bodies(b) = Len(b) /\ Len(b) + Len(l) <= n
         /\ ~gone => Len(b) + Len(l) = n
<1>1. Len(Units(0, n)) = n /\ \A i \in 1..n : Units(0, n)[i].kind = "data"
  <2>1. Len(Units(0, n)) = n /\ \A i \in 1..n : Units(0, n)[i] = Data(0)
    BY UnitsIs
  <2>2. Data(0).kind = "data"
    BY TokenIs
  <2> QED
    BY <2>1, <2>2, Zenon
<1>2. /\ Len(b) + Len(l) <= Len(Units(0, n))
      /\ \A i \in 1..Len(b) : b[i] = Units(0, n)[i]
      /\ ~gone => Len(b) + Len(l) = Len(Units(0, n))
  BY Zenon DEF Left
<1>3. Len(b) \in Nat /\ Len(l) \in Nat
  BY LenProperties
<1>4. \A i \in 1..Len(b) : b[i].kind = "data"
  BY <1>1, <1>2, <1>3
<1>5. Bodies(b) = Len(b)
  BY <1>4, AllData
<1> QED
  BY <1>1, <1>2, <1>5, Zenon

\* Nothing is found before anything has come.
LEMMA NothingFound == Find(CRLF \o CRLF, <<>>) = 0
<1> DEFINE text == CRLF \o CRLF
<1>1. text \in Seq(Tokens) /\ Len(text) = 4
  BY BlankIs
<1> HIDE DEF text
<1>2. <<>> \in Seq(Tokens) /\ Len(<<>>) = 0 /\ Len(text) >= 1 /\ ~(0 >= Len(text) + 1)
  BY <1>1
<1>3. Find(text, <<>>) = 0
  BY <1>1, <1>2, FindSecond
<1> QED
  BY <1>3 DEF text

-----------------------------------------------------------------------------
(* What a call returns                                                      *)

Ahead(w) == Left(buffer, line, lost, w)
Fresh    == status = 0 /\ body = 0

Unanswered ==
  /\ buffer = <<>> /\ line = <<>> /\ Fresh
  /\ phase \in {"connect", "request", "file", "told", "blocked", "answer", "failed"}

\* The client may have used an interim answer.
AtHead == Fresh /\ (Ahead(Bytes(given)) \/ (phase = "answer" /\ Ahead(Whole(given))))

\* The last k chunks are left.
AtChunk(k) ==
  LET chunks == given.chunks IN
  Ahead(Framed(0, chunks)[k]) /\ body = Sums(chunks)[Len(chunks) - k]

AtBody ==
  /\ call.kind # "download" /\ status = given.status /\ status # 204
  /\ given.framing = "chunked" => \E k \in 0..Len(given.chunks) : AtChunk(k)
  /\ given.framing # "chunked" => Ahead(Units(0, Total(given)))

\* The bytes of a download are counted, not used.
AtFile == call.kind = "download" /\ status = given.status /\ status = 200 /\ Ahead(BodyBytes(given))

AtReason == call.kind = "download" /\ status = given.status /\ status # 200

Answered ==
  /\ phase \notin {"connect", "request"}
  /\ phase \in {"file", "told", "answer"} => AtHead
  /\ phase = "body" => AtBody
  /\ phase = "reading" => AtFile
  /\ phase = "reason" => AtReason

AnswerInv ==
  /\ buffer \in Seq(Tokens) /\ line \in Seq(Tokens) /\ lost \in BOOLEAN
  /\ peer = "open" => lost = FALSE
  /\ given = None => Unanswered
  /\ given # None => given \in Answers /\ Answered
  /\ ResponseExact

LEMMA AnswerInit == Init => AnswerInv
<1> SUFFICES ASSUME Init PROVE AnswerInv
  OBVIOUS
<1>1. /\ phase = "connect" /\ peer = "open" /\ given = None /\ line = <<>> /\ lost = FALSE
      /\ buffer = <<>> /\ status = 0 /\ body = 0
  BY DEF Init
<1>2. <<>> \in Seq(Tokens)
  OBVIOUS
<1>3. Unanswered /\ ResponseExact
  BY <1>1 DEF Unanswered, Fresh, ResponseExact
<1> QED
  BY <1>1, <1>2, <1>3 DEF AnswerInv

\* Steps before the answer is looked at, and the end of a call.
LEMMA Proceeds ==
  ASSUME AnswerInv, UNCHANGED <<remote, response>>, call' = call,
         \/ /\ phase \in {"connect", "request", "file", "told"}
            /\ phase' \in {"request", "file", "told", "answer", "failed"}
            /\ phase' = "request" => phase = "connect"
         \/ phase' = "failed"
         \/ phase \in {"request", "file"} /\ phase' = "blocked"
         \/ phase = "reading" /\ phase' = "spins"
  PROVE  AnswerInv'
<1>1. /\ buffer' = buffer /\ line' = line /\ lost' = lost /\ peer' = peer /\ given' = given
      /\ status' = status /\ body' = body /\ call' = call
  BY DEF remote, response
<1>2. phase' # "ok" /\ phase' # "body" /\ phase' # "reading" /\ phase' # "reason"
  OBVIOUS
<1>3. ResponseExact'
  BY <1>2 DEF ResponseExact
<1>4. CASE given = None
  BY <1>1, <1>3, <1>4 DEF AnswerInv, Unanswered, Fresh
<1>5. CASE given # None
  <2>1. given \in Answers /\ Answered
    BY <1>5 DEF AnswerInv
  <2>2. phase' \notin {"connect", "request"}
    BY <2>1 DEF Answered
  <2>3. phase' \in {"file", "told", "answer"} => AtHead'
    <3> SUFFICES ASSUME phase' \in {"file", "told", "answer"} PROVE AtHead'
      OBVIOUS
    <3>1. phase \in {"file", "told"}
      BY <2>1 DEF Answered
    <3>2. Fresh /\ Ahead(Bytes(given))
      BY <2>1, <3>1 DEF Answered, AtHead
    <3> QED
      BY <1>1, <3>2 DEF AtHead, Fresh, Ahead
  <2> QED
    BY <1>1, <1>2, <1>3, <1>5, <2>1, <2>2, <2>3 DEF AnswerInv, Answered
<1> QED
  BY <1>4, <1>5

\* More of the answer comes, or no more will: whatever is ahead stays ahead.
LEMMA Comes ==
  ASSUME AnswerInv, given # None, phase # "ok", UNCHANGED <<call, phase, given, status, body>>,
         buffer' \in Seq(Tokens), line' \in Seq(Tokens), lost' \in BOOLEAN,
         peer' = "open" => lost' = FALSE,
         \A w \in Seq(Tokens) : Ahead(w) => Left(buffer', line', lost', w)
  PROVE  AnswerInv'
<1>1. given \in Answers /\ Answered
  BY DEF AnswerInv
<1>2. /\ Bytes(given) \in Seq(Tokens) /\ Whole(given) \in Seq(Tokens) /\ BodyBytes(given) \in Seq(Tokens)
      /\ given.chunks \in Seq(Nat \ {0}) /\ Total(given) \in Nat
  BY <1>1, AnswerIs
<1>0. /\ call' = call /\ phase' = phase /\ given' = given /\ status' = status /\ body' = body
  OBVIOUS
<1>3. phase' \in {"file", "told", "answer"} => AtHead'
  <2> SUFFICES ASSUME phase \in {"file", "told", "answer"} PROVE AtHead'
    OBVIOUS
  <2>1. AtHead
    BY <1>1 DEF Answered
  <2>0. Fresh'
    BY <1>0, <2>1 DEF AtHead, Fresh
  <2>2. CASE Ahead(Bytes(given))
    <3>1. Left(buffer', line', lost', Bytes(given))
      BY <1>2, <2>2
    <3>2. Ahead(Bytes(given))'
      BY <1>0, <3>1 DEF Ahead
    <3> QED
      BY <2>0, <3>2 DEF AtHead
  <2>3. CASE phase = "answer" /\ Ahead(Whole(given))
    <3>1. Left(buffer', line', lost', Whole(given))
      BY <1>2, <2>3
    <3>2. Ahead(Whole(given))'
      BY <1>0, <3>1 DEF Ahead
    <3> QED
      BY <1>0, <2>0, <2>3, <3>2 DEF AtHead
  <2> QED
    BY <2>1, <2>2, <2>3 DEF AtHead
<1>4. phase' = "body" => AtBody'
  <2> SUFFICES ASSUME phase = "body" PROVE AtBody'
    OBVIOUS
  <2>1. AtBody
    BY <1>1 DEF Answered
  <2>2. ASSUME given.framing = "chunked"
        PROVE  \E k \in 0..Len(given.chunks) : AtChunk(k)'
    <3>1. PICK k \in 0..Len(given.chunks) : AtChunk(k)
      BY <2>1, <2>2 DEF AtBody
    <3>2. Framed(0, given.chunks)[k] \in Seq(Tokens)
      BY <1>2, <3>1, SizeFront
    <3>3. Left(buffer', line', lost', Framed(0, given.chunks)[k])
      BY <3>1, <3>2 DEF AtChunk
    <3>4. AtChunk(k)'
      BY <3>1, <3>3 DEF AtChunk, Ahead
    <3> QED
      BY <3>4
  <2>3. ASSUME given.framing # "chunked"
        PROVE  Ahead(Units(0, Total(given)))'
    <3>1. Units(0, Total(given)) \in Seq(Tokens) /\ Ahead(Units(0, Total(given)))
      BY <1>2, <2>1, <2>3, UnitsIs DEF AtBody
    <3>2. Left(buffer', line', lost', Units(0, Total(given)))
      BY <3>1
    <3> QED
      BY <3>2 DEF Ahead
  <2> QED
    BY <2>1, <2>2, <2>3 DEF AtBody
<1>5. phase' = "reading" => AtFile'
  <2> SUFFICES ASSUME phase = "reading" PROVE AtFile'
    OBVIOUS
  <2>1. AtFile
    BY <1>1 DEF Answered
  <2>2. Left(buffer', line', lost', BodyBytes(given))
    BY <1>2, <2>1 DEF AtFile
  <2> QED
    BY <2>1, <2>2 DEF AtFile, Ahead
<1>6. phase' = "reason" => AtReason'
  BY <1>1 DEF Answered, AtReason
<1>7. phase' \notin {"connect", "request"}
  BY <1>1 DEF Answered
<1>8. Answered'
  BY <1>3, <1>4, <1>5, <1>6, <1>7 DEF Answered
<1>9. ResponseExact'
  BY DEF ResponseExact
<1> QED
  BY <1>1, <1>8, <1>9 DEF AnswerInv

LEMMA PeerStep ==
  ASSUME AnswerInv, Peer
  PROVE  AnswerInv'
<1>1. ASSUME NEW a \in Answers, PeerAnswers(a)
      PROVE  AnswerInv'
  <2>1. /\ given = None /\ peer = "open" /\ phase \notin {"connect", "request", "blocked", "ok", "failed"}
        /\ given' = a /\ line' = Bytes(a) /\ phase' = phase /\ peer' = peer /\ buffer' = buffer
        /\ status' = status /\ body' = body /\ lost' = lost
    BY <1>1 DEF PeerAnswers, Returned, request, response
  <2>2. Unanswered /\ lost = FALSE
    BY <2>1 DEF AnswerInv
  <2>3. Bytes(a) \in Seq(Tokens) /\ a # None /\ Len(Bytes(a)) \in Nat
    BY AnswerIs, LenProperties
  <2>4. Ahead(Bytes(given))'
    <3>1. Left(<<>>, Bytes(a), FALSE, Bytes(a))
      BY <2>3 DEF Left
    <3> QED
      BY <2>1, <2>2, <3>1 DEF Ahead, Unanswered
  <2>5. AtHead'
    BY <2>1, <2>2, <2>4 DEF AtHead, Unanswered, Fresh
  <2>6. phase' \in {"file", "told", "answer"}
    BY <2>1, <2>2 DEF Unanswered
  <2>7. Answered'
    BY <2>5, <2>6 DEF Answered
  <2>8. ResponseExact'
    BY <2>6 DEF ResponseExact
  <2> QED
    BY <2>1, <2>2, <2>3, <2>7, <2>8 DEF AnswerInv
<1>2. ASSUME NEW how \in {"closed", "broken"}, NEW n \in 0..Len(line), PeerGoes(how, n)
      PROVE  AnswerInv'
  <2>1. /\ peer = "open" /\ phase # "ok" /\ peer' = how /\ line' = Upto(line, n)
        /\ lost' = (given = None \/ n < Len(line)) /\ phase' = phase /\ call' = call /\ given' = given
        /\ buffer' = buffer /\ status' = status /\ body' = body
    BY <1>2 DEF PeerGoes, Returned, request, response
  <2>2. /\ lost = FALSE /\ buffer \in Seq(Tokens) /\ line \in Seq(Tokens) /\ peer' # "open"
        /\ line' \in Seq(Tokens)
    BY <2>1, CutIs DEF AnswerInv
  <2>3. lost' \in BOOLEAN
    BY <2>1
  <2>4. CASE given = None
    <3>1. Unanswered
      BY <2>4 DEF AnswerInv
    <3>2. Len(line') = 0
      <4>0. Len(line) = 0
        BY <3>1 DEF Unanswered
      <4>1. n = 0
        BY <4>0
      <4>2. Len(Upto(line, n)) = n
        BY <2>2, CutIs
      <4> QED
        BY <2>1, <4>1, <4>2
    <3>3. line' = <<>>
      BY <2>2, <3>2, EmptySeq
    <3>4. ResponseExact'
      BY <2>1 DEF ResponseExact
    <3>5. Unanswered'
      BY <2>1, <3>1, <3>3 DEF Unanswered, Fresh
    <3> QED
      BY <2>1, <2>2, <2>3, <2>4, <3>4, <3>5 DEF AnswerInv
  <2>5. CASE given # None
    <3>1. ASSUME NEW w \in Seq(Tokens), Ahead(w)
          PROVE  Left(buffer', line', lost', w)
      <4>1. Left(buffer, line, FALSE, w)
        BY <2>2, <3>1 DEF Ahead
      <4>2. Left(buffer, Upto(line, n), n < Len(line), w)
        BY <2>2, <4>1, LeftGoes
      <4>3. lost' = (n < Len(line))
        BY <2>1, <2>5
      <4> QED
        BY <2>1, <4>2, <4>3
    <3> QED
      BY <2>1, <2>2, <2>3, <2>5, <3>1, Comes
  <2> QED
    BY <2>4, <2>5
<1> QED
  BY <1>1, <1>2 DEF Peer

LEMMA ReceiveStep ==
  ASSUME AnswerInv, Receives
  PROVE  AnswerInv'
<1>1. PICK n \in 1..Len(line) : HeadReceives(n) \/ BodyReceives(n) \/ ReasonReceives(n) \/ FileReads(n)
  BY DEF Receives
<1>2. /\ buffer' = buffer \o Upto(line, n) /\ line' = After(line, n)
      /\ phase \in {"answer", "body", "reason", "reading"} /\ call' = call /\ peer' = peer
      /\ given' = given /\ lost' = lost /\ status' = status /\ body' = body
      /\ phase' = phase \/ (phase = "reason" /\ phase' \in {"ok", "reason"})
  BY <1>1 DEF HeadReceives, BodyReceives, ReasonReceives, FileReads, request, Goto
<1>3. buffer \in Seq(Tokens) /\ line \in Seq(Tokens) /\ lost \in BOOLEAN
  BY DEF AnswerInv
<1>4. given # None
  <2> SUFFICES ASSUME given = None PROVE FALSE
    OBVIOUS
  <2>1. line = <<>>
    BY DEF AnswerInv, Unanswered
  <2> QED
    BY <2>1
<1>5. buffer' \in Seq(Tokens) /\ line' \in Seq(Tokens)
  <2>1. n \in 0..Len(line)
    BY <1>3
  <2> QED
    BY <1>2, <1>3, <2>1, CutIs, ConcatIs
<1>6. \A w \in Seq(Tokens) : Ahead(w) => Left(buffer', line', lost', w)
  BY <1>2, <1>3, LeftReceives DEF Ahead
<1>7. peer' = "open" => lost' = FALSE
  BY <1>2 DEF AnswerInv
<1>8. CASE phase' = phase
  BY <1>2, <1>3, <1>4, <1>5, <1>6, <1>7, <1>8, Comes
<1>9. CASE phase = "reason" /\ phase' = "ok"
  <2>1. given \in Answers /\ AtReason
    BY <1>4, <1>9 DEF AnswerInv, Answered
  <2>2. ResponseExact'
    BY <1>2, <1>4, <2>1 DEF ResponseExact, AtReason
  <2>3. Answered'
    BY <1>9 DEF Answered
  <2> QED
    BY <1>2, <1>3, <1>4, <1>5, <1>7, <2>1, <2>2, <2>3 DEF AnswerInv
<1> QED
  BY <1>2, <1>8, <1>9

LEMMA HeadStep ==
  ASSUME AnswerInv, HeadTaken
  PROVE  AnswerInv'
<1>1. /\ phase = "answer" /\ HeadEnd # 0 /\ buffer' = After(buffer, HeadEnd + 3)
      /\ line' = line /\ lost' = lost /\ peer' = peer /\ given' = given /\ body' = body /\ call' = call
      /\ Status \in 100..199 => phase' = phase /\ status' = status
      /\ Status \notin 100..199 => phase' = Follows /\ status' = Status
  BY DEF HeadTaken, Leftover, remote, request, Goto
<1>2. given # None
  <2> SUFFICES ASSUME given = None PROVE FALSE
    OBVIOUS
  <2>1. buffer = <<>>
    BY DEF AnswerInv, Unanswered
  <2> QED
    BY <1>1, <2>1, NothingFound DEF HeadEnd
<1>3. /\ given \in Answers /\ AtHead /\ buffer \in Seq(Tokens) /\ line \in Seq(Tokens) /\ lost \in BOOLEAN
      /\ peer = "open" => lost = FALSE
  BY <1>1, <1>2 DEF AnswerInv, Answered
<1>4. /\ given.status \in {200, 204, 403} /\ Whole(given) \in Seq(Tokens)
      /\ BodyBytes(given) \in Seq(Tokens) /\ given.chunks \in Seq(Nat \ {0}) /\ Total(given) \in Nat
      /\ Bytes(given) = IF given.interim THEN HeadOf(Interim) \o Whole(given) ELSE Whole(given)
  BY <1>3, AnswerIs
<1>5. ASSUME NEW n \in Nat, NEW w \in Seq(Tokens), Ahead(HeadOf(n) \o w)
      PROVE  Status = n /\ buffer' \in Seq(Tokens) /\ Left(buffer', line', lost', w)
  <2>1. /\ HeadEnd = 2 /\ buffer[1].n = n /\ After(buffer, 5) \in Seq(Tokens)
        /\ Left(After(buffer, 5), line, lost, w)
    BY <1>1, <1>3, <1>5, HeadFound DEF Ahead, HeadEnd
  <2>2. buffer' = After(buffer, 5)
    BY <1>1, <2>1
  <2> QED
    BY <1>1, <2>1, <2>2 DEF Status
<1>6. CASE given.interim /\ Ahead(Bytes(given))
  <2>1. Ahead(HeadOf(100) \o Whole(given))
    BY <1>4, <1>6 DEF Interim
  <2>0. Status = 100 /\ buffer' \in Seq(Tokens) /\ Left(buffer', line', lost', Whole(given))
    BY <1>4, <1>5, <2>1
  <2>2. Status = 100 /\ buffer' \in Seq(Tokens) /\ Ahead(Whole(given))'
    BY <1>1, <2>0 DEF Ahead
  <2>3. phase' = phase /\ status' = status
    BY <1>1, <2>2
  <2>4. AtHead'
    BY <1>1, <1>3, <2>2, <2>3 DEF AtHead, Fresh
  <2>5. Answered' /\ ResponseExact'
    BY <1>1, <2>3, <2>4 DEF Answered, ResponseExact
  <2> QED
    BY <1>1, <1>2, <1>3, <2>2, <2>5 DEF AnswerInv
<1>7. CASE Ahead(Whole(given))
  <2>1. Ahead(HeadOf(given.status) \o BodyBytes(given))
    BY <1>7 DEF Whole
  <2>0. given.status \in Nat /\ given.status \notin 100..199
    <3>1. given.status = 200 \/ given.status = 204 \/ given.status = 403
      BY <1>4
    <3>2. 200 \in Nat \ (100..199) /\ 204 \in Nat \ (100..199) /\ 403 \in Nat \ (100..199)
      OBVIOUS
    <3> QED
      BY <3>1, <3>2
  <2>2. Status = given.status /\ buffer' \in Seq(Tokens) /\ Left(buffer', line', lost', BodyBytes(given))
    BY <1>4, <1>5, <2>0, <2>1
  <2>3. phase' = Follows /\ status' = given.status
    BY <1>1, <2>0, <2>2
  <2>4. CASE call.kind = "download"
    <3>1. phase' = IF given.status = 200 THEN "reading" ELSE "reason"
      BY <2>2, <2>3, <2>4 DEF Follows
    <3>2. phase' = "reading" => AtFile'
      BY <1>1, <2>2, <2>3, <2>4, <3>1 DEF AtFile, Ahead
    <3>3. phase' = "reason" => AtReason'
      BY <1>1, <2>3, <2>4, <3>1 DEF AtReason
    <3>4. Answered' /\ ResponseExact'
      BY <3>1, <3>2, <3>3 DEF Answered, ResponseExact
    <3> QED
      BY <1>1, <1>2, <1>3, <2>2, <3>4 DEF AnswerInv
  <2>5. CASE call.kind # "download" /\ given.status = 204
    <3>1. phase' = "ok"
      BY <2>2, <2>3, <2>5 DEF Follows
    <3>2. body' = 0
      BY <1>1, <1>3 DEF AtHead, Fresh
    <3>3. Answered' /\ ResponseExact'
      BY <1>1, <1>2, <2>3, <2>5, <3>1, <3>2 DEF Answered, ResponseExact, BodyOf
    <3> QED
      BY <1>1, <1>2, <1>3, <2>2, <3>3 DEF AnswerInv
  <2>6. CASE call.kind # "download" /\ given.status # 204
    <3>1. phase' = "body"
      BY <2>2, <2>3, <2>6 DEF Follows
    <3>2. ASSUME given.framing = "chunked"
          PROVE  \E k \in 0..Len(given.chunks) : AtChunk(k)'
      <4> DEFINE c == given.chunks
      <4>1. Len(c) \in 0..Len(c) /\ Len(c) - Len(c) = 0 /\ Sums(c)[0] = 0
        BY <1>4, LenProperties, SumsIs
      <4>2. BodyBytes(given) = Framed(0, c)[Len(c)]
        BY <3>2, Zenon DEF BodyBytes, Chunked
      <4>3. Left(buffer', line', lost', Framed(0, c)[Len(c)])
        BY <2>2, <4>2
      <4>4. body' = 0
        BY <1>1, <1>3 DEF AtHead, Fresh
      <4>5. PICK k \in 0..Len(c) : k = Len(c)
        BY <4>1
      <4>6. AtChunk(k)'
        BY <1>1, <4>1, <4>3, <4>4, <4>5 DEF AtChunk, Ahead
      <4> QED
        BY <4>6
    <3>3. ASSUME given.framing # "chunked"
          PROVE  Ahead(Units(0, Total(given)))'
      <4>1. BodyBytes(given) = Units(0, Total(given))
        BY <3>3, Zenon DEF BodyBytes
      <4> QED
        BY <1>1, <2>2, <4>1 DEF Ahead
    <3>4. AtBody'
      BY <1>1, <2>3, <2>6, <3>2, <3>3 DEF AtBody
    <3>5. Answered' /\ ResponseExact'
      BY <3>1, <3>4 DEF Answered, ResponseExact
    <3> QED
      BY <1>1, <1>2, <1>3, <2>2, <3>5 DEF AnswerInv
  <2> QED
    BY <2>4, <2>5, <2>6
<1> QED
  BY <1>3, <1>4, <1>6, <1>7 DEF AtHead

\* What every step on the body starts from.
LEMMA InBody ==
  ASSUME AnswerInv, phase = "body"
  PROVE  /\ given # None /\ given \in Answers /\ AtBody
         /\ buffer \in Seq(Tokens) /\ line \in Seq(Tokens) /\ lost \in BOOLEAN
         /\ peer = "open" => lost = FALSE
         /\ given.chunks \in Seq(Nat \ {0}) /\ Total(given) \in Nat /\ BodyOf(given) = Total(given)
         /\ given.framing \in Framings
<1>1. given # None
  BY DEF AnswerInv, Unanswered
<1>2. given \in Answers /\ AtBody
  BY <1>1 DEF AnswerInv, Answered
<1>3. BodyOf(given) = Total(given)
  BY <1>2 DEF AtBody, BodyOf
<1> QED
  BY <1>1, <1>2, <1>3, AnswerIs DEF AnswerInv

LEMMA LengthStep ==
  ASSUME AnswerInv, LengthReached
  PROVE  AnswerInv'
<1>1. /\ phase = "body" /\ given.framing = "length" /\ ~Wants /\ body' = Bodies(Upto(buffer, Total(given)))
      /\ buffer' = <<>> /\ phase' = "ok"
      /\ line' = line /\ lost' = lost /\ peer' = peer /\ given' = given /\ status' = status /\ call' = call
  BY DEF LengthReached, remote, request, Goto
<1>2. /\ given # None /\ given \in Answers /\ AtBody /\ buffer \in Seq(Tokens) /\ line \in Seq(Tokens)
      /\ lost \in BOOLEAN /\ (peer = "open" => lost = FALSE)
      /\ Total(given) \in Nat /\ BodyOf(given) = Total(given)
  BY <1>1, InBody
<1>3. Len(buffer) \in Nat /\ Len(line) \in Nat /\ Len(buffer) >= Total(given)
  <2>1. ~(Len(buffer) < Total(given))
    BY <1>1 DEF Wants
  <2> QED
    BY <1>2, <2>1, LenProperties
<1>4. Bodies(buffer) = Len(buffer) /\ Len(buffer) + Len(line) <= Total(given)
  <2>1. Ahead(Units(0, Total(given)))
    BY <1>1, <1>2 DEF AtBody
  <2> QED
    BY <1>2, <2>1, UnitsCome DEF Ahead
<1>5. Upto(buffer, Total(given)) = buffer
  <2> DEFINE n == Total(given)
  <2>1. Len(buffer) = n /\ n \in 0..Len(buffer)
    BY <1>2, <1>3, <1>4
  <2> HIDE DEF n
  <2>2. /\ Upto(buffer, n) \in Seq(Tokens) /\ Len(Upto(buffer, n)) = n
        /\ \A i \in 1..n : Upto(buffer, n)[i] = buffer[i]
    BY <1>2, <2>1, CutIs
  <2>3. Upto(buffer, n) = buffer
    BY <1>2, <2>1, <2>2, SeqEqual
  <2> QED
    BY <2>3 DEF n
<1>6. body' = BodyOf(given)
  BY <1>1, <1>2, <1>3, <1>4, <1>5
<1>7. ResponseExact'
  BY <1>1, <1>2, <1>6 DEF ResponseExact, AtBody
<1>8. Answered' /\ <<>> \in Seq(Tokens)
  BY <1>1 DEF Answered
<1> QED
  BY <1>1, <1>2, <1>7, <1>8 DEF AnswerInv

LEMMA ChunkStep ==
  ASSUME AnswerInv, ChunkTaken
  PROVE  AnswerInv'
<1> DEFINE c == given.chunks
           N == Len(c)
<1>1. /\ phase = "body" /\ given.framing = "chunked" /\ ~Wants
      /\ body' = body + Bodies(SubSeq(buffer, SizeEnd + 2, SizeEnd + 1 + ChunkSize))
      /\ buffer' = After(buffer, SizeEnd + 1 + ChunkSize + (IF ChunkSize = 0 THEN 0 ELSE 2))
      /\ phase' = IF SizeEnd = 1 THEN "failed" ELSE IF ChunkSize = 0 THEN "ok" ELSE "body"
      /\ line' = line /\ lost' = lost /\ peer' = peer /\ given' = given /\ status' = status /\ call' = call
  BY DEF ChunkTaken, remote, request, Goto
<1>2. /\ given # None /\ given \in Answers /\ AtBody /\ buffer \in Seq(Tokens) /\ line \in Seq(Tokens)
      /\ lost \in BOOLEAN /\ (peer = "open" => lost = FALSE)
      /\ c \in Seq(Nat \ {0}) /\ BodyOf(given) = Total(given)
  BY <1>1, InBody
<1>3. ChunkHere
  BY <1>1 DEF Wants
<1>4. PICK k \in 0..N : AtChunk(k)
  BY <1>1, <1>2 DEF AtBody
<1> DEFINE n == SizeAt(c, k)
           x == Framed(0, c)[k]
<1>5. n \in Nat /\ x \in Seq(Tokens) /\ x[1] = Size(n) /\ x[2] = CR /\ x[3] = LF
  BY <1>2, <1>4, SizeFront
<1>6. Left(buffer, line, lost, x) /\ body = Sums(c)[N - k]
  BY <1>4 DEF AtChunk, Ahead
<1>7. SizeEnd = 2 /\ ChunkSize = n /\ Len(buffer) >= 3
  <2>1. Find(CRLF, buffer) # 0
    BY <1>3 DEF ChunkHere, SizeEnd
  <2> HIDE DEF n, x
  <2>2. Find(CRLF, buffer) = 2 /\ Len(buffer) >= 3 /\ SizeIn(Upto(buffer, 1)) = n
    BY <1>2, <1>5, <1>6, <2>1, SizeFound
  <2>3. SizeEnd = 2 /\ 2 - 1 = 1
    BY <2>2 DEF SizeEnd
  <2> QED
    BY <2>2, <2>3 DEF ChunkSize
<1>8. N \in Nat /\ Len(buffer) \in Nat
  BY <1>2, LenProperties
<1>9. CASE k = 0
  <2>1. n = 0
    BY <1>9 DEF SizeAt
  <2>2. /\ phase' = "ok" /\ buffer' = After(buffer, 3)
        /\ body' = body + Bodies(SubSeq(buffer, 4, 3))
    BY <1>1, <1>7, <2>1
  <2>3. buffer' \in Seq(Tokens)
    <3>1. 3 \in 0..Len(buffer)
      BY <1>7, <1>8
    <3> QED
      BY <1>2, <2>2, <3>1, CutIs
  <2>4. SubSeq(buffer, 4, 3) = <<>>
    BY <1>2
  <2>5. Bodies(<<>>) = 0
    <3>1. <<>> \in Seq(Tokens) /\ \A i \in 1..Len(<<>>) : FALSE
      OBVIOUS
    <3> QED
      BY <3>1, NoData
  <2>6. body = Total(given) /\ Total(given) \in Nat
    <3>1. N - k = N
      BY <1>8, <1>9
    <3>2. Total(given) = Sums(c)[N]
      BY DEF Total
    <3> QED
      BY <1>1, <1>6, <3>1, <3>2, InBody
  <2>7. body' = BodyOf(given)
    <3>1. body' = Total(given) + 0
      BY <2>2, <2>4, <2>5, <2>6, Zenon
    <3> QED
      BY <1>2, <2>6, <3>1
  <2>8. Answered' /\ ResponseExact'
    BY <1>1, <1>2, <2>2, <2>7 DEF Answered, ResponseExact, AtBody
  <2> QED
    BY <1>1, <1>2, <2>3, <2>8 DEF AnswerInv
<1>10. CASE k # 0
  <2>1. k \in 1..N
    BY <1>8, <1>10
  <2>2. /\ n \in Nat \ {0} /\ k - 1 \in 0..N /\ Sums(c)[N - (k - 1)] = Sums(c)[N - k] + n
    BY <1>2, <2>1, ChunkNext
  <2>3. Len(buffer) >= n + 5
    BY <1>3, <1>7, <1>8, <2>2 DEF ChunkHere
  <2> HIDE DEF n
  <2>4. /\ phase' = "body" /\ buffer' = After(buffer, n + 5)
        /\ body' = body + Bodies(SubSeq(buffer, 4, 3 + n))
    <3>1. SizeEnd + 1 + n + 2 = n + 5 /\ SizeEnd + 2 = 4 /\ SizeEnd + 1 + n = 3 + n
      BY <1>7, <2>2
    <3> QED
      BY <1>1, <1>7, <2>2, <3>1
  <2>5. /\ buffer' \in Seq(Tokens) /\ Left(buffer', line', lost', Framed(0, c)[k - 1])
        /\ Upto(buffer, n + 5) = Chunk(0, n)
    BY <1>1, <1>2, <1>6, <2>1, <2>3, <2>4, ChunkUsed DEF n
  <2>6. Bodies(SubSeq(buffer, 4, 3 + n)) = n
    <3> DEFINE s == SubSeq(buffer, 4, 3 + n)
    <3>1. s \in Seq(Tokens) /\ Len(s) = n /\ \A i \in 1..n : s[i] = buffer[3 + i]
      <4>1. \A i \in 4..(3 + n) : buffer[i] \in Tokens
        BY <1>2, <1>8, <2>2, <2>3, ElementOfSeq
      <4>2. /\ s \in Seq(Tokens) /\ Len(s) = IF 4 <= 3 + n THEN 3 + n - 4 + 1 ELSE 0
            /\ \A i \in 1..(3 + n - 4 + 1) : s[i] = buffer[4 + i - 1]
        BY <2>2, <4>1, SubSeqProperties
      <4> HIDE DEF s
      <4>3. \A i \in 1..n : i \in 1..(3 + n - 4 + 1) /\ 4 + i - 1 = 3 + i
        BY <2>2
      <4>4. Len(s) = n
        BY <2>2, <4>2
      <4> QED
        BY <4>2, <4>3, <4>4
    <3> HIDE DEF s
    <3>2. \A i \in 1..n : buffer[3 + i] = Data(0)
      <4>1. n + 5 \in 0..Len(buffer)
        BY <1>8, <2>2, <2>3
      <4>2. \A i \in 1..(n + 5) : Upto(buffer, n + 5)[i] = buffer[i]
        BY <1>2, <4>1, CutIs
      <4>3. \A i \in 1..n : Chunk(0, n)[3 + i] = Data(0)
        BY <2>2, ChunkIs
      <4>4. \A i \in 1..n : 3 + i \in 1..(n + 5)
        BY <2>2
      <4> QED
        BY <2>5, <4>2, <4>3, <4>4
    <3>3. Data(0).kind = "data"
      BY TokenIs
    <3>4. \A i \in 1..Len(s) : s[i].kind = "data"
      BY <3>1, <3>2, <3>3
    <3>5. Bodies(s) = Len(s)
      BY <3>1, <3>4, AllData
    <3> QED
      BY <3>1, <3>5 DEF s
  <2>7. body' = Sums(c)[N - (k - 1)]
    BY <1>6, <2>2, <2>4, <2>6
  <2>8. PICK j \in 0..N : j = k - 1
    BY <2>2
  <2>9. AtChunk(j)'
    BY <1>1, <2>5, <2>7, <2>8 DEF AtChunk, Ahead
  <2>10. AtBody'
    BY <1>1, <1>2, <2>9 DEF AtBody
  <2>11. Answered' /\ ResponseExact'
    BY <2>4, <2>10 DEF Answered, ResponseExact
  <2> QED
    BY <1>1, <1>2, <2>5, <2>11 DEF AnswerInv
<1> QED
  BY <1>9, <1>10

LEMMA StopStep ==
  ASSUME AnswerInv, BodyStops
  PROVE  AnswerInv'
<1>1. /\ phase = "body" /\ stopped' = ~AtEnd /\ buffer' = buffer
      /\ line' = line /\ lost' = lost /\ peer' = peer /\ given' = given /\ status' = status /\ call' = call
      /\ given.framing = "close" => body' = Bodies(buffer) /\ phase' = "ok"
      /\ given.framing # "close" => body' = body /\ phase' = "failed"
  BY DEF BodyStops, remote, request, Goto
<1>2. /\ given # None /\ given \in Answers /\ AtBody /\ buffer \in Seq(Tokens) /\ line \in Seq(Tokens)
      /\ lost \in BOOLEAN /\ (peer = "open" => lost = FALSE)
      /\ Total(given) \in Nat /\ BodyOf(given) = Total(given)
  BY <1>1, InBody
<1>3. CASE given.framing # "close"
  BY <1>1, <1>2, <1>3 DEF AnswerInv, Answered, ResponseExact
<1>4. CASE given.framing = "close"
  <2>1. Left(buffer, line, lost, Units(0, Total(given)))
    BY <1>2, <1>4 DEF AtBody, Ahead
  <2>2. Bodies(buffer) = Len(buffer) /\ (~lost => Len(buffer) + Len(line) = Total(given))
    BY <1>2, <2>1, UnitsCome
  <2>3. ASSUME ~lost, ~stopped'
        PROVE  body' = Total(given)
    <3>1. AtEnd
      BY <1>1, <2>3
    <3>2. Len(line) = 0 /\ Len(buffer) \in Nat
      BY <1>2, <3>1, LenProperties DEF AtEnd
    <3>3. Len(buffer) + Len(line) = Total(given)
      BY <2>2, <2>3
    <3>4. body' = Len(buffer)
      BY <1>1, <1>4, <2>2
    <3> QED
      BY <3>2, <3>3, <3>4
  <2>4. status' = given'.status /\ call'.kind # "download" /\ BodyOf(given') = Total(given)
    BY <1>1, <1>2 DEF AtBody
  <2>5. ResponseExact'
    <3>1. body' = BodyOf(given') \/ lost' \/ stopped'
      BY <1>1, <2>3, <2>4
    <3> QED
      BY <1>1, <1>2, <1>4, <2>4, <3>1 DEF ResponseExact
  <2>6. Answered'
    BY <1>1, <1>4 DEF Answered
  <2> QED
    BY <1>1, <1>2, <2>5, <2>6 DEF AnswerInv
<1> QED
  BY <1>3, <1>4

LEMMA FileStep ==
  ASSUME AnswerInv, FileEnds
  PROVE  AnswerInv'
<1>1. /\ phase = "reading" /\ ReadsEnd /\ body' = Bodies(buffer) /\ phase' = "ok" /\ buffer' = buffer
      /\ line' = line /\ lost' = lost /\ peer' = peer /\ given' = given /\ status' = status /\ call' = call
  BY DEF FileEnds, remote, request, Goto
<1>2. given # None
  BY <1>1 DEF AnswerInv, Unanswered
<1>3. /\ given \in Answers /\ AtFile /\ buffer \in Seq(Tokens) /\ line \in Seq(Tokens) /\ lost \in BOOLEAN
      /\ peer = "open" => lost = FALSE
  BY <1>1, <1>2 DEF AnswerInv, Answered
<1>4. /\ given.chunks \in Seq(Nat \ {0}) /\ given.framing \in Framings /\ Total(given) \in Nat
      /\ Total(given) = Sums(given.chunks)[Len(given.chunks)]
  BY <1>3, AnswerIs DEF Total
<1>5. status = 200 /\ given.status = 200 /\ BodyOf(given) = Total(given) /\ Ahead(BodyBytes(given))
  BY <1>3 DEF AtFile, BodyOf
<1>6. \/ body' = Total(given)
      \/ given.framing = "close" /\ lost /\ peer = "closed"
  <2>1. CASE given.framing = "length"
    BY <1>1, <2>1 DEF ReadsEnd
  <2>2. CASE given.framing = "chunked"
    <3> DEFINE c == given.chunks
    <3>1. Left(buffer, line, lost, Framed(0, c)[Len(c)])
      BY <1>5, <2>2, Zenon DEF Ahead, BodyBytes, Chunked
    <3>2. Left(buffer, <<>>, TRUE, Framed(0, c)[Len(c)])
      <4> DEFINE w == Framed(0, c)[Len(c)]
      <4>1. /\ Len(buffer) + Len(line) <= Len(w)
            /\ \A i \in 1..Len(buffer) : buffer[i] = w[i]
        BY <3>1, Zenon DEF Left
      <4>2. w \in Seq(Tokens)
        <5>1. Len(c) \in 0..Len(c)
          BY <1>4, LenProperties
        <5> QED
          BY <1>4, <5>1, SizeFront
      <4> HIDE DEF w
      <4>3. Len(buffer) \in Nat /\ Len(line) \in Nat /\ Len(w) \in Nat /\ Len(<<>>) = 0
        BY <1>3, <4>2, LenProperties
      <4>4. /\ Len(buffer) + Len(<<>>) <= Len(w)
            /\ \A i \in 1..Len(<<>>) : <<>>[i] = w[Len(buffer) + i]
        BY <4>1, <4>3
      <4>5. Left(buffer, <<>>, TRUE, w)
        BY <4>1, <4>4, Zenon DEF Left
      <4> QED
        BY <4>5 DEF w
    <3>3. HasEnd(buffer)
      <4> DEFINE text == <<Size(0)>> \o CRLF
      <4>1. Find(text, buffer) # 0
        BY <1>1, <2>2 DEF ReadsEnd
      <4>2. text \in Seq(Tokens) /\ Len(text) = 3 /\ text[1] = Size(0)
        <5>1. <<Size(0)>> \in Seq(Tokens) /\ Len(<<Size(0)>>) = 1 /\ <<Size(0)>>[1] = Size(0)
          BY TokenIs, OneIs
        <5> DEFINE s == <<Size(0)>>
        <5> HIDE DEF s
        <5>2. s \in Seq(Tokens) /\ Len(s) = 1 /\ s[1] = Size(0)
          BY <5>1 DEF s
        <5>3. /\ s \o CRLF \in Seq(Tokens) /\ Len(s \o CRLF) = Len(s) + 2
              /\ \A i \in 1..Len(s) : (s \o CRLF)[i] = s[i]
          BY <5>2, JoinIs
        <5>4. s \o CRLF \in Seq(Tokens) /\ Len(s \o CRLF) = 3 /\ (s \o CRLF)[1] = Size(0)
          BY <5>2, <5>3
        <5> QED
          BY <5>4 DEF s
      <4> HIDE DEF text
      <4>3. Len(text) >= 1
        BY <4>2
      <4> DEFINE f == Find(text, buffer)
      <4>4. f \in Nat /\ Occurs(text, buffer, f)
        BY <1>3, <4>1, <4>2, <4>3, FindIs
      <4> HIDE DEF f
      <4>5. f \in 1..(Len(buffer) - Len(text) + 1) /\ \A j \in 1..Len(text) : buffer[f + j - 1] = text[j]
        BY <4>4 DEF Occurs
      <4>6. Len(buffer) \in Nat
        BY <1>3, LenProperties
      <4>7. f \in 1..Len(buffer) /\ 1 \in 1..Len(text) /\ f + 1 - 1 = f
        BY <4>2, <4>4, <4>5, <4>6
      <4>8. buffer[f + 1 - 1] = text[1]
        BY <4>5, <4>7, Zenon
      <4> QED
        BY <4>2, <4>7, <4>8 DEF HasEnd
    <3>4. Bodies(buffer) = Sums(c)[Len(c)]
      BY <1>3, <1>4, <3>2, <3>3, AllCome
    <3> QED
      BY <1>1, <1>4, <3>4
  <2>3. CASE given.framing = "close"
    <3>1. AtEnd
      BY <1>1, <2>3 DEF ReadsEnd
    <3>2. Left(buffer, line, lost, Units(0, Total(given)))
      BY <1>5, <2>3 DEF Ahead, BodyBytes
    <3>3. Bodies(buffer) = Len(buffer) /\ (~lost => Len(buffer) + Len(line) = Total(given))
      BY <1>3, <1>4, <3>2, UnitsCome
    <3>4. Len(line) = 0 /\ Len(buffer) \in Nat /\ peer = "closed"
      BY <1>3, <3>1, LenProperties DEF AtEnd
    <3>5. CASE lost
      BY <2>3, <3>4, <3>5
    <3>6. CASE ~lost
      <4>1. Len(buffer) + Len(line) = Total(given)
        BY <3>3, <3>6
      <4>2. body' = Len(buffer)
        BY <1>1, <3>3
      <4> QED
        BY <3>4, <4>1, <4>2
    <3> QED
      BY <3>5, <3>6
  <2> QED
    BY <1>4, <2>1, <2>2, <2>3 DEF Framings
<1>7. ResponseExact'
  <2>1. call'.kind = "download" /\ status' = 200 /\ given'.status = 200
    BY <1>1, <1>3, <1>5 DEF AtFile
  <2> QED
    BY <1>1, <1>2, <1>5, <1>6, <2>1 DEF ResponseExact
<1>8. Answered'
  BY <1>1 DEF Answered
<1> QED
  BY <1>1, <1>2, <1>3, <1>7, <1>8 DEF AnswerInv

LEMMA AnswerNext ==
  ASSUME AnswerInv, [Next]_vars
  PROVE  AnswerInv'
<1>1. CASE Connects \/ SendsRequest \/ SendsPiece \/ Told
  <2>1. /\ UNCHANGED <<remote, response>> /\ call' = call
        /\ phase \in {"connect", "request", "file", "told"}
        /\ phase' \in {"request", "file", "told", "answer", "failed"}
        /\ phase' = "request" => phase = "connect"
    BY <1>1 DEF Connects, SendsRequest, SendsPiece, Told, Goto, request
  <2> QED
    BY <2>1, Proceeds
<1>2. CASE SendFails \/ FileShrank \/ HeadStops \/ FileStops
  <2>1. UNCHANGED <<remote, response>> /\ call' = call /\ phase' = "failed"
    BY <1>2 DEF SendFails, FileShrank, HeadStops, FileStops, Goto, request
  <2> QED
    BY <2>1, Proceeds
<1>3. CASE FileSpins \/ PeerStopsReading
  <2>1. /\ UNCHANGED <<remote, response>> /\ call' = call
        /\ \/ phase = "reading" /\ phase' = "spins"
           \/ phase \in {"request", "file"} /\ phase' = "blocked"
    BY <1>3 DEF FileSpins, PeerStopsReading, Goto, request
  <2> QED
    BY <2>1, Proceeds
<1>4. CASE ReasonStops
  <2>1. /\ phase = "reason" /\ phase' = "ok" /\ call' = call
        /\ buffer' = buffer /\ line' = line /\ lost' = lost /\ peer' = peer /\ given' = given
        /\ status' = status /\ body' = body
    BY <1>4 DEF ReasonStops, Goto, request, remote, response
  <2>2. given # None
    BY <2>1 DEF AnswerInv, Unanswered
  <2>3. given \in Answers /\ AtReason
    BY <2>1, <2>2 DEF AnswerInv, Answered
  <2>4. Answered' /\ ResponseExact'
    BY <2>1, <2>2, <2>3 DEF Answered, ResponseExact, AtReason
  <2> QED
    BY <2>1, <2>2, <2>3, <2>4 DEF AnswerInv
<1>5. CASE UserCancels \/ UNCHANGED vars
  <2>1. /\ phase' = phase /\ call' = call
        /\ buffer' = buffer /\ line' = line /\ lost' = lost /\ peer' = peer /\ given' = given
        /\ status' = status /\ body' = body /\ stopped' = stopped
    BY <1>5 DEF UserCancels, vars, request, remote, response
  <2>2. ResponseExact'
    BY <2>1 DEF AnswerInv, ResponseExact
  <2>3. Unanswered => Unanswered'
    BY <2>1 DEF Unanswered, Fresh
  <2>4. Answered => Answered'
    <3>1. \A k : AtChunk(k) => AtChunk(k)'
      BY <2>1 DEF AtChunk, Ahead
    <3>2. AtHead => AtHead'
      BY <2>1 DEF AtHead, Fresh, Ahead
    <3>3. AtBody => AtBody'
      BY <2>1, <3>1 DEF AtBody, Ahead
    <3>4. AtFile => AtFile'
      BY <2>1 DEF AtFile, Ahead
    <3>5. AtReason => AtReason'
      BY <2>1 DEF AtReason
    <3> QED
      BY <2>1, <3>2, <3>3, <3>4, <3>5 DEF Answered
  <2> QED
    BY <2>1, <2>2, <2>3, <2>4 DEF AnswerInv
<1> QED
  BY <1>1, <1>2, <1>3, <1>4, <1>5, PeerStep, ReceiveStep, HeadStep, LengthStep, ChunkStep, StopStep, FileStep
     DEF Next, Thread

\* A call that succeeds returns the peer's answer with exactly its body, for any
\* answers, cut anywhere, but for a body without a length that breaks off
\* (ReadResponse, ReadChunkedBody, DownloadToFile).
THEOREM ResponseTheorem == Spec => []ResponseExact
<1>1. AnswerInv => ResponseExact
  BY DEF AnswerInv
<1> QED
  BY <1>1, AnswerInit, AnswerNext, PTL DEF Spec
=============================================================================
