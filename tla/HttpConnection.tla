--------------------------- MODULE HttpConnection ---------------------------
(***************************************************************************)
(* One connection of the HTTP server (HttpServer::ServeConnection and      *)
(* HttpBodyReader, src/network/http_server.cpp): the request heads found   *)
(* in the received bytes, the body the handler reads, the answer, and the  *)
(* rest of the body that is drained so that the next request can follow.   *)
(*                                                                         *)
(* The stream is a sequence of tokens, cut into segments wherever TCP may  *)
(* cut it.  A client that stalls for 30 seconds and one that goes away are *)
(* the same to the server: Recv returns 0 or less.  After a stall the      *)
(* bytes may still come.  Not modelled: TLS, the 128 KB and 4 KB limits on *)
(* a head and on a size line, 100-continue, and several requests sent      *)
(* without waiting for the answers.                                        *)
(***************************************************************************)
EXTENDS Integers, Sequences, FiniteSets, HttpBytes

CONSTANTS
  Shapes,      \* the requests a client may send
  MaxRequests  \* bound on the requests of the connection

\* chunks: the sizes of the chunks; a body that is not chunked is one piece.
ASSUME ShapesAssumption ==
  Shapes \subseteq [chunked: BOOLEAN, chunks: Seq(Nat \ {0}), keep: BOOLEAN]
ASSUME RequestsAssumption == MaxRequests \in Nat

VARIABLES
  sent,     \* the requests the client has begun to send
  line,     \* the bytes of them the server has not received
  answers,  \* the answers sent: the request answered, NoRequest or BadHead
  phase,    \* where ServeConnection is
  buffer,   \* its buffer
  req,      \* the request being handled, NoRequest if its head was not one
  keep,     \* keepAlive
  reader,   \* the HttpBodyReader
  reading,  \* a Read is under way
  told,     \* what the last Read told the handler
  got,      \* the body the handler got
  failed    \* history variable: a Read has failed on this connection

body == <<reader, reading, told, got, failed>>
vars == <<sent, line, answers, phase, buffer, req, keep, body>>

NoRequest == 0
BadHead   == -1
Requests  == 1..MaxRequests

---------------------------------------------------------------------------
(* The bytes of a request.                                                 *)

Bytes(r, s) ==
  <<Line(r)>> \o CRLF \o CRLF
    \o (IF s.chunked THEN Chunked(r, s) ELSE Units(r, Total(s)))

---------------------------------------------------------------------------
(* The head (ParseRequestHead).                                            *)

FirstLine(head) ==
  LET end == Find(<<LF>>, head) IN IF end = 0 THEN head ELSE Upto(head, end)
Named(head) == {r \in Requests : \E i \in DOMAIN head : head[i] = Line(r)}

\* The first line must have two spaces; those of a body may.
Splits(head) ==
  \E i \in DOMAIN FirstLine(head) : head[i].kind \in {"line", "data"}
MayNotSplit(head) ==
  \A i \in DOMAIN FirstLine(head) : head[i].kind # "line"

NoHeaders == [chunked |-> FALSE, chunks |-> <<>>, keep |-> TRUE]
Framing(head) ==
  IF Named(head) = {} THEN NoHeaders ELSE sent[CHOOSE r \in Named(head) : TRUE]

\* left: m_length, less m_read when the body is not chunked; SizeNext when
\* the next line is a chunk size.
SizeNext == -1
NewReader(s, pending) ==
  [chunked |-> s.chunked, complete |-> FALSE, pending |-> pending,
   left |-> IF s.chunked THEN SizeNext ELSE Total(s)]

Init ==
  /\ sent = <<>> /\ line = <<>> /\ answers = <<>>
  /\ phase = "head" /\ buffer = <<>>
  /\ req = NoRequest /\ keep = TRUE
  /\ reader = NewReader(NoHeaders, <<>>)
  /\ reading = FALSE /\ told = "more" /\ got = <<>>
  /\ failed = FALSE

\* The client sends a request once the one before is answered and sent.
ClientSends(s) ==
  /\ phase # "closed"
  /\ line = <<>>
  /\ Len(answers) >= Len(sent)
  /\ Len(sent) < MaxRequests
  /\ sent' = Append(sent, s)
  /\ line' = Bytes(Len(sent'), s)
  /\ UNCHANGED <<answers, phase, buffer, req, keep, body>>

HeadEnd == Find(CRLF \o CRLF, buffer)

HeadReceives(n) ==
  /\ phase = "head" /\ HeadEnd = 0
  /\ buffer' = buffer \o Upto(line, n)
  /\ line' = After(line, n)
  /\ UNCHANGED <<sent, answers, phase, req, keep, body>>

\* Recv fails while the server waits for a head.
HeadStops ==
  /\ phase = "head" /\ HeadEnd = 0
  /\ phase' = "closed"
  /\ UNCHANGED <<sent, line, answers, buffer, req, keep, body>>

HeadRefused ==
  /\ phase = "head" /\ HeadEnd # 0
  /\ MayNotSplit(Upto(buffer, HeadEnd - 1))
  /\ answers' = Append(answers, BadHead)
  /\ phase' = "closed"
  /\ UNCHANGED <<sent, line, buffer, req, keep, body>>

HeadTaken ==
  LET head == Upto(buffer, HeadEnd - 1) IN
  /\ phase = "head" /\ HeadEnd # 0
  /\ Splits(head)
  /\ phase' = "body" /\ buffer' = <<>>
  /\ req' = IF \E r \in Requests : head = <<Line(r)>>
            THEN CHOOSE r \in Requests : head = <<Line(r)>> ELSE NoRequest
  /\ keep' = Framing(head).keep
  /\ reader' = NewReader(Framing(head), After(buffer, HeadEnd + 3))
  /\ reading' = FALSE /\ told' = "more" /\ got' = <<>>
  /\ UNCHANGED <<sent, line, answers, failed>>

---------------------------------------------------------------------------
(* The body reader.  A Read is called by the handler (phase "body") or by  *)
(* the drain, which calls it until it returns 0 or less.                   *)

HandlerReads ==
  /\ phase = "body" /\ ~reading /\ told = "more"
  /\ reading' = TRUE
  /\ UNCHANGED <<sent, line, answers, phase, buffer, req, keep, reader, told,
                 got, failed>>

\* Read returns data: the drain throws it away and reads again.
Delivers(bytes) ==
  /\ got' = IF phase = "body" THEN got \o bytes ELSE got
  /\ reading' = (phase = "drain")
  /\ UNCHANGED <<phase, buffer, told>>

\* Read returns 0 ("end") or -1 ("failed").
Returns(result) ==
  /\ reading' = FALSE
  /\ told' = IF phase = "body" THEN result ELSE told
  /\ phase' = IF phase = "body" THEN phase ELSE "head"
  /\ buffer' = IF phase = "body" THEN buffer ELSE <<>>
  /\ UNCHANGED got

AtEnd     == reader.complete \/ (~reader.chunked /\ reader.left = 0)
InFixed   == reading /\ ~AtEnd /\ ~reader.chunked
InChunked == reading /\ ~AtEnd /\ reader.chunked

ReadEnd ==
  /\ reading /\ AtEnd
  /\ reader' = [reader EXCEPT !.complete = TRUE]
  /\ Returns("end")
  /\ UNCHANGED <<sent, line, answers, req, keep, failed>>

FixedBuffered ==
  LET n == Min({reader.left, Len(reader.pending)}) IN
  /\ InFixed /\ reader.pending # <<>>
  /\ reader' = [reader EXCEPT !.left = @ - n, !.complete = (reader.left = n),
                              !.pending = After(@, n)]
  /\ Delivers(Upto(reader.pending, n))
  /\ UNCHANGED <<sent, line, answers, req, keep, failed>>

FixedReceived(n) ==
  /\ InFixed /\ reader.pending = <<>>
  /\ n <= reader.left
  /\ line' = After(line, n)
  /\ reader' = [reader EXCEPT !.left = @ - n, !.complete = (reader.left = n)]
  /\ Delivers(Upto(line, n))
  /\ UNCHANGED <<sent, answers, req, keep, failed>>

\* FillPending receives only when nothing is pending.
Fill(n) ==
  /\ InChunked /\ reader.pending = <<>>
  /\ reader' = [reader EXCEPT !.pending = Upto(line, n)]
  /\ line' = After(line, n)
  /\ UNCHANGED <<sent, answers, phase, buffer, req, keep, reading, told, got,
                 failed>>

\* A mutant of ReadStops: a read has no timeout.
ReadStopsNever == FALSE /\ UNCHANGED vars

\* Recv fails: the reader calls itself complete.
ReadStops ==
  /\ InFixed \/ InChunked
  /\ reader.pending = <<>>
  /\ reader' = [reader EXCEPT !.complete = TRUE]
  /\ failed' = TRUE
  /\ Returns("failed")
  /\ UNCHANGED <<sent, line, answers, req, keep>>

ChunkSize ==
  LET end  == Find(CRLF, reader.pending)
      size == SizeIn(Upto(reader.pending, end - 1))
  IN
  /\ InChunked /\ reader.left = SizeNext /\ end # 0
  /\ IF size = 0
       THEN /\ reader' = [reader EXCEPT !.complete = TRUE,
                                        !.pending = After(@, end + 1)]
            /\ Returns("end")
       ELSE /\ reader' = [reader EXCEPT !.left = size,
                                        !.pending = After(@, end + 1)]
            /\ UNCHANGED <<phase, buffer, reading, told, got>>
  /\ UNCHANGED <<sent, line, answers, req, keep, failed>>

ChunkData ==
  LET n == Min({reader.left, Len(reader.pending)}) IN
  /\ InChunked /\ reader.left > 0 /\ reader.pending # <<>>
  /\ reader' = [reader EXCEPT !.left = @ - n, !.pending = After(@, n)]
  /\ Delivers(Upto(reader.pending, n))
  /\ UNCHANGED <<sent, line, answers, req, keep, failed>>

\* A mutant of ChunkTail: the CR LF is left for the next size line.
ChunkTailKept ==
  /\ InChunked /\ reader.left = 0 /\ Len(reader.pending) >= 2
  /\ reader' = [reader EXCEPT !.left = SizeNext]
  /\ UNCHANGED <<sent, line, answers, phase, buffer, req, keep, reading, told,
                 got, failed>>

ChunkTail ==
  /\ InChunked /\ reader.left = 0 /\ Len(reader.pending) >= 2
  /\ reader' = [reader EXCEPT !.left = SizeNext, !.pending = After(@, 2)]
  /\ UNCHANGED <<sent, line, answers, phase, buffer, req, keep, reading, told,
                 got, failed>>

---------------------------------------------------------------------------
(* The answer (WriteResponse) and what follows it.  The handler answers    *)
(* when it has read enough, or cannot go on.                               *)

\* A mutant of Continues: the rest of the body is not drained.
ContinuesAtOnce ==
  /\ phase' = IF keep THEN "head" ELSE "closed"
  /\ reading' = FALSE
  /\ UNCHANGED <<sent, line, buffer, req, keep, reader, told, got, failed>>

Continues ==
  /\ phase' = IF ~keep THEN "closed" ELSE IF reader.complete THEN "head" ELSE "drain"
  /\ reading' = (phase' = "drain")
  /\ UNCHANGED <<sent, line, buffer, req, keep, reader, told, got, failed>>

Answers ==
  /\ phase = "body" /\ ~reading
  /\ answers' = Append(answers, req)
  /\ Continues

\* The file it sends is shorter than it was: the client waits for the rest.
AnswersShort ==
  /\ phase = "body" /\ ~reading
  /\ UNCHANGED answers
  /\ Continues

AnswerFails ==
  /\ phase = "body" /\ ~reading
  /\ phase' = "closed"
  /\ UNCHANGED <<sent, line, answers, buffer, req, keep, body>>

\* The client stays connected and reads no more: SendAll, on a blocking socket
\* without a send timeout, never returns.
ClientStopsReading ==
  /\ phase = "body" /\ ~reading
  /\ phase' = "blocked"
  /\ UNCHANGED <<sent, line, answers, buffer, req, keep, body>>

\* What the thread does without a byte from the client.
Thread ==
  \/ HeadStops \/ HeadRefused \/ HeadTaken
  \/ HandlerReads \/ ReadEnd \/ FixedBuffered \/ ReadStops
  \/ ChunkSize \/ ChunkData \/ ChunkTail
  \/ Answers \/ AnswersShort \/ AnswerFails

Receives == \E n \in 1..Len(line) : HeadReceives(n) \/ FixedReceived(n) \/ Fill(n)

Next == Thread \/ Receives \/ ClientStopsReading \/ \E s \in Shapes : ClientSends(s)

Spec == Init /\ [][Next]_vars

\* The thread of the connection is scheduled, and Recv returns in 30 seconds;
\* no byte ever has to come.  SendAll has no such limit (ClientStopsReading).
FairSpec == Spec /\ WF_vars(Thread)

---------------------------------------------------------------------------
(* Properties.                                                             *)

\* chunked, left, pending, complete: the members of HttpBodyReader.
TypeOK ==
  /\ sent \in Seq(Shapes) /\ Len(sent) <= MaxRequests
  /\ line \in Seq(Tokens) /\ buffer \in Seq(Tokens) /\ got \in Seq(Tokens)
  /\ answers \in Seq(Requests \cup {NoRequest, BadHead})
  /\ phase \in {"head", "body", "drain", "blocked", "closed"}
  /\ req \in Requests \cup {NoRequest}
  /\ keep \in BOOLEAN /\ reading \in BOOLEAN /\ failed \in BOOLEAN
  /\ told \in {"more", "end", "failed"}
  /\ reader \in [chunked: BOOLEAN, complete: BOOLEAN, left: Nat \cup {SizeNext},
                 pending: Seq(Tokens)]

\* A handler that was told that the body has ended has got exactly the body
\* of the request it handles, however the bytes were cut and framed.
\* (HttpContext::ReadBody, ServerHandler::HandleUpload)
BodyExact ==
  phase = "body" /\ told = "end" /\ req # NoRequest
    => got = Units(req, Total(sent[req]))

\* As long as no read of a body failed, the answers on the connection are
\* those to the client's requests, one each and in their order; only a head
\* that begins with the end of a chunked body is refused, and that is the
\* last answer.
AnswersInOrder ==
  ~failed => \A i \in DOMAIN answers :
               \/ answers[i] = i
               \/ /\ answers[i] = BadHead /\ i = Len(answers)
                  /\ phase = "closed" /\ i > 1 /\ sent[i - 1].chunked

\* A line of the framing is cut in two by the segments: FillPending returns
\* without receiving, because something is pending, and its caller asks again.
LineCut ==
  /\ InChunked /\ reader.pending # <<>>
  /\ \/ reader.left = SizeNext /\ Find(CRLF, reader.pending) = 0
     \/ reader.left = 0 /\ Len(reader.pending) < 2

\* A request that has been taken is done with: the thread comes back to wait
\* for a head, or leaves, whatever the client does; but for LineCut, and for a
\* client that does not read its answer (WriteResponse, TcpSocket::SendAll).
RequestsEnd ==
  phase \in {"body", "drain"} ~> (phase \in {"head", "blocked", "closed"} \/ LineCut)

=============================================================================
