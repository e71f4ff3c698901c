----------------------------- MODULE HttpClient -----------------------------
(***************************************************************************)
(* One call of the HTTP client (src/network/http_client.cpp): Execute and  *)
(* ExecuteStreaming, which uploads a file, and DownloadToFile.  The peer   *)
(* may be any program: it answers when it likes, also before it has the    *)
(* whole request, with or without an interim answer, frames the body in    *)
(* each way there is, and goes away at any moment, by closing the          *)
(* connection or by breaking it, with a part of the answer or all of it.   *)
(*                                                                         *)
(* The bytes are those of HttpBytes, cut wherever TCP may cut them.  Of    *)
(* the HttpBodyReader of a download, whose parsing is in HttpConnection,   *)
(* only what Read returns is modelled, and whether it does.  Not modelled: *)
(* TLS and the limits on heads and size lines.                             *)
(***************************************************************************)
EXTENDS Integers, Sequences, FiniteSets, HttpBytes

CONSTANTS
  Calls,      \* what is asked of the client
  Answers,    \* what the peer may answer
  Piece,      \* units read from the file at once (64 KB)
  MaxReason,  \* units of body kept of another answer than 200 (8192 bytes)
  None

Kinds    == {"memory", "file", "download"}
Framings == {"length", "chunked", "close"}
\* disk: what ReadFile finds of the announced length.
ASSUME CallsAssumption == Calls \subseteq [kind: Kinds, length: Nat, disk: Nat]
ASSUME AnswersAssumption ==
  /\ Answers \subseteq [interim: BOOLEAN, status: {200, 204, 403}, framing: Framings, chunks: Seq(Nat \ {0})]
  /\ None \notin Answers
ASSUME LimitsAssumption == Piece \in Nat \ {0} /\ MaxReason \in Nat

VARIABLES
  call,      \* the call
  phase,     \* where it is; "ok" and "failed" are what it returned
  wired,     \* units of the body sent
  canceled,  \* the transfer has been canceled
  peer,      \* the connection's other end: "open", "closed", "broken"
  given,     \* its answer, None before
  line,      \* bytes of it the client has not received
  buffer,    \* bytes received and not used
  status,    \* response.status
  body,      \* units of response.body, or of the file of a download
  late,      \* history variable: pieces sent after the cancel
  lost,      \* history variable: the peer went before all was sent
  stopped    \* history variable: a Recv of the body returned -1

request  == <<call, wired, late>>
response == <<buffer, status, body>>
remote   == <<peer, given, line, lost>>
vars == <<call, phase, wired, canceled, peer, given, line, buffer, status, body, late, lost, stopped>>

Interim == 100

Init ==
  /\ call \in Calls
  /\ phase = "connect" /\ wired = 0 /\ canceled = FALSE /\ late = 0
  /\ peer = "open" /\ given = None /\ line = <<>> /\ lost = FALSE
  /\ buffer = <<>> /\ status = 0 /\ body = 0 /\ stopped = FALSE

Goto(step) == phase' = step
Returned == phase \in {"ok", "failed"}

-----------------------------------------------------------------------------
(* The request                                                              *)

Connects ==
  /\ phase = "connect"
  /\ Goto("request")
  /\ UNCHANGED <<request, canceled, remote, response, stopped>>

\* PrepareRequest: the head, and a body that is in memory.
SendsRequest ==
  /\ phase = "request"
  /\ wired' = IF call.kind = "memory" THEN call.length ELSE 0
  /\ Goto(IF call.kind = "file" /\ call.length > 0 THEN "file" ELSE "answer")
  /\ UNCHANGED <<call, late, canceled, remote, response, stopped>>

\* TcpSocket::Connect or SendAll fails.
SendFails ==
  /\ phase \in {"connect", "request", "file"}
  /\ Goto("failed")
  /\ UNCHANGED <<request, canceled, remote, response, stopped>>

\* The peer stays connected and reads no more: SendAll, on a blocking socket
\* without a send timeout, never returns, and no cancel is looked at.
PeerStopsReading ==
  /\ phase \in {"request", "file"} /\ peer = "open"
  /\ phase = "file" => wired < call.disk
  /\ Goto("blocked")
  /\ UNCHANGED <<request, canceled, remote, response, stopped>>

\* wanted, and what ReadFile finds of it.
NextPiece == Min({Piece, call.length - wired, call.disk - wired})

SendsPiece ==
  /\ phase = "file" /\ wired < call.disk
  /\ wired' = wired + NextPiece
  /\ late' = IF canceled THEN late + 1 ELSE late
  /\ Goto("told")
  /\ UNCHANGED <<call, canceled, remote, response, stopped>>

\* Mutant: the end of the file is the end of the body.
FileShrankUnnoticed ==
  /\ phase = "file" /\ wired >= call.disk
  /\ Goto("answer")
  /\ UNCHANGED <<request, canceled, remote, response, stopped>>

\* "file shrank while sending".
FileShrank ==
  /\ phase = "file" /\ wired >= call.disk
  /\ Goto("failed")
  /\ UNCHANGED <<request, canceled, remote, response, stopped>>

\* Mutant: the callback's answer counts for the last piece only.
ToldAtEnd ==
  /\ phase = "told"
  /\ Goto(IF wired < call.length THEN "file" ELSE IF canceled THEN "failed" ELSE "answer")
  /\ UNCHANGED <<request, canceled, remote, response, stopped>>

\* The progress callback, the only place where an upload can be canceled.
Told ==
  /\ phase = "told"
  /\ Goto(IF canceled THEN "failed" ELSE IF wired < call.length THEN "file" ELSE "answer")
  /\ UNCHANGED <<request, canceled, remote, response, stopped>>

UserCancels ==
  /\ ~canceled /\ ~Returned
  /\ canceled' = TRUE
  /\ UNCHANGED <<request, phase, remote, response, stopped>>

-----------------------------------------------------------------------------
(* The peer                                                                 *)

HeadOf(code) == <<Line(code)>> \o CRLF \o CRLF
Bytes(a) ==
  (IF a.interim THEN HeadOf(Interim) ELSE <<>>) \o HeadOf(a.status)
    \o (IF a.framing = "chunked" THEN Chunked(0, a) ELSE Units(0, Total(a)))

PeerAnswers(a) ==
  /\ given = None /\ peer = "open" /\ phase \notin {"connect", "request", "blocked"} /\ ~Returned
  /\ given' = a
  /\ line' = Bytes(a)
  /\ UNCHANGED <<request, phase, canceled, peer, response, lost, stopped>>

\* n: how much of what is under way still arrives.
PeerGoes(how, n) ==
  /\ peer = "open" /\ phase \notin {"connect", "blocked"} /\ ~Returned
  /\ peer' = how
  /\ line' = Upto(line, n)
  /\ lost' = (given = None \/ n < Len(line))
  /\ UNCHANGED <<request, phase, canceled, given, response, stopped>>

-----------------------------------------------------------------------------
(* The head of the answer (ReadResponseHead)                                *)

HeadEnd == Find(CRLF \o CRLF, buffer)

HeadReceives(n) ==
  /\ phase = "answer" /\ HeadEnd = 0
  /\ buffer' = buffer \o Upto(line, n)
  /\ line' = After(line, n)
  /\ UNCHANGED <<request, phase, canceled, peer, given, lost, status, body, stopped>>

HeadStops ==
  /\ phase = "answer" /\ HeadEnd = 0
  /\ Goto("failed")
  /\ UNCHANGED <<request, canceled, remote, response, stopped>>

\* atoi of the second word of the first line.
Status == buffer[1].n

\* Mutant: what came with the interim answer is dropped.
LeftoverLost == IF Status = Interim THEN <<>> ELSE After(buffer, HeadEnd + 3)

Leftover == After(buffer, HeadEnd + 3)

\* What follows the head: nothing, the body, or the file.
Follows ==
  IF call.kind = "download"
  THEN IF Status = 200 THEN "reading" ELSE "reason"
  ELSE IF Status = 204 THEN "ok" ELSE "body"

HeadTaken ==
  /\ phase = "answer" /\ HeadEnd # 0
  /\ buffer' = Leftover
  /\ IF Status \in 100..199
     THEN UNCHANGED <<phase, status>>
     ELSE status' = Status /\ Goto(Follows)
  /\ UNCHANGED <<request, canceled, remote, body, stopped>>

-----------------------------------------------------------------------------
(* The body (ReadResponse, ReadChunkedBody)                                 *)

\* The units of body among bytes.
Bodies(bytes) == Cardinality({i \in DOMAIN bytes : bytes[i].kind = "data"})

SizeEnd   == Find(CRLF, buffer)
ChunkSize == SizeIn(Upto(buffer, SizeEnd - 1))
\* A size line, and the whole chunk with its CR LF unless it is the last.
ChunkHere ==
  /\ SizeEnd # 0
  /\ ChunkSize = 0 \/ Len(buffer) >= SizeEnd + 1 + ChunkSize + 2

\* More has to be received.
Wants ==
  CASE given.framing = "length"  -> Len(buffer) < Total(given)
    [] given.framing = "chunked" -> ~ChunkHere
    [] OTHER                     -> TRUE

BodyReceives(n) ==
  /\ phase = "body" /\ Wants
  /\ buffer' = buffer \o Upto(line, n)
  /\ line' = After(line, n)
  /\ UNCHANGED <<request, phase, canceled, peer, given, lost, status, body, stopped>>

LengthReached ==
  /\ phase = "body" /\ given.framing = "length" /\ ~Wants
  /\ body' = Bodies(Upto(buffer, Total(given)))
  /\ buffer' = <<>>
  /\ Goto("ok")
  /\ UNCHANGED <<request, canceled, remote, status, stopped>>

\* A line without a size is an error; size 0 is the end.
ChunkTaken ==
  /\ phase = "body" /\ given.framing = "chunked" /\ ~Wants
  /\ body' = body + Bodies(SubSeq(buffer, SizeEnd + 2, SizeEnd + 1 + ChunkSize))
  /\ buffer' = After(buffer, SizeEnd + 1 + ChunkSize + (IF ChunkSize = 0 THEN 0 ELSE 2))
  /\ Goto(IF SizeEnd = 1 THEN "failed" ELSE IF ChunkSize = 0 THEN "ok" ELSE "body")
  /\ UNCHANGED <<request, canceled, remote, status, stopped>>

\* Recv returns 0 only at the end of what a peer that closed has sent.
AtEnd == peer = "closed" /\ line = <<>>

\* Recv returns 0 or -1: the end of a body without a length, whichever it is.
BodyStops ==
  /\ phase = "body" /\ Wants
  /\ stopped' = ~AtEnd
  /\ IF given.framing = "close" THEN body' = Bodies(buffer) /\ Goto("ok")
     ELSE UNCHANGED body /\ Goto("failed")
  /\ UNCHANGED <<request, canceled, remote, buffer, status>>

-----------------------------------------------------------------------------
(* DownloadToFile                                                           *)

ReasonReceives(n) ==
  /\ phase = "reason"
  /\ buffer' = buffer \o Upto(line, n)
  /\ line' = After(line, n)
  /\ Goto(IF Len(buffer') > MaxReason THEN "ok" ELSE "reason")
  /\ UNCHANGED <<request, canceled, peer, given, lost, status, body, stopped>>

\* Mutant: it waits for the peer to close, whatever it sends.
ReasonStopsAtEnd ==
  /\ phase = "reason" /\ AtEnd
  /\ Goto("ok")
  /\ UNCHANGED <<request, canceled, remote, response, stopped>>

ReasonStops ==
  /\ phase = "reason"
  /\ Goto("ok")
  /\ UNCHANGED <<request, canceled, remote, response, stopped>>

\* Read returns 0: the length has been read; or the last size line, whatever
\* comes behind it; or the peer has closed the connection.
ReadsEnd ==
  CASE given.framing = "length"  -> Bodies(buffer) = Total(given)
    [] given.framing = "chunked" -> Find(<<Size(0)>> \o CRLF, buffer) # 0
    [] OTHER                     -> AtEnd

\* What came ends within a size line or the CR LF behind a chunk.
LineCut ==
  /\ given.framing = "chunked" /\ ~ReadsEnd
  /\ buffer # <<>> /\ buffer[Len(buffer)].kind \in {"size", "cr"}

\* Read has parsed what came, and its data are written to the file.
FileReads(n) ==
  /\ phase = "reading" /\ ~canceled /\ ~LineCut
  /\ buffer' = buffer \o Upto(line, n)
  /\ line' = After(line, n)
  /\ UNCHANGED <<request, phase, canceled, peer, given, lost, status, body, stopped>>

\* FillPending receives nothing while a part of a line is pending, and its
\* caller asks again, for ever; the cancel is looked at between two Reads only.
FileSpins ==
  /\ phase = "reading" /\ LineCut
  /\ Goto("spins")
  /\ UNCHANGED <<request, canceled, remote, response, stopped>>

FileEnds ==
  /\ phase = "reading" /\ ReadsEnd
  /\ body' = Bodies(buffer)
  /\ Goto("ok")
  /\ UNCHANGED <<request, canceled, remote, buffer, status, stopped>>

\* Recv or WriteFile fails, or a cancel is seen.
FileStops ==
  /\ phase = "reading"
  /\ Goto("failed")
  /\ UNCHANGED <<request, canceled, remote, response, stopped>>

-----------------------------------------------------------------------------

\* What the thread does without a byte from the peer.
Thread ==
  \/ Connects \/ SendsRequest \/ SendFails \/ SendsPiece \/ FileShrank \/ Told
  \/ HeadStops \/ HeadTaken
  \/ LengthReached \/ ChunkTaken \/ BodyStops
  \/ ReasonStops \/ FileSpins \/ FileEnds \/ FileStops

Receives == \E n \in 1..Len(line) :
  HeadReceives(n) \/ BodyReceives(n) \/ ReasonReceives(n) \/ FileReads(n)

Peer ==
  \/ \E a \in Answers : PeerAnswers(a)
  \/ \E how \in {"closed", "broken"}, n \in 0..Len(line) : PeerGoes(how, n)

Next == Thread \/ Receives \/ Peer \/ PeerStopsReading \/ UserCancels

Spec == Init /\ [][Next]_vars

\* The thread is scheduled, and Recv returns in 30 seconds; SendAll has no such
\* limit (PeerStopsReading).
FairSpec == Spec /\ WF_vars(Thread)

-----------------------------------------------------------------------------
(* Properties                                                               *)

\* A call that has succeeded has sent exactly the body it announced, whatever
\* became of the file meanwhile and however early the answer was
\* (ExecuteStreaming).
RequestExact == phase = "ok" => wired = (IF call.kind = "download" THEN 0 ELSE call.length)

\* What a client takes for the body of an answer: a 204 has none.
BodyOf(a) == IF a.status = 204 THEN 0 ELSE Total(a)

\* It returns the peer's answer, not an interim one, with exactly its body,
\* however the bytes were cut and framed.  Only a body without a length may be
\* short: in memory when the peer or a Recv broke off, which ReadResponse takes
\* for its end; in a file when the peer closed early (DownloadToFile).
ResponseExact ==
  phase = "ok" =>
    /\ given # None /\ status = given.status
    /\ \/ body = BodyOf(given)
       \/ call.kind = "download" /\ status # 200
       \/ /\ given.framing = "close"
          /\ IF call.kind = "download" THEN lost /\ peer = "closed" ELSE lost \/ stopped

\* An upload sends at most one piece after it was canceled (the progress
\* callback of ExecuteStreaming).
CancelHeeded == late <= 1

\* Every call returns, whatever the peer does or does not do; but for one whose
\* peer stays connected and reads no more (TcpSocket::SendAll), and a download
\* whose chunked framing is cut within a line (HttpBodyReader::FillPending).
CallEnds == <>(Returned \/ phase \in {"blocked", "spins"})
=============================================================================
