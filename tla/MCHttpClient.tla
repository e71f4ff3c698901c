---------------------------- MODULE MCHttpClient ----------------------------
EXTENDS HttpClient

\* A request in memory; a file as announced, one that has shrunk and one that
\* has grown, over two pieces; a download.
MCCalls ==
  {[kind |-> "memory", length |-> 1, disk |-> 0],
   [kind |-> "download", length |-> 0, disk |-> 0]}
  \cup {[kind |-> "file", length |-> 3, disk |-> d] : d \in {1, 3, 4}}

Answer(before, code, framed, sizes) ==
  [interim |-> before, status |-> code, framing |-> framed, chunks |-> sizes]

MCAnswers ==
  {Answer(i, 200, f, c) : i \in BOOLEAN, f \in Framings, c \in {<<>>, <<2>>, <<1, 1>>}}
  \cup {Answer(FALSE, 204, "close", <<>>), Answer(TRUE, 204, "length", <<1>>),
        Answer(FALSE, 403, "length", <<2>>), Answer(FALSE, 403, "chunked", <<1>>)}
=============================================================================
