-------------------------- MODULE MCHttpConnection --------------------------
EXTENDS HttpConnection

Shape(inChunks, sizes, stays) ==
  [chunked |-> inChunks, chunks |-> sizes, keep |-> stays]

\* No body, a body of two units, and the same body in one chunk and in two.
MCShapes ==
  {Shape(FALSE, <<>>, TRUE), Shape(FALSE, <<2>>, TRUE),
   Shape(FALSE, <<1>>, FALSE), Shape(TRUE, <<2>>, TRUE),
   Shape(TRUE, <<1, 1>>, TRUE)}
=============================================================================
