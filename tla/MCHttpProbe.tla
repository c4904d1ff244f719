----------------------------- MODULE MCHttpProbe -------------------------------
(***************************************************************************)
(* First lines that end before, at and after the end of the buffer, or do  *)
(* not end; statuses at the bounds of success, and another protocol.       *)
(***************************************************************************)
EXTENDS HttpProbe

Response(line, version, status) == [line |-> line, version |-> version, status |-> status]

SomeResponses ==
    {Response(line, "HTTP/1.1", 200) : line \in {0, Buffer, Buffer + 1}}
    \cup {Response(1, "HTTP/1.0", 399), Response(1, "HTTP/1.1", 400), Response(1, "ICY", 200)}
=============================================================================
