---------------------------- MODULE MCConnection ----------------------------
EXTENDS Connection, TLC

CONSTANTS c1, c2

Plain == [kind |-> "read", fault |-> "none", length |-> 0, foreign |-> FALSE, expect |-> FALSE, close |-> FALSE]

\* A read, the last read of a connection, a poll and one from another site, a
\* write and one that is too large, an upload and one that waits to be told to
\* go on, and two heads that are no requests.
MCRequests ==
  { Plain,
    [Plain EXCEPT !.close = TRUE],
    [Plain EXCEPT !.kind = "poll"],
    [Plain EXCEPT !.kind = "write", !.length = 1, !.expect = TRUE],
    [Plain EXCEPT !.kind = "write", !.length = 2],
    [Plain EXCEPT !.kind = "put", !.length = 2],
    [Plain EXCEPT !.kind = "put", !.length = 1, !.expect = TRUE],
    [Plain EXCEPT !.kind = "poll", !.foreign = TRUE],
    [Plain EXCEPT !.fault = "chunked", !.length = 1],
    [Plain EXCEPT !.fault = "cut"] }

\* The other client takes the connection it wants, or is refused for it.
MCRequest == [k \in Client |-> IF k = c1 THEN MCRequests ELSE {[Plain EXCEPT !.kind = "put", !.length = 1]}]

MCMaxRequests == [k \in Client |-> IF k = c1 THEN 2 ELSE 1]
=============================================================================
