------------------------------- MODULE MCServer -------------------------------
EXTENDS Server

CONSTANTS w1, f1, r1, p1, ada, NoKey

MCKind ==
  [r \in Request |->
    CASE r = r1 -> "read" [] r = p1 -> "poll" [] r = f1 -> "form" [] OTHER -> "write"]

File(schema, tables, version, seeded, owner) ==
  [schema |-> schema, tables |-> tables, version |-> version, seeded |-> seeded, owner |-> owner]

\* A new file, two that predate versions, one of an earlier version, one of
\* another program, and one of a newer board.
MCFiles ==
  { File("none", 0, 0, FALSE, NoKey),
    File("board-v2", 1, 0, TRUE, NoKey), File("board-v2", 2, 0, TRUE, ada),
    File("board-v2", 2, 2, TRUE, ada), File("other", 1, 0, FALSE, NoKey),
    File("board-v2", 4, 4, TRUE, ada) }
=============================================================================
