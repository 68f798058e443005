------------------------------- MODULE MCTree -------------------------------
EXTENDS Tree, TLC

CONSTANTS rev, log, ops, plan, own, ann

\* A container rev with a thread, rev/log, and a container, rev/ops, with a note
\* or a queue in it.
MCPath == {rev, log, ops, plan}
MCUp == rev :> Top @@ log :> rev @@ ops :> rev @@ plan :> ops
MCWanted == {<<rev, "container">>, <<log, "thread">>,
             <<ops, "container">>, <<plan, "note">>, <<plan, "queue">>}
=============================================================================
