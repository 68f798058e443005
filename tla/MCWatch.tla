------------------------------ MODULE MCWatch ------------------------------
(* Watch with one client: clients only read, and none sees another.         *)
EXTENDS Watch

\* The queue, and mentions of the owner; the thread, the note, once there is one,
\* and the first item, without what the owner writes; the container and what
\* concerns the owner, as `board brief` hands it out.
MCWatches == {[Deaf EXCEPT !.paths = {"queue"}, !.mentions = {Owner}],
              [Deaf EXCEPT !.paths = {"thread", "note"}, !.items = {1}, !.not_from = {Owner}],
              [Me(Owner) EXCEPT !.paths = {"home"}]}

\* The others may mention the owner.
MCMentions == [n \in Names |-> IF n = Owner THEN {{}} ELSE {{}, {Owner}}]

\* None of either, for the run about `board wait` alone.
MCNoWatch == {}
MCNoMentions == [n \in Names |-> {{}}]

=============================================================================
