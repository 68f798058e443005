---------------------------- MODULE MCSignedWrite ----------------------------
EXTENDS SignedWrite, TLC

CONSTANTS poster, asker, again, twice, trusted, newcomer, ada, bea, picture

MCKey == {trusted, newcomer}
MCKeyOf == [w \in Writer |-> IF w = poster THEN trusted ELSE newcomer]
MCEvents == [w \in Writer |-> IF w = poster THEN 2 ELSE 1]

\* A post of two events that references a blob, by a trusted key; and by a new one
\* three registrations, of which two reuse one client key for different names,
\* and the third asks for the first's name with its own.
MCRefs == [w \in Writer |-> IF w = poster THEN {picture} ELSE {}]
MCClientKey == [w \in Writer |-> CASE w = poster -> 1 [] w = twice -> 3 [] OTHER -> 2]
MCAsks == [w \in Writer |-> CASE w = poster -> NoName [] w = again -> bea [] OTHER -> ada]

\* The post by itself, and every two of the registrations.
MCTogether == {{poster}, {asker, again}, {asker, twice}, {again, twice}}
=============================================================================
