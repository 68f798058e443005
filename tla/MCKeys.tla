------------------------------- MODULE MCKeys -------------------------------
EXTENDS OwnerCommands, Names, TLC

CONSTANTS k1, k2, k3, alice, alise, bob

MCKey == {k1, k2, k3}
MCName == {alice, alise, bob}

Spelling == (alice :> <<97, 108, 105, 99, 101>>) @@ (alise :> <<65, 108, 105, 115, 101>>)
              @@ (bob :> <<98, 111, 98>>)

\* "alice" and "Alise" are one edit apart; "bob" is far from both.
MCNear == {<<alice, alise>>, <<alise, alice>>}

ASSUME NamesAssumption == \A n \in MCName : IsName(Spelling[n]) /\ ~IsReserved(Spelling[n])
ASSUME DistanceAssumption == DistanceIsFewestEdits({97, 98}, 3)
ASSUME RelationAssumption ==
  MCNear = {<<m, n>> \in MCName \X MCName : m # n /\ LooksAlike(Spelling[m], Spelling[n])}

Symmetry ==
  Permutations(MCKey) \cup Permutations({alice, alise})
=============================================================================
