------------------------------- MODULE MCBlobs -------------------------------
EXTENDS Blobs, TLC

CONSTANTS small, other, big

MCTwo == {small, big}
MCThree == {small, other, big}
MCSize == small :> 1 @@ other :> 1 @@ big :> 2
MCTwoSize == small :> 1 @@ big :> 2
=============================================================================
