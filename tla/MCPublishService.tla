------------------------- MODULE MCPublishService --------------------------
(***************************************************************************)
(* Instances of PublishService for TLC.                                     *)
(***************************************************************************)
EXTENDS PublishService, TLC

CONSTANTS c1, c2

TwoClients == {c1, c2}

\* Clients are interchangeable; used for safety only.
Symmetry == Permutations(TwoClients)

============================================================================
