--------------------------- MODULE MCModelLoader ---------------------------
(* A finite instance of ModelLoader.                                       *)
EXTENDS ModelLoader, TLC

CONSTANTS c1, c2, box

TwoClients == {c1, c2}
OneBox == {box}

ClientsAlike == Permutations(TwoClients)
=============================================================================
