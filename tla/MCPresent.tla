----------------------------- MODULE MCPresent -----------------------------
EXTENDS Present

ClientSymmetry == Permutations(Clients)

\* Copies at once and flips for the next frame.
AtOnce == {[ahead |-> 0, flip |-> FALSE], [ahead |-> 1, flip |-> TRUE]}

\* Up to two frames ahead.
Ahead == [ahead : 0..2, flip : BOOLEAN]
=============================================================================
