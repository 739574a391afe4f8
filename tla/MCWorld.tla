------------------------------ MODULE MCWorld ------------------------------
EXTENDS World, TLC

Symmetry == Permutations(Players)

\* Bound: what follows a race or a misplacement of a player is not explored
CleanOnly == raced = {} /\ misplaced = {}

=============================================================================
