-------------------------- MODULE MCMpscGrayQueue --------------------------
EXTENDS MpscGrayQueue, TLC

\* The producers are interchangeable, and so are the units.
Symmetry == Permutations(Producers) \cup Permutations(Units)

=============================================================================
