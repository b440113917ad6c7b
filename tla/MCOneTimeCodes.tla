--------------------------- MODULE MCOneTimeCodes ----------------------------
EXTENDS OneTimeCodes, TLC

\* a code made at time 1 ends at 2, and at 3 the Map finds it expired
MCTtl == [f \in Families |-> 1]

MCSymmetry == Permutations(Slots) \cup Permutations(Tags)

==============================================================================
