----------------------------- MODULE MCSessions ------------------------------
(***************************************************************************)
(* Model checking of the sessions of one account.                          *)
(***************************************************************************)
EXTENDS Sessions, TLC

CONSTANTS r1, r2

MCOneRequest  == {r1}
MCTwoRequests == {r1, r2}
Symmetry == Permutations(MCTwoRequests)

==============================================================================
