------------------------------ MODULE MCNmoesiPrivateL2 ---------------------------
(* Two first-level caches, each over a second-level cache of its own, over the main memory. *)
EXTENDS Nmoesi

CONSTANTS A, B, LA, LB, MM, T1, T2

MCMods  == {A, B, LA, LB, MM}
MCLow   == [m \in MCMods |-> CASE m = A -> LA [] m = B -> LB [] m = MM -> None [] OTHER -> MM]
MCAssoc == [m \in MCMods |-> 1]
MCHome  == [t \in Threads |-> IF t = T1 THEN A ELSE B]
=============================================================================
