------------------------------ MODULE MCNmoesiSharedL2 ---------------------------
(* Two first-level caches, one of two ways, that share a second-level cache over the main *)
(* memory.                                                                                *)
EXTENDS Nmoesi, TLC

CONSTANTS A, B, L2, MM, T1, T2

MCMods  == {A, B, L2, MM}
MCLow   == [m \in MCMods |-> IF m = MM THEN None ELSE IF m = L2 THEN MM ELSE L2]
MCAssoc == [m \in MCMods |-> IF m = A THEN 2 ELSE 1]
MCHome  == [t \in Threads |-> IF t = T1 THEN A ELSE B]

\* The blocks are interchangeable.
Symmetric == Permutations(Blocks)
=============================================================================
