-------------------------------- MODULE MCVec --------------------------------
(***************************************************************************)
(* Small instances of ArenaVec, on the scaled-down arena of MCArena: an    *)
(* address fits in 7 bits and an element takes 2 of a block's 4 to 16      *)
(* bytes.                                                                  *)
(***************************************************************************)
EXTENDS ArenaVec

Powers == {1, 2, 4, 8, 16, 32, 64}

Raw(size, align) == [size |-> size, align |-> align, init |-> "raw"]
Value(size, align) == [size |-> size, align |-> align, init |-> "value"]

\* What is allocated around a vector.
NeighbourRequests == {Value(3, 1), Raw(2, 2)}
=============================================================================
