-------------------------------- MODULE MCBox --------------------------------
(***************************************************************************)
(* A small instance of ArenaBox: boxes of values with a destructor.        *)
(***************************************************************************)
EXTENDS ArenaBox

Powers == {1, 2, 4, 8, 16, 32, 64}

BoxRequests == {[size |-> 2, align |-> 2, init |-> "value"]}
=============================================================================
