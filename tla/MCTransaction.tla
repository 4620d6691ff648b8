---------------------------- MODULE MCTransaction ----------------------------
(***************************************************************************)
(* Small instances of Transaction, with the scaled sizes of MCArena.       *)
(***************************************************************************)
EXTENDS Transaction

Powers == {1, 2, 4, 8, 16, 32, 64}

Raw(size, align) == [size |-> size, align |-> align, init |-> "raw"]
Value(size, align) == [size |-> size, align |-> align, init |-> "value"]

\* A value whose end leaves the next one misaligned, and a request that
\* overflows when padded.
TxnRequests == {Value(3, 2), Raw(127, 4)}

\* One value: with stale checkpoints the interleavings are many.
ValueRequests == {Value(3, 2)}
=============================================================================
