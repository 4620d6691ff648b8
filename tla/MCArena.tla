------------------------------- MODULE MCArena -------------------------------
(***************************************************************************)
(* Small instances of Arena. The sizes of the code are scaled down: a      *)
(* block is 4-aligned and at least 4 bytes; growth stops at 16.            *)
(***************************************************************************)
EXTENDS Arena

Powers == {1, 2, 4, 8, 16, 32, 64}

Raw(size, align) == [size |-> size, align |-> align, init |-> "raw"]
Value(size, align) == [size |-> size, align |-> align, init |-> "value"]
Slice(size, align) == [size |-> size, align |-> align, init |-> "unwinds"]

\* Values and bytes, one strictly aligned, one slice whose iterator panics,
\* one empty request, one that overflows when padded, and one whose alignment
\* overflows when doubled.
MixedRequests == {Value(2, 2), Raw(3, 1), Raw(2, 8), Slice(3, 1), Raw(0, 1),
                  Raw(127, 4), Raw(1, 64)}

\* Sizes up to and beyond what is left of a retained block, none larger than
\* MAX_BLOCK_SIZE.
ReuseRequests == {Raw(3, 1), Raw(4, 4), Raw(7, 1), Raw(14, 2)}

\* Values only.
ValueRequests == {Value(1, 1), Value(3, 1)}
=============================================================================
