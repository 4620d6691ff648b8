------------------------------- MODULE Regions -------------------------------
(***************************************************************************)
(* Regions of arena memory: `size` bytes at offset `off` of block `blk`,   *)
(* as requested with alignment `align`.                                    *)
(***************************************************************************)
EXTENDS Integers

Disjoint(r, s) ==
  \/ r.blk # s.blk
  \/ r.off + r.size <= s.off
  \/ s.off + s.size <= r.off

\* r ends at or before offset `off` of block `blk`.
Below(r, blk, off) == r.blk < blk \/ (r.blk = blk /\ r.off + r.size <= off)

\* The bytes of region r, and of all the regions in S.
Bytes(r) == {r.blk} \X (r.off .. r.off + r.size - 1)
Footprint(S) == UNION {Bytes(r) : r \in S}
=============================================================================
