----------------------------- MODULE ArenaProofs -----------------------------
(***************************************************************************)
(* Memory safety of the arena, for every value of the constants: also for  *)
(* a caller who rewinds to invalidated checkpoints, and for a system       *)
(* allocator that fails at any time. Then, for requests that fit a block   *)
(* of MAX_BLOCK_SIZE, that the cache behind alloc_slow's scan is exact.    *)
(***************************************************************************)
EXTENDS Arena, BlockLemmas, SequenceTheorems, WellFoundedInduction

\* The inductive invariant. Disjointness needs the cursor to bound what is
\* live, which needs the blocks ahead to be untouched and every checkpoint to
\* name a place inside its block.
IInv ==
  /\ TypeOK
  /\ CursorCoherent
  /\ CheckpointsRestorable
  /\ WellPlaced
  /\ NoOverlap

\* The part of it that does not depend on where the cursor stands in its block.
CursorlessIInv ==
  /\ blocks \in Seq(BlockType)
  /\ current \in 1 .. Len(blocks)
  /\ high_water_mark \in 1 .. Len(blocks) /\ current <= high_water_mark
  /\ largest_remaining_idx \in 1 .. Len(blocks)
  /\ next_block_size \in Nat /\ bytes_allocated \in Nat
  /\ bytes_reserved \in Nat /\ largest_remaining \in Nat
  /\ cur_base = current /\ cur_end = blocks[current].capacity
  /\ \A i \in current + 1 .. Len(blocks) : blocks[i].offset = 0
  /\ drop_registry \in Seq(RegionType)
  /\ ret \in {"ok", "none", "panic"}
  /\ live \subseteq RegionType
  /\ checkpoints \subseteq CheckpointType
  /\ CheckpointsRestorable
  /\ \A r \in live : /\ r.blk <= Len(blocks)
                     /\ r.off + r.size <= blocks[r.blk].capacity
                     /\ r.off % r.align = 0 /\ r.align <= blocks[r.blk].align
  /\ NoOverlap

LEMMA PartOfIInv == IInv => CursorlessIInv
  BY DEF IInv, CursorlessIInv, TypeOK, CursorCoherent, WellPlaced

\* What no call does to the blocks: drop, shrink or move one.
BlocksKept ==
  /\ Len(blocks) <= Len(blocks')
  /\ \A i \in 1 .. Len(blocks) : /\ blocks'[i].capacity = blocks[i].capacity
                                 /\ blocks'[i].align = blocks[i].align

-----------------------------------------------------------------------------
\* A request with a size asks for a positive number of bytes at a power of two.
LEMMA RequestTyped ==
  ASSUME NEW q \in RequestType
  PROVE  /\ q.size \in Nat /\ q.align \in Pow2 /\ q.align \in Nat \ {0}
         /\ q.init \in Fillings
  BY BlockAssumption DEF RequestType

\* compute_largest_remaining returns an index at or after where it starts.
LEMMA LargestAfterRange ==
  ASSUME NEW bs \in Seq(BlockType), NEW from \in 1 .. Len(bs)
  PROVE  LargestAfter(bs, from) \in from .. Len(bs)
<1>1. Len(bs) \in Nat
  BY LenProperties
<1> QED
  BY <1>1 DEF LargestAfter

\* A checkpoint that can be rewound to stays so.
LEMMA RestorableKept ==
  ASSUME CursorlessIInv, BlocksKept, Len(blocks') \in Nat,
         NEW c \in CheckpointType, Restorable(c)
  PROVE  Restorable(c)'
<1>1. c.block_idx \in 1 .. Len(blocks) /\ Len(blocks) \in Nat
  BY LenProperties DEF CursorlessIInv, CheckpointType, Restorable
<1> QED
  BY <1>1 DEF BlocksKept, Restorable

\* So every checkpoint the caller goes on holding can be rewound to.
LEMMA CheckpointsKept ==
  ASSUME CursorlessIInv, BlocksKept, blocks' \in Seq(BlockType),
         checkpoints' \subseteq checkpoints
  PROVE  CheckpointsRestorable'
<1>1. Len(blocks') \in Nat
  BY LenProperties
<1>2. \A c \in checkpoints : c \in CheckpointType /\ Restorable(c)
  BY DEF CursorlessIInv, CheckpointsRestorable
<1>3. \A c \in checkpoints : Restorable(c)'
  BY <1>1, <1>2, RestorableKept
<1> QED
  BY <1>3 DEF CheckpointsRestorable

\* set_current_block leaves a coherent cursor when the blocks after the new
\* current one are empty.
LEMMA SetCurrentBlockCoherent ==
  ASSUME CursorlessIInv,
         NEW bs \in Seq(BlockType), NEW idx \in 1 .. Len(bs),
         Len(blocks) <= Len(bs),
         bs[idx].offset <= bs[idx].capacity,
         \A i \in idx + 1 .. Len(bs) : bs[i].offset = 0,
         SetCurrentBlock(bs, idx)
  PROVE  /\ blocks' \in Seq(BlockType)
         /\ current' \in 1 .. Len(blocks')
         /\ high_water_mark' \in 1 .. Len(blocks')
         /\ largest_remaining_idx' \in 1 .. Len(blocks')
         /\ largest_remaining' \in Nat
         /\ cur_base' \in 1 .. Len(blocks') /\ cur_ptr' \in Nat /\ cur_end' \in Nat
         /\ CursorCoherent'
<1>1. Len(bs) \in Nat /\ Len(blocks) \in Nat
  BY LenProperties DEF CursorlessIInv
<1>2. \A i \in 1 .. Len(bs) : bs[i] \in BlockType
  BY ElementOfSeq
<1>3. \A i \in 1 .. Len(bs) : bs[i].capacity \in Nat /\ bs[i].offset \in Nat
  BY <1>2 DEF BlockType
<1> DEFINE keep    == largest_remaining_idx > idx
           largest == IF keep THEN largest_remaining_idx
                              ELSE LargestAfter(bs, idx)
<1>4. largest \in idx .. Len(bs)
  <2>1. largest_remaining_idx \in 1 .. Len(blocks)
    BY DEF CursorlessIInv
  <2>2. CASE keep
    BY <2>1, <2>2, <1>1
  <2>3. CASE ~keep
    <3>1. LargestAfter(bs, idx) \in idx .. Len(bs)
      BY LargestAfterRange
    <3> QED
      BY <2>3, <3>1
  <2> QED
    BY <2>2, <2>3
<1>5. /\ blocks' = bs /\ current' = idx
      /\ high_water_mark' = Larger(high_water_mark, idx)
      /\ cur_base' = idx /\ cur_ptr' = bs[idx].offset
      /\ cur_end' = bs[idx].capacity
      /\ largest_remaining_idx' = largest
      /\ largest_remaining' = IF largest = idx THEN 0 ELSE Remaining(bs, largest)
  BY DEF SetCurrentBlock
<1> HIDE DEF largest
<1>6. largest_remaining' \in Nat
  <2>1. CASE largest = idx
    BY <2>1, <1>5
  <2>2. CASE largest # idx
    <3>1. largest \in idx + 1 .. Len(bs)
      BY <2>2, <1>1, <1>4
    <3>2. bs[largest].offset = 0 /\ bs[largest].capacity \in Nat
      BY <3>1, <1>3
    <3> QED
      BY <2>2, <3>2, <1>5 DEF Remaining
  <2> QED
    BY <2>1, <2>2
<1>7. high_water_mark' \in 1 .. Len(bs) /\ idx <= high_water_mark'
  BY <1>1, <1>5 DEF CursorlessIInv, Larger
<1>8. CursorCoherent'
  BY <1>5, <1>7 DEF CursorCoherent
<1> QED
  BY <1>1, <1>3, <1>4, <1>5, <1>6, <1>7, <1>8

\* What a step has to show of the regions: they stay placed and disjoint when a
\* region that starts at or after the old cursor is added and the cursor only
\* moves forward.
LEMMA RegionAdded ==
  ASSUME IInv,
         NEW r \in RegionType,
         live' = live \cup {r},
         blocks' \in Seq(BlockType),
         Len(blocks) <= Len(blocks'),
         \A i \in 1 .. Len(blocks) : /\ blocks'[i].capacity = blocks[i].capacity
                                     /\ blocks'[i].align = blocks[i].align,
         current' \in Nat, cur_ptr' \in Nat,
         r.blk = current' /\ r.off + r.size = cur_ptr',
         current < current' \/ (current = current' /\ cur_ptr <= r.off),
         r.blk <= Len(blocks'),
         cur_ptr' <= blocks'[r.blk].capacity,
         r.off % r.align = 0,
         r.align <= blocks'[r.blk].align
  PROVE  WellPlaced' /\ NoOverlap'
<1>1. /\ Len(blocks) \in Nat /\ Len(blocks') \in Nat
      /\ current \in Nat /\ cur_ptr \in Nat
  BY LenProperties DEF IInv, TypeOK
<1>2. \A s \in live : /\ s.blk \in Nat \ {0} /\ s.off \in Nat /\ s.size \in Nat
                      /\ s.blk \in 1 .. Len(blocks)
                      /\ s.off + s.size <= blocks[s.blk].capacity
                      /\ s.off % s.align = 0
                      /\ s.align <= blocks[s.blk].align
                      /\ Below(s, current, cur_ptr)
  <2>1. \A s \in live : s \in RegionType
    BY DEF IInv, TypeOK
  <2>2. \A s \in live : s.blk \in Nat \ {0} /\ s.off \in Nat /\ s.size \in Nat
    BY <2>1 DEF RegionType
  <2>3. \A s \in live : /\ s.blk <= Len(blocks)
                        /\ s.off + s.size <= blocks[s.blk].capacity
                        /\ s.off % s.align = 0
                        /\ s.align <= blocks[s.blk].align
                        /\ Below(s, current, cur_ptr)
    BY DEF IInv, WellPlaced
  <2> QED
    BY <2>2, <2>3, <1>1
<1>3. /\ r.blk \in Nat /\ r.off \in Nat /\ r.size \in Nat \ {0}
  BY DEF RegionType
<1>4. \A s \in live : Below(s, current', cur_ptr')
  <2> TAKE s \in live
  <2>1. /\ s.blk \in Nat /\ s.off \in Nat /\ s.size \in Nat
        /\ Below(s, current, cur_ptr)
    BY <1>2
  <2>2. CASE current < current'
    BY <2>1, <2>2, <1>1 DEF Below
  <2>3. CASE current = current' /\ cur_ptr <= r.off
    <3>1. cur_ptr <= cur_ptr'
      BY <2>3, <1>1, <1>3
    <3> QED
      BY <2>1, <2>3, <3>1, <1>1 DEF Below
  <2> QED
    BY <2>2, <2>3
<1>5. \A s \in live : Disjoint(r, s) /\ Disjoint(s, r)
  BY <1>1, <1>2, <1>3 DEF Below, Disjoint
<1>6. WellPlaced'
  <2> SUFFICES ASSUME NEW s \in live'
               PROVE  /\ s.blk <= Len(blocks')
                      /\ s.off + s.size <= blocks'[s.blk].capacity
                      /\ s.off % s.align = 0 /\ s.align <= blocks'[s.blk].align
                      /\ Below(s, current', cur_ptr')
    BY DEF WellPlaced
  <2>1. CASE s \in live
    <3>1. /\ s.blk \in 1 .. Len(blocks)
          /\ s.off + s.size <= blocks[s.blk].capacity
          /\ s.off % s.align = 0 /\ s.align <= blocks[s.blk].align
          /\ Below(s, current', cur_ptr')
      BY <2>1, <1>2, <1>4
    <3>2. /\ blocks'[s.blk].capacity = blocks[s.blk].capacity
          /\ blocks'[s.blk].align = blocks[s.blk].align
      BY <3>1
    <3> QED
      BY <3>1, <3>2, <1>1
  <2>2. CASE s = r
    BY <2>2, <1>3 DEF Below
  <2> QED
    BY <2>1, <2>2
<1>7. NoOverlap'
  BY <1>5 DEF IInv, NoOverlap
<1> QED
  BY <1>6, <1>7

-----------------------------------------------------------------------------
\* Calls that move no cursor and touch no block keep the invariant.
LEMMA UnmovedStep ==
  ASSUME IInv,
         UNCHANGED <<blocks, cursor, live, checkpoints>>,
         next_block_size' \in Nat, bytes_allocated' \in Nat,
         bytes_reserved' \in Nat,
         drop_registry' \in Seq(RegionType),
         ret' \in {"ok", "none", "panic"}
  PROVE  IInv' /\ BlocksKept
<1>1. BlocksKept
  BY LenProperties DEF IInv, TypeOK, BlocksKept
<1>2. TypeOK'
  BY DEF IInv, TypeOK, cursor
<1>3. CheckpointsRestorable'
  BY <1>1, <1>2, CheckpointsKept, PartOfIInv DEF TypeOK
<1>4. CursorCoherent' /\ WellPlaced' /\ NoOverlap'
  BY DEF IInv, CursorCoherent, WellPlaced, NoOverlap, cursor
<1> QED
  BY <1>1, <1>2, <1>3, <1>4 DEF IInv

\* A region granted by an allocation is typed and registered as a region.
LEMMA GrantType ==
  ASSUME TypeOK, NEW q \in RequestType, q.size > 0,
         NEW blk \in Nat \ {0}, NEW off \in Nat,
         Grant(q, blk, off),
         NEW r, r = [blk |-> blk, off |-> off,
                     size |-> q.size, align |-> q.align]
  PROVE  /\ r \in RegionType
         /\ live' = live \cup {r}
         /\ live' \subseteq RegionType
         /\ drop_registry' \in Seq(RegionType)
         /\ ret' \in {"ok", "none", "panic"}
         /\ checkpoints' = checkpoints
<1>1. r \in RegionType
  BY RequestTyped DEF RegionType
<1>2. /\ live' = live \cup {r} /\ checkpoints' = checkpoints
      /\ drop_registry' \in {drop_registry, Append(drop_registry, r)}
      /\ ret' \in {"ok", "panic"}
  BY DEF Grant
<1>3. drop_registry \in Seq(RegionType) /\ live \subseteq RegionType
  BY DEF TypeOK
<1>4. drop_registry' \in Seq(RegionType)
  BY <1>1, <1>2, <1>3, AppendProperties
<1> QED
  BY <1>1, <1>2, <1>3, <1>4

\* The fast path keeps the invariant.
LEMMA BumpStep ==
  ASSUME IInv, NEW q \in RequestType, Bump(q)
  PROVE  IInv' /\ BlocksKept
<1> DEFINE off == AlignUp(cur_ptr, q.align)
           r   == [blk |-> cur_base, off |-> off,
                   size |-> q.size, align |-> q.align]
<1>1. /\ q.size \in Nat \ {0} /\ q.align \in Nat \ {0} /\ q.align \in Pow2
      /\ q.align <= MIN_BLOCK_ALIGN /\ off + q.size <= cur_end
      /\ MIN_BLOCK_ALIGN \in Nat
  BY RequestTyped, BlockAssumption DEF Bump, FitsCurrent
<1>2. /\ Len(blocks) \in Nat /\ current \in 1 .. Len(blocks)
      /\ cur_base = current /\ cur_ptr \in Nat /\ cur_ptr <= cur_end
      /\ cur_end = blocks[current].capacity
  BY LenProperties DEF IInv, TypeOK, CursorCoherent
<1>3. blocks[current].align \in Nat /\ MIN_BLOCK_ALIGN <= blocks[current].align
  <2>1. blocks[current] \in BlockType
    BY <1>2, ElementOfSeq DEF IInv, TypeOK
  <2> QED
    BY <2>1, BlockAssumption DEF BlockType
<1>4. off \in Nat /\ cur_ptr <= off /\ off % q.align = 0
  BY <1>1, <1>2, AlignUpBounds, AlignUpAligned
<1>5. /\ cur_ptr' = off + q.size /\ Grant(q, cur_base, off)
      /\ UNCHANGED <<blocks, current, next_block_size, bytes_allocated,
                     bytes_reserved, cur_base, cur_end, high_water_mark,
                     largest_remaining, largest_remaining_idx>>
  BY DEF Bump
<1>6. /\ r \in RegionType /\ live' = live \cup {r} /\ live' \subseteq RegionType
      /\ drop_registry' \in Seq(RegionType)
      /\ ret' \in {"ok", "none", "panic"} /\ checkpoints' = checkpoints
  <2>1. TypeOK /\ cur_base \in Nat \ {0} /\ q.size > 0
    BY <1>1, <1>2 DEF IInv
  <2> HIDE DEF off
  <2> QED
    BY <2>1, <1>4, <1>5, GrantType
<1>7. TypeOK'
  <2>1. cur_ptr' \in Nat
    BY <1>1, <1>4, <1>5
  <2> QED
    BY <2>1, <1>5, <1>6 DEF IInv, TypeOK
<1>8. CursorCoherent'
  BY <1>1, <1>2, <1>5 DEF IInv, CursorCoherent
<1>9. BlocksKept /\ CheckpointsRestorable'
  <2>1. BlocksKept
    BY <1>5, LenProperties DEF IInv, TypeOK, BlocksKept
  <2> QED
    BY <2>1, <1>6, <1>7, CheckpointsKept, PartOfIInv DEF TypeOK
<1>10. /\ r.blk = current' /\ r.off = off /\ r.size = q.size
       /\ r.align = q.align
  BY <1>2, <1>5
<1> HIDE DEF off, r
<1>11. WellPlaced' /\ NoOverlap'
  <2>1. /\ r.off + r.size = cur_ptr' /\ r.off % r.align = 0
        /\ current = current' /\ cur_ptr <= r.off
        /\ r.blk <= Len(blocks') /\ cur_ptr' <= blocks'[r.blk].capacity
        /\ r.align <= blocks'[r.blk].align
        /\ current' \in Nat /\ cur_ptr' \in Nat
        /\ blocks' = blocks /\ blocks' \in Seq(BlockType)
    <3>1. blocks' = blocks /\ blocks' \in Seq(BlockType) /\ current' = current
      BY <1>5 DEF IInv, TypeOK
    <3>2. r.blk = current /\ blocks'[r.blk] = blocks[current]
      BY <3>1, <1>10
    <3> QED
      BY <3>1, <3>2, <1>1, <1>2, <1>3, <1>4, <1>5, <1>10
  <2> QED
    BY <2>1, <1>2, <1>6, <1>10, RegionAdded
<1> QED
  BY <1>7, <1>8, <1>9, <1>11 DEF IInv

\* Flushing the cursor into the current block keeps every block's type, size
\* and alignment, and the offsets of the blocks ahead.
LEMMA FlushedBlocksType ==
  ASSUME IInv
  PROVE  /\ FlushedBlocks \in Seq(BlockType)
         /\ Len(FlushedBlocks) = Len(blocks)
         /\ \A i \in 1 .. Len(blocks) :
              /\ FlushedBlocks[i].capacity = blocks[i].capacity
              /\ FlushedBlocks[i].align = blocks[i].align
              /\ i # current => FlushedBlocks[i] = blocks[i]
         /\ FlushedBytes \in Nat
<1>1. /\ blocks \in Seq(BlockType) /\ current \in 1 .. Len(blocks)
      /\ cur_ptr \in Nat /\ bytes_allocated \in Nat
  BY DEF IInv, TypeOK
<1>2. blocks[current] \in BlockType
  BY <1>1, ElementOfSeq
<1>3. [blocks[current] EXCEPT !.offset = cur_ptr] \in BlockType
  BY <1>1, <1>2 DEF BlockType
<1>4. FlushedBlocks
        = [blocks EXCEPT ![current] = [blocks[current] EXCEPT !.offset = cur_ptr]]
  BY DEF FlushedBlocks
<1>5. FlushedBlocks \in Seq(BlockType) /\ Len(FlushedBlocks) = Len(blocks)
  BY <1>1, <1>3, <1>4, ExceptSeq
<1>6. DOMAIN blocks = 1 .. Len(blocks)
  BY <1>1, LenProperties
<1>7. ASSUME NEW i \in 1 .. Len(blocks)
      PROVE  /\ FlushedBlocks[i].capacity = blocks[i].capacity
             /\ FlushedBlocks[i].align = blocks[i].align
             /\ i # current => FlushedBlocks[i] = blocks[i]
  <2>1. blocks[i] \in BlockType
    BY <1>1, ElementOfSeq
  <2> QED
    BY <2>1, <1>2, <1>4, <1>6, <1>7 DEF BlockType
<1> QED
  BY <1>1, <1>5, <1>7 DEF FlushedBytes

\* A slow path that ends in a block ahead of the cursor keeps the invariant.
LEMMA MovedStep ==
  ASSUME IInv, NEW q \in RequestType, q.size > 0,
         NEW bs \in Seq(BlockType), Len(blocks) <= Len(bs),
         NEW i \in current + 1 .. Len(bs), NEW off \in Nat,
         \A j \in 1 .. Len(blocks) : /\ bs[j].capacity = blocks[j].capacity
                                     /\ bs[j].align = blocks[j].align,
         \A j \in i + 1 .. Len(bs) : bs[j].offset = 0,
         bs[i].offset = off + q.size,
         off + q.size <= bs[i].capacity,
         off % q.align = 0, q.align <= bs[i].align,
         SetCurrentBlock(bs, i), Grant(q, i, off),
         next_block_size' \in Nat, bytes_allocated' \in Nat,
         bytes_reserved' \in Nat
  PROVE  IInv' /\ BlocksKept
<1> DEFINE r == [blk |-> i, off |-> off, size |-> q.size, align |-> q.align]
<1>1. /\ q.size \in Nat \ {0} /\ q.align \in Nat \ {0} /\ q.align \in Pow2
  BY RequestTyped
<1>2. /\ Len(blocks) \in Nat /\ Len(bs) \in Nat
      /\ current \in 1 .. Len(blocks) /\ cur_ptr \in Nat
      /\ i \in 1 .. Len(bs) /\ current < i /\ i \in Nat \ {0}
  BY LenProperties DEF IInv, TypeOK
<1>3. /\ r \in RegionType /\ live' = live \cup {r} /\ live' \subseteq RegionType
      /\ drop_registry' \in Seq(RegionType)
      /\ ret' \in {"ok", "none", "panic"} /\ checkpoints' = checkpoints
  BY <1>2, GrantType DEF IInv
<1>4. /\ r.blk = i /\ r.off = off /\ r.size = q.size /\ r.align = q.align
  OBVIOUS
<1> HIDE DEF r
<1>5. /\ blocks' = bs /\ current' = i /\ cur_ptr' = off + q.size
  BY DEF SetCurrentBlock
<1>6. /\ blocks' \in Seq(BlockType)
      /\ current' \in 1 .. Len(blocks')
      /\ high_water_mark' \in 1 .. Len(blocks')
      /\ largest_remaining_idx' \in 1 .. Len(blocks')
      /\ largest_remaining' \in Nat
      /\ cur_base' \in 1 .. Len(blocks') /\ cur_ptr' \in Nat /\ cur_end' \in Nat
      /\ CursorCoherent'
  BY <1>2, SetCurrentBlockCoherent, PartOfIInv
<1>7. TypeOK'
  BY <1>3, <1>6 DEF IInv, TypeOK
<1>8. BlocksKept /\ CheckpointsRestorable'
  BY <1>3, <1>5, <1>6, CheckpointsKept, PartOfIInv DEF BlocksKept
<1>9. WellPlaced' /\ NoOverlap'
  <2>1. /\ blocks'[r.blk] = bs[i] /\ r.blk <= Len(blocks')
        /\ Len(blocks) <= Len(blocks')
        /\ r.blk = current' /\ r.off + r.size = cur_ptr'
        /\ current < current' /\ current' \in Nat
    BY <1>2, <1>4, <1>5
  <2>2. \A j \in 1 .. Len(blocks) : /\ blocks'[j].capacity = blocks[j].capacity
                                    /\ blocks'[j].align = blocks[j].align
    BY <1>5
  <2>3. /\ cur_ptr' <= blocks'[r.blk].capacity /\ r.off % r.align = 0
        /\ r.align <= blocks'[r.blk].align
    BY <2>1, <1>4, <1>5
  <2> QED
    BY <2>1, <2>2, <2>3, <1>3, <1>6, RegionAdded
<1> QED
  BY <1>6, <1>7, <1>8, <1>9 DEF IInv

\* Moving into a retained block keeps the invariant.
LEMMA ReuseBlockStep ==
  ASSUME IInv, NEW q \in RequestType, ReuseBlock(q)
  PROVE  IInv' /\ BlocksKept
<1>1. PICK i \in current + 1 .. Len(blocks) :
        LET new == BumpedOffset(blocks[i], q.size, q.align) IN
        /\ Reusable(q, i)
        /\ SetCurrentBlock([FlushedBlocks EXCEPT ![i].offset = new], i)
        /\ bytes_allocated' = FlushedBytes + (new - blocks[i].offset)
        /\ Grant(q, i, new - q.size)
        /\ UNCHANGED <<next_block_size, bytes_reserved>>
  BY DEF ReuseBlock
<1> DEFINE off == AlignUp(blocks[i].offset, q.align)
           new == BumpedOffset(blocks[i], q.size, q.align)
           blk == [blocks[i] EXCEPT !.offset = new]
           bs  == [FlushedBlocks EXCEPT ![i].offset = new]
<1>2. /\ q.size \in Nat \ {0} /\ q.align \in Nat \ {0}
  BY RequestTyped DEF ReuseBlock
<1>3. /\ Len(blocks) \in Nat /\ current \in 1 .. Len(blocks)
      /\ i \in 1 .. Len(blocks) /\ current < i /\ blocks \in Seq(BlockType)
  BY LenProperties DEF IInv, TypeOK
<1>4. blocks[i] \in BlockType /\ blocks[i].offset = 0
  BY <1>3, ElementOfSeq DEF IInv, CursorCoherent
<1>5. off \in Nat /\ off % q.align = 0
  <2>1. blocks[i].offset \in Nat
    BY <1>4
  <2> QED
    BY <2>1, <1>2, AlignUpBounds, AlignUpAligned
<1>6. new = off + q.size /\ new \in Nat /\ new - q.size = off
  BY <1>2, <1>5 DEF BumpedOffset
<1>7. q.align <= blocks[i].align /\ new <= blocks[i].capacity
  BY <1>1, <1>4, <1>2, <1>6 DEF Reusable, BlockFits
<1>8. /\ FlushedBlocks \in Seq(BlockType) /\ Len(FlushedBlocks) = Len(blocks)
      /\ DOMAIN FlushedBlocks = 1 .. Len(blocks)
      /\ FlushedBlocks[i] = blocks[i]
  BY <1>3, FlushedBlocksType, LenProperties
<1>9. /\ blk \in BlockType /\ blk.offset = new
      /\ blk.capacity = blocks[i].capacity /\ blk.align = blocks[i].align
  BY <1>4, <1>6 DEF BlockType
<1>10. bs = [FlushedBlocks EXCEPT ![i] = blk]
  BY <1>8
<1> HIDE DEF blk, bs, off, new
<1>11. /\ bs \in Seq(BlockType) /\ Len(bs) = Len(blocks) /\ bs[i] = blk
       /\ \A j \in 1 .. Len(blocks) : j # i => bs[j] = FlushedBlocks[j]
  BY <1>3, <1>8, <1>9, <1>10, ExceptSeq
<1>12. \A j \in 1 .. Len(blocks) : /\ bs[j].capacity = blocks[j].capacity
                                   /\ bs[j].align = blocks[j].align
  BY <1>3, <1>9, <1>11, FlushedBlocksType
<1>13. \A j \in i + 1 .. Len(bs) : bs[j].offset = 0
  <2> TAKE j \in i + 1 .. Len(bs)
  <2>1. j \in 1 .. Len(blocks) /\ j # i /\ j # current
        /\ j \in current + 1 .. Len(blocks)
    BY <1>3, <1>11
  <2>2. bs[j] = blocks[j] /\ blocks[j].offset = 0
    BY <2>1, <1>11, FlushedBlocksType DEF IInv, CursorCoherent
  <2> QED
    BY <2>2
<1>14. bytes_allocated' \in Nat
  BY <1>1, <1>4, <1>6, FlushedBlocksType DEF new
<1>15. SetCurrentBlock(bs, i) /\ Grant(q, i, off)
  BY <1>1, <1>6 DEF bs, new
<1>16. next_block_size' \in Nat /\ bytes_reserved' \in Nat
  BY <1>1 DEF IInv, TypeOK
<1>17. /\ Len(blocks) <= Len(bs) /\ i \in current + 1 .. Len(bs)
       /\ bs[i].offset = off + q.size /\ off + q.size <= bs[i].capacity
       /\ q.align <= bs[i].align /\ q.size > 0
  BY <1>2, <1>3, <1>6, <1>7, <1>9, <1>11
<1> QED
  BY <1>5, <1>11, <1>12, <1>13, <1>14, <1>15, <1>16, <1>17, MovedStep

\* Moving into a new block keeps the invariant.
LEMMA OpenBlockStep ==
  ASSUME IInv, NEW q \in RequestType, OpenBlock(q)
  PROVE  IInv' /\ BlocksKept
<1> DEFINE capacity == BlockSizeFor(next_block_size, q.size, q.align)
           block == NewBlock(capacity, q.align)
           new   == BumpedOffset(block, q.size, q.align)
           off   == AlignUp(0, q.align)
           blk   == [block EXCEPT !.offset = new]
           bs    == Append(FlushedBlocks, blk)
           n     == Len(blocks) + 1
<1>1. /\ q.size \in Nat \ {0} /\ q.align \in Nat \ {0} /\ q.align \in Pow2
  BY RequestTyped DEF OpenBlock, NeedsBlock
<1>2. next_block_size \in Nat /\ bytes_reserved \in Nat
  BY DEF IInv, TypeOK
<1>3. capacity \in Nat \ {0} /\ BlockFits(block, q.size, q.align)
  BY <1>1, <1>2, BlockSizeBounds, FreshBlockFits
<1>4. /\ next_block_size' = GrowNextSize(capacity)
      /\ bytes_reserved' = bytes_reserved + capacity
      /\ bytes_allocated' = FlushedBytes + new
      /\ SetCurrentBlock(bs, n) /\ Grant(q, n, new - q.size)
  BY DEF OpenBlock
<1>5. next_block_size' \in Nat
  BY <1>3, <1>4, GrowNextSizeType
<1>6. bytes_reserved' \in Nat
  BY <1>2, <1>3, <1>4
<1> HIDE DEF capacity
<1>7. /\ block \in BlockType /\ block.capacity = capacity
      /\ block.offset = 0 /\ q.align <= block.align
  BY <1>1, <1>3, NewBlockType
<1>8. off \in Nat /\ off % q.align = 0
  BY <1>1, AlignUpBounds, AlignUpAligned
<1> HIDE DEF block
<1>9. new = off + q.size
  BY <1>7 DEF BumpedOffset
<1> HIDE DEF off
<1>10. new \in Nat /\ new - q.size = off /\ new <= block.capacity
  BY <1>1, <1>3, <1>8, <1>9 DEF BlockFits
<1> HIDE DEF new
<1>11. /\ blk \in BlockType /\ blk.offset = new
       /\ blk.capacity = block.capacity /\ blk.align = block.align
  BY <1>7, <1>10 DEF BlockType
<1> HIDE DEF blk
<1>12. /\ FlushedBlocks \in Seq(BlockType) /\ Len(FlushedBlocks) = Len(blocks)
       /\ FlushedBytes \in Nat /\ Len(blocks) \in Nat
       /\ current \in 1 .. Len(blocks)
  BY FlushedBlocksType, LenProperties DEF IInv, TypeOK
<1>13. /\ bs \in Seq(BlockType) /\ Len(bs) = n /\ bs[n] = blk
       /\ \A j \in 1 .. Len(blocks) : bs[j] = FlushedBlocks[j]
  BY <1>11, <1>12, AppendProperties
<1> HIDE DEF bs
<1>14. \A j \in 1 .. Len(blocks) : /\ bs[j].capacity = blocks[j].capacity
                                   /\ bs[j].align = blocks[j].align
  BY <1>13, FlushedBlocksType
<1>15. \A j \in n + 1 .. Len(bs) : bs[j].offset = 0
  BY <1>12, <1>13
<1>16. bytes_allocated' \in Nat
  BY <1>4, <1>10, <1>12
<1>17. /\ Len(blocks) <= Len(bs) /\ n \in current + 1 .. Len(bs)
       /\ bs[n].offset = off + q.size /\ off + q.size <= bs[n].capacity
       /\ q.align <= bs[n].align /\ q.size > 0
  BY <1>1, <1>7, <1>9, <1>10, <1>11, <1>12, <1>13
<1>18. SetCurrentBlock(bs, n) /\ Grant(q, n, off)
  BY <1>4, <1>10
<1> HIDE DEF n
<1> QED
  BY <1>5, <1>6, <1>8, <1>13, <1>14, <1>15, <1>16, <1>17, <1>18, MovedStep

\* A slow path that fails after its flush keeps the invariant, whatever it
\* has added to the counters.
LEMMA FailedStep ==
  ASSUME IInv, blocks' = FlushedBlocks,
         next_block_size' \in Nat, bytes_allocated' \in Nat,
         bytes_reserved' \in Nat,
         ret' \in {"ok", "none", "panic"},
         UNCHANGED <<cursor, drop_registry, live, checkpoints>>
  PROVE  IInv' /\ BlocksKept
<1>1. /\ blocks' = FlushedBlocks
      /\ UNCHANGED <<cursor, drop_registry, live, checkpoints>>
  OBVIOUS
<1>2. /\ blocks' \in Seq(BlockType) /\ Len(blocks') = Len(blocks)
      /\ \A i \in 1 .. Len(blocks) :
           /\ blocks'[i].capacity = blocks[i].capacity
           /\ blocks'[i].align = blocks[i].align
           /\ i # current => blocks'[i] = blocks[i]
  BY FlushedBlocksType
<1>3. Len(blocks) \in Nat /\ current \in 1 .. Len(blocks)
  BY LenProperties DEF IInv, TypeOK
<1>4. TypeOK'
  BY <1>1, <1>2 DEF IInv, TypeOK, cursor
<1>5. CursorCoherent'
  BY <1>1, <1>2, <1>3 DEF IInv, CursorCoherent, cursor
<1>6. BlocksKept /\ CheckpointsRestorable'
  <2>1. BlocksKept
    BY <1>2, <1>3 DEF BlocksKept
  <2> QED
    BY <2>1, <1>1, <1>2, CheckpointsKept, PartOfIInv
<1>7. WellPlaced'
  <2> SUFFICES ASSUME NEW s \in live
               PROVE  /\ s.blk <= Len(blocks')
                      /\ s.off + s.size <= blocks'[s.blk].capacity
                      /\ s.off % s.align = 0 /\ s.align <= blocks'[s.blk].align
                      /\ Below(s, current', cur_ptr')
    BY <1>1 DEF WellPlaced
  <2>1. s.blk \in 1 .. Len(blocks)
    BY <1>3 DEF IInv, TypeOK, RegionType, WellPlaced
  <2>2. current' = current /\ cur_ptr' = cur_ptr
    BY <1>1 DEF cursor
  <2> QED
    BY <2>1, <2>2, <1>2 DEF IInv, WellPlaced
<1>8. NoOverlap'
  BY <1>1 DEF IInv, NoOverlap
<1> QED
  BY <1>4, <1>5, <1>6, <1>7, <1>8 DEF IInv

\* A refused or overflowing request keeps the invariant.
LEMMA FailingCallStep ==
  ASSUME IInv, NEW q \in RequestType,
         \/ \E r \in {"none", "panic"} : OutOfMemory(q, r)
         \/ BlockNotListed(q)
         \/ SizeOverflow(q)
  PROVE  IInv' /\ BlocksKept
<1> DEFINE capacity == BlockSizeFor(next_block_size, q.size, q.align)
           block == NewBlock(capacity, q.align)
<1>1. /\ next_block_size \in Nat /\ bytes_reserved \in Nat
      /\ FlushedBytes \in Nat
  BY FlushedBlocksType DEF IInv, TypeOK
<1>2. q.size \in Nat \ {0} /\ q.align \in Nat \ {0} /\ q.align \in Pow2
  BY RequestTyped DEF OutOfMemory, BlockNotListed, SizeOverflow, NeedsBlock
<1>3. capacity \in Nat \ {0}
  BY <1>1, <1>2, BlockSizeBounds
<1>4. GrowNextSize(capacity) \in Nat
  BY <1>3, GrowNextSizeType
<1> HIDE DEF capacity
<1>5. CASE \E r \in {"none", "panic"} : OutOfMemory(q, r)
  <2>1. PICK r \in {"none", "panic"} : OutOfMemory(q, r)
    BY <1>5
  <2>2. /\ next_block_size' = GrowNextSize(capacity)
        /\ FailFlushed(r)
    BY <2>1 DEF OutOfMemory, capacity
  <2> QED
    BY <1>1, <1>4, <2>2, FailedStep DEF FailFlushed
<1>6. CASE BlockNotListed(q)
  <2>1. /\ next_block_size' = GrowNextSize(capacity)
        /\ bytes_reserved' = bytes_reserved + capacity
        /\ bytes_allocated' = FlushedBytes + BumpedOffset(block, q.size, q.align)
        /\ blocks' = FlushedBlocks /\ ret' = "panic"
        /\ UNCHANGED <<cursor, drop_registry, live, checkpoints>>
    BY <1>6 DEF BlockNotListed, capacity
  <2>2. BumpedOffset(block, q.size, q.align) \in Nat
    <3>1. block.offset = 0
      BY DEF NewBlock
    <3>2. AlignUp(0, q.align) \in Nat
      BY <1>2, AlignUpBounds
    <3> QED
      BY <1>2, <3>1, <3>2 DEF BumpedOffset
  <2> QED
    BY <1>1, <1>3, <1>4, <2>1, <2>2, FailedStep
<1>7. CASE SizeOverflow(q)
  BY <1>1, <1>7, FailedStep DEF SizeOverflow, FailFlushed
<1> QED
  BY <1>5, <1>6, <1>7

\* Popping the drop registry leaves a sequence of regions.
LEMMA UndroppedType ==
  ASSUME drop_registry \in Seq(RegionType), NEW len \in Nat
  PROVE  Undropped(len) \in Seq(RegionType)
<1> DEFINE n == Smaller(len, Len(drop_registry))
<1>1. drop_registry \in Seq(RegionType) /\ Len(drop_registry) \in Nat
  BY LenProperties
<1>2. n \in Nat /\ n <= Len(drop_registry)
  BY <1>1 DEF Smaller
<1> HIDE DEF n
<1>3. \A k \in 1 .. n : drop_registry[k] \in RegionType
  BY <1>1, <1>2, ElementOfSeq
<1>4. SubSeq(drop_registry, 1, n) \in Seq(RegionType)
  BY <1>1, <1>2, <1>3, SubSeqProperties
<1> QED
  BY <1>4 DEF Undropped, n

\* A function on 1 .. n is a sequence of length n.
LEMMA FunctionIsSeq ==
  ASSUME NEW S, NEW n \in Nat, NEW f \in [1 .. n -> S]
  PROVE  f \in Seq(S) /\ Len(f) = n
<1>1. f \in Seq(S)
  BY SMT
<1>2. DOMAIN f = 1 .. n /\ DOMAIN f = 1 .. Len(f) /\ Len(f) \in Nat
  BY <1>1, LenProperties
<1> QED
  BY <1>1, <1>2

\* Rewinding zeroes the blocks after the checkpoint's and keeps every block's
\* type, size and alignment.
LEMMA RewoundBlocksType ==
  ASSUME CursorlessIInv, NEW cp \in CheckpointType, Restorable(cp)
  PROVE  /\ RewoundBlocks(cp) \in Seq(BlockType)
         /\ Len(RewoundBlocks(cp)) = Len(blocks)
         /\ \A i \in 1 .. Len(blocks) :
              /\ RewoundBlocks(cp)[i].capacity = blocks[i].capacity
              /\ RewoundBlocks(cp)[i].align = blocks[i].align
              /\ i > cp.block_idx => RewoundBlocks(cp)[i].offset = 0
         /\ RewoundBlocks(cp)[cp.block_idx].offset = cp.offset
<1> DEFINE offset(i) == IF i = cp.block_idx THEN cp.offset
                        ELSE IF i \in cp.block_idx + 1 .. current THEN 0
                        ELSE blocks[i].offset
           bs == [i \in 1 .. Len(blocks) |->
                    [blocks[i] EXCEPT !.offset = offset(i)]]
<1>1. /\ Len(blocks) \in Nat /\ current \in 1 .. Len(blocks)
      /\ cp.block_idx \in 1 .. Len(blocks) /\ cp.offset \in Nat
  BY LenProperties DEF CursorlessIInv, CheckpointType, Restorable
<1>2. \A i \in 1 .. Len(blocks) :
        /\ blocks[i] \in BlockType
        /\ i > current => blocks[i].offset = 0
  BY <1>1, ElementOfSeq DEF CursorlessIInv
<1>3. \A i \in 1 .. Len(blocks) :
        /\ offset(i) \in Nat
        /\ i > cp.block_idx => offset(i) = 0
  BY <1>1, <1>2 DEF BlockType
<1>4. offset(cp.block_idx) = cp.offset
  OBVIOUS
<1> HIDE DEF offset
<1>5. \A i \in 1 .. Len(blocks) :
        /\ bs[i] \in BlockType /\ bs[i].offset = offset(i)
        /\ bs[i].capacity = blocks[i].capacity
        /\ bs[i].align = blocks[i].align
  BY <1>2, <1>3 DEF BlockType
<1>6. bs \in Seq(BlockType) /\ Len(bs) = Len(blocks)
  <2>1. bs \in [1 .. Len(blocks) -> BlockType]
    BY <1>5
  <2> HIDE DEF bs
  <2> QED
    BY <2>1, <1>1, FunctionIsSeq
<1>7. bs = RewoundBlocks(cp)
  BY DEF RewoundBlocks, offset
<1> HIDE DEF bs
<1> QED
  BY <1>1, <1>3, <1>4, <1>5, <1>6, <1>7

\* Rewinding, to a checkpoint that is valid or not, keeps the invariant, and
\* restores it wherever the cursor was.
LEMMA RewindStep ==
  ASSUME CursorlessIInv, NEW cp \in CheckpointType, Restorable(cp), Rewind(cp)
  PROVE  IInv' /\ BlocksKept
<1> DEFINE bs == RewoundBlocks(cp)
<1>1. /\ drop_registry' = Undropped(cp.drop_registry_len)
      /\ bytes_allocated' = cp.bytes_allocated - cp.offset
      /\ SetCurrentBlock(bs, cp.block_idx)
      /\ live' = {r \in live : Below(r, cp.block_idx, cp.offset)}
      /\ checkpoints' \subseteq checkpoints
      /\ ret' = "ok"
      /\ UNCHANGED <<next_block_size, bytes_reserved>>
  BY DEF Rewind, Keep
<1>2. /\ bs \in Seq(BlockType) /\ Len(bs) = Len(blocks)
      /\ \A i \in 1 .. Len(blocks) :
           /\ bs[i].capacity = blocks[i].capacity
           /\ bs[i].align = blocks[i].align
           /\ i > cp.block_idx => bs[i].offset = 0
      /\ bs[cp.block_idx].offset = cp.offset
  BY RewoundBlocksType
<1> HIDE DEF bs
<1>3. /\ Len(blocks) \in Nat
      /\ cp.block_idx \in 1 .. Len(blocks) /\ cp.offset \in Nat
      /\ cp.bytes_allocated \in Nat /\ cp.drop_registry_len \in Nat
      /\ cp.offset <= cp.bytes_allocated
      /\ cp.offset <= bs[cp.block_idx].capacity
  BY <1>2, LenProperties DEF CursorlessIInv, CheckpointType, Restorable
<1>4. blocks' = bs /\ current' = cp.block_idx /\ cur_ptr' = cp.offset
  BY <1>1, <1>2 DEF SetCurrentBlock
<1>5. \A i \in cp.block_idx + 1 .. Len(bs) : bs[i].offset = 0
  BY <1>2, <1>3
<1>6. /\ blocks' \in Seq(BlockType)
      /\ current' \in 1 .. Len(blocks')
      /\ high_water_mark' \in 1 .. Len(blocks')
      /\ largest_remaining_idx' \in 1 .. Len(blocks')
      /\ largest_remaining' \in Nat
      /\ cur_base' \in 1 .. Len(blocks') /\ cur_ptr' \in Nat /\ cur_end' \in Nat
      /\ CursorCoherent'
  <2>1. /\ bs \in Seq(BlockType) /\ cp.block_idx \in 1 .. Len(bs)
        /\ Len(blocks) <= Len(bs)
        /\ bs[cp.block_idx].offset <= bs[cp.block_idx].capacity
    BY <1>2, <1>3
  <2>2. SetCurrentBlock(bs, cp.block_idx)
    BY <1>1
  <2> QED
    BY <2>1, <2>2, <1>5, SetCurrentBlockCoherent
<1>7. drop_registry' \in Seq(RegionType)
  BY <1>1, <1>3, UndroppedType DEF CursorlessIInv
<1>8. bytes_allocated' \in Nat
  BY <1>1, <1>3
<1>9. TypeOK'
  BY <1>1, <1>6, <1>7, <1>8 DEF CursorlessIInv, TypeOK
<1>10. BlocksKept /\ CheckpointsRestorable'
  <2>1. BlocksKept
    BY <1>2, <1>3, <1>4 DEF BlocksKept
  <2> QED
    BY <2>1, <1>1, <1>6, CheckpointsKept
<1>11. WellPlaced'
  <2> SUFFICES ASSUME NEW s \in live, Below(s, cp.block_idx, cp.offset)
               PROVE  /\ s.blk <= Len(bs)
                      /\ s.off + s.size <= bs[s.blk].capacity
                      /\ s.off % s.align = 0 /\ s.align <= bs[s.blk].align
    BY <1>1, <1>4 DEF WellPlaced
  <2>1. s.blk \in 1 .. Len(blocks)
    BY <1>3 DEF CursorlessIInv, RegionType
  <2> QED
    BY <2>1, <1>2 DEF CursorlessIInv
<1>12. NoOverlap'
  BY <1>1 DEF CursorlessIInv, NoOverlap
<1> QED
  BY <1>6, <1>9, <1>10, <1>11, <1>12 DEF IInv

\* A panicking destructor moves no cursor.
LEMMA DropPanicsStep ==
  ASSUME IInv, NEW len \in Nat, NEW valid, DropPanics(len, valid),
         valid \subseteq checkpoints
  PROVE  IInv' /\ BlocksKept
<1>1. /\ drop_registry' = Undropped(len) /\ ret' = "panic"
      /\ checkpoints' \subseteq checkpoints
      /\ UNCHANGED <<blocks, cursor, next_block_size, bytes_allocated,
                     bytes_reserved, live>>
  BY DEF DropPanics, Keep
<1>2. drop_registry' \in Seq(RegionType)
  BY <1>1, UndroppedType DEF IInv, TypeOK
<1>3. TypeOK'
  BY <1>1, <1>2 DEF IInv, TypeOK, cursor
<1>4. CursorCoherent' /\ WellPlaced' /\ NoOverlap'
  BY <1>1 DEF IInv, CursorCoherent, WellPlaced, NoOverlap, cursor
<1>5. BlocksKept /\ CheckpointsRestorable'
  <2>1. BlocksKept
    BY <1>1, LenProperties DEF IInv, TypeOK, BlocksKept
  <2> QED
    BY <2>1, <1>1, <1>3, CheckpointsKept, PartOfIInv DEF TypeOK
<1> QED
  BY <1>3, <1>4, <1>5 DEF IInv

\* Zeroing the offsets up to the high-water mark empties every block.
LEMMA ResetBlocksType ==
  ASSUME CursorlessIInv
  PROVE  /\ ResetBlocks \in Seq(BlockType) /\ Len(ResetBlocks) = Len(blocks)
         /\ WholeBlocks \in Seq(BlockType) /\ Len(WholeBlocks) = Len(blocks)
         /\ \A i \in 1 .. Len(blocks) :
              /\ ResetBlocks[i].capacity = blocks[i].capacity
              /\ ResetBlocks[i].align = blocks[i].align
              /\ ResetBlocks[i].offset = 0
<1> DEFINE offset(i) == IF i <= high_water_mark THEN 0 ELSE blocks[i].offset
           bs == [i \in 1 .. Len(blocks) |->
                    [blocks[i] EXCEPT !.offset = offset(i)]]
           ws == [i \in 1 .. Len(blocks) |-> [blocks[i] EXCEPT !.offset = 0]]
<1>1. /\ Len(blocks) \in Nat /\ current \in 1 .. Len(blocks)
      /\ high_water_mark \in 1 .. Len(blocks) /\ current <= high_water_mark
  BY LenProperties DEF CursorlessIInv
<1>2. \A i \in 1 .. Len(blocks) :
        /\ blocks[i] \in BlockType
        /\ i > current => blocks[i].offset = 0
  BY <1>1, ElementOfSeq DEF CursorlessIInv
<1>3. \A i \in 1 .. Len(blocks) : offset(i) = 0
  BY <1>1, <1>2
<1> HIDE DEF offset
<1>4. \A i \in 1 .. Len(blocks) :
        /\ bs[i] \in BlockType /\ bs[i].offset = 0
        /\ bs[i].capacity = blocks[i].capacity
        /\ bs[i].align = blocks[i].align
  BY <1>2, <1>3 DEF BlockType
<1>5. \A i \in 1 .. Len(blocks) : ws[i] \in BlockType
  BY <1>2 DEF BlockType
<1>6. bs \in [1 .. Len(blocks) -> BlockType]
  BY <1>4
<1>7. ws \in [1 .. Len(blocks) -> BlockType]
  BY <1>5
<1>8. bs = ResetBlocks /\ ws = WholeBlocks
  BY DEF ResetBlocks, WholeBlocks, offset
<1> HIDE DEF bs, ws
<1>9. bs \in Seq(BlockType) /\ Len(bs) = Len(blocks)
  BY <1>1, <1>6, FunctionIsSeq
<1>10. ws \in Seq(BlockType) /\ Len(ws) = Len(blocks)
  BY <1>1, <1>7, FunctionIsSeq
<1> QED
  BY <1>4, <1>8, <1>9, <1>10

\* Resetting does too, whichever checkpoints the caller keeps.
LEMMA ResetStep ==
  ASSUME CursorlessIInv, Reset
  PROVE  IInv' /\ BlocksKept
<1> DEFINE largest == LargestAfter(WholeBlocks, 1)
<1>1. /\ drop_registry' = <<>> /\ blocks' = ResetBlocks
      /\ high_water_mark' = 1 /\ bytes_allocated' = 0
      /\ current' = 1 /\ cur_base' = 1
      /\ cur_ptr' = 0 /\ cur_end' = blocks[1].capacity
      /\ largest_remaining_idx' = largest
      /\ largest_remaining' = IF largest = 1 THEN 0 ELSE blocks[largest].capacity
      /\ live' = {} /\ checkpoints' \subseteq checkpoints /\ ret' = "ok"
      /\ UNCHANGED <<next_block_size, bytes_reserved>>
  BY DEF Reset, Keep
<1>2. /\ Len(blocks) \in Nat /\ 1 \in 1 .. Len(blocks)
      /\ \A i \in 1 .. Len(blocks) : blocks[i].capacity \in Nat
  <2>1. \A i \in 1 .. Len(blocks) : blocks[i] \in BlockType
    BY ElementOfSeq DEF CursorlessIInv
  <2>2. Len(blocks) \in Nat /\ current \in 1 .. Len(blocks)
    BY LenProperties DEF CursorlessIInv
  <2>3. \A i \in 1 .. Len(blocks) : blocks[i].capacity \in Nat
    BY <2>1 DEF BlockType
  <2> QED
    BY <2>2, <2>3
<1>3. largest \in 1 .. Len(blocks)
  BY <1>2, ResetBlocksType, LargestAfterRange
<1> HIDE DEF largest
<1>4. TypeOK'
  <2>1. drop_registry' \in Seq(RegionType)
    BY <1>1
  <2>2. blocks' \in Seq(BlockType) /\ Len(blocks') = Len(blocks)
    BY <1>1, ResetBlocksType
  <2>3. largest_remaining' \in Nat /\ cur_end' \in Nat
    BY <1>1, <1>2, <1>3
  <2>4. checkpoints' \subseteq CheckpointType
    BY <1>1 DEF CursorlessIInv
  <2>5. next_block_size' \in Nat /\ bytes_reserved' \in Nat
    BY <1>1 DEF CursorlessIInv
  <2> QED
    BY <2>1, <2>2, <2>3, <2>4, <2>5, <1>1, <1>2, <1>3 DEF TypeOK
<1>5. CursorCoherent'
  BY <1>1, <1>2, ResetBlocksType DEF CursorCoherent
<1>6. BlocksKept /\ CheckpointsRestorable'
  <2>1. BlocksKept
    BY <1>1, <1>2, ResetBlocksType DEF BlocksKept
  <2> QED
    BY <2>1, <1>1, CheckpointsKept, ResetBlocksType
<1>7. WellPlaced' /\ NoOverlap'
  BY <1>1 DEF WellPlaced, NoOverlap
<1> QED
  BY <1>4, <1>5, <1>6, <1>7 DEF IInv

\* A checkpoint of the current state is well-formed and can be rewound to.
LEMMA HereRestorable ==
  ASSUME IInv
  PROVE  Here \in CheckpointType /\ Restorable(Here)
<1>1. /\ current \in 1 .. Len(blocks) /\ Len(blocks) \in Nat
      /\ cur_ptr \in Nat /\ bytes_allocated \in Nat /\ Len(drop_registry) \in Nat
      /\ cur_ptr <= blocks[current].capacity
  BY LenProperties DEF IInv, TypeOK, CursorCoherent
<1> QED
  BY <1>1 DEF Here, CheckpointType, Restorable

\* Taking a checkpoint keeps the invariant.
LEMMA TakeCheckpointStep ==
  ASSUME IInv, TakeCheckpoint
  PROVE  IInv' /\ BlocksKept
<1>1. /\ checkpoints' = checkpoints \cup {Here} /\ ret' = "ok"
      /\ UNCHANGED <<blocks, cursor, next_block_size, bytes_allocated,
                     bytes_reserved, drop_registry, live>>
  BY DEF TakeCheckpoint
<1>2. Len(blocks) \in Nat
  BY LenProperties DEF IInv, TypeOK
<1>3. TypeOK'
  BY <1>1, HereRestorable DEF IInv, TypeOK, cursor
<1>4. BlocksKept
  BY <1>1, <1>2 DEF BlocksKept
<1>5. CheckpointsRestorable'
  <2>1. \A c \in checkpoints' : Restorable(c)
    BY <1>1, HereRestorable DEF IInv, CheckpointsRestorable
  <2> QED
    BY <2>1, <1>1 DEF CheckpointsRestorable, Restorable
<1>6. CursorCoherent' /\ WellPlaced' /\ NoOverlap'
  BY <1>1 DEF IInv, CursorCoherent, WellPlaced, NoOverlap, cursor
<1> QED
  BY <1>3, <1>4, <1>5, <1>6 DEF IInv

\* A request for no bytes, and one that overflows an address, change nothing.
LEMMA NoMemoryStep ==
  ASSUME IInv, NEW q, Empty(q) \/ AddressOverflow(q)
  PROVE  IInv' /\ BlocksKept
<1>1. /\ UNCHANGED <<blocks, cursor, next_block_size, bytes_allocated,
                     bytes_reserved, drop_registry, live, checkpoints>>
      /\ ret' \in {"ok", "none", "panic"}
  BY DEF Empty, AddressOverflow
<1>2. /\ next_block_size' \in Nat /\ bytes_allocated' \in Nat
      /\ bytes_reserved' \in Nat /\ drop_registry' \in Seq(RegionType)
  BY <1>1 DEF IInv, TypeOK
<1> QED
  BY <1>1, <1>2, UnmovedStep

\* Registering a destructor touches the registry only.
LEMMA RegisterDropStep ==
  ASSUME IInv, NEW r \in live, RegisterDrop(r)
  PROVE  IInv' /\ BlocksKept
<1>1. /\ UNCHANGED <<blocks, cursor, next_block_size, bytes_allocated,
                     bytes_reserved, live, checkpoints>>
      /\ drop_registry' \in {drop_registry, Append(drop_registry, r)}
      /\ ret' \in {"ok", "panic"}
  BY DEF RegisterDrop
<1>2. drop_registry' \in Seq(RegionType)
  <2>1. drop_registry \in Seq(RegionType) /\ r \in RegionType
    BY DEF IInv, TypeOK
  <2> QED
    BY <2>1, <1>1, AppendProperties
<1>3. /\ next_block_size' \in Nat /\ bytes_allocated' \in Nat
      /\ bytes_reserved' \in Nat
  BY <1>1 DEF IInv, TypeOK
<1> QED
  BY <1>1, <1>2, <1>3, UnmovedStep

-----------------------------------------------------------------------------
\* A new arena satisfies the invariant.
LEMMA InitIInv ==
  Init => IInv
<1> SUFFICES ASSUME Init PROVE IInv
  OBVIOUS
<1>1. PICK n \in InitialSizes :
        LET size == Larger(n, MIN_BLOCK_SIZE) IN
        /\ blocks = <<NewBlock(size, MIN_BLOCK_ALIGN)>>
        /\ current = 1
        /\ next_block_size = Smaller(2 * size, MAX_BLOCK_SIZE)
        /\ bytes_allocated = 0 /\ bytes_reserved = size
        /\ cur_base = 1 /\ cur_ptr = 0 /\ cur_end = size
        /\ high_water_mark = 1
        /\ largest_remaining = 0 /\ largest_remaining_idx = 1
        /\ drop_registry = <<>> /\ ret = "ok"
        /\ live = {} /\ checkpoints = {}
  BY DEF Init
<1> DEFINE size  == Larger(n, MIN_BLOCK_SIZE)
           block == NewBlock(size, MIN_BLOCK_ALIGN)
<1>2. size \in Nat \ {0} /\ MIN_BLOCK_ALIGN \in Pow2
  BY ArenaAssumption, BlockAssumption DEF Larger
<1>3. Smaller(2 * size, MAX_BLOCK_SIZE) \in Nat
  BY <1>2, BlockAssumption DEF Smaller
<1> HIDE DEF size
<1>4. block \in BlockType /\ block.capacity = size /\ block.offset = 0
  BY <1>2, NewBlockType
<1>5. /\ blocks = <<block>> /\ next_block_size = Smaller(2 * size, MAX_BLOCK_SIZE)
      /\ bytes_reserved = size /\ cur_end = size
  BY <1>1 DEF size
<1> HIDE DEF block
<1>6. blocks \in Seq(BlockType) /\ Len(blocks) = 1 /\ blocks[1] = block
  BY <1>4, <1>5
<1>7. TypeOK
  BY <1>1, <1>2, <1>3, <1>5, <1>6 DEF TypeOK
<1>8. CursorCoherent
  BY <1>1, <1>2, <1>4, <1>5, <1>6 DEF CursorCoherent
<1>9. CheckpointsRestorable /\ WellPlaced /\ NoOverlap
  BY <1>1 DEF CheckpointsRestorable, WellPlaced, NoOverlap
<1> QED
  BY <1>7, <1>8, <1>9 DEF IInv

\* An allocation, by whichever path it ends, keeps the invariant.
LEMMA AllocStep ==
  ASSUME IInv, NEW q \in RequestType, Alloc(q) \/ TryAlloc(q)
  PROVE  IInv' /\ BlocksKept
<1>1. CASE Empty(q) \/ AddressOverflow(q)
  BY <1>1, NoMemoryStep
<1>2. CASE Bump(q)
  BY <1>2, BumpStep
<1>3. CASE ReuseBlock(q)
  BY <1>3, ReuseBlockStep
<1>4. CASE OpenBlock(q)
  BY <1>4, OpenBlockStep
<1>5. CASE \/ \E r \in {"none", "panic"} : OutOfMemory(q, r)
           \/ BlockNotListed(q)
           \/ SizeOverflow(q)
  BY <1>5, FailingCallStep
<1> QED
  BY <1>1, <1>2, <1>3, <1>4, <1>5 DEF Alloc, TryAlloc

\* What an allocation changes of the regions and the registry: nothing, or one
\* region is handed out beyond the old cursor, up to the new one, and may be
\* registered.
LEMMA AllocationOutcome ==
  ASSUME IInv, NEW q \in RequestType, Alloc(q) \/ TryAlloc(q)
  PROVE  /\ checkpoints' = checkpoints
         /\ \/ /\ UNCHANGED <<live, drop_registry, cur_base, cur_ptr>>
               /\ q.size > 0 => ret' # "ok"
            \/ \E off \in Nat, r \in RegionType :
                 /\ r = [blk |-> cur_base', off |-> off,
                         size |-> q.size, align |-> q.align]
                 /\ off + q.size = cur_ptr'
                 /\ current < cur_base' \/ (current = cur_base' /\ cur_ptr <= off)
                 /\ live' = live \cup {r}
                 /\ drop_registry' \in {drop_registry, Append(drop_registry, r)}
                 /\ q.init = "raw" => ret' = "ok"
<1>1. /\ q.size \in Nat /\ q.align \in Nat \ {0} /\ q.align \in Pow2
  BY RequestTyped
<1>2. /\ blocks \in Seq(BlockType) /\ Len(blocks) \in Nat
      /\ current \in 1 .. Len(blocks) /\ cur_ptr \in Nat
      /\ next_block_size \in Nat /\ cur_base = current /\ TypeOK
  BY LenProperties DEF IInv, TypeOK, CursorCoherent
<1>3. ASSUME NEW blk \in Nat \ {0}, NEW off \in Nat, q.size > 0, Grant(q, blk, off),
             blk = cur_base', off + q.size = cur_ptr',
             current < blk \/ (current = blk /\ cur_ptr <= off)
      PROVE  /\ checkpoints' = checkpoints
             /\ \E off_ \in Nat, r \in RegionType :
                  /\ r = [blk |-> cur_base', off |-> off_,
                          size |-> q.size, align |-> q.align]
                  /\ off_ + q.size = cur_ptr'
                  /\ current < cur_base' \/ (current = cur_base' /\ cur_ptr <= off_)
                  /\ live' = live \cup {r}
                  /\ drop_registry' \in {drop_registry, Append(drop_registry, r)}
                  /\ q.init = "raw" => ret' = "ok"
  <2> DEFINE r == [blk |-> blk, off |-> off, size |-> q.size, align |-> q.align]
  <2>1. r \in RegionType
    BY <1>1, <1>3 DEF RegionType
  <2>2. /\ live' = live \cup {r} /\ checkpoints' = checkpoints
        /\ drop_registry' \in {drop_registry, Append(drop_registry, r)}
        /\ q.init = "raw" => ret' = "ok"
    BY <1>3 DEF Grant, Abandoned
  <2> QED
    BY <2>1, <2>2, <1>3
<1>4. CASE Empty(q) \/ AddressOverflow(q)
  BY <1>1, <1>4 DEF Empty, AddressOverflow, cursor
<1>5. CASE Bump(q)
  <2>1. /\ AlignUp(cur_ptr, q.align) \in Nat
        /\ cur_ptr <= AlignUp(cur_ptr, q.align)
    BY <1>1, <1>2, AlignUpBounds
  <2>2. /\ cur_ptr' = AlignUp(cur_ptr, q.align) + q.size /\ cur_base' = current
        /\ Grant(q, current, AlignUp(cur_ptr, q.align)) /\ q.size > 0
    BY <1>2, <1>5 DEF Bump
  <2> QED
    BY <2>1, <2>2, <1>2, <1>3
<1>6. CASE ReuseBlock(q)
  <2>1. PICK i \in current + 1 .. Len(blocks) :
          LET new == BumpedOffset(blocks[i], q.size, q.align) IN
          /\ SetCurrentBlock([FlushedBlocks EXCEPT ![i].offset = new], i)
          /\ Grant(q, i, new - q.size)
    BY <1>6 DEF ReuseBlock
  <2> DEFINE new == BumpedOffset(blocks[i], q.size, q.align)
             bs  == [FlushedBlocks EXCEPT ![i].offset = new]
  <2>2. i \in 1 .. Len(blocks) /\ blocks[i] \in BlockType
    BY <1>2, ElementOfSeq
  <2>3. new - q.size \in Nat /\ new \in Nat
    <3>1. blocks[i].offset \in Nat
      BY <2>2 DEF BlockType
    <3>2. AlignUp(blocks[i].offset, q.align) \in Nat
      BY <3>1, <1>1, AlignUpBounds
    <3>3. new = AlignUp(blocks[i].offset, q.align) + q.size
      BY DEF BumpedOffset
    <3> HIDE DEF new, bs
    <3> QED
      BY <3>2, <3>3, <1>1
  <2>4. bs[i].offset = new
    <3>1. /\ DOMAIN FlushedBlocks = 1 .. Len(blocks)
          /\ FlushedBlocks[i] \in BlockType
      BY <2>2, FlushedBlocksType, LenProperties, ElementOfSeq
    <3> QED
      BY <3>1, <2>2 DEF BlockType
  <2> HIDE DEF new
  <2>5. cur_base' = i /\ cur_ptr' = new
    BY <2>1, <2>4 DEF SetCurrentBlock, new
  <2>6. Grant(q, i, new - q.size)
    BY <2>1, <2>5, <1>6 DEF new, ReuseBlock
  <2>7. (new - q.size) + q.size = cur_ptr'
    BY <2>3, <2>5, <1>1
  <2>8. current < i /\ i \in Nat \ {0} /\ q.size > 0
    BY <2>1, <2>2, <1>1, <1>2, <1>6 DEF ReuseBlock
  <2> QED
    BY <2>3, <2>5, <2>6, <2>7, <2>8, <1>3
<1>7. CASE OpenBlock(q)
  <2> DEFINE capacity == BlockSizeFor(next_block_size, q.size, q.align)
             block == NewBlock(capacity, q.align)
             new   == BumpedOffset(block, q.size, q.align)
             blk   == [block EXCEPT !.offset = new]
             n     == Len(blocks) + 1
             bs    == Append(FlushedBlocks, blk)
  <2>1. SetCurrentBlock(bs, n) /\ Grant(q, n, new - q.size)
    BY <1>7 DEF OpenBlock
  <2>2. block \in BlockType /\ block.offset = 0
    <3>1. q.size \in Nat \ {0}
      BY <1>1, <1>7 DEF OpenBlock, NeedsBlock
    <3>2. capacity \in Nat \ {0}
      BY <3>1, <1>1, <1>2, BlockSizeBounds
    <3> QED
      BY <3>2, <1>1, NewBlockType
  <2> HIDE DEF block
  <2>3. new - q.size \in Nat /\ new \in Nat
    <3>1. AlignUp(0, q.align) \in Nat
      BY <1>1, AlignUpBounds
    <3>2. new = AlignUp(0, q.align) + q.size
      BY <2>2 DEF BumpedOffset
    <3> HIDE DEF new
    <3> QED
      BY <3>1, <3>2, <1>1
  <2> HIDE DEF new
  <2>4. blk \in BlockType /\ blk.offset = new
    BY <2>2, <2>3 DEF BlockType
  <2> HIDE DEF blk
  <2>5. bs[n] = blk
    BY <2>4, <1>2, FlushedBlocksType, AppendProperties
  <2> HIDE DEF bs, n
  <2>6. cur_base' = n /\ cur_ptr' = new
    BY <2>1, <2>4, <2>5 DEF SetCurrentBlock
  <2>7. (new - q.size) + q.size = cur_ptr' /\ current < n /\ n \in Nat \ {0}
    BY <2>3, <2>6, <1>1, <1>2 DEF n
  <2> QED
    BY <2>1, <2>3, <2>6, <2>7, <1>3, <1>7 DEF OpenBlock, NeedsBlock
<1>8. CASE \/ \E r \in {"none", "panic"} : OutOfMemory(q, r)
           \/ BlockNotListed(q)
           \/ SizeOverflow(q)
  BY <1>8 DEF OutOfMemory, BlockNotListed, SizeOverflow, FailFlushed, cursor
<1> QED
  BY <1>4, <1>5, <1>6, <1>7, <1>8 DEF Alloc, TryAlloc

\* Every call keeps the invariant and every block.
LEMMA NextIInv ==
  IInv /\ [Next]_vars => IInv' /\ BlocksKept
<1> SUFFICES ASSUME IInv, [Next]_vars PROVE IInv' /\ BlocksKept
  OBVIOUS
<1>1. CASE \E q \in Requests : Alloc(q) \/ TryAlloc(q)
  BY <1>1, AllocStep, ArenaAssumption
<1>2. CASE \E r \in live : RegisterDrop(r)
  BY <1>2, RegisterDropStep
<1>3. CASE TakeCheckpoint
  BY <1>3, TakeCheckpointStep
<1>4. CASE \E cp \in checkpoints : Rewind(cp)
  BY <1>4, RewindStep, PartOfIInv DEF IInv, TypeOK, CheckpointsRestorable
<1>5. CASE \E cp \in checkpoints : RewindPanics(cp)
  <2>1. PICK cp \in checkpoints : RewindPanics(cp)
    BY <1>5
  <2>2. cp.drop_registry_len \in Nat
    BY DEF IInv, TypeOK, CheckpointType
  <2>3. DropPanics(cp.drop_registry_len, {c \in checkpoints : NoLater(c, cp)})
    BY <2>1 DEF RewindPanics
  <2> QED
    BY <2>2, <2>3, DropPanicsStep
<1>6. CASE Reset
  BY <1>6, ResetStep, PartOfIInv
<1>7. CASE ResetPanics
  BY <1>7, DropPanicsStep DEF ResetPanics
<1>8. CASE UNCHANGED vars
  BY <1>8, UnmovedStep DEF vars, IInv, TypeOK
<1> QED
  BY <1>1, <1>2, <1>3, <1>4, <1>5, <1>6, <1>7, <1>8 DEF Next

\* The invariant holds in every reachable state.
LEMMA Inductive ==
  Spec => []IInv
<1>1. IInv /\ [Next]_vars => IInv'
  BY NextIInv
<1> QED
  BY <1>1, InitIInv, PTL DEF Spec

\* Every index and offset of the arena is in its domain: set_current_block,
\* rewind and reset never index past the block list.
THEOREM TypeCorrect ==
  Spec => []TypeOK
<1>1. IInv => TypeOK
  BY DEF IInv
<1> QED
  BY <1>1, Inductive, PTL

\* The cached pointers always describe the current block, so the fast path
\* bumps inside it.
THEOREM CursorIsCoherent ==
  Spec => []CursorCoherent
<1>1. IInv => CursorCoherent
  BY DEF IInv
<1> QED
  BY <1>1, Inductive, PTL

\* rewind's assertion on the block index cannot fail, nor its byte count
\* underflow, for any checkpoint of this arena.
THEOREM CheckpointsStayRestorable ==
  Spec => []CheckpointsRestorable
<1>1. IInv => CheckpointsRestorable
  BY DEF IInv
<1> QED
  BY <1>1, Inductive, PTL

\* Every pointer handed out lies in its block, aligned, behind the cursor.
THEOREM RegionsWellPlaced ==
  Spec => []WellPlaced
<1>1. IInv => WellPlaced
  BY DEF IInv
<1> QED
  BY <1>1, Inductive, PTL

\* No two allocations a caller still holds share a byte, after any sequence of
\* allocations, failures, rewinds and resets.
THEOREM RegionsNeverOverlap ==
  Spec => []NoOverlap
<1>1. IInv => NoOverlap
  BY DEF IInv
<1> QED
  BY <1>1, Inductive, PTL
-----------------------------------------------------------------------------
(* Reuse of retained blocks *)

\* What the caller asks for fits a block of MAX_BLOCK_SIZE, worst padding
\* included, and is aligned no more strictly than every block.
RequestsFit ==
  /\ \A q \in Requests : /\ q.align <= MIN_BLOCK_ALIGN
                         /\ Worst(q.size, q.align) <= MAX_BLOCK_SIZE
                         /\ q.align * 2 <= MAX_BLOCK_SIZE
  /\ \A n \in InitialSizes : n <= MAX_BLOCK_SIZE

\* Each block is no smaller than those before it.
Sorted(bs) == \A i, j \in 1 .. Len(bs) : i <= j => bs[i].capacity <= bs[j].capacity

\* The growth state is ahead of all blocks.
Grown ==
  /\ Sorted(blocks)
  /\ blocks[Len(blocks)].capacity <= next_block_size
  /\ next_block_size <= MAX_BLOCK_SIZE

\* largest_remaining is the capacity of the last block, hence of the largest,
\* unless no block lies ahead.
LargestAhead ==
  /\ current <= largest_remaining_idx
  /\ current < Len(blocks) => current < largest_remaining_idx
  /\ blocks[largest_remaining_idx].capacity = blocks[Len(blocks)].capacity
  /\ largest_remaining = IF largest_remaining_idx = current
                         THEN 0 ELSE blocks[largest_remaining_idx].capacity

\* The inductive invariant.
ReuseIInv == IInv /\ Grown /\ LargestAhead

\* A set of numbers that is not empty has a least one.
LEMMA LeastNat ==
  ASSUME NEW S \in SUBSET Nat, S # {}
  PROVE  \E m \in S : \A k \in S : m <= k
<1> DEFINE R == OpToRel(<, Nat)
<1>1. IsWellFoundedOn(R, Nat)
  BY NatLessThanWellFounded, Zenon
<1> HIDE DEF R
<1>2. PICK m \in S : \A k \in S : ~ (<<k, m>> \in R)
  BY <1>1, WFMin
<1>3. \A j, k \in Nat : j < k => <<j, k>> \in R
  BY DEF R, OpToRel
<1>4. \A k \in S : ~ (k < m)
  BY <1>2, <1>3
<1> QED
  BY <1>4

\* The capacity of a listed block is a number.
LEMMA CapacityType ==
  ASSUME NEW bs \in Seq(BlockType), NEW i \in 1 .. Len(bs)
  PROVE  bs[i].capacity \in Nat
<1>1. bs[i] \in BlockType
  BY ElementOfSeq
<1> QED
  BY <1>1 DEF BlockType

\* compute_largest_remaining over empty blocks that grow: one as large as the
\* last, or `from` itself when it is the last.
LEMMA LargestAfterIsLast ==
  ASSUME NEW bs \in Seq(BlockType), NEW from \in 1 .. Len(bs), Sorted(bs),
         \A i \in from + 1 .. Len(bs) : bs[i].offset = 0
  PROVE  /\ LargestAfter(bs, from) \in from .. Len(bs)
         /\ from < Len(bs) => from < LargestAfter(bs, from)
         /\ bs[LargestAfter(bs, from)].capacity = bs[Len(bs)].capacity
<1> DEFINE n == Len(bs)
           T == {i \in from + 1 .. n : bs[i].capacity = bs[n].capacity}
<1>1. /\ n \in Nat /\ from \in 1 .. n
      /\ \A i \in 1 .. n : bs[i].capacity \in Nat \ {0}
  <2>1. n \in Nat
    BY LenProperties
  <2>2. \A i \in 1 .. n : bs[i] \in BlockType
    BY ElementOfSeq
  <2> QED
    BY <2>1, <2>2 DEF BlockType
<1>2. LargestAfter(bs, from) \in from .. n
  BY LargestAfterRange
<1>3. CASE from = n
  BY <1>1, <1>2, <1>3
<1>4. CASE from < n
  <2>1. n \in T /\ T \in SUBSET Nat
    BY <1>1, <1>4
  <2> HIDE DEF n, T
  <2>2. PICK m \in T : \A k \in T : m <= k
    BY <2>1, LeastNat
  <2>3. /\ m \in from + 1 .. n /\ m \in 1 .. n /\ bs[m].capacity = bs[n].capacity
        /\ m \in Nat
    BY <2>2, <1>1 DEF T
  <2>4. \A i \in from + 1 .. n : Remaining(bs, i) = bs[i].capacity
    <3>1. \A i \in from + 1 .. n : i \in 1 .. n /\ bs[i].offset = 0
      BY <1>1 DEF n
    <3> QED
      BY <1>1, <3>1 DEF Remaining
  <2>5. \A i \in from + 1 .. n : i \in 1 .. n /\ bs[i].capacity <= bs[n].capacity
    BY <1>1 DEF Sorted, n
  <2>6. IsLargestAfter(bs, from, m)
    <3>1. \A j \in from + 1 .. n : j < m => bs[j].capacity # bs[n].capacity
      BY <2>2, <2>3 DEF T
    <3>2. \A j \in from + 1 .. n :
            j < m => bs[j].capacity < bs[n].capacity
      BY <3>1, <2>5, <1>1
    <3> QED
      BY <2>3, <2>4, <2>5, <3>2, <1>1 DEF IsLargestAfter, n
  <2>7. PICK i \in from + 1 .. n : /\ i = LargestAfter(bs, from)
                                   /\ IsLargestAfter(bs, from, i)
    BY <2>3, <2>6 DEF LargestAfter, n
  <2>8. bs[n].capacity <= bs[i].capacity
    <3>1. n \in from + 1 .. n
      BY <1>1, <1>4
    <3>2. Remaining(bs, n) <= Remaining(bs, i)
      BY <3>1, <2>7 DEF IsLargestAfter, n
    <3> QED
      BY <3>1, <3>2, <2>4
  <2>9. bs[i].capacity = bs[n].capacity
    BY <2>5, <2>8, <1>1
  <2>10. from < i
    BY <1>1
  <2> QED
    BY <2>7, <2>9, <2>10, <1>2 DEF n
<1> QED
  BY <1>1, <1>3, <1>4

\* Steps that leave the cursor's block, every capacity and the cached largest
\* block alone.
LEMMA SameCursorKeeps ==
  ASSUME ReuseIInv, IInv', Len(blocks') = Len(blocks),
         \A i \in 1 .. Len(blocks) : blocks'[i].capacity = blocks[i].capacity,
         UNCHANGED <<current, largest_remaining, largest_remaining_idx>>,
         next_block_size <= next_block_size', next_block_size' <= MAX_BLOCK_SIZE
  PROVE  ReuseIInv'
<1>1. /\ blocks \in Seq(BlockType) /\ Len(blocks) \in Nat
      /\ current \in 1 .. Len(blocks) /\ largest_remaining_idx \in 1 .. Len(blocks)
      /\ next_block_size \in Nat /\ next_block_size' \in Nat
  BY LenProperties DEF ReuseIInv, IInv, TypeOK
<1>2. Len(blocks) \in 1 .. Len(blocks)
  BY <1>1
<1>3. blocks[Len(blocks)].capacity \in Nat
  BY <1>1, <1>2, CapacityType
<1>4. Grown'
  BY <1>1, <1>2, <1>3 DEF ReuseIInv, Grown, Sorted
<1>5. LargestAhead'
  BY <1>1, <1>2 DEF ReuseIInv, LargestAhead
<1> QED
  BY <1>4, <1>5 DEF ReuseIInv

\* set_current_block finds a largest block ahead, whether it keeps the cached
\* index or searches again.
LEMMA SetCurrentFindsLargest ==
  ASSUME ReuseIInv,
         NEW bs \in Seq(BlockType), NEW idx \in 1 .. Len(bs),
         Len(blocks) <= Len(bs), Sorted(bs),
         \A i \in idx + 1 .. Len(bs) : bs[i].offset = 0,
         largest_remaining_idx > idx =>
           bs[largest_remaining_idx].capacity = bs[Len(bs)].capacity,
         SetCurrentBlock(bs, idx)
  PROVE  LargestAhead'
<1> DEFINE keep    == largest_remaining_idx > idx
           largest == IF keep THEN largest_remaining_idx
                              ELSE LargestAfter(bs, idx)
<1>1. /\ Len(bs) \in Nat /\ Len(blocks) \in Nat
      /\ largest_remaining_idx \in 1 .. Len(blocks)
  BY LenProperties DEF ReuseIInv, IInv, TypeOK
<1>2. /\ blocks' = bs /\ current' = idx /\ largest_remaining_idx' = largest
      /\ largest_remaining' = IF largest = idx THEN 0 ELSE Remaining(bs, largest)
  BY DEF SetCurrentBlock
<1>3. /\ largest \in idx .. Len(bs)
      /\ idx < Len(bs) => idx < largest
      /\ bs[largest].capacity = bs[Len(bs)].capacity
  <2>1. CASE keep
    BY <2>1, <1>1
  <2>2. CASE ~keep
    <3>1. /\ LargestAfter(bs, idx) \in idx .. Len(bs)
          /\ idx < Len(bs) => idx < LargestAfter(bs, idx)
          /\ bs[LargestAfter(bs, idx)].capacity = bs[Len(bs)].capacity
      BY LargestAfterIsLast
    <3> QED
      BY <2>2, <3>1
  <2> QED
    BY <2>1, <2>2
<1> HIDE DEF largest
<1>4. largest # idx => Remaining(bs, largest) = bs[largest].capacity
  <2>1. ASSUME largest # idx
        PROVE  bs[largest].offset = 0 /\ bs[largest].capacity \in Nat
    <3>1. largest \in idx + 1 .. Len(bs) /\ largest \in 1 .. Len(bs)
      BY <2>1, <1>1, <1>3
    <3> QED
      BY <3>1, CapacityType
  <2> QED
    BY <2>1 DEF Remaining
<1> QED
  BY <1>1, <1>2, <1>3, <1>4 DEF LargestAhead

\* A new arena has one block, and none ahead.
LEMMA InitReuse ==
  ASSUME RequestsFit, Init
  PROVE  ReuseIInv
<1>1. PICK n \in InitialSizes :
        /\ blocks = <<NewBlock(Larger(n, MIN_BLOCK_SIZE), MIN_BLOCK_ALIGN)>>
        /\ next_block_size = Smaller(2 * Larger(n, MIN_BLOCK_SIZE), MAX_BLOCK_SIZE)
        /\ current = 1 /\ largest_remaining = 0 /\ largest_remaining_idx = 1
  BY DEF Init
<1> DEFINE size  == Larger(n, MIN_BLOCK_SIZE)
           block == NewBlock(size, MIN_BLOCK_ALIGN)
<1>2. size \in Nat /\ size <= MAX_BLOCK_SIZE
  BY ArenaAssumption, BlockAssumption DEF Larger, RequestsFit
<1> HIDE DEF size
<1>3. /\ size <= Smaller(2 * size, MAX_BLOCK_SIZE)
      /\ Smaller(2 * size, MAX_BLOCK_SIZE) <= MAX_BLOCK_SIZE
  BY <1>2, BlockAssumption DEF Smaller
<1>4. block.capacity = size
  BY DEF NewBlock
<1> HIDE DEF block
<1>5. blocks = <<block>> /\ next_block_size = Smaller(2 * size, MAX_BLOCK_SIZE)
  BY <1>1 DEF size, block
<1>6. Len(blocks) = 1 /\ blocks[1].capacity = size
  BY <1>4, <1>5
<1>7. Grown
  BY <1>2, <1>3, <1>5, <1>6 DEF Grown, Sorted
<1>8. LargestAhead
  BY <1>1, <1>6 DEF LargestAhead
<1> QED
  BY <1>7, <1>8, InitIInv DEF ReuseIInv

\* Moving into a retained block keeps the invariant.
LEMMA ReuseBlockReuse ==
  ASSUME ReuseIInv, IInv', NEW q \in RequestType, ReuseBlock(q)
  PROVE  ReuseIInv'
<1>1. PICK i \in current + 1 .. Len(blocks) :
        LET new == BumpedOffset(blocks[i], q.size, q.align) IN
        /\ SetCurrentBlock([FlushedBlocks EXCEPT ![i].offset = new], i)
        /\ UNCHANGED <<next_block_size, bytes_reserved>>
  BY DEF ReuseBlock
<1> DEFINE bs == [FlushedBlocks EXCEPT
                    ![i].offset = BumpedOffset(blocks[i], q.size, q.align)]
<1>2. /\ Len(blocks) \in Nat /\ current \in 1 .. Len(blocks)
      /\ largest_remaining_idx \in 1 .. Len(blocks) /\ i \in 1 .. Len(blocks)
  BY LenProperties DEF ReuseIInv, IInv, TypeOK
<1>3. blocks' = bs /\ blocks' \in Seq(BlockType)
  BY <1>1 DEF SetCurrentBlock, ReuseIInv, IInv, TypeOK
<1>4. /\ FlushedBlocks \in Seq(BlockType) /\ Len(FlushedBlocks) = Len(blocks)
      /\ DOMAIN FlushedBlocks = 1 .. Len(blocks)
      /\ \A j \in 1 .. Len(blocks) :
           /\ FlushedBlocks[j].capacity = blocks[j].capacity
           /\ FlushedBlocks[j] \in BlockType
  BY <1>2, FlushedBlocksType, LenProperties, ElementOfSeq DEF ReuseIInv
<1>5. /\ DOMAIN bs = 1 .. Len(blocks)
      /\ \A j \in 1 .. Len(blocks) : /\ bs[j].capacity = blocks[j].capacity
                                     /\ j # i => bs[j] = FlushedBlocks[j]
  BY <1>2, <1>4 DEF BlockType
<1>6. SetCurrentBlock(bs, i)
  BY <1>1
<1> HIDE DEF bs
<1>7. bs \in Seq(BlockType) /\ Len(bs) = Len(blocks)
  <2>1. bs \in Seq(BlockType)
    BY <1>3
  <2>2. DOMAIN bs = 1 .. Len(bs) /\ Len(bs) \in Nat
    BY <2>1, LenProperties
  <2> QED
    BY <2>1, <2>2, <1>2, <1>5
<1>8. \A j \in i + 1 .. Len(bs) : bs[j].offset = 0
  <2> TAKE j \in i + 1 .. Len(bs)
  <2>1. /\ j \in 1 .. Len(blocks) /\ j # i /\ j # current
        /\ j \in current + 1 .. Len(blocks)
    BY <1>2, <1>7
  <2>2. FlushedBlocks[j] = blocks[j] /\ blocks[j].offset = 0
    BY <2>1, FlushedBlocksType DEF ReuseIInv, IInv, CursorCoherent
  <2> QED
    BY <2>1, <2>2, <1>5
<1>9. /\ Sorted(bs) /\ Len(bs) \in 1 .. Len(blocks)
      /\ bs[Len(bs)].capacity = blocks[Len(blocks)].capacity
      /\ bs[largest_remaining_idx].capacity
           = blocks[largest_remaining_idx].capacity
  BY <1>2, <1>5, <1>7 DEF ReuseIInv, Grown, Sorted
<1>10. Grown'
  BY <1>1, <1>3, <1>7, <1>9 DEF ReuseIInv, Grown
<1>11. LargestAhead'
  <2>1. bs[largest_remaining_idx].capacity = bs[Len(bs)].capacity
    BY <1>9 DEF ReuseIInv, LargestAhead
  <2>2. Len(blocks) <= Len(bs) /\ i \in 1 .. Len(bs)
    BY <1>2, <1>7
  <2> QED
    BY <2>1, <2>2, <1>6, <1>7, <1>8, <1>9, SetCurrentFindsLargest
<1> QED
  BY <1>10, <1>11 DEF ReuseIInv

\* What next_block_for returns for a request that fits.
LEMMA RequestGrows ==
  ASSUME RequestsFit, ReuseIInv, NEW q \in Requests,
         NEW capacity,
         capacity = BlockSizeFor(next_block_size, q.size, q.align)
  PROVE  /\ capacity \in Nat /\ next_block_size <= capacity
         /\ capacity <= GrowNextSize(capacity)
         /\ GrowNextSize(capacity) \in Nat
         /\ GrowNextSize(capacity) <= MAX_BLOCK_SIZE
<1>1. /\ q \in RequestType /\ q.size \in Nat /\ q.align \in Nat \ {0}
      /\ q.align \in Pow2
  BY RequestTyped, ArenaAssumption
<1>2. next_block_size \in Nat /\ next_block_size <= MAX_BLOCK_SIZE
  BY DEF ReuseIInv, IInv, TypeOK, Grown
<1>3. /\ Worst(q.size, q.align) <= MAX_BLOCK_SIZE
      /\ q.align * 2 <= MAX_BLOCK_SIZE
  BY DEF RequestsFit
<1>4. next_block_size <= capacity /\ capacity <= MAX_BLOCK_SIZE
  BY <1>1, <1>2, <1>3, BlockSizeGrows
<1>5. capacity \in Nat
  <2> DEFINE floor == Larger(Worst(q.size, q.align), DoubledAlign(q.align))
             rounded == NextPow2(Larger(next_block_size, floor))
  <2>1. floor \in Nat
    <3>1. DoubledAlign(q.align) \in Nat
      BY <1>1, DoubledAlignType
    <3> QED
      BY <3>1, <1>1 DEF Larger, Worst
  <2> HIDE DEF floor
  <2>2. Larger(next_block_size, floor) \in Nat
    BY <2>1, <1>2 DEF Larger
  <2>3. rounded \in Nat
    BY <2>2, NextPow2Type
  <2>4. capacity = Larger(Smaller(rounded, MAX_BLOCK_SIZE), floor)
    BY DEF BlockSizeFor, floor
  <2> HIDE DEF rounded
  <2> QED
    BY <2>1, <2>3, <2>4, BlockAssumption DEF Larger, Smaller
<1> QED
  BY <1>4, <1>5, NextSizeGrows, GrowNextSizeType

\* A new block is at least as large as all others, and no block is ahead of it.
LEMMA OpenBlockReuse ==
  ASSUME RequestsFit, ReuseIInv, IInv', NEW q \in Requests, OpenBlock(q)
  PROVE  ReuseIInv'
<1> DEFINE block == NewBlock(BlockSizeFor(next_block_size, q.size, q.align),
                             q.align)
           blk   == [block EXCEPT !.offset = BumpedOffset(block, q.size, q.align)]
           bs    == Append(FlushedBlocks, blk)
           n     == Len(blocks) + 1
<1>1. PICK capacity : capacity = BlockSizeFor(next_block_size, q.size, q.align)
  OBVIOUS
<1>2. /\ next_block_size' = GrowNextSize(capacity) /\ SetCurrentBlock(bs, n)
  BY <1>1 DEF OpenBlock
<1>3. /\ capacity \in Nat /\ next_block_size <= capacity
      /\ capacity <= next_block_size' /\ next_block_size' <= MAX_BLOCK_SIZE
  BY <1>1, <1>2, RequestGrows
<1>4. blk.capacity = capacity
  BY <1>1 DEF NewBlock
<1> HIDE DEF blk
<1>5. /\ FlushedBlocks \in Seq(BlockType) /\ Len(FlushedBlocks) = Len(blocks)
      /\ \A j \in 1 .. Len(blocks) :
           FlushedBlocks[j].capacity = blocks[j].capacity
  BY FlushedBlocksType DEF ReuseIInv
<1>6. /\ Len(blocks) \in Nat /\ blocks \in Seq(BlockType)
      /\ Len(blocks) \in 1 .. Len(blocks) /\ next_block_size \in Nat
      /\ largest_remaining_idx \in 1 .. Len(blocks)
  <2>1. Len(blocks) \in Nat /\ current \in 1 .. Len(blocks)
    BY LenProperties DEF ReuseIInv, IInv, TypeOK
  <2> QED
    BY <2>1 DEF ReuseIInv, IInv, TypeOK
<1>7. /\ Len(bs) = n /\ bs[n] = blk
      /\ \A j \in 1 .. Len(blocks) : bs[j] = FlushedBlocks[j]
  BY <1>5, <1>6
<1>8. blocks' = bs /\ bs \in Seq(BlockType)
  <2>1. blocks' = bs
    BY <1>2 DEF SetCurrentBlock
  <2>2. blocks' \in Seq(BlockType)
    BY DEF IInv, TypeOK
  <2> QED
    BY <2>1, <2>2
<1> HIDE DEF bs
<1>9. \A j \in 1 .. n : /\ j = n => bs[j].capacity = capacity
                        /\ j # n => /\ j \in 1 .. Len(blocks)
                                    /\ bs[j].capacity = blocks[j].capacity
  BY <1>4, <1>5, <1>6, <1>7
<1>10. \A j \in 1 .. Len(blocks) : /\ blocks[j].capacity \in Nat
                                   /\ blocks[j].capacity <= capacity
  <2> TAKE j \in 1 .. Len(blocks)
  <2>1. blocks[j].capacity \in Nat /\ blocks[Len(blocks)].capacity \in Nat
    BY <1>6, CapacityType
  <2>2. /\ blocks[j].capacity <= blocks[Len(blocks)].capacity
        /\ blocks[Len(blocks)].capacity <= next_block_size
    BY <1>6 DEF ReuseIInv, Grown, Sorted
  <2> QED
    BY <2>1, <2>2, <1>3, <1>6
<1>11. Sorted(bs)
  <2> SUFFICES ASSUME NEW j \in 1 .. Len(bs), NEW k \in 1 .. Len(bs), j <= k
               PROVE  bs[j].capacity <= bs[k].capacity
    BY DEF Sorted
  <2>1. CASE k = n
    BY <2>1, <1>3, <1>7, <1>9, <1>10
  <2>2. CASE k # n
    <3>1. k \in 1 .. Len(blocks) /\ j \in 1 .. Len(blocks) /\ j # n
      BY <2>2, <1>6, <1>7
    <3>2. blocks[j].capacity <= blocks[k].capacity
      BY <3>1 DEF ReuseIInv, Grown, Sorted
    <3> QED
      BY <3>1, <3>2, <2>2, <1>7, <1>9
  <2> QED
    BY <2>1, <2>2
<1>12. Grown'
  BY <1>3, <1>4, <1>7, <1>8, <1>11 DEF Grown
<1>13. LargestAhead'
  <2>1. /\ n \in 1 .. Len(bs) /\ Len(blocks) <= Len(bs)
        /\ ~ (largest_remaining_idx > n)
    BY <1>6, <1>7
  <2>2. \A j \in n + 1 .. Len(bs) : bs[j].offset = 0
    BY <1>6, <1>7
  <2> HIDE DEF n
  <2> QED
    BY <2>1, <2>2, <1>2, <1>8, <1>11, SetCurrentFindsLargest
<1> QED
  BY <1>12, <1>13 DEF ReuseIInv

\* A slow path that fails leaves every block and the cursor, and may have grown
\* the growth state.
LEMMA FailingCallReuse ==
  ASSUME RequestsFit, ReuseIInv, IInv', NEW q \in Requests,
         \/ \E r \in {"none", "panic"} : OutOfMemory(q, r)
         \/ BlockNotListed(q)
         \/ SizeOverflow(q)
  PROVE  ReuseIInv'
<1>1. PICK capacity : capacity = BlockSizeFor(next_block_size, q.size, q.align)
  OBVIOUS
<1>2. /\ blocks' = FlushedBlocks
      /\ UNCHANGED <<current, largest_remaining, largest_remaining_idx>>
      /\ next_block_size' \in {next_block_size, GrowNextSize(capacity)}
  BY <1>1 DEF OutOfMemory, BlockNotListed, SizeOverflow, FailFlushed, cursor
<1>3. next_block_size \in Nat /\ next_block_size <= MAX_BLOCK_SIZE
  BY DEF ReuseIInv, IInv, TypeOK, Grown
<1>4. next_block_size <= next_block_size' /\ next_block_size' <= MAX_BLOCK_SIZE
  <2>1. /\ capacity \in Nat /\ next_block_size <= capacity
        /\ capacity <= GrowNextSize(capacity)
        /\ GrowNextSize(capacity) \in Nat
        /\ GrowNextSize(capacity) <= MAX_BLOCK_SIZE
    BY <1>1, RequestGrows
  <2>2. \A a, b, c \in Nat : a <= b /\ b <= c => a <= c
    OBVIOUS
  <2>3. next_block_size <= GrowNextSize(capacity)
    BY <2>1, <2>2, <1>3
  <2>4. next_block_size <= next_block_size
    BY <1>3
  <2> QED
    BY <2>1, <2>3, <2>4, <1>2, <1>3
<1>5. /\ Len(blocks') = Len(blocks)
      /\ \A i \in 1 .. Len(blocks) : blocks'[i].capacity = blocks[i].capacity
  BY <1>2, FlushedBlocksType DEF ReuseIInv
<1> QED
  BY <1>2, <1>4, <1>5, SameCursorKeeps

\* Rewinding keeps the capacities and finds the largest block ahead of the
\* checkpoint's, valid or not.
LEMMA RewindReuse ==
  ASSUME ReuseIInv, IInv', NEW cp \in CheckpointType, Restorable(cp), Rewind(cp)
  PROVE  ReuseIInv'
<1>1. PICK bs : bs = RewoundBlocks(cp)
  OBVIOUS
<1>2. SetCurrentBlock(bs, cp.block_idx) /\ next_block_size' = next_block_size
  BY <1>1 DEF Rewind
<1>3. /\ Len(blocks) \in Nat /\ largest_remaining_idx \in 1 .. Len(blocks)
      /\ Len(blocks) \in 1 .. Len(blocks)
      /\ cp.block_idx \in 1 .. Len(blocks)
  <2>1. Len(blocks) \in Nat /\ largest_remaining_idx \in 1 .. Len(blocks)
    BY LenProperties DEF ReuseIInv, IInv, TypeOK
  <2> QED
    BY <2>1 DEF CheckpointType, Restorable
<1>4. /\ bs \in Seq(BlockType) /\ Len(bs) = Len(blocks)
      /\ \A i \in 1 .. Len(blocks) :
           /\ bs[i].capacity = blocks[i].capacity
           /\ i > cp.block_idx => bs[i].offset = 0
  BY <1>1, RewoundBlocksType, PartOfIInv DEF ReuseIInv
<1>5. \A i \in cp.block_idx + 1 .. Len(bs) : bs[i].offset = 0
  BY <1>3, <1>4
<1>6. Sorted(bs)
  BY <1>4 DEF ReuseIInv, Grown, Sorted
<1>7. blocks' = bs
  BY <1>2 DEF SetCurrentBlock
<1>8. Grown'
  BY <1>2, <1>3, <1>4, <1>6, <1>7 DEF ReuseIInv, Grown
<1>9. LargestAhead'
  <2>1. bs[largest_remaining_idx].capacity = bs[Len(bs)].capacity
    BY <1>3, <1>4 DEF ReuseIInv, LargestAhead
  <2>2. cp.block_idx \in 1 .. Len(bs) /\ Len(blocks) <= Len(bs)
    BY <1>3, <1>4
  <2> QED
    BY <2>1, <2>2, <1>2, <1>4, <1>5, <1>6, SetCurrentFindsLargest
<1> QED
  BY <1>8, <1>9 DEF ReuseIInv

\* Resetting empties every block, so comparing capacities, as reset does, finds
\* the largest block ahead.
LEMMA ResetReuse ==
  ASSUME ReuseIInv, IInv', Reset
  PROVE  ReuseIInv'
<1>1. PICK ws : ws = WholeBlocks
  OBVIOUS
<1>2. PICK largest : largest = LargestAfter(ws, 1)
  OBVIOUS
<1>3. /\ blocks' = ResetBlocks /\ current' = 1
      /\ largest_remaining_idx' = largest
      /\ largest_remaining' = IF largest = 1 THEN 0 ELSE blocks[largest].capacity
      /\ next_block_size' = next_block_size
  BY <1>1, <1>2 DEF Reset
<1>4. /\ Len(blocks) \in Nat /\ 1 \in 1 .. Len(blocks)
      /\ Len(blocks) \in 1 .. Len(blocks)
      /\ \A i \in 1 .. Len(blocks) : blocks[i] \in BlockType
  <2>1. Len(blocks) \in Nat /\ current \in 1 .. Len(blocks)
    BY LenProperties DEF ReuseIInv, IInv, TypeOK
  <2>2. \A i \in 1 .. Len(blocks) : blocks[i] \in BlockType
    BY ElementOfSeq DEF ReuseIInv, IInv, TypeOK
  <2> QED
    BY <2>1, <2>2
<1>5. /\ ws \in Seq(BlockType) /\ Len(ws) = Len(blocks)
      /\ Len(blocks') = Len(blocks)
      /\ \A i \in 1 .. Len(blocks) : blocks'[i].capacity = blocks[i].capacity
  BY <1>1, <1>3, ResetBlocksType, PartOfIInv DEF ReuseIInv
<1>6. \A i \in 1 .. Len(blocks) : /\ ws[i].capacity = blocks[i].capacity
                                  /\ ws[i].offset = 0
  BY <1>1, <1>4 DEF WholeBlocks, BlockType
<1>7. Sorted(ws) /\ \A i \in 1 + 1 .. Len(ws) : ws[i].offset = 0
  BY <1>4, <1>5, <1>6 DEF ReuseIInv, Grown, Sorted
<1>8. /\ largest \in 1 .. Len(ws)
      /\ 1 < Len(ws) => 1 < largest
      /\ ws[largest].capacity = ws[Len(ws)].capacity
  <2>1. 1 \in 1 .. Len(ws)
    BY <1>4, <1>5
  <2> QED
    BY <2>1, <1>2, <1>5, <1>7, LargestAfterIsLast
<1>9. Grown'
  BY <1>3, <1>4, <1>5 DEF ReuseIInv, Grown, Sorted
<1>10. LargestAhead'
  BY <1>3, <1>4, <1>5, <1>6, <1>8 DEF LargestAhead
<1> QED
  BY <1>9, <1>10 DEF ReuseIInv

\* Every call keeps the invariant.
LEMMA NextReuse ==
  ASSUME RequestsFit, ReuseIInv, [Next]_vars
  PROVE  ReuseIInv'
<1>1. IInv'
  BY NextIInv DEF ReuseIInv
<1>2. next_block_size \in Nat /\ next_block_size <= MAX_BLOCK_SIZE
  BY DEF ReuseIInv, IInv, TypeOK, Grown
<1>3. ASSUME UNCHANGED <<blocks, current, largest_remaining,
                         largest_remaining_idx, next_block_size>>
      PROVE  ReuseIInv'
  BY <1>1, <1>2, <1>3, SameCursorKeeps
<1>4. ASSUME NEW q \in Requests, Alloc(q) \/ TryAlloc(q) PROVE ReuseIInv'
  <2>1. q \in RequestType
    BY ArenaAssumption
  <2>2. CASE Empty(q) \/ AddressOverflow(q) \/ Bump(q)
    BY <2>2, <1>3 DEF Empty, AddressOverflow, Bump, cursor
  <2>3. CASE ReuseBlock(q)
    BY <2>1, <2>3, <1>1, ReuseBlockReuse
  <2>4. CASE OpenBlock(q)
    BY <2>4, <1>1, OpenBlockReuse
  <2>5. CASE \/ \E r \in {"none", "panic"} : OutOfMemory(q, r)
             \/ BlockNotListed(q)
             \/ SizeOverflow(q)
    BY <2>5, <1>1, FailingCallReuse
  <2> QED
    BY <1>4, <2>2, <2>3, <2>4, <2>5 DEF Alloc, TryAlloc
<1>5. CASE \E r \in live : RegisterDrop(r)
  BY <1>3, <1>5 DEF RegisterDrop, cursor
<1>6. CASE TakeCheckpoint
  BY <1>3, <1>6 DEF TakeCheckpoint, cursor
<1>7. CASE \E cp \in checkpoints : Rewind(cp)
  <2>1. \A cp \in checkpoints : cp \in CheckpointType /\ Restorable(cp)
    BY DEF ReuseIInv, IInv, TypeOK, CheckpointsRestorable
  <2> QED
    BY <2>1, <1>1, <1>7, RewindReuse
<1>8. CASE ResetPanics \/ \E cp \in checkpoints : RewindPanics(cp)
  BY <1>3, <1>8 DEF ResetPanics, RewindPanics, DropPanics, cursor
<1>9. CASE Reset
  BY <1>1, <1>9, ResetReuse
<1>10. CASE UNCHANGED vars
  BY <1>3, <1>10 DEF vars, cursor
<1> QED
  BY <1>4, <1>5, <1>6, <1>7, <1>8, <1>9, <1>10 DEF Next

\* In a state of the invariant, no retained block has room for a request that
\* opens a block.
LEMMA NoRoomAhead ==
  ASSUME RequestsFit, ReuseIInv, NEW q \in Requests, OpenBlock(q),
         NEW i \in current + 1 .. Len(blocks),
         blocks[i].align >= q.align, BlockFits(blocks[i], q.size, q.align)
  PROVE  FALSE
<1>1. /\ q.size \in Nat /\ q.align \in Nat \ {0} /\ q.align <= MIN_BLOCK_ALIGN
  BY RequestTyped, ArenaAssumption DEF RequestsFit
<1>2. ~Reusable(q, i)
  BY DEF OpenBlock, NeedsBlock
<1>3. ~(q.size <= largest_remaining)
  BY <1>1, <1>2 DEF Reusable
<1>4. /\ Len(blocks) \in Nat /\ current \in 1 .. Len(blocks)
      /\ i \in 1 .. Len(blocks) /\ Len(blocks) \in 1 .. Len(blocks)
      /\ current < Len(blocks) /\ largest_remaining_idx \in 1 .. Len(blocks)
      /\ blocks[i].offset = 0
  <2>1. /\ Len(blocks) \in Nat /\ current \in 1 .. Len(blocks)
        /\ largest_remaining_idx \in 1 .. Len(blocks)
    BY LenProperties DEF ReuseIInv, IInv, TypeOK
  <2>2. blocks[i].offset = 0
    BY DEF ReuseIInv, IInv, CursorCoherent
  <2> QED
    BY <2>1, <2>2
<1>5. blocks[i].capacity \in Nat /\ blocks[Len(blocks)].capacity \in Nat
  BY <1>4, CapacityType DEF ReuseIInv, IInv, TypeOK
<1>6. largest_remaining = blocks[Len(blocks)].capacity
  BY <1>4 DEF ReuseIInv, LargestAhead
<1>7. blocks[i].capacity <= blocks[Len(blocks)].capacity
  BY <1>4 DEF ReuseIInv, Grown, Sorted
<1>8. q.size <= blocks[i].capacity
  <2>1. AlignUp(0, q.align) \in Nat
    BY <1>1, AlignUpBounds
  <2>2. AlignUp(0, q.align) + q.size <= blocks[i].capacity
    BY <1>4 DEF BlockFits, BumpedOffset
  <2> QED
    BY <2>1, <2>2, <1>1, <1>5
<1> QED
  BY <1>1, <1>3, <1>5, <1>6, <1>7, <1>8

\* alloc_slow skips its scan, and opens a block, only when no retained block can
\* hold the request: the cached largest block is never out of date, for requests
\* that one block of MAX_BLOCK_SIZE can hold.
THEOREM BlocksOpenedOnlyWhenNeeded ==
  ASSUME RequestsFit
  PROVE  Spec => OpensOnlyWhenNeeded
<1>1. Init => ReuseIInv
  BY InitReuse
<1>2. ReuseIInv /\ [Next]_vars => ReuseIInv'
  BY NextReuse
<1>3. ReuseIInv /\ [Next]_vars =>
        [\A q \in Requests : OpenBlock(q) =>
           \A i \in current + 1 .. Len(blocks) :
             ~(blocks[i].align >= q.align
               /\ BlockFits(blocks[i], q.size, q.align))]_vars
  BY NoRoomAhead
<1> QED
  BY <1>1, <1>2, <1>3, PTL DEF Spec, OpensOnlyWhenNeeded
=============================================================================
