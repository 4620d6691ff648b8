-------------------------------- MODULE Arena --------------------------------
(***************************************************************************)
(* The bump allocator (arena/allocator.rs) with its drop registry          *)
(* (util/drop_registry.rs): block chain, cached cursor, checkpoints,       *)
(* rewind and reset. The methods take &mut self, so a call is one step.    *)
(*                                                                         *)
(* Block i of the code is blocks[i + 1]. A pointer is an offset from the   *)
(* base of block `cur_base`.                                               *)
(***************************************************************************)
EXTENDS Block, Regions, FiniteSets

CONSTANTS
  BLOCKS_INLINE_CAP,  \* blocks listed without a heap buffer (8 in the code)
  DROP_INLINE_CAP     \* destructors registered without one (32 in the code)

CONSTANTS
  Requests,        \* allocation calls: [size, align, init]
  InitialSizes,    \* arguments of Arena::with_capacity
  StaleUse,        \* TRUE: the caller also rewinds to invalidated checkpoints
  SystemFails,     \* TRUE: the system allocator may refuse any new block
  MaxBlocks,       \* bound: blocks the system allocator grants
  MaxCheckpoints,  \* bound: checkpoints the caller holds at a time
  MaxLive,         \* bound: regions the caller holds at a time
  MaxBytes,        \* bound: value of the bytes_allocated counter
  MaxReserved      \* bound: value of bytes_reserved after a failed listing

(***************************************************************************)
(* How the memory of a request is filled: "raw" leaves nothing to drop     *)
(* (alloc_raw, alloc_uninit, values without a destructor), "value" is      *)
(* registered for its destructor, "unwinds" is a slice whose iterator      *)
(* panics while filling it.                                                *)
(***************************************************************************)
Fillings == {"raw", "value", "unwinds"}

RequestType == [size : Nat, align : Pow2, init : Fillings]

ASSUME ArenaAssumption ==
  /\ BLOCKS_INLINE_CAP \in Nat \ {0} /\ DROP_INLINE_CAP \in Nat \ {0}
  /\ Requests \subseteq RequestType
  /\ InitialSizes \subseteq Nat
  /\ StaleUse \in BOOLEAN /\ SystemFails \in BOOLEAN
  /\ MaxBlocks \in Nat /\ MaxCheckpoints \in Nat
  /\ MaxLive \in Nat /\ MaxBytes \in Nat /\ MaxReserved \in Nat

VARIABLES
  blocks, current, next_block_size, bytes_allocated, bytes_reserved,
  cur_base, cur_ptr, cur_end, high_water_mark,
  largest_remaining, largest_remaining_idx,
  drop_registry,   \* regions whose destructors are registered, oldest first
  ret,             \* how the last call ended: "ok", "none" or "panic"
  live,            \* history: regions handed out and still below the cursor
  checkpoints      \* history: the checkpoints the caller holds

cursor == <<current, cur_base, cur_ptr, cur_end, high_water_mark,
            largest_remaining, largest_remaining_idx>>
vars == <<blocks, cursor, next_block_size, bytes_allocated, bytes_reserved,
          drop_registry, ret, live, checkpoints>>

RegionType == [blk : Nat \ {0}, off : Nat, size : Nat \ {0}, align : Pow2]

CheckpointType == [block_idx : Nat \ {0}, offset : Nat, bytes_allocated : Nat,
                   drop_registry_len : Nat]

Registered == {drop_registry[k] : k \in 1 .. Len(drop_registry)}

-----------------------------------------------------------------------------
(* Arena::with_capacity *)

Init ==
  \E n \in InitialSizes :
    LET size == Larger(n, MIN_BLOCK_SIZE) IN
    /\ blocks = <<NewBlock(size, MIN_BLOCK_ALIGN)>>
    /\ current = 1
    /\ next_block_size = Smaller(2 * size, MAX_BLOCK_SIZE)
    /\ bytes_allocated = 0
    /\ bytes_reserved = size
    /\ cur_base = 1 /\ cur_ptr = 0 /\ cur_end = size
    /\ high_water_mark = 1
    /\ largest_remaining = 0 /\ largest_remaining_idx = 1
    /\ drop_registry = <<>>
    /\ ret = "ok"
    /\ live = {}
    /\ checkpoints = {}

-----------------------------------------------------------------------------
(* Switching blocks *)

Remaining(bs, i) == bs[i].capacity - bs[i].offset

IsLargestAfter(bs, from, i) ==
  /\ Remaining(bs, i) > 0
  /\ \A j \in from + 1 .. Len(bs) :
       /\ Remaining(bs, j) <= Remaining(bs, i)
       /\ j < i => Remaining(bs, j) < Remaining(bs, i)

\* compute_largest_remaining: the first of the emptiest blocks after `from`,
\* or `from` itself when they are all full.
LargestAfter(bs, from) ==
  IF \E i \in from + 1 .. Len(bs) : IsLargestAfter(bs, from, i)
  THEN CHOOSE i \in from + 1 .. Len(bs) : IsLargestAfter(bs, from, i)
  ELSE from

\* Mutant: a cached index that is the new current block counts as ahead of it.
SetCurrentBlockKeepingOwn(bs, idx) ==
  LET keep    == largest_remaining_idx >= idx
      largest == IF keep THEN largest_remaining_idx ELSE LargestAfter(bs, idx)
  IN
  /\ blocks' = bs
  /\ current' = idx
  /\ high_water_mark' = Larger(high_water_mark, idx)
  /\ cur_base' = idx
  /\ cur_ptr' = bs[idx].offset
  /\ cur_end' = bs[idx].capacity
  /\ largest_remaining_idx' = largest
  /\ largest_remaining' = IF largest = idx THEN 0 ELSE Remaining(bs, largest)

\* Mutant: the cached base stays that of the previous block.
SetCurrentBlockStaleBase(bs, idx) ==
  LET keep    == largest_remaining_idx > idx
      largest == IF keep THEN largest_remaining_idx ELSE LargestAfter(bs, idx)
  IN
  /\ blocks' = bs
  /\ current' = idx
  /\ high_water_mark' = Larger(high_water_mark, idx)
  /\ cur_base' = cur_base
  /\ cur_ptr' = bs[idx].offset
  /\ cur_end' = bs[idx].capacity
  /\ largest_remaining_idx' = largest
  /\ largest_remaining' = IF largest = idx THEN 0 ELSE Remaining(bs, largest)

\* set_current_block, `bs` being the blocks as the caller leaves them.
SetCurrentBlock(bs, idx) ==
  LET keep    == largest_remaining_idx > idx
      largest == IF keep THEN largest_remaining_idx ELSE LargestAfter(bs, idx)
  IN
  /\ blocks' = bs
  /\ current' = idx
  /\ high_water_mark' = Larger(high_water_mark, idx)
  /\ cur_base' = idx
  /\ cur_ptr' = bs[idx].offset
  /\ cur_end' = bs[idx].capacity
  /\ largest_remaining_idx' = largest
  /\ largest_remaining' = IF largest = idx THEN 0 ELSE Remaining(bs, largest)

-----------------------------------------------------------------------------
(* Allocation *)

\* A list of `len` entries is full and its heap buffer cannot grow: an
\* InlineVec starts with `inline` slots and doubles. Its push then panics.
PushMayFail(len, inline) == SystemFails /\ \E k \in Pow2 : len = inline * k

\* The memory is handed out but nothing is registered for it.
Abandoned(q) ==
  \/ q.init = "unwinds"
  \/ q.init = "value" /\ PushMayFail(Len(drop_registry), DROP_INLINE_CAP)

\* The caller receives the region; the typed entry points write the value and
\* register its destructor, unless a panic intervenes.
Grant(q, blk, off) ==
  LET r == [blk |-> blk, off |-> off, size |-> q.size, align |-> q.align] IN
  /\ Cardinality(live) < MaxLive
  /\ live' = live \cup {r}
  /\ \/ q.init = "raw" /\ drop_registry' = drop_registry /\ ret' = "ok"
     \/ q.init = "value" /\ drop_registry' = Append(drop_registry, r) /\ ret' = "ok"
     \/ Abandoned(q) /\ drop_registry' = drop_registry /\ ret' = "panic"
  /\ UNCHANGED checkpoints

\* A zero-sized value or an empty slice takes no memory.
Empty(q) ==
  /\ q.size = 0
  /\ ret' = "ok"
  /\ UNCHANGED <<blocks, cursor, next_block_size, bytes_allocated,
                 bytes_reserved, drop_registry, live, checkpoints>>

\* Mutant: the fast path ignores the alignment of the block's base.
FitsCurrentAnyAlign(q) == AlignUp(cur_ptr, q.align) + q.size <= cur_end

FitsCurrent(q) ==
  /\ q.align <= MIN_BLOCK_ALIGN
  /\ AlignUp(cur_ptr, q.align) + q.size <= cur_end

\* The fast path: move the cursor of the current block.
Bump(q) ==
  LET off == AlignUp(cur_ptr, q.align) IN
  /\ q.size > 0
  /\ FitsCurrent(q)
  /\ cur_ptr' = off + q.size
  /\ Grant(q, cur_base, off)
  /\ UNCHANGED <<blocks, current, next_block_size, bytes_allocated,
                 bytes_reserved, cur_base, cur_end, high_water_mark,
                 largest_remaining, largest_remaining_idx>>

\* finish_slow_path: the blocks and the byte count every slow path starts from.
FlushedBlocks == [blocks EXCEPT ![current].offset = cur_ptr]
FlushedBytes == bytes_allocated + cur_ptr

\* The scan of alloc_slow accepts retained block i.
Reusable(q, i) ==
  /\ q.align <= MIN_BLOCK_ALIGN
  /\ q.size <= largest_remaining
  /\ i \in current + 1 .. Len(blocks)
  /\ blocks[i].align >= q.align
  /\ BlockFits(blocks[i], q.size, q.align)

\* The slow path when a retained block has room: the first such block.
ReuseBlock(q) ==
  /\ q.size > 0
  /\ ~FitsCurrent(q)
  /\ \E i \in current + 1 .. Len(blocks) :
       LET new == BumpedOffset(blocks[i], q.size, q.align) IN
       /\ Reusable(q, i)
       /\ \A j \in current + 1 .. i - 1 : ~Reusable(q, j)
       /\ SetCurrentBlock([FlushedBlocks EXCEPT ![i].offset = new], i)
       /\ bytes_allocated' = FlushedBytes + (new - blocks[i].offset)
       /\ bytes_allocated' <= MaxBytes
       /\ Grant(q, i, new - q.size)
       /\ UNCHANGED <<next_block_size, bytes_reserved>>

NeedsBlock(q) ==
  /\ q.size > 0
  /\ ~FitsCurrent(q)
  /\ \A i \in current + 1 .. Len(blocks) : ~Reusable(q, i)

\* The slow path when the system allocator grants a new block.
OpenBlock(q) ==
  LET capacity == BlockSizeFor(next_block_size, q.size, q.align)
      block    == NewBlock(capacity, q.align)
      new      == BumpedOffset(block, q.size, q.align)
  IN
  /\ NeedsBlock(q)
  /\ ~WorstOverflows(q.size, q.align)
  /\ LayoutOk(capacity, block.align)
  /\ Len(blocks) < MaxBlocks
  /\ next_block_size' = GrowNextSize(capacity)
  /\ bytes_reserved' = bytes_reserved + capacity
  /\ bytes_allocated' = FlushedBytes + new
  /\ bytes_allocated' <= MaxBytes
  /\ SetCurrentBlock(Append(FlushedBlocks, [block EXCEPT !.offset = new]),
                     Len(blocks) + 1)
  /\ Grant(q, Len(blocks) + 1, new - q.size)

\* A new block was granted and counted, but the block list cannot grow: the
\* block is freed by the unwinding, the counters keep its bytes.
BlockNotListed(q) ==
  LET capacity == BlockSizeFor(next_block_size, q.size, q.align)
      block    == NewBlock(capacity, q.align)
  IN
  /\ NeedsBlock(q)
  /\ ~WorstOverflows(q.size, q.align)
  /\ LayoutOk(capacity, block.align)
  /\ PushMayFail(Len(blocks), BLOCKS_INLINE_CAP)
  /\ next_block_size' = GrowNextSize(capacity)
  /\ bytes_reserved' = bytes_reserved + capacity
  /\ bytes_reserved' <= MaxReserved
  /\ bytes_allocated' = FlushedBytes + BumpedOffset(block, q.size, q.align)
  /\ bytes_allocated' <= MaxBytes
  /\ blocks' = FlushedBlocks
  /\ ret' = "panic"
  /\ UNCHANGED <<cursor, drop_registry, live, checkpoints>>

\* What a failed slow path leaves: it has flushed and nothing else.
FailFlushed(r) ==
  /\ blocks' = FlushedBlocks
  /\ bytes_allocated' = FlushedBytes
  /\ bytes_allocated' <= MaxBytes
  /\ ret' = r
  /\ UNCHANGED <<cursor, bytes_reserved, drop_registry, live, checkpoints>>

\* No new block, because its layout is invalid or the system allocator refuses:
\* next_block_for has already grown next_block_size. `r` is "panic" for alloc
\* and "none" for try_alloc.
OutOfMemory(q, r) ==
  LET capacity == BlockSizeFor(next_block_size, q.size, q.align) IN
  /\ NeedsBlock(q)
  /\ ~WorstOverflows(q.size, q.align)
  /\ SystemFails \/ ~LayoutOk(capacity, Larger(q.align, MIN_BLOCK_ALIGN))
  /\ next_block_size' = GrowNextSize(capacity)
  /\ FailFlushed(r)

\* next_block_for panics on a size that cannot be padded, and in a build that
\* checks its arithmetic on an alignment that cannot be doubled.
SizeOverflow(q) ==
  /\ NeedsBlock(q)
  /\ WorstOverflows(q.size, q.align) \/ DoubleOverflows(q.align)
  /\ FailFlushed("panic")
  /\ UNCHANGED next_block_size

\* The fast path's checked_add on addresses. The base is at least one block
\* alignment above zero and, like any heap address, at most ISIZE_MAX.
AddressMustOverflow(q) ==
  /\ q.align <= MIN_BLOCK_ALIGN
  /\ MIN_BLOCK_ALIGN + AlignUp(cur_ptr, q.align) + q.size > USIZE_MAX

AddressMayOverflow(q) == q.align <= MIN_BLOCK_ALIGN /\ q.size > ISIZE_MAX

\* try_alloc_raw_inner returns before the slow path.
AddressOverflow(q) ==
  /\ AddressMayOverflow(q)
  /\ ret' = "none"
  /\ UNCHANGED <<blocks, cursor, next_block_size, bytes_allocated,
                 bytes_reserved, drop_registry, live, checkpoints>>

\* alloc, alloc_slice, alloc_slice_copy, alloc_str, alloc_uninit, alloc_box,
\* alloc_zeroed, alloc_cache_aligned and alloc_raw.
Alloc(q) ==
  \/ Empty(q)
  \/ Bump(q)
  \/ ReuseBlock(q)
  \/ OpenBlock(q)
  \/ BlockNotListed(q)
  \/ OutOfMemory(q, "panic")
  \/ SizeOverflow(q)

\* The try_ variants.
TryAlloc(q) ==
  \/ Empty(q)
  \/ Bump(q)
  \/ AddressOverflow(q)
  \/ /\ ~AddressMustOverflow(q)
     /\ \/ ReuseBlock(q)
        \/ OpenBlock(q)
        \/ BlockNotListed(q)
        \/ OutOfMemory(q, "none")
        \/ SizeOverflow(q)

\* The unsafe register_drop, on memory the caller has just initialised.
RegisterDrop(r) ==
  /\ r \in live \ Registered
  /\ \/ drop_registry' = Append(drop_registry, r) /\ ret' = "ok"
     \/ /\ PushMayFail(Len(drop_registry), DROP_INLINE_CAP)
        /\ drop_registry' = drop_registry
        /\ ret' = "panic"
  /\ UNCHANGED <<blocks, cursor, next_block_size, bytes_allocated,
                 bytes_reserved, live, checkpoints>>

-----------------------------------------------------------------------------
(* Checkpoints *)

\* Mutant: the checkpoint counts the flushed bytes only.
HereFlushedOnly == [block_idx |-> current, offset |-> cur_ptr,
                    bytes_allocated |-> bytes_allocated,
                    drop_registry_len |-> Len(drop_registry)]

\* Mutant: the checkpoint counts the current block only.
HereCurrentOnly == [block_idx |-> current, offset |-> cur_ptr,
                    bytes_allocated |-> cur_ptr,
                    drop_registry_len |-> Len(drop_registry)]

Here == [block_idx |-> current, offset |-> cur_ptr,
         bytes_allocated |-> bytes_allocated + cur_ptr,
         drop_registry_len |-> Len(drop_registry)]

TakeCheckpoint ==
  /\ Cardinality(checkpoints \cup {Here}) <= MaxCheckpoints
  /\ checkpoints' = checkpoints \cup {Here}
  /\ ret' = "ok"
  /\ UNCHANGED <<blocks, cursor, next_block_size, bytes_allocated,
                 bytes_reserved, drop_registry, live>>

NoLater(c, d) ==
  /\ \/ c.block_idx < d.block_idx
     \/ c.block_idx = d.block_idx /\ c.offset <= d.offset
  /\ c.drop_registry_len <= d.drop_registry_len

\* The checkpoints a caller goes on using once `valid` are the valid ones.
Keep(valid) == IF StaleUse THEN checkpoints ELSE valid

\* Mutant: run_drops_until stops one entry early.
UndroppedOneLeft(len) ==
  SubSeq(drop_registry, 1, Smaller(len + 1, Len(drop_registry)))

\* Mutant: rewind drops nothing.
UndroppedAll(len) == drop_registry

\* run_drops_until: pops and runs every registered destructor from `len` on.
Undropped(len) == SubSeq(drop_registry, 1, Smaller(len, Len(drop_registry)))

\* Mutant: rewind leaves the block after the checkpoint's as it is.
RewoundBlocksSkippingOne(cp) ==
  [i \in 1 .. Len(blocks) |->
     [blocks[i] EXCEPT !.offset = IF i = cp.block_idx THEN cp.offset
                                  ELSE IF i \in cp.block_idx + 2 .. current THEN 0
                                  ELSE blocks[i].offset]]

RewoundBlocks(cp) ==
  [i \in 1 .. Len(blocks) |->
     [blocks[i] EXCEPT !.offset = IF i = cp.block_idx THEN cp.offset
                                  ELSE IF i \in cp.block_idx + 1 .. current THEN 0
                                  ELSE blocks[i].offset]]

Rewind(cp) ==
  /\ drop_registry' = Undropped(cp.drop_registry_len)
  /\ bytes_allocated' = cp.bytes_allocated - cp.offset
  /\ SetCurrentBlock(RewoundBlocks(cp), cp.block_idx)
  /\ live' = {r \in live : Below(r, cp.block_idx, cp.offset)}
  /\ checkpoints' = Keep({c \in checkpoints : NoLater(c, cp)})
  /\ ret' = "ok"
  /\ UNCHANGED <<next_block_size, bytes_reserved>>

\* A destructor panics: the others still run, then the panic leaves rewind (or
\* reset) before it touches a block.
DropPanics(len, valid) ==
  /\ Len(drop_registry) > len
  /\ drop_registry' = Undropped(len)
  /\ checkpoints' = Keep(valid)
  /\ ret' = "panic"
  /\ UNCHANGED <<blocks, cursor, next_block_size, bytes_allocated,
                 bytes_reserved, live>>

RewindPanics(cp) ==
  DropPanics(cp.drop_registry_len, {c \in checkpoints : NoLater(c, cp)})

\* reset zeroes the blocks up to the high-water mark.
ResetBlocks ==
  [i \in 1 .. Len(blocks) |->
     [blocks[i] EXCEPT !.offset = IF i <= high_water_mark THEN 0
                                                          ELSE blocks[i].offset]]

\* reset compares capacities, not free space.
WholeBlocks == [i \in 1 .. Len(blocks) |-> [blocks[i] EXCEPT !.offset = 0]]

Reset ==
  LET largest == LargestAfter(WholeBlocks, 1) IN
  /\ drop_registry' = <<>>
  /\ blocks' = ResetBlocks
  /\ high_water_mark' = 1
  /\ bytes_allocated' = 0
  /\ current' = 1 /\ cur_base' = 1
  /\ cur_ptr' = 0 /\ cur_end' = blocks[1].capacity
  /\ largest_remaining_idx' = largest
  /\ largest_remaining' = IF largest = 1 THEN 0 ELSE blocks[largest].capacity
  /\ live' = {}
  /\ checkpoints' = Keep({})
  /\ ret' = "ok"
  /\ UNCHANGED <<next_block_size, bytes_reserved>>

ResetPanics == DropPanics(0, {})

-----------------------------------------------------------------------------
Next ==
  \/ \E q \in Requests : Alloc(q) \/ TryAlloc(q)
  \/ \E r \in live : RegisterDrop(r)
  \/ TakeCheckpoint
  \/ \E cp \in checkpoints : Rewind(cp) \/ RewindPanics(cp)
  \/ Reset
  \/ ResetPanics

Spec == Init /\ [][Next]_vars

-----------------------------------------------------------------------------
(* Properties *)

\* Every variable stays in its domain, and every index and offset in its block.
TypeOK ==
  /\ blocks \in Seq(BlockType)
  /\ current \in 1 .. Len(blocks)
  /\ high_water_mark \in 1 .. Len(blocks)
  /\ largest_remaining_idx \in 1 .. Len(blocks)
  /\ next_block_size \in Nat /\ bytes_allocated \in Nat
  /\ bytes_reserved \in Nat /\ largest_remaining \in Nat
  /\ cur_base \in 1 .. Len(blocks) /\ cur_ptr \in Nat /\ cur_end \in Nat
  /\ drop_registry \in Seq(RegionType)
  /\ ret \in {"ok", "none", "panic"}
  /\ live \subseteq RegionType
  /\ checkpoints \subseteq CheckpointType

\* The cached pointers describe the current block, and the high-water mark that
\* bounds reset's loop covers every block with something in it.
CursorCoherent ==
  /\ cur_base = current
  /\ cur_end = blocks[current].capacity
  /\ cur_ptr <= cur_end
  /\ current <= high_water_mark
  /\ \A i \in current + 1 .. Len(blocks) : blocks[i].offset = 0

\* A pointer handed out stays inside its block, aligned in a block whose base
\* is aligned as strictly, and behind the cursor until it is reclaimed.
WellPlaced ==
  \A r \in live :
    /\ r.blk <= Len(blocks)
    /\ r.off + r.size <= blocks[r.blk].capacity
    /\ r.off % r.align = 0 /\ r.align <= blocks[r.blk].align
    /\ Below(r, current, cur_ptr)

\* Checkpoint c can be rewound to: rewind's index assertion holds, its offset
\* lies in the block and its byte count does not underflow.
Restorable(c) ==
  /\ c.block_idx <= Len(blocks)
  /\ c.offset <= blocks[c.block_idx].capacity
  /\ c.offset <= c.bytes_allocated

\* Every checkpoint the caller holds can be rewound to: whatever failed calls
\* flushed in between, its byte count covers its offset.
CheckpointsRestorable == \A c \in checkpoints : Restorable(c)

\* No two regions a caller still holds share a byte, whatever was rewound, reset
\* or failed in between.
NoOverlap == \A r, s \in live : r # s => Disjoint(r, s)

\* A registered destructor refers to memory that has not been reclaimed, and no
\* value is registered twice.
DropsOnLiveMemory ==
  /\ Registered \subseteq live
  /\ \A i, j \in 1 .. Len(drop_registry) :
       drop_registry[i] = drop_registry[j] => i = j

\* alloc_slow's comment: the scan is skipped only when no retained block can
\* satisfy the request, so a block is opened only then.
OpensOnlyWhenNeeded ==
  [][\A q \in Requests : OpenBlock(q) =>
       \A i \in current + 1 .. Len(blocks) :
         ~(blocks[i].align >= q.align /\ BlockFits(blocks[i], q.size, q.align))]_vars

\* A rewind or reset that reclaims a registered value has run its destructor.
ReclaimedAreDropped ==
  [][\A r \in live \ live' :
       \A k \in 1 .. Len(drop_registry') : drop_registry'[k] # r]_vars

(***************************************************************************)
(* Refinement: a checkpoint stands for the regions that end below it and   *)
(* for the part of the registry it counts.                                 *)
(***************************************************************************)
SnapshotOf(c) ==
  [live |-> {r \in live : Below(r, c.block_idx, c.offset)},
   owed |-> SubSeq(drop_registry, 1, c.drop_registry_len)]

Abs == INSTANCE AbstractArena WITH
         Region <- RegionType,
         owed <- drop_registry,
         snapshots <- {SnapshotOf(c) : c \in checkpoints},
         outcome <- ret

\* The arena implements its promise: fresh memory from every allocation, and
\* from every rewind the regions and owed destructors of the checkpoint.
ImplementsAbstract == Abs!Spec

\* stats().bytes_allocated
StatsBytes == bytes_allocated + cur_ptr

\* The counter never says less than the caller holds, byte by byte, whatever was
\* flushed, rewound or lost by a call that failed.
StatsCoverLive == Cardinality(Footprint(live)) <= StatsBytes
=============================================================================
