---------------------------- MODULE CounterProofs ----------------------------
(***************************************************************************)
(* The byte counters, for every value of the constants: stats() never says *)
(* less than what the caller holds, and a guard's budget is never exceeded *)
(* by what it hands out. The counter is cut down by a rewind to the value  *)
(* a checkpoint carries, so both need that the bytes between any two       *)
(* places the arena may return to are no more than their counts differ.    *)
(***************************************************************************)
EXTENDS TransactionProofs, FiniteSetTheorems

\* The regions handed out between checkpoints t and d.
Between(t, d) == {r \in live : /\ Below(r, d.block_idx, d.offset)
                               /\ ~Below(r, t.block_idx, t.offset)}

\* Going back from d to t uncounts no fewer bytes than it reclaims.
Counted(t, d) ==
  Cardinality(Footprint(Between(t, d))) <= d.bytes_allocated - t.bytes_allocated

\* d was taken no earlier than t, and counts no less.
After(t, d) == NoLater(t, d) /\ t.bytes_allocated <= d.bytes_allocated

\* What was handed out since t is counted.
Accounted(t) == t.bytes_allocated <= StatsBytes /\ Counted(t, Here)

\* Where a new arena starts.
Origin == [block_idx |-> 1, offset |-> 0, bytes_allocated |-> 0,
           drop_registry_len |-> 0]

\* What a step does that reclaims nothing: at most one region, counted in full.
Grows ==
  \/ live' = live /\ StatsBytes <= StatsBytes'
  \/ \E r \in RegionType :
       /\ current < r.blk \/ (current = r.blk /\ cur_ptr <= r.off)
       /\ live' = live \cup {r}
       /\ StatsBytes + r.size <= StatsBytes'

-----------------------------------------------------------------------------
(* Footprints *)

\* A region occupies as many bytes as its size.
LEMMA BytesOfRegion ==
  ASSUME NEW r \in RegionType
  PROVE  IsFiniteSet(Bytes(r)) /\ Cardinality(Bytes(r)) = r.size
<1>1. r.off \in Nat /\ r.size \in Nat \ {0} /\ r.off + r.size - 1 \in Int
  BY DEF RegionType
<1>2. /\ IsFiniteSet(r.off .. r.off + r.size - 1)
      /\ Cardinality(r.off .. r.off + r.size - 1) = r.size
  <2> DEFINE last == r.off + r.size - 1
  <2>1. last \in Int /\ ~(r.off > last) /\ last - r.off + 1 = r.size
    BY <1>1
  <2> HIDE DEF last
  <2>2. /\ IsFiniteSet(r.off .. last)
        /\ Cardinality(r.off .. last) =
             IF r.off > last THEN 0 ELSE last - r.off + 1
    BY <1>1, <2>1, FS_Interval
  <2>3. IsFiniteSet(r.off .. last) /\ Cardinality(r.off .. last) = r.size
    BY <2>1, <2>2
  <2> QED
    BY <2>3 DEF last
<1>3. IsFiniteSet({r.blk}) /\ Cardinality({r.blk}) = 1
  BY FS_Singleton
<1>4. /\ IsFiniteSet({r.blk} \X (r.off .. r.off + r.size - 1))
      /\ Cardinality({r.blk} \X (r.off .. r.off + r.size - 1)) = 1 * r.size
  <2> DEFINE A == {r.blk}  B == r.off .. r.off + r.size - 1
  <2>1. /\ IsFiniteSet(A) /\ Cardinality(A) = 1
        /\ IsFiniteSet(B) /\ Cardinality(B) = r.size
    BY <1>2, <1>3
  <2> HIDE DEF A, B
  <2>2. /\ IsFiniteSet(A \X B)
        /\ Cardinality(A \X B) = Cardinality(A) * Cardinality(B)
    BY <2>1, FS_Product
  <2> QED
    BY <2>1, <2>2 DEF A, B
<1> QED
  BY <1>1, <1>4 DEF Bytes

\* Fewer regions occupy no more bytes.
LEMMA FootprintShrinks ==
  ASSUME NEW T, NEW S \in SUBSET T, IsFiniteSet(Footprint(T))
  PROVE  /\ IsFiniteSet(Footprint(S))
         /\ Cardinality(Footprint(S)) \in Nat
         /\ Cardinality(Footprint(S)) <= Cardinality(Footprint(T))
<1>1. Footprint(S) \subseteq Footprint(T)
  BY DEF Footprint
<1> QED
  BY <1>1, FS_Subset, FS_CardinalityType

\* One region more occupies at most its size more.
LEMMA FootprintGrows ==
  ASSUME NEW T, IsFiniteSet(Footprint(T)), NEW r \in RegionType,
         NEW S \in SUBSET (T \cup {r})
  PROVE  /\ IsFiniteSet(Footprint(S))
         /\ Cardinality(Footprint(S)) \in Nat
         /\ Cardinality(Footprint(S)) <= Cardinality(Footprint(T)) + r.size
<1>1. /\ IsFiniteSet(Bytes(r)) /\ Cardinality(Bytes(r)) = r.size
      /\ r.size \in Nat
  BY BytesOfRegion DEF RegionType
<1>2. Footprint(T \cup {r}) = Footprint(T) \cup Bytes(r)
  BY DEF Footprint
<1>3. /\ IsFiniteSet(Footprint(T) \cup Bytes(r))
      /\ Cardinality(Footprint(T) \cup Bytes(r)) =
           Cardinality(Footprint(T)) + Cardinality(Bytes(r))
             - Cardinality(Footprint(T) \cap Bytes(r))
  BY <1>1, FS_Union
<1>4. IsFiniteSet(Footprint(T) \cap Bytes(r))
  BY <1>1, FS_Intersection
<1>5. /\ Cardinality(Footprint(T)) \in Nat
      /\ Cardinality(Footprint(T) \cap Bytes(r)) \in Nat
  BY <1>4, FS_CardinalityType
<1>6. Cardinality(Footprint(T \cup {r})) <= Cardinality(Footprint(T)) + r.size
  <2> DEFINE n == Cardinality(Footprint(T))
             k == Cardinality(Footprint(T) \cap Bytes(r))
  <2>1. Cardinality(Footprint(T \cup {r})) = n + r.size - k
    BY <1>1, <1>2, <1>3
  <2>2. n \in Nat /\ k \in Nat /\ r.size \in Nat
    BY <1>1, <1>5
  <2> HIDE DEF n, k
  <2>3. n + r.size - k <= n + r.size
    BY <2>2
  <2> QED
    BY <2>1, <2>3 DEF n
<1>7. /\ IsFiniteSet(Footprint(S)) /\ Cardinality(Footprint(S)) \in Nat
      /\ Cardinality(Footprint(S)) <= Cardinality(Footprint(T \cup {r}))
  BY <1>2, <1>3, FootprintShrinks
<1>8. Cardinality(Footprint(T \cup {r})) \in Nat
  BY <1>2, <1>3, FS_CardinalityType
<1> QED
  BY <1>1, <1>5, <1>6, <1>7, <1>8

-----------------------------------------------------------------------------
(* Steps of the arena *)

\* A slow path adds to the counter what was left in the cursor, and what it
\* takes of the next block.
LEMMA SlowPathCounts ==
  ASSUME IInv, NEW q \in RequestType, Alloc(q) \/ TryAlloc(q)
  PROVE  \/ UNCHANGED <<bytes_allocated, cur_base>>
         \/ \E n \in Nat : bytes_allocated' = FlushedBytes + n
<1>1. /\ q.size \in Nat /\ q.align \in Nat \ {0} /\ q.align \in Pow2
  BY RequestTyped
<1>2. FlushedBytes \in Nat /\ FlushedBytes = FlushedBytes + 0
  BY FlushedBlocksType
<1>3. ASSUME NEW block, block.offset \in Nat
      PROVE  BumpedOffset(block, q.size, q.align) \in Nat
  <2>1. AlignUp(block.offset, q.align) \in Nat
    BY <1>1, <1>3, AlignUpBounds
  <2> QED
    BY <1>1, <2>1 DEF BumpedOffset
<1>4. CASE Empty(q) \/ AddressOverflow(q) \/ Bump(q)
  BY <1>4 DEF Empty, AddressOverflow, Bump, cursor
<1>5. CASE ReuseBlock(q)
  <2>1. PICK i \in current + 1 .. Len(blocks) :
          bytes_allocated' = FlushedBytes
            + (BumpedOffset(blocks[i], q.size, q.align) - blocks[i].offset)
    BY <1>5 DEF ReuseBlock
  <2>2. blocks[i].offset = 0
    BY DEF IInv, CursorCoherent
  <2> DEFINE new == BumpedOffset(blocks[i], q.size, q.align)
  <2>3. new \in Nat
    BY <1>3, <2>2
  <2>4. bytes_allocated' = FlushedBytes + (new - 0)
    BY <2>1, <2>2
  <2> HIDE DEF new
  <2>5. bytes_allocated' = FlushedBytes + new
    BY <2>3, <2>4
  <2> QED
    BY <2>3, <2>5
<1>6. ASSUME BlockNotListed(q) \/ OpenBlock(q)
      PROVE  \E n \in Nat : bytes_allocated' = FlushedBytes + n
  <2> DEFINE block == NewBlock(BlockSizeFor(next_block_size, q.size, q.align),
                               q.align)
             new   == BumpedOffset(block, q.size, q.align)
  <2>1. block.offset \in Nat
    BY DEF NewBlock
  <2>2. bytes_allocated' = FlushedBytes + new
    BY <1>6 DEF BlockNotListed, OpenBlock
  <2> HIDE DEF block
  <2>3. new \in Nat
    BY <2>1, <1>3
  <2> QED
    BY <2>2, <2>3
<1>7. CASE SizeOverflow(q) \/ \E r \in {"none", "panic"} : OutOfMemory(q, r)
  <2>1. bytes_allocated' = FlushedBytes
    BY <1>7 DEF SizeOverflow, OutOfMemory, FailFlushed
  <2> QED
    BY <2>1, <1>2
<1> QED
  BY <1>4, <1>5, <1>6, <1>7 DEF Alloc, TryAlloc

\* However an allocation ends, the counter grows by no less than what it hands
\* out.
LEMMA AllocationCounted ==
  ASSUME IInv, NEW q \in RequestType, Alloc(q) \/ TryAlloc(q)
  PROVE  \/ live' = live /\ StatsBytes <= StatsBytes'
         \/ \E r \in RegionType :
              /\ r.size = q.size
              /\ current < r.blk \/ (current = r.blk /\ cur_ptr <= r.off)
              /\ live' = live \cup {r}
              /\ StatsBytes + r.size <= StatsBytes'
<1>1. /\ cur_ptr \in Nat /\ bytes_allocated \in Nat /\ q.size \in Nat
      /\ current \in Nat /\ cur_base = current
      /\ FlushedBytes = bytes_allocated + cur_ptr
      /\ StatsBytes = bytes_allocated + cur_ptr
  BY RequestTyped DEF IInv, TypeOK, CursorCoherent, StatsBytes, FlushedBytes
<1>2. /\ cur_ptr' \in Nat /\ bytes_allocated' \in Nat
      /\ StatsBytes' = bytes_allocated' + cur_ptr'
  BY AllocStep DEF IInv, TypeOK, StatsBytes
<1>3. /\ bytes_allocated <= bytes_allocated'
      /\ cur_base' # cur_base => FlushedBytes <= bytes_allocated'
  <2>1. CASE UNCHANGED <<bytes_allocated, cur_base>>
    BY <2>1, <1>1
  <2>2. CASE \E n \in Nat : bytes_allocated' = FlushedBytes + n
    BY <2>2, <1>1
  <2> QED
    BY <2>1, <2>2, SlowPathCounts
<1>4. CASE UNCHANGED <<live, cur_ptr>>
  <2>1. bytes_allocated + cur_ptr <= bytes_allocated' + cur_ptr
    <3>1. \A a, b, c \in Nat : a <= b => a + c <= b + c
      OBVIOUS
    <3> QED
      BY <1>1, <1>2, <1>3, <3>1
  <2>2. StatsBytes <= StatsBytes'
    BY <2>1, <1>1, <1>2, <1>4
  <2> QED
    BY <2>2, <1>4
<1>5. ASSUME NEW off \in Nat, NEW r \in RegionType,
             r = [blk |-> cur_base', off |-> off,
                  size |-> q.size, align |-> q.align],
             off + q.size = cur_ptr',
             current < cur_base' \/ (current = cur_base' /\ cur_ptr <= off),
             live' = live \cup {r}
      PROVE  /\ r.size = q.size
             /\ current < r.blk \/ (current = r.blk /\ cur_ptr <= r.off)
             /\ StatsBytes + r.size <= StatsBytes'
  <2>1. r.size = q.size /\ r.blk = cur_base' /\ r.off = off
    BY <1>5
  <2>2. CASE current < cur_base'
    <3>1. FlushedBytes <= bytes_allocated'
      BY <2>2, <1>1, <1>3
    <3> QED
      BY <3>1, <2>1, <2>2, <1>1, <1>2, <1>5
  <2>3. CASE current = cur_base' /\ cur_ptr <= off
    BY <2>1, <2>3, <1>1, <1>2, <1>3, <1>5
  <2> QED
    BY <2>2, <2>3, <1>5
<1> QED
  BY <1>4, <1>5, AllocationOutcome

\* The steps that reclaim nothing: the counter covers what they hand out, and a
\* checkpoint they add is taken here.
LEMMA GrowthCounted ==
  ASSUME Sound,
         \/ \E q \in Requests : Alloc(q) \/ TryAlloc(q)
         \/ \E r \in live : RegisterDrop(r)
         \/ TakeCheckpoint
         \/ UNCHANGED <<live, bytes_allocated, cur_ptr, checkpoints>>
  PROVE  Grows /\ checkpoints' \subseteq checkpoints \cup {Here}
<1>1. IInv /\ StatsBytes <= StatsBytes
  BY DEF Sound, IInv, TypeOK, StatsBytes
<1>2. ASSUME NEW q \in Requests, Alloc(q) \/ TryAlloc(q)
      PROVE  Grows /\ checkpoints' = checkpoints
  <2>1. q \in RequestType
    BY ArenaAssumption
  <2>2. Grows
    BY <1>1, <1>2, <2>1, AllocationCounted DEF Grows
  <2> QED
    BY <1>1, <1>2, <2>1, <2>2, AllocHandsOut
<1>3. ASSUME UNCHANGED <<live, bytes_allocated, cur_ptr>>
      PROVE  Grows
  BY <1>1, <1>3 DEF Grows, StatsBytes
<1>4. ASSUME NEW r \in live, RegisterDrop(r)
      PROVE  UNCHANGED <<live, bytes_allocated, cur_ptr, checkpoints>>
  BY <1>4 DEF RegisterDrop, cursor
<1>5. TakeCheckpoint => /\ UNCHANGED <<live, bytes_allocated, cur_ptr>>
                        /\ checkpoints' = checkpoints \cup {Here}
  BY DEF TakeCheckpoint, cursor
<1> QED
  BY <1>2, <1>3, <1>4, <1>5

-----------------------------------------------------------------------------
(* What a step does to the counts *)

\* Where fewer regions lie between two checkpoints, their counts still cover them.
LEMMA CountedKept ==
  ASSUME NEW t \in CheckpointType, NEW d \in CheckpointType, Counted(t, d),
         IsFiniteSet(Footprint(live)), Between(t, d)' \subseteq Between(t, d)
  PROVE  Counted(t, d)'
<1>1. /\ t.bytes_allocated \in Nat /\ d.bytes_allocated \in Nat
  BY DEF CheckpointType
<1>2. IsFiniteSet(Footprint(Between(t, d)))
  BY FootprintShrinks DEF Between
<1>3. /\ Cardinality(Footprint(Between(t, d))) \in Nat
      /\ Cardinality(Footprint(Between(t, d)')) \in Nat
      /\ Cardinality(Footprint(Between(t, d)')) <=
           Cardinality(Footprint(Between(t, d)))
  BY <1>2, FootprintShrinks
<1> QED
  BY <1>1, <1>3 DEF Counted

\* A region handed out lies beyond every checkpoint.
LEMMA GrowthKeepsCounted ==
  ASSUME Sound, Grows, IsFiniteSet(Footprint(live)),
         NEW t \in CheckpointType, NEW d, Valid(d), Counted(t, d)
  PROVE  Counted(t, d)'
<1>1. IInv /\ d \in CheckpointType /\ NoLater(d, Here)
  BY DEF Sound, Valid
<1>2. Between(t, d)' \subseteq Between(t, d)
  <2>1. CASE live' = live
    BY <2>1 DEF Between
  <2>2. ASSUME NEW r \in RegionType,
               current < r.blk \/ (current = r.blk /\ cur_ptr <= r.off),
               live' = live \cup {r}
        PROVE  Between(t, d)' \subseteq Between(t, d)
    <3>1. ~Below(r, d.block_idx, d.offset)
      BY <1>1, <2>2, BeyondCheckpoint
    <3> QED
      BY <2>2, <3>1 DEF Between
  <2> QED
    BY <2>1, <2>2 DEF Grows
<1> QED
  BY <1>1, <1>2, CountedKept

\* Finitely many bytes are ever held.
LEMMA GrowthKeepsFinite ==
  ASSUME Grows, IsFiniteSet(Footprint(live))
  PROVE  IsFiniteSet(Footprint(live))'
BY FootprintGrows DEF Grows

\* What is held since a checkpoint grows by no more than the counter.
LEMMA GrowthKeepsAccounted ==
  ASSUME Sound, Sound', Grows, IsFiniteSet(Footprint(live)),
         NEW t, Valid(t), Accounted(t)
  PROVE  Accounted(t)'
<1>1. t.bytes_allocated \in Nat /\ StatsBytes \in Nat /\ StatsBytes' \in Nat
  <2>1. /\ bytes_allocated \in Nat /\ cur_ptr \in Nat
        /\ bytes_allocated' \in Nat /\ cur_ptr' \in Nat
    BY DEF Sound, IInv, TypeOK
  <2>2. t \in CheckpointType /\ t.bytes_allocated \in Nat
    BY DEF Valid, CheckpointType
  <2>3. StatsBytes \in Nat /\ StatsBytes' \in Nat
    <3>1. StatsBytes' = bytes_allocated' + cur_ptr'
      BY DEF StatsBytes
    <3>2. \A a, b \in Nat : a + b \in Nat
      OBVIOUS
    <3> QED
      BY <2>1, <3>1, <3>2 DEF StatsBytes
  <2> QED
    BY <2>2, <2>3
<1>2. /\ Here.bytes_allocated = StatsBytes /\ Here.block_idx = current
      /\ Here.offset = cur_ptr
      /\ Here'.bytes_allocated = StatsBytes'
  BY DEF Here, StatsBytes
<1>3. Between(t, Here) = {r \in live : ~Below(r, t.block_idx, t.offset)}
  BY <1>2 DEF Between, Sound, IInv, WellPlaced
<1>4. /\ IsFiniteSet(Footprint(Between(t, Here)))
      /\ Cardinality(Footprint(Between(t, Here))) \in Nat
      /\ Cardinality(Footprint(Between(t, Here)))
           <= StatsBytes - t.bytes_allocated
  BY <1>2, <1>3, FootprintShrinks DEF Accounted, Counted
<1>5. CASE live' = live /\ StatsBytes <= StatsBytes'
  <2>1. Between(t, Here)' \subseteq Between(t, Here)
    BY <1>3, <1>5 DEF Between
  <2>2. /\ Cardinality(Footprint(Between(t, Here)')) \in Nat
        /\ Cardinality(Footprint(Between(t, Here)'))
             <= Cardinality(Footprint(Between(t, Here)))
    BY <2>1, <1>4, FootprintShrinks
  <2>3. Cardinality(Footprint(Between(t, Here)'))
          <= StatsBytes' - t.bytes_allocated
    BY <2>2, <1>1, <1>4, <1>5
  <2>4. t.bytes_allocated <= StatsBytes'
    BY <1>1, <1>5 DEF Accounted
  <2> QED
    BY <2>3, <2>4, <1>2, <1>5 DEF Accounted, Counted
<1>6. ASSUME NEW r \in RegionType, live' = live \cup {r},
             StatsBytes + r.size <= StatsBytes'
      PROVE  Accounted(t)'
  <2>1. Between(t, Here)' \subseteq Between(t, Here) \cup {r}
    BY <1>3, <1>6 DEF Between
  <2>2. /\ Cardinality(Footprint(Between(t, Here)')) \in Nat
        /\ Cardinality(Footprint(Between(t, Here)'))
             <= Cardinality(Footprint(Between(t, Here))) + r.size
    BY <2>1, <1>4, FootprintGrows
  <2>3. r.size \in Nat
    BY DEF RegionType
  <2>4. /\ Cardinality(Footprint(Between(t, Here)'))
             <= StatsBytes' - t.bytes_allocated
        /\ t.bytes_allocated <= StatsBytes'
    BY <2>2, <2>3, <1>1, <1>4, <1>6 DEF Accounted
  <2> QED
    BY <2>4, <1>2 DEF Accounted, Counted
<1> QED
  BY <1>5, <1>6 DEF Grows

\* A rewind to cp, completed or left by a panicking destructor, keeps account of
\* what was handed out since t, if cp was taken after t.
LEMMA RewindKeepsAccounted ==
  ASSUME Sound, NEW cp, Valid(cp), Rewind(cp) \/ RewindPanics(cp),
         IsFiniteSet(Footprint(live)),
         NEW t, Valid(t), Accounted(t), After(t, cp), Counted(t, cp)
  PROVE  Accounted(t)'
<1>1. /\ t \in CheckpointType /\ cp \in CheckpointType
      /\ t.bytes_allocated \in Nat /\ cp.bytes_allocated \in Nat
      /\ cp.offset \in Nat /\ Restorable(cp)
  BY DEF Valid, CheckpointType
<1>2. CASE RewindPanics(cp)
  <2>1. UNCHANGED <<live, bytes_allocated, current, cur_ptr>>
    BY <1>2 DEF RewindPanics, DropPanics, cursor
  <2>2. /\ Here'.bytes_allocated = Here.bytes_allocated
        /\ Between(t, Here)' = Between(t, Here) /\ StatsBytes' = StatsBytes
    BY <2>1 DEF Here, Between, StatsBytes
  <2> QED
    BY <2>2 DEF Accounted, Counted
<1>3. CASE Rewind(cp)
  <2>1. /\ live' = {r \in live : Below(r, cp.block_idx, cp.offset)}
        /\ bytes_allocated' = cp.bytes_allocated - cp.offset
        /\ SetCurrentBlock(RewoundBlocks(cp), cp.block_idx)
    BY <1>3 DEF Rewind
  <2>2. cur_ptr' = cp.offset
    BY <2>1, <1>1, RewoundBlocksType, PartOfIInv DEF SetCurrentBlock, Sound
  <2>3. StatsBytes' = cp.bytes_allocated /\ Here'.bytes_allocated = StatsBytes'
    BY <2>1, <2>2, <1>1 DEF StatsBytes, Here
  <2>4. Between(t, Here)' \subseteq Between(t, cp)
    BY <2>1 DEF Between
  <2>5. IsFiniteSet(Footprint(Between(t, cp)))
    BY FootprintShrinks DEF Between
  <2>6. /\ Cardinality(Footprint(Between(t, cp))) \in Nat
        /\ Cardinality(Footprint(Between(t, Here)')) \in Nat
        /\ Cardinality(Footprint(Between(t, Here)'))
             <= Cardinality(Footprint(Between(t, cp)))
    BY <2>4, <2>5, FootprintShrinks
  <2>7. Cardinality(Footprint(Between(t, Here)'))
          <= cp.bytes_allocated - t.bytes_allocated
    BY <2>6, <1>1 DEF Counted
  <2> QED
    BY <2>3, <2>7 DEF Accounted, Counted, After
<1> QED
  BY <1>2, <1>3

\* A rewind or reset leaves no more between two checkpoints than was there.
LEMMA ReclaimKeepsCounted ==
  ASSUME live' \subseteq live, IsFiniteSet(Footprint(live)),
         NEW t \in CheckpointType, NEW d \in CheckpointType, Counted(t, d)
  PROVE  Counted(t, d)'
BY CountedKept DEF Between

\* A step that reclaims leaves finitely many bytes.
LEMMA ReclaimKeepsFinite ==
  ASSUME live' \subseteq live, IsFiniteSet(Footprint(live))
  PROVE  IsFiniteSet(Footprint(live))'
BY FootprintShrinks

-----------------------------------------------------------------------------
(* The counter of the arena *)

\* The inductive invariant: what lies below each place the arena may return to
\* is counted there.
CountIInv ==
  /\ PromiseIInv
  /\ IsFiniteSet(Footprint(live))
  /\ Accounted(Origin)
  /\ \A c \in checkpoints : Counted(Origin, c)

\* The start of the arena is always a place to return to, taken first.
LEMMA OriginValid ==
  ASSUME Sound
  PROVE  /\ Origin \in CheckpointType /\ Valid(Origin)
         /\ \A d \in CheckpointType : After(Origin, d)
<1>1. Origin \in CheckpointType
  BY DEF Origin, CheckpointType
<1>2. /\ Len(blocks) \in Nat /\ current \in 1 .. Len(blocks)
      /\ \A i \in 1 .. Len(blocks) : blocks[i] \in BlockType
      /\ cur_ptr \in Nat /\ Len(drop_registry) \in Nat
  BY LenProperties, ElementOfSeq DEF Sound, IInv, TypeOK
<1>3. \A d \in CheckpointType : After(Origin, d)
  BY DEF After, NoLater, Origin, CheckpointType
<1>4. Here \in CheckpointType
  BY HereValid DEF Valid
<1>5. Restorable(Origin)
  <2>1. 1 \in 1 .. Len(blocks)
    BY <1>2
  <2>2. blocks[1].capacity \in Nat
    BY <2>1, <1>2 DEF BlockType
  <2> QED
    BY <2>1, <2>2 DEF Restorable, Origin
<1>6. Separates(Origin)
  BY <1>2 DEF Separates, Origin
<1>7. Reached(Origin.block_idx, Origin.offset)
  BY DEF Reached, Origin
<1>8. NoLater(Origin, Here)
  BY <1>3, <1>4 DEF After
<1> QED
  BY <1>1, <1>3, <1>5, <1>6, <1>7, <1>8 DEF Valid

\* What is held lies between the start of the arena and the cursor.
LEMMA HeldIsBetween ==
  ASSUME Sound
  PROVE  Between(Origin, Here) = live
<1>1. ASSUME NEW r \in live
      PROVE  ~Below(r, 1, 0) /\ Below(r, current, cur_ptr)
  <2>1. r \in RegionType /\ Below(r, current, cur_ptr)
    BY DEF Sound, IInv, WellPlaced, TypeOK
  <2> QED
    BY <2>1 DEF Below, RegionType
<1> QED
  BY <1>1 DEF Between, Origin, Here

\* A step that reclaims nothing keeps the arena's account.
LEMMA GrowthCountStep ==
  ASSUME CountIInv, PromiseIInv',
         \/ \E q \in Requests : Alloc(q) \/ TryAlloc(q)
         \/ \E r \in live : RegisterDrop(r)
         \/ TakeCheckpoint
         \/ UNCHANGED vars
  PROVE  CountIInv'
<1>1. Sound /\ Sound' /\ Valid(Origin) /\ Origin \in CheckpointType
  BY OriginValid DEF CountIInv, PromiseIInv
<1>2. Grows /\ checkpoints' \subseteq checkpoints \cup {Here}
  BY <1>1, GrowthCounted DEF vars, cursor
<1>3. IsFiniteSet(Footprint(live)) /\ Accounted(Origin)
  BY DEF CountIInv
<1>4. Accounted(Origin)' /\ IsFiniteSet(Footprint(live))'
  BY <1>1, <1>3, <1>2, GrowthKeepsAccounted, GrowthKeepsFinite
<1>5. \A d : Valid(d) /\ Counted(Origin, d) => Counted(Origin, d)'
  BY <1>1, <1>3, <1>2, GrowthKeepsCounted
<1>6. Valid(Here) /\ Counted(Origin, Here)
  BY <1>1, <1>3, HereValid DEF Accounted
<1>7. \A c \in checkpoints' : Counted(Origin, c)'
  BY <1>2, <1>5, <1>6 DEF CountIInv, PromiseIInv
<1> QED
  BY <1>4, <1>7 DEF CountIInv, Counted, Between

\* So does a rewind to any checkpoint, and a reset.
LEMMA ReclaimCountStep ==
  ASSUME CountIInv, PromiseIInv',
         \/ \E cp \in checkpoints : Rewind(cp) \/ RewindPanics(cp)
         \/ Reset
         \/ ResetPanics
  PROVE  CountIInv'
<1>1. /\ Sound /\ Sound' /\ Valid(Origin) /\ Origin \in CheckpointType
      /\ \A c \in checkpoints : Valid(c) /\ After(Origin, c)
  BY OriginValid DEF CountIInv, PromiseIInv, Valid, CheckpointType
<1>2. IsFiniteSet(Footprint(live)) /\ Accounted(Origin)
  BY DEF CountIInv
<1>3. live' \subseteq live /\ checkpoints' \subseteq checkpoints
  BY DEF Rewind, Reset, RewindPanics, ResetPanics, DropPanics, Keep
<1>4. Accounted(Origin)'
  <2>1. ASSUME NEW cp \in checkpoints, Rewind(cp) \/ RewindPanics(cp)
        PROVE  Accounted(Origin)'
    BY <1>1, <1>2, <2>1, RewindKeepsAccounted DEF CountIInv
  <2>2. CASE ResetPanics
    <3>1. UNCHANGED <<live, bytes_allocated, current, cur_ptr>>
      BY <2>2 DEF ResetPanics, DropPanics, cursor
    <3> QED
      BY <3>1, <1>2 DEF Accounted, Counted, Between, Here, StatsBytes, Origin
  <2>3. CASE Reset
    <3>1. live' = {} /\ bytes_allocated' = 0 /\ cur_ptr' = 0
      BY <2>3 DEF Reset
    <3>2. Between(Origin, Here)' = {} /\ Footprint({}) = {}
      BY <3>1 DEF Between, Footprint
    <3>3. StatsBytes' = 0 /\ Here'.bytes_allocated = 0
      BY <3>1 DEF StatsBytes, Here
    <3> QED
      BY <3>2, <3>3, FS_EmptySet DEF Accounted, Counted, Origin
  <2> QED
    BY <2>1, <2>2, <2>3
<1>5. \A d \in CheckpointType : Counted(Origin, d) => Counted(Origin, d)'
  BY <1>1, <1>2, <1>3, ReclaimKeepsCounted
<1>6. \A c \in checkpoints' : Counted(Origin, c)'
  BY <1>1, <1>3, <1>5 DEF CountIInv, Valid
<1>7. IsFiniteSet(Footprint(live))'
  BY <1>2, <1>3, ReclaimKeepsFinite
<1> QED
  BY <1>4, <1>6, <1>7 DEF CountIInv, Counted, Between

\* A new arena holds nothing and counts nothing.
LEMMA InitCountIInv ==
  Init => CountIInv
<1> SUFFICES ASSUME Init PROVE CountIInv
  OBVIOUS
<1>1. PromiseIInv
  BY InitPromiseIInv
<1>2. live = {} /\ bytes_allocated = 0 /\ cur_ptr = 0 /\ checkpoints = {}
  BY DEF Init
<1>3. Between(Origin, Here) = {} /\ Footprint({}) = {} /\ Footprint(live) = {}
  BY <1>2 DEF Between, Footprint
<1>4. StatsBytes = 0 /\ Here.bytes_allocated = 0 /\ Origin.bytes_allocated = 0
  BY <1>2 DEF StatsBytes, Here, Origin
<1>5. IsFiniteSet({}) /\ Cardinality({}) = 0
  BY FS_EmptySet
<1> QED
  BY <1>1, <1>2, <1>3, <1>4, <1>5 DEF CountIInv, Accounted, Counted

\* The account is kept in every reachable state.
LEMMA CountInductive ==
  ASSUME ~StaleUse
  PROVE  Spec => []CountIInv
<1>1. ASSUME CountIInv, [Next]_vars
      PROVE  CountIInv'
  <2>1. PromiseIInv'
    BY <1>1, PromiseNextStep DEF CountIInv
  <2>2. CASE \/ \E cp \in checkpoints : Rewind(cp) \/ RewindPanics(cp)
             \/ Reset
             \/ ResetPanics
    BY <1>1, <2>1, <2>2, ReclaimCountStep
  <2>3. CASE \/ \E q \in Requests : Alloc(q) \/ TryAlloc(q)
             \/ \E r \in live : RegisterDrop(r)
             \/ TakeCheckpoint
             \/ UNCHANGED vars
    BY <1>1, <2>1, <2>3, GrowthCountStep
  <2> QED
    BY <1>1, <2>2, <2>3 DEF Next
<1> QED
  BY <1>1, InitCountIInv, PTL DEF Spec

\* The doubly counted statistics err on one side only: stats().bytes_allocated
\* (arena/allocator.rs) is never less than the bytes the caller holds, after any
\* sequence of allocations, failed calls, rewinds and resets.
THEOREM CounterCoversLive ==
  ASSUME ~StaleUse
  PROVE  Spec => []StatsCoverLive
<1>1. ASSUME CountIInv
      PROVE  StatsCoverLive
  <2>1. /\ Accounted(Origin) /\ IsFiniteSet(Footprint(live))
        /\ Between(Origin, Here) = live
    BY <1>1, HeldIsBetween DEF CountIInv, PromiseIInv
  <2>2. /\ Here.bytes_allocated = StatsBytes /\ Origin.bytes_allocated = 0
        /\ StatsBytes \in Nat
    BY <1>1 DEF Here, StatsBytes, Origin, CountIInv, PromiseIInv, Sound, IInv,
                TypeOK
  <2>3. Cardinality(Footprint(live)) <= StatsBytes - 0
    BY <2>1, <2>2 DEF Accounted, Counted
  <2>4. StatsBytes - 0 = StatsBytes
    BY <2>2
  <2> QED
    BY <2>3, <2>4 DEF StatsCoverLive
<1> QED
  BY <1>1, CountInductive, PTL

-----------------------------------------------------------------------------
(* The budgets of transactions *)

\* Each guard accounts for what was handed out since it was opened, up to the
\* cursor and up to every other place the arena may be rolled back to.
GuardsAccount ==
  /\ \A k \in 1 .. Len(txns) :
       /\ Accounted(txns[k].checkpoint)
       /\ \A c \in checkpoints :
            After(txns[k].checkpoint, c) => Counted(txns[k].checkpoint, c)
  /\ \A k, j \in 1 .. Len(txns) :
       k < j => /\ After(txns[k].checkpoint, txns[j].checkpoint)
                /\ Counted(txns[k].checkpoint, txns[j].checkpoint)

\* The inductive invariant.
BudgetIInv ==
  /\ NestedIInv
  /\ IsFiniteSet(Footprint(live))
  /\ GuardsAccount

\* What GuardsAccount says after a step, guard by guard.
LEMMA GuardsFromMarks ==
  ASSUME NEW n \in Nat, NEW f, Len(txns') = n,
         \A k \in 1 .. n : txns'[k].checkpoint = f[k],
         \A k \in 1 .. n : Accounted(f[k])',
         \A k \in 1 .. n : \A c \in checkpoints' :
           After(f[k], c) => Counted(f[k], c)',
         \A k, j \in 1 .. n :
           k < j => After(f[k], f[j]) /\ Counted(f[k], f[j])'
  PROVE  GuardsAccount'
<1>1. ASSUME NEW k \in 1 .. n
      PROVE  /\ Accounted(txns[k].checkpoint)'
             /\ \A c \in checkpoints' :
                  After(txns[k].checkpoint, c)' => Counted(txns[k].checkpoint, c)'
  BY DEF Accounted, Counted, Between, After, NoLater
<1>2. ASSUME NEW k \in 1 .. n, NEW j \in 1 .. n, k < j
      PROVE  /\ After(txns[k].checkpoint, txns[j].checkpoint)'
             /\ Counted(txns[k].checkpoint, txns[j].checkpoint)'
  <2>1. /\ txns'[k].checkpoint = f[k] /\ txns'[j].checkpoint = f[j]
        /\ After(f[k], f[j])
    BY <1>2
  <2>2. Counted(f[k], f[j])'
    BY <1>2
  <2>3. Counted(txns[k].checkpoint, txns[j].checkpoint)'
    BY <2>1, <2>2 DEF Counted, Between
  <2> QED
    BY <2>1, <2>3 DEF After, NoLater
<1> QED
  BY <1>1, <1>2 DEF GuardsAccount

\* A step that reclaims nothing, and that closes guards or none.
LEMMA GuardsGrow ==
  ASSUME BudgetIInv, NestedIInv', Grows,
         NEW n \in 0 .. Len(txns), Len(txns') = n,
         \A k \in 1 .. n : txns'[k].checkpoint = txns[k].checkpoint,
         checkpoints' \subseteq checkpoints \cup {Here}
  PROVE  BudgetIInv'
<1>0. PICK f : f = [k \in 1 .. Len(txns) |-> txns[k].checkpoint]
  OBVIOUS
<1>1. /\ Sound /\ Sound' /\ IsFiniteSet(Footprint(live)) /\ Len(txns) \in Nat
      /\ \A c \in checkpoints : Valid(c)
  BY LenProperties DEF BudgetIInv, NestedIInv, PromiseIInv, TxnIInv, TxnTypeOK
<1>2. \A k \in 1 .. n : k \in 1 .. Len(txns) /\ f[k] = txns[k].checkpoint
  BY <1>0, <1>1
<1>3. \A k \in 1 .. n : /\ Valid(f[k]) /\ f[k] \in CheckpointType
                        /\ Accounted(f[k]) /\ Counted(f[k], Here)
  BY <1>2 DEF BudgetIInv, NestedIInv, Guarded, GuardsAccount, Valid, Accounted
<1>4. \A t : Valid(t) /\ Accounted(t) => Accounted(t)'
  BY <1>1, GrowthKeepsAccounted
<1>5. \A t \in CheckpointType : \A d : Valid(d) /\ Counted(t, d) => Counted(t, d)'
  BY <1>1, GrowthKeepsCounted
<1>6. \A k \in 1 .. n : Accounted(f[k])'
  BY <1>3, <1>4
<1>7. \A k \in 1 .. n : \A c \in checkpoints' :
        After(f[k], c) => Counted(f[k], c)'
  <2> TAKE k \in 1 .. n
  <2> TAKE c \in checkpoints'
  <2>1. CASE c \in checkpoints
    <3>1. After(f[k], c) => Counted(f[k], c)
      BY <2>1, <1>2 DEF BudgetIInv, GuardsAccount
    <3> QED
      BY <2>1, <3>1, <1>1, <1>3, <1>5
  <2>2. CASE c = Here
    <3>1. Valid(c) /\ Counted(f[k], c)
      BY <2>2, <1>1, <1>3, HereValid
    <3> QED
      BY <3>1, <1>3, <1>5
  <2> QED
    BY <2>1, <2>2
<1>8. \A k, j \in 1 .. n : k < j => After(f[k], f[j]) /\ Counted(f[k], f[j])'
  <2>1. \A k, j \in 1 .. n : k < j => After(f[k], f[j]) /\ Counted(f[k], f[j])
    BY <1>2 DEF BudgetIInv, GuardsAccount
  <2> QED
    BY <2>1, <1>3, <1>5
<1>9. n \in Nat /\ \A k \in 1 .. n : txns'[k].checkpoint = f[k]
  BY <1>1, <1>2
<1>10. GuardsAccount'
  BY <1>6, <1>7, <1>8, <1>9, GuardsFromMarks
<1>11. IsFiniteSet(Footprint(live))'
  BY <1>1, GrowthKeepsFinite
<1> QED
  BY <1>10, <1>11 DEF BudgetIInv

\* A rewind, after which the guards left are those opened before its checkpoint.
LEMMA GuardsReclaim ==
  ASSUME BudgetIInv, NestedIInv',
         NEW cp, Valid(cp), Rewind(cp) \/ RewindPanics(cp),
         NEW n \in 0 .. Len(txns), Len(txns') = n,
         \A k \in 1 .. n : txns'[k].checkpoint = txns[k].checkpoint,
         \A k \in 1 .. n : After(txns[k].checkpoint, cp)
                           /\ Counted(txns[k].checkpoint, cp)
  PROVE  BudgetIInv'
<1>0. PICK f : f = [k \in 1 .. Len(txns) |-> txns[k].checkpoint]
  OBVIOUS
<1>1. /\ Sound /\ IsFiniteSet(Footprint(live)) /\ Len(txns) \in Nat
      /\ \A c \in checkpoints : Valid(c)
  BY LenProperties DEF BudgetIInv, NestedIInv, PromiseIInv, TxnIInv, TxnTypeOK
<1>2. \A k \in 1 .. n : k \in 1 .. Len(txns) /\ f[k] = txns[k].checkpoint
  BY <1>0, <1>1
<1>3. \A k \in 1 .. n : /\ Valid(f[k]) /\ f[k] \in CheckpointType
                        /\ Accounted(f[k])
                        /\ After(f[k], cp) /\ Counted(f[k], cp)
  BY <1>2 DEF BudgetIInv, NestedIInv, Guarded, GuardsAccount, Valid
<1>4. live' \subseteq live /\ checkpoints' \subseteq checkpoints
  BY DEF Rewind, RewindPanics, DropPanics, Keep
<1>5. \A t \in CheckpointType, d \in CheckpointType :
        Counted(t, d) => Counted(t, d)'
  BY <1>1, <1>4, ReclaimKeepsCounted
<1>6. \A k \in 1 .. n : Accounted(f[k])'
  BY <1>1, <1>3, RewindKeepsAccounted
<1>7. \A k \in 1 .. n : \A c \in checkpoints' :
        After(f[k], c) => Counted(f[k], c)'
  <2>1. \A k \in 1 .. n : \A c \in checkpoints' :
          After(f[k], c) => Counted(f[k], c)
    BY <1>2, <1>4 DEF BudgetIInv, GuardsAccount
  <2>2. \A c \in checkpoints' : c \in CheckpointType
    BY <1>1, <1>4 DEF Valid
  <2> QED
    BY <2>1, <2>2, <1>3, <1>5
<1>8. \A k, j \in 1 .. n : k < j => After(f[k], f[j]) /\ Counted(f[k], f[j])'
  <2>1. \A k, j \in 1 .. n : k < j => After(f[k], f[j]) /\ Counted(f[k], f[j])
    BY <1>2 DEF BudgetIInv, GuardsAccount
  <2> QED
    BY <2>1, <1>3, <1>5
<1>9. n \in Nat /\ \A k \in 1 .. n : txns'[k].checkpoint = f[k]
  BY <1>1, <1>2
<1>10. GuardsAccount'
  BY <1>6, <1>7, <1>8, <1>9, GuardsFromMarks
<1> QED
  BY <1>1, <1>4, <1>10, ReclaimKeepsFinite DEF BudgetIInv

\* A new guard is opened here, where nothing has been handed out yet.
LEMMA GuardsBegin ==
  ASSUME BudgetIInv, NestedIInv', NEW by \in Holders, Begin(by)
  PROVE  BudgetIInv'
<1> DEFINE n == Len(txns)
<1>1. /\ txns' = Append(txns, [checkpoint |-> Here, depth |-> txn_depth + 1,
                               limit |-> NoLimit, by |-> by, result |-> "open"])
      /\ UNCHANGED <<live, bytes_allocated, cur_ptr, current, drop_registry,
                     checkpoints>>
  BY DEF Begin, vars, cursor
<1>2. /\ Sound /\ IsFiniteSet(Footprint(live)) /\ n \in Nat
      /\ txns \in Seq(TransactionType) /\ \A c \in checkpoints : Valid(c)
  BY LenProperties DEF BudgetIInv, NestedIInv, PromiseIInv, TxnIInv, TxnTypeOK
<1>3. /\ Len(txns') = n + 1 /\ txns'[n + 1].checkpoint = Here
      /\ \A k \in 1 .. n : txns'[k] = txns[k]
  BY <1>1, <1>2, AppendProperties
<1> HIDE DEF n
<1>4. PICK f : f = [k \in 1 .. n + 1 |-> txns'[k].checkpoint]
  OBVIOUS
<1>5. /\ f[n + 1] = Here
      /\ \A k \in 1 .. n : f[k] = txns[k].checkpoint
      /\ \A k \in 1 .. n + 1 : k \in 1 .. n \/ k = n + 1
  BY <1>2, <1>3, <1>4
<1>6. /\ Valid(Here) /\ Here \in CheckpointType
      /\ Here.bytes_allocated = StatsBytes /\ StatsBytes \in Nat
      /\ Here.block_idx = current /\ Here.offset = cur_ptr
      /\ current \in Nat /\ cur_ptr \in Nat
  <2>1. Valid(Here) /\ Here \in CheckpointType
    BY <1>2, HereValid DEF Valid
  <2>2. bytes_allocated \in Nat /\ current \in Nat /\ cur_ptr \in Nat
    BY <1>2 DEF Sound, IInv, TypeOK
  <2> QED
    BY <2>1, <2>2 DEF Here, StatsBytes
<1>7. ASSUME NEW c, c.block_idx = current, c.offset = cur_ptr,
             c.bytes_allocated \in Nat, StatsBytes <= c.bytes_allocated
      PROVE  Counted(Here, c)
  <2>1. Between(Here, c) = {} /\ Footprint({}) = {}
    BY <1>6, <1>7 DEF Between, Footprint
  <2>2. Cardinality(Footprint(Between(Here, c))) = 0
    BY <2>1, FS_EmptySet
  <2> QED
    BY <2>2, <1>6, <1>7 DEF Counted
<1>8. Accounted(Here)
  BY <1>6, <1>7 DEF Accounted
<1>9. \A k \in 1 .. n + 1 : Accounted(f[k])
  BY <1>5, <1>8 DEF BudgetIInv, GuardsAccount, n
<1>10. \A k \in 1 .. n + 1 : \A c \in checkpoints :
         After(f[k], c) => Counted(f[k], c)
  <2>1. ASSUME NEW c \in checkpoints, After(Here, c)
        PROVE  Counted(Here, c)
    <3>1. c \in CheckpointType /\ NoLater(c, Here) /\ NoLater(Here, c)
      BY <1>2, <2>1 DEF Valid, After
    <3>2. c.block_idx = current /\ c.offset = cur_ptr
      BY <3>1, <1>6 DEF NoLater, CheckpointType
    <3>3. c.bytes_allocated \in Nat /\ StatsBytes <= c.bytes_allocated
      BY <3>1, <2>1, <1>6 DEF After, CheckpointType
    <3> QED
      BY <3>2, <3>3, <1>7
  <2> QED
    BY <2>1, <1>5 DEF BudgetIInv, GuardsAccount, n
<1>11. \A k, j \in 1 .. n + 1 :
         k < j => After(f[k], f[j]) /\ Counted(f[k], f[j])
  <2>1. ASSUME NEW k \in 1 .. n
        PROVE  After(f[k], Here) /\ Counted(f[k], Here)
    BY <1>5, <1>6, <1>9 DEF Accounted, After, BudgetIInv, NestedIInv, Guarded,
                            Valid, n
  <2>2. \A k, j \in 1 .. n + 1 : k < j => k \in 1 .. n
    BY <1>2
  <2> QED
    BY <2>1, <2>2, <1>5 DEF BudgetIInv, GuardsAccount, n
<1>12. /\ \A t : Accounted(t) => Accounted(t)'
       /\ \A t, d : Counted(t, d) => Counted(t, d)'
  BY <1>1 DEF Accounted, Counted, Between, StatsBytes, Here
<1>13. n + 1 \in Nat /\ \A k \in 1 .. n + 1 : txns'[k].checkpoint = f[k]
  BY <1>2, <1>4
<1>14. GuardsAccount'
  BY <1>1, <1>3, <1>9, <1>10, <1>11, <1>12, <1>13, GuardsFromMarks
<1> QED
  BY <1>1, <1>2, <1>14 DEF BudgetIInv

\* The end of the innermost guard by a rewind to its checkpoint.
LEMMA GuardsRollback ==
  ASSUME BudgetIInv, NestedIInv', Rollback \/ RollbackPanics
  PROVE  BudgetIInv'
<1>1. txns # <<>> /\ txns' = Pop /\ txns \in Seq(TransactionType)
  BY DEF Rollback, RollbackPanics, Leave, BudgetIInv, NestedIInv, TxnIInv, TxnTypeOK
<1>2. /\ Len(txns) \in Nat \ {0} /\ Len(txns') = Len(txns) - 1
      /\ \A k \in 1 .. Len(txns) - 1 : k \in 1 .. Len(txns) /\ txns'[k] = txns[k]
  BY <1>1, PopKeeps
<1>3. PICK cp : cp = Top.checkpoint
  OBVIOUS
<1>4. Valid(cp) /\ (Rewind(cp) \/ RewindPanics(cp))
  <2>1. Valid(Top.checkpoint)
    BY <1>2 DEF BudgetIInv, NestedIInv, Guarded, Top
  <2> QED
    BY <2>1, <1>3 DEF Rollback, RollbackPanics
<1>5. PICK n \in 0 .. Len(txns) : n = Len(txns) - 1
  <2>1. Len(txns) - 1 \in 0 .. Len(txns)
    BY <1>2
  <2> QED
    BY <2>1
<1>6. \A k \in 1 .. n : /\ After(txns[k].checkpoint, cp)
                        /\ Counted(txns[k].checkpoint, cp)
  BY <1>2, <1>3, <1>5 DEF BudgetIInv, GuardsAccount, Top
<1>7. Len(txns') = n /\ \A k \in 1 .. n : txns'[k].checkpoint = txns[k].checkpoint
  BY <1>2, <1>5
<1> QED
  BY <1>4, <1>6, <1>7, GuardsReclaim

\* A rewind or reset through the arena spares the open guards.
LEMMA GuardsReclaimed ==
  ASSUME BudgetIInv, NestedIInv', ~StaleUse, UNCHANGED txns,
         \/ \E cp \in checkpoints : ReclaimsTo(cp) /\ (Rewind(cp) \/ RewindPanics(cp))
         \/ ReclaimsAll /\ (Reset \/ ResetPanics)
  PROVE  BudgetIInv'
<1>1. Len(txns) \in Nat /\ \A c \in checkpoints : Valid(c)
  BY LenProperties DEF BudgetIInv, NestedIInv, PromiseIInv, TxnIInv, TxnTypeOK
<1>2. ASSUME NEW cp \in checkpoints, ReclaimsTo(cp), Rewind(cp) \/ RewindPanics(cp)
      PROVE  BudgetIInv'
  <2>1. PICK n \in 0 .. Len(txns) : n = Len(txns)
    BY <1>1
  <2>2. \A k \in 1 .. n : After(txns[k].checkpoint, cp)
    BY <1>2, <2>1 DEF ReclaimsTo, After
  <2>3. \A k \in 1 .. n : Counted(txns[k].checkpoint, cp)
    BY <2>1, <2>2 DEF BudgetIInv, GuardsAccount
  <2> QED
    BY <1>1, <1>2, <2>1, <2>2, <2>3, GuardsReclaim
<1>3. CASE ReclaimsAll /\ (Reset \/ ResetPanics)
  <2>1. txns' = <<>> /\ live' \subseteq live
    BY <1>3 DEF ReclaimsAll, Reset, ResetPanics, DropPanics
  <2>2. GuardsAccount'
    BY <2>1 DEF GuardsAccount
  <2>3. IsFiniteSet(Footprint(live))'
    BY <2>1, ReclaimKeepsFinite DEF BudgetIInv
  <2> QED
    BY <2>2, <2>3 DEF BudgetIInv
<1> QED
  BY <1>2, <1>3

\* Every step of the caller keeps the account of the open guards.
LEMMA BudgetNextStep ==
  ASSUME ~StaleUse, BudgetIInv, [TxnNext]_txnVars
  PROVE  BudgetIInv'
<1>1. NestedIInv' /\ Sound
  BY NestedNextStep DEF BudgetIInv, NestedIInv, PromiseIInv
<1>2. txns \in Seq(TransactionType) /\ Len(txns) \in Nat
  BY LenProperties DEF BudgetIInv, NestedIInv, TxnIInv, TxnTypeOK
<1>3. ASSUME Len(txns') = Len(txns),
             \A k \in 1 .. Len(txns) : txns'[k].checkpoint = txns[k].checkpoint,
             \/ \E q \in Requests : Alloc(q) \/ TryAlloc(q)
             \/ \E r \in live : RegisterDrop(r)
             \/ TakeCheckpoint
             \/ UNCHANGED <<live, bytes_allocated, cur_ptr, checkpoints>>
      PROVE  BudgetIInv'
  <2>1. Grows /\ checkpoints' \subseteq checkpoints \cup {Here}
    BY <1>1, <1>3, GrowthCounted
  <2>2. PICK n \in 0 .. Len(txns) : n = Len(txns)
    BY <1>2
  <2> QED
    BY <1>1, <1>3, <2>1, <2>2, GuardsGrow
<1>4. UNCHANGED vars => UNCHANGED <<live, bytes_allocated, cur_ptr, checkpoints>>
  BY DEF vars, cursor
<1>5. CASE \E q \in Requests : TxnAlloc(q) \/ TxnTryAlloc(q)
  <2>1. UNCHANGED txns
    BY <1>5 DEF TxnAlloc, TxnTryAlloc, WithinLimit, OverBudget
  <2>2. \/ \E q \in Requests : Alloc(q) \/ TryAlloc(q)
        \/ UNCHANGED <<live, bytes_allocated, cur_ptr, checkpoints>>
    BY <1>5 DEF TxnAlloc, TxnTryAlloc, OverBudget, cursor
  <2> QED
    BY <1>3, <2>1, <2>2
<1>6. CASE \/ \E bytes \in Limits : SetLimit(bytes)
           \/ \E how \in Results \ {"open"} : Return(how)
  <2>1. /\ Len(txns') = Len(txns)
        /\ \A k \in 1 .. Len(txns) : txns'[k].checkpoint = txns[k].checkpoint
    BY <1>6, SetLimitKeeps, ReturnKeeps DEF BudgetIInv, NestedIInv
  <2> QED
    BY <1>3, <1>4, <1>6, <2>1 DEF SetLimit, Return
<1>7. CASE Commit \/ Forget
  <2>1. txns # <<>> /\ txns' = Pop /\ UNCHANGED vars
    BY <1>7 DEF Commit, Forget
  <2>2. /\ Len(txns) \in Nat \ {0} /\ Len(txns') = Len(txns) - 1
        /\ \A k \in 1 .. Len(txns) - 1 : txns'[k] = txns[k]
    BY <1>2, <2>1, PopKeeps
  <2>3. PICK n \in 0 .. Len(txns) : n = Len(txns) - 1
    <3>1. Len(txns) - 1 \in 0 .. Len(txns)
      BY <2>2
    <3> QED
      BY <3>1
  <2>4. Grows /\ checkpoints' \subseteq checkpoints \cup {Here}
    BY <1>1, <1>4, <2>1, GrowthCounted
  <2> QED
    BY <1>1, <2>2, <2>3, <2>4, GuardsGrow
<1>8. CASE ViaArena
  <2>1. UNCHANGED txns
    BY <1>8 DEF ViaArena
  <2>2. CASE \/ \E cp \in checkpoints :
                  ReclaimsTo(cp) /\ (Rewind(cp) \/ RewindPanics(cp))
             \/ ReclaimsAll /\ (Reset \/ ResetPanics)
    BY <1>1, <2>1, <2>2, GuardsReclaimed
  <2>3. CASE \/ \E q \in Requests : Alloc(q) \/ TryAlloc(q)
             \/ \E r \in live : RegisterDrop(r)
             \/ TakeCheckpoint
    BY <1>3, <2>1, <2>3
  <2> QED
    BY <1>8, <2>2, <2>3 DEF ViaArena
<1>9. CASE UNCHANGED txnVars
  BY <1>3, <1>4, <1>9 DEF txnVars
<1>10. CASE \E by \in Holders : Begin(by)
  BY <1>1, <1>10, GuardsBegin
<1>11. CASE Rollback \/ RollbackPanics
  BY <1>1, <1>11, GuardsRollback
<1> QED
  BY <1>5, <1>6, <1>7, <1>8, <1>9, <1>10, <1>11 DEF TxnNext

\* It is kept in every reachable state.
LEMMA BudgetInductive ==
  ASSUME ~StaleUse
  PROVE  TxnSpec => []BudgetIInv
<1>1. TxnInit /\ NestedIInv => BudgetIInv
  <2> SUFFICES ASSUME TxnInit, NestedIInv PROVE BudgetIInv
    OBVIOUS
  <2>1. IsFiniteSet(Footprint(live))
    BY InitCountIInv DEF TxnInit, CountIInv
  <2>2. GuardsAccount
    BY DEF TxnInit, GuardsAccount
  <2> QED
    BY <2>1, <2>2 DEF BudgetIInv
<1>2. BudgetIInv /\ [TxnNext]_txnVars => BudgetIInv'
  BY BudgetNextStep
<1> QED
  BY <1>1, <1>2, NestedInductive, PTL DEF TxnSpec

\* set_limit's byte cap (util/transaction.rs) holds whatever the guard's own
\* savepoints, rewinds and failed calls did to the counter it is checked with: an
\* allocation through a guard leaves the caller no more bytes of the guard's
\* than its limit.
THEOREM BudgetsBoundWhatIsHeld ==
  ASSUME ~StaleUse
  PROVE  TxnSpec => WithinBudget
<1> DEFINE Step == \A q \in Requests :
                     /\ TxnAlloc(q) \/ TxnTryAlloc(q)
                     /\ live' # live
                     /\ Top.limit < NoLimit
                     => Cardinality(Footprint(HeldSince(Top.checkpoint)'))
                          <= Top.limit
<1>1. ASSUME BudgetIInv
      PROVE  Step
  <2> SUFFICES ASSUME NEW q \in Requests, TxnAlloc(q) \/ TxnTryAlloc(q),
                      live' # live, Top.limit < NoLimit
               PROVE  Cardinality(Footprint(HeldSince(Top.checkpoint)'))
                        <= Top.limit
    OBVIOUS
  <2>1. /\ BudgetOk(Top, q.size) /\ txns # <<>> /\ txns' = txns
        /\ Alloc(q) \/ TryAlloc(q)
    BY DEF TxnAlloc, TxnTryAlloc, OverBudget, WithinLimit
  <2>2. /\ Sound /\ IInv /\ IsFiniteSet(Footprint(live))
        /\ q \in RequestType /\ q.size \in Nat
    BY <1>1, ArenaAssumption, RequestTyped DEF BudgetIInv, NestedIInv, PromiseIInv, Sound
  <2>3. Len(txns) \in 1 .. Len(txns) /\ Top \in TransactionType
    <3>1. txns \in Seq(TransactionType)
      BY <1>1 DEF BudgetIInv, NestedIInv, TxnIInv, TxnTypeOK
    <3>2. Len(txns) \in Nat /\ Len(txns) # 0
      BY <3>1, <2>1, LenProperties, EmptySeq
    <3>3. Len(txns) \in 1 .. Len(txns)
      BY <3>2
    <3> QED
      BY <3>1, <3>3, ElementOfSeq DEF Top
  <2>4. PICK t : t = Top.checkpoint
    OBVIOUS
  <2>5. /\ Accounted(t) /\ t.bytes_allocated \in Nat
        /\ Top.limit \in Nat /\ NoLimit \in Nat
    BY <1>1, <2>3, <2>4, BlockAssumption
       DEF BudgetIInv, GuardsAccount, Top, TransactionType, CheckpointType, NoLimit
  <2>6. bytes_allocated \in Nat /\ cur_ptr \in Nat
    BY <2>2 DEF IInv, TypeOK
  <2>7. PICK r \in RegionType : r.size = q.size /\ live' = live \cup {r}
    BY <2>1, <2>2, AllocationCounted
  <2>8. Between(t, Here) = {s \in live : ~Below(s, t.block_idx, t.offset)}
    BY <2>2 DEF Between, Here, IInv, WellPlaced
  <2>9. HeldSince(Top.checkpoint)' \subseteq Between(t, Here) \cup {r}
    BY <2>1, <2>4, <2>7, <2>8 DEF HeldSince, Top
  <2>10. IsFiniteSet(Footprint(Between(t, Here)))
    BY <2>2, FootprintShrinks DEF Between
  <2>11. /\ Cardinality(Footprint(HeldSince(Top.checkpoint)')) \in Nat
         /\ Cardinality(Footprint(HeldSince(Top.checkpoint)'))
              <= Cardinality(Footprint(Between(t, Here))) + q.size
    BY <2>7, <2>9, <2>10, FootprintGrows
  <2>12. /\ Cardinality(Footprint(Between(t, Here))) \in Nat
         /\ Cardinality(Footprint(Between(t, Here))) <= BytesUsed(Top)
         /\ BytesUsed(Top) \in Nat
    <3>1. Cardinality(Footprint(Between(t, Here))) \in Nat
      BY <2>10, FS_CardinalityType
    <3>2. Cardinality(Footprint(Between(t, Here)))
            <= bytes_allocated + cur_ptr - t.bytes_allocated
      <4>1. Here.bytes_allocated = bytes_allocated + cur_ptr
        BY DEF Here
      <4>2. Counted(t, Here)
        BY <2>5 DEF Accounted
      <4>3. Cardinality(Footprint(Between(t, Here)))
              <= Here.bytes_allocated - t.bytes_allocated
        BY <4>2 DEF Counted
      <4> QED
        BY <4>1, <4>3, <2>5, <2>6
    <3>3. /\ BytesUsed(Top) = bytes_allocated + cur_ptr - t.bytes_allocated
          /\ BytesUsed(Top) \in Nat
      BY <2>4, <2>5, <2>6 DEF Accounted, StatsBytes, BytesUsed, Larger
    <3> QED
      BY <3>1, <3>2, <3>3
  <2>13. BytesUsed(Top) + q.size <= Top.limit
    BY <2>1, <2>2, <2>5, <2>12 DEF BudgetOk, Smaller, NoLimit
  <2> QED
    BY <2>2, <2>5, <2>11, <2>12, <2>13
<1>2. Step => [Step]_txnVars
  OBVIOUS
<1> QED
  BY <1>1, BudgetInductive, PTL DEF TxnSpec, WithinBudget
=============================================================================
