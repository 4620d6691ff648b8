---------------------------- MODULE ArenaVecProofs ----------------------------
(***************************************************************************)
(* The memory of an ArenaVec, for every value of the constants: layouts of *)
(* elements, block sizes, faults of the system allocator, numbers of       *)
(* elements asked for and builds.                                          *)
(***************************************************************************)
EXTENDS ArenaVec, ArenaProofs

\* The vector's buffer is a region that the arena has handed out and still holds
\* in front of its cursor.
BufferHeld == cap > 0 => Buffer \in live /\ EndsAtCursor

\* The arena's invariant and the vector's place in it. Of a cursor gone astray
\* nothing is known, but only a capacity that nothing could back leads there.
Placed ==
  /\ CursorlessIInv
  /\ astray \in BOOLEAN
  /\ ~astray => IInv /\ BufferHeld
  /\ astray /\ cap > 0 => ~Allocatable /\ ptr.blk # 0

\* The inductive invariant.
VecIInv ==
  /\ Placed
  /\ alive \in BOOLEAN
  /\ ptr \in [blk : Nat, off : Nat]
  /\ cap \in 0 .. USIZE_MAX /\ len \in 0 .. cap
  /\ cap > 0 => alive
  /\ finished \subseteq RegionType

-----------------------------------------------------------------------------
(* Arithmetic *)

\* isize::MAX is about half of usize::MAX.
LEMMA HalfOfUsize ==
  /\ ISIZE_MAX \in Nat
  /\ 2 * ISIZE_MAX <= USIZE_MAX
  BY BlockAssumption DEF ISIZE_MAX

\* A multiple of the element size does not exceed that of a larger count.
LEMMA TimesMonotone ==
  ASSUME NEW a \in Nat, NEW b \in Nat, a <= b
  PROVE  /\ a * ElemSize \in Nat
         /\ a * ElemSize <= b * ElemSize
  BY ArenaVecAssumption

\* A positive number of elements takes memory.
LEMMA TimesPositive ==
  ASSUME NEW a \in Nat \ {0}
  PROVE  a * ElemSize \in Nat \ {0}
  BY ArenaVecAssumption

\* An address below usize::MAX does not wrap.
LEMMA NoWrap ==
  ASSUME NEW x \in Nat, x <= USIZE_MAX
  PROVE  x % (USIZE_MAX + 1) = x
  BY BlockAssumption

\* Where the larger buffer ends, as numbers.
LEMMA LargerEnd ==
  ASSUME NEW new_cap \in Nat,
         cap \in Nat, ptr \in [blk : Nat, off : Nat], cap < new_cap
  PROVE  /\ BufferEnd \in Nat /\ ExtraBytes(new_cap) \in Nat
         /\ new_cap * ElemSize \in Nat /\ ptr.off \in Nat
         /\ ptr.off <= BufferEnd
         /\ ExtraBytes(new_cap) <= new_cap * ElemSize
         /\ BufferEnd + ExtraBytes(new_cap) = ptr.off + new_cap * ElemSize
<1>1. ptr.off \in Nat /\ ElemSize \in Nat \ {0}
  BY ArenaVecAssumption
<1>2. cap * ElemSize \in Nat /\ (new_cap - cap) * ElemSize \in Nat
      /\ new_cap * ElemSize \in Nat
  BY <1>1
<1>3. (new_cap - cap) * ElemSize + cap * ElemSize = new_cap * ElemSize
  BY <1>1
<1> QED
  BY <1>1, <1>2, <1>3 DEF BufferEnd, ExtraBytes

\* An in-place growth whose end fits in a usize ends where the larger buffer
\* ends: neither the product nor the addition of grow_to wraps.
LEMMA ExtendedEndExact ==
  ASSUME NEW base \in Bases, NEW new_cap \in Nat,
         cap \in Nat, ptr \in [blk : Nat, off : Nat], cap < new_cap,
         ~Wraps(base, new_cap)
  PROVE  /\ ExtendedEnd(base, new_cap) = ptr.off + new_cap * ElemSize
         /\ ~ProductPanics(new_cap)
<1>1. base \in Nat /\ USIZE_MAX \in Nat
  BY ArenaVecAssumption, HalfOfUsize, BlockAssumption
<1>2. /\ BufferEnd \in Nat /\ ExtraBytes(new_cap) \in Nat
      /\ new_cap * ElemSize \in Nat /\ ptr.off \in Nat
      /\ BufferEnd + ExtraBytes(new_cap) = ptr.off + new_cap * ElemSize
  BY LargerEnd
<1>3. (base + BufferEnd + ExtraBytes(new_cap)) % (USIZE_MAX + 1)
        = base + BufferEnd + ExtraBytes(new_cap)
  <2>1. base + BufferEnd + ExtraBytes(new_cap) \in Nat
    BY <1>1, <1>2
  <2>2. base + BufferEnd + ExtraBytes(new_cap) <= USIZE_MAX
    BY <1>1, <1>2 DEF Wraps
  <2> QED
    BY <2>1, <2>2, NoWrap
<1>4. ExtraBytes(new_cap) <= USIZE_MAX
  BY <1>1, <1>2 DEF Wraps
<1> QED
  BY <1>1, <1>2, <1>3, <1>4 DEF ExtendedEnd, ProductPanics

\* One whose end does not fit asks for more than isize::MAX bytes, and for more
\* than the block has, because the block lies in the lower half of the address
\* space.
LEMMA WrappedIsHuge ==
  ASSUME NEW base \in Bases, NEW new_cap \in Nat,
         cap \in Nat, ptr \in [blk : Nat, off : Nat], cap < new_cap,
         cur_end \in Nat, base + cur_end <= ISIZE_MAX, BufferEnd <= cur_end,
         Wraps(base, new_cap)
  PROVE  /\ new_cap * ElemSize > ISIZE_MAX
         /\ ptr.off + new_cap * ElemSize > cur_end
<1>1. /\ base \in Nat /\ USIZE_MAX \in Nat /\ ISIZE_MAX \in Nat
      /\ 2 * ISIZE_MAX <= USIZE_MAX
  BY ArenaVecAssumption, HalfOfUsize, BlockAssumption
<1>2. /\ BufferEnd \in Nat /\ ExtraBytes(new_cap) \in Nat
      /\ new_cap * ElemSize \in Nat /\ ptr.off \in Nat
      /\ ExtraBytes(new_cap) <= new_cap * ElemSize
      /\ BufferEnd + ExtraBytes(new_cap) = ptr.off + new_cap * ElemSize
  BY LargerEnd
<1>3. base + BufferEnd + ExtraBytes(new_cap) > USIZE_MAX
  BY DEF Wraps
<1> QED
  BY <1>1, <1>2, <1>3

-----------------------------------------------------------------------------
\* alloc_raw and try_alloc_raw either fail, with the cursor and the regions as
\* they were, or hand out the bytes that end at the new cursor.
LEMMA RawAllocation ==
  ASSUME IInv, NEW q \in RequestType, q.size > 0, q.init = "raw",
         Alloc(q) \/ TryAlloc(q)
  PROVE  \/ ret' # "ok" /\ UNCHANGED <<cur_base, cur_ptr, live>>
         \/ /\ ret' = "ok"
            /\ \E off \in Nat :
                 /\ off + q.size = cur_ptr'
                 /\ live' = live \cup {[blk |-> cur_base', off |-> off,
                                       size |-> q.size, align |-> q.align]}
  BY AllocationOutcome

-----------------------------------------------------------------------------
(* Growth *)

\* With the cursor where it belongs, the vector is placed.
LEMMA PlacedAnew ==
  ASSUME IInv', BufferHeld', astray' = FALSE
  PROVE  Placed'
<1>1. IInv' => CursorlessIInv'
  BY PartOfIInv, PTL
<1> QED
  BY <1>1 DEF Placed

\* Moving the cursor to the end of a larger buffer keeps the arena's invariant,
\* because the buffer was the last thing in front of the cursor.
LEMMA ExtendStep ==
  ASSUME VecIInv, ~astray,
         NEW base \in Bases, base + cur_end <= ISIZE_MAX,
         NEW new_cap \in cap + 1 .. USIZE_MAX,
         ~Wraps(base, new_cap),
         ExtendInPlace(base, new_cap)
  PROVE  IInv' /\ BufferHeld' /\ astray' = FALSE
<1> DEFINE old == Buffer
           new == [Buffer EXCEPT !.size = new_cap * ElemSize]
<1>1. /\ cap \in Nat \ {0} /\ new_cap \in Nat \ {0} /\ cap < new_cap
      /\ ptr \in [blk : Nat, off : Nat]
      /\ ptr.blk = cur_base /\ BufferEnd = cur_ptr /\ old \in live
  BY DEF VecIInv, Placed, BufferHeld, ExtendInPlace, EndsAtCursor
<1>2. /\ cur_base = current /\ current \in 1 .. Len(blocks)
      /\ Len(blocks) \in Nat /\ blocks \in Seq(BlockType)
      /\ cur_end = blocks[current].capacity
      /\ cur_ptr \in Nat /\ cur_end \in Nat /\ cur_ptr <= cur_end
      /\ live \subseteq RegionType
  BY LenProperties DEF VecIInv, Placed, IInv, TypeOK, CursorCoherent
<1>3. /\ new.blk = ptr.blk /\ new.off = ptr.off /\ new.align = ElemAlign
      /\ new.size = new_cap * ElemSize
      /\ old.blk = ptr.blk /\ old.off = ptr.off /\ old.align = ElemAlign
      /\ old.size = cap * ElemSize
      /\ new = [blk |-> ptr.blk, off |-> ptr.off, size |-> new_cap * ElemSize,
                align |-> ElemAlign]
  BY DEF Buffer
<1>4. base \in Nat /\ ISIZE_MAX \in Nat
  BY ArenaVecAssumption, HalfOfUsize
<1>5. ExtendedEnd(base, new_cap) = new.off + new.size
  BY <1>1, <1>2, <1>3, <1>4, ExtendedEndExact
<1>6. /\ cur_ptr' = new.off + new.size /\ new.off + new.size <= cur_end
      /\ cap' = new_cap /\ ptr' = ptr /\ ret' = "ok" /\ astray' = FALSE
      /\ live' = (live \ {old}) \cup {new}
      /\ UNCHANGED <<blocks, current, cur_base, cur_end, high_water_mark,
                     largest_remaining, largest_remaining_idx, next_block_size,
                     bytes_allocated, bytes_reserved, drop_registry, checkpoints>>
  BY <1>5 DEF ExtendInPlace, Extended
<1>7. /\ old.size \in Nat \ {0} /\ new.size \in Nat \ {0} /\ old.size <= new.size
      /\ old.off \in Nat /\ old.off + old.size = cur_ptr
  <2>1. cap * ElemSize \in Nat \ {0} /\ new_cap * ElemSize \in Nat \ {0}
    BY <1>1, TimesPositive
  <2>2. cap * ElemSize <= new_cap * ElemSize
    BY <1>1, TimesMonotone
  <2> QED
    BY <2>1, <2>2, <1>1, <1>3 DEF BufferEnd
<1>8. new \in RegionType
  BY <1>1, <1>2, <1>3, <1>7 DEF RegionType, Buffer
<1>9. Buffer' = new
  BY <1>3, <1>6 DEF Buffer
<1> HIDE DEF old, new
<1>10. TypeOK'
  <2>1. cur_ptr' \in Nat
    <3>1. new.off \in Nat
      BY <1>1, <1>3
    <3> QED
      BY <3>1, <1>6, <1>7
  <2>2. live' \subseteq RegionType
    BY <1>6, <1>8 DEF VecIInv, Placed, IInv, TypeOK
  <2> QED
    BY <2>1, <2>2, <1>6 DEF VecIInv, Placed, IInv, TypeOK
<1>11. CursorCoherent'
  BY <1>6 DEF VecIInv, Placed, IInv, CursorCoherent
<1>12. CheckpointsRestorable'
  BY <1>6 DEF VecIInv, Placed, IInv, CheckpointsRestorable, Restorable
<1>13. \A s \in live : /\ s.blk \in Nat /\ s.off \in Nat /\ s.size \in Nat \ {0}
                       /\ s.blk <= Len(blocks)
                       /\ s.off + s.size <= blocks[s.blk].capacity
                       /\ s.off % s.align = 0
                       /\ s.align <= blocks[s.blk].align
                       /\ Below(s, current, cur_ptr)
  BY <1>2 DEF VecIInv, Placed, IInv, WellPlaced, RegionType
<1>14. \A s \in live \ {old} : Disjoint(s, new) /\ Disjoint(new, s)
  <2> TAKE s \in live \ {old}
  <2>1. Disjoint(s, old)
    BY <1>1 DEF VecIInv, Placed, IInv, NoOverlap
  <2>2. s.blk # old.blk \/ s.off + s.size <= old.off
    <3>1. /\ s.blk \in Nat /\ s.off \in Nat /\ s.size \in Nat \ {0}
          /\ Below(s, current, cur_ptr)
      BY <1>13
    <3>2. old.blk = current
      BY <1>1, <1>2, <1>3
    <3>3. CASE s.blk = old.blk
      <4>1. s.off + s.size <= cur_ptr
        BY <3>1, <3>2, <3>3, <1>2 DEF Below
      <4>2. s.off + s.size <= old.off \/ old.off + old.size <= s.off
        BY <2>1, <3>3 DEF Disjoint
      <4> QED
        BY <3>1, <4>1, <4>2, <1>7
    <3> QED
      BY <3>3
  <2> QED
    BY <2>2, <1>3, <1>7, <1>8, <1>13 DEF Disjoint
<1>15. WellPlaced'
  <2> SUFFICES ASSUME NEW s \in live'
               PROVE  /\ s.blk <= Len(blocks)
                      /\ s.off + s.size <= blocks[s.blk].capacity
                      /\ s.off % s.align = 0 /\ s.align <= blocks[s.blk].align
                      /\ Below(s, current, cur_ptr')
    BY <1>6 DEF WellPlaced
  <2>1. CASE s \in live
    <3>1. cur_ptr <= cur_ptr' /\ cur_ptr' \in Nat
      BY <1>1, <1>2, <1>3, <1>6, <1>7
    <3> QED
      BY <2>1, <3>1, <1>2, <1>13 DEF Below
  <2>2. CASE s = new
    <3>1. /\ new.blk = current /\ new.off = old.off /\ new.align = old.align
          /\ old.blk = current
      BY <1>1, <1>2, <1>3
    <3> QED
      BY <2>2, <3>1, <1>1, <1>2, <1>6, <1>7, <1>13 DEF Below
  <2> QED
    BY <2>1, <2>2, <1>6
<1>16. NoOverlap'
  BY <1>6, <1>14 DEF VecIInv, Placed, IInv, NoOverlap
<1>17. BufferHeld'
  <2>1. BufferEnd' = cur_ptr' /\ ptr'.blk = cur_base' /\ cap' > 0
    BY <1>1, <1>3, <1>6 DEF BufferEnd
  <2> QED
    BY <2>1, <1>6, <1>9 DEF BufferHeld, EndsAtCursor
<1> QED
  BY <1>6, <1>10, <1>11, <1>12, <1>15, <1>16, <1>17 DEF IInv

\* When the end wraps, the arena keeps all but its cursor, and the vector has a
\* capacity that nothing could back.
LEMMA AstrayStep ==
  ASSUME VecIInv, ~astray,
         NEW base \in Bases, base + cur_end <= ISIZE_MAX,
         NEW new_cap \in cap + 1 .. USIZE_MAX,
         Wraps(base, new_cap),
         ExtendInPlace(base, new_cap)
  PROVE  Placed'
<1>1. /\ cap \in Nat /\ new_cap \in Nat /\ cap < new_cap
      /\ ptr \in [blk : Nat, off : Nat]
  BY DEF VecIInv
<1>2. BufferEnd <= cur_end /\ cur_end \in Nat
  BY DEF VecIInv, Placed, IInv, TypeOK, CursorCoherent, ExtendInPlace, EndsAtCursor
<1>3. new_cap * ElemSize > ISIZE_MAX
  BY <1>1, <1>2, WrappedIsHuge
<1>4. /\ astray' = TRUE /\ cap' = new_cap /\ live' = live /\ ret' = "ok"
      /\ UNCHANGED <<blocks, current, cur_base, cur_end, high_water_mark,
                     largest_remaining, largest_remaining_idx, next_block_size,
                     bytes_allocated, bytes_reserved, drop_registry, checkpoints>>
  BY DEF ExtendInPlace, Extended
<1>5. ~Allocatable'
  <2>1. new_cap * ElemSize \in Nat /\ ISIZE_MAX \in Nat
    BY <1>1, HalfOfUsize, ArenaVecAssumption
  <2> QED
    BY <2>1, <1>3, <1>4 DEF Allocatable
<1>6. CursorlessIInv'
  BY <1>4 DEF VecIInv, Placed, CursorlessIInv, CheckpointsRestorable, Restorable,
              NoOverlap
<1>7. ptr'.blk # 0
  BY DEF VecIInv, Placed, BufferHeld, IInv, TypeOK, CursorCoherent, ExtendInPlace,
         EndsAtCursor
<1> QED
  BY <1>4, <1>5, <1>6, <1>7 DEF Placed

\* A call that leaves the arena, the buffer and the cursor as they are.
LEMMA RefuseStep ==
  ASSUME VecIInv, UNCHANGED <<arena, ptr, cap, astray>>,
         ret' \in {"ok", "none", "panic"}
  PROVE  Placed'
<1>1. /\ UNCHANGED <<blocks, cursor, next_block_size, bytes_allocated,
                     bytes_reserved, drop_registry, live, checkpoints>>
      /\ ptr' = ptr /\ cap' = cap /\ astray' = astray
  BY DEF arena
<1>2. CursorlessIInv'
  BY <1>1 DEF VecIInv, Placed, CursorlessIInv, CheckpointsRestorable, Restorable,
              NoOverlap, cursor
<1>3. ~astray => IInv'
  BY <1>1, UnmovedStep DEF VecIInv, Placed, IInv, TypeOK
<1>4. Buffer' = Buffer /\ (EndsAtCursor => EndsAtCursor') /\ Allocatable' = Allocatable
  BY <1>1 DEF Buffer, EndsAtCursor, BufferEnd, cursor, Allocatable
<1> QED
  BY <1>1, <1>2, <1>3, <1>4 DEF VecIInv, Placed, BufferHeld

\* A buffer with memory is a region, also one that has gone astray.
LEMMA BufferTyped ==
  ASSUME VecIInv, cap > 0
  PROVE  Buffer \in RegionType
<1>1. CASE ~astray
  BY <1>1 DEF VecIInv, Placed, BufferHeld, IInv, TypeOK
<1>2. CASE astray
  <2>1. ptr.blk \in Nat \ {0} /\ ptr.off \in Nat
    BY <1>2 DEF VecIInv, Placed
  <2>2. cap * ElemSize \in Nat \ {0}
    BY TimesPositive DEF VecIInv
  <2> QED
    BY <2>1, <2>2, ArenaVecAssumption DEF Buffer, RegionType
<1> QED
  BY <1>1, <1>2 DEF VecIInv, Placed

\* A new buffer is the region just handed out; when there is none the vector
\* keeps the buffer it has, still at the cursor.
LEMMA MoveStep ==
  ASSUME VecIInv, ~astray,
         NEW new_cap \in cap + 1 .. USIZE_MAX,
         NEW q \in RequestType,
         q.size = new_cap * ElemSize, q.align = ElemAlign, q.init = "raw",
         Move(new_cap, Alloc(q)) \/ Move(new_cap, TryAlloc(q))
  PROVE  /\ Placed'
         /\ ptr' \in [blk : Nat, off : Nat]
         /\ IF ret' = "ok" THEN cap' = new_cap ELSE cap' = cap /\ ptr' = ptr
<1>1. cap \in Nat /\ new_cap \in Nat \ {0} /\ q.size \in Nat \ {0}
  <2>1. cap \in Nat /\ new_cap \in Nat \ {0}
    BY DEF VecIInv
  <2> QED
    BY <2>1, TimesPositive
<1>2. Alloc(q) \/ TryAlloc(q)
  BY DEF Move
<1>3. IInv' /\ astray' = FALSE
  BY <1>2, AllocStep DEF VecIInv, Placed, Move
<1>4. CASE ret' # "ok"
  <2>1. UNCHANGED <<cur_base, cur_ptr, live>>
    BY <1>1, <1>2, <1>4, RawAllocation DEF VecIInv, Placed
  <2>2. UNCHANGED <<ptr, cap>>
    BY <1>4 DEF Move
  <2>3. Buffer' = Buffer /\ (EndsAtCursor => EndsAtCursor')
    BY <2>1, <2>2 DEF Buffer, EndsAtCursor, BufferEnd
  <2>4. BufferHeld'
    BY <2>1, <2>2, <2>3 DEF VecIInv, Placed, BufferHeld
  <2> QED
    BY <1>3, <1>4, <2>2, <2>4, PlacedAnew DEF VecIInv
<1>5. CASE ret' = "ok"
  <2>1. PICK off \in Nat :
          /\ off + q.size = cur_ptr'
          /\ live' = live \cup {[blk |-> cur_base', off |-> off,
                                size |-> q.size, align |-> q.align]}
    BY <1>1, <1>2, <1>5, RawAllocation DEF VecIInv, Placed
  <2> DEFINE new == [blk |-> cur_base', off |-> off,
                     size |-> q.size, align |-> q.align]
  <2>2. /\ \E r \in live' \ live : ptr' = [blk |-> r.blk, off |-> r.off]
        /\ cap' = new_cap
    BY <1>5 DEF Move
  <2>3. /\ ptr' = [blk |-> cur_base', off |-> off]
        /\ new \in live'
    BY <2>1, <2>2
  <2>4. Buffer' = new
    BY <2>2, <2>3 DEF Buffer
  <2>5. EndsAtCursor'
    BY <1>1, <2>1, <2>2, <2>3 DEF EndsAtCursor, BufferEnd
  <2>6. cur_base' \in Nat
    BY <1>3 DEF IInv, TypeOK
  <2>7. BufferHeld'
    BY <2>3, <2>4, <2>5 DEF BufferHeld
  <2> QED
    BY <1>3, <1>5, <2>2, <2>3, <2>6, <2>7, PlacedAnew
<1> QED
  BY <1>4, <1>5

\* What a growth to new_cap may do: nothing, or move or extend the buffer, and it
\* moves the buffer only when the block has no room behind it.
GrownTo(new_cap) ==
  /\ Placed'
  /\ ptr' \in [blk : Nat, off : Nat]
  /\ ret' \in {"ok", "none", "panic"}
  /\ IF ret' = "ok" THEN cap' = new_cap ELSE cap' = cap /\ ptr' = ptr
  /\ cap > 0 /\ ptr' # ptr =>
       ptr.off + new_cap * ElemSize > blocks[ptr.blk].capacity

\* grow_to and try_grow_to.
LEMMA GrowToStep ==
  ASSUME VecIInv, ~astray,
         NEW new_cap \in cap + 1 .. USIZE_MAX, NEW fallible \in BOOLEAN,
         GrowTo(new_cap, fallible)
  PROVE  GrownTo(new_cap)
<1> DEFINE q == [size |-> new_cap * ElemSize, align |-> ElemAlign, init |-> "raw"]
<1>1. PICK base \in {b \in Bases : b + cur_end <= ISIZE_MAX} :
        \/ ExtendInPlace(base, new_cap)
        \/ EndsAtCursor /\ ProductPanics(new_cap) /\ Refuse("panic")
        \/ /\ ~(EndsAtCursor /\ (ProductPanics(new_cap) \/ ExtendedEnd(base, new_cap) <= cur_end))
           /\ \/ q.size > USIZE_MAX /\ Refuse(IF fallible THEN "none" ELSE "panic")
              \/ q.size <= USIZE_MAX /\ ~fallible /\ Move(new_cap, Alloc(q))
              \/ q.size <= USIZE_MAX /\ fallible /\ Move(new_cap, TryAlloc(q))
  BY DEF GrowTo
<1>2. /\ base \in Bases /\ base + cur_end <= ISIZE_MAX /\ base \in Nat
      /\ cur_ptr \in Nat /\ cur_end \in Nat /\ cur_ptr <= cur_end
      /\ cap \in Nat /\ new_cap \in Nat /\ cap < new_cap /\ ISIZE_MAX \in Nat
      /\ ptr \in [blk : Nat, off : Nat]
      /\ cur_base = current /\ cur_end = blocks[current].capacity
  <2>1. base \in Nat /\ ISIZE_MAX \in Nat
    BY ArenaVecAssumption, HalfOfUsize
  <2>2. /\ cur_ptr \in Nat /\ cur_end \in Nat /\ cur_ptr <= cur_end
        /\ cur_base = current /\ cur_end = blocks[current].capacity
    BY DEF VecIInv, Placed, IInv, TypeOK, CursorCoherent
  <2>3. cap \in Nat /\ new_cap \in Nat /\ cap < new_cap /\ ptr \in [blk : Nat, off : Nat]
    BY DEF VecIInv
  <2> QED
    BY <2>1, <2>2, <2>3
<1>3. cap > 0 => EndsAtCursor /\ ptr.blk = cur_base /\ BufferEnd <= cur_end
  BY <1>2 DEF VecIInv, Placed, BufferHeld, EndsAtCursor
<1>4. Placed' => ret' \in {"ok", "none", "panic"}
  BY DEF Placed, CursorlessIInv
<1>5. CASE ExtendInPlace(base, new_cap)
  <2>1. Placed'
    <3>1. CASE Wraps(base, new_cap)
      BY <3>1, <1>2, <1>5, AstrayStep
    <3>2. CASE ~Wraps(base, new_cap)
      BY <3>2, <1>2, <1>5, ExtendStep, PlacedAnew
    <3> QED
      BY <3>1, <3>2
  <2>2. ptr' = ptr /\ cap' = new_cap /\ ret' = "ok"
    BY <1>5 DEF ExtendInPlace
  <2> QED
    BY <2>1, <2>2, <1>2 DEF GrownTo
<1>6. CASE \E r \in {"none", "panic"} : Refuse(r)
  <2>1. /\ UNCHANGED <<arena, ptr, cap, astray>> /\ ret' \in {"none", "panic"}
        /\ ptr' = ptr /\ cap' = cap
    BY <1>6 DEF Refuse
  <2>2. Placed'
    BY <2>1, RefuseStep
  <2> QED
    BY <2>1, <2>2, <1>2 DEF GrownTo
<1>7. CASE /\ ~(EndsAtCursor /\ (ProductPanics(new_cap) \/ ExtendedEnd(base, new_cap) <= cur_end))
           /\ Move(new_cap, Alloc(q)) \/ Move(new_cap, TryAlloc(q))
  <2>1. q \in RequestType /\ q.size = new_cap * ElemSize /\ q.align = ElemAlign
        /\ q.init = "raw"
    BY <1>2, ArenaVecAssumption DEF RequestType, Fillings
  <2> HIDE DEF q
  <2>2. /\ Placed'
        /\ ptr' \in [blk : Nat, off : Nat]
        /\ IF ret' = "ok" THEN cap' = new_cap ELSE cap' = cap /\ ptr' = ptr
    BY <1>7, <2>1, MoveStep
  <2>3. ASSUME cap > 0
        PROVE  ptr.off + new_cap * ElemSize > blocks[ptr.blk].capacity
    <3>1. EndsAtCursor /\ ptr.blk = cur_base /\ BufferEnd <= cur_end
      BY <2>3, <1>3
    <3>2. CASE Wraps(base, new_cap)
      BY <3>1, <3>2, <1>2, WrappedIsHuge
    <3>3. CASE ~Wraps(base, new_cap)
      <4>1. ExtendedEnd(base, new_cap) = ptr.off + new_cap * ElemSize
        BY <3>3, <1>2, ExtendedEndExact
      <4>2. ~(ExtendedEnd(base, new_cap) <= cur_end)
        BY <3>1, <1>7
      <4>3. ptr.off + new_cap * ElemSize \in Nat
        BY <1>2, LargerEnd
      <4> QED
        BY <3>1, <4>1, <4>2, <4>3, <1>2
    <3> QED
      BY <3>2, <3>3
  <2> QED
    BY <2>2, <2>3, <1>4 DEF GrownTo
<1> QED
  BY <1>1, <1>5, <1>6, <1>7

\* What making room for `needed` elements may do.
Ensured(needed) ==
  /\ Placed'
  /\ ptr' \in [blk : Nat, off : Nat]
  /\ cap' \in cap .. USIZE_MAX
  /\ ret' \in {"ok", "none", "panic"}
  /\ IF ret' = "ok" THEN needed <= cap' ELSE cap' = cap
  /\ cap > 0 /\ ptr' # ptr =>
       ptr.off + cap' * ElemSize > blocks[ptr.blk].capacity

\* Capacity is there, or refused, or grown.
LEMMA EnsureStep ==
  ASSUME VecIInv, NEW needed \in Nat, NEW new_cap \in Nat, needed > cap => needed <= new_cap,
         NEW fallible \in BOOLEAN,
         EnsureCapacity(needed, new_cap, fallible)
  PROVE  Ensured(needed)
<1>1. cap \in 0 .. USIZE_MAX /\ USIZE_MAX \in Nat /\ ptr \in [blk : Nat, off : Nat]
  BY BlockAssumption DEF VecIInv
<1>2. CASE \E r \in {"ok", "none", "panic"} : Refuse(r) /\ (r = "ok" => needed <= cap)
  <2>1. /\ UNCHANGED <<arena, ptr, cap, astray>> /\ ret' \in {"ok", "none", "panic"}
        /\ ptr' = ptr /\ cap' = cap /\ (ret' = "ok" => needed <= cap)
    BY <1>2 DEF Refuse
  <2>2. Placed'
    BY <2>1, RefuseStep
  <2> QED
    BY <2>1, <2>2, <1>1 DEF Ensured
<1>3. CASE ~astray /\ needed > cap /\ new_cap <= USIZE_MAX /\ GrowTo(new_cap, fallible)
  <2>1. new_cap \in cap + 1 .. USIZE_MAX
    BY <1>1, <1>3
  <2>2. GrownTo(new_cap)
    BY <2>1, <1>3, GrowToStep
  <2> QED
    BY <2>1, <2>2, <1>1, <1>3 DEF GrownTo, Ensured
<1> QED
  BY <1>2, <1>3 DEF EnsureCapacity

-----------------------------------------------------------------------------
(* The calls *)

\* Growth moves the buffer only when the block has no room behind it.
MovesWhenFull ==
  cap > 0 /\ cap' > cap /\ ptr' # ptr =>
    ptr.off + cap' * ElemSize > blocks[ptr.blk].capacity

\* with_capacity, in a place where there is no vector.
LEMMA WithCapacityStep ==
  ASSUME VecIInv, NEW n \in Counts, WithCapacity(n)
  PROVE  VecIInv' /\ MovesWhenFull
<1>1. n \in Nat /\ cap = 0 /\ len = 0
  BY ArenaVecAssumption DEF VecIInv, WithCapacity
<1>3. Ensured(n)
  <2>1. EnsureCapacity(n, n, FALSE)
    BY DEF WithCapacity
  <2>2. n <= n
    BY <1>1
  <2> QED
    BY <2>1, <2>2, <1>1, EnsureStep
<1>4. /\ alive' \in BOOLEAN /\ (ret' = "ok" => alive')
      /\ len' = 0 /\ finished' = finished
  BY <1>1 DEF WithCapacity
<1>5. cap' > 0 => alive'
  BY <1>1, <1>3, <1>4 DEF Ensured
<1> QED
  BY <1>1, <1>3, <1>4, <1>5 DEF VecIInv, Ensured, MovesWhenFull

\* push and try_push.
LEMMA PushElementStep ==
  ASSUME VecIInv, NEW fallible \in BOOLEAN, PushElement(fallible)
  PROVE  VecIInv' /\ MovesWhenFull
<1>1. cap \in Nat /\ len \in 0 .. cap
  BY DEF VecIInv
<1>2. NextCap \in Nat /\ cap < NextCap
  BY <1>1, ArenaVecAssumption DEF NextCap
<1>3. Ensured(len + 1)
  BY <1>1, <1>2, EnsureStep DEF PushElement
<1>4. /\ len' = IF ret' = "ok" THEN len + 1 ELSE len
      /\ alive /\ alive' = alive /\ finished' = finished
  BY DEF PushElement
<1> QED
  BY <1>1, <1>3, <1>4 DEF VecIInv, Ensured, MovesWhenFull

\* extend_exact, extend_from_slice and resize.
LEMMA ExtendByStep ==
  ASSUME VecIInv, NEW n \in Counts, ExtendBy(n)
  PROVE  VecIInv' /\ MovesWhenFull
<1>1. n \in Nat /\ cap \in Nat /\ len \in 0 .. cap
  BY ArenaVecAssumption DEF VecIInv
<1>3. Ensured(len + n)
  <2>1. EnsureCapacity(len + n, len + n, FALSE)
    BY DEF ExtendBy
  <2>2. len + n \in Nat /\ len + n <= len + n
    BY <1>1
  <2> QED
    BY <2>1, <2>2, EnsureStep
<1>4. /\ len' = IF ret' = "ok" THEN len + n ELSE len
      /\ alive /\ alive' = alive /\ finished' = finished
  BY DEF ExtendBy
<1> QED
  BY <1>1, <1>3, <1>4 DEF VecIInv, Ensured, MovesWhenFull

\* reserve and its variants.
LEMMA ReserveStep ==
  ASSUME VecIInv, NEW n \in Counts, NEW fallible \in BOOLEAN,
         ReserveExact(n, fallible) \/ Reserve(n, fallible)
  PROVE  VecIInv' /\ MovesWhenFull
<1>1. /\ n \in Nat /\ cap \in 0 .. USIZE_MAX /\ len \in 0 .. cap /\ USIZE_MAX \in Nat
  BY ArenaVecAssumption, BlockAssumption DEF VecIInv
<1>2. PICK r \in {len + n, Smaller(len + n, USIZE_MAX)} : EnsureCapacity(r, r, fallible)
  BY DEF Reserve, ReserveExact
<1>3. r \in Nat /\ r <= len + n
  BY <1>1, <1>2 DEF Smaller
<1>5. Ensured(r)
  BY <1>2, <1>3, EnsureStep
<1>6. alive /\ alive' = alive /\ len' = len /\ finished' = finished
  BY DEF Reserve, ReserveExact
<1> QED
  BY <1>1, <1>5, <1>6 DEF VecIInv, Ensured, MovesWhenFull

\* pop and truncate, and the ways a vector ends.
LEMMA ShortenStep ==
  ASSUME VecIInv,
         (\E n \in 0 .. len - 1 : Shorten(n)) \/ DropVec \/ Finish
  PROVE  VecIInv' /\ MovesWhenFull
<1>1. cap \in Nat /\ len \in 0 .. cap /\ USIZE_MAX \in Nat
  BY BlockAssumption DEF VecIInv
<1>2. UNCHANGED <<arena, astray>> /\ ret' = "ok"
  BY DEF Shorten, DropVec, Finish
<1>3. CASE \E n \in 0 .. len - 1 : Shorten(n)
  <2>1. PICK n \in 0 .. len - 1 : Shorten(n)
    BY <1>3
  <2>2. /\ len' = n /\ alive' = alive /\ ptr' = ptr /\ cap' = cap
        /\ finished' = finished
    BY <2>1 DEF Shorten
  <2>3. Placed'
    BY <2>2, <1>2, RefuseStep
  <2> QED
    BY <2>2, <2>3, <1>1 DEF VecIInv, MovesWhenFull
<1>4. CASE DropVec \/ Finish
  <2>1. /\ alive' \in BOOLEAN /\ len' = 0 /\ cap' = 0
        /\ ptr' = [blk |-> 0, off |-> 0]
    BY <1>4 DEF DropVec, Finish, Gone, Dangling
  <2>2. len > 0 => Buffer \in RegionType
    BY <1>1, BufferTyped
  <2>3. finished' \subseteq RegionType
    BY <1>1, <1>4, <2>2 DEF DropVec, Finish, VecIInv
  <2>4. Placed'
    <3>1. CursorlessIInv'
      BY <1>2 DEF VecIInv, Placed, CursorlessIInv, CheckpointsRestorable, Restorable,
                  NoOverlap, arena, cursor
    <3>2. ~astray => IInv'
      BY <1>2, UnmovedStep DEF VecIInv, Placed, IInv, TypeOK, arena
    <3> QED
      BY <3>1, <3>2, <2>1, <1>2 DEF VecIInv, Placed, BufferHeld
  <2> QED
    BY <2>1, <2>3, <2>4, <1>1 DEF VecIInv, MovesWhenFull
<1> QED
  BY <1>3, <1>4

\* Whoever uses the arena when no vector borrows it; rewinding and resetting put
\* the cursor back where it belongs.
LEMMA ViaArenaStep ==
  ASSUME VecIInv, ViaArena
  PROVE  VecIInv' /\ MovesWhenFull
<1>1. /\ ~alive /\ finished' = finished \cap live'
      /\ UNCHANGED <<alive, ptr, len, cap>>
  BY DEF ViaArena
<1>2. cap = 0 /\ cap' = 0
  BY <1>1 DEF VecIInv
<1>3. CASE ~astray /\ Next /\ UNCHANGED astray
  <2>1. IInv'
    BY <1>3, NextIInv DEF VecIInv, Placed
  <2>2. astray' = FALSE
    BY <1>3 DEF VecIInv, Placed
  <2>3. Placed'
    <3>1. BufferHeld'
      BY <1>2 DEF BufferHeld
    <3> QED
      BY <2>1, <2>2, <3>1, PlacedAnew
  <2> QED
    BY <2>3, <1>1, <1>2 DEF VecIInv, MovesWhenFull
<1>4. CASE astray /\ (Reset \/ \E cp \in checkpoints : Rewind(cp)) /\ astray' = FALSE
  <2>1. \A cp \in checkpoints : cp \in CheckpointType /\ Restorable(cp)
    BY DEF VecIInv, Placed, CursorlessIInv, CheckpointsRestorable
  <2>2. IInv'
    BY <2>1, <1>4, ResetStep, RewindStep DEF VecIInv, Placed
  <2> QED
    BY <2>2, <1>1, <1>2, <1>4, PlacedAnew DEF VecIInv, BufferHeld, MovesWhenFull
<1>5. CASE /\ astray /\ (ResetPanics \/ \E cp \in checkpoints : RewindPanics(cp))
           /\ UNCHANGED astray
  <2>1. PICK n \in Nat, valid \in SUBSET checkpoints : DropPanics(n, valid)
    <3>1. \A cp \in checkpoints : cp.drop_registry_len \in Nat
      BY DEF VecIInv, Placed, CursorlessIInv, CheckpointType
    <3> QED
      BY <3>1, <1>5 DEF ResetPanics, RewindPanics
  <2>2. /\ drop_registry' = Undropped(n) /\ ret' = "panic"
        /\ checkpoints' \subseteq checkpoints
        /\ UNCHANGED <<blocks, cursor, next_block_size, bytes_allocated,
                       bytes_reserved, live>>
    BY <2>1 DEF DropPanics, Keep
  <2>3. drop_registry' \in Seq(RegionType)
    BY <2>2, UndroppedType DEF VecIInv, Placed, CursorlessIInv
  <2>4. CursorlessIInv'
    BY <2>2, <2>3 DEF VecIInv, Placed, CursorlessIInv, CheckpointsRestorable,
                      Restorable, NoOverlap, cursor
  <2> QED
    BY <2>4, <1>1, <1>2, <1>5 DEF VecIInv, Placed, MovesWhenFull
<1> QED
  BY <1>3, <1>4, <1>5 DEF ViaArena

\* Every call of the vector and of the arena keeps the invariant, and growth
\* copies only when it has to.
LEMMA VecNextStep ==
  ASSUME VecIInv, [VecNext]_vecVars
  PROVE  VecIInv' /\ MovesWhenFull
<1>1. CASE ViaArena
  BY <1>1, ViaArenaStep
<1>2. CASE \E n \in Counts : \/ WithCapacity(n)
                            \/ ExtendBy(n)
                            \/ \E fallible \in BOOLEAN : ReserveExact(n, fallible)
                                                         \/ Reserve(n, fallible)
  BY <1>2, WithCapacityStep, ExtendByStep, ReserveStep
<1>3. CASE \E fallible \in BOOLEAN : PushElement(fallible)
  BY <1>3, PushElementStep
<1>4. CASE (\E n \in 0 .. len - 1 : Shorten(n)) \/ DropVec \/ Finish
  BY <1>4, ShortenStep
<1>5. CASE UNCHANGED vecVars
  <2>1. UNCHANGED <<vars, alive, ptr, len, cap, astray, finished>>
    BY <1>5 DEF vecVars, vec
  <2>2. Placed'
    BY <2>1, RefuseStep DEF vars, arena, VecIInv, Placed, CursorlessIInv
  <2> QED
    BY <2>1, <2>2 DEF VecIInv, MovesWhenFull
<1> QED
  BY <1>1, <1>2, <1>3, <1>4, <1>5 DEF VecNext

\* The invariant holds in every reachable state.
LEMMA VecInductive ==
  VecSpec => []VecIInv
<1>1. VecInit => VecIInv
  <2> SUFFICES ASSUME VecInit PROVE VecIInv
    OBVIOUS
  <2>1. IInv
    BY InitIInv DEF VecInit
  <2>2. /\ alive \in BOOLEAN /\ len = 0 /\ cap = 0 /\ finished = {}
        /\ ptr = [blk |-> 0, off |-> 0] /\ astray = FALSE
    BY DEF VecInit, Dangling
  <2> QED
    <3>1. Placed
      <4>1. BufferHeld /\ ~(cap > 0)
        BY <2>2 DEF BufferHeld
      <4> QED
        BY <2>1, <2>2, <4>1, PartOfIInv DEF Placed
    <3>2. 0 \in 0 .. USIZE_MAX
      BY BlockAssumption
    <3> QED
      BY <2>2, <3>1, <3>2 DEF VecIInv
<1>2. VecIInv /\ [VecNext]_vecVars => VecIInv'
  BY VecNextStep
<1> QED
  BY <1>1, <1>2, PTL DEF VecSpec

-----------------------------------------------------------------------------
(* The theorems *)

\* ArenaVec's fields stay in their domains: the length never passes the
\* capacity, and a failed growth leaves no half-made vector.
THEOREM VecTypeCorrect ==
  VecSpec => []VecTypeOK
<1>1. VecIInv => VecTypeOK
  BY DEF VecIInv, Placed, VecTypeOK, IInv
<1> QED
  BY <1>1, VecInductive, PTL

\* Whatever push, extend or reserve writes below a capacity of at most isize::MAX
\* bytes is inside the buffer's block and belongs to no other allocation of the
\* arena, for every number of elements asked for and in every build.
THEOREM ReservationsAreBacked ==
  VecSpec => []CapacityIsBacked
<1>1. VecIInv => CapacityIsBacked
  <2> SUFFICES ASSUME VecIInv, cap > 0, Allocatable
               PROVE  Backed
    BY DEF CapacityIsBacked
  <2>1. ~astray /\ IInv
    BY DEF VecIInv, Placed
  <2>2. /\ Buffer \in live /\ ptr \in [blk : Nat, off : Nat]
        /\ ptr.blk = cur_base /\ BufferEnd = cur_ptr
    BY <2>1 DEF VecIInv, Placed, BufferHeld, EndsAtCursor
  <2>3. /\ cur_base = current /\ current \in 1 .. Len(blocks)
        /\ cur_ptr <= cur_end /\ cur_end = blocks[current].capacity
    BY <2>1 DEF IInv, TypeOK, CursorCoherent
  <2>4. \A r \in live : r # Buffer => Disjoint(r, Buffer)
    BY <2>1, <2>2 DEF IInv, NoOverlap
  <2> QED
    BY <2>2, <2>3, <2>4 DEF Backed
<1> QED
  BY <1>1, VecInductive, PTL

\* The comparison our_end == cur_ptr of grow_to always succeeds: while it
\* borrows the arena, the vector's buffer, of any size an allocation may have,
\* is the last allocation.
THEOREM BufferStaysAtCursor ==
  VecSpec => []BufferAtCursor
<1>1. VecIInv => BufferAtCursor
  BY DEF VecIInv, Placed, BufferHeld, BufferAtCursor
<1> QED
  BY <1>1, VecInductive, PTL

\* With vectors growing in it, the arena's regions stay disjoint and, until a
\* cursor goes astray, placed in front of the cursor.
THEOREM VectorsKeepMemorySafe ==
  VecSpec => [](NoOverlap /\ (~astray => WellPlaced))
<1>1. VecIInv => NoOverlap /\ (~astray => WellPlaced)
  BY DEF VecIInv, Placed, CursorlessIInv, IInv
<1> QED
  BY <1>1, VecInductive, PTL

\* Growth extends the buffer in place whenever the block has room for it.
THEOREM CopiesOnlyWhenFull ==
  VecSpec => MovesOnlyWhenFull
<1>1. VecIInv /\ [VecNext]_vecVars =>
        [cap > 0 /\ cap' > cap /\ ptr' # ptr =>
           ptr.off + cap' * ElemSize > blocks[ptr.blk].capacity]_vecVars
  BY VecNextStep DEF MovesWhenFull
<1> QED
  BY <1>1, VecInductive, PTL DEF VecSpec, MovesOnlyWhenFull
=============================================================================
