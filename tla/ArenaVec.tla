------------------------------- MODULE ArenaVec -------------------------------
(***************************************************************************)
(* A growable vector in arena memory (vec/arena_vec.rs), as a client of    *)
(* the arena: where its buffer lies, how it grows, and what the arena is   *)
(* left with. What becomes of the elements is VecElements.                 *)
(*                                                                         *)
(* The vector borrows the arena exclusively: while it lives, only its own  *)
(* calls reach the arena. Elements take memory (ElemSize > 0).             *)
(***************************************************************************)
EXTENDS Arena

CONSTANTS
  ElemSize, ElemAlign,  \* layout of T
  FIRST_CAP,            \* capacity of the first growth by push (4 in the code)
  Counts,               \* numbers of elements the caller asks for
  Bases,                \* addresses at which the current block may lie
  OverflowChecks        \* TRUE: a build whose arithmetic panics on overflow

ASSUME ArenaVecAssumption ==
  /\ ElemSize \in Nat \ {0} /\ ElemAlign \in Pow2
  /\ FIRST_CAP \in Nat \ {0}
  /\ Counts \subseteq 0 .. USIZE_MAX
  /\ Bases \subseteq 1 .. ISIZE_MAX
  /\ OverflowChecks \in BOOLEAN

VARIABLES
  alive,     \* a vector exists and borrows the arena
  ptr,       \* where its buffer starts: [blk, off]
  len, cap,
  astray,    \* history: a growth has moved the cursor to a wrapped address
  finished   \* history: buffers that finish() left to the arena

arena == <<blocks, cursor, next_block_size, bytes_allocated, bytes_reserved,
           drop_registry, live, checkpoints>>
vec == <<alive, ptr, len, cap, astray, finished>>
vecVars == <<vars, vec>>

Dangling == [blk |-> 0, off |-> 0]

Buffer == [blk |-> ptr.blk, off |-> ptr.off, size |-> cap * ElemSize, align |-> ElemAlign]

\* our_end, as an offset in the buffer's block.
BufferEnd == ptr.off + cap * ElemSize

VecInit ==
  /\ Init
  /\ alive = FALSE
  /\ ptr = Dangling /\ len = 0 /\ cap = 0
  /\ astray = FALSE
  /\ finished = {}

-----------------------------------------------------------------------------
(* grow_to and try_grow_to *)

\* Mutant: the buffer's end is taken to be the end of its elements.
EndsAtCursorByLen == cap > 0 /\ ptr.blk = cur_base /\ ptr.off + len * ElemSize = cur_ptr

\* our_end == arena.cur_ptr
EndsAtCursor == cap > 0 /\ ptr.blk = cur_base /\ BufferEnd = cur_ptr

ExtraBytes(new_cap) == (new_cap - cap) * ElemSize

\* Mutant: the additional elements are counted as bytes.
ExtendedEndInElements(base, new_cap) ==
  ((base + BufferEnd + new_cap - cap) % (USIZE_MAX + 1)) - base

\* new_end: a product without overflow checks and wrapping_add, both modulo the
\* address space, in a block at address `base`.
ExtendedEnd(base, new_cap) ==
  ((base + BufferEnd + ExtraBytes(new_cap)) % (USIZE_MAX + 1)) - base

ProductPanics(new_cap) == OverflowChecks /\ ExtraBytes(new_cap) > USIZE_MAX

\* The address of the end does not fit in a usize.
Wraps(base, new_cap) == base + BufferEnd + ExtraBytes(new_cap) > USIZE_MAX

\* The larger buffer is the vector's memory, unless its end has wrapped: then
\* nobody was handed what lies behind the old one.
Extended(new_cap) ==
  IF astray' THEN live
  ELSE (live \ {Buffer}) \cup {[Buffer EXCEPT !.size = new_cap * ElemSize]}

\* Mutant: the arena's cursor stays where it was.
ExtendInPlaceKeepingCursor(base, new_cap) ==
  /\ EndsAtCursor
  /\ ~ProductPanics(new_cap)
  /\ ExtendedEnd(base, new_cap) <= cur_end
  /\ cap' = new_cap
  /\ astray' = Wraps(base, new_cap)
  /\ live' = Extended(new_cap)
  /\ ret' = "ok"
  /\ UNCHANGED <<blocks, cursor, next_block_size, bytes_allocated,
                 bytes_reserved, drop_registry, checkpoints, ptr>>

\* The buffer ends at the cursor and the block has room: move the cursor.
ExtendInPlace(base, new_cap) ==
  /\ EndsAtCursor
  /\ ~ProductPanics(new_cap)
  /\ ExtendedEnd(base, new_cap) <= cur_end
  /\ cur_ptr' = ExtendedEnd(base, new_cap)
  /\ cap' = new_cap
  /\ astray' = Wraps(base, new_cap)
  /\ live' = Extended(new_cap)
  /\ ret' = "ok"
  /\ UNCHANGED <<blocks, current, cur_base, cur_end, high_water_mark,
                 largest_remaining, largest_remaining_idx, next_block_size,
                 bytes_allocated, bytes_reserved, drop_registry, checkpoints, ptr>>

\* A new buffer from the arena; the old one stays allocated. `call` is the
\* arena's alloc_raw or try_alloc_raw for it.
Move(new_cap, call) ==
  /\ call
  /\ IF ret' = "ok"
       THEN /\ \E r \in live' \ live : ptr' = [blk |-> r.blk, off |-> r.off]
            /\ cap' = new_cap
       ELSE UNCHANGED <<ptr, cap>>
  /\ UNCHANGED astray

Refuse(r) == ret' = r /\ UNCHANGED <<arena, ptr, cap, astray>>

\* grow_to panics where try_grow_to returns an error. new_cap > cap. The
\* current block lies at `base`, in the lower half of the address space.
GrowTo(new_cap, fallible) ==
  LET q == [size |-> new_cap * ElemSize, align |-> ElemAlign, init |-> "raw"] IN
  \E base \in {b \in Bases : b + cur_end <= ISIZE_MAX} :
    \/ ExtendInPlace(base, new_cap)
    \/ EndsAtCursor /\ ProductPanics(new_cap) /\ Refuse("panic")
    \/ /\ ~(EndsAtCursor /\ (ProductPanics(new_cap) \/ ExtendedEnd(base, new_cap) <= cur_end))
       /\ \/ q.size > USIZE_MAX /\ Refuse(IF fallible THEN "none" ELSE "panic")
          \/ q.size <= USIZE_MAX /\ ~fallible /\ Move(new_cap, Alloc(q))
          \/ q.size <= USIZE_MAX /\ fallible /\ Move(new_cap, TryAlloc(q))

\* The capacity is enough, or grows to new_cap; usize::MAX is the limit of a
\* count of elements. What a vector does with a capacity that it has no memory
\* for is undefined: none that has gone astray is used further.
EnsureCapacity(needed, new_cap, fallible) ==
  /\ ~astray
  /\ \/ needed <= cap /\ Refuse("ok")
     \/ needed > cap /\ new_cap > USIZE_MAX /\ Refuse(IF fallible THEN "none" ELSE "panic")
     \/ needed > cap /\ new_cap <= USIZE_MAX /\ GrowTo(new_cap, fallible)

-----------------------------------------------------------------------------
(* The calls of the vector's owner *)

\* new is with_capacity(0). A growth that panics leaves no vector.
WithCapacity(n) ==
  /\ ~alive
  /\ EnsureCapacity(n, n, FALSE)
  /\ alive' = (ret' = "ok")
  /\ UNCHANGED <<len, finished>>

\* grow and try_grow: double the capacity.
NextCap == IF cap = 0 THEN FIRST_CAP ELSE 2 * cap

\* Mutant: try_push writes the element although growth failed.
PushElementAnyway(fallible) ==
  /\ alive
  /\ EnsureCapacity(len + 1, NextCap, fallible)
  /\ len' = len + 1
  /\ UNCHANGED <<alive, finished>>

\* push and try_push.
PushElement(fallible) ==
  /\ alive
  /\ EnsureCapacity(len + 1, NextCap, fallible)
  /\ len' = IF ret' = "ok" THEN len + 1 ELSE len
  /\ UNCHANGED <<alive, finished>>

\* extend_exact, extend_from_slice, and resize to a greater length: an iterator
\* may announce any length, and so may the caller of resize. One that panics
\* while the elements are written leaves the growth and the old length, as
\* Reserve does.
ExtendBy(n) ==
  /\ alive /\ n > 0
  /\ EnsureCapacity(len + n, len + n, FALSE)
  /\ len' = IF ret' = "ok" THEN len + n ELSE len
  /\ UNCHANGED <<alive, finished>>

\* reserve_exact and try_reserve_exact.
ReserveExact(n, fallible) ==
  /\ alive
  /\ EnsureCapacity(len + n, len + n, fallible)
  /\ UNCHANGED <<alive, len, finished>>

\* reserve and try_reserve saturate.
Reserve(n, fallible) ==
  LET required == Smaller(len + n, USIZE_MAX) IN
  /\ alive
  /\ EnsureCapacity(required, required, fallible)
  /\ UNCHANGED <<alive, len, finished>>

\* pop, truncate, clear, and resize to a smaller length.
Shorten(n) ==
  /\ alive /\ n < len
  /\ len' = n
  /\ ret' = "ok"
  /\ UNCHANGED <<arena, alive, ptr, cap, astray, finished>>

Gone == alive' = FALSE /\ ptr' = Dangling /\ len' = 0 /\ cap' = 0


\* Drop, of the vector or of its iterator: the arena keeps the memory.
DropVec ==
  /\ alive /\ Gone
  /\ ret' = "ok"
  /\ UNCHANGED <<arena, astray, finished>>

\* finish: the elements are left in the arena's memory.
Finish ==
  /\ alive /\ Gone
  /\ ret' = "ok"
  /\ finished' = IF len > 0 THEN finished \cup {Buffer} ELSE finished
  /\ UNCHANGED <<arena, astray>>

\* Any call on the arena, once no vector borrows it. While the cursor is astray
\* only what sets it anew has a defined outcome.
ViaArena ==
  /\ ~alive
  /\ \/ ~astray /\ Next /\ UNCHANGED astray
     \/ astray /\ (Reset \/ \E cp \in checkpoints : Rewind(cp)) /\ astray' = FALSE
     \/ astray /\ (ResetPanics \/ \E cp \in checkpoints : RewindPanics(cp)) /\ UNCHANGED astray
  /\ finished' = finished \cap live'
  /\ UNCHANGED <<alive, ptr, len, cap>>

VecNext ==
  \/ ViaArena
  \/ \E n \in Counts : \/ WithCapacity(n)
                       \/ ExtendBy(n)
                       \/ \E fallible \in BOOLEAN : ReserveExact(n, fallible)
                                                    \/ Reserve(n, fallible)
  \/ \E fallible \in BOOLEAN : PushElement(fallible)
  \/ \E n \in 0 .. len - 1 : Shorten(n)
  \/ DropVec
  \/ Finish

VecSpec == VecInit /\ [][VecNext]_vecVars

-----------------------------------------------------------------------------
(* Properties *)

\* The vector's fields stay in their domains, only a vector that exists has a
\* buffer, and the arena is well-formed but for a cursor gone astray.
VecTypeOK ==
  /\ ~astray => TypeOK
  /\ alive \in BOOLEAN /\ astray \in BOOLEAN
  /\ ptr \in [blk : Nat, off : Nat]
  /\ cap \in 0 .. USIZE_MAX /\ len \in 0 .. cap
  /\ cap > 0 => alive
  /\ finished \subseteq RegionType

\* The memory between the buffer and the end of its capacity is inside one
\* block, and nobody else holds any of it.
Backed ==
  /\ ptr.blk \in 1 .. Len(blocks)
  /\ 0 <= ptr.off /\ BufferEnd <= blocks[ptr.blk].capacity
  /\ \A r \in live : r # Buffer => Disjoint(r, Buffer)

\* The capacity takes no more than the isize::MAX bytes an allocation may have.
Allocatable == cap * ElemSize <= ISIZE_MAX

\* What push writes below cap is the vector's, whatever growth failed, wrapped
\* or moved before: no capacity that could be allocated is without its memory.
CapacityIsBacked == cap > 0 /\ Allocatable => Backed

\* "Returns CapacityOverflow if the required capacity would overflow usize.
\* Returns AllocError if the arena is out of memory" (try_reserve): a reservation
\* that succeeds has the memory of the capacity it reports.
ReservedIsBacked == cap > 0 => Backed

\* The buffer ends at the arena's cursor for as long as the vector lives, also
\* after growth failed and after it moved to another block: the comparison of
\* addresses in grow_to never mistakes the end of one block for another's start.
BufferAtCursor == cap > 0 /\ Allocatable => EndsAtCursor

\* Growth copies only when the current block has no room behind the buffer.
MovesOnlyWhenFull ==
  [][cap > 0 /\ cap' > cap /\ ptr' # ptr =>
       ptr.off + cap' * ElemSize > blocks[ptr.blk].capacity]_vecVars

\* "If drop-tracking is enabled they will be dropped by reset / rewind": memory
\* of finished elements is reclaimed only when their destructors are registered.
FinishedAreDropped ==
  [][\A r \in finished \ live' : r \in Registered]_vecVars
=============================================================================
