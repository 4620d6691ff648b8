-------------------------------- MODULE Block --------------------------------
(***************************************************************************)
(* A memory block of the arena (arena/block.rs) and the sizing rule for a  *)
(* new one (Arena::next_block_for in arena/allocator.rs).                  *)
(*                                                                         *)
(* Every block is allocated at an address that is a multiple of its align, *)
(* so an address inside it is represented by its offset from the base: for *)
(* an alignment that divides the base, rounding the address up is rounding *)
(* the offset up.                                                          *)
(***************************************************************************)
EXTENDS Integers, Sequences

CONSTANTS
  MIN_BLOCK_SIZE,   \* allocator.rs: smallest first block (64 in the code)
  MAX_BLOCK_SIZE,   \* allocator.rs: growth stops here (16 MiB in the code)
  MIN_BLOCK_ALIGN,  \* block.rs: alignment every block has at least (64)
  USIZE_MAX,        \* largest usize
  Pow2              \* the powers of two a usize holds

ASSUME BlockAssumption ==
  /\ MIN_BLOCK_SIZE \in Nat \ {0}
  /\ MAX_BLOCK_SIZE \in Nat \ {0}
  /\ USIZE_MAX \in Nat /\ MAX_BLOCK_SIZE <= USIZE_MAX
  /\ Pow2 \subseteq Nat \ {0}
  /\ MIN_BLOCK_ALIGN \in Pow2
  /\ MIN_BLOCK_SIZE <= MAX_BLOCK_SIZE

Larger(a, b) == IF a >= b THEN a ELSE b
Smaller(a, b) == IF a <= b THEN a ELSE b

\* A block; `base` needs no field, since addresses are offsets from it.
BlockType == [capacity : Nat \ {0},
              align : {p \in Pow2 : p >= MIN_BLOCK_ALIGN},
              offset : Nat]

\* Layout::from_size_align refuses what, rounded up, exceeds isize::MAX.
ISIZE_MAX == USIZE_MAX \div 2

\* Mutant: the low bits are cleared without rounding up.
AlignDown(addr, align) == (addr \div align) * align

\* Add align - 1, then clear the low bits: for a power of two, this quotient.
AlignUp(addr, align) == ((addr + align - 1) \div align) * align

LayoutOk(capacity, align) == AlignUp(capacity, align) <= ISIZE_MAX

\* What Block::try_new makes when the system allocator does not fail.
NewBlock(capacity, align) ==
  [capacity |-> capacity, align |-> Larger(align, MIN_BLOCK_ALIGN), offset |-> 0]

\* The offset Block::try_alloc moves to, and the condition for its Some.
BumpedOffset(block, size, align) == AlignUp(block.offset, align) + size

BlockFits(block, size, align) == BumpedOffset(block, size, align) <= block.capacity

-----------------------------------------------------------------------------
(* Sizing a new block. *)

IsNextPow2(p, n) == p >= n /\ \A q \in Pow2 : q >= n => p <= q

\* checked_next_power_of_two().unwrap_or(usize::MAX)
NextPow2(n) ==
  IF \E p \in Pow2 : IsNextPow2(p, n)
  THEN CHOOSE p \in Pow2 : IsNextPow2(p, n)
  ELSE USIZE_MAX

\* `size` plus the largest padding `align` may cost; next_block_for panics
\* when this overflows.
Worst(size, align) == size + align - 1

WorstOverflows(size, align) == Worst(size, align) > USIZE_MAX

\* `align * 2`, which is 0 for the largest power of two in a build whose
\* arithmetic wraps, and panics in one that checks.
DoubledAlign(align) == (align * 2) % (USIZE_MAX + 1)

DoubleOverflows(align) == align * 2 > USIZE_MAX

\* next_block_for's result when the growth state is `next_size`.
BlockSizeFor(next_size, size, align) ==
  LET floor == Larger(Worst(size, align), DoubledAlign(align))
  IN  Larger(Smaller(NextPow2(Larger(next_size, floor)), MAX_BLOCK_SIZE), floor)

\* next_block_for's update of next_block_size.
GrowNextSize(rounded) == Smaller(rounded + rounded \div 2, MAX_BLOCK_SIZE)
=============================================================================
