----------------------------- MODULE BlockLemmas -----------------------------
(***************************************************************************)
(* Facts about the arithmetic of Block, for every value of the constants.  *)
(***************************************************************************)
EXTENDS Block, TLAPS

\* align_up never moves an address down, and by less than one alignment.
LEMMA AlignUpBounds ==
  ASSUME NEW n \in Nat, NEW a \in Nat \ {0}
  PROVE  /\ AlignUp(n, a) \in Nat
         /\ n <= AlignUp(n, a)
         /\ AlignUp(n, a) <= n + a - 1
  BY DEF AlignUp

\* align_up returns a multiple of the alignment.
LEMMA AlignUpAligned ==
  ASSUME NEW n \in Nat, NEW a \in Nat \ {0}
  PROVE  AlignUp(n, a) % a = 0
  BY DEF AlignUp

\* The rounded-up growth size is a number, whatever Pow2 leaves to choose from.
LEMMA NextPow2Type ==
  ASSUME NEW n \in Nat
  PROVE  NextPow2(n) \in Nat
  BY BlockAssumption DEF NextPow2

\* The doubled alignment is a number, and exact when it does not overflow.
LEMMA DoubledAlignType ==
  ASSUME NEW align \in Nat
  PROVE  /\ DoubledAlign(align) \in Nat
         /\ align * 2 <= USIZE_MAX => DoubledAlign(align) = align * 2
<1>1. USIZE_MAX \in Nat /\ align * 2 \in Nat
  BY BlockAssumption
<1> QED
  BY <1>1 DEF DoubledAlign

\* next_block_for asks for at least the request with its worst padding.
LEMMA BlockSizeBounds ==
  ASSUME NEW next_size \in Nat, NEW size \in Nat \ {0}, NEW align \in Pow2
  PROVE  /\ BlockSizeFor(next_size, size, align) \in Nat \ {0}
         /\ size + align - 1 <= BlockSizeFor(next_size, size, align)
<1> DEFINE floor == Larger(Worst(size, align), DoubledAlign(align))
           rounded == NextPow2(Larger(next_size, floor))
<1>1. align \in Nat \ {0}
  BY BlockAssumption
<1>2. floor \in Nat /\ size + align - 1 <= floor
  <2>1. DoubledAlign(align) \in Nat
    BY <1>1, DoubledAlignType
  <2> QED
    BY <1>1, <2>1 DEF Larger, Worst
<1>3. Larger(next_size, floor) \in Nat
  BY <1>2 DEF Larger
<1>4. rounded \in Nat
  BY <1>3, NextPow2Type
<1>5. BlockSizeFor(next_size, size, align)
        = Larger(Smaller(rounded, MAX_BLOCK_SIZE), floor)
  BY DEF BlockSizeFor
<1> HIDE DEF floor, rounded
<1> QED
  BY <1>1, <1>2, <1>4, <1>5, BlockAssumption DEF Larger, Smaller

\* The growth state stays a number.
LEMMA GrowNextSizeType ==
  ASSUME NEW n \in Nat
  PROVE  GrowNextSize(n) \in Nat
  BY BlockAssumption DEF GrowNextSize, Smaller

\* next_power_of_two, saturating, is no less than its argument.
LEMMA NextPow2AtLeast ==
  ASSUME NEW n \in Nat, n <= USIZE_MAX
  PROVE  n <= NextPow2(n)
<1>1. \A p \in Pow2 : p \in Nat /\ (IsNextPow2(p, n) => n <= p)
  BY BlockAssumption DEF IsNextPow2
<1> QED
  BY <1>1 DEF NextPow2

\* A block for a request within MAX_BLOCK_SIZE is no smaller than the growth
\* state asks for, and no larger than MAX_BLOCK_SIZE.
LEMMA BlockSizeGrows ==
  ASSUME NEW next_size \in Nat, next_size <= MAX_BLOCK_SIZE,
         NEW size \in Nat, NEW align \in Nat \ {0},
         Worst(size, align) <= MAX_BLOCK_SIZE, align * 2 <= MAX_BLOCK_SIZE
  PROVE  /\ next_size <= BlockSizeFor(next_size, size, align)
         /\ BlockSizeFor(next_size, size, align) <= MAX_BLOCK_SIZE
<1> DEFINE floor == Larger(Worst(size, align), DoubledAlign(align))
           wanted == Larger(next_size, floor)
<1>1. MAX_BLOCK_SIZE \in Nat /\ USIZE_MAX \in Nat /\ MAX_BLOCK_SIZE <= USIZE_MAX
  BY BlockAssumption
<1>2. floor \in Nat /\ floor <= MAX_BLOCK_SIZE
  <2>1. DoubledAlign(align) \in Nat /\ DoubledAlign(align) <= MAX_BLOCK_SIZE
    BY <1>1, DoubledAlignType
  <2> QED
    BY <2>1 DEF Larger, Worst
<1> HIDE DEF floor
<1>3. wanted \in Nat /\ next_size <= wanted /\ wanted <= MAX_BLOCK_SIZE
  BY <1>1, <1>2 DEF Larger
<1> HIDE DEF wanted
<1>4. wanted <= NextPow2(wanted) /\ NextPow2(wanted) \in Nat
  BY <1>1, <1>3, NextPow2AtLeast, NextPow2Type
<1>5. BlockSizeFor(next_size, size, align) =
        Larger(Smaller(NextPow2(wanted), MAX_BLOCK_SIZE), floor)
  BY DEF BlockSizeFor, floor, wanted
<1> QED
  BY <1>1, <1>2, <1>3, <1>4, <1>5 DEF Larger, Smaller

\* The growth state never shrinks below the block it was grown from.
LEMMA NextSizeGrows ==
  ASSUME NEW n \in Nat, n <= MAX_BLOCK_SIZE
  PROVE  n <= GrowNextSize(n) /\ GrowNextSize(n) <= MAX_BLOCK_SIZE
<1>1. MAX_BLOCK_SIZE \in Nat /\ n \div 2 \in Nat
  BY BlockAssumption
<1> QED
  BY <1>1 DEF GrowNextSize, Smaller

\* The expect of alloc_new_block cannot fail: a block sized by next_block_for
\* has room for the request it was sized for, at offset zero of the block.
THEOREM FreshBlockFits ==
  ASSUME NEW next_size \in Nat, NEW size \in Nat \ {0}, NEW align \in Pow2
  PROVE  BlockFits(NewBlock(BlockSizeFor(next_size, size, align), align),
                   size, align)
<1>1. align \in Nat \ {0}
  BY BlockAssumption
<1>2. AlignUp(0, align) \in Nat /\ AlignUp(0, align) <= align - 1
  BY <1>1, AlignUpBounds
<1> QED
  BY <1>1, <1>2, BlockSizeBounds DEF BlockFits, BumpedOffset, NewBlock

\* A new block is empty and aligned at least as strictly as asked.
LEMMA NewBlockType ==
  ASSUME NEW capacity \in Nat \ {0}, NEW align \in Pow2
  PROVE  /\ NewBlock(capacity, align) \in BlockType
         /\ NewBlock(capacity, align).capacity = capacity
         /\ NewBlock(capacity, align).offset = 0
         /\ align <= NewBlock(capacity, align).align
<1>1. align \in Nat /\ MIN_BLOCK_ALIGN \in Pow2 /\ MIN_BLOCK_ALIGN \in Nat
  BY BlockAssumption
<1> QED
  BY <1>1 DEF NewBlock, BlockType, Larger
=============================================================================
