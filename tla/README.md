# fastarena in TLA+

Specifications, model-checking configurations and machine-checked proofs for
`fastarena`, a bump-pointer arena allocator with checkpoints, transactions and
drop tracking. Paths below are relative to the crate root; everything is
modelled from the Rust source, with the `drop-tracking` feature on (the build
without it is the special case in which no request has a destructor).

## The system

| Part | Source | State | Operations | Made correct by |
|---|---|---|---|---|
| Block | `src/arena/block.rs` | capacity, align, offset | `try_new`, `try_alloc`, `align_up`; sized by `next_block_for` | a fresh block satisfies the request it was opened for |
| Arena | `src/arena/allocator.rs` | block chain, `current`, cached cursor (`cur_base/ptr/end`), high-water mark, cached `largest_remaining`, two byte counters, growth state | `alloc*`, `try_alloc*`, `register_drop`, `checkpoint`, `rewind`, `reset`, `stats` | no overlap, placement, alignment; coherent caches; exact restore; blocks reused before new ones are opened |
| DropRegistry | `src/util/drop_registry.rs` | list of pending destructors | `register`, `register_slice`, `run_drops_until`, `run_all_drops` | every reclaimed value is dropped once, none that is still held |
| Transaction | `src/util/transaction.rs` | checkpoint, depth, limit; `Arena::txn_depth` | `transaction`, `savepoint`, `set_limit`, guarded allocation, `arena_mut`, `commit`, `rollback`, Drop, `with_transaction*` | rollback restores the opening state; depth counts guards; budget respected |
| InlineVec | `src/util/inline_vec.rs` | inline array or heap buffer, `len`, `on_heap` | `push`, `pop`, `get_mut`, Drop | a sequence across the spill and growth; one buffer owned |
| ArenaVec | `src/vec/arena_vec.rs` | buffer in the arena, `len`, `cap`; the iterator's `start` | `push`, `try_push`, `reserve*`, `try_reserve*`, `extend*`, `resize`, `pop`, `truncate`, `clear`, `finish`, `into_iter`, Drop | in-place growth only at the cursor; memory behind the capacity; each element has one owner |
| ArenaBox | `src/arena/boxed.rs` | a pointer | `alloc_box`, `into_inner` | a value moved out is not dropped by the arena |
| ArenaStats, macro | `src/arena/stats.rs`, `src/macros.rs` | none of their own | counters; sugar over ArenaVec | |

The arena calls its blocks and its registry; both lists are `InlineVec`s. A
transaction is a guard that holds a checkpoint of the arena it borrows and
rewinds to it when dropped. A vector borrows the arena too, takes its buffer
with `alloc_raw`, and *moves the arena's cursor itself* when its buffer is the
newest allocation. Calls take `&mut self`, so nothing runs
concurrently and every call is one step. What is hard is not interleaving but
*sequence and failure*: any number of nested checkpoints, rewinds, resets and
guards in any order; a cache updated incrementally in one call and trusted many
calls later; a call that fails, or panics in user code, half-way; a checkpoint
used after it was invalidated. The list with line numbers is `hazards` in
`PROJECT.json`.

## Modules

- `Block` - the block record, rounding, fit, and `next_block_for` as operators
  over `CONSTANTS` for the sizes. A block's base is a multiple of its align, so
  an address is an offset; `align_up` is arithmetic rounding, and the powers of
  two of the machine are the constant `Pow2`. `align * 2` is 0 for the largest
  of them where arithmetic wraps (`DoubledAlign`) and panics where it is checked.
- `Regions` - disjointness, order and footprint of regions of arena memory.
- `Arena` - the allocator with its registry. Variables carry the names of the
  fields of `struct Arena`; `live` and `checkpoints` are history variables for
  what the caller holds; `ret` is how the last call ended.
  One allocation call is one action per path of the code:

  | Action | Code path |
  |---|---|
  | `Empty` | zero-sized request, early return |
  | `Bump` | fast path of `alloc_raw_inner` / `try_alloc_raw_inner` |
  | `ReuseBlock` | `finish_slow_path`, then the scan finds a retained block |
  | `OpenBlock` | `finish_slow_path`, then a new block |
  | `BlockNotListed` | the new block cannot be pushed: `InlineVec` panics after the counters moved |
  | `OutOfMemory` | the block's layout is invalid or the system refuses it; panic or `None` |
  | `SizeOverflow` | `next_block_for` panics: the padded size overflows, or `align * 2` does |
  | `AddressOverflow` | `checked_add` in the fallible fast path returns `None` |

  `Alloc` and `TryAlloc` are the two families of entry points. They differ by
  size, alignment and filling of the request: raw memory, a value registered
  for its destructor, or a slice whose iterator panics. `RewindPanics` and
  `ResetPanics` are a rewind or reset in which a destructor panics: the
  registry is drained, no block is touched.
- `AbstractArena` - what an arena promises, without blocks: fresh regions, owed
  destructors, exact snapshots, and what a call answers (`outcome`): a rewind
  that answers "ok" has returned to the snapshot, one that panics has not, and
  has reclaimed nothing. `Arena!ImplementsAbstract` is the refinement; a
  checkpoint maps to the regions below it and the registry prefix it counts.
- `Transaction` - extends `Arena` with the stack of open guards. Only the
  innermost guard can be used (a savepoint borrows its parent), so the guards
  are a sequence. A guard is held `by` the caller, who ends it as he likes with
  `Commit`, `Rollback`, `RollbackPanics` or `Forget`, or by a closure of
  `with_transaction` or `with_transaction_infallible`. A closure ends with
  `Return` ("ok", "err" or "panic"); then nothing can happen but what the two
  functions do with that result: `Commits` and `RollsBack` say which results
  end in which way (an infallible one commits after a panic too). `ViaArena` is
  `arena_mut`, or the arena itself when no guard is open.
- `AbstractTransaction` - a stack of saved states over `AbstractArena`; work
  inside never disturbs what a saved state holds, and a closure's saved state is
  left by keeping the work or undoing it as the closure's result demands.
- `InlineVec` and `AbstractSequence` - the storage union with slots that may be
  uninitialised and a set of allocated buffers, refining a plain sequence.
- `ArenaVec` - extends `Arena` with one vector that borrows it: where its buffer
  lies and what it costs the arena. `EnsureCapacity` is the check all growing
  methods make; `GrowTo` is `grow_to` and `try_grow_to`, with `ExtendInPlace`
  (the cursor moves), `Move` (a new buffer through the arena's own `Alloc` or
  `TryAlloc`, with all their slow paths and failures) and `Refuse`. The
  arithmetic of the in-place path keeps its width: `ExtendedEnd` wraps at the
  address space, for a block that lies at any address of `Bases`, and
  `OverflowChecks` tells a build that panics on overflow from one that wraps
  in the product; the addition is `wrapping_add` and wraps in both. A growth
  that wrapped has left the cursor outside what the arena knows of its block,
  perhaps below it: the history variable `astray` is TRUE. Growing such a vector
  or writing behind its memory, and allocating from the arena, is then undefined;
  it may still be shortened, dropped or finished, and a reset or a rewind sets
  the cursor anew. `ViaArena` is any call on the arena while no vector exists,
  so that vectors start in any state an arena can be in.
- `VecElements` - the same methods seen from the elements: slots of raw memory
  (reading one leaves its bits), numbered elements, and history variables for
  who has each one: `out` (the caller), `dropped`, `kept` (left in memory
  without an owner). Growth either succeeds or not, and keeps all slots or only
  the first `len`. `Fill` and `FillPanics` are `extend_exact`,
  `extend_from_slice` and `resize` (`t = 1`: the template is dropped), and the
  `...Panics` actions are a panic of the iterator, of a clone, or of the
  destructor of element `j`.
- `AbstractVec` - a sequence whose elements enter and leave at the end, or at
  the front once the vector is an iterator, and are dropped once: front to back
  by the vector, in an order left open by an iterator (`DropRest`); the promise
  ends with the first destructor that panics. `VecElements!ImplementsVec` is the
  refinement.
- `ArenaBox` - extends `Arena` with `into_inner`. A box borrows the arena, so
  its value is the newest allocation when it is moved out.
- `MCArena`, `MCTransaction`, `MCVec`, `MCBox` - small instances: the powers
  of two and the sets of requests.
- `BlockLemmas`, `ArenaProofs`, `PromiseProofs`, `TransactionProofs`,
  `CounterProofs`, `ArenaVecProofs`, `VecElementsProofs`, `InlineVecProofs` -
  proofs. Each of the first five extends the one before it.

Definitions named `...` with the comment `Mutant:` are plausible faults of the
definition that follows them; each property of a passing run is known to fail
when its mutant (listed in `PROJECT.json`) replaces the definition.

## Runs

Sizes are scaled down: `MIN_BLOCK_SIZE` and `MIN_BLOCK_ALIGN` 4 instead of 64,
`MAX_BLOCK_SIZE` 16 instead of 16 MiB, `usize` of 7 bits, lists that spill
after 2 blocks and 1 destructor instead of 8 and 32. The code treats these
numbers only through comparisons, rounding and doubling, so what matters is
their order: several requests per block, blocks that grow and then stop
growing, a request beyond the maximum, one that overflows, lists that grow.

| Run | Shows |
|---|---|
| `arena_core` | with valid checkpoints, every failure and panic included: caches, placement, disjointness, restorable checkpoints, registry, statistics lower bound, refinement of `AbstractArena` |
| `arena_reuse` | the cached `largest_remaining` never hides a retained block that fits (requests within `MAX_BLOCK_SIZE`) |
| `txn_core` | guards, savepoints, closures, budgets: refinement of `AbstractTransaction`, depth, budget |
| `txn_faults` | guards over an arena that was reset or rewound under them, so that they roll back to checkpoints that no longer hold; forgotten guards, failing blocks |
| `inline_vec` | spill and two doublings: a sequence with exactly one buffer |
| `arena_vec` | a vector among other allocations, and counts that wrap: memory behind every capacity that could be allocated (at most `isize::MAX` bytes), its buffer at the cursor, no overlap, copies only when the block is full |
| `vec_elements` | elements through growth, failures and panics: initialised reads, one owner each, refinement of `AbstractVec` |

Bounds: three blocks (four in `arena_reuse`) are one before, one at and one
after a checkpoint; two regions suffice to overlap or to be dropped on the wrong
side of a checkpoint; two checkpoints or guards suffice to nest. `MaxBytes`
caps `bytes_allocated`, which grows without bound only because failed calls and
slow paths add to it repeatedly; `MaxReserved` caps `bytes_reserved`, which
only a failed listing can raise without adding a block. `MaxLive`,
`MaxCheckpoints`, `MaxTransactions`, `MaxBlocks` and (in `InlineVec`)
`MaxPushes` bound what the caller does. In `arena_vec` an element takes 2 of a
block's 4 to 16 bytes, the first growth is to 2 elements, and `Counts` asks for
none, for 3 (more than a doubling), for 63 (whose bytes fit a `usize` but whose
end does not) and for the largest count of all; that is enough for growth in
place, growth that must leave the block, growth that wraps, and each way to
refuse. `arena_vec` takes no checkpoints (`MaxCheckpoints` 0): that a rewind
sets a stray cursor anew is covered by the proof only. `txn_core` holds two
regions and 8 bytes, since every guard may be the caller's or one of two kinds
of closure (`Holders`); `txn_faults` keeps to the caller's. `vec_elements` has
room for 4 elements, of which any one may panic
(`MaxCap`, `MaxMade`, `MaxDrops`). In `inline_vec` and `vec_elements` deadlock
is not checked: a dropped vector has no further call.

Five runs end in a violation, each a disagreement between the code and its own
documentation:

| Run | Disagreement |
|---|---|
| `doc_stale` | `rewind` accepts a checkpoint that a rewind or reset invalidated and reclaims registered values without running their destructors |
| `doc_reserve` | `try_reserve` promises an error when the capacity overflows or memory is out; growing in place adds the bytes with `wrapping_add` (`arena_vec.rs:496`), so that a huge reservation whose end wraps returns `Ok` with no memory behind it, in a build with overflow checks too (the run has them on) |
| `doc_unwind` | the iterator "drops any remaining elements" when dropped (`arena_vec.rs:771`); when a destructor panics there, the vector inside it is dropped with its full length (`arena_vec.rs:795-804`, then `728-736`), elements that `next` gave out included |
| `doc_finish` | finished elements "will be dropped by `Arena::reset` / `Arena::rewind`" under drop-tracking; `finish` registers nothing, and they are reclaimed undropped |
| `doc_box` | `into_inner` moves the value out, but `alloc_box` registered it: the arena drops it again |

Smaller observations without a run of their own:

- The bytes of a slow-path allocation are added to `bytes_allocated`
  (`allocator.rs:1132`, and `1075` for a retained block) and counted again by
  the cursor. `stats.rs:7` calls the number "Bytes committed to live
  allocations, including alignment padding", and `stats.rs:12` says of
  `bytes_reserved` "Always `>= bytes_allocated`": with the double count it can be
  less. A guard also refuses a request within its limit (`transaction.rs:205`).
  `StatsCoverLive` checks the safe direction.
- With a retained block larger than `MAX_BLOCK_SIZE` the slow path can open a new
  block although that one fits, because `set_current_block` keeps
  `largest_remaining` without looking between the two indices.
- `try_alloc_raw` panics on a size that overflows when padded
  (`allocator.rs:1177`).
- `arena_vec.rs:771` and `USAGE.md:875` say that an iterator drops the remaining
  elements in LIFO order; the code drops them front to back
  (`arena_vec.rs:798`). `AbstractVec` asserts neither.

## Fairness and liveness

None is assumed and no liveness is stated. The crate has no scheduler, thread,
timer or callback queue: every step is a call the caller may or may not make,
and each call's loops are bounded by the number of blocks or registry entries.

## Proofs

Every property that a passing run checks is also a theorem, for arbitrary
constants (any block sizes, request set, number of blocks, with or without
faults), from the assumptions the modules name (`BlockAssumption`,
`ArenaAssumption`, `TransactionAssumption`, `ArenaVecAssumption`,
`VecElementsAssumption`, `InlineVecAssumption`). They say what the code's
constants satisfy, `MAX_BLOCK_SIZE <= USIZE_MAX` and `MIN_BLOCK_SIZE <=
MAX_BLOCK_SIZE` included. What a theorem needs beyond them is its hypothesis:

| Hypothesis | Theorems | Why it is needed |
|---|---|---|
| none | `ArenaProofs` up to disjointness; depth and memory safety of `TransactionProofs`; `ArenaVecProofs`, `InlineVecProofs`, `VecElementsProofs` | |
| `~StaleUse`: the caller rewinds only to checkpoints that no rewind or reset has invalidated | `PromiseProofs`, `CounterProofs`, `TransactionsOwnDestructors`, `TransactionsKeepTheirPromise` | `doc_stale`: a stale rewind loses destructors |
| `RequestsFit`: requests and first blocks within `MAX_BLOCK_SIZE`, aligned no more strictly than a block | `BlocksOpenedOnlyWhenNeeded` | a larger retained block may be overlooked, see the observations above |

The properties of a vector are not restricted by a hypothesis on the counts; two
of them say of themselves where they end. `CapacityIsBacked` and
`BufferAtCursor` speak of capacities of at most `isize::MAX` bytes: `doc_reserve`
shows that a larger one has no memory. `NeverDropsTaken` leaves out one step, the
unwinding Drop of an iterator (`IterUnwinds`): `doc_unwind` shows what it does.

- `BlockLemmas`: rounding up gives an aligned value at least as large; blocks
  from `next_block_for` have room, and hence `FreshBlockFits`: the `expect` in
  `alloc_new_block` cannot fire; for requests within `MAX_BLOCK_SIZE` a new
  block is no smaller than the growth state, and the growth state never falls
  behind it (`BlockSizeGrows`, `NextSizeGrows`).
- `ArenaProofs`, memory safety: `TypeOK`, `CursorCoherent`,
  `CheckpointsRestorable`, `WellPlaced` and `NoOverlap`. None is inductive
  alone. That two regions are disjoint follows for a new region from
  `WellPlaced` (what is held lies below the cursor), which for a new *block*
  needs `CursorCoherent` (blocks ahead of the cursor are empty). `WellPlaced`
  after a rewind needs the checkpoint to lie inside its block, that is
  `CheckpointsRestorable`, which in turn needs that blocks are never removed or
  resized (`BlocksKept`). Their conjunction `IInv` is inductive; there is one
  lemma per action, and the slow paths share `MovedStep` and `FailedStep`.
  The theorems cover stale checkpoints: misuse of `rewind` can lose destructors
  (`doc_stale`) but never hands out memory twice. `AllocationOutcome` sums up
  what an allocation does to cursor, regions and registry over all its paths;
  every later module builds on it.
- `ArenaProofs`, reuse of blocks: `OpensOnlyWhenNeeded`. The scan of
  `alloc_slow` is skipped on the strength of one cached block. `ReuseIInv` says
  why that is enough: blocks grow along the chain (`Grown`, which ties the
  chain to `next_block_size`, also when a block was refused or could not be
  listed and the growth state moved alone), so the cached block, always one as
  large as the *last* (`LargestAhead`), is one of the largest;
  `SetCurrentFindsLargest` shows it for the index that is kept and for the one
  that is searched again, at any checkpoint, stale or not. That the search
  finds one, the first of the largest, is well-foundedness (`LeastNat`).
- `PromiseProofs`: `DropsOnLiveMemory`, `ReclaimedAreDropped`, and the
  refinement `ImplementsAbstract`. The invariant `Valid` says of each
  checkpoint that its registry length separates the destructors of regions
  below it from those of regions above (`Separates`), that it is not ahead of
  the cursor, and that it names a place where a region ends (`Reached`):
  without that, two checkpoints could differ and stand for the same snapshot,
  and a rewind to one would have to be shown to keep the other. `Chain` orders
  the checkpoints, so a rewind keeps a checkpoint exactly if its snapshot is
  part of the one returned to. Every action is then shown to be a step of
  `AbstractArena` or a stutter: the snapshots stay what they were under an
  allocation because new memory lies above all of them.
- `TransactionProofs`: every guard's checkpoint stays restorable,
  `NestingDepth` holds, and with transactions regions stay disjoint and well
  placed and the cursor coherent, also when `arena_mut` is used to reset the
  arena under a guard. `TxnIInv` adds to `IInv` the guards' types,
  `NestingDepth` and the bound on the depth that keeps `wrapping_sub` from
  wrapping. Then `DropsOnLiveMemory` for `TxnSpec` and the refinement
  `ImplementsTransactions`: `NestedIInv` adds `PromiseIInv` and `Guarded`, by
  which the checkpoints of the guards are valid and in order with each other
  and with those the caller holds. Since a savepoint's rollback then only
  touches what lies above its parent's checkpoint, the parent's saved state is
  the same after it.
- `CounterProofs`: `StatsCoverLive` and `WithinBudget`. `bytes_allocated` is
  raised by flushes, counted twice by slow paths, and cut down to the count a
  checkpoint carries, so that it covers what is held is not inductive. The
  invariant compares any two places the arena may return to: the bytes handed
  out between them are at most the difference of their counts (`Counted`), for
  checkpoints, guards, and the present state (`Accounted`). A new region lies
  above all places and adds its size to the present count at least
  (`AllocationCounted`, over all paths); a rewind restores one of the places.
  The budget then follows from the count the guard checks: it is at least what
  was handed out since the guard's checkpoint (`HeldSince`).
- `ArenaVecProofs`: `VecTypeOK`, `CapacityIsBacked`, `BufferAtCursor`,
  `NoOverlap`, `WellPlaced` and the action property `MovesOnlyWhenFull` hold of
  `VecSpec`. The invariant adds to the arena's `IInv` that the buffer is a
  region the caller holds and ends at the cursor (`BufferHeld`); it is the
  newest region, so that moving the cursor forward within the block cannot
  reach another one. A growth whose end wraps makes a capacity beyond
  `isize::MAX` bytes, since the block lies in the lower half of the address space
  (`WrappedIsHuge`), and leaves only the part of `IInv` that does not speak of
  the cursor (`CursorlessIInv`); that part is all a rewind or a reset needs to
  establish the whole again, which is why the steps of the arena's proofs for
  the two assume no more.
- `InlineVecProofs`: `TypeOK` and `OneBuffer`, and the refinement
  `ImplementsSequence`: the step of each action is one of `AbstractSequence` or
  a stutter, and `Contents` of the storage is the sequence, across the spill
  and every growth.
- `VecElementsProofs`: `TypeOK`, `ReadsInitialised`, the action property
  `NeverDropsTaken`, the refinement `ImplementsVec`, and `OneOwner`. Since
  slots keep the bits of what was read, that nothing taken is dropped needs two
  facts more: the counted slots hold different elements (`Distinct`), and none
  of those still to be dropped is with the caller (`NotTaken`). `Distinct`
  holds because elements are written once, numbered above all before them,
  behind the last counted slot. The refinement maps each action to one of
  `AbstractVec`: `AddedHeld` for all ways to grow (also when growth by copying
  leaves the slots behind `len` behind), `HeldShorter` and `ElemsOfHeld` for
  removal. `OneOwner` counts; its invariant `OwnerInv` does not: the elements
  made are shared out between vector, destructors, caller and memory, and
  neither sequence repeats one. Each step of `AbstractVec` keeps that
  (`PromiseSharesOut`), so the refinement carries it over to the code.

Proving these changed the model in two places. A call that fails in the slow
path counts bytes without moving the cursor (`finish_slow_path` flushes first),
so a checkpoint taken before it and one taken after name the same place with
different counts. A rewind through `arena_mut` to the earlier one, inside a
guard opened later, gives the guard's own checkpoint a count ahead of the
arena's, and the budget its bytes anew. `ReclaimsTo` therefore treats such a
checkpoint as one from before the guard. And `WithinBudget` speaks of limits
below `usize::MAX`, the value that means no limit and with which the saturating
check never refuses.

Only model-checked: nothing that a passing run states. The five violations are
TLC's, and what is not stated as a property (progress of the loops inside a
call, which are bounded, or ENABLED conditions) is not proved.

## Not modelled

- Vectors of zero-sized elements: they take no memory, and their capacity is a
  number without meaning.
- The `arenavec!` macro, which expands to calls that are modelled.
- The contents of memory outside vectors, and pointers the borrow checker forbids to use.
- What a program does with a vector or an arena after a growth wrapped, but for
  ending the vector and for a rewind or a reset: it is undefined.
- A second arena: a checkpoint passed to the wrong arena.
- Slices of zero-sized elements, which pad the cursor for no bytes.
- Which elements of a slice entry are skipped after one destructor panics, and
  the abort when a destructor panics while another panic unwinds.
- `Display`, `Debug`, `utilization`, `diff` and other read-only reports.

## Plan

Done: every component that keeps state, with abstract specifications of the
arena, transactions, the inline vector and the arena vector; proofs of every
property the passing runs check, the four refinements included. Left, in order
of value:

1. `AbstractVec` on top of `ArenaVec`: one refinement for both sides of the
   vector, memory and elements.
2. `ReclaimedAreDropped` and `StatsCoverLive` for `TxnSpec`, stated by a run and
   proved from `NestedIInv` and `BudgetIInv`.
3. Range entries of the registry with the elements that a panicking destructor
   skips, which would make DropRegistry complete.
