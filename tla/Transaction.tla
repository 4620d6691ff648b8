----------------------------- MODULE Transaction -----------------------------
(***************************************************************************)
(* Transactions over an arena (util/transaction.rs): guards that roll back *)
(* when dropped unless committed, nested savepoints and byte budgets.      *)
(*                                                                         *)
(* A guard borrows the arena, or its parent, exclusively, so only the      *)
(* innermost guard can be used: the open ones are a stack. A guard is held *)
(* by the caller, who ends it as he likes, or lent to the closure of       *)
(* with_transaction or with_transaction_infallible, which end it when the  *)
(* closure has returned or panicked.                                       *)
(***************************************************************************)
EXTENDS Arena

CONSTANTS
  Holders,         \* for whom guards are opened, of AllHolders
  Limits,          \* arguments of set_limit
  Forgets,         \* TRUE: the caller may mem::forget a guard
  MaxTransactions  \* bound: guards open, or forgotten, at a time

\* The caller (transaction, savepoint), or the closure of with_transaction or of
\* with_transaction_infallible.
AllHolders == {"caller", "closure", "infallible"}

\* How a closure ended; "open" while it runs, and for a guard of the caller.
Results == {"open", "ok", "err", "panic"}

ASSUME TransactionAssumption ==
  /\ Holders \subseteq AllHolders
  /\ Limits \subseteq Nat
  /\ Forgets \in BOOLEAN
  /\ MaxTransactions \in Nat /\ MaxTransactions <= USIZE_MAX

VARIABLES
  txns,      \* the open guards, outermost first
  txn_depth  \* Arena::txn_depth

txnVars == <<vars, txns, txn_depth>>

\* A limit of usize::MAX never refuses: the sum in budget_ok saturates there.
NoLimit == USIZE_MAX

TransactionType ==
  [checkpoint : CheckpointType, depth : Nat \ {0}, limit : Nat,
   by : AllHolders, result : Results]

TxnInit ==
  /\ Init
  /\ txns = <<>>
  /\ txn_depth = 0

Top == txns[Len(txns)]
Pop == SubSeq(txns, 1, Len(txns) - 1)

-----------------------------------------------------------------------------
\* No closure has ended whose guard has yet to.
Running == txns # <<>> => Top.result = "open"

\* Transaction::new, for transaction, savepoint and the with_ functions.
Begin(by) ==
  /\ Running
  /\ txn_depth < MaxTransactions
  /\ txn_depth' = txn_depth + 1
  /\ txns' = Append(txns, [checkpoint |-> Here, depth |-> txn_depth + 1,
                           limit |-> NoLimit, by |-> by, result |-> "open"])
  /\ UNCHANGED vars

SetLimit(bytes) ==
  /\ txns # <<>> /\ Running
  /\ txns' = [txns EXCEPT ![Len(txns)].limit = bytes]
  /\ UNCHANGED <<vars, txn_depth>>

\* Mutant: the bytes in the current block are not counted.
BytesUsedFlushed(t) ==
  Larger(bytes_allocated - t.checkpoint.bytes_allocated, 0)

\* bytes_used of guard t, its subtraction saturating.
BytesUsed(t) ==
  Larger(bytes_allocated + cur_ptr - t.checkpoint.bytes_allocated, 0)

BudgetOk(t, additional) ==
  Smaller(BytesUsed(t) + additional, USIZE_MAX) <= t.limit

\* The guard refuses, before it reaches the arena: the alloc methods panic, the
\* try_ methods return None.
OverBudget(q, r) ==
  /\ txns # <<>> /\ Running
  /\ ~BudgetOk(Top, q.size)
  /\ ret' = r
  /\ UNCHANGED <<blocks, cursor, next_block_size, bytes_allocated,
                 bytes_reserved, drop_registry, live, checkpoints,
                 txns, txn_depth>>

WithinLimit(q) ==
  /\ txns # <<>> /\ Running
  /\ BudgetOk(Top, q.size)
  /\ UNCHANGED <<txns, txn_depth>>

TxnAlloc(q)    == OverBudget(q, "panic") \/ (WithinLimit(q) /\ Alloc(q))
TxnTryAlloc(q) == OverBudget(q, "none") \/ (WithinLimit(q) /\ TryAlloc(q))

-----------------------------------------------------------------------------
(* The end of the innermost guard *)

\* The closure that the innermost guard was lent to returns or panics; an
\* infallible one has no error to return.
Return(how) ==
  /\ txns # <<>> /\ Running
  /\ Top.by = "closure" \/ (Top.by = "infallible" /\ how # "err")
  /\ txns' = [txns EXCEPT ![Len(txns)].result = how]
  /\ UNCHANGED <<vars, txn_depth>>

\* Mutant: with_transaction commits also when the closure returns an error.
CommitsErr(t) ==
  \/ t.by = "caller"
  \/ t.by = "closure" /\ t.result \in {"ok", "err"}
  \/ t.by = "infallible" /\ t.result # "open"

\* with_transaction commits on Ok; with_transaction_infallible catches the panic
\* of its closure, commits, and raises it again.
Commits(t) ==
  \/ t.by = "caller"
  \/ t.by = "closure" /\ t.result = "ok"
  \/ t.by = "infallible" /\ t.result # "open"

\* A guard that goes out of scope uncommitted: on Err, or while a panic of the
\* closure unwinds.
RollsBack(t) ==
  \/ t.by = "caller"
  \/ t.by = "closure" /\ t.result \in {"err", "panic"}

\* Mutant: committing does not keep Drop from decrementing too.
CommitThenDrop ==
  /\ txns # <<>> /\ Commits(Top)
  /\ txn_depth' = Larger(txn_depth - 2, 0)
  /\ txns' = Pop
  /\ UNCHANGED vars

\* The depth is decremented with wrapping_sub.
Commit ==
  /\ txns # <<>> /\ Commits(Top)
  /\ txn_depth' = IF txn_depth = 0 THEN USIZE_MAX ELSE txn_depth - 1
  /\ txns' = Pop
  /\ UNCHANGED vars

\* Drop decrements, saturating, before it rewinds.
Leave ==
  /\ txns # <<>> /\ RollsBack(Top)
  /\ txn_depth' = Larger(txn_depth - 1, 0)
  /\ txns' = Pop

\* Mutant: the depth is decremented only once the rewind has returned.
RollbackPanicsBeforeLeave ==
  /\ txns # <<>> /\ RollsBack(Top) /\ Top.result # "panic"
  /\ RewindPanics(Top.checkpoint)
  /\ txn_depth' = txn_depth
  /\ txns' = Pop

Rollback == Leave /\ Rewind(Top.checkpoint)

\* A destructor panics; while the closure's own panic unwinds this aborts.
RollbackPanics ==
  /\ Leave
  /\ Top.result # "panic"
  /\ RewindPanics(Top.checkpoint)

\* mem::forget of a guard one owns: neither Drop nor commit runs.
Forget ==
  /\ Forgets
  /\ txns # <<>> /\ Top.by = "caller"
  /\ txns' = Pop
  /\ UNCHANGED <<vars, txn_depth>>

-----------------------------------------------------------------------------
\* The arena itself, through arena_mut or with no guard open; a caller who
\* keeps to valid checkpoints does not rewind past an open guard's, nor to one
\* taken at the same place before a failed call counted bytes there.
ReclaimsTo(cp) ==
  ~StaleUse => \A k \in 1 .. Len(txns) :
                 /\ NoLater(txns[k].checkpoint, cp)
                 /\ txns[k].checkpoint.bytes_allocated <= cp.bytes_allocated

ReclaimsAll == ~StaleUse => txns = <<>>

ViaArena ==
  /\ Running
  /\ \/ \E q \in Requests : Alloc(q) \/ TryAlloc(q)
     \/ \E r \in live : RegisterDrop(r)
     \/ TakeCheckpoint
     \/ \E cp \in checkpoints : ReclaimsTo(cp) /\ (Rewind(cp) \/ RewindPanics(cp))
     \/ ReclaimsAll /\ (Reset \/ ResetPanics)
  /\ UNCHANGED <<txns, txn_depth>>

TxnNext ==
  \/ \E by \in Holders : Begin(by)
  \/ \E n \in Limits : SetLimit(n)
  \/ \E q \in Requests : TxnAlloc(q) \/ TxnTryAlloc(q)
  \/ \E how \in Results \ {"open"} : Return(how)
  \/ Commit
  \/ Rollback
  \/ RollbackPanics
  \/ Forget
  \/ ViaArena

TxnSpec == TxnInit /\ [][TxnNext]_txnVars

-----------------------------------------------------------------------------
(* Properties *)

\* Every open guard is well-formed, and its checkpoint restorable.
TxnTypeOK ==
  /\ txns \in Seq(TransactionType)
  /\ txn_depth \in Nat
  /\ \A k \in 1 .. Len(txns) : Restorable(txns[k].checkpoint)

\* However guards end, the arena's depth counts the open ones, and a guard's
\* depth its place among them; forgotten guards stay counted, so the
\* decrements never wrap.
NestingDepth ==
  /\ txn_depth >= Len(txns)
  /\ ~Forgets => txn_depth = Len(txns)
  /\ \A k \in 1 .. Len(txns) :
       /\ k <= txns[k].depth /\ txns[k].depth <= txn_depth
       /\ ~Forgets => txns[k].depth = k
       /\ \A j \in 1 .. k - 1 : txns[j].depth < txns[k].depth

\* The regions the caller holds that were handed out since checkpoint t.
HeldSince(t) == {r \in live : ~Below(r, t.block_idx, t.offset)}

\* set_limit imposes a byte cap: no allocation method of a guard brings what the
\* caller holds of the guard's allocations above its limit, whatever was rewound,
\* committed by savepoints or charged for nothing in between.
WithinBudget ==
  [][\A q \in Requests :
       /\ TxnAlloc(q) \/ TxnTryAlloc(q)
       /\ live' # live
       /\ Top.limit < NoLimit
       => Cardinality(Footprint(HeldSince(Top.checkpoint)')) <= Top.limit]_txnVars

\* What the promise says of guard t.
SavedBy(t) ==
  LET s == SnapshotOf(t.checkpoint)
  IN  [live |-> s.live, owed |-> s.owed, by |-> t.by, result |-> t.result]

\* Transactions implement their promise: a rollback returns to the regions and
\* owed destructors of the state the guard was opened in, whatever was
\* allocated, committed by savepoints or rewound inside; and a closure's guard
\* commits or rolls back as its result demands.
AbsTxn == INSTANCE AbstractTransaction WITH
            Region <- RegionType,
            owed <- drop_registry,
            snapshots <- {SnapshotOf(c) : c \in checkpoints},
            outcome <- ret,
            saved <- [k \in 1 .. Len(txns) |-> SavedBy(txns[k])]

ImplementsTransactions == AbsTxn!TxnSpec
=============================================================================
