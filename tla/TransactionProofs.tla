-------------------------- MODULE TransactionProofs --------------------------
(***************************************************************************)
(* Memory safety and depth accounting under transactions, for every value  *)
(* of the constants: for any nesting, for guards that are forgotten, and   *)
(* for guards whose checkpoint was invalidated through arena_mut. Then,    *)
(* for callers that do not invalidate it, ownership of destructors and the *)
(* refinement of AbstractTransaction.                                      *)
(***************************************************************************)
EXTENDS Transaction, PromiseProofs

\* The inductive invariant: the arena's, and what each guard needs of it to be
\* rolled back.
TxnIInv ==
  /\ IInv
  /\ TxnTypeOK
  /\ NestingDepth
  /\ txn_depth <= MaxTransactions

-----------------------------------------------------------------------------
\* A step of the arena that keeps its invariant keeps that of the open guards.
LEMMA ArenaStep ==
  ASSUME TxnIInv, IInv', BlocksKept, UNCHANGED <<txns, txn_depth>>
  PROVE  TxnIInv'
<1>1. Len(blocks') \in Nat
  BY LenProperties DEF IInv, TypeOK
<1>2. \A k \in 1 .. Len(txns) : txns[k] \in TransactionType
  BY ElementOfSeq DEF TxnIInv, TxnTypeOK
<1>3. \A k \in 1 .. Len(txns) : /\ txns[k].checkpoint \in CheckpointType
                                /\ Restorable(txns[k].checkpoint)
  BY <1>2 DEF TxnIInv, TxnTypeOK, TransactionType
<1>4. \A c \in CheckpointType : Restorable(c) => Restorable(c)'
  BY <1>1, RestorableKept, PartOfIInv DEF TxnIInv, IInv
<1>5. \A k \in 1 .. Len(txns) : Restorable(txns[k].checkpoint)'
  BY <1>3, <1>4 DEF Restorable
<1>6. TxnTypeOK'
  BY <1>5 DEF TxnIInv, TxnTypeOK
<1>7. NestingDepth' /\ txn_depth' <= MaxTransactions
  BY DEF TxnIInv, NestingDepth
<1> QED
  BY <1>6, <1>7 DEF TxnIInv

\* The innermost guard is one of the open guards.
LEMMA TopTyped ==
  ASSUME TxnIInv, txns # <<>>
  PROVE  Top \in TransactionType /\ Restorable(Top.checkpoint)
<1>1. txns \in Seq(TransactionType) /\ Len(txns) \in Nat /\ Len(txns) # 0
  BY LenProperties, EmptySeq DEF TxnIInv, TxnTypeOK
<1>2. Len(txns) \in 1 .. Len(txns)
  BY <1>1
<1> QED
  BY <1>1, <1>2, ElementOfSeq DEF Top, TxnIInv, TxnTypeOK

\* A guard opens one level deeper than every open one.
LEMMA BeginStep ==
  ASSUME TxnIInv, NEW by \in Holders, Begin(by)
  PROVE  TxnIInv'
<1> DEFINE t == [checkpoint |-> Here, depth |-> txn_depth + 1, limit |-> NoLimit,
                 by |-> by, result |-> "open"]
           n == Len(txns)
<1>1. /\ txns' = Append(txns, t) /\ txn_depth' = txn_depth + 1
      /\ txn_depth < MaxTransactions /\ UNCHANGED vars
  BY DEF Begin
<1>2. /\ txns \in Seq(TransactionType) /\ n \in Nat /\ txn_depth \in Nat
      /\ MaxTransactions \in Nat /\ n <= txn_depth
  BY LenProperties, TransactionAssumption DEF TxnIInv, TxnTypeOK, NestingDepth
<1>3. t \in TransactionType /\ Restorable(t.checkpoint) /\ t.depth = txn_depth + 1
  BY <1>2, HereRestorable, BlockAssumption, TransactionAssumption
     DEF TxnIInv, TransactionType, NoLimit, Results
<1> HIDE DEF t
<1>4. /\ txns' \in Seq(TransactionType) /\ Len(txns') = n + 1
      /\ txns'[n + 1] = t /\ \A k \in 1 .. n : txns'[k] = txns[k]
  BY <1>1, <1>2, <1>3, AppendProperties
<1> HIDE DEF n
<1>5. IInv' /\ blocks' = blocks
  BY <1>1, UnmovedStep DEF vars, TxnIInv, IInv, TypeOK
<1>6. \A k \in 1 .. n + 1 : Restorable(txns'[k].checkpoint)
  BY <1>2, <1>3, <1>4 DEF TxnIInv, TxnTypeOK, n
<1>7. TxnTypeOK'
  BY <1>1, <1>2, <1>4, <1>5, <1>6 DEF TxnTypeOK, Restorable
<1>8. NestingDepth'
  <2>1. \A k \in 1 .. n : /\ txns[k].depth \in Nat
                          /\ k <= txns[k].depth /\ txns[k].depth <= txn_depth
                          /\ ~Forgets => txns[k].depth = k
                          /\ \A j \in 1 .. k - 1 : txns[j].depth < txns[k].depth
    <3>1. \A k \in 1 .. n : txns[k] \in TransactionType
      BY <1>2, ElementOfSeq DEF n
    <3> QED
      BY <3>1 DEF TxnIInv, NestingDepth, TransactionType, n
  <2>2. ~Forgets => txn_depth = n
    BY DEF TxnIInv, NestingDepth, n
  <2> QED
    BY <2>1, <2>2, <1>1, <1>2, <1>3, <1>4 DEF NestingDepth
<1>9. txn_depth' <= MaxTransactions
  BY <1>1, <1>2
<1> QED
  BY <1>5, <1>7, <1>8, <1>9 DEF TxnIInv

\* Replacing the innermost guard by one with its depth and checkpoint changes
\* neither of any guard.
LEMMA TopReplaced ==
  ASSUME TxnIInv, txns # <<>>, NEW t \in TransactionType,
         t.depth = Top.depth, t.checkpoint = Top.checkpoint,
         txns' = [txns EXCEPT ![Len(txns)] = t]
  PROVE  /\ txns' \in Seq(TransactionType) /\ Len(txns') = Len(txns)
         /\ Len(txns) \in Nat \ {0}
         /\ \A k \in 1 .. Len(txns) :
              /\ txns'[k] = IF k = Len(txns) THEN t ELSE txns[k]
              /\ txns'[k].depth = txns[k].depth
              /\ txns'[k].checkpoint = txns[k].checkpoint
<1> DEFINE n == Len(txns)
<1>1. txns \in Seq(TransactionType) /\ n \in Nat /\ n # 0 /\ n \in 1 .. n
  BY LenProperties, EmptySeq DEF TxnIInv, TxnTypeOK
<1>2. /\ txns' \in Seq(TransactionType) /\ Len(txns') = n
      /\ \A k \in 1 .. n : txns'[k] = IF k = n THEN t ELSE txns[k]
  BY <1>1, ExceptSeq
<1> QED
  BY <1>1, <1>2 DEF Top

\* Setting a limit, and the end of a closure, replace the innermost guard so.
LEMMA SetLimitKeeps ==
  ASSUME TxnIInv, NEW bytes \in Limits, SetLimit(bytes)
  PROVE  /\ txns' \in Seq(TransactionType) /\ Len(txns') = Len(txns)
         /\ Len(txns) \in Nat \ {0}
         /\ \A k \in 1 .. Len(txns) : /\ txns'[k].depth = txns[k].depth
                                     /\ txns'[k].checkpoint = txns[k].checkpoint
                                     /\ txns'[k].by = txns[k].by
                                     /\ txns'[k].result = txns[k].result
<1> DEFINE t == [Top EXCEPT !.limit = bytes]
<1>1. txns # <<>> /\ txns' = [txns EXCEPT ![Len(txns)] = t]
  BY DEF SetLimit, Top
<1>2. Top \in TransactionType /\ bytes \in Nat
  BY <1>1, TopTyped, TransactionAssumption
<1>3. /\ t \in TransactionType /\ t.depth = Top.depth
      /\ t.checkpoint = Top.checkpoint /\ t.by = Top.by /\ t.result = Top.result
  BY <1>2 DEF TransactionType
<1> HIDE DEF t
<1>4. /\ txns' \in Seq(TransactionType) /\ Len(txns') = Len(txns)
      /\ Len(txns) \in Nat \ {0}
      /\ \A k \in 1 .. Len(txns) :
           /\ txns'[k] = IF k = Len(txns) THEN t ELSE txns[k]
           /\ txns'[k].depth = txns[k].depth
           /\ txns'[k].checkpoint = txns[k].checkpoint
  BY <1>1, <1>3, TopReplaced
<1> QED
  BY <1>3, <1>4 DEF Top

LEMMA ReturnKeeps ==
  ASSUME TxnIInv, NEW how \in Results, Return(how)
  PROVE  /\ txns' \in Seq(TransactionType) /\ Len(txns') = Len(txns)
         /\ Len(txns) \in Nat \ {0}
         /\ \A k \in 1 .. Len(txns) :
              /\ txns'[k].depth = txns[k].depth
              /\ txns'[k].checkpoint = txns[k].checkpoint
              /\ txns'[k].by = txns[k].by
              /\ txns'[k].limit = txns[k].limit
              /\ txns'[k].result = IF k = Len(txns) THEN how ELSE txns[k].result
<1> DEFINE t == [Top EXCEPT !.result = how]
<1>1. txns # <<>> /\ txns' = [txns EXCEPT ![Len(txns)] = t]
  BY DEF Return, Top
<1>2. Top \in TransactionType
  BY <1>1, TopTyped
<1>3. /\ t \in TransactionType /\ t.depth = Top.depth /\ t.limit = Top.limit
      /\ t.checkpoint = Top.checkpoint /\ t.by = Top.by /\ t.result = how
  BY <1>2 DEF TransactionType
<1> HIDE DEF t
<1>4. /\ txns' \in Seq(TransactionType) /\ Len(txns') = Len(txns)
      /\ Len(txns) \in Nat \ {0}
      /\ \A k \in 1 .. Len(txns) :
           /\ txns'[k] = IF k = Len(txns) THEN t ELSE txns[k]
           /\ txns'[k].depth = txns[k].depth
           /\ txns'[k].checkpoint = txns[k].checkpoint
  BY <1>1, <1>3, TopReplaced
<1> QED
  BY <1>3, <1>4 DEF Top

\* So they keep the invariant.
LEMMA MarkTopStep ==
  ASSUME TxnIInv,
         (\E bytes \in Limits : SetLimit(bytes)) \/ (\E how \in Results : Return(how))
  PROVE  TxnIInv'
<1>1. /\ txns' \in Seq(TransactionType) /\ Len(txns') = Len(txns)
      /\ Len(txns) \in Nat
      /\ \A k \in 1 .. Len(txns) : /\ txns'[k].depth = txns[k].depth
                                  /\ txns'[k].checkpoint = txns[k].checkpoint
  BY SetLimitKeeps, ReturnKeeps
<1>2. UNCHANGED <<vars, txn_depth>>
  BY DEF SetLimit, Return
<1>3. IInv' /\ blocks' = blocks /\ txn_depth' = txn_depth
  BY <1>2, UnmovedStep DEF vars, TxnIInv, IInv, TypeOK
<1>4. TxnTypeOK'
  BY <1>1, <1>3 DEF TxnIInv, TxnTypeOK, Restorable
<1>5. NestingDepth'
  BY <1>1, <1>3 DEF TxnIInv, NestingDepth
<1> QED
  BY <1>3, <1>4, <1>5 DEF TxnIInv

\* The guards around the innermost one when it goes.
LEMMA PopKeeps ==
  ASSUME txns \in Seq(TransactionType), txns # <<>>, txns' = Pop
  PROVE  /\ Len(txns) \in Nat \ {0}
         /\ txns' \in Seq(TransactionType) /\ Len(txns') = Len(txns) - 1
         /\ \A k \in 1 .. Len(txns) - 1 : k \in 1 .. Len(txns) /\ txns'[k] = txns[k]
<1> DEFINE n == Len(txns)
           m == n - 1
<1>1. n \in Nat /\ n # 0
  BY LenProperties, EmptySeq
<1>2. m \in Nat /\ \A k \in 1 .. m : k \in 1 .. n
  BY <1>1
<1>3. \A k \in 1 .. m : txns[k] \in TransactionType
  BY <1>2, ElementOfSeq
<1>4. txns' = SubSeq(txns, 1, m)
  BY DEF Pop
<1> HIDE DEF m
<1>5. /\ txns' \in Seq(TransactionType) /\ Len(txns') = m
      /\ \A k \in 1 .. m : txns'[k] = txns[k]
  BY <1>2, <1>3, <1>4, SubSeqProperties
<1> QED
  BY <1>1, <1>2, <1>5 DEF m

\* However it ends, the guards around the innermost one are left as they were.
LEMMA PopStep ==
  ASSUME TxnIInv, txns # <<>>, IInv', BlocksKept, txns' = Pop,
         \/ txn_depth' = txn_depth - 1
         \/ txn_depth' = txn_depth /\ Forgets
  PROVE  TxnIInv'
<1> DEFINE n == Len(txns)
<1>1. /\ txns \in Seq(TransactionType) /\ n \in Nat /\ n \in 1 .. n
      /\ txn_depth \in Nat /\ n <= txn_depth /\ Len(blocks') \in Nat
      /\ MaxTransactions \in Nat /\ txn_depth <= MaxTransactions
  <2>1. txns \in Seq(TransactionType) /\ txn_depth \in Nat /\ n <= txn_depth
    BY DEF TxnIInv, TxnTypeOK, NestingDepth
  <2>2. n \in Nat /\ n # 0
    BY <2>1, LenProperties, EmptySeq
  <2>3. Len(blocks') \in Nat
    BY LenProperties DEF IInv, TypeOK
  <2>4. MaxTransactions \in Nat /\ txn_depth <= MaxTransactions
    BY TransactionAssumption DEF TxnIInv
  <2> QED
    BY <2>1, <2>2, <2>3, <2>4
<1>2. \A k \in 1 .. n : txns[k] \in TransactionType
  BY <1>1, ElementOfSeq
<1>3. /\ txns' \in Seq(TransactionType) /\ Len(txns') = n - 1
      /\ \A k \in 1 .. n - 1 : txns'[k] = txns[k]
  BY <1>1, PopKeeps
<1>4. \A c \in CheckpointType : Restorable(c) => Restorable(c)'
  BY <1>1, RestorableKept, PartOfIInv DEF TxnIInv, IInv
<1>5. \A k \in 1 .. n - 1 : Restorable(txns[k].checkpoint)'
  <2> TAKE k \in 1 .. n - 1
  <2>1. txns[k].checkpoint \in CheckpointType /\ Restorable(txns[k].checkpoint)
    BY <1>1, <1>2 DEF TxnIInv, TxnTypeOK, TransactionType
  <2>2. txns'[k] = txns[k]
    BY <1>3
  <2> QED
    BY <2>1, <2>2, <1>4 DEF Restorable
<1>6. txn_depth' \in Nat /\ txn_depth' <= MaxTransactions
  BY <1>1
<1>7. TxnTypeOK'
  BY <1>3, <1>5, <1>6 DEF TxnTypeOK, Restorable
<1>8. NestingDepth'
  <2>1. \A k \in 1 .. n : /\ txns[k].depth \in Nat
                          /\ k <= txns[k].depth /\ txns[k].depth <= txn_depth
                          /\ ~Forgets => txns[k].depth = k
                          /\ \A j \in 1 .. k - 1 : txns[j].depth < txns[k].depth
    <3>1. \A k \in 1 .. n : txns[k].depth \in Nat
      BY <1>2 DEF TransactionType
    <3> QED
      BY <3>1 DEF TxnIInv, NestingDepth
  <2>2. ~Forgets => txn_depth = n
    BY DEF TxnIInv, NestingDepth
  <2>3. \A k \in 1 .. n - 1 : txns[k].depth <= txn_depth'
    BY <2>1, <1>1
  <2> QED
    <3> HIDE DEF n
    <3>1. txn_depth' >= n - 1 /\ (~Forgets => txn_depth' = n - 1)
      BY <2>2, <1>1
    <3>2. ASSUME NEW k \in 1 .. n - 1
          PROVE  /\ k <= txns'[k].depth /\ txns'[k].depth <= txn_depth'
                 /\ ~Forgets => txns'[k].depth = k
                 /\ \A j \in 1 .. k - 1 : txns'[j].depth < txns'[k].depth
      <4>1. \A j \in 1 .. k : j \in 1 .. n /\ txns'[j] = txns[j]
        BY <1>1, <1>3
      <4>2. k \in 1 .. k /\ 1 .. k - 1 \subseteq 1 .. k
        BY <1>1
      <4> QED
        BY <4>1, <4>2, <2>1, <2>3
    <3> QED
      BY <3>1, <3>2, <1>3 DEF NestingDepth
<1> QED
  BY <1>6, <1>7, <1>8 DEF TxnIInv

\* Committing, and forgetting, pop the guard and leave the arena alone.
LEMMA KeepStep ==
  ASSUME TxnIInv, Commit \/ Forget
  PROVE  TxnIInv'
<1>1. /\ txns # <<>> /\ txns' = Pop /\ UNCHANGED vars
  BY DEF Commit, Forget
<1>2. IInv' /\ BlocksKept
  BY <1>1, UnmovedStep DEF vars, TxnIInv, IInv, TypeOK
<1>3. txn_depth \in Nat /\ txn_depth # 0
  <2>1. Len(txns) \in Nat /\ Len(txns) # 0
    BY <1>1, LenProperties, EmptySeq DEF TxnIInv, TxnTypeOK
  <2> QED
    BY <2>1 DEF TxnIInv, TxnTypeOK, NestingDepth
<1>4. \/ txn_depth' = txn_depth - 1
      \/ txn_depth' = txn_depth /\ Forgets
  BY <1>3 DEF Commit, Forget
<1> QED
  BY <1>1, <1>2, <1>4, PopStep

\* Dropping a guard rewinds to its checkpoint, unless a destructor panics.
LEMMA RollbackStep ==
  ASSUME TxnIInv, Rollback \/ RollbackPanics
  PROVE  TxnIInv'
<1>1. /\ txns # <<>> /\ txns' = Pop /\ txn_depth' = Larger(txn_depth - 1, 0)
      /\ Rewind(Top.checkpoint) \/ RewindPanics(Top.checkpoint)
  BY DEF Rollback, RollbackPanics, Leave
<1>2. Len(txns) \in Nat /\ Len(txns) # 0 /\ txns \in Seq(TransactionType)
  BY <1>1, LenProperties, EmptySeq DEF TxnIInv, TxnTypeOK
<1>3. Top.checkpoint \in CheckpointType /\ Restorable(Top.checkpoint)
  BY <1>1, TopTyped DEF TransactionType
<1>4. IInv' /\ BlocksKept
  <2>1. CASE Rewind(Top.checkpoint)
    BY <2>1, <1>3, RewindStep, PartOfIInv DEF TxnIInv
  <2>2. CASE RewindPanics(Top.checkpoint)
    <3> DEFINE valid == {c \in checkpoints : NoLater(c, Top.checkpoint)}
    <3>1. DropPanics(Top.checkpoint.drop_registry_len, valid)
      BY <2>2 DEF RewindPanics
    <3>2. Top.checkpoint.drop_registry_len \in Nat /\ valid \subseteq checkpoints
      BY <1>3 DEF CheckpointType
    <3> HIDE DEF valid
    <3> QED
      BY <3>1, <3>2, DropPanicsStep DEF TxnIInv
  <2> QED
    BY <2>1, <2>2, <1>1
<1>5. txn_depth' = txn_depth - 1
  BY <1>1, <1>2 DEF TxnIInv, TxnTypeOK, NestingDepth, Larger
<1> QED
  BY <1>1, <1>4, <1>5, PopStep

\* An allocation through a guard either is refused or is the arena's.
LEMMA TxnAllocStep ==
  ASSUME TxnIInv, NEW q \in Requests, TxnAlloc(q) \/ TxnTryAlloc(q)
  PROVE  TxnIInv'
<1>1. CASE \E r \in {"none", "panic"} : OverBudget(q, r)
  <2>1. /\ UNCHANGED <<blocks, cursor, live, checkpoints, txns, txn_depth>>
        /\ UNCHANGED <<next_block_size, bytes_allocated, bytes_reserved,
                       drop_registry>>
        /\ ret' \in {"ok", "none", "panic"}
    BY <1>1 DEF OverBudget
  <2>2. IInv' /\ BlocksKept
    BY <2>1, UnmovedStep DEF TxnIInv, IInv, TypeOK
  <2> QED
    BY <2>1, <2>2, ArenaStep
<1>2. CASE WithinLimit(q) /\ (Alloc(q) \/ TryAlloc(q))
  BY <1>2, ArenaAssumption, AllocStep, ArenaStep DEF WithinLimit, TxnIInv
<1> QED
  BY <1>1, <1>2 DEF TxnAlloc, TxnTryAlloc

\* Whatever is done to the arena directly keeps the guards' invariant.
LEMMA ViaArenaStep ==
  ASSUME TxnIInv, ViaArena
  PROVE  TxnIInv'
<1>1. Next /\ UNCHANGED <<txns, txn_depth>>
  BY DEF ViaArena, Next
<1>2. IInv' /\ BlocksKept
  BY <1>1, NextIInv DEF TxnIInv
<1> QED
  BY <1>1, <1>2, ArenaStep

-----------------------------------------------------------------------------
\* Opening, ending or using guards keeps the invariant.
LEMMA TxnNextStep ==
  ASSUME TxnIInv, [TxnNext]_txnVars
  PROVE  TxnIInv'
<1>1. CASE \E by \in Holders : Begin(by)
  BY <1>1, BeginStep
<1>2. CASE (\E n \in Limits : SetLimit(n)) \/ (\E how \in Results \ {"open"} : Return(how))
  BY <1>2, MarkTopStep
<1>3. CASE \E q \in Requests : TxnAlloc(q) \/ TxnTryAlloc(q)
  BY <1>3, TxnAllocStep
<1>4. CASE Commit \/ Forget
  BY <1>4, KeepStep
<1>5. CASE Rollback \/ RollbackPanics
  BY <1>5, RollbackStep
<1>6. CASE ViaArena
  BY <1>6, ViaArenaStep
<1>7. CASE UNCHANGED txnVars
  <2>1. UNCHANGED vars /\ UNCHANGED <<txns, txn_depth>>
    BY <1>7 DEF txnVars
  <2>2. IInv' /\ BlocksKept
    BY <2>1, NextIInv DEF TxnIInv
  <2> QED
    BY <2>1, <2>2, ArenaStep
<1> QED
  BY <1>1, <1>2, <1>3, <1>4, <1>5, <1>6, <1>7 DEF TxnNext

\* The invariant holds in every reachable state.
LEMMA TxnInductive ==
  TxnSpec => []TxnIInv
<1>1. TxnInit => TxnIInv
  <2> SUFFICES ASSUME TxnInit PROVE TxnIInv
    OBVIOUS
  <2>1. IInv /\ txns = <<>> /\ txn_depth = 0
    BY InitIInv DEF TxnInit
  <2> QED
    BY <2>1, TransactionAssumption DEF TxnIInv, TxnTypeOK, NestingDepth
<1>2. TxnIInv /\ [TxnNext]_txnVars => TxnIInv'
  BY TxnNextStep
<1> QED
  BY <1>1, <1>2, PTL DEF TxnSpec

\* Every open guard can be rolled back: its checkpoint passes rewind's index
\* assertion, whatever happened to the arena since.
THEOREM GuardsRestorable ==
  TxnSpec => []TxnTypeOK
<1>1. TxnIInv => TxnTypeOK
  BY DEF TxnIInv
<1> QED
  BY <1>1, TxnInductive, PTL

\* The arena's depth counts the open guards and no decrement wraps.
THEOREM DepthCountsGuards ==
  TxnSpec => []NestingDepth
<1>1. TxnIInv => NestingDepth
  BY DEF TxnIInv
<1> QED
  BY <1>1, TxnInductive, PTL

\* Under any nesting, commit and rollback of transactions, the regions a caller
\* still holds share no byte and lie in their blocks, and the cached cursor
\* describes the current block.
THEOREM TransactionsKeepMemorySafe ==
  TxnSpec => [](NoOverlap /\ WellPlaced /\ CursorCoherent)
<1>1. TxnIInv => NoOverlap /\ WellPlaced /\ CursorCoherent
  BY DEF TxnIInv, IInv
<1> QED
  BY <1>1, TxnInductive, PTL

-----------------------------------------------------------------------------
(* Guards whose checkpoints stay valid, and the refinement *)

\* Every open guard's checkpoint is valid and in order with the caller's, and
\* an outer guard's was taken no later than an inner one's.
Guarded ==
  /\ \A k \in 1 .. Len(txns) :
       /\ Valid(txns[k].checkpoint)
       /\ \A c \in checkpoints : \/ NoLater(c, txns[k].checkpoint)
                                \/ NoLater(txns[k].checkpoint, c)
  /\ \A k, j \in 1 .. Len(txns) :
       k <= j => NoLater(txns[k].checkpoint, txns[j].checkpoint)

\* The inductive invariant when every rewind is to a valid checkpoint.
NestedIInv == TxnIInv /\ PromiseIInv /\ Guarded

\* A step of the arena after which the checkpoints held are those before, or
\* one more taken here, keeps the guards in order.
LEMMA GuardedAdvance ==
  ASSUME NestedIInv, Sound', BlocksKept, Advances, UNCHANGED txns,
         checkpoints' \subseteq checkpoints \cup {Here}
  PROVE  Guarded'
<1>1. \A k \in 1 .. Len(txns) : Valid(txns[k].checkpoint)'
  <2> TAKE k \in 1 .. Len(txns)
  <2> DEFINE c == txns[k].checkpoint
  <2>1. Valid(c) /\ c' = c
    BY DEF NestedIInv, Guarded
  <2>2. \A d : Valid(d) => Valid(d)'
    BY AdvanceKeepsValid DEF NestedIInv, PromiseIInv, Sound
  <2> QED
    BY <2>1, <2>2 DEF Valid, Restorable, Separates, Reached, NoLater
<1>2. \A k \in 1 .. Len(txns) : NoLater(txns[k].checkpoint, Here)
  BY DEF NestedIInv, Guarded, Valid
<1> QED
  BY <1>1, <1>2 DEF NestedIInv, Guarded, NoLater

\* The guards around the innermost one, when it goes and the arena stays.
LEMMA GuardedPop ==
  ASSUME NestedIInv, txns # <<>>, txns' = Pop,
         checkpoints' \subseteq checkpoints,
         \A c : Valid(c) /\ NoLater(c, Top.checkpoint) => Valid(c)'
  PROVE  Guarded'
<1> DEFINE n == Len(txns)
<1>1. txns \in Seq(TransactionType) /\ n \in Nat /\ n # 0
  BY LenProperties, EmptySeq DEF NestedIInv, TxnIInv, TxnTypeOK
<1>2. Len(txns') = n - 1 /\ \A k \in 1 .. n - 1 : k \in 1 .. n /\ txns'[k] = txns[k]
  BY <1>1, PopKeeps
<1>3. \A k \in 1 .. n : NoLater(txns[k].checkpoint, Top.checkpoint)
  BY <1>1 DEF NestedIInv, Guarded, Top
<1>4. \A k \in 1 .. n : Valid(txns[k].checkpoint)
  BY DEF NestedIInv, Guarded
<1>5. \A k \in 1 .. n - 1 : Valid(txns[k].checkpoint)'
  <2> TAKE k \in 1 .. n - 1
  <2> DEFINE c == txns[k].checkpoint
  <2>1. k \in 1 .. n /\ txns'[k].checkpoint = c
    BY <1>2
  <2>2. \A d : Valid(d) /\ NoLater(d, Top.checkpoint) => Valid(d)'
    OBVIOUS
  <2>3. Valid(c) /\ NoLater(c, Top.checkpoint)
    BY <1>3, <1>4, <2>1
  <2>4. \A d : d = c => Valid(d)'
    BY <2>2, <2>3
  <2> QED
    BY <2>1, <2>4 DEF Valid, Restorable, Separates, Reached, NoLater
<1>6. \A k \in 1 .. n - 1, c \in checkpoints' :
        NoLater(c, txns'[k].checkpoint) \/ NoLater(txns'[k].checkpoint, c)
  BY <1>2 DEF NestedIInv, Guarded
<1>7. \A k, j \in 1 .. n - 1 :
        k <= j => NoLater(txns'[k].checkpoint, txns'[j].checkpoint)
  BY <1>2 DEF NestedIInv, Guarded
<1> HIDE DEF n
<1> QED
  BY <1>2, <1>5, <1>6, <1>7 DEF Guarded, NoLater

\* A new guard's checkpoint is taken here, after every other.
LEMMA GuardedBegin ==
  ASSUME NestedIInv, NEW by \in Holders, Begin(by)
  PROVE  Guarded'
<1> DEFINE n == Len(txns)
           t == [checkpoint |-> Here, depth |-> txn_depth + 1, limit |-> NoLimit,
                 by |-> by, result |-> "open"]
<1>1. /\ txns' = Append(txns, t) /\ UNCHANGED vars
      /\ txns \in Seq(TransactionType) /\ n \in Nat
  BY LenProperties DEF Begin, NestedIInv, TxnIInv, TxnTypeOK
<1>2. UNCHANGED <<blocks, current, cur_ptr, bytes_allocated, drop_registry, live,
                  checkpoints>>
  BY <1>1 DEF vars, cursor
<1>3. /\ Len(txns') = n + 1 /\ txns'[n + 1].checkpoint = Here
      /\ \A k \in 1 .. n : txns'[k] = txns[k]
  BY <1>1, AppendProperties
<1>4. Valid(Here) /\ \A c : Valid(c) => NoLater(c, Here)
  BY HereValid DEF NestedIInv, PromiseIInv, Valid
<1> HIDE DEF n, t
<1>5. \A k \in 1 .. n + 1 : k \in 1 .. n \/ k = n + 1
  BY <1>1
<1>6. \A k \in 1 .. n + 1 : Valid(txns'[k].checkpoint)
  BY <1>3, <1>4, <1>5 DEF NestedIInv, Guarded, n
<1>7. \A k \in 1 .. n + 1 : Valid(txns[k].checkpoint)'
  BY <1>2, <1>6 DEF Valid, Restorable, Separates, Reached, NoLater, Here
<1>8. \A k \in 1 .. n + 1, c \in checkpoints :
        NoLater(c, txns'[k].checkpoint) \/ NoLater(txns'[k].checkpoint, c)
  BY <1>3, <1>4, <1>5 DEF NestedIInv, PromiseIInv, Guarded, n
<1>9. \A k, j \in 1 .. n + 1 :
        k <= j => NoLater(txns'[k].checkpoint, txns'[j].checkpoint)
  <2>1. \A k \in 1 .. n : ~(n + 1 <= k)
    BY <1>1
  <2>2. \A k \in 1 .. n + 1 : NoLater(txns'[k].checkpoint, Here)
    BY <1>4, <1>6
  <2> QED
    BY <2>1, <2>2, <1>3, <1>5 DEF NestedIInv, Guarded, n
<1> QED
  BY <1>2, <1>3, <1>7, <1>8, <1>9 DEF Guarded, NoLater

\* The step of the arena inside a call that leaves the guards alone, be it
\* through a guard or directly: PromiseIInv and the guards' order are kept.
LEMMA NestedArenaStep ==
  ASSUME ~StaleUse, NestedIInv, UNCHANGED txns,
         \/ \E q \in Requests : Alloc(q) \/ TryAlloc(q)
         \/ \E r \in live : RegisterDrop(r)
         \/ TakeCheckpoint
         \/ \E cp \in checkpoints : ReclaimsTo(cp) /\ (Rewind(cp) \/ RewindPanics(cp))
         \/ ReclaimsAll /\ (Reset \/ ResetPanics)
  PROVE  PromiseIInv' /\ Guarded'
<1>1. CASE \E q \in Requests : Alloc(q) \/ TryAlloc(q)
  <2>1. PICK q \in RequestType : Alloc(q) \/ TryAlloc(q)
    BY <1>1, ArenaAssumption
  <2>2. Sound' /\ BlocksKept /\ Advances /\ checkpoints' = checkpoints
    BY <2>1, AllocSoundStep, AllocHandsOut DEF NestedIInv, PromiseIInv, Sound
  <2> QED
    BY <2>2, AdvancePromiseStep, GuardedAdvance DEF NestedIInv
<1>2. CASE \E r \in live : RegisterDrop(r)
  <2>1. PICK r \in live : RegisterDrop(r)
    BY <1>2
  <2>2. Sound' /\ BlocksKept /\ Advances
    BY <2>1, RegisterSoundStep DEF NestedIInv, PromiseIInv
  <2>3. checkpoints' = checkpoints
    BY <2>1 DEF RegisterDrop
  <2> QED
    BY <2>2, <2>3, AdvancePromiseStep, GuardedAdvance DEF NestedIInv
<1>3. CASE TakeCheckpoint
  <2>1. Sound' /\ BlocksKept /\ Advances
    BY <1>3, TakeCheckpointSoundStep DEF NestedIInv, PromiseIInv
  <2>2. checkpoints' \subseteq checkpoints \cup {Here}
    BY <1>3 DEF TakeCheckpoint
  <2> QED
    BY <1>3, <2>1, <2>2, TakeCheckpointPromiseStep, GuardedAdvance DEF NestedIInv
<1>4. CASE \E cp \in checkpoints : ReclaimsTo(cp) /\ (Rewind(cp) \/ RewindPanics(cp))
  <2>1. PICK cp \in checkpoints : ReclaimsTo(cp) /\ (Rewind(cp) \/ RewindPanics(cp))
    BY <1>4
  <2>2. Valid(cp) /\ Sound
    BY DEF NestedIInv, PromiseIInv
  <2>3. PromiseIInv'
    BY <2>1, <2>2, RewindPromiseStep DEF NestedIInv
  <2>4. checkpoints' \subseteq checkpoints
    BY <2>1 DEF Rewind, RewindPanics, DropPanics, Keep
  <2>5. \A k \in 1 .. Len(txns) : NoLater(txns[k].checkpoint, cp)
    BY <2>1 DEF ReclaimsTo
  <2>6. \A c : Valid(c) /\ NoLater(c, cp) => Valid(c)'
    BY <2>1, <2>2, RewindKeepsValid
  <2>7. \A k \in 1 .. Len(txns) : Valid(txns[k].checkpoint)'
    <3> TAKE k \in 1 .. Len(txns)
    <3> DEFINE c == txns[k].checkpoint
    <3>1. Valid(c) /\ NoLater(c, cp)
      BY <2>5 DEF NestedIInv, Guarded
    <3>2. \A d : d = c => Valid(d)'
      BY <2>6, <3>1
    <3> QED
      BY <3>2 DEF Valid, Restorable, Separates, Reached, NoLater
  <2> QED
    BY <2>3, <2>4, <2>7 DEF NestedIInv, Guarded, NoLater
<1>5. CASE ReclaimsAll /\ (Reset \/ ResetPanics)
  <2>1. txns = <<>>
    BY <1>5 DEF ReclaimsAll
  <2>2. Len(txns') = 0
    BY <2>1
  <2> QED
    BY <1>5, <2>2, ResetPromiseStep DEF NestedIInv, Guarded
<1> QED
  BY <1>1, <1>2, <1>3, <1>4, <1>5

\* Rolling back rewinds to a valid checkpoint, which every outer guard's precedes.
LEMMA NestedRollbackStep ==
  ASSUME ~StaleUse, NestedIInv, Rollback \/ RollbackPanics
  PROVE  PromiseIInv' /\ Guarded'
<1> DEFINE cp == Top.checkpoint
<1>1. txns # <<>> /\ txns' = Pop /\ (Rewind(cp) \/ RewindPanics(cp))
  BY DEF Rollback, RollbackPanics, Leave
<1>2. Valid(cp) /\ Sound
  <2>1. txns \in Seq(TransactionType)
    BY DEF NestedIInv, TxnIInv, TxnTypeOK
  <2>2. Len(txns) \in Nat /\ Len(txns) # 0
    BY <1>1, <2>1, LenProperties, EmptySeq
  <2> QED
    BY <2>2 DEF NestedIInv, PromiseIInv, Guarded, Top
<1>3. \A d : d = cp => Valid(d) /\ (Rewind(d) \/ RewindPanics(d))
  BY <1>1, <1>2
<1>4. PICK d : d = cp
  OBVIOUS
<1>5. PromiseIInv'
  BY <1>3, <1>4, RewindPromiseStep DEF NestedIInv
<1>6. checkpoints' \subseteq checkpoints
  BY <1>1 DEF Rewind, RewindPanics, DropPanics, Keep
<1>7. \A c : Valid(c) /\ NoLater(c, Top.checkpoint) => Valid(c)'
  BY <1>2, <1>3, <1>4, RewindKeepsValid
<1> HIDE DEF cp
<1>8. Guarded'
  BY <1>1, <1>6, <1>7, GuardedPop
<1> QED
  BY <1>5, <1>8

\* Every step of the caller keeps the invariant.
LEMMA NestedNextStep ==
  ASSUME ~StaleUse, NestedIInv, [TxnNext]_txnVars
  PROVE  NestedIInv'
<1>1. TxnIInv'
  BY TxnNextStep DEF NestedIInv
<1>2. CASE \E by \in Holders : Begin(by)
  <2>1. UNCHANGED vars
    BY <1>2 DEF Begin
  <2> QED
    BY <1>1, <1>2, <2>1, StutterPromiseStep, GuardedBegin DEF NestedIInv
<1>3. CASE UNCHANGED vars /\ (Commit \/ Forget)
  <2>1. txns # <<>> /\ txns' = Pop
    BY <1>3 DEF Commit, Forget
  <2>2. PromiseIInv' /\ checkpoints' = checkpoints
    BY <1>3, StutterPromiseStep DEF NestedIInv, vars
  <2>3. \A c : Valid(c) => Valid(c)'
    BY <1>3 DEF vars, cursor, Valid, Restorable, Separates, Reached, NoLater, Here
  <2> QED
    BY <1>1, <2>1, <2>2, <2>3, GuardedPop DEF NestedIInv
<1>4. CASE Rollback \/ RollbackPanics
  BY <1>1, <1>4, NestedRollbackStep DEF NestedIInv
<1>5. CASE \E q \in Requests : WithinLimit(q) /\ (Alloc(q) \/ TryAlloc(q))
  <2>1. UNCHANGED txns /\ \E q \in Requests : Alloc(q) \/ TryAlloc(q)
    BY <1>5 DEF WithinLimit
  <2> QED
    BY <1>1, <2>1, NestedArenaStep DEF NestedIInv
<1>6. CASE ViaArena
  BY <1>1, <1>6, NestedArenaStep DEF NestedIInv, ViaArena
<1>7. ASSUME UNCHANGED <<blocks, current, cur_ptr, bytes_allocated, drop_registry, live,
                         checkpoints>>,
             Len(txns') = Len(txns),
             \A k \in 1 .. Len(txns) : txns'[k].checkpoint = txns[k].checkpoint
      PROVE  NestedIInv'
  <2>1. IInv'
    BY <1>1 DEF TxnIInv
  <2>2. Sound'
    BY <2>1, <1>7 DEF NestedIInv, PromiseIInv, Sound, DropsOnLiveMemory, Registered, Reached
  <2>3. \A c : Valid(c) => Valid(c)'
    BY <1>7 DEF Valid, Restorable, Separates, Reached, NoLater, Here
  <2>4. PromiseIInv'
    BY <2>2, <2>3, <1>7 DEF NestedIInv, PromiseIInv, Chain
  <2>5. \A k \in 1 .. Len(txns) : Valid(txns[k].checkpoint)'
    BY <1>7 DEF NestedIInv, Guarded, Valid, Restorable, Separates, Reached, NoLater, Here
  <2>6. Guarded'
    BY <2>5, <1>7 DEF NestedIInv, Guarded, NoLater
  <2> QED
    BY <1>1, <2>4, <2>6 DEF NestedIInv
<1>8. CASE (\E n \in Limits : SetLimit(n)) \/ (\E how \in Results \ {"open"} : Return(how))
  <2>1. UNCHANGED <<blocks, current, cur_ptr, bytes_allocated, drop_registry, live,
                    checkpoints>>
    BY <1>8 DEF SetLimit, Return, vars, cursor
  <2>2. /\ Len(txns') = Len(txns)
        /\ \A k \in 1 .. Len(txns) : txns'[k].checkpoint = txns[k].checkpoint
    BY <1>8, SetLimitKeeps, ReturnKeeps DEF NestedIInv
  <2> QED
    BY <2>1, <2>2, <1>7
<1>9. CASE \E q \in Requests, r \in {"none", "panic"} : OverBudget(q, r)
  <2>1. UNCHANGED <<blocks, current, cur_ptr, bytes_allocated, drop_registry, live,
                    checkpoints, txns>>
    BY <1>9 DEF OverBudget, cursor
  <2> QED
    BY <2>1, <1>7
<1>10. CASE UNCHANGED txnVars
  <2>1. UNCHANGED <<blocks, current, cur_ptr, bytes_allocated, drop_registry, live,
                    checkpoints, txns>>
    BY <1>10 DEF txnVars, vars, cursor
  <2> QED
    BY <2>1, <1>7
<1>11. CASE \E q \in Requests : TxnAlloc(q) \/ TxnTryAlloc(q)
  BY <1>11, <1>5, <1>9 DEF TxnAlloc, TxnTryAlloc
<1>12. CASE Commit \/ Forget
  BY <1>12, <1>3 DEF Commit, Forget
<1> QED
  BY <1>2, <1>4, <1>6, <1>8, <1>10, <1>11, <1>12 DEF TxnNext

\* The invariant holds in every reachable state.
LEMMA NestedInductive ==
  ASSUME ~StaleUse
  PROVE  TxnSpec => []NestedIInv
<1>1. TxnInit => NestedIInv
  <2> SUFFICES ASSUME TxnInit PROVE NestedIInv
    OBVIOUS
  <2>1. IInv /\ PromiseIInv /\ txns = <<>> /\ txn_depth = 0
    BY InitIInv, InitPromiseIInv DEF TxnInit
  <2>2. Len(txns) = 0
    BY <2>1
  <2>3. TxnIInv
    BY <2>1, TransactionAssumption DEF TxnIInv, TxnTypeOK, NestingDepth
  <2> QED
    BY <2>1, <2>2, <2>3 DEF NestedIInv, Guarded
<1>2. NestedIInv /\ [TxnNext]_txnVars => NestedIInv'
  BY NestedNextStep
<1> QED
  BY <1>1, <1>2, PTL DEF TxnSpec

\* Whatever is opened, committed, rolled back or forgotten, a registered
\* destructor owns its memory.
THEOREM TransactionsOwnDestructors ==
  ASSUME ~StaleUse
  PROVE  TxnSpec => []DropsOnLiveMemory
<1>1. NestedIInv => DropsOnLiveMemory
  BY DEF NestedIInv, PromiseIInv, Sound
<1> QED
  BY <1>1, NestedInductive, PTL

-----------------------------------------------------------------------------
\* The saved states of AbstractTransaction, named.
Saved == [k \in 1 .. Len(txns) |-> SavedBy(txns[k])]

\* They form a sequence as long as the stack of guards.
LEMMA SavedIsSeq ==
  ASSUME Len(txns) \in Nat
  PROVE  /\ Len(Saved) = Len(txns)
         /\ Saved \in Seq({SavedBy(txns[k]) : k \in 1 .. Len(txns)})
         /\ \A k \in 1 .. Len(txns) : Saved[k] = SavedBy(txns[k])
<1> DEFINE S == {SavedBy(txns[k]) : k \in 1 .. Len(txns)}
<1>1. Saved \in [1 .. Len(txns) -> S]
  BY DEF Saved
<1> HIDE DEF S
<1>2. Saved \in Seq(S) /\ Len(Saved) = Len(txns)
  BY <1>1, FunctionIsSeq
<1> QED
  BY <1>2 DEF S, Saved

\* The steps of AbstractArena are those AbstractTransaction is built from.
LEMMA SameArena ==
  /\ Abs!Next <=> AbsTxn!Next
  /\ UNCHANGED Abs!vars <=> UNCHANGED AbsTxn!vars
  /\ Abs!Init <=> AbsTxn!Init
  /\ \A s : Abs!Restore(s) <=> AbsTxn!Restore(s)
  BY DEF Abs!Next, AbsTxn!Next, Abs!Allocate, AbsTxn!Allocate, Abs!Disjoint,
         AbsTxn!Disjoint, Abs!Register, AbsTxn!Register, Abs!Snapshot, AbsTxn!Snapshot,
         Abs!Restore, AbsTxn!Restore, Abs!NoLater, AbsTxn!NoLater, Abs!Reset,
         AbsTxn!Reset, Abs!Leaves, AbsTxn!Leaves, Abs!vars, AbsTxn!vars, Abs!Init,
         AbsTxn!Init

\* The innermost saved state is that of the innermost guard.
LEMMA SavedTop ==
  ASSUME NestedIInv, txns # <<>>
  PROVE  /\ Len(txns) \in Nat \ {0} /\ Saved # <<>> /\ Len(Saved) = Len(txns)
         /\ AbsTxn!Top = SavedBy(Top)
         /\ AbsTxn!Running <=> Running
<1>1. Len(txns) \in Nat \ {0}
  BY LenProperties, EmptySeq DEF NestedIInv, TxnIInv, TxnTypeOK
<1>2. Len(txns) \in 1 .. Len(txns)
  BY <1>1
<1>3. Len(Saved) = Len(txns) /\ Saved[Len(txns)] = SavedBy(txns[Len(txns)])
  BY <1>1, <1>2, SavedIsSeq
<1>4. Saved # <<>>
  BY <1>1, <1>3
<1>5. AbsTxn!Top = SavedBy(Top)
  BY <1>3 DEF AbsTxn!Top, Top, Saved
<1>6. SavedBy(Top).result = Top.result
  BY DEF SavedBy
<1> QED
  BY <1>1, <1>3, <1>4, <1>5, <1>6 DEF AbsTxn!Running, Running, Saved

\* With no guard open nothing is saved.
LEMMA SavedNone ==
  ASSUME txns = <<>>
  PROVE  Saved = <<>> /\ AbsTxn!Running
<1>1. Len(txns) = 0
  OBVIOUS
<1>2. Len(Saved) = 0 /\ Saved \in Seq({SavedBy(txns[k]) : k \in 1 .. Len(txns)})
  BY <1>1, SavedIsSeq
<1>3. Saved = <<>>
  BY <1>2, EmptySeq
<1> QED
  BY <1>3 DEF AbsTxn!Running, Saved

\* Work that leaves every saved state what it was leaves it undisturbed.
LEMMA WorkRefines ==
  ASSUME NestedIInv, Running, UNCHANGED txns, Abs!Next \/ UNCHANGED Abs!vars,
         \A k \in 1 .. Len(txns) :
           SnapshotOf(txns[k].checkpoint)' = SnapshotOf(txns[k].checkpoint)
  PROVE  AbsTxn!Work \/ UNCHANGED AbsTxn!txnVars
<1>1. Len(txns) \in Nat /\ Len(Saved) = Len(txns)
  BY LenProperties, SavedIsSeq DEF NestedIInv, TxnIInv, TxnTypeOK
<1>2. Saved' = Saved
  BY DEF Saved, SavedBy
<1>3. ASSUME NEW k \in 1 .. Len(txns)
      PROVE  /\ Saved[k].live \subseteq live'
             /\ SubSeq(drop_registry', 1, Len(Saved[k].owed)) = Saved[k].owed
  <2> DEFINE c == txns[k].checkpoint
  <2>1. /\ Saved[k].live = SnapshotOf(c).live /\ Saved[k].owed = SnapshotOf(c).owed
        /\ SnapshotOf(c)' = SnapshotOf(c) /\ c' = c
    BY DEF Saved, SavedBy
  <2>2. Len(SnapshotOf(c).owed) = c.drop_registry_len
    BY SnapshotOwed DEF NestedIInv, PromiseIInv, Guarded
  <2>3. /\ SnapshotOf(c)'.live \subseteq live'
        /\ SnapshotOf(c)'.owed = SubSeq(drop_registry', 1, c.drop_registry_len)
    BY <2>1 DEF SnapshotOf
  <2> QED
    BY <2>1, <2>2, <2>3
<1>4. AbsTxn!Undisturbed
  BY <1>1, <1>3 DEF AbsTxn!Undisturbed, Saved
<1>5. AbsTxn!Running
  BY SavedTop, SavedNone
<1> QED
  BY <1>2, <1>4, <1>5, SameArena DEF AbsTxn!Work, AbsTxn!txnVars, AbsTxn!vars, Saved

\* Dropping the last guard drops the last saved state.
LEMMA SavedPop ==
  ASSUME NestedIInv, txns # <<>>, txns' = Pop,
         \A k \in 1 .. Len(txns) - 1 :
           SnapshotOf(txns[k].checkpoint)' = SnapshotOf(txns[k].checkpoint)
  PROVE  Saved # <<>> /\ Saved' = SubSeq(Saved, 1, Len(Saved) - 1)
<1> DEFINE n == Len(txns)
           m == n - 1
           S == {SavedBy(txns[k]) : k \in 1 .. n}
<1>1. /\ n \in Nat \ {0} /\ Len(txns') = m
      /\ \A k \in 1 .. m : k \in 1 .. n /\ txns'[k] = txns[k]
  BY PopKeeps DEF NestedIInv, TxnIInv, TxnTypeOK
<1>2. /\ Len(Saved) = n /\ Saved \in Seq(S)
      /\ \A k \in 1 .. n : Saved[k] = SavedBy(txns[k])
  BY <1>1, SavedIsSeq
<1>3. \A k \in 1 .. m : Saved[k] \in S
  BY <1>1, <1>2
<1>4. m \in Nat
  BY <1>1
<1>5. Saved' = [k \in 1 .. m |-> Saved[k]]
  BY <1>1, <1>2 DEF Saved, SavedBy
<1> HIDE DEF m, S
<1>6. /\ SubSeq(Saved, 1, m) \in Seq(S) /\ Len(SubSeq(Saved, 1, m)) = m
      /\ \A k \in 1 .. m : SubSeq(Saved, 1, m)[k] = Saved[k]
  BY <1>3, <1>4, SubSeqProperties
<1>7. Saved' \in Seq(S) /\ Len(Saved') = m
  BY <1>3, <1>4, <1>5, FunctionIsSeq
<1>8. Saved' = SubSeq(Saved, 1, m)
  BY <1>5, <1>6, <1>7, SeqEqual
<1>9. Saved # <<>>
  BY <1>1, <1>2
<1> QED
  BY <1>2, <1>8, <1>9 DEF m

\* Opening a guard saves this very state.
LEMMA BeginRefines ==
  ASSUME NestedIInv, NEW by \in Holders, Begin(by)
  PROVE  AbsTxn!Begin(by)
<1> DEFINE n == Len(txns)
           t == [checkpoint |-> Here, depth |-> txn_depth + 1, limit |-> NoLimit,
                 by |-> by, result |-> "open"]
           s == [live |-> live, owed |-> drop_registry, by |-> by, result |-> "open"]
           S == {SavedBy(txns[k]) : k \in 1 .. n} \cup {s}
<1>1. /\ txns' = Append(txns, t) /\ UNCHANGED vars
      /\ txns \in Seq(TransactionType) /\ n \in Nat
  BY LenProperties DEF Begin, NestedIInv, TxnIInv, TxnTypeOK
<1>2. live' = live /\ drop_registry' = drop_registry /\ checkpoints' = checkpoints
  BY <1>1 DEF vars
<1>3. /\ Len(txns') = n + 1 /\ txns'[n + 1] = t
      /\ \A k \in 1 .. n : txns'[k] = txns[k]
  BY <1>1, AppendProperties
<1>4. Len(Saved) = n /\ \A k \in 1 .. n : Saved[k] = SavedBy(txns[k])
  BY <1>1, SavedIsSeq
<1>5. \A k \in 1 .. n : Saved[k] \in S
  BY <1>4
<1>6. Saved = [k \in 1 .. n |-> Saved[k]]
  BY DEF Saved
<1>7. SavedBy(t) = s
  <2>1. SnapshotOf(Here) = [live |-> live, owed |-> drop_registry]
    BY SnapshotHere DEF NestedIInv, PromiseIInv
  <2> QED
    BY <2>1 DEF SavedBy
<1>8. Saved' = [k \in 1 .. n + 1 |-> SavedBy(txns'[k])]
  BY <1>2, <1>3 DEF Saved, SavedBy, SnapshotOf
<1>9. Saved' = [k \in 1 .. n + 1 |-> IF k = n + 1 THEN s ELSE Saved[k]]
  <2>1. \A k \in 1 .. n + 1 : k = n + 1 \/ k \in 1 .. n
    BY <1>1
  <2> QED
    BY <2>1, <1>3, <1>4, <1>7, <1>8
<1>10. s \in S
  OBVIOUS
<1> HIDE DEF S, s, n, t
<1>11. Saved \in Seq(S)
  BY <1>1, <1>5, <1>6, FunctionIsSeq
<1>12. Saved' \in Seq(S) /\ Len(Saved') = n + 1
  <2>1. n + 1 \in Nat /\ \A k \in 1 .. n + 1 : k = n + 1 \/ k \in 1 .. n
    BY <1>1
  <2>2. Saved' \in [1 .. n + 1 -> S]
    BY <2>1, <1>5, <1>9, <1>10
  <2> QED
    BY <2>1, <2>2, FunctionIsSeq
<1>13. Saved' = Append(Saved, s)
  <2>1. /\ Append(Saved, s) \in Seq(S) /\ Len(Append(Saved, s)) = n + 1
        /\ \A k \in 1 .. n : Append(Saved, s)[k] = Saved[k]
        /\ Append(Saved, s)[n + 1] = s
    BY <1>4, <1>10, <1>11, AppendProperties
  <2>2. \A k \in 1 .. n + 1 : k = n + 1 \/ k \in 1 .. n
    BY <1>1
  <2>3. n + 1 \notin 1 .. n
    BY <1>1
  <2>4. \A k \in 1 .. n + 1 : Saved'[k] = Append(Saved, s)[k]
    BY <2>1, <2>2, <2>3, <1>9
  <2> QED
    BY <2>1, <2>4, <1>12, SeqEqual
<1>14. UNCHANGED AbsTxn!vars
  BY <1>2 DEF AbsTxn!vars, SnapshotOf
<1>15. AbsTxn!Running
  BY SavedTop, SavedNone DEF Begin
<1> QED
  BY <1>13, <1>14, <1>15 DEF AbsTxn!Begin, Saved, s

\* The end of a closure is noted for its guard, whose saved state stays.
LEMMA ReturnRefines ==
  ASSUME NestedIInv, NEW how \in Results \ {"open"}, Return(how)
  PROVE  AbsTxn!Return(how)
<1> DEFINE n == Len(txns)
<1>1. /\ txns # <<>> /\ Running /\ Top.by # "caller"
      /\ UNCHANGED <<live, drop_registry, checkpoints>>
  BY DEF Return, vars
<1>2. /\ n \in Nat \ {0} /\ Saved # <<>> /\ Len(Saved) = n
      /\ AbsTxn!Top = SavedBy(Top) /\ AbsTxn!Running
  BY <1>1, SavedTop
<1>3. /\ Len(txns') = n
      /\ \A k \in 1 .. n : /\ txns'[k].checkpoint = txns[k].checkpoint
                           /\ txns'[k].by = txns[k].by
                           /\ txns'[k].result = IF k = n THEN how ELSE txns[k].result
  BY ReturnKeeps DEF NestedIInv
<1>4. Saved = [k \in 1 .. n |-> Saved[k]]
  BY DEF Saved
<1>5. Saved' = [k \in 1 .. n |-> IF k = n THEN [Saved[k] EXCEPT !.result = how]
                                         ELSE Saved[k]]
  <2>1. Saved' = [k \in 1 .. n |-> SavedBy(txns'[k])]
    BY <1>1, <1>3 DEF Saved, SavedBy, SnapshotOf
  <2>2. \A k \in 1 .. n :
          SavedBy(txns'[k]) = IF k = n THEN [SavedBy(txns[k]) EXCEPT !.result = how]
                                       ELSE SavedBy(txns[k])
    BY <1>3 DEF SavedBy
  <2>3. \A k \in 1 .. n : Saved[k] = SavedBy(txns[k])
    BY <1>2, SavedIsSeq
  <2> QED
    BY <2>1, <2>2, <2>3
<1> HIDE DEF n
<1>6. Saved' = [Saved EXCEPT ![Len(Saved)].result = how]
  BY <1>2, <1>4, <1>5
<1>7. AbsTxn!Top.by # "caller"
  BY <1>1, <1>2 DEF SavedBy
<1>8. UNCHANGED AbsTxn!vars
  BY <1>1 DEF AbsTxn!vars, SnapshotOf
<1> QED
  BY <1>2, <1>6, <1>7, <1>8 DEF AbsTxn!Return, Saved

\* Rolling back restores the innermost saved state.
LEMMA RollbackRefines ==
  ASSUME ~StaleUse, NestedIInv, Rollback \/ RollbackPanics
  PROVE  AbsTxn!Rollback
<1> DEFINE cp == Top.checkpoint
<1>1. txns # <<>> /\ txns' = Pop /\ (Rewind(cp) \/ RewindPanics(cp))
  BY DEF Rollback, RollbackPanics, Leave
<1>2. txns \in Seq(TransactionType) /\ Len(txns) \in Nat \ {0}
  <2>1. txns \in Seq(TransactionType)
    BY DEF NestedIInv, TxnIInv, TxnTypeOK
  <2> QED
    BY <1>1, <2>1, PopKeeps
<1>3. Valid(cp) /\ \A c \in checkpoints : NoLater(c, cp) \/ NoLater(cp, c)
  BY <1>2 DEF NestedIInv, Guarded, Top
<1>4. \A k \in 1 .. Len(txns) : /\ Valid(txns[k].checkpoint)
                               /\ NoLater(txns[k].checkpoint, cp)
  BY <1>2 DEF NestedIInv, Guarded, Top
<1>5. \A d : d = cp => Abs!Restore(SnapshotOf(d))
  BY <1>1, <1>3, RewindRestores DEF NestedIInv
<1>6. AbsTxn!Restore(SavedBy(Top))
  <2>1. AbsTxn!Restore(SnapshotOf(cp))
    BY <1>5, SameArena
  <2>2. SavedBy(Top).live = SnapshotOf(cp).live /\ SavedBy(Top).owed = SnapshotOf(cp).owed
    BY DEF SavedBy
  <2> QED
    BY <2>1, <2>2 DEF AbsTxn!Restore, AbsTxn!Leaves, AbsTxn!NoLater
<1>7. \A k \in 1 .. Len(txns) - 1 :
        SnapshotOf(txns[k].checkpoint)' = SnapshotOf(txns[k].checkpoint)
  <2> TAKE k \in 1 .. Len(txns) - 1
  <2> DEFINE c == txns[k].checkpoint
  <2>1. k \in 1 .. Len(txns) /\ txns'[k] = txns[k]
    BY <1>1, <1>2, PopKeeps
  <2>2. \A d, e : d = cp /\ Valid(e) /\ NoLater(e, d) => SnapshotOf(e)' = SnapshotOf(e)
    BY <1>1, <1>3, SnapshotRewound DEF NestedIInv, PromiseIInv
  <2>3. \A e : e = c => SnapshotOf(e)' = SnapshotOf(e)
    BY <2>1, <2>2, <1>4
  <2> QED
    BY <2>1, <2>3 DEF SnapshotOf
<1>8. Saved # <<>> /\ Saved' = SubSeq(Saved, 1, Len(Saved) - 1)
  BY <1>1, <1>7, SavedPop
<1>9. AbsTxn!Top = SavedBy(Top)
  BY <1>1, SavedTop
<1>10. AbsTxn!MayRollback(SavedBy(Top))
  BY DEF AbsTxn!MayRollback, SavedBy, Rollback, RollbackPanics, Leave, RollsBack
<1> HIDE DEF cp
<1> QED
  BY <1>6, <1>8, <1>9, <1>10 DEF AbsTxn!Rollback, AbsTxn!Pop, Saved

\* The arena at work inside the guards, directly or through the innermost one:
\* no saved state is disturbed.
LEMMA WorkStep ==
  ASSUME ~StaleUse, NestedIInv, Running, UNCHANGED txns,
         \/ \E q \in Requests : Alloc(q) \/ TryAlloc(q)
         \/ \E r \in live : RegisterDrop(r)
         \/ TakeCheckpoint
         \/ \E cp \in checkpoints : ReclaimsTo(cp) /\ (Rewind(cp) \/ RewindPanics(cp))
         \/ ReclaimsAll /\ (Reset \/ ResetPanics)
  PROVE  AbsTxn!Work \/ UNCHANGED AbsTxn!txnVars
<1> DEFINE Undisturbed ==
      \A k \in 1 .. Len(txns) :
        SnapshotOf(txns[k].checkpoint)' = SnapshotOf(txns[k].checkpoint)
<1>1. Sound /\ PromiseIInv /\ \A k \in 1 .. Len(txns) : Valid(txns[k].checkpoint)
  BY DEF NestedIInv, PromiseIInv, Guarded
<1>2. ASSUME \A c : Valid(c) => SnapshotOf(c)' = SnapshotOf(c)
      PROVE  Undisturbed
  <2> TAKE k \in 1 .. Len(txns)
  <2> DEFINE c == txns[k].checkpoint
  <2>1. \A d : d = c => SnapshotOf(d)' = SnapshotOf(d)
    BY <1>1, <1>2
  <2> QED
    BY <2>1 DEF SnapshotOf
<1>3. CASE \E q \in Requests : Alloc(q) \/ TryAlloc(q)
  <2>1. PICK q \in RequestType : Alloc(q) \/ TryAlloc(q)
    BY <1>3, ArenaAssumption
  <2>2. Undisturbed
    BY <2>1, <1>1, <1>2, AllocKeepsSnapshots
  <2>3. Abs!Next \/ UNCHANGED Abs!vars
    BY <2>1, <1>1, AllocRefines
  <2> QED
    BY <2>2, <2>3, WorkRefines
<1>4. CASE \E r \in live : RegisterDrop(r)
  <2>1. PICK r \in live : RegisterDrop(r)
    BY <1>4
  <2>2. Undisturbed
    BY <2>1, <1>1, <1>2, RegisterKeepsSnapshots
  <2>3. Abs!Next \/ UNCHANGED Abs!vars
    BY <2>1, <1>1, RegisterRefines
  <2> QED
    BY <2>2, <2>3, WorkRefines
<1>5. CASE TakeCheckpoint
  <2>1. Undisturbed
    BY <1>5 DEF TakeCheckpoint, SnapshotOf
  <2> QED
    BY <2>1, <1>1, <1>5, TakeCheckpointRefines, WorkRefines
<1>6. CASE \E cp \in checkpoints : ReclaimsTo(cp) /\ (Rewind(cp) \/ RewindPanics(cp))
  <2>1. PICK cp \in checkpoints : ReclaimsTo(cp) /\ (Rewind(cp) \/ RewindPanics(cp))
    BY <1>6
  <2>2. Valid(cp) /\ \A c \in checkpoints : NoLater(c, cp) \/ NoLater(cp, c)
    BY <1>1 DEF PromiseIInv, Chain
  <2>3. Abs!Restore(SnapshotOf(cp))
    BY <2>1, <2>2, <1>1, RewindRestores
  <2>4. Undisturbed
    <3> TAKE k \in 1 .. Len(txns)
    <3> DEFINE c == txns[k].checkpoint
    <3>1. Valid(c) /\ NoLater(c, cp)
      BY <2>1, <1>1 DEF ReclaimsTo
    <3>2. \A d : d = c => SnapshotOf(d)' = SnapshotOf(d)
      BY <3>1, <2>1, <2>2, <1>1, SnapshotRewound
    <3> QED
      BY <3>2 DEF SnapshotOf
  <2>5. Abs!Next
    BY <2>3 DEF Abs!Next
  <2> QED
    BY <2>4, <2>5, WorkRefines
<1>7. CASE ReclaimsAll /\ (Reset \/ ResetPanics)
  <2>1. Len(txns) = 0
    BY <1>7 DEF ReclaimsAll
  <2> QED
    BY <2>1, <1>1, <1>7, ResetRefines, WorkRefines
<1> QED
  BY <1>3, <1>4, <1>5, <1>6, <1>7

\* Transactions implement their promise: whatever is allocated, rewound,
\* committed or forgotten inside, a rollback returns to the regions and owed
\* destructors its guard was opened with.
THEOREM TransactionsKeepTheirPromise ==
  ASSUME ~StaleUse
  PROVE  TxnSpec => ImplementsTransactions
<1>1. TxnInit => AbsTxn!TxnInit
  <2> SUFFICES ASSUME TxnInit PROVE AbsTxn!TxnInit
    OBVIOUS
  <2>1. live = {} /\ drop_registry = <<>> /\ checkpoints = {} /\ txns = <<>>
    BY DEF TxnInit, Init
  <2>2. AbsTxn!Init
    BY <2>1 DEF AbsTxn!Init, TxnInit, Init
  <2>3. Saved = <<>>
    BY <2>1, SavedNone
  <2> QED
    BY <2>2, <2>3 DEF AbsTxn!TxnInit, Saved
<1>2. NestedIInv /\ [TxnNext]_txnVars => [AbsTxn!TxnNext]_(AbsTxn!txnVars)
  <2> SUFFICES ASSUME NestedIInv, [TxnNext]_txnVars
               PROVE  AbsTxn!TxnNext \/ UNCHANGED AbsTxn!txnVars
    OBVIOUS
  <2>1. CASE \E by \in Holders : Begin(by)
    BY <2>1, BeginRefines, TransactionAssumption DEF AbsTxn!TxnNext, AllHolders
  <2>2. CASE Rollback \/ RollbackPanics
    BY <2>2, RollbackRefines DEF AbsTxn!TxnNext
  <2>3. CASE Commit \/ Forget
    <3>0. AbsTxn!Top = SavedBy(Top) /\ AbsTxn!MayCommit(SavedBy(Top))
      BY <2>3, SavedTop DEF AbsTxn!MayCommit, SavedBy, Commit, Forget, Commits
    <3>1. txns # <<>> /\ txns' = Pop /\ UNCHANGED <<live, drop_registry, checkpoints>>
      BY <2>3 DEF Commit, Forget, vars
    <3>2. Len(txns) \in Nat \ {0} /\ \A k \in 1 .. Len(txns) - 1 : txns'[k] = txns[k]
      BY <3>1, PopKeeps DEF NestedIInv, TxnIInv, TxnTypeOK
    <3>3. \A k \in 1 .. Len(txns) - 1 :
            SnapshotOf(txns[k].checkpoint)' = SnapshotOf(txns[k].checkpoint)
      BY <3>1, <3>2 DEF SnapshotOf
    <3>4. Saved # <<>> /\ Saved' = SubSeq(Saved, 1, Len(Saved) - 1)
      BY <3>1, <3>3, SavedPop
    <3>5. UNCHANGED AbsTxn!vars
      BY <3>1 DEF AbsTxn!vars, SnapshotOf
    <3> QED
      BY <3>0, <3>4, <3>5 DEF AbsTxn!TxnNext, AbsTxn!Commit, AbsTxn!Pop, Saved
  <2>4. CASE \E q \in Requests : WithinLimit(q) /\ (Alloc(q) \/ TryAlloc(q))
    <3>1. Running /\ UNCHANGED txns /\ \E q \in Requests : Alloc(q) \/ TryAlloc(q)
      BY <2>4 DEF WithinLimit
    <3> QED
      BY <3>1, WorkStep DEF AbsTxn!TxnNext
  <2>5. CASE ViaArena
    BY <2>5, WorkStep DEF ViaArena, AbsTxn!TxnNext
  <2>6. ASSUME UNCHANGED <<live, drop_registry, checkpoints>>, Len(txns') = Len(txns),
               \A k \in 1 .. Len(txns) : /\ txns'[k].checkpoint = txns[k].checkpoint
                                         /\ txns'[k].by = txns[k].by
                                         /\ txns'[k].result = txns[k].result
        PROVE  UNCHANGED AbsTxn!txnVars
    <3>1. Saved' = Saved
      BY <2>6 DEF Saved, SavedBy, SnapshotOf
    <3> QED
      BY <3>1, <2>6 DEF AbsTxn!txnVars, SnapshotOf, Saved
  <2>7. CASE \E n \in Limits : SetLimit(n)
    <3>1. UNCHANGED <<live, drop_registry, checkpoints>>
      BY <2>7 DEF SetLimit, vars
    <3>2. /\ Len(txns') = Len(txns)
          /\ \A k \in 1 .. Len(txns) : /\ txns'[k].checkpoint = txns[k].checkpoint
                                      /\ txns'[k].by = txns[k].by
                                      /\ txns'[k].result = txns[k].result
      BY <2>7, SetLimitKeeps DEF NestedIInv
    <3> QED
      BY <3>1, <3>2, <2>6
  <2>8. CASE UNCHANGED <<live, drop_registry, checkpoints, txns>>
    BY <2>8, <2>6
  <2>9. CASE \E q \in Requests : TxnAlloc(q) \/ TxnTryAlloc(q)
    BY <2>9, <2>4, <2>8 DEF TxnAlloc, TxnTryAlloc, OverBudget
  <2>10. CASE \E how \in Results \ {"open"} : Return(how)
    BY <2>10, ReturnRefines DEF AbsTxn!TxnNext, Results
  <2> QED
    BY <2>1, <2>2, <2>3, <2>5, <2>7, <2>8, <2>9, <2>10 DEF TxnNext, txnVars, vars
<1> QED
  BY <1>1, <1>2, NestedInductive, PTL
     DEF TxnSpec, AbsTxn!TxnSpec, ImplementsTransactions
=============================================================================
