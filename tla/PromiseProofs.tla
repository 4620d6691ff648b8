----------------------------- MODULE PromiseProofs -----------------------------
(***************************************************************************)
(* What the arena promises, for every value of the constants and every     *)
(* fault of the system allocator, as long as the caller rewinds only to    *)
(* checkpoints that no earlier rewind or reset has invalidated: registered *)
(* destructors own their memory, nothing is reclaimed undropped, and the   *)
(* arena implements AbstractArena.                                         *)
(***************************************************************************)
EXTENDS ArenaProofs

\* The registry entries that checkpoint c keeps belong to memory it keeps.
Separates(c) ==
  /\ c.drop_registry_len <= Len(drop_registry)
  /\ \A k \in 1 .. c.drop_registry_len : Below(drop_registry[k], c.block_idx, c.offset)

\* Offset `off` of block `blk` is where a new arena starts or a region ends: no
\* two such places hold the same regions below them.
Reached(blk, off) ==
  \/ blk = 1 /\ off = 0
  \/ \E r \in live : r.blk = blk /\ r.off + r.size = off

\* A rewind to checkpoint c would cut registry and memory at the same place, one
\* the cursor has reached and not been moved back from.
Valid(c) ==
  /\ c \in CheckpointType
  /\ Restorable(c)
  /\ Separates(c)
  /\ Reached(c.block_idx, c.offset)
  /\ NoLater(c, Here)

\* Of any two checkpoints, one was taken no later than the other.
Chain(V) == \A c, d \in V : NoLater(c, d) \/ NoLater(d, c)

\* What holds of the arena whatever checkpoints are held.
Sound ==
  /\ IInv
  /\ DropsOnLiveMemory
  /\ Reached(current, cur_ptr)

\* The inductive invariant.
PromiseIInv ==
  /\ Sound
  /\ \A c \in checkpoints : Valid(c)
  /\ Chain(checkpoints)

-----------------------------------------------------------------------------
\* "Taken no later" is reflexive and transitive.
LEMMA NoLaterOrder ==
  ASSUME NEW c \in CheckpointType, NEW d \in CheckpointType, NEW e \in CheckpointType
  PROVE  /\ NoLater(c, c)
         /\ NoLater(c, d) /\ NoLater(d, e) => NoLater(c, e)
  BY DEF NoLater, CheckpointType

\* What a checkpoint keeps, a later one keeps too.
LEMMA BelowLater ==
  ASSUME NEW c \in CheckpointType, NEW d \in CheckpointType, NoLater(c, d),
         NEW r \in RegionType, Below(r, c.block_idx, c.offset)
  PROVE  Below(r, d.block_idx, d.offset)
  BY DEF NoLater, CheckpointType, RegionType, Below

\* A region beyond the cursor is beyond every valid checkpoint.
LEMMA BeyondCheckpoint ==
  ASSUME IInv, NEW c \in CheckpointType, NoLater(c, Here), NEW r \in RegionType,
         current < r.blk \/ (current = r.blk /\ cur_ptr <= r.off)
  PROVE  ~Below(r, c.block_idx, c.offset)
<1>1. /\ Here.block_idx = current /\ Here.offset = cur_ptr
      /\ current \in Nat /\ cur_ptr \in Nat
  BY LenProperties DEF Here, IInv, TypeOK
<1>2. /\ r.blk \in Nat /\ r.off \in Nat /\ r.size \in Nat \ {0}
      /\ c.block_idx \in Nat /\ c.offset \in Nat
  BY DEF RegionType, CheckpointType
<1> QED
  BY <1>1, <1>2 DEF NoLater, Below

\* A checkpoint taken here is valid.
LEMMA HereValid ==
  ASSUME Sound
  PROVE  Valid(Here)
<1>1. Here \in CheckpointType /\ Restorable(Here)
  BY HereRestorable DEF Sound
<1>2. /\ Here.block_idx = current /\ Here.offset = cur_ptr
      /\ Here.drop_registry_len = Len(drop_registry)
      /\ Len(drop_registry) \in Nat
  BY LenProperties DEF Here, Sound, IInv, TypeOK
<1>3. \A k \in 1 .. Len(drop_registry) : drop_registry[k] \in live
  BY DEF Sound, DropsOnLiveMemory, Registered
<1>4. Separates(Here)
  BY <1>2, <1>3 DEF Separates, Sound, IInv, WellPlaced
<1> QED
  BY <1>1, <1>2, <1>4, NoLaterOrder DEF Valid, Sound

\* A step that only shortens the registry, by whatever length.
LEMMA CutRegistry ==
  ASSUME Sound, NEW len \in Nat, drop_registry' = Undropped(len)
  PROVE  /\ Len(drop_registry') = Smaller(len, Len(drop_registry))
         /\ Len(drop_registry) \in Nat
         /\ \A k \in 1 .. Len(drop_registry') : /\ k \in 1 .. Len(drop_registry)
                                                /\ k <= len
                                                /\ drop_registry'[k] = drop_registry[k]
         /\ \A i, j \in 1 .. Len(drop_registry') :
              drop_registry'[i] = drop_registry'[j] => i = j
<1> DEFINE n == Smaller(len, Len(drop_registry))
<1>1. drop_registry \in Seq(RegionType) /\ Len(drop_registry) \in Nat
  BY LenProperties DEF Sound, IInv, TypeOK
<1>2. n \in Nat /\ n <= len /\ n <= Len(drop_registry)
  BY <1>1 DEF Smaller
<1>3. \A k \in 1 .. n : drop_registry[k] \in RegionType
  BY <1>1, <1>2, ElementOfSeq
<1>4. drop_registry' = SubSeq(drop_registry, 1, n)
  BY DEF Undropped
<1> HIDE DEF n
<1>5. /\ Len(drop_registry') = n
      /\ \A k \in 1 .. n : drop_registry'[k] = drop_registry[k]
  BY <1>2, <1>3, <1>4, SubSeqProperties
<1>6. \A i, j \in 1 .. n : drop_registry'[i] = drop_registry'[j] => i = j
  BY <1>1, <1>2, <1>5 DEF Sound, DropsOnLiveMemory
<1> QED
  BY <1>1, <1>2, <1>5, <1>6 DEF n

\* A step that appends one registered region keeps what the registry has.
LEMMA GrowRegistry ==
  ASSUME Sound, NEW r \in RegionType, r \notin Registered,
         drop_registry' = Append(drop_registry, r)
  PROVE  /\ Len(drop_registry) \in Nat /\ Len(drop_registry') = Len(drop_registry) + 1
         /\ \A k \in 1 .. Len(drop_registry) : drop_registry'[k] = drop_registry[k]
         /\ Registered' = Registered \cup {r}
         /\ \A i, j \in 1 .. Len(drop_registry') :
              drop_registry'[i] = drop_registry'[j] => i = j
<1>1. drop_registry \in Seq(RegionType) /\ Len(drop_registry) \in Nat
  BY LenProperties DEF Sound, IInv, TypeOK
<1>2. /\ Len(drop_registry') = Len(drop_registry) + 1
      /\ \A k \in 1 .. Len(drop_registry) : drop_registry'[k] = drop_registry[k]
      /\ drop_registry'[Len(drop_registry) + 1] = r
  BY <1>1, AppendProperties
<1>3. \A k \in 1 .. Len(drop_registry) : drop_registry'[k] \in Registered /\ drop_registry'[k] # r
  BY <1>2 DEF Registered
<1>4. Registered' = Registered \cup {r}
  BY <1>1, <1>2 DEF Registered
<1>5. ASSUME NEW i \in 1 .. Len(drop_registry'), NEW j \in 1 .. Len(drop_registry'),
             drop_registry'[i] = drop_registry'[j]
      PROVE  i = j
  <2>1. /\ i \in 1 .. Len(drop_registry) \/ i = Len(drop_registry) + 1
        /\ j \in 1 .. Len(drop_registry) \/ j = Len(drop_registry) + 1
    BY <1>1, <1>2
  <2>2. CASE i \in 1 .. Len(drop_registry) /\ j \in 1 .. Len(drop_registry)
    <3>1. drop_registry[i] = drop_registry[j]
      BY <2>2, <1>2, <1>5
    <3> QED
      BY <2>2, <3>1 DEF Sound, DropsOnLiveMemory
  <2> QED
    BY <2>1, <2>2, <1>2, <1>3, <1>5
<1> QED
  BY <1>1, <1>2, <1>4, <1>5

-----------------------------------------------------------------------------
\* Nothing is reclaimed, the cursor only moves forward and the registry grows.
Advances ==
  /\ live \subseteq live'
  /\ current < current' \/ (current = current' /\ cur_ptr <= cur_ptr')
  /\ \/ drop_registry' = drop_registry
     \/ \E r \in RegionType : drop_registry' = Append(drop_registry, r)

\* Such a step keeps every valid checkpoint valid.
LEMMA AdvanceKeepsValid ==
  ASSUME Sound, IInv', BlocksKept, Advances, NEW c, Valid(c)
  PROVE  Valid(c)'
<1>1. /\ c \in CheckpointType /\ c.block_idx \in Nat /\ c.offset \in Nat
      /\ c.drop_registry_len \in Nat
  BY DEF Valid, CheckpointType
<1>2. Restorable(c)'
  <2>1. Len(blocks') \in Nat
    BY LenProperties DEF IInv, TypeOK
  <2> QED
    BY <2>1, <1>1, RestorableKept, PartOfIInv DEF Sound, IInv, Valid
<1>3. /\ drop_registry \in Seq(RegionType)
      /\ Len(drop_registry) \in Nat /\ Len(drop_registry') \in Nat
      /\ Len(drop_registry) <= Len(drop_registry')
      /\ \A k \in 1 .. Len(drop_registry) : drop_registry'[k] = drop_registry[k]
  <2>1. drop_registry \in Seq(RegionType) /\ Len(drop_registry) \in Nat
    BY LenProperties DEF Sound, IInv, TypeOK
  <2>2. CASE drop_registry' = drop_registry
    BY <2>1, <2>2
  <2>3. CASE \E r \in RegionType : drop_registry' = Append(drop_registry, r)
    <3>1. PICK r \in RegionType : drop_registry' = Append(drop_registry, r)
      BY <2>3
    <3>2. /\ Len(drop_registry') = Len(drop_registry) + 1
          /\ \A k \in 1 .. Len(drop_registry) : drop_registry'[k] = drop_registry[k]
      BY <2>1, <3>1, AppendProperties
    <3> QED
      BY <2>1, <3>2
  <2> QED
    BY <2>1, <2>2, <2>3 DEF Advances
<1>4. Separates(c)'
  <2>1. c.drop_registry_len <= Len(drop_registry)
    BY DEF Valid, Separates
  <2>2. \A k \in 1 .. c.drop_registry_len : drop_registry'[k] = drop_registry[k]
    BY <1>1, <1>3, <2>1
  <2> QED
    BY <1>1, <1>3, <2>1, <2>2 DEF Valid, Separates
<1>5. NoLater(c, Here)'
  <2>1. current \in Nat /\ cur_ptr \in Nat /\ current' \in Nat /\ cur_ptr' \in Nat
    BY LenProperties DEF Sound, IInv, TypeOK
  <2>2. /\ c.block_idx < current \/ (c.block_idx = current /\ c.offset <= cur_ptr)
        /\ c.drop_registry_len <= Len(drop_registry)
    BY DEF Valid, NoLater, Here
  <2>3. /\ c.block_idx < current' \/ (c.block_idx = current' /\ c.offset <= cur_ptr')
        /\ c.drop_registry_len <= Len(drop_registry')
    BY <2>1, <2>2, <1>1, <1>3 DEF Advances
  <2> QED
    BY <2>3 DEF NoLater, Here
<1>6. Reached(c.block_idx, c.offset)'
  BY DEF Valid, Reached, Advances
<1> QED
  BY <1>1, <1>2, <1>4, <1>5, <1>6 DEF Valid

\* An allocation advances, and keeps the registered values on live memory.
LEMMA AllocSoundStep ==
  ASSUME Sound, NEW q \in RequestType, Alloc(q) \/ TryAlloc(q)
  PROVE  Sound' /\ BlocksKept /\ Advances
<1>1. IInv' /\ BlocksKept
  BY AllocStep DEF Sound
<1>2. /\ current \in Nat /\ cur_ptr \in Nat /\ cur_ptr' \in Nat
      /\ cur_base = current /\ cur_base' = current'
  <2>1. current \in Nat /\ cur_ptr \in Nat /\ cur_base = current
    BY LenProperties DEF Sound, IInv, TypeOK, CursorCoherent
  <2>2. cur_ptr' \in Nat /\ cur_base' = current'
    BY <1>1 DEF IInv, TypeOK, CursorCoherent
  <2> QED
    BY <2>1, <2>2
<1>3. CASE UNCHANGED <<live, drop_registry, cur_base, cur_ptr>>
  <2>1. Advances
    BY <1>2, <1>3 DEF Advances
  <2>2. DropsOnLiveMemory' /\ Reached(current, cur_ptr)'
    BY <1>2, <1>3 DEF Sound, DropsOnLiveMemory, Registered, Reached
  <2> QED
    BY <2>1, <2>2, <1>1 DEF Sound
<1>4. CASE \E off \in Nat, r \in RegionType :
             /\ r = [blk |-> cur_base', off |-> off,
                     size |-> q.size, align |-> q.align]
             /\ off + q.size = cur_ptr'
             /\ current < cur_base' \/ (current = cur_base' /\ cur_ptr <= off)
             /\ live' = live \cup {r}
             /\ drop_registry' \in {drop_registry, Append(drop_registry, r)}
  <2>1. PICK off \in Nat, r \in RegionType :
             /\ r = [blk |-> cur_base', off |-> off,
                     size |-> q.size, align |-> q.align]
             /\ off + q.size = cur_ptr'
             /\ current < cur_base' \/ (current = cur_base' /\ cur_ptr <= off)
             /\ live' = live \cup {r}
             /\ drop_registry' \in {drop_registry, Append(drop_registry, r)}
    BY <1>4
  <2>2. q.size \in Nat /\ off \in Nat /\ r.blk = cur_base' /\ r.off = off
    BY <2>1, RequestTyped
  <2>3. Advances
    BY <2>1, <2>2, <1>2 DEF Advances
  <2>4. r \notin live
    <3>1. r.blk \in Nat /\ r.off \in Nat /\ r.size \in Nat \ {0}
      BY DEF RegionType
    <3>2. r \in live => Below(r, current, cur_ptr)
      BY DEF Sound, IInv, WellPlaced
    <3> QED
      BY <2>1, <2>2, <3>1, <3>2, <1>2 DEF Below
  <2>5. Reached(current, cur_ptr)'
    BY <2>1, <2>2, <1>2 DEF Reached
  <2>6. CASE drop_registry' = drop_registry
    BY <2>1, <2>3, <2>6, <2>5, <1>1 DEF Sound, DropsOnLiveMemory, Registered
  <2>7. CASE drop_registry' = Append(drop_registry, r)
    <3>1. r \notin Registered /\ Registered \subseteq live
      BY <2>4 DEF Sound, DropsOnLiveMemory
    <3>2. /\ Registered' = Registered \cup {r}
          /\ \A i, j \in 1 .. Len(drop_registry') :
               drop_registry'[i] = drop_registry'[j] => i = j
      BY <2>7, <3>1, GrowRegistry
    <3>3. DropsOnLiveMemory'
      BY <2>1, <3>1, <3>2 DEF DropsOnLiveMemory
    <3> QED
      BY <2>3, <2>5, <3>3, <1>1 DEF Sound
  <2> QED
    BY <2>1, <2>6, <2>7
<1> QED
  <2>1. \/ UNCHANGED <<live, drop_registry, cur_base, cur_ptr>>
        \/ \E off \in Nat, r \in RegionType :
             /\ r = [blk |-> cur_base', off |-> off,
                     size |-> q.size, align |-> q.align]
             /\ off + q.size = cur_ptr'
             /\ current < cur_base' \/ (current = cur_base' /\ cur_ptr <= off)
             /\ live' = live \cup {r}
             /\ drop_registry' \in {drop_registry, Append(drop_registry, r)}
    BY AllocationOutcome DEF Sound
  <2> QED
    BY <2>1, <1>3, <1>4

\* register_drop registers a region the caller holds, once.
LEMMA RegisterSoundStep ==
  ASSUME Sound, NEW r \in live, RegisterDrop(r)
  PROVE  Sound' /\ BlocksKept /\ Advances
<1>1. /\ r \in RegionType /\ r \notin Registered /\ Registered \subseteq live
      /\ UNCHANGED <<live, cursor>>
      /\ drop_registry' \in {drop_registry, Append(drop_registry, r)}
  BY DEF RegisterDrop, Sound, IInv, TypeOK, DropsOnLiveMemory
<1>2. IInv' /\ BlocksKept
  BY RegisterDropStep DEF Sound
<1>3. Advances /\ Reached(current, cur_ptr)'
  <2>1. current' = current /\ cur_ptr' = cur_ptr /\ cur_ptr \in Nat
    BY <1>1 DEF cursor, Sound, IInv, TypeOK
  <2> QED
    BY <1>1, <2>1 DEF Advances, Sound, Reached
<1>4. CASE drop_registry' = drop_registry
  BY <1>1, <1>2, <1>3, <1>4 DEF Sound, DropsOnLiveMemory, Registered
<1>5. CASE drop_registry' = Append(drop_registry, r)
  <2>1. /\ Registered' = Registered \cup {r}
        /\ \A i, j \in 1 .. Len(drop_registry') :
             drop_registry'[i] = drop_registry'[j] => i = j
    BY <1>1, <1>5, GrowRegistry
  <2>2. DropsOnLiveMemory'
    BY <2>1, <1>1 DEF DropsOnLiveMemory
  <2> QED
    BY <2>2, <1>2, <1>3 DEF Sound
<1> QED
  BY <1>1, <1>4, <1>5

\* Taking a checkpoint changes nothing else.
LEMMA TakeCheckpointSoundStep ==
  ASSUME Sound, TakeCheckpoint
  PROVE  Sound' /\ BlocksKept /\ Advances
<1>1. UNCHANGED <<cursor, live, drop_registry>>
  BY DEF TakeCheckpoint
<1>2. IInv' /\ BlocksKept
  BY TakeCheckpointStep DEF Sound
<1>3. current' = current /\ cur_ptr' = cur_ptr /\ cur_ptr \in Nat
  BY <1>1 DEF cursor, Sound, IInv, TypeOK
<1> QED
  BY <1>1, <1>2, <1>3 DEF Sound, DropsOnLiveMemory, Registered, Reached, Advances

\* rewind to a valid checkpoint, completed or left by a panicking destructor:
\* the registry is cut exactly at its length, and values and memory kept match.
LEMMA RewindSoundStep ==
  ASSUME Sound, NEW cp, Valid(cp), Rewind(cp) \/ RewindPanics(cp)
  PROVE  /\ Sound' /\ BlocksKept
         /\ Len(drop_registry') = cp.drop_registry_len
         /\ Len(drop_registry) \in Nat
         /\ drop_registry' = SubSeq(drop_registry, 1, cp.drop_registry_len)
         /\ \A k \in 1 .. cp.drop_registry_len : drop_registry'[k] = drop_registry[k]
         /\ live' \in {live, {r \in live : Below(r, cp.block_idx, cp.offset)}}
<1>1. /\ cp \in CheckpointType /\ Restorable(cp) /\ Separates(cp)
      /\ cp.drop_registry_len \in Nat
  BY DEF Valid, CheckpointType
<1>2. /\ drop_registry' = Undropped(cp.drop_registry_len)
      /\ live' \in {live, {r \in live : Below(r, cp.block_idx, cp.offset)}}
  BY DEF Rewind, RewindPanics, DropPanics
<1>3. IInv' /\ BlocksKept
  <2>1. CASE Rewind(cp)
    BY <1>1, <2>1, RewindStep, PartOfIInv DEF Sound
  <2>2. CASE RewindPanics(cp)
    BY <1>1, <2>2, DropPanicsStep DEF RewindPanics, Sound
  <2> QED
    BY <2>1, <2>2
<1>4. /\ Len(drop_registry') = Smaller(cp.drop_registry_len, Len(drop_registry))
      /\ Len(drop_registry) \in Nat
      /\ \A k \in 1 .. Len(drop_registry') : /\ k \in 1 .. Len(drop_registry)
                                             /\ k <= cp.drop_registry_len
                                             /\ drop_registry'[k] = drop_registry[k]
      /\ \A i, j \in 1 .. Len(drop_registry') :
           drop_registry'[i] = drop_registry'[j] => i = j
  BY <1>1, <1>2, CutRegistry
<1>5. Smaller(cp.drop_registry_len, Len(drop_registry)) = cp.drop_registry_len
  BY <1>1, <1>4 DEF Smaller, Separates
<1>6. Registered' \subseteq live'
  <2> SUFFICES ASSUME NEW k \in 1 .. Len(drop_registry')
               PROVE  drop_registry'[k] \in live'
    BY DEF Registered
  <2>1. drop_registry'[k] \in live
    BY <1>4 DEF Sound, DropsOnLiveMemory, Registered
  <2>2. Below(drop_registry'[k], cp.block_idx, cp.offset)
    <3>1. k \in 1 .. cp.drop_registry_len /\ drop_registry'[k] = drop_registry[k]
      BY <1>4, <1>5
    <3> QED
      BY <3>1, <1>1 DEF Separates
  <2> QED
    BY <2>1, <2>2, <1>2
<1>7. Reached(current, cur_ptr)'
  <2>1. CASE Rewind(cp)
    <3>1. current' = cp.block_idx /\ cur_ptr' = cp.offset
      BY <2>1, RewoundBlocksType, PartOfIInv DEF Rewind, SetCurrentBlock, Sound, Valid
    <3>2. live' = {r \in live : Below(r, cp.block_idx, cp.offset)}
      BY <2>1 DEF Rewind
    <3>3. \A r \in live : r.off + r.size \in Nat
      BY DEF Sound, IInv, TypeOK, RegionType
    <3> QED
      BY <1>1, <3>1, <3>2, <3>3 DEF Valid, Reached, Below, CheckpointType
  <2>2. CASE RewindPanics(cp)
    BY <2>2 DEF RewindPanics, DropPanics, cursor, Sound, Reached
  <2> QED
    BY <2>1, <2>2
<1>8. Sound'
  BY <1>3, <1>4, <1>6, <1>7 DEF Sound, DropsOnLiveMemory
<1>9. drop_registry' = SubSeq(drop_registry, 1, cp.drop_registry_len)
  BY <1>2, <1>5 DEF Undropped
<1> QED
  BY <1>2, <1>3, <1>4, <1>5, <1>8, <1>9

\* It keeps valid every checkpoint taken no later.
LEMMA RewindKeepsValid ==
  ASSUME Sound, NEW cp, Valid(cp), Rewind(cp) \/ RewindPanics(cp),
         NEW c, Valid(c), NoLater(c, cp)
  PROVE  Valid(c)'
<1>1. /\ c \in CheckpointType /\ c.block_idx \in Nat /\ c.offset \in Nat
      /\ c.drop_registry_len \in Nat /\ cp.drop_registry_len \in Nat
      /\ c.drop_registry_len <= cp.drop_registry_len
  BY DEF Valid, CheckpointType, NoLater
<1>2. /\ Sound' /\ BlocksKept
      /\ Len(drop_registry') = cp.drop_registry_len
      /\ \A k \in 1 .. cp.drop_registry_len : drop_registry'[k] = drop_registry[k]
  BY RewindSoundStep
<1>3. Restorable(c)'
  <2>1. Len(blocks') \in Nat
    BY <1>2, LenProperties DEF Sound, IInv, TypeOK
  <2> QED
    BY <2>1, <1>1, <1>2, RestorableKept, PartOfIInv DEF Sound, IInv, Valid
<1>4. Separates(c)'
  BY <1>1, <1>2 DEF Valid, Separates
<1>5. NoLater(c, Here)'
  <2>1. \/ current' = cp.block_idx /\ cur_ptr' = cp.offset
        \/ current' = current /\ cur_ptr' = cur_ptr
    <3>1. CASE Rewind(cp)
      <4>1. SetCurrentBlock(RewoundBlocks(cp), cp.block_idx)
        BY <3>1 DEF Rewind
      <4>2. RewoundBlocks(cp)[cp.block_idx].offset = cp.offset
        BY RewoundBlocksType, PartOfIInv DEF Sound, Valid
      <4> QED
        BY <4>1, <4>2 DEF SetCurrentBlock
    <3>2. CASE RewindPanics(cp)
      BY <3>2 DEF RewindPanics, DropPanics, cursor
    <3> QED
      BY <3>1, <3>2
  <2>2. /\ c.block_idx < cp.block_idx \/ (c.block_idx = cp.block_idx /\ c.offset <= cp.offset)
        /\ c.block_idx < current \/ (c.block_idx = current /\ c.offset <= cur_ptr)
    BY DEF NoLater, Valid, Here
  <2>3. /\ c.block_idx < current' \/ (c.block_idx = current' /\ c.offset <= cur_ptr')
        /\ c.drop_registry_len <= Len(drop_registry')
    BY <2>1, <2>2, <1>1, <1>2
  <2> QED
    BY <2>3 DEF NoLater, Here
<1>6. Reached(c.block_idx, c.offset)'
  <2>1. CASE c.block_idx = 1 /\ c.offset = 0
    BY <2>1 DEF Reached
  <2>2. CASE \E r \in live : r.blk = c.block_idx /\ r.off + r.size = c.offset
    <3>1. PICK r \in live : r.blk = c.block_idx /\ r.off + r.size = c.offset
      BY <2>2
    <3>2. r \in RegionType /\ Below(r, c.block_idx, c.offset)
      BY <3>1, <1>1 DEF Sound, IInv, TypeOK, Below
    <3>3. r \in live'
      BY <3>2, BelowLater, RewindSoundStep DEF Valid
    <3> QED
      BY <3>1, <3>3 DEF Reached
  <2> QED
    BY <2>1, <2>2 DEF Valid, Reached
<1> QED
  BY <1>1, <1>3, <1>4, <1>5, <1>6 DEF Valid

\* reset drops all, also when a destructor panics.
LEMMA ResetSoundStep ==
  ASSUME Sound, Reset \/ ResetPanics
  PROVE  Sound' /\ BlocksKept /\ drop_registry' = <<>> /\ live' \in {live, {}}
<1>1. drop_registry' = <<>>
  <2>1. drop_registry \in Seq(RegionType) /\ Len(drop_registry) \in Nat
    BY LenProperties DEF Sound, IInv, TypeOK
  <2>2. Undropped(0) = <<>>
    <3>1. Smaller(0, Len(drop_registry)) = 0
      BY <2>1 DEF Smaller
    <3> QED
      BY <3>1, SubSeqEmpty DEF Undropped
  <2> QED
    BY <2>2 DEF Reset, ResetPanics, DropPanics
<1>2. IInv' /\ BlocksKept
  <2>1. CASE Reset
    BY <2>1, ResetStep, PartOfIInv DEF Sound
  <2>2. CASE ResetPanics
    BY <2>2, DropPanicsStep DEF ResetPanics, Sound
  <2> QED
    BY <2>1, <2>2
<1>3. DropsOnLiveMemory'
  BY <1>1 DEF DropsOnLiveMemory, Registered
<1>4. live' \in {live, {}}
  BY DEF Reset, ResetPanics, DropPanics
<1>5. Reached(current, cur_ptr)'
  BY DEF Reset, ResetPanics, DropPanics, cursor, Sound, Reached
<1> QED
  BY <1>1, <1>2, <1>3, <1>4, <1>5 DEF Sound

-----------------------------------------------------------------------------
\* A step that advances and takes no checkpoint keeps the invariant.
LEMMA AdvancePromiseStep ==
  ASSUME PromiseIInv, Sound', BlocksKept, Advances, checkpoints' = checkpoints
  PROVE  PromiseIInv'
<1>1. \A c \in checkpoints : Valid(c)'
  BY AdvanceKeepsValid DEF PromiseIInv, Sound
<1> QED
  BY <1>1 DEF PromiseIInv, Chain

\* Every valid checkpoint was taken no later than one taken here.
LEMMA TakeCheckpointPromiseStep ==
  ASSUME PromiseIInv, TakeCheckpoint
  PROVE  PromiseIInv'
<1>1. checkpoints' = checkpoints \cup {Here}
  BY DEF TakeCheckpoint
<1>2. Sound' /\ BlocksKept /\ Advances
  BY TakeCheckpointSoundStep DEF PromiseIInv
<1>3. \A c \in checkpoints' : Valid(c)
  BY <1>1, HereValid DEF PromiseIInv
<1>4. \A c \in checkpoints' : Valid(c)'
  BY <1>2, <1>3, AdvanceKeepsValid DEF PromiseIInv, Sound
<1>5. \A c \in checkpoints' : NoLater(c, Here)
  BY <1>3 DEF Valid
<1>6. Chain(checkpoints')
  BY <1>1, <1>5 DEF PromiseIInv, Chain
<1> QED
  BY <1>2, <1>4, <1>6 DEF PromiseIInv, Chain

\* A rewind to a valid checkpoint keeps the valid checkpoints taken no later;
\* `cp` may be one the caller holds, or an open guard's.
LEMMA RewindPromiseStep ==
  ASSUME PromiseIInv, ~StaleUse, NEW cp, Valid(cp), Rewind(cp) \/ RewindPanics(cp)
  PROVE  PromiseIInv'
<1>1. checkpoints' = {c \in checkpoints : NoLater(c, cp)}
  BY DEF Rewind, RewindPanics, DropPanics, Keep
<1>2. Sound'
  BY RewindSoundStep DEF PromiseIInv
<1>3. \A c \in checkpoints' : Valid(c)'
  BY <1>1, RewindKeepsValid DEF PromiseIInv
<1> QED
  BY <1>1, <1>2, <1>3 DEF PromiseIInv, Chain

\* reset forgets every checkpoint.
LEMMA ResetPromiseStep ==
  ASSUME PromiseIInv, ~StaleUse, Reset \/ ResetPanics
  PROVE  PromiseIInv'
<1>1. checkpoints' = {}
  BY DEF Reset, ResetPanics, DropPanics, Keep
<1> QED
  BY <1>1, ResetSoundStep DEF PromiseIInv, Chain

\* An allocation or a registration only advances.
LEMMA GrowthPromiseStep ==
  ASSUME PromiseIInv,
         \/ \E q \in Requests : Alloc(q) \/ TryAlloc(q)
         \/ \E r \in live : RegisterDrop(r)
  PROVE  PromiseIInv'
<1>1. CASE \E q \in Requests : Alloc(q) \/ TryAlloc(q)
  <2>1. PICK q \in Requests : Alloc(q) \/ TryAlloc(q)
    BY <1>1
  <2>2. q \in RequestType
    BY ArenaAssumption
  <2>3. Sound' /\ BlocksKept /\ Advances /\ checkpoints' = checkpoints
    BY <2>1, <2>2, AllocSoundStep, AllocationOutcome DEF PromiseIInv, Sound
  <2> QED
    BY <2>3, AdvancePromiseStep
<1>2. CASE \E r \in live : RegisterDrop(r)
  <2>1. PICK r \in live : RegisterDrop(r)
    BY <1>2
  <2>2. Sound' /\ BlocksKept /\ Advances
    BY <2>1, RegisterSoundStep DEF PromiseIInv
  <2>3. checkpoints' = checkpoints
    BY <2>1 DEF RegisterDrop
  <2> QED
    BY <2>2, <2>3, AdvancePromiseStep
<1> QED
  BY <1>1, <1>2

\* A stuttering step changes nothing the invariant is about.
LEMMA StutterPromiseStep ==
  ASSUME PromiseIInv, UNCHANGED vars
  PROVE  PromiseIInv'
<1>1. UNCHANGED <<live, drop_registry, checkpoints, cursor>>
  BY DEF vars
<1>2. IInv' /\ BlocksKept
  BY NextIInv DEF PromiseIInv, Sound
<1>3. current' = current /\ cur_ptr' = cur_ptr /\ cur_ptr \in Nat
  BY <1>1 DEF cursor, PromiseIInv, Sound, IInv, TypeOK
<1>4. Sound' /\ Advances
  BY <1>1, <1>2, <1>3 DEF PromiseIInv, Sound, DropsOnLiveMemory, Registered, Reached, Advances
<1> QED
  BY <1>1, <1>2, <1>4, AdvancePromiseStep

\* Every call keeps the invariant.
LEMMA PromiseNextStep ==
  ASSUME ~StaleUse, PromiseIInv, [Next]_vars
  PROVE  PromiseIInv'
<1>1. CASE \/ \E q \in Requests : Alloc(q) \/ TryAlloc(q)
           \/ \E r \in live : RegisterDrop(r)
  BY <1>1, GrowthPromiseStep
<1>2. CASE TakeCheckpoint
  BY <1>2, TakeCheckpointPromiseStep
<1>3. CASE \E cp \in checkpoints : Rewind(cp) \/ RewindPanics(cp)
  BY <1>3, RewindPromiseStep DEF PromiseIInv
<1>4. CASE Reset \/ ResetPanics
  BY <1>4, ResetPromiseStep
<1>5. CASE UNCHANGED vars
  BY <1>5, StutterPromiseStep
<1> QED
  BY <1>1, <1>2, <1>3, <1>4, <1>5 DEF Next

\* It holds in a new arena.
LEMMA InitPromiseIInv ==
  Init => PromiseIInv
<1> SUFFICES ASSUME Init PROVE PromiseIInv
  OBVIOUS
<1>1. IInv
  BY InitIInv
<1>2. drop_registry = <<>> /\ checkpoints = {} /\ current = 1 /\ cur_ptr = 0
  BY DEF Init
<1>3. Len(drop_registry) = 0
  BY <1>2
<1> QED
  BY <1>1, <1>2, <1>3 DEF PromiseIInv, Sound, Chain, Reached, DropsOnLiveMemory, Registered

\* The invariant holds in every reachable state.
LEMMA PromiseInductive ==
  ASSUME ~StaleUse
  PROVE  Spec => []PromiseIInv
<1>1. PromiseIInv /\ [Next]_vars => PromiseIInv'
  BY PromiseNextStep
<1> QED
  BY <1>1, InitPromiseIInv, PTL DEF Spec

\* No destructor is registered twice or for memory that was reclaimed, so none
\* ever runs on bytes that are somebody else's.
THEOREM DestructorsOwnTheirMemory ==
  ASSUME ~StaleUse
  PROVE  Spec => []DropsOnLiveMemory
<1>1. PromiseIInv => DropsOnLiveMemory
  BY DEF PromiseIInv, Sound
<1> QED
  BY <1>1, PromiseInductive, PTL

\* A rewind or reset has run the destructor of every registered value whose
\* memory it takes back.
THEOREM NothingReclaimedUndropped ==
  ASSUME ~StaleUse
  PROVE  Spec => ReclaimedAreDropped
<1>1. PromiseIInv' =>
        [\A r \in live \ live' :
           \A k \in 1 .. Len(drop_registry') : drop_registry'[k] # r]_vars
  BY DEF PromiseIInv, Sound, DropsOnLiveMemory, Registered
<1> QED
  BY <1>1, PromiseInductive, PTL DEF Spec, ReclaimedAreDropped
-----------------------------------------------------------------------------
(* The refinement of AbstractArena *)

\* The abstract snapshots, named.
Snapshots == {SnapshotOf(c) : c \in checkpoints}

\* The registry part of a valid checkpoint's snapshot.
LEMMA SnapshotOwed ==
  ASSUME Sound, NEW c, Valid(c)
  PROVE  /\ Len(SnapshotOf(c).owed) = c.drop_registry_len
         /\ \A k \in 1 .. c.drop_registry_len : SnapshotOf(c).owed[k] = drop_registry[k]
         /\ SnapshotOf(c).owed = SubSeq(drop_registry, 1, c.drop_registry_len)
         /\ SnapshotOf(c).live = {r \in live : Below(r, c.block_idx, c.offset)}
<1> DEFINE n == c.drop_registry_len
<1>1. n \in Nat /\ n <= Len(drop_registry)
  BY DEF Valid, CheckpointType, Separates
<1>2. drop_registry \in Seq(RegionType) /\ Len(drop_registry) \in Nat
  BY LenProperties DEF Sound, IInv, TypeOK
<1>3. \A k \in 1 .. n : drop_registry[k] \in RegionType
  BY <1>1, <1>2, ElementOfSeq
<1>4. /\ SnapshotOf(c).owed = SubSeq(drop_registry, 1, n)
      /\ SnapshotOf(c).live = {r \in live : Below(r, c.block_idx, c.offset)}
  BY DEF SnapshotOf
<1> HIDE DEF n
<1>5. /\ Len(SubSeq(drop_registry, 1, n)) = n
      /\ \A k \in 1 .. n : SubSeq(drop_registry, 1, n)[k] = drop_registry[k]
  BY <1>1, <1>3, SubSeqProperties
<1> QED
  BY <1>4, <1>5 DEF n

\* Two beginnings of the registry of the same length, now or after a step that
\* keeps that much of it, are the same.
LEMMA SamePrefix ==
  ASSUME NEW s \in Seq(RegionType), NEW t \in Seq(RegionType), NEW n \in Nat,
         n <= Len(s), n <= Len(t), \A k \in 1 .. n : s[k] = t[k]
  PROVE  SubSeq(s, 1, n) = SubSeq(t, 1, n)
<1>1. \A k \in 1 .. n : s[k] \in RegionType /\ t[k] \in RegionType
  BY LenProperties, ElementOfSeq
<1>2. /\ SubSeq(s, 1, n) \in Seq(RegionType) /\ Len(SubSeq(s, 1, n)) = n
      /\ \A k \in 1 .. n : SubSeq(s, 1, n)[k] = s[k]
  BY <1>1, SubSeqProperties
<1>3. /\ SubSeq(t, 1, n) \in Seq(RegionType) /\ Len(SubSeq(t, 1, n)) = n
      /\ \A k \in 1 .. n : SubSeq(t, 1, n)[k] = t[k]
  BY <1>1, SubSeqProperties
<1> QED
  BY <1>2, <1>3, SeqEqual

\* The order of the checkpoints is that of what they hold.
LEMMA SnapshotOrder ==
  ASSUME Sound, NEW c, Valid(c), NEW d, Valid(d), NoLater(c, d) \/ NoLater(d, c)
  PROVE  NoLater(c, d) <=> Abs!NoLater(SnapshotOf(c), SnapshotOf(d))
<1>1. /\ Len(SnapshotOf(c).owed) = c.drop_registry_len
      /\ SnapshotOf(c).live = {r \in live : Below(r, c.block_idx, c.offset)}
      /\ Len(SnapshotOf(d).owed) = d.drop_registry_len
      /\ SnapshotOf(d).live = {r \in live : Below(r, d.block_idx, d.offset)}
  BY SnapshotOwed
<1>2. /\ c \in CheckpointType /\ d \in CheckpointType /\ live \subseteq RegionType
      /\ c.block_idx \in Nat \ {0} /\ c.offset \in Nat /\ c.drop_registry_len \in Nat
      /\ d.block_idx \in Nat \ {0} /\ d.offset \in Nat /\ d.drop_registry_len \in Nat
  BY DEF Valid, CheckpointType, Sound, IInv, TypeOK
<1>3. ASSUME NoLater(c, d)
      PROVE  Abs!NoLater(SnapshotOf(c), SnapshotOf(d))
  <2>1. SnapshotOf(c).live \subseteq SnapshotOf(d).live
    BY <1>1, <1>2, <1>3, BelowLater
  <2>2. c.drop_registry_len <= d.drop_registry_len
    BY <1>3 DEF NoLater
  <2> QED
    BY <2>1, <2>2, <1>1 DEF Abs!NoLater
<1>4. ASSUME Abs!NoLater(SnapshotOf(c), SnapshotOf(d)), ~NoLater(c, d)
      PROVE  FALSE
  <2>1. /\ SnapshotOf(c).live \subseteq SnapshotOf(d).live
        /\ c.drop_registry_len <= d.drop_registry_len
    BY <1>1, <1>4 DEF Abs!NoLater
  <2>2. d.block_idx < c.block_idx \/ (d.block_idx = c.block_idx /\ d.offset < c.offset)
    BY <1>2, <1>4, <2>1 DEF NoLater
  <2>3. PICK r \in live : r.blk = c.block_idx /\ r.off + r.size = c.offset
    BY <1>2, <2>2 DEF Valid, Reached
  <2>4. r.blk \in Nat /\ r.off + r.size \in Nat
    BY <1>2 DEF RegionType
  <2>5. Below(r, c.block_idx, c.offset) /\ ~Below(r, d.block_idx, d.offset)
    BY <1>2, <2>2, <2>3, <2>4 DEF Below
  <2> QED
    BY <1>1, <2>1, <2>5
<1> QED
  BY <1>3, <1>4

\* The snapshot of this very state.
LEMMA SnapshotHere ==
  ASSUME Sound
  PROVE  SnapshotOf(Here) = [live |-> live, owed |-> drop_registry]
<1>1. /\ Here.block_idx = current /\ Here.offset = cur_ptr
      /\ Here.drop_registry_len = Len(drop_registry)
  BY DEF Here
<1>2. {r \in live : Below(r, current, cur_ptr)} = live
  BY DEF Sound, IInv, WellPlaced
<1>3. SubSeq(drop_registry, 1, Len(drop_registry)) = drop_registry
  BY SubSeqFull DEF Sound, IInv, TypeOK
<1> QED
  BY <1>1, <1>2, <1>3 DEF SnapshotOf

\* Handing out regions beyond the cursor and registering destructors leave what
\* a valid checkpoint stands for.
LEMMA SnapshotKept ==
  ASSUME Sound, Sound', Advances, NEW c, Valid(c), NEW new \in SUBSET RegionType,
         live' = live \cup new,
         \A r \in new : current < r.blk \/ (current = r.blk /\ cur_ptr <= r.off)
  PROVE  SnapshotOf(c)' = SnapshotOf(c)
<1>1. /\ c \in CheckpointType /\ c.drop_registry_len \in Nat
      /\ c.drop_registry_len <= Len(drop_registry)
  BY DEF Valid, CheckpointType, Separates
<1>2. \A r \in new : ~Below(r, c.block_idx, c.offset)
  BY <1>1, BeyondCheckpoint DEF Valid, Sound
<1>3. {r \in live' : Below(r, c.block_idx, c.offset)}
        = {r \in live : Below(r, c.block_idx, c.offset)}
  BY <1>2
<1>4. /\ drop_registry \in Seq(RegionType) /\ drop_registry' \in Seq(RegionType)
      /\ Len(drop_registry) \in Nat
  BY LenProperties DEF Sound, IInv, TypeOK
<1>5. /\ c.drop_registry_len <= Len(drop_registry')
      /\ \A k \in 1 .. c.drop_registry_len : drop_registry'[k] = drop_registry[k]
  <2>1. CASE drop_registry' = drop_registry
    BY <2>1, <1>1
  <2>2. CASE \E r \in RegionType : drop_registry' = Append(drop_registry, r)
    <3>1. PICK r \in RegionType : drop_registry' = Append(drop_registry, r)
      BY <2>2
    <3>2. /\ Len(drop_registry') = Len(drop_registry) + 1
          /\ \A k \in 1 .. Len(drop_registry) : drop_registry'[k] = drop_registry[k]
      BY <1>4, <3>1, AppendProperties
    <3> QED
      BY <1>1, <1>4, <3>2
  <2> QED
    BY <2>1, <2>2 DEF Advances
<1>6. SubSeq(drop_registry', 1, c.drop_registry_len)
        = SubSeq(drop_registry, 1, c.drop_registry_len)
  BY <1>1, <1>4, <1>5, SamePrefix
<1> QED
  BY <1>3, <1>6 DEF SnapshotOf

\* A rewind leaves what the checkpoints taken no later stand for.
LEMMA SnapshotRewound ==
  ASSUME Sound, NEW cp, Valid(cp), Rewind(cp) \/ RewindPanics(cp),
         NEW c, Valid(c), NoLater(c, cp)
  PROVE  SnapshotOf(c)' = SnapshotOf(c)
<1>1. /\ Sound'
      /\ Len(drop_registry') = cp.drop_registry_len
      /\ Len(drop_registry) \in Nat
      /\ \A k \in 1 .. cp.drop_registry_len : drop_registry'[k] = drop_registry[k]
      /\ live' \in {live, {r \in live : Below(r, cp.block_idx, cp.offset)}}
  BY RewindSoundStep
<1>2. /\ c \in CheckpointType /\ cp \in CheckpointType
      /\ c.drop_registry_len \in Nat /\ cp.drop_registry_len \in Nat
      /\ c.drop_registry_len <= cp.drop_registry_len
      /\ c.drop_registry_len <= Len(drop_registry)
      /\ live \subseteq RegionType
  BY DEF Valid, CheckpointType, Separates, NoLater, Sound, IInv, TypeOK
<1>3. \A r \in live : Below(r, c.block_idx, c.offset) => Below(r, cp.block_idx, cp.offset)
  BY <1>2, BelowLater
<1>4. {r \in live' : Below(r, c.block_idx, c.offset)}
        = {r \in live : Below(r, c.block_idx, c.offset)}
  BY <1>1, <1>3
<1>5. drop_registry \in Seq(RegionType) /\ drop_registry' \in Seq(RegionType)
  BY <1>1 DEF Sound, IInv, TypeOK
<1>6. \A k \in 1 .. c.drop_registry_len : drop_registry'[k] = drop_registry[k]
  BY <1>1, <1>2
<1>7. SubSeq(drop_registry', 1, c.drop_registry_len)
        = SubSeq(drop_registry, 1, c.drop_registry_len)
  BY <1>1, <1>2, <1>5, <1>6, SamePrefix
<1> QED
  BY <1>4, <1>7 DEF SnapshotOf

\* What an allocation hands out, if anything: one region beyond the cursor.
LEMMA AllocHandsOut ==
  ASSUME IInv, NEW q \in RequestType, Alloc(q) \/ TryAlloc(q)
  PROVE  /\ checkpoints' = checkpoints
         /\ \/ UNCHANGED <<live, drop_registry>>
            \/ \E r \in RegionType :
                 /\ current < r.blk \/ (current = r.blk /\ cur_ptr <= r.off)
                 /\ live' = live \cup {r}
                 /\ drop_registry' \in {drop_registry, Append(drop_registry, r)}
<1>1. /\ checkpoints' = checkpoints
      /\ \/ UNCHANGED <<live, drop_registry>>
         \/ \E off \in Nat, r \in RegionType :
              /\ r = [blk |-> cur_base', off |-> off,
                      size |-> q.size, align |-> q.align]
              /\ current < cur_base' \/ (current = cur_base' /\ cur_ptr <= off)
              /\ live' = live \cup {r}
              /\ drop_registry' \in {drop_registry, Append(drop_registry, r)}
  BY AllocationOutcome
<1> QED
  BY <1>1

\* No valid checkpoint stands for anything else after an allocation.
LEMMA AllocKeepsSnapshots ==
  ASSUME Sound, NEW q \in RequestType, Alloc(q) \/ TryAlloc(q), NEW c, Valid(c)
  PROVE  SnapshotOf(c)' = SnapshotOf(c)
<1>1. Sound' /\ Advances /\ IInv
  BY AllocSoundStep DEF Sound
<1>2. CASE UNCHANGED <<live, drop_registry>>
  BY <1>2 DEF SnapshotOf
<1>3. CASE \E r \in RegionType :
             /\ current < r.blk \/ (current = r.blk /\ cur_ptr <= r.off)
             /\ live' = live \cup {r}
  <2>1. PICK r \in RegionType :
             /\ current < r.blk \/ (current = r.blk /\ cur_ptr <= r.off)
             /\ live' = live \cup {r}
    BY <1>3
  <2>2. {r} \in SUBSET RegionType
    BY <2>1
  <2> QED
    BY <1>1, <2>1, <2>2, SnapshotKept
<1> QED
  BY <1>1, <1>2, <1>3, AllocHandsOut

\* Nor after a registration.
LEMMA RegisterKeepsSnapshots ==
  ASSUME Sound, NEW r \in live, RegisterDrop(r), NEW c, Valid(c)
  PROVE  SnapshotOf(c)' = SnapshotOf(c)
<1>1. Sound' /\ Advances
  BY RegisterSoundStep
<1>2. {} \in SUBSET RegionType /\ live' = live \cup {}
  BY DEF RegisterDrop
<1> QED
  BY <1>1, <1>2, SnapshotKept

\* An allocation is one of AbstractArena, or nothing it can see.
LEMMA AllocRefines ==
  ASSUME PromiseIInv, NEW q \in RequestType, Alloc(q) \/ TryAlloc(q)
  PROVE  Abs!Next \/ UNCHANGED Abs!vars
<1>1. Sound /\ IInv
  BY DEF PromiseIInv, Sound
<1>2. checkpoints' = checkpoints
  BY <1>1, AllocHandsOut
<1>3. Snapshots' = Snapshots
  <2>1. \A c \in checkpoints : SnapshotOf(c)' = SnapshotOf(c)
    BY <1>1, AllocKeepsSnapshots DEF PromiseIInv
  <2> QED
    BY <2>1, <1>2 DEF Snapshots
<1>4. CASE UNCHANGED <<live, drop_registry>>
  BY <1>3, <1>4 DEF Abs!vars, Snapshots
<1>5. CASE \E r \in RegionType :
             /\ current < r.blk \/ (current = r.blk /\ cur_ptr <= r.off)
             /\ live' = live \cup {r}
             /\ drop_registry' \in {drop_registry, Append(drop_registry, r)}
  <2>1. PICK r \in RegionType :
             /\ current < r.blk \/ (current = r.blk /\ cur_ptr <= r.off)
             /\ live' = live \cup {r}
             /\ drop_registry' \in {drop_registry, Append(drop_registry, r)}
    BY <1>5
  <2>2. \A s \in live : Disjoint(r, s)
    <3> TAKE s \in live
    <3>1. s \in RegionType /\ Below(s, current, cur_ptr)
      BY <1>1 DEF IInv, TypeOK, WellPlaced
    <3>2. current \in Nat /\ cur_ptr \in Nat
      BY <1>1, LenProperties DEF IInv, TypeOK
    <3> QED
      BY <2>1, <3>1, <3>2 DEF RegionType, Below, Disjoint
  <2>3. Abs!Allocate(r) /\ r \in live'
    BY <1>3, <2>1, <2>2 DEF Abs!Allocate, Abs!Disjoint, Disjoint, Snapshots
  <2> QED
    BY <2>3 DEF Abs!Next
<1> QED
  BY <1>1, <1>4, <1>5, AllocHandsOut

\* A registration is one of AbstractArena, unless it fails.
LEMMA RegisterRefines ==
  ASSUME PromiseIInv, NEW r \in live, RegisterDrop(r)
  PROVE  Abs!Next \/ UNCHANGED Abs!vars
<1>1. Sound /\ \A c \in checkpoints : Valid(c)
  BY DEF PromiseIInv
<1>2. /\ live' = live /\ checkpoints' = checkpoints
      /\ drop_registry' \in {drop_registry, Append(drop_registry, r)}
  BY DEF RegisterDrop
<1>3. Snapshots' = Snapshots
  <2>1. \A c \in checkpoints : SnapshotOf(c)' = SnapshotOf(c)
    BY <1>1, RegisterKeepsSnapshots
  <2> QED
    BY <2>1, <1>2 DEF Snapshots
<1>4. CASE drop_registry' = drop_registry
  BY <1>2, <1>3, <1>4 DEF Abs!vars, Snapshots
<1>5. CASE drop_registry' = Append(drop_registry, r)
  BY <1>2, <1>3, <1>5 DEF Abs!Next, Abs!Register, Snapshots
<1> QED
  BY <1>2, <1>4, <1>5

\* A checkpoint taken is a snapshot taken.
LEMMA TakeCheckpointRefines ==
  ASSUME PromiseIInv, TakeCheckpoint
  PROVE  Abs!Next
<1>1. /\ checkpoints' = checkpoints \cup {Here}
      /\ live' = live /\ drop_registry' = drop_registry
  BY DEF TakeCheckpoint
<1>2. \A c \in checkpoints' : SnapshotOf(c)' = SnapshotOf(c)
  BY <1>1 DEF SnapshotOf
<1>3. Snapshots' = {SnapshotOf(c) : c \in checkpoints \cup {Here}}
  BY <1>1, <1>2 DEF Snapshots
<1>4. SnapshotOf(Here) = [live |-> live, owed |-> drop_registry]
  BY SnapshotHere DEF PromiseIInv
<1>5. Snapshots' = Snapshots \cup {[live |-> live, owed |-> drop_registry]}
  BY <1>3, <1>4 DEF Snapshots
<1> QED
  BY <1>1, <1>5 DEF Abs!Next, Abs!Snapshot, Snapshots

\* A rewind to a valid checkpoint restores what it stands for; the checkpoint
\* may be one the caller holds, or an open guard's.
LEMMA RewindRestores ==
  ASSUME PromiseIInv, ~StaleUse, NEW cp, Valid(cp), Rewind(cp) \/ RewindPanics(cp),
         \A c \in checkpoints : NoLater(c, cp) \/ NoLater(cp, c)
  PROVE  Abs!Restore(SnapshotOf(cp))
<1>1. Sound /\ \A c \in checkpoints : Valid(c)
  BY DEF PromiseIInv
<1>2. checkpoints' = {c \in checkpoints : NoLater(c, cp)}
  BY DEF Rewind, RewindPanics, DropPanics, Keep
<1>3. /\ \/ ret' = "ok" /\ live' = SnapshotOf(cp).live
         \/ ret' = "panic" /\ live' = live
      /\ drop_registry' = SnapshotOf(cp).owed
  <2>1. drop_registry' = SnapshotOf(cp).owed
    BY <1>1, RewindSoundStep DEF SnapshotOf
  <2>2. CASE Rewind(cp)
    BY <2>1, <2>2 DEF Rewind, SnapshotOf
  <2>3. CASE RewindPanics(cp)
    BY <2>1, <2>3 DEF RewindPanics, DropPanics
  <2> QED
    BY <2>2, <2>3
<1>4. \A c \in checkpoints' : SnapshotOf(c)' = SnapshotOf(c)
  BY <1>1, <1>2, SnapshotRewound
<1>5. Snapshots' = {SnapshotOf(c) : c \in {d \in checkpoints : NoLater(d, cp)}}
  BY <1>2, <1>4 DEF Snapshots
<1>6. \A c \in checkpoints :
        NoLater(c, cp) <=> Abs!NoLater(SnapshotOf(c), SnapshotOf(cp))
  BY <1>1, SnapshotOrder
<1>7. Snapshots' = {t \in Snapshots : Abs!NoLater(t, SnapshotOf(cp))}
  BY <1>5, <1>6 DEF Snapshots
<1> QED
  BY <1>3, <1>7 DEF Abs!Restore, Abs!Leaves, Snapshots

\* A reset, completed or not, is that of AbstractArena.
LEMMA ResetRefines ==
  ASSUME PromiseIInv, ~StaleUse, Reset \/ ResetPanics
  PROVE  Abs!Next
<1>1. checkpoints' = {}
  BY DEF Reset, ResetPanics, DropPanics, Keep
<1>2. /\ drop_registry' = <<>>
      /\ \/ ret' = "ok" /\ live' = {}
         \/ ret' = "panic" /\ live' = live
  <2>1. drop_registry' = <<>>
    BY ResetSoundStep DEF PromiseIInv
  <2>2. CASE Reset
    BY <2>1, <2>2 DEF Reset
  <2>3. CASE ResetPanics
    BY <2>1, <2>3 DEF ResetPanics, DropPanics
  <2> QED
    BY <2>2, <2>3
<1>3. Snapshots' = {}
  BY <1>1 DEF Snapshots
<1> QED
  BY <1>2, <1>3 DEF Abs!Next, Abs!Reset, Abs!Leaves, Snapshots

\* The arena implements its promise: every call, whichever path it takes and
\* however it fails, is one of AbstractArena or invisible to it.
THEOREM ArenaKeepsItsPromise ==
  ASSUME ~StaleUse
  PROVE  Spec => ImplementsAbstract
<1>1. Init => Abs!Init
  BY DEF Init, Abs!Init
<1>2. PromiseIInv /\ [Next]_vars => [Abs!Next]_(Abs!vars)
  <2> SUFFICES ASSUME PromiseIInv, [Next]_vars
               PROVE  Abs!Next \/ UNCHANGED Abs!vars
    OBVIOUS
  <2>1. CASE \E q \in Requests : Alloc(q) \/ TryAlloc(q)
    BY <2>1, ArenaAssumption, AllocRefines
  <2>2. CASE \E r \in live : RegisterDrop(r)
    BY <2>2, RegisterRefines
  <2>3. CASE TakeCheckpoint
    BY <2>3, TakeCheckpointRefines
  <2>4. CASE \E cp \in checkpoints : Rewind(cp) \/ RewindPanics(cp)
    <3>1. PICK cp \in checkpoints : Rewind(cp) \/ RewindPanics(cp)
      BY <2>4
    <3>2. Valid(cp) /\ \A c \in checkpoints : NoLater(c, cp) \/ NoLater(cp, c)
      BY DEF PromiseIInv, Chain
    <3>3. Abs!Restore(SnapshotOf(cp))
      BY <3>1, <3>2, RewindRestores
    <3> QED
      BY <3>3 DEF Abs!Next
  <2>5. CASE Reset \/ ResetPanics
    BY <2>5, ResetRefines
  <2>6. CASE UNCHANGED vars
    <3>1. UNCHANGED <<live, drop_registry, checkpoints>>
      BY <2>6 DEF vars
    <3> QED
      BY <3>1 DEF Abs!vars, SnapshotOf
  <2> QED
    BY <2>1, <2>2, <2>3, <2>4, <2>5, <2>6 DEF Next
<1> QED
  BY <1>1, <1>2, PromiseInductive, PTL DEF Spec, Abs!Spec, ImplementsAbstract
=============================================================================
