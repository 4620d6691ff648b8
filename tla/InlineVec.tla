------------------------------ MODULE InlineVec ------------------------------
(***************************************************************************)
(* The vector behind the block list and the drop registry                  *)
(* (util/inline_vec.rs): N elements inline, then a heap buffer that        *)
(* doubles. Elements have a size and no panicking destructor, as Block and *)
(* DropSlot do.                                                            *)
(*                                                                         *)
(* Element i of the code is slot i of the storage in use; a slot that was  *)
(* never written, or that was moved out of, holds Uninit.                  *)
(***************************************************************************)
EXTENDS Integers, Sequences

CONSTANTS
  N,         \* inline capacity
  Elem,
  Uninit,
  MaxCap,    \* largest capacity whose layout is valid
  MaxPushes  \* bound: elements held at a time

ASSUME InlineVecAssumption ==
  /\ N \in Nat \ {0}
  /\ Uninit \notin Elem
  /\ MaxCap \in Nat /\ MaxPushes \in Nat

VARIABLES
  data,     \* the storage in use: [id, cap, slots], id = 0 for the inline array
  len,
  heap,     \* the buffers allocated and not freed: [id, cap]
  popped,   \* what the last pop returned: <<e>>, or <<>> for None
  dropped,  \* the elements dropped with the vector, in order
  alive     \* the vector has not been dropped

vars == <<data, len, heap, popped, dropped, alive>>

Empty(cap) == [i \in 0 .. cap - 1 |-> Uninit]

on_heap == data.id > 0

Init ==
  /\ data = [id |-> 0, cap |-> N, slots |-> Empty(N)]
  /\ len = 0
  /\ heap = {}
  /\ popped = <<>> /\ dropped = <<>>
  /\ alive = TRUE

Write(storage, i, e) == [storage EXCEPT !.slots[i] = e]

\* Room is left, inline or on the heap.
PushInPlace(e) ==
  /\ alive /\ len < MaxPushes
  /\ len < data.cap
  /\ data' = Write(data, len, e)
  /\ len' = len + 1
  /\ UNCHANGED <<heap, popped, dropped, alive>>

\* A buffer of twice the capacity with the first `count` elements copied.
Doubled(count) ==
  [id |-> data.id + 1, cap |-> 2 * data.cap,
   slots |-> [i \in 0 .. 2 * data.cap - 1 |->
                IF i < count THEN data.slots[i] ELSE Uninit]]

Buffer(storage) == [id |-> storage.id, cap |-> storage.cap]

\* Mutant: promotion copies one element short of the inline array.
PromoteOneShort(e) ==
  LET new == Doubled(N - 1) IN
  /\ alive /\ len < MaxPushes
  /\ ~on_heap /\ len >= N
  /\ new.cap <= MaxCap
  /\ data' = Write(new, len, e)
  /\ len' = len + 1
  /\ heap' = heap \cup {Buffer(new)}
  /\ UNCHANGED <<popped, dropped, alive>>

\* promote_and_push copies the N inline elements.
PromoteAndPush(e) ==
  LET new == Doubled(N) IN
  /\ alive /\ len < MaxPushes
  /\ ~on_heap /\ len >= N
  /\ new.cap <= MaxCap
  /\ data' = Write(new, len, e)
  /\ len' = len + 1
  /\ heap' = heap \cup {Buffer(new)}
  /\ UNCHANGED <<popped, dropped, alive>>

\* Mutant: growth frees the old buffer with the new capacity's layout.
GrowFreeingNewLayout(e) ==
  LET new == Doubled(len) IN
  /\ alive /\ len < MaxPushes
  /\ on_heap /\ len = data.cap
  /\ new.cap <= MaxCap
  /\ data' = Write(new, len, e)
  /\ len' = len + 1
  /\ heap' = (heap \cup {Buffer(new)}) \ {[id |-> data.id, cap |-> new.cap]}
  /\ UNCHANGED <<popped, dropped, alive>>

\* heap_grow frees the old buffer, with the layout of its capacity.
GrowAndPush(e) ==
  LET new == Doubled(len) IN
  /\ alive /\ len < MaxPushes
  /\ on_heap /\ len = data.cap
  /\ new.cap <= MaxCap
  /\ data' = Write(new, len, e)
  /\ len' = len + 1
  /\ heap' = (heap \cup {Buffer(new)}) \ {Buffer(data)}
  /\ UNCHANGED <<popped, dropped, alive>>

\* The capacity overflows or the heap is exhausted: push panics before it
\* changes anything.
PushFails ==
  /\ alive
  /\ len >= data.cap
  /\ UNCHANGED vars

Push(e) == PushInPlace(e) \/ PromoteAndPush(e) \/ GrowAndPush(e)

\* Mutant: pop reads the slot at the old length.
PopPastEnd ==
  /\ alive
  /\ IF len = 0
       THEN popped' = <<>> /\ UNCHANGED <<data, len>>
       ELSE /\ len' = len - 1
            /\ popped' = <<data.slots[len % data.cap]>>
            /\ data' = Write(data, len - 1, Uninit)
  /\ UNCHANGED <<heap, dropped, alive>>

Pop ==
  /\ alive
  /\ IF len = 0
       THEN popped' = <<>> /\ UNCHANGED <<data, len>>
       ELSE /\ len' = len - 1
            /\ popped' = <<data.slots[len - 1]>>
            /\ data' = Write(data, len - 1, Uninit)
  /\ UNCHANGED <<heap, dropped, alive>>

\* get_mut and index_mut, whose assertion is the guard.
Update(i, e) ==
  /\ alive /\ i < len
  /\ data' = Write(data, i, e)
  /\ UNCHANGED <<len, heap, popped, dropped, alive>>

Drop ==
  /\ alive
  /\ dropped' = [k \in 1 .. len |-> data.slots[k - 1]]
  /\ heap' = IF on_heap THEN heap \ {Buffer(data)} ELSE heap
  /\ alive' = FALSE
  /\ UNCHANGED <<data, len, popped>>

Next ==
  \/ \E e \in Elem : Push(e)
  \/ PushFails
  \/ Pop
  \/ \E i \in 0 .. len - 1, e \in Elem : Update(i, e)
  \/ Drop

Spec == Init /\ [][Next]_vars

-----------------------------------------------------------------------------
(* Properties *)

\* The storage has its capacity, exactly the slots below len are initialised,
\* and it is inline exactly as long as it has the inline capacity.
TypeOK ==
  /\ data.id \in Nat /\ data.cap \in Nat
  /\ len \in 0 .. data.cap
  /\ data.slots \in [0 .. data.cap - 1 -> Elem \cup {Uninit}]
  /\ \A i \in 0 .. data.cap - 1 : data.slots[i] \in Elem <=> i < len
  /\ on_heap <=> data.cap > N
  /\ ~on_heap => data.cap = N
  /\ alive \in BOOLEAN

\* Promotion, growth and drop never leak a buffer, free one twice or with the
\* layout of another capacity: the one in use is the only one allocated.
OneBuffer == heap = IF alive /\ on_heap THEN {Buffer(data)} ELSE {}

Abs == INSTANCE AbstractSequence WITH
         seq <- IF alive THEN [k \in 1 .. len |-> data.slots[k - 1]] ELSE <<>>

\* Across the spill to the heap and every growth, the vector is the sequence of
\* what was pushed: nothing lost, duplicated or read uninitialised.
ImplementsSequence == Abs!Spec
=============================================================================
