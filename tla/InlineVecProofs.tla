--------------------------- MODULE InlineVecProofs ---------------------------
(***************************************************************************)
(* InlineVec for every inline capacity, element type and failure of its    *)
(* growth: its storage, its heap buffer, and that it is a sequence.        *)
(***************************************************************************)
EXTENDS InlineVec, SequenceTheorems, TLAPS

\* The slots of storage s below n hold elements, and no other does.
Filled(s, n) ==
  /\ s = [id |-> s.id, cap |-> s.cap, slots |-> s.slots]
  /\ s.id \in Nat /\ s.cap \in Nat /\ n \in 0 .. s.cap
  /\ s.slots \in [0 .. s.cap - 1 -> Elem \cup {Uninit}]
  /\ \A i \in 0 .. s.cap - 1 : s.slots[i] \in Elem <=> i < n
  /\ s.id > 0 <=> s.cap > N
  /\ ~(s.id > 0) => s.cap = N

\* The inductive invariant.
IInv == Filled(data, len) /\ OneBuffer /\ alive \in BOOLEAN

-----------------------------------------------------------------------------
\* Writing an element behind the last, or over one, fills the storage to there.
LEMMA WriteElem ==
  ASSUME NEW s, NEW n, Filled(s, n), NEW i \in 0 .. n, i < s.cap, NEW e \in Elem
  PROVE  LET w == Write(s, i, e) IN
         /\ Filled(w, IF i = n THEN n + 1 ELSE n)
         /\ w.id = s.id /\ w.cap = s.cap
         /\ \A j \in 0 .. s.cap - 1 : w.slots[j] = IF j = i THEN e ELSE s.slots[j]
<1> DEFINE w == Write(s, i, e)
<1>1. w = [id |-> s.id, cap |-> s.cap, slots |-> [s.slots EXCEPT ![i] = e]]
  <2>1. s = [id |-> s.id, cap |-> s.cap, slots |-> s.slots]
    BY DEF Filled
  <2> QED
    BY <2>1 DEF Write
<1>2. \A j \in 0 .. s.cap - 1 : w.slots[j] = IF j = i THEN e ELSE s.slots[j]
  BY <1>1 DEF Filled
<1>3. w.slots \in [0 .. s.cap - 1 -> Elem \cup {Uninit}]
  BY <1>1 DEF Filled
<1>4. w.id = s.id /\ w.cap = s.cap /\ w = [id |-> w.id, cap |-> w.cap, slots |-> w.slots]
  BY <1>1
<1> HIDE DEF w
<1>5. Filled(w, IF i = n THEN n + 1 ELSE n)
  BY <1>2, <1>3, <1>4 DEF Filled
<1> QED
  BY <1>2, <1>4, <1>5 DEF w

\* Moving the last element out of the storage.
LEMMA WriteUninit ==
  ASSUME NEW s, NEW n, Filled(s, n), n > 0
  PROVE  LET w == Write(s, n - 1, Uninit) IN
         /\ Filled(w, n - 1)
         /\ w.id = s.id /\ w.cap = s.cap
         /\ \A j \in 0 .. n - 2 : w.slots[j] = s.slots[j]
<1> DEFINE w == Write(s, n - 1, Uninit)
<1>1. w = [id |-> s.id, cap |-> s.cap, slots |-> [s.slots EXCEPT ![n - 1] = Uninit]]
  <2>1. s = [id |-> s.id, cap |-> s.cap, slots |-> s.slots]
    BY DEF Filled
  <2> QED
    BY <2>1 DEF Write
<1>2. \A j \in 0 .. s.cap - 1 : w.slots[j] = IF j = n - 1 THEN Uninit ELSE s.slots[j]
  BY <1>1 DEF Filled
<1>3. w.slots \in [0 .. s.cap - 1 -> Elem \cup {Uninit}]
  <2>1. s.slots \in [0 .. s.cap - 1 -> Elem \cup {Uninit}]
    BY DEF Filled
  <2>2. w.slots = [s.slots EXCEPT ![n - 1] = Uninit]
    BY <1>1
  <2> QED
    BY <2>1, <2>2
<1>4. w.id = s.id /\ w.cap = s.cap /\ w = [id |-> w.id, cap |-> w.cap, slots |-> w.slots]
  BY <1>1
<1> HIDE DEF w
<1>5. Filled(w, n - 1)
  <2>1. n - 1 \in 0 .. w.cap /\ s.cap \in Nat /\ n \in Nat
    BY <1>4 DEF Filled
  <2>2. \A j \in 0 .. w.cap - 1 : w.slots[j] \in Elem <=> j < n - 1
    <3> TAKE j \in 0 .. w.cap - 1
    <3>1. CASE j = n - 1
      BY <3>1, <1>2, <1>4, <2>1, InlineVecAssumption
    <3>2. CASE j # n - 1
      <4>1. w.slots[j] = s.slots[j] /\ (s.slots[j] \in Elem <=> j < n)
        BY <3>2, <1>2, <1>4 DEF Filled
      <4> QED
        BY <4>1, <3>2, <2>1, <1>4
    <3> QED
      BY <3>1, <3>2
  <2> QED
    BY <2>1, <2>2, <1>3, <1>4 DEF Filled
<1>6. \A j \in 0 .. n - 2 : w.slots[j] = s.slots[j]
  BY <1>2 DEF Filled
<1> QED
  BY <1>4, <1>5, <1>6 DEF w

\* Both growth paths copy the elements that there are into a larger buffer.
LEMMA DoubledFilled ==
  ASSUME Filled(data, len), len = data.cap
  PROVE  /\ Filled(Doubled(len), len)
         /\ Doubled(len).id = data.id + 1 /\ Doubled(len).cap = 2 * data.cap
         /\ len < Doubled(len).cap
         /\ \A j \in 0 .. len - 1 : Doubled(len).slots[j] = data.slots[j]
<1>1. N \in Nat \ {0} /\ Uninit \notin Elem
  BY InlineVecAssumption
<1>2. /\ data.cap \in Nat \ {0} /\ data.id \in Nat /\ len \in Nat
  BY <1>1 DEF Filled
<1> DEFINE w == Doubled(len)
<1>3. /\ w.id = data.id + 1 /\ w.cap = 2 * data.cap
      /\ w.slots = [i \in 0 .. 2 * data.cap - 1 |->
                      IF i < len THEN data.slots[i] ELSE Uninit]
      /\ w = [id |-> w.id, cap |-> w.cap, slots |-> w.slots]
  BY DEF Doubled
<1> HIDE DEF w
<1>4. \A j \in 0 .. len - 1 : w.slots[j] = data.slots[j] /\ data.slots[j] \in Elem
  BY <1>2, <1>3 DEF Filled
<1>5. \A j \in len .. w.cap - 1 : w.slots[j] = Uninit
  BY <1>2, <1>3
<1>6. w.slots \in [0 .. w.cap - 1 -> Elem \cup {Uninit}]
  <2>1. \A j \in 0 .. w.cap - 1 : w.slots[j] \in Elem \cup {Uninit}
    <3> TAKE j \in 0 .. w.cap - 1
    <3>1. j \in 0 .. len - 1 \/ j \in len .. w.cap - 1
      BY <1>2, <1>3
    <3> QED
      BY <3>1, <1>4, <1>5
  <2>2. w.slots = [i \in 0 .. w.cap - 1 |-> w.slots[i]]
    BY <1>3
  <2> QED
    BY <2>1, <2>2
<1>7. Filled(w, len)
  <2>1. w.id \in Nat /\ w.id > 0 /\ w.cap \in Nat /\ w.cap > N /\ len \in 0 .. w.cap
    BY <1>1, <1>2, <1>3 DEF Filled
  <2>2. \A i \in 0 .. w.cap - 1 : w.slots[i] \in Elem <=> i < len
    BY <1>1, <1>2, <1>4, <1>5, <2>1
  <2> QED
    BY <1>3, <1>6, <2>1, <2>2 DEF Filled
<1> QED
  BY <1>2, <1>3, <1>4, <1>7 DEF w

-----------------------------------------------------------------------------
(* The invariant *)

\* The storage in use keeps its identity and capacity as a buffer.
LEMMA SameBuffer ==
  ASSUME NEW s, NEW t, s.id = t.id, s.cap = t.cap
  PROVE  Buffer(s) = Buffer(t)
  BY DEF Buffer

\* A push, wherever its element goes.
LEMMA PushStep ==
  ASSUME IInv, NEW e \in Elem, Push(e)
  PROVE  /\ IInv' /\ alive /\ alive' /\ len \in Nat /\ len' = len + 1
         /\ data'.slots[len] = e
         /\ \A j \in 0 .. len - 1 : data'.slots[j] = data.slots[j]
         /\ UNCHANGED <<popped, dropped>>
<1>1. /\ N \in Nat \ {0} /\ Filled(data, len) /\ len \in Nat /\ data.cap \in Nat
      /\ data.id \in Nat /\ len <= data.cap
  BY InlineVecAssumption DEF IInv, Filled
<1>2. alive /\ alive' = alive /\ len' = len + 1 /\ UNCHANGED <<popped, dropped>>
  BY DEF Push, PushInPlace, PromoteAndPush, GrowAndPush
<1>3. CASE PushInPlace(e)
  <2>1. len < data.cap /\ data' = Write(data, len, e) /\ heap' = heap
    BY <1>3 DEF PushInPlace
  <2>2. /\ Filled(data', len') /\ data'.id = data.id /\ data'.cap = data.cap
        /\ \A j \in 0 .. data.cap - 1 :
             data'.slots[j] = IF j = len THEN e ELSE data.slots[j]
    BY <2>1, <1>1, <1>2, WriteElem
  <2>3. OneBuffer'
    BY <2>1, <2>2, <1>2, SameBuffer DEF IInv, OneBuffer, on_heap
  <2> QED
    BY <2>1, <2>2, <2>3, <1>1, <1>2 DEF IInv
<1>4. CASE PromoteAndPush(e) \/ GrowAndPush(e)
  <2>1. len = data.cap
    BY <1>1, <1>4 DEF PromoteAndPush, GrowAndPush, on_heap, Filled
  <2>2. /\ data' = Write(Doubled(len), len, e)
        /\ heap' = IF on_heap THEN (heap \cup {Buffer(Doubled(len))}) \ {Buffer(data)}
                              ELSE heap \cup {Buffer(Doubled(len))}
    BY <2>1, <1>1, <1>4 DEF PromoteAndPush, GrowAndPush, on_heap, Filled
  <2>3. /\ Filled(Doubled(len), len)
        /\ Doubled(len).id = data.id + 1 /\ Doubled(len).cap = 2 * data.cap
        /\ len < Doubled(len).cap
        /\ \A j \in 0 .. len - 1 : Doubled(len).slots[j] = data.slots[j]
    BY <2>1, <1>1, DoubledFilled
  <2>4. /\ Filled(data', len') /\ data'.id = data.id + 1
        /\ data'.cap = Doubled(len).cap
        /\ \A j \in 0 .. Doubled(len).cap - 1 :
             data'.slots[j] = IF j = len THEN e ELSE Doubled(len).slots[j]
    BY <2>2, <2>3, <1>1, <1>2, WriteElem
  <2>5. OneBuffer'
    <3>1. on_heap'
      BY <2>4, <1>1 DEF on_heap
    <3>2. Buffer(data') = Buffer(Doubled(len))
      BY <2>3, <2>4, SameBuffer
    <3>3. Buffer(data) # Buffer(Doubled(len))
      BY <2>3, <1>1 DEF Buffer
    <3>4. heap = IF on_heap THEN {Buffer(data)} ELSE {}
      BY <1>2 DEF IInv, OneBuffer
    <3>5. heap' = {Buffer(Doubled(len))}
      BY <2>2, <3>3, <3>4
    <3> QED
      BY <3>1, <3>2, <3>5, <1>2 DEF OneBuffer
  <2> QED
    BY <2>3, <2>4, <2>5, <1>1, <1>2 DEF IInv
<1> QED
  BY <1>3, <1>4 DEF Push

\* A pop from a vector with elements.
LEMMA PopStep ==
  ASSUME IInv, Pop
  PROVE  /\ IInv' /\ alive /\ alive' /\ len \in Nat
         /\ UNCHANGED dropped
         /\ \/ /\ len > 0 /\ len' = len - 1 /\ popped' = <<data.slots[len - 1]>>
               /\ \A j \in 0 .. len - 2 : data'.slots[j] = data.slots[j]
            \/ len = 0 /\ popped' = <<>> /\ UNCHANGED <<data, len>>
<1>1. Filled(data, len) /\ len \in Nat
  BY DEF IInv, Filled
<1>2. alive /\ alive' = alive /\ heap' = heap /\ dropped' = dropped
  BY DEF Pop
<1>3. CASE len = 0
  <2>1. popped' = <<>> /\ data' = data /\ len' = len
    BY <1>3 DEF Pop
  <2>2. IInv'
    BY <2>1, <1>2 DEF IInv, OneBuffer, on_heap
  <2> QED
    BY <2>1, <2>2, <1>1, <1>2, <1>3
<1>4. CASE len > 0
  <2>1. /\ len' = len - 1 /\ popped' = <<data.slots[len - 1]>>
        /\ data' = Write(data, len - 1, Uninit)
    BY <1>1, <1>4 DEF Pop
  <2>2. /\ Filled(data', len') /\ data'.id = data.id /\ data'.cap = data.cap
        /\ \A j \in 0 .. len - 2 : data'.slots[j] = data.slots[j]
    BY <2>1, <1>1, <1>4, WriteUninit
  <2>3. OneBuffer'
    BY <2>2, <1>2, SameBuffer DEF IInv, OneBuffer, on_heap
  <2> QED
    BY <2>1, <2>2, <2>3, <1>1, <1>2, <1>4 DEF IInv
<1> QED
  BY <1>1, <1>3, <1>4

\* A write through get_mut.
LEMMA UpdateStep ==
  ASSUME IInv, NEW i \in 0 .. len - 1, NEW e \in Elem, Update(i, e)
  PROVE  /\ IInv' /\ alive /\ alive' /\ len \in Nat /\ len' = len
         /\ \A j \in 0 .. len - 1 :
              data'.slots[j] = IF j = i THEN e ELSE data.slots[j]
         /\ UNCHANGED <<popped, dropped>>
<1>1. Filled(data, len) /\ len \in Nat /\ data.cap \in Nat /\ len <= data.cap
  BY DEF IInv, Filled
<1>2. /\ alive /\ alive' = alive /\ heap' = heap /\ len' = len
      /\ data' = Write(data, i, e) /\ UNCHANGED <<popped, dropped>>
  BY DEF Update
<1>3. /\ Filled(data', len) /\ data'.id = data.id /\ data'.cap = data.cap
      /\ \A j \in 0 .. data.cap - 1 :
           data'.slots[j] = IF j = i THEN e ELSE data.slots[j]
  BY <1>1, <1>2, WriteElem
<1>4. OneBuffer'
  BY <1>2, <1>3, SameBuffer DEF IInv, OneBuffer, on_heap
<1> QED
  BY <1>1, <1>2, <1>3, <1>4 DEF IInv

\* Every call keeps the invariant.
LEMMA NextIInv ==
  IInv /\ [Next]_vars => IInv'
<1> SUFFICES ASSUME IInv, [Next]_vars PROVE IInv'
  OBVIOUS
<1>1. CASE \E e \in Elem : Push(e)
  BY <1>1, PushStep
<1>2. CASE Pop
  BY <1>2, PopStep
<1>3. CASE \E i \in 0 .. len - 1, e \in Elem : Update(i, e)
  BY <1>3, UpdateStep
<1>4. CASE Drop
  <2>1. /\ alive /\ alive' = FALSE /\ data' = data /\ len' = len
        /\ heap' = IF on_heap THEN heap \ {Buffer(data)} ELSE heap
    BY <1>4 DEF Drop
  <2>2. heap' = {}
    BY <2>1 DEF IInv, OneBuffer
  <2> QED
    BY <2>1, <2>2 DEF IInv, OneBuffer
<1>5. CASE PushFails \/ UNCHANGED vars
  BY <1>5 DEF PushFails, vars, IInv, OneBuffer, on_heap
<1> QED
  BY <1>1, <1>2, <1>3, <1>4, <1>5 DEF Next

\* A new vector is inline and empty.
LEMMA InitIInv ==
  Init => IInv
<1> SUFFICES ASSUME Init PROVE IInv
  OBVIOUS
<1>1. /\ data = [id |-> 0, cap |-> N, slots |-> Empty(N)] /\ len = 0
      /\ heap = {} /\ alive \in BOOLEAN /\ ~on_heap
  BY DEF Init, on_heap
<1>2. Filled(data, len)
  BY <1>1, InlineVecAssumption DEF Filled, Empty
<1> QED
  BY <1>1, <1>2 DEF IInv, OneBuffer

\* The invariant holds in every reachable state.
LEMMA Inductive ==
  Spec => []IInv
  BY InitIInv, NextIInv, PTL DEF Spec

\* Exactly the slots below len are initialised, inline or on the heap: no get,
\* as_slice or pop reads one that is not.
THEOREM StorageCorrect ==
  Spec => []TypeOK
<1>1. IInv => TypeOK
  BY InlineVecAssumption DEF IInv, Filled, TypeOK, on_heap
<1> QED
  BY <1>1, Inductive, PTL

\* Promotion, growth and drop free every buffer once, with its own layout.
THEOREM OwnsOneBuffer ==
  Spec => []OneBuffer
<1>1. IInv => OneBuffer
  BY DEF IInv
<1> QED
  BY <1>1, Inductive, PTL

-----------------------------------------------------------------------------
(* The refinement *)

Contents(s, n) == [k \in 1 .. n |-> s.slots[k - 1]]

seqBar == IF alive THEN Contents(data, len) ELSE <<>>

\* The contents of a storage are a sequence of elements.
LEMMA ContentsType ==
  ASSUME NEW s, NEW n, Filled(s, n)
  PROVE  /\ n \in Nat
         /\ Contents(s, n) \in Seq(Elem)
         /\ Len(Contents(s, n)) = n
         /\ \A k \in 1 .. n : Contents(s, n)[k] = s.slots[k - 1]
<1>1. n \in Nat /\ s.cap \in Nat /\ n <= s.cap
  BY DEF Filled
<1>2. \A k \in 1 .. n : k - 1 \in 0 .. s.cap - 1 /\ k - 1 < n
  BY <1>1
<1>3. \A k \in 1 .. n : s.slots[k - 1] \in Elem
  BY <1>2 DEF Filled
<1>4. Contents(s, n) \in [1 .. n -> Elem]
  BY <1>3 DEF Contents
<1>5. Contents(s, n) \in Seq(Elem)
  BY <1>1, <1>4, SeqDef
<1>6. Len(Contents(s, n)) = n
  BY <1>1, <1>4, <1>5, LenProperties
<1> QED
  BY <1>1, <1>5, <1>6 DEF Contents

\* A step of the vector is a step of the sequence or changes nothing of it.
LEMMA StepRefines ==
  ASSUME IInv, [Next]_vars
  PROVE  \/ \E e \in Elem : seqBar' = Append(seqBar, e) /\ UNCHANGED <<popped, dropped>>
         \/ /\ UNCHANGED dropped
            /\ \/ /\ seqBar # <<>> /\ popped' = <<seqBar[Len(seqBar)]>>
                  /\ seqBar' = SubSeq(seqBar, 1, Len(seqBar) - 1)
               \/ seqBar = <<>> /\ popped' = <<>> /\ UNCHANGED seqBar
         \/ \E i \in 1 .. Len(seqBar), e \in Elem :
              seqBar' = [seqBar EXCEPT ![i] = e] /\ UNCHANGED <<popped, dropped>>
         \/ dropped' = seqBar /\ seqBar' = <<>> /\ UNCHANGED popped
         \/ UNCHANGED <<seqBar, popped, dropped>>
<1> DEFINE old == Contents(data, len)
           new == Contents(data', len')
<1>1. /\ len \in Nat /\ old \in Seq(Elem) /\ Len(old) = len
      /\ \A k \in 1 .. len : old[k] = data.slots[k - 1]
  BY ContentsType DEF IInv
<1>2. /\ len' \in Nat /\ new \in Seq(Elem) /\ Len(new) = len'
      /\ \A k \in 1 .. len' : new[k] = data'.slots[k - 1]
  <2>1. Filled(data', len')
    BY NextIInv DEF IInv
  <2> QED
    BY <2>1, ContentsType
<1>3. (alive => seqBar = old) /\ (alive' => seqBar' = new) /\ (~alive' => seqBar' = <<>>)
  BY DEF seqBar
<1> HIDE DEF old, new
<1>4. CASE \E e \in Elem : Push(e)
  <2>1. PICK e \in Elem : Push(e)
    BY <1>4
  <2>2. /\ alive /\ alive' /\ len' = len + 1 /\ data'.slots[len] = e
        /\ \A j \in 0 .. len - 1 : data'.slots[j] = data.slots[j]
        /\ UNCHANGED <<popped, dropped>>
    BY <2>1, PushStep
  <2>3. /\ Append(old, e) \in Seq(Elem) /\ Len(Append(old, e)) = len + 1
        /\ \A k \in 1 .. len : Append(old, e)[k] = old[k]
        /\ Append(old, e)[len + 1] = e
    BY <1>1, AppendProperties
  <2>4. \A k \in 1 .. len + 1 : new[k] = Append(old, e)[k]
    <3> TAKE k \in 1 .. len + 1
    <3>1. CASE k = len + 1
      BY <3>1, <2>2, <2>3, <1>1, <1>2
    <3>2. CASE k \in 1 .. len
      <4>1. k - 1 \in 0 .. len - 1 /\ k \in 1 .. len'
        BY <3>2, <2>2, <1>1
      <4> QED
        BY <4>1, <3>2, <2>2, <2>3, <1>1, <1>2
    <3> QED
      BY <3>1, <3>2, <1>1
  <2>5. new = Append(old, e)
    BY <2>2, <2>3, <2>4, <1>2, SeqEqual
  <2> QED
    BY <2>2, <2>5, <1>3
<1>5. CASE Pop
  <2>1. /\ alive /\ alive' /\ UNCHANGED dropped
        /\ \/ /\ len > 0 /\ len' = len - 1 /\ popped' = <<data.slots[len - 1]>>
              /\ \A j \in 0 .. len - 2 : data'.slots[j] = data.slots[j]
           \/ len = 0 /\ popped' = <<>> /\ UNCHANGED <<data, len>>
    BY <1>5, PopStep
  <2>2. CASE len = 0
    <3>1. popped' = <<>> /\ len' = 0
      BY <2>1, <2>2
    <3>2. old = <<>> /\ new = <<>>
      BY <3>1, <2>2, <1>1, <1>2, EmptySeq
    <3> QED
      BY <3>1, <3>2, <2>1, <1>3
  <2>3. CASE len > 0
    <3>1. /\ len' = len - 1 /\ popped' = <<data.slots[len - 1]>>
          /\ \A j \in 0 .. len - 2 : data'.slots[j] = data.slots[j]
      BY <2>1, <2>3
    <3>2. popped' = <<old[Len(old)]>> /\ old # <<>>
      BY <3>1, <2>3, <1>1, EmptySeq
    <3>3. \A k \in 1 .. len - 1 : old[k] \in Elem
      BY <1>1, ElementOfSeq
    <3>4. /\ SubSeq(old, 1, len - 1) \in Seq(Elem)
          /\ Len(SubSeq(old, 1, len - 1)) = len - 1
          /\ \A k \in 1 .. len - 1 : SubSeq(old, 1, len - 1)[k] = old[k]
      BY <3>3, <2>3, <1>1, SubSeqProperties
    <3>5. \A k \in 1 .. len - 1 : new[k] = SubSeq(old, 1, len - 1)[k]
      <4> TAKE k \in 1 .. len - 1
      <4>1. k \in 1 .. len /\ k \in 1 .. len' /\ k - 1 \in 0 .. len - 2
        BY <3>1, <1>1
      <4> QED
        BY <4>1, <3>1, <3>4, <1>1, <1>2
    <3>6. new = SubSeq(old, 1, len - 1)
      BY <3>1, <3>4, <3>5, <1>2, SeqEqual
    <3> QED
      BY <3>2, <3>6, <2>1, <1>1, <1>3
  <2> QED
    BY <2>2, <2>3, <1>1
<1>6. CASE \E i \in 0 .. len - 1, e \in Elem : Update(i, e)
  <2>1. PICK i \in 0 .. len - 1, e \in Elem : Update(i, e)
    BY <1>6
  <2>2. /\ alive /\ alive' /\ len' = len /\ UNCHANGED <<popped, dropped>>
        /\ \A j \in 0 .. len - 1 :
             data'.slots[j] = IF j = i THEN e ELSE data.slots[j]
    BY <2>1, UpdateStep
  <2>3. i + 1 \in 1 .. Len(old) /\ i + 1 \in 1 .. len
    BY <1>1
  <2>4. /\ [old EXCEPT ![i + 1] = e] \in Seq(Elem)
        /\ Len([old EXCEPT ![i + 1] = e]) = len
        /\ \A k \in 1 .. len :
             [old EXCEPT ![i + 1] = e][k] = IF k = i + 1 THEN e ELSE old[k]
    BY <2>3, <1>1, ExceptSeq
  <2>5. \A k \in 1 .. len : new[k] = [old EXCEPT ![i + 1] = e][k]
    <3> TAKE k \in 1 .. len
    <3>1. k - 1 \in 0 .. len - 1 /\ k \in 1 .. len' /\ (k - 1 = i <=> k = i + 1)
      BY <2>2, <2>3, <1>1
    <3> QED
      BY <3>1, <2>2, <2>4, <1>1, <1>2
  <2>6. new = [old EXCEPT ![i + 1] = e]
    BY <2>2, <2>4, <2>5, <1>2, SeqEqual
  <2> QED
    BY <2>2, <2>3, <2>6, <1>3
<1>7. CASE Drop
  BY <1>3, <1>7 DEF Drop, old, Contents
<1>8. CASE PushFails \/ UNCHANGED vars
  BY <1>8 DEF PushFails, vars, seqBar
<1> QED
  BY <1>4, <1>5, <1>6, <1>7, <1>8 DEF Next

\* Inline, on the heap and across every growth, InlineVec is the sequence of
\* what was pushed, popped and updated, dropped in order exactly once.
THEOREM IsASequence ==
  Spec => ImplementsSequence
<1>1. Init => Abs!Init
  BY SMT DEF Init, Abs!Init, Empty
<1>2. IInv /\ [Next]_vars => [Abs!Next]_(Abs!vars)
  <2> SUFFICES ASSUME IInv, [Next]_vars PROVE [Abs!Next]_(Abs!vars)
    OBVIOUS
  <2>1. (\E e \in Elem : seqBar' = Append(seqBar, e) /\ UNCHANGED <<popped, dropped>>)
          => \E e \in Elem : Abs!Push(e)
    BY DEF Abs!Push, seqBar, Contents
  <2>2. ASSUME UNCHANGED dropped,
               \/ /\ seqBar # <<>> /\ popped' = <<seqBar[Len(seqBar)]>>
                  /\ seqBar' = SubSeq(seqBar, 1, Len(seqBar) - 1)
               \/ seqBar = <<>> /\ popped' = <<>> /\ UNCHANGED seqBar
        PROVE  Abs!Pop
    BY <2>2 DEF Abs!Pop, seqBar, Contents
  <2>3. (\E i \in 1 .. Len(seqBar), e \in Elem :
           seqBar' = [seqBar EXCEPT ![i] = e] /\ UNCHANGED <<popped, dropped>>)
          => \E i \in 1 .. Len(seqBar), e \in Elem : Abs!Update(i, e)
    BY DEF Abs!Update, seqBar, Contents
  <2>4. dropped' = seqBar /\ seqBar' = <<>> /\ UNCHANGED popped => Abs!Drop
    BY DEF Abs!Drop, seqBar, Contents
  <2>5. UNCHANGED <<seqBar, popped, dropped>> => UNCHANGED Abs!vars
    BY DEF Abs!vars, seqBar, Contents
  <2>6. Abs!Next \/ UNCHANGED Abs!vars
    BY <2>1, <2>2, <2>3, <2>4, <2>5, StepRefines DEF Abs!Next, seqBar, Contents
  <2> QED
    BY <2>6
<1> QED
  BY <1>1, <1>2, Inductive, PTL DEF Spec, Abs!Spec, ImplementsSequence
=============================================================================
