-------------------------- MODULE VecElementsProofs --------------------------
(***************************************************************************)
(* The elements of a vector, for every first capacity and every bound: no  *)
(* slot is read before it was written, no element that the caller took is  *)
(* dropped, the vector is the sequence of its elements, and each element   *)
(* has one owner.                                                          *)
(***************************************************************************)
EXTENDS VecElements, SequenceTheorems, FiniteSetTheorems, TLAPS

\* The slots that the vector counts hold different elements.
Distinct == \A i, j \in 0 .. len - 1 : slots[i] = slots[j] => i = j

\* What the caller took is not among the elements still to be dropped.
NotTaken ==
  /\ out \subseteq 1 .. made
  /\ phase # "gone" => \A i \in start .. len - 1 : slots[i] \notin out

\* The inductive invariant.
IInv ==
  /\ TypeOK /\ ReadsInitialised
  /\ phase = "vec" => start = 0
  /\ Distinct /\ NotTaken

-----------------------------------------------------------------------------
(* Sequences of elements *)

\* New elements are numbered in order.
LEMMA MadeType ==
  ASSUME NEW a \in Nat, NEW b \in Nat, a <= b
  PROVE  /\ Made(a, b) \in Seq(Nat)
         /\ Len(Made(a, b)) = b - a
         /\ \A k \in 1 .. b - a : Made(a, b)[k] = a + k
<1>1. Made(a, b) \in [1 .. b - a -> Nat] /\ b - a \in Nat
  BY DEF Made
<1>2. Made(a, b) \in Seq(Nat)
  BY <1>1, SeqDef
<1>3. Len(Made(a, b)) = b - a
  BY <1>1, <1>2, LenProperties
<1> QED
  BY <1>2, <1>3 DEF Made

LEMMA OneMade ==
  ASSUME NEW a \in Nat
  PROVE  <<a + 1>> = Made(a, a + 1)
<1> a + 1 \in Nat /\ a <= a + 1 /\ (a + 1) - a = 1 /\ 1 \in 1 .. 1
  OBVIOUS
<1>1. Made(a, a + 1) \in Seq(Nat) /\ Len(Made(a, a + 1)) = 1 /\ Made(a, a + 1)[1] = a + 1
  BY MadeType
<1>2. <<a + 1>> \in Seq(Nat) /\ Len(<<a + 1>>) = 1 /\ <<a + 1>>[1] = a + 1
  OBVIOUS
<1> QED
  BY <1>1, <1>2, SeqEqual

\* A stretch of counted slots is a sequence of elements made.
LEMMA ElemsType ==
  ASSUME IInv, NEW a \in Nat, NEW b \in a .. len
  PROVE  /\ Elems(a, b) \in Seq(Nat)
         /\ Len(Elems(a, b)) = b - a
         /\ \A k \in 1 .. b - a : /\ Elems(a, b)[k] = slots[a + k - 1]
                                  /\ Elems(a, b)[k] \in 1 .. made
<1>1. len \in Nat /\ b \in Nat /\ made \in Nat
  BY DEF IInv, TypeOK
<1>2. \A k \in 1 .. b - a : slots[a + k - 1] \in 1 .. made
  <2> TAKE k \in 1 .. b - a
  <2>1. a + k - 1 \in 0 .. len - 1
    BY <1>1
  <2> QED
    BY <2>1 DEF IInv, ReadsInitialised
<1>3. Elems(a, b) \in [1 .. b - a -> Nat] /\ b - a \in Nat
  BY <1>1, <1>2 DEF Elems
<1>4. Elems(a, b) \in Seq(Nat)
  BY <1>3, SeqDef
<1>5. Len(Elems(a, b)) = b - a
  BY <1>3, <1>4, LenProperties
<1> QED
  BY <1>2, <1>4, <1>5 DEF Elems

-----------------------------------------------------------------------------
(* Adding elements *)

\* A buffer with room for new elements holds them behind the old ones.
LEMMA WrittenType ==
  ASSUME NEW c \in Nat, NEW s \in [0 .. c - 1 -> Nat \cup {Uninit}],
         NEW es \in Seq(Nat), len \in Nat, len + Len(es) <= c
  PROVE  /\ Written(s, es) \in [0 .. c - 1 -> Nat \cup {Uninit}]
         /\ \A i \in 0 .. len - 1 : Written(s, es)[i] = s[i]
         /\ \A k \in 1 .. Len(es) : Written(s, es)[len + k - 1] = es[k]
<1>1. DOMAIN s = 0 .. c - 1 /\ Len(es) \in Nat
  BY LenProperties
<1>2. \A i \in 0 .. c - 1 :
        Written(s, es)[i] = IF i \in len .. len + Len(es) - 1 THEN es[i - len + 1] ELSE s[i]
  BY <1>1 DEF Written
<1>3. \A i \in 0 .. c - 1 : Written(s, es)[i] \in Nat \cup {Uninit}
  <2> TAKE i \in 0 .. c - 1
  <2>1. CASE i \in len .. len + Len(es) - 1
    <3>1. i - len + 1 \in 1 .. Len(es)
      BY <2>1, <1>1
    <3>2. es[i - len + 1] \in Nat
      BY <3>1, ElementOfSeq
    <3> QED
      BY <3>2, <2>1, <1>2
  <2>2. CASE i \notin len .. len + Len(es) - 1
    BY <2>2, <1>2
  <2> QED
    BY <2>1, <2>2
<1>4. Written(s, es) \in [0 .. c - 1 -> Nat \cup {Uninit}]
  BY <1>1, <1>3 DEF Written
<1>5. \A i \in 0 .. len - 1 : Written(s, es)[i] = s[i]
  <2> TAKE i \in 0 .. len - 1
  <2>1. i \in 0 .. c - 1 /\ i \notin len .. len + Len(es) - 1
    BY <1>1
  <2> QED
    BY <2>1, <1>2
<1>6. \A k \in 1 .. Len(es) : Written(s, es)[len + k - 1] = es[k]
  <2> TAKE k \in 1 .. Len(es)
  <2>1. /\ len + k - 1 \in 0 .. c - 1 /\ len + k - 1 \in len .. len + Len(es) - 1
        /\ (len + k - 1) - len + 1 = k
    BY <1>1
  <2> QED
    BY <2>1, <1>2
<1> QED
  BY <1>4, <1>5, <1>6

\* Growth keeps the counted slots.
LEMMA ResizedType ==
  ASSUME NEW c \in Nat, NEW n \in {cap, len}, TypeOK, cap < c
  PROVE  /\ Resized(c, n) \in [0 .. c - 1 -> Nat \cup {Uninit}]
         /\ \A i \in 0 .. len - 1 : Resized(c, n)[i] = slots[i]
<1>1. /\ len \in Nat /\ cap \in Nat /\ len <= n /\ n <= cap /\ n \in Nat
      /\ slots \in [0 .. cap - 1 -> Nat \cup {Uninit}]
  BY DEF TypeOK
<1>2. \A i \in 0 .. c - 1 : Resized(c, n)[i] = IF i < n THEN slots[i] ELSE Uninit
  BY DEF Resized
<1>3. \A i \in 0 .. c - 1 : Resized(c, n)[i] \in Nat \cup {Uninit}
  <2> TAKE i \in 0 .. c - 1
  <2>1. CASE i < n
    <3>1. i \in 0 .. cap - 1
      BY <2>1, <1>1
    <3> QED
      BY <3>1, <2>1, <1>1, <1>2
  <2>2. CASE ~(i < n)
    BY <2>2, <1>2
  <2> QED
    BY <2>1, <2>2
<1>4. Resized(c, n) \in [0 .. c - 1 -> Nat \cup {Uninit}]
  BY <1>3 DEF Resized
<1>5. \A i \in 0 .. len - 1 : Resized(c, n)[i] = slots[i]
  <2> TAKE i \in 0 .. len - 1
  <2>1. i \in 0 .. c - 1 /\ i < n
    BY <1>1
  <2> QED
    BY <2>1, <1>2
<1> QED
  BY <1>4, <1>5

\* The old elements stay, and the new are behind them.
LEMMA WriteBehindOutcome ==
  ASSUME IInv, NEW es \in Seq(Nat), NEW needed \in Nat, NEW new_cap \in Nat,
         len + Len(es) <= needed, needed > cap => needed <= new_cap,
         WriteBehind(es, needed, new_cap)
  PROVE  /\ cap' \in Nat /\ len + Len(es) <= cap'
         /\ slots' \in [0 .. cap' - 1 -> Nat \cup {Uninit}]
         /\ \A i \in 0 .. len - 1 : slots'[i] = slots[i]
         /\ \A k \in 1 .. Len(es) : slots'[len + k - 1] = es[k]
<1>1. /\ len \in Nat /\ cap \in Nat /\ len <= cap /\ Len(es) \in Nat /\ TypeOK
      /\ slots \in [0 .. cap - 1 -> Nat \cup {Uninit}]
  BY LenProperties DEF IInv, TypeOK
<1>2. CASE needed <= cap
  <2>1. slots' = Written(slots, es) /\ cap' = cap /\ len + Len(es) <= cap
    BY <1>1, <1>2 DEF WriteBehind
  <2> QED
    BY <2>1, <1>1, WrittenType
<1>3. CASE needed > cap
  <2>1. PICK s \in Grown(new_cap) : slots' = Written(s, es) /\ cap' = new_cap
    BY <1>1, <1>3 DEF WriteBehind
  <2>2. len + Len(es) <= new_cap /\ cap < new_cap
    BY <1>1, <1>3
  <2>3. PICK n \in {cap, len} : s = Resized(new_cap, n)
    BY DEF Grown
  <2>4. /\ s \in [0 .. new_cap - 1 -> Nat \cup {Uninit}]
        /\ \A i \in 0 .. len - 1 : s[i] = slots[i]
    BY <2>2, <2>3, <1>1, ResizedType
  <2>5. /\ Written(s, es) \in [0 .. new_cap - 1 -> Nat \cup {Uninit}]
        /\ \A i \in 0 .. len - 1 : Written(s, es)[i] = s[i]
        /\ \A k \in 1 .. Len(es) : Written(s, es)[len + k - 1] = es[k]
    BY <2>2, <2>4, <1>1, WrittenType
  <2> QED
    BY <2>1, <2>2, <2>4, <2>5
<1> QED
  BY <1>1, <1>2, <1>3

\* New elements behind the old ones, counted or not, keep the invariant.
LEMMA AddedKeeps ==
  ASSUME IInv, phase = "vec",
         NEW a \in Nat, NEW b \in Nat, made <= a, a <= b, made' = b,
         NEW needed \in Nat, NEW new_cap \in Nat,
         len + (b - a) <= needed, needed > cap => needed <= new_cap,
         WriteBehind(Made(a, b), needed, new_cap),
         len' \in {len, len + (b - a)}, UNCHANGED <<start, phase, out>>,
         dropped' \in Seq(Nat), kept' \subseteq Nat, unwound' \in BOOLEAN
  PROVE  IInv'
<1>1. /\ len \in Nat /\ made \in Nat /\ start = 0 /\ out \subseteq 1 .. made
      /\ len' \in Nat
  BY DEF IInv, TypeOK, NotTaken
<1>2. /\ Made(a, b) \in Seq(Nat) /\ Len(Made(a, b)) = b - a
      /\ \A k \in 1 .. b - a : Made(a, b)[k] = a + k
  BY MadeType
<1>3. /\ cap' \in Nat /\ len + (b - a) <= cap'
      /\ slots' \in [0 .. cap' - 1 -> Nat \cup {Uninit}]
      /\ \A i \in 0 .. len - 1 : slots'[i] = slots[i]
      /\ \A k \in 1 .. b - a : slots'[len + k - 1] = a + k
  BY <1>2, WriteBehindOutcome
<1>4. \A i \in 0 .. len - 1 : slots[i] \in 1 .. made
  BY DEF IInv, ReadsInitialised
<1>5. \A i \in 0 .. len' - 1 :
        \/ i \in 0 .. len - 1 /\ slots'[i] = slots[i] /\ slots[i] \in 1 .. made
        \/ i >= len /\ i - len + 1 \in 1 .. b - a /\ slots'[i] = a + (i - len + 1)
  <2> TAKE i \in 0 .. len' - 1
  <2>1. CASE i < len
    <3>1. i \in 0 .. len - 1
      BY <2>1, <1>1
    <3> QED
      BY <3>1, <1>3, <1>4
  <2>2. CASE ~(i < len)
    <3>1. i \in Nat /\ i >= len
      BY <2>2, <1>1
    <3>2. ASSUME len' = len PROVE FALSE
      <4>1. i \in 0 .. len - 1
        BY <3>2
      <4> QED
        BY <4>1, <2>2, <1>1
    <3>3. i < len + (b - a)
      <4>1. len' = len + (b - a)
        BY <3>2
      <4>2. i \in 0 .. (len + (b - a)) - 1
        BY <4>1
      <4> QED
        BY <4>2, <1>1
    <3>4. i - len + 1 \in 1 .. b - a /\ i = len + (i - len + 1) - 1
      BY <3>1, <3>3, <1>1
    <3>5. slots'[len + (i - len + 1) - 1] = a + (i - len + 1)
      BY <3>4, <1>3
    <3> QED
      BY <3>1, <3>4, <3>5
  <2> QED
    BY <2>1, <2>2
<1>6. TypeOK'
  <2>1. start' = 0 /\ made' \in Nat /\ out' \subseteq Nat /\ phase' = "vec"
    BY <1>1
  <2>2. len' \in 0 .. cap'
    <3>1. CASE len' = len
      BY <3>1, <1>1, <1>3
    <3>2. CASE len' = len + (b - a)
      BY <3>2, <1>1, <1>3
    <3> QED
      BY <3>1, <3>2
  <2>3. start' \in Nat /\ start' <= len'
    BY <2>1, <1>1
  <2> QED
    BY <2>1, <2>2, <2>3, <1>3 DEF TypeOK
<1>7. ReadsInitialised'
  <2> SUFFICES ASSUME NEW i \in 0 .. len' - 1 PROVE slots'[i] \in 1 .. b
    BY DEF ReadsInitialised
  <2>1. \/ slots'[i] \in 1 .. made
        \/ i - len + 1 \in 1 .. b - a /\ slots'[i] = a + (i - len + 1)
    BY <1>5
  <2> QED
    BY <2>1, <1>1
<1>8. Distinct'
  <2> SUFFICES ASSUME NEW i \in 0 .. len' - 1, NEW j \in 0 .. len' - 1,
                      slots'[i] = slots'[j]
               PROVE  i = j
    BY DEF Distinct
  <2>1. /\ \/ i \in 0 .. len - 1 /\ slots'[i] = slots[i] /\ slots[i] \in 1 .. made
           \/ i >= len /\ i - len + 1 \in 1 .. b - a /\ slots'[i] = a + (i - len + 1)
        /\ \/ j \in 0 .. len - 1 /\ slots'[j] = slots[j] /\ slots[j] \in 1 .. made
           \/ j >= len /\ j - len + 1 \in 1 .. b - a /\ slots'[j] = a + (j - len + 1)
    BY <1>5
  <2>2. CASE i \in 0 .. len - 1 /\ j \in 0 .. len - 1
    BY <2>1, <2>2, <1>1 DEF IInv, Distinct
  <2>3. CASE i >= len /\ j >= len
    <3>1. a + (i - len + 1) = a + (j - len + 1)
      BY <2>1, <2>3, <1>1
    <3> QED
      BY <3>1, <1>1
  <2>4. CASE i \in 0 .. len - 1 /\ j >= len
    BY <2>1, <2>4, <1>1
  <2>5. CASE i >= len /\ j \in 0 .. len - 1
    BY <2>1, <2>5, <1>1
  <2> QED
    BY <2>1, <2>2, <2>3, <2>4, <2>5
<1>9. NotTaken'
  <2>1. out' \subseteq 1 .. made'
    BY <1>1
  <2>2. \A i \in start' .. len' - 1 : slots'[i] \notin out'
    <3> TAKE i \in start' .. len' - 1
    <3>1. i \in 0 .. len' - 1
      BY <1>1
    <3>2. \/ i \in 0 .. len - 1 /\ slots'[i] = slots[i]
          \/ i - len + 1 \in 1 .. b - a /\ slots'[i] = a + (i - len + 1)
      BY <3>1, <1>5
    <3>3. CASE i \in 0 .. len - 1 /\ slots'[i] = slots[i]
      BY <3>3, <1>1 DEF IInv, NotTaken
    <3>4. CASE i - len + 1 \in 1 .. b - a /\ slots'[i] = a + (i - len + 1)
      <4>1. slots'[i] \notin 1 .. made
        BY <3>4, <1>1
      <4> QED
        BY <4>1, <1>1
    <3> QED
      BY <3>2, <3>3, <3>4
  <2> QED
    BY <2>1, <2>2 DEF NotTaken
<1> QED
  BY <1>1, <1>6, <1>7, <1>8, <1>9 DEF IInv

\* Every way to add elements, or to fail to, keeps the invariant.
LEMMA AddKeeps ==
  ASSUME IInv, Add
  PROVE  IInv'
<1>1. /\ len \in Nat /\ cap \in Nat /\ len <= cap /\ made \in Nat
      /\ dropped \in Seq(Nat) /\ kept \subseteq Nat /\ unwound \in BOOLEAN
      /\ out \subseteq 1 .. made /\ start \in Nat
  BY DEF IInv, TypeOK, NotTaken
<1>2. CASE Push
  <2>1. /\ phase = "vec" /\ made' = made + 1 /\ len' = len + 1
        /\ WriteBehind(<<made + 1>>, len + 1, NextCap)
        /\ UNCHANGED <<start, phase, out, dropped, kept, unwound>>
    BY <1>2 DEF Push
  <2>2. NextCap \in Nat /\ (len + 1 > cap => len + 1 <= NextCap)
    BY <1>1, VecElementsAssumption DEF NextCap
  <2>3. <<made + 1>> = Made(made, made + 1)
    BY <1>1, OneMade
  <2> QED
    BY <2>1, <2>2, <2>3, <1>1, AddedKeeps
<1>3. CASE GrowthFails
  <2>1. /\ made' = made + 1 /\ UNCHANGED <<slots, cap, len, start, phase, kept, unwound>>
        /\ \/ dropped' = Append(dropped, made + 1) /\ out' = out
           \/ out' = out \cup {made + 1} /\ dropped' = dropped
    BY <1>3 DEF GrowthFails, memory
  <2>2. dropped' \in Seq(Nat)
    BY <2>1, <1>1, AppendProperties
  <2>3. TypeOK'
    <3>1. made' \in Nat /\ made + 1 \in Nat
      BY <2>1, <1>1
    <3>2. out' \subseteq Nat
      <4>1. out \subseteq Nat
        BY DEF IInv, TypeOK
      <4> QED
        BY <4>1, <2>1, <3>1
    <3> QED
      BY <3>1, <3>2, <2>1, <2>2 DEF IInv, TypeOK
  <2>4. \A i \in 0 .. len - 1 : slots[i] \in 1 .. made
    BY DEF IInv, ReadsInitialised
  <2>5. ReadsInitialised'
    BY <2>1, <2>4, <1>1 DEF ReadsInitialised
  <2>6. NotTaken'
    <3>1. out' \subseteq 1 .. made'
      <4>1. 1 .. made \subseteq 1 .. made + 1 /\ made + 1 \in 1 .. made + 1
        BY <1>1
      <4> QED
        BY <4>1, <2>1, <1>1
    <3>2. \A i \in start .. len - 1 : phase # "gone" => slots[i] \notin out'
      <4> TAKE i \in start .. len - 1
      <4>1. i \in 0 .. len - 1
        BY <1>1
      <4>2. slots[i] # made + 1
        BY <4>1, <2>4, <1>1
      <4> QED
        BY <4>2, <2>1 DEF IInv, NotTaken
    <3> QED
      BY <3>1, <3>2, <2>1 DEF NotTaken
  <2> QED
    BY <2>1, <2>3, <2>5, <2>6 DEF IInv, Distinct
<1>4. CASE \E n \in 1 .. MaxCap : Reserve(n)
  <2>1. PICK n \in 1 .. MaxCap : Reserve(n)
    BY <1>4
  <2>2. <<>> = Made(made, made)
    <3> made <= made /\ made - made = 0
      BY <1>1
    <3>1. Made(made, made) \in Seq(Nat) /\ Len(Made(made, made)) = 0
      BY <1>1, MadeType
    <3> QED
      BY <3>1, EmptySeq
  <2>3. /\ phase = "vec" /\ made' = made /\ len' = len
        /\ WriteBehind(Made(made, made), len + n, len + n)
        /\ UNCHANGED <<start, phase, out, dropped, kept, unwound>>
    BY <2>1, <2>2 DEF Reserve
  <2> QED
    BY <2>3, <1>1, VecElementsAssumption, AddedKeeps
<1>5. ASSUME NEW n \in 1 .. MaxCap, NEW t \in 0 .. 1, Fill(n, t)
      PROVE  IInv'
  <2>1. /\ phase = "vec" /\ made' = made + t + n /\ len' = len + n
        /\ WriteBehind(Made(made + t, made + t + n), len + n, len + n)
        /\ dropped' = dropped \o Made(made, made + t)
        /\ UNCHANGED <<start, phase, out, kept, unwound>>
    BY <1>5 DEF Fill
  <2>2. n \in Nat /\ made + t \in Nat
    BY <1>1, VecElementsAssumption
  <2>3. dropped' \in Seq(Nat)
    BY <2>1, <2>2, <1>1, MadeType, ConcatProperties
  <2> QED
    BY <2>1, <2>2, <2>3, <1>1, AddedKeeps
<1>6. ASSUME NEW n \in 1 .. MaxCap, NEW t \in 0 .. 1, NEW k \in 0 .. n - 1,
             FillPanics(n, t, k)
      PROVE  IInv'
  <2>1. /\ phase = "vec" /\ made' = made + t + k /\ len' = len
        /\ WriteBehind(Made(made + t, made + t + k), len + n, len + n)
        /\ dropped' = dropped \o Made(made, made + t)
        /\ kept' = kept \cup made + t + 1 .. made + t + k
        /\ UNCHANGED <<start, phase, out, unwound>>
    BY <1>6 DEF FillPanics
  <2>2. n \in Nat /\ k \in Nat /\ k <= n /\ made + t \in Nat
    BY <1>1, VecElementsAssumption
  <2>3. dropped' \in Seq(Nat)
    BY <2>1, <2>2, <1>1, MadeType, ConcatProperties
  <2>4. kept' \subseteq Nat
    BY <2>1, <2>2, <1>1
  <2> QED
    BY <2>1, <2>2, <2>3, <2>4, <1>1, AddedKeeps
<1> QED
  BY <1>2, <1>3, <1>4, <1>5, <1>6 DEF Add

-----------------------------------------------------------------------------
(* Removing elements, and the end of the vector *)

\* Positions below a smaller length.
LEMMA Below ==
  ASSUME NEW a \in Nat, NEW m \in Nat, NEW n \in Nat, m <= n
  PROVE  a .. m - 1 \subseteq a .. n - 1
OBVIOUS

\* Fewer slots counted, with the memory as it was, keep the invariant.
LEMMA FewerKeeps ==
  ASSUME IInv, UNCHANGED memory,
         made' \in Nat, made <= made', len' \in 0 .. len,
         start' \in Nat, start <= start', phase' \in {"vec", "iter", "gone"},
         phase' = "vec" => start' = 0, phase' # "gone" => start' <= len',
         out' \subseteq 1 .. made',
         phase' # "gone" => \A i \in start' .. len' - 1 : slots[i] \notin out',
         dropped' \in Seq(Nat), kept' \subseteq Nat, unwound' \in BOOLEAN
  PROVE  IInv'
<1>1. /\ len \in Nat /\ len' \in Nat /\ len' <= len /\ cap \in Nat /\ len <= cap
      /\ made \in Nat /\ slots' = slots /\ cap' = cap
      /\ slots \in [0 .. cap - 1 -> Nat \cup {Uninit}]
  BY DEF IInv, TypeOK, memory
<1>2. 0 .. len' - 1 \subseteq 0 .. len - 1
  BY <1>1, Below
<1>3. TypeOK'
  <2>1. len' \in 0 .. cap' /\ out' \subseteq Nat
    BY <1>1
  <2> QED
    BY <2>1, <1>1 DEF TypeOK
<1>4. ReadsInitialised'
  <2> SUFFICES ASSUME NEW i \in 0 .. len' - 1 PROVE slots[i] \in 1 .. made'
    BY <1>1 DEF ReadsInitialised
  <2>1. slots[i] \in 1 .. made
    BY <1>2 DEF IInv, ReadsInitialised
  <2> QED
    BY <2>1, <1>1
<1>5. Distinct'
  BY <1>1, <1>2 DEF IInv, Distinct
<1>6. NotTaken'
  BY <1>1 DEF NotTaken
<1> QED
  BY <1>3, <1>4, <1>5, <1>6 DEF IInv

\* Every way to take or drop the last elements keeps the invariant.
LEMMA RemoveKeeps ==
  ASSUME IInv, Remove
  PROVE  IInv'
<1>1. /\ len \in Nat /\ made \in Nat /\ start \in Nat
      /\ dropped \in Seq(Nat) /\ kept \subseteq Nat /\ unwound \in BOOLEAN
      /\ out \subseteq 1 .. made /\ phase \in {"vec", "iter", "gone"}
      /\ phase = "vec" => start = 0
  BY DEF IInv, TypeOK, NotTaken
<1>2. CASE Pop
  <2>1. /\ phase = "vec" /\ len > 0 /\ len' = len - 1 /\ out' = out \cup {slots[len - 1]}
        /\ UNCHANGED <<memory, start, phase, made, dropped, kept, unwound>>
    BY <1>2 DEF Pop
  <2>2. len - 1 \in 0 .. len - 1 /\ slots[len - 1] \in 1 .. made
    <3>1. len - 1 \in 0 .. len - 1
      BY <2>1, <1>1
    <3> QED
      BY <3>1 DEF IInv, ReadsInitialised
  <2>3. \A i \in start .. len' - 1 : slots[i] \notin out'
    <3> TAKE i \in start .. len' - 1
    <3>1. i \in 0 .. len - 1 /\ i # len - 1
      BY <2>1, <1>1
    <3>2. slots[i] # slots[len - 1]
      BY <3>1, <2>2 DEF IInv, Distinct
    <3>3. slots[i] \notin out
      BY <3>1, <2>1, <1>1 DEF IInv, NotTaken
    <3> QED
      BY <3>2, <3>3, <2>1
  <2>4. out' \subseteq 1 .. made'
    BY <2>1, <2>2, <1>1
  <2>5. len' \in 0 .. len /\ start' <= len' /\ start <= start' /\ made <= made'
    BY <2>1, <1>1
  <2> QED
    BY <2>1, <2>3, <2>4, <2>5, <1>1, FewerKeeps
<1>3. ASSUME NEW n \in 0 .. len, NEW t \in 0 .. 1, NEW b \in n .. len,
             phase = "vec", made' = made + t, len' \in {n, len},
             dropped' = dropped \o Elems(n, b) \o Made(made, made + t),
             UNCHANGED <<memory, start, phase, out, kept>>, unwound' \in BOOLEAN
      PROVE  IInv'
  <2>1. n \in Nat /\ made + t \in Nat /\ made <= made + t
    BY <1>1
  <2>2. Elems(n, b) \in Seq(Nat) /\ Made(made, made + t) \in Seq(Nat)
    BY <2>1, <1>1, MadeType, ElemsType
  <2>3. dropped' \in Seq(Nat)
    BY <2>2, <1>1, <1>3, ConcatProperties
  <2>4. len' \in 0 .. len /\ start' <= len'
    BY <1>1, <1>3
  <2>5. \A i \in start .. len' - 1 : slots[i] \notin out
    <3>1. len' \in Nat /\ len' <= len
      BY <2>4, <1>1
    <3>2. start .. len' - 1 \subseteq start .. len - 1
      BY <3>1, <1>1, Below
    <3> QED
      BY <3>2, <1>3 DEF IInv, NotTaken
  <2>6. out' \subseteq 1 .. made'
    <3>1. 1 .. made \subseteq 1 .. made + t
      BY <1>1
    <3> QED
      BY <3>1, <1>1, <1>3
  <2>7. made' \in Nat /\ made <= made' /\ start' \in Nat /\ start <= start'
    BY <2>1, <1>1, <1>3
  <2> QED
    BY <2>3, <2>4, <2>5, <2>6, <2>7, <1>1, <1>3, FewerKeeps
<1>4. ASSUME NEW n \in 0 .. len, NEW t \in 0 .. 1, Truncate(n, t)
      PROVE  IInv'
  <2>1. /\ phase = "vec" /\ made' = made + t /\ len' = n /\ unwound' \in BOOLEAN
        /\ dropped' = dropped \o Elems(n, len) \o Made(made, made + t)
        /\ UNCHANGED <<memory, start, phase, out, kept>>
    BY <1>1, <1>4 DEF Truncate
  <2>2. len \in n .. len
    BY <1>1
  <2> QED
    BY <2>1, <2>2, <1>3
<1>5. ASSUME NEW n \in 0 .. len, NEW t \in 0 .. 1, NEW j \in n .. len - 1,
             TruncatePanics(n, t, j)
      PROVE  IInv'
  <2>1. j + 1 \in n .. len
    BY <1>1
  <2> QED
    BY <2>1, <1>1, <1>3, <1>5 DEF TruncatePanics
<1> QED
  BY <1>2, <1>4, <1>5 DEF Remove

\* Drop, finish, and every step of an iterator keep the invariant.
LEMMA EndKeeps ==
  ASSUME IInv, End
  PROVE  IInv'
<1>1. /\ len \in Nat /\ made \in Nat /\ start \in Nat
      /\ dropped \in Seq(Nat) /\ kept \subseteq Nat /\ unwound \in BOOLEAN
      /\ out \subseteq 1 .. made /\ phase \in {"vec", "iter", "gone"}
      /\ phase = "vec" => start = 0
      /\ phase # "gone" => start <= len
  BY DEF IInv, TypeOK, NotTaken
\* The vector or the iterator goes, and only the histories tell what it held.
<1>2. ASSUME phase' = "gone", len' \in {0, len}, dropped' \in Seq(Nat), kept' \subseteq Nat,
             UNCHANGED <<memory, start, made, out>>, unwound' \in BOOLEAN
      PROVE  IInv'
  <2>1. len' \in 0 .. len /\ start' \in Nat /\ start <= start' /\ made' \in Nat
        /\ made <= made' /\ out' \subseteq 1 .. made'
    BY <1>1, <1>2
  <2> QED
    BY <2>1, <1>2, FewerKeeps
<1>3. CASE DropVec
  <2>1. Elems(0, len) \in Seq(Nat)
    BY <1>1, ElemsType
  <2> QED
    BY <2>1, <1>1, <1>2, <1>3, ConcatProperties DEF DropVec
<1>4. ASSUME NEW j \in 0 .. len - 1, DropVecPanics(j) PROVE IInv'
  <2>1. j \in Nat /\ j + 1 \in Nat /\ j + 1 \in 0 .. len /\ len \in j + 1 .. len
    BY <1>1
  <2>2. Elems(0, j + 1) \in Seq(Nat) /\ Elems(j + 1, len) \in Seq(Nat)
    BY <2>1, ElemsType
  <2>3. SetOf(Elems(j + 1, len)) \subseteq Nat
    BY <2>2, ElementOfSeq DEF SetOf
  <2> QED
    BY <2>2, <2>3, <1>1, <1>2, <1>4, ConcatProperties DEF DropVecPanics
<1>5. CASE Finish
  <2>1. Elems(0, len) \in Seq(Nat)
    BY <1>1, ElemsType
  <2>2. SetOf(Elems(0, len)) \subseteq Nat
    BY <2>1, ElementOfSeq DEF SetOf
  <2> QED
    BY <2>2, <1>1, <1>2, <1>5 DEF Finish
<1>6. CASE IntoIter
  <2>1. /\ phase = "vec" /\ phase' = "iter" /\ start' = start /\ len' = len
        /\ UNCHANGED <<memory, made, out, dropped, kept, unwound>>
    BY <1>1, <1>6 DEF IntoIter
  <2>2. \A i \in start' .. len' - 1 : slots[i] \notin out'
    BY <2>1 DEF IInv, NotTaken
  <2>3. len' \in 0 .. len /\ start' <= len' /\ start <= start' /\ made <= made'
    BY <2>1, <1>1
  <2> QED
    BY <2>1, <2>2, <2>3, <1>1, FewerKeeps
<1>7. CASE IterNext
  <2>1. /\ phase = "iter" /\ start < len /\ start' = start + 1 /\ out' = out \cup {slots[start]}
        /\ UNCHANGED <<memory, len, phase, made, dropped, kept, unwound>>
    BY <1>7 DEF IterNext
  <2>2. start \in 0 .. len - 1 /\ slots[start] \in 1 .. made
    <3>1. start \in 0 .. len - 1
      BY <2>1, <1>1
    <3> QED
      BY <3>1 DEF IInv, ReadsInitialised
  <2>3. \A i \in start' .. len' - 1 : slots[i] \notin out'
    <3> TAKE i \in start' .. len' - 1
    <3>1. i \in 0 .. len - 1 /\ i # start /\ i \in start .. len - 1
      BY <2>1, <1>1
    <3>2. slots[i] # slots[start]
      BY <3>1, <2>2 DEF IInv, Distinct
    <3>3. slots[i] \notin out
      BY <3>1, <2>1 DEF IInv, NotTaken
    <3> QED
      BY <3>2, <3>3, <2>1
  <2>4. out' \subseteq 1 .. made'
    BY <2>1, <2>2, <1>1
  <2>5. len' \in 0 .. len /\ start' \in Nat /\ start' <= len' /\ start <= start' /\ made <= made'
    BY <2>1, <1>1
  <2> QED
    BY <2>1, <2>3, <2>4, <2>5, <1>1, FewerKeeps
<1>8. CASE IterDrop
  <2>1. len \in start .. len
    BY <1>1, <1>8 DEF IterDrop
  <2>2. Elems(start, len) \in Seq(Nat)
    BY <2>1, <1>1, ElemsType
  <2> QED
    BY <2>2, <1>1, <1>2, <1>8, ConcatProperties DEF IterDrop
<1>9. ASSUME NEW j \in start .. len - 1, IterDropPanics(j) PROVE IInv'
  <2>1. j + 1 \in start .. len /\ len \in 0 .. len
    BY <1>1
  <2>2. Elems(start, j + 1) \in Seq(Nat) /\ Elems(0, len) \in Seq(Nat)
    BY <2>1, <1>1, ElemsType
  <2>3. dropped' \in Seq(Nat)
    BY <2>2, <1>1, <1>9, ConcatProperties DEF IterDropPanics
  <2> QED
    BY <2>3, <1>1, <1>2, <1>9 DEF IterDropPanics
<1> QED
  BY <1>3, <1>4, <1>5, <1>6, <1>7, <1>8, <1>9 DEF End, IterUnwinds

-----------------------------------------------------------------------------
(* The invariant *)

LEMMA InitHolds == Init => IInv
<1> SUFFICES ASSUME Init PROVE IInv
  OBVIOUS
<1>1. /\ cap = 0 /\ len = 0 /\ start = 0 /\ phase = "vec" /\ made = 0 /\ out = {}
      /\ dropped = <<>> /\ kept = {} /\ unwound = FALSE
      /\ slots = [i \in 0 .. -1 |-> Uninit]
  BY DEF Init
<1>2. slots \in [0 .. cap - 1 -> Nat \cup {Uninit}]
  BY <1>1
<1>3. TypeOK
  <2>1. dropped \in Seq(Nat)
    BY <1>1, EmptySeq
  <2>2. /\ cap \in Nat /\ len \in 0 .. cap /\ start \in Nat /\ start <= len
        /\ made \in Nat /\ out \subseteq Nat /\ kept \subseteq Nat
    BY <1>1
  <2> QED
    BY <2>1, <2>2, <1>1, <1>2 DEF TypeOK
<1>4. \A i \in 0 .. len - 1 : FALSE
  BY <1>1
<1> QED
  BY <1>1, <1>3, <1>4 DEF IInv, ReadsInitialised, Distinct, NotTaken

LEMMA NextKeeps == IInv /\ [Next]_vars => IInv'
<1> SUFFICES ASSUME IInv, [Next]_vars PROVE IInv'
  OBVIOUS
<1>1. CASE UNCHANGED vars
  BY <1>1 DEF vars, memory, IInv, TypeOK, ReadsInitialised, Distinct, NotTaken
<1> QED
  BY <1>1, AddKeeps, RemoveKeeps, EndKeeps DEF Next

THEOREM Inductive == Spec => []IInv
BY InitHolds, NextKeeps, PTL DEF Spec

\* Whatever fails and whatever panics, the variables stay in their domains.
THEOREM ElementsTyped == Spec => []TypeOK
<1>1. IInv => TypeOK
  BY DEF IInv
<1> QED
  BY <1>1, Inductive, PTL

\* No slot that the vector counts is uninitialised or a number never made.
THEOREM NeverReadsUninitialised == Spec => []ReadsInitialised
<1>1. IInv => ReadsInitialised
  BY DEF IInv
<1> QED
  BY <1>1, Inductive, PTL

-----------------------------------------------------------------------------
(* What is dropped was not taken *)

\* Nothing that is dropped from here on was taken before.
DropsUntaken == \A k \in Len(dropped) + 1 .. Len(dropped') : dropped'[k] \notin out

LEMMA DropsBehind ==
  ASSUME IInv, NEW x \in Seq(Nat), NEW y \in Seq(Nat), dropped' = dropped \o x \o y,
         \A k \in 1 .. Len(x) : x[k] \notin out, \A k \in 1 .. Len(y) : y[k] \notin out
  PROVE  DropsUntaken
<1> DEFINE d == dropped \o x
<1>1. dropped \in Seq(Nat) /\ Len(dropped) \in Nat /\ Len(x) \in Nat /\ Len(y) \in Nat
  BY LenProperties DEF IInv, TypeOK
<1>2. /\ d \in Seq(Nat) /\ Len(d) = Len(dropped) + Len(x)
      /\ \A k \in 1 .. Len(dropped) + Len(x) :
           d[k] = IF k <= Len(dropped) THEN dropped[k] ELSE x[k - Len(dropped)]
  BY <1>1, ConcatProperties
<1> HIDE DEF d
<1>3. /\ Len(d \o y) = Len(d) + Len(y)
      /\ \A k \in 1 .. Len(d) + Len(y) :
           (d \o y)[k] = IF k <= Len(d) THEN d[k] ELSE y[k - Len(d)]
  BY <1>2, ConcatProperties
<1> SUFFICES ASSUME NEW k \in Len(dropped) + 1 .. Len(d) + Len(y)
             PROVE  (d \o y)[k] \notin out
  BY <1>3 DEF DropsUntaken, d
<1>4. k \in 1 .. Len(d) + Len(y) /\ k > Len(dropped)
  BY <1>1, <1>2
<1>5. CASE k <= Len(d)
  <2>1. k - Len(dropped) \in 1 .. Len(x) /\ k \in 1 .. Len(dropped) + Len(x)
    BY <1>1, <1>2, <1>4, <1>5
  <2>2. (d \o y)[k] = x[k - Len(dropped)]
    <3>1. (d \o y)[k] = d[k]
      BY <1>3, <1>4, <1>5
    <3>2. ~(k <= Len(dropped))
      BY <1>1, <1>4
    <3>3. d[k] = x[k - Len(dropped)]
      BY <2>1, <3>2, <1>2
    <3> QED
      BY <3>1, <3>3
  <2> QED
    BY <2>1, <2>2
<1>6. CASE ~(k <= Len(d))
  <2>1. k - Len(d) \in 1 .. Len(y)
    BY <1>1, <1>2, <1>4, <1>6
  <2>2. (d \o y)[k] = y[k - Len(d)]
    BY <1>3, <1>4, <1>6
  <2> QED
    BY <2>1, <2>2
<1> QED
  BY <1>5, <1>6

\* A template, numbered after everything taken.
LEMMA TemplateUntaken ==
  ASSUME IInv, NEW t \in 0 .. 1
  PROVE  /\ Made(made, made + t) \in Seq(Nat)
         /\ \A k \in 1 .. Len(Made(made, made + t)) : Made(made, made + t)[k] \notin out
<1>1. made \in Nat /\ made + t \in Nat /\ made <= made + t /\ out \subseteq 1 .. made
  BY DEF IInv, TypeOK, NotTaken
<1>2. /\ Made(made, made + t) \in Seq(Nat) /\ Len(Made(made, made + t)) = (made + t) - made
      /\ \A k \in 1 .. (made + t) - made : Made(made, made + t)[k] = made + k
  BY <1>1, MadeType
<1>3. \A k \in 1 .. (made + t) - made : made + k \notin 1 .. made
  BY <1>1
<1> QED
  BY <1>1, <1>2, <1>3

\* Elements that the vector or the iterator still holds.
LEMMA HeldUntaken ==
  ASSUME IInv, phase # "gone", NEW a \in start .. len, NEW b \in a .. len
  PROVE  /\ Elems(a, b) \in Seq(Nat)
         /\ \A k \in 1 .. Len(Elems(a, b)) : Elems(a, b)[k] \notin out
<1>1. start \in Nat /\ len \in Nat /\ a \in Nat /\ b \in Nat
  BY DEF IInv, TypeOK
<1>2. /\ Elems(a, b) \in Seq(Nat) /\ Len(Elems(a, b)) = b - a
      /\ \A k \in 1 .. b - a : Elems(a, b)[k] = slots[a + k - 1]
  BY <1>1, ElemsType
<1>3. \A k \in 1 .. b - a : a + k - 1 \in start .. len - 1
  BY <1>1
<1> QED
  BY <1>2, <1>3 DEF IInv, NotTaken

\* Adding drops at most a value that was just made.
LEMMA AddUntaken ==
  ASSUME IInv, Add
  PROVE  DropsUntaken
<1>1. /\ made \in Nat /\ out \subseteq 1 .. made /\ dropped \in Seq(Nat)
      /\ Len(dropped) \in Nat
  BY LenProperties DEF IInv, TypeOK, NotTaken
<1>2. ASSUME dropped' = dropped PROVE DropsUntaken
  BY <1>1, <1>2 DEF DropsUntaken
<1>3. ASSUME dropped' = Append(dropped, made + 1) PROVE DropsUntaken
  <2>1. Len(dropped') = Len(dropped) + 1 /\ dropped'[Len(dropped) + 1] = made + 1
    BY <1>1, <1>3, AppendProperties
  <2> QED
    BY <2>1, <1>1 DEF DropsUntaken
<1>4. ASSUME NEW t \in 0 .. 1, dropped' = dropped \o Made(made, made + t)
      PROVE  DropsUntaken
  <2>1. <<>> \in Seq(Nat) /\ Len(<<>>) = 0 /\ dropped \o <<>> = dropped
    BY <1>1, EmptySeq, ConcatEmptySeq
  <2>2. dropped' = dropped \o <<>> \o Made(made, made + t)
    BY <2>1, <1>4
  <2>3. /\ Made(made, made + t) \in Seq(Nat)
        /\ \A k \in 1 .. Len(Made(made, made + t)) : Made(made, made + t)[k] \notin out
    BY TemplateUntaken
  <2>4. \A k \in 1 .. Len(<<>>) : <<>>[k] \notin out
    BY <2>1
  <2> QED
    BY <2>1, <2>2, <2>3, <2>4, DropsBehind
<1> QED
  BY <1>2, <1>3, <1>4 DEF Add, Push, GrowthFails, Reserve, Fill, FillPanics

\* What truncate and resize drop was in the vector.
LEMMA RemoveUntaken ==
  ASSUME IInv, Remove
  PROVE  DropsUntaken
<1>1. /\ start \in Nat /\ len \in Nat /\ dropped \in Seq(Nat) /\ Len(dropped) \in Nat
      /\ phase = "vec" => start = 0
  BY LenProperties DEF IInv, TypeOK
<1>2. CASE Pop
  BY <1>1, <1>2 DEF Pop, DropsUntaken
<1>3. ASSUME NEW n \in 0 .. len, NEW t \in 0 .. 1, NEW b \in n .. len, phase = "vec",
             dropped' = dropped \o Elems(n, b) \o Made(made, made + t)
      PROVE  DropsUntaken
  <2>1. n \in start .. len
    BY <1>1, <1>3
  <2> QED
    BY <2>1, <1>3, HeldUntaken, TemplateUntaken, DropsBehind
<1>4. ASSUME NEW n \in 0 .. len, NEW t \in 0 .. 1, Truncate(n, t)
      PROVE  DropsUntaken
  <2>1. len \in n .. len
    BY <1>1
  <2> QED
    BY <2>1, <1>3, <1>4 DEF Truncate
<1>5. ASSUME NEW n \in 0 .. len, NEW t \in 0 .. 1, NEW j \in n .. len - 1,
             TruncatePanics(n, t, j)
      PROVE  DropsUntaken
  <2>1. j + 1 \in n .. len
    BY <1>1
  <2> QED
    BY <2>1, <1>3, <1>5 DEF TruncatePanics
<1> QED
  BY <1>2, <1>4, <1>5 DEF Remove

\* What the vector drops at its end, and what an iterator's Drop drops that does
\* not unwind, it still held.
LEMMA EndUntaken ==
  ASSUME IInv, End, ~IterUnwinds
  PROVE  DropsUntaken
<1>1. /\ start \in Nat /\ len \in Nat /\ dropped \in Seq(Nat) /\ Len(dropped) \in Nat
      /\ phase = "vec" => start = 0
      /\ phase # "gone" => start <= len
  BY LenProperties DEF IInv, TypeOK
<1>2. ASSUME dropped' = dropped PROVE DropsUntaken
  BY <1>1, <1>2 DEF DropsUntaken
<1>3. ASSUME phase # "gone", NEW b \in start .. len, dropped' = dropped \o Elems(start, b)
      PROVE  DropsUntaken
  <2>1. start \in start .. len
    BY <1>1, <1>3
  <2>2. /\ Elems(start, b) \in Seq(Nat)
        /\ \A k \in 1 .. Len(Elems(start, b)) : Elems(start, b)[k] \notin out
    BY <2>1, <1>3, HeldUntaken
  <2>3. <<>> \in Seq(Nat) /\ Len(<<>>) = 0 /\ dropped \o <<>> = dropped
    BY <1>1, EmptySeq, ConcatEmptySeq
  <2>4. dropped' = dropped \o <<>> \o Elems(start, b) /\ \A k \in 1 .. 0 : FALSE
    BY <2>3, <1>3
  <2> QED
    BY <2>2, <2>3, <2>4, DropsBehind
<1>4. CASE DropVec
  <2>1. phase = "vec" /\ start = 0 /\ len \in start .. len /\ dropped' = dropped \o Elems(0, len)
    BY <1>1, <1>4 DEF DropVec
  <2> QED
    BY <2>1, <1>3
<1>5. ASSUME NEW j \in 0 .. len - 1, DropVecPanics(j) PROVE DropsUntaken
  <2>1. start = 0
    BY <1>1, <1>5 DEF DropVecPanics
  <2> DEFINE b == j + 1
  <2>2. b \in start .. len
    BY <2>1, <1>1
  <2>3. phase # "gone" /\ dropped' = dropped \o Elems(start, b)
    BY <2>1, <1>5 DEF DropVecPanics
  <2> HIDE DEF b
  <2> QED
    BY <2>2, <2>3, <1>3
<1>6. CASE IterDrop
  <2>1. phase # "gone" /\ dropped' = dropped \o Elems(start, len)
    BY <1>6 DEF IterDrop
  <2>2. len \in start .. len
    BY <2>1, <1>1
  <2> QED
    BY <2>1, <2>2, <1>3
<1> QED
  BY <1>2, <1>4, <1>5, <1>6 DEF End, Finish, IntoIter, IterNext

\* No element is dropped after the vector gave it to the caller, whatever fails
\* and whatever panicked before. The one step left out is the Drop of an
\* iterator that unwinds: it does drop such elements.
THEOREM TakenStaysTaken == Spec => NeverDropsTaken
<1>1. ASSUME IInv, [Next]_vars
      PROVE  [~IterUnwinds => DropsUntaken]_vars
  BY <1>1, AddUntaken, RemoveUntaken, EndUntaken DEF Next
<1>2. [~IterUnwinds => DropsUntaken]_vars
      => [~IterUnwinds =>
            \A k \in Len(dropped) + 1 .. Len(dropped') : dropped'[k] \notin out]_vars
  BY DEF DropsUntaken
<1> QED
  BY <1>1, <1>2, Inductive, PTL DEF Spec, NeverDropsTaken

-----------------------------------------------------------------------------
(* The vector is the sequence of its elements *)

\* Initialised slots, read from position a, are a sequence.
LEMMA Stretch ==
  ASSUME NEW s, NEW a \in Nat, NEW b \in Nat, a <= b,
         NEW m \in Nat, \A i \in 0 .. b - 1 : s[i] \in 1 .. m,
         NEW q, q = [k \in 1 .. b - a |-> s[a + k - 1]]
  PROVE  /\ q \in Seq(Nat) /\ Len(q) = b - a
         /\ \A k \in 1 .. b - a : q[k] = s[a + k - 1]
<1>1. \A k \in 1 .. b - a : s[a + k - 1] \in 1 .. m
  <2> TAKE k \in 1 .. b - a
  <2>1. a + k - 1 \in 0 .. b - 1
    OBVIOUS
  <2> QED
    BY <2>1
<1>2. q \in [1 .. b - a -> Nat] /\ b - a \in Nat
  BY <1>1
<1>3. q \in Seq(Nat)
  BY <1>2, SeqDef
<1>4. Len(q) = b - a
  BY <1>2, <1>3, LenProperties
<1> QED
  BY <1>3, <1>4

LEMMA HeldNow ==
  ASSUME IInv, phase # "gone"
  PROVE  /\ held \in Seq(Nat) /\ Len(held) = len - start
         /\ \A k \in 1 .. len - start : held[k] = slots[start + k - 1]
<1>1. start \in Nat /\ len \in Nat /\ start <= len /\ made \in Nat
  BY DEF IInv, TypeOK
<1>2. \A i \in 0 .. len - 1 : slots[i] \in 1 .. made
  BY DEF IInv, ReadsInitialised
<1>3. held = [k \in 1 .. len - start |-> slots[start + k - 1]]
  BY DEF held, Elems
<1> QED
  BY <1>1, <1>2, <1>3, Stretch

LEMMA HeldNext ==
  ASSUME IInv', phase' # "gone"
  PROVE  /\ held' \in Seq(Nat) /\ Len(held') = len' - start'
         /\ \A k \in 1 .. len' - start' : held'[k] = slots'[start' + k - 1]
<1>1. start' \in Nat /\ len' \in Nat /\ start' <= len' /\ made' \in Nat
  BY DEF IInv, TypeOK
<1>2. \A i \in 0 .. len' - 1 : slots'[i] \in 1 .. made'
  BY DEF IInv, ReadsInitialised
<1>3. held' = [k \in 1 .. len' - start' |-> slots'[start' + k - 1]]
  BY DEF held, Elems
<1> DEFINE s == slots'  a == start'  b == len'  m == made'  q == held'
<1>4. /\ a \in Nat /\ b \in Nat /\ a <= b /\ m \in Nat
      /\ \A i \in 0 .. b - 1 : s[i] \in 1 .. m
      /\ q = [k \in 1 .. b - a |-> s[a + k - 1]]
  BY <1>1, <1>2, <1>3
<1> HIDE DEF s, a, b, m, q
<1>5. /\ q \in Seq(Nat) /\ Len(q) = b - a
      /\ \A k \in 1 .. b - a : q[k] = s[a + k - 1]
  BY <1>4, Stretch
<1> QED
  BY <1>5 DEF s, a, b, m, q

LEMMA HeldNextFromZero ==
  ASSUME IInv', phase' # "gone", start' = 0
  PROVE  /\ held' \in Seq(Nat) /\ Len(held') = len'
         /\ \A k \in 1 .. len' : held'[k] = slots'[k - 1]
<1>1. len' \in Nat
  BY DEF IInv, TypeOK
<1>2. /\ held' \in Seq(Nat) /\ Len(held') = len' - start'
      /\ \A k \in 1 .. len' - start' : held'[k] = slots'[start' + k - 1]
  BY HeldNext
<1> DEFINE s == slots'  a == start'  b == len'  q == held'
<1>3. /\ b \in Nat /\ a = 0 /\ q \in Seq(Nat) /\ Len(q) = b - a
      /\ \A k \in 1 .. b - a : q[k] = s[a + k - 1]
  BY <1>1, <1>2
<1> HIDE DEF s, a, b, q
<1>4. /\ q \in Seq(Nat) /\ Len(q) = b
      /\ \A k \in 1 .. b : q[k] = s[k - 1]
  BY <1>3
<1> QED
  BY <1>4 DEF s, b, q

\* New elements that the vector counts enter the sequence at its end.
LEMMA AddedHeld ==
  ASSUME IInv, IInv', phase = "vec",
         NEW a \in Nat, NEW b \in Nat, a <= b,
         NEW needed \in Nat, NEW new_cap \in Nat,
         len + (b - a) <= needed, needed > cap => needed <= new_cap,
         WriteBehind(Made(a, b), needed, new_cap),
         UNCHANGED <<start, phase>>
  PROVE  /\ len' = len + (b - a) => held' = held \o Made(a, b)
         /\ len' = len => held' = held
<1>1. len \in Nat /\ start = 0 /\ start' = 0 /\ phase # "gone" /\ phase' # "gone"
  BY DEF IInv, TypeOK
<1>2. /\ Made(a, b) \in Seq(Nat) /\ Len(Made(a, b)) = b - a
      /\ \A k \in 1 .. b - a : Made(a, b)[k] = a + k
  BY MadeType
<1>3. /\ \A i \in 0 .. len - 1 : slots'[i] = slots[i]
      /\ \A k \in 1 .. b - a : slots'[len + k - 1] = Made(a, b)[k]
  BY <1>2, WriteBehindOutcome
<1>4. /\ held \in Seq(Nat) /\ Len(held) = len
      /\ \A k \in 1 .. len : held[k] = slots[k - 1]
  BY <1>1, HeldNow
<1>5. /\ held' \in Seq(Nat) /\ Len(held') = len'
      /\ \A k \in 1 .. len' : held'[k] = slots'[k - 1]
  BY <1>1, HeldNextFromZero
<1>6. \A k \in 1 .. len : slots'[k - 1] = held[k]
  <2> TAKE k \in 1 .. len
  <2>1. k - 1 \in 0 .. len - 1
    BY <1>1
  <2> QED
    BY <2>1, <1>3, <1>4
<1>7. ASSUME len' = len + (b - a) PROVE held' = held \o Made(a, b)
  <2>1. /\ held \o Made(a, b) \in Seq(Nat) /\ Len(held \o Made(a, b)) = len + (b - a)
        /\ \A k \in 1 .. len + (b - a) :
             (held \o Made(a, b))[k] = IF k <= len THEN held[k] ELSE Made(a, b)[k - len]
    <3> DEFINE h == held  m == Made(a, b)
    <3>1. h \in Seq(Nat) /\ m \in Seq(Nat) /\ Len(h) = len /\ Len(m) = b - a
      BY <1>2, <1>4
    <3> HIDE DEF h, m
    <3>2. /\ h \o m \in Seq(Nat) /\ Len(h \o m) = Len(h) + Len(m)
          /\ \A k \in 1 .. Len(h) + Len(m) :
               (h \o m)[k] = IF k <= Len(h) THEN h[k] ELSE m[k - Len(h)]
      BY <3>1, ConcatProperties
    <3> QED
      BY <3>1, <3>2 DEF h, m
  <2>2. ASSUME NEW k \in 1 .. len + (b - a) PROVE held'[k] = (held \o Made(a, b))[k]
    <3>1. held'[k] = slots'[k - 1]
      BY <1>5, <1>7
    <3>2. CASE k <= len
      BY <3>1, <3>2, <2>1, <1>1, <1>6
    <3>3. CASE ~(k <= len)
      <4>1. k - len \in 1 .. b - a /\ len + (k - len) - 1 = k - 1
        BY <3>3, <1>1
      <4>2. slots'[len + (k - len) - 1] = Made(a, b)[k - len]
        BY <4>1, <1>3
      <4> QED
        BY <4>1, <4>2, <3>1, <3>3, <2>1
    <3> QED
      BY <3>2, <3>3
  <2> QED
    BY <2>1, <2>2, <1>5, <1>7, SeqEqual
<1>8. ASSUME len' = len PROVE held' = held
  BY <1>4, <1>5, <1>6, <1>8, SeqEqual
<1> QED
  BY <1>7, <1>8

\* A template that was not made drops nothing.
LEMMA NoTemplate ==
  ASSUME IInv
  PROVE  Made(made, made) = <<>> /\ dropped \o Made(made, made) = dropped
<1>1. made \in Nat /\ made <= made /\ made - made = 0 /\ dropped \in Seq(Nat)
  BY DEF IInv, TypeOK
<1>2. Made(made, made) \in Seq(Nat) /\ Len(Made(made, made)) = 0
  BY <1>1, MadeType
<1>3. Made(made, made) = <<>>
  BY <1>2, EmptySeq
<1> QED
  BY <1>1, <1>3, ConcatEmptySeq

\* Every way to add elements, or to fail to, is a step of the promise.
LEMMA AddRefines ==
  ASSUME IInv, IInv', Add
  PROVE  [Abs!Next]_(Abs!vars)
<1>1. /\ len \in Nat /\ cap \in Nat /\ len <= cap /\ made \in Nat
      /\ dropped \in Seq(Nat)
  BY DEF IInv, TypeOK
<1>2. CASE Push
  <2>1. /\ phase = "vec" /\ made' = made + 1 /\ len' = len + 1
        /\ WriteBehind(<<made + 1>>, len + 1, NextCap)
        /\ UNCHANGED <<start, phase, out, dropped, kept, unwound>>
    BY <1>2 DEF Push
  <2>2. NextCap \in Nat /\ (len + 1 > cap => len + 1 <= NextCap)
    BY <1>1, VecElementsAssumption DEF NextCap
  <2>3. <<made + 1>> = Made(made, made + 1)
    BY <1>1, OneMade
  <2>4. held' = held \o Made(made, made + 1)
    <3>1. /\ made + 1 \in Nat /\ made <= made + 1 /\ len + 1 \in Nat
          /\ len + ((made + 1) - made) <= len + 1 /\ len' = len + ((made + 1) - made)
      BY <2>1, <1>1
    <3> QED
      BY <3>1, <2>1, <2>2, <2>3, <1>1, AddedHeld
  <2>5. /\ made' >= made + 0 /\ held' = held \o Made(made + 0, made')
        /\ dropped' = dropped \o Made(made, made + 0)
    BY <2>1, <2>4, <1>1, NoTemplate
  <2>6. Abs!Enter(0)
    BY <2>1, <2>5 DEF Abs!Enter, Abs!Made, Made
  <2> QED
    BY <2>1, <2>6 DEF Abs!Next, Abs!Promise, Abs!Operation
<1>3. CASE GrowthFails
  <2>1. /\ phase = "vec" /\ made' = made + 1
        /\ UNCHANGED <<slots, cap, len, start, phase, kept, unwound>>
        /\ \/ dropped' = Append(dropped, made + 1) /\ out' = out
           \/ out' = out \cup {made + 1} /\ dropped' = dropped
    BY <1>3 DEF GrowthFails, memory
  <2>2. held' = held
    BY <2>1 DEF held, Elems
  <2>3. CASE out' = out \cup {made + 1} /\ dropped' = dropped
    BY <2>1, <2>2, <2>3 DEF Abs!Next, Abs!Promise, Abs!Operation, Abs!Return
  <2>4. CASE dropped' = Append(dropped, made + 1) /\ out' = out
    <3> DEFINE n == Len(held)
    <3>1. held \in Seq(Nat) /\ n \in Nat
      BY <2>1, HeldNow, LenProperties
    <3>2. SubSeq(held, 1, n) = held /\ SubSeq(held, n + 1, n) = <<>>
      BY <3>1, SubSeqFull, SubSeqEmpty
    <3>3. dropped' = dropped \o <<>> \o Made(made, made + 1)
      <4>1. Append(dropped, made + 1) = dropped \o <<made + 1>>
        BY <1>1, AppendIsConcat
      <4>2. dropped \o <<>> = dropped /\ <<made + 1>> = Made(made, made + 1)
        BY <1>1, ConcatEmptySeq, OneMade
      <4> QED
        BY <4>1, <4>2, <2>4
    <3>4. n \in 0 .. Len(held)
      BY <3>1
    <3>5. Abs!Shrink(n, 1)
      BY <3>2, <3>3, <2>1, <2>2, <2>4 DEF Abs!Shrink, Abs!Made, Made
    <3> QED
      BY <3>4, <3>5, <2>1 DEF Abs!Next, Abs!Promise, Abs!Operation
  <2> QED
    BY <2>1, <2>3, <2>4
<1>4. ASSUME NEW n \in 1 .. MaxCap, Reserve(n)
      PROVE  [Abs!Next]_(Abs!vars)
  <2>1. /\ phase = "vec" /\ made' = made /\ len' = len
        /\ WriteBehind(Made(made, made), len + n, len + n)
        /\ UNCHANGED <<start, phase, out, dropped, kept, unwound>>
    BY <1>4, NoTemplate DEF Reserve
  <2>2. n \in Nat
    BY VecElementsAssumption
  <2>3. held' = held
    BY <2>1, <2>2, <1>1, AddedHeld
  <2> QED
    BY <2>1, <2>3 DEF Abs!vars
<1>5. ASSUME NEW n \in 1 .. MaxCap, NEW t \in 0 .. 1, Fill(n, t)
      PROVE  [Abs!Next]_(Abs!vars)
  <2>1. /\ phase = "vec" /\ made' = made + t + n /\ len' = len + n
        /\ WriteBehind(Made(made + t, made + t + n), len + n, len + n)
        /\ dropped' = dropped \o Made(made, made + t)
        /\ UNCHANGED <<start, phase, out, kept, unwound>>
    BY <1>5 DEF Fill
  <2>2. /\ n \in Nat /\ made + t \in Nat /\ made + t + n \in Nat
        /\ made + t <= made + t + n /\ len + n \in Nat
        /\ len + ((made + t + n) - (made + t)) = len + n /\ len + n <= len + n
    BY <1>1, VecElementsAssumption
  <2>3. held' = held \o Made(made + t, made + t + n)
    BY <2>1, <2>2, AddedHeld
  <2>4. Abs!Enter(t)
    BY <2>1, <2>2, <2>3 DEF Abs!Enter, Abs!Made, Made
  <2> QED
    BY <2>1, <2>4 DEF Abs!Next, Abs!Promise, Abs!Operation
<1>6. ASSUME NEW n \in 1 .. MaxCap, NEW t \in 0 .. 1, NEW k \in 0 .. n - 1,
             FillPanics(n, t, k)
      PROVE  [Abs!Next]_(Abs!vars)
  <2>1. /\ phase = "vec" /\ made' = made + t + k /\ len' = len
        /\ WriteBehind(Made(made + t, made + t + k), len + n, len + n)
        /\ dropped' = dropped \o Made(made, made + t)
        /\ kept' = kept \cup made + t + 1 .. made + t + k
        /\ UNCHANGED <<start, phase, out, unwound>>
    BY <1>6 DEF FillPanics
  <2>2. /\ n \in Nat /\ k \in Nat /\ k <= n /\ made + t \in Nat /\ made + t + k \in Nat
        /\ made + t <= made + t + k /\ len + n \in Nat
        /\ len + ((made + t + k) - (made + t)) <= len + n
    BY <1>1, VecElementsAssumption
  <2>3. held' = held
    BY <2>1, <2>2, AddedHeld
  <2>4. Abs!EnterNever(t)
    BY <2>1, <2>2, <2>3 DEF Abs!EnterNever, Abs!Made, Made
  <2> QED
    BY <2>1, <2>4 DEF Abs!Next, Abs!Promise, Abs!Operation
<1> QED
  BY <1>2, <1>3, <1>4, <1>5, <1>6 DEF Add

\* The elements behind the first n are the end of the sequence.
LEMMA ElemsOfHeld ==
  ASSUME IInv, phase # "gone", NEW n \in 0 .. len - start
  PROVE  Elems(start + n, len) = SubSeq(held, n + 1, Len(held))
<1> DEFINE h == held  e == Elems(start + n, len)
<1>1. start \in Nat /\ len \in Nat /\ n \in Nat /\ start + n \in Nat /\ len \in start + n .. len
  BY DEF IInv, TypeOK
<1>2. /\ e \in Seq(Nat) /\ Len(e) = len - (start + n)
      /\ \A k \in 1 .. len - (start + n) : e[k] = slots[(start + n) + k - 1]
  BY <1>1, ElemsType
<1>3. /\ h \in Seq(Nat) /\ Len(h) = len - start
      /\ \A k \in 1 .. len - start : h[k] = slots[start + k - 1]
  BY HeldNow
<1> HIDE DEF h, e
<1>4. \A i \in n + 1 .. Len(h) : h[i] \in Nat
  <2>1. \A i \in n + 1 .. Len(h) : i \in 1 .. Len(h)
    BY <1>1, <1>3
  <2> QED
    BY <2>1, <1>3, ElementOfSeq
<1> DEFINE f == SubSeq(h, n + 1, Len(h))
<1>5. /\ f \in Seq(Nat) /\ Len(f) = IF n + 1 <= Len(h) THEN Len(h) - (n + 1) + 1 ELSE 0
      /\ \A i \in 1 .. Len(h) - (n + 1) + 1 : f[i] = h[(n + 1) + i - 1]
  <2> DEFINE m == n + 1  l == Len(h)
  <2>1. m \in Int /\ l \in Int /\ \A i \in m .. l : h[i] \in Nat
    BY <1>1, <1>3, <1>4
  <2> HIDE DEF m, l
  <2>2. /\ SubSeq(h, m, l) \in Seq(Nat)
        /\ Len(SubSeq(h, m, l)) = IF m <= l THEN l - m + 1 ELSE 0
        /\ \A i \in 1 .. l - m + 1 : SubSeq(h, m, l)[i] = h[m + i - 1]
    BY <2>1, SubSeqProperties
  <2> QED
    BY <2>2 DEF m, l
<1> HIDE DEF f
<1>6. Len(f) = Len(e)
  BY <1>1, <1>2, <1>3, <1>5
<1>7. ASSUME NEW k \in 1 .. Len(e) PROVE e[k] = f[k]
  <2>1. /\ k \in 1 .. len - (start + n) /\ k \in 1 .. Len(h) - (n + 1) + 1
        /\ n + k \in 1 .. len - start
        /\ (n + 1) + k - 1 = n + k /\ (start + n) + k - 1 = start + (n + k) - 1
    BY <1>1, <1>2, <1>3, <1>7
  <2>2. e[k] = slots[start + (n + k) - 1] /\ f[k] = h[n + k]
    BY <2>1, <1>2, <1>5
  <2> QED
    BY <2>1, <2>2, <1>3
<1>8. e = f
  BY <1>2, <1>5, <1>6, <1>7, SeqEqual
<1> QED
  BY <1>8 DEF e, f, h

\* Where the vector counts fewer slots of the same memory, it is the beginning
\* of the sequence.
LEMMA HeldShorter ==
  ASSUME IInv, IInv', phase # "gone", phase' # "gone", slots' = slots, start' = start,
         NEW n \in 0 .. len - start, len' = start + n
  PROVE  held' = SubSeq(held, 1, n)
<1> DEFINE h == held  g == held'
<1>1. start \in Nat /\ len \in Nat /\ n \in Nat /\ n <= len - start
  BY DEF IInv, TypeOK
<1>2. /\ h \in Seq(Nat) /\ Len(h) = len - start
      /\ \A k \in 1 .. len - start : h[k] = slots[start + k - 1]
  BY HeldNow
<1>3. /\ g \in Seq(Nat) /\ Len(g) = n
      /\ \A k \in 1 .. n : g[k] = slots[start + k - 1]
  <2>1. len' - start' = n /\ start' = start /\ slots' = slots
    BY <1>1
  <2> QED
    BY <2>1, HeldNext
<1> HIDE DEF h, g
<1>4. \A i \in 1 .. n : h[i] \in Nat /\ i \in 1 .. len - start
  <2>1. \A i \in 1 .. n : i \in 1 .. Len(h)
    BY <1>1, <1>2
  <2> QED
    BY <2>1, <1>2, ElementOfSeq
<1> DEFINE f == SubSeq(h, 1, n)
<1>5. /\ f \in Seq(Nat) /\ Len(f) = IF 1 <= n THEN n - 1 + 1 ELSE 0
      /\ \A i \in 1 .. n - 1 + 1 : f[i] = h[1 + i - 1]
  <2>1. n \in Int /\ 1 \in Int
    BY <1>1
  <2> QED
    BY <2>1, <1>4, SubSeqProperties
<1> HIDE DEF f
<1>6. Len(f) = n
  BY <1>1, <1>5
<1>7. ASSUME NEW k \in 1 .. n PROVE g[k] = f[k]
  <2>1. k \in 1 .. n - 1 + 1 /\ 1 + k - 1 = k /\ k \in 1 .. len - start
    BY <1>1, <1>4, <1>7
  <2> QED
    BY <2>1, <1>2, <1>3, <1>5
<1>8. g = f
  BY <1>3, <1>5, <1>6, <1>7, SeqEqual
<1> QED
  BY <1>8 DEF f, g, h

\* Every way to take or drop the last elements is a step of the promise.
LEMMA RemoveRefines ==
  ASSUME IInv, IInv', Remove
  PROVE  [Abs!Next]_(Abs!vars)
<1>1. /\ len \in Nat /\ made \in Nat /\ start \in Nat /\ dropped \in Seq(Nat)
      /\ phase = "vec" => start = 0
  BY DEF IInv, TypeOK
<1>2. CASE Pop
  <2>1. /\ phase = "vec" /\ start = 0 /\ len > 0 /\ len' = len - 1
        /\ out' = out \cup {slots[len - 1]} /\ slots' = slots
        /\ UNCHANGED <<start, phase, made, dropped, kept, unwound>>
    BY <1>1, <1>2 DEF Pop, memory
  <2>2. held \in Seq(Nat) /\ Len(held) = len /\ held[len] = slots[len - 1]
    <3>1. len - start = len /\ len \in 1 .. len - start /\ start + len - 1 = len - 1
      BY <2>1, <1>1
    <3> QED
      BY <3>1, <2>1, HeldNow
  <2>3. held # <<>>
    BY <2>1, <2>2, EmptySeq
  <2>4. held' = SubSeq(held, 1, len - 1)
    <3>1. len - 1 \in 0 .. len - start /\ len' = start + (len - 1)
      BY <2>1, <1>1
    <3> QED
      BY <3>1, <2>1, HeldShorter
  <2>5. Abs!TakeLast
    BY <2>1, <2>2, <2>3, <2>4 DEF Abs!TakeLast
  <2> QED
    BY <2>1, <2>5 DEF Abs!Next, Abs!Promise, Abs!Operation
<1>3. ASSUME NEW n \in 0 .. len, NEW t \in 0 .. 1, Truncate(n, t)
      PROVE  [Abs!Next]_(Abs!vars)
  <2>1. /\ phase = "vec" /\ start = 0 /\ len' = n /\ made' = made + t /\ slots' = slots
        /\ dropped' = dropped \o Elems(n, len) \o Made(made, made + t)
        /\ UNCHANGED <<start, phase, out, kept, unwound>>
    BY <1>1, <1>3 DEF Truncate, memory
  <2>2. n \in 0 .. len - start /\ len' = start + n /\ start + n = n /\ len - start = len
    BY <2>1, <1>1
  <2>3. Len(held) = len
    BY <2>1, <2>2, HeldNow
  <2>4. Elems(n, len) = SubSeq(held, n + 1, Len(held))
    BY <2>1, <2>2, ElemsOfHeld
  <2>5. held' = SubSeq(held, 1, n)
    BY <2>1, <2>2, HeldShorter
  <2>6. Abs!Shrink(n, t)
    BY <2>1, <2>4, <2>5 DEF Abs!Shrink, Abs!Made, Made
  <2> QED
    BY <2>1, <2>3, <2>6 DEF Abs!Next, Abs!Promise, Abs!Operation
<1>4. ASSUME NEW n \in 0 .. len, NEW t \in 0 .. 1, NEW j \in n .. len - 1,
             TruncatePanics(n, t, j)
      PROVE  [Abs!Next]_(Abs!vars)
  BY <1>4 DEF TruncatePanics, Abs!Next
<1> QED
  BY <1>2, <1>3, <1>4 DEF Remove

\* Drop, finish, and every step of an iterator are steps of the promise.
LEMMA EndRefines ==
  ASSUME IInv, IInv', End
  PROVE  [Abs!Next]_(Abs!vars)
<1>1. /\ len \in Nat /\ made \in Nat /\ start \in Nat /\ dropped \in Seq(Nat)
      /\ phase = "vec" => start = 0
      /\ phase # "gone" => start <= len
  BY DEF IInv, TypeOK
<1>2. CASE DropVec
  <2>1. /\ phase = "vec" /\ start = 0 /\ phase' = "gone"
        /\ dropped' = dropped \o Elems(0, len)
        /\ UNCHANGED <<made, out, kept, unwound>>
    BY <1>1, <1>2 DEF DropVec
  <2>2. held = Elems(0, len) /\ held' = <<>>
    BY <2>1 DEF held
  <2>3. held \in Seq(Nat) /\ Len(held) \in Nat
    BY <2>1, HeldNow, LenProperties
  <2>4. SubSeq(held, 1, 0) = <<>> /\ SubSeq(held, 0 + 1, Len(held)) = held
    BY <2>3, SubSeqEmpty, SubSeqFull
  <2>5. Made(made, made + 0) = <<>>
    BY <1>1, NoTemplate
  <2>6. dropped' = dropped \o SubSeq(held, 0 + 1, Len(held)) \o Made(made, made + 0)
    <3>1. dropped \o held \in Seq(Nat)
      BY <2>3, <1>1, ConcatProperties
    <3> QED
      BY <3>1, <2>1, <2>2, <2>4, <2>5, ConcatEmptySeq
  <2>7. Abs!Shrink(0, 0)
    BY <2>1, <2>2, <2>4, <2>6, <1>1 DEF Abs!Shrink, Abs!Made, Made
  <2>8. 0 \in 0 .. Len(held)
    BY <2>3
  <2> QED
    BY <2>1, <2>7, <2>8 DEF Abs!Next, Abs!Promise, Abs!Operation
<1>3. CASE IterDrop
  <2>1. /\ phase = "iter" /\ phase' = "gone"
        /\ dropped' = dropped \o Elems(start, len)
        /\ UNCHANGED <<made, out, kept, unwound>>
    BY <1>3 DEF IterDrop
  <2>2. held = Elems(start, len) /\ held' = <<>>
    BY <2>1 DEF held
  <2> DEFINE I == 1 .. Len(held)  id == [k \in I |-> k]
  <2>3. held = [k \in I |-> held[id[k]]]
    <3>1. held = [k \in I |-> held[k]]
      BY <2>1, HeldNow, SeqDef
    <3> QED
      BY <3>1
  <2>4. id \in Abs!Bijection(I, I)
    BY DEF Abs!Bijection, Abs!Injection, Abs!Surjection, Abs!IsInjective
  <2>5. Abs!DropRest
    BY <2>1, <2>2, <2>3, <2>4 DEF Abs!DropRest
  <2> QED
    BY <2>1, <2>5 DEF Abs!Next, Abs!Promise
<1>4. CASE Finish
  <2>1. /\ phase = "vec" /\ start = 0 /\ phase' = "gone"
        /\ kept' = kept \cup SetOf(Elems(0, len))
        /\ UNCHANGED <<made, out, dropped, unwound>>
    BY <1>1, <1>4 DEF Finish
  <2>2. held = Elems(0, len) /\ held' = <<>>
    BY <2>1 DEF held
  <2>3. Abs!HandOver
    BY <2>1, <2>2 DEF Abs!HandOver, SetOf
  <2> QED
    BY <2>1, <2>3 DEF Abs!Next, Abs!Promise, Abs!Operation
<1>5. CASE IntoIter
  <2>1. /\ phase = "vec" /\ phase' = "iter" /\ start' = start /\ len' = len /\ slots' = slots
        /\ UNCHANGED <<made, out, dropped, kept, unwound>>
    BY <1>1, <1>5 DEF IntoIter, memory
  <2>2. held' = held
    BY <2>1 DEF held, Elems
  <2> QED
    BY <2>1, <2>2 DEF Abs!Next, Abs!Promise, Abs!StartIterating
<1>6. CASE IterNext
  <2>1. /\ phase = "iter" /\ phase' = "iter" /\ start < len /\ start' = start + 1
        /\ out' = out \cup {slots[start]} /\ slots' = slots /\ len' = len
        /\ UNCHANGED <<made, dropped, kept, unwound>>
    BY <1>6 DEF IterNext, memory
  <2> DEFINE h == held  g == held'
  <2>2. /\ h \in Seq(Nat) /\ Len(h) = len - start
        /\ \A k \in 1 .. len - start : h[k] = slots[start + k - 1]
    BY <2>1, HeldNow
  <2>3. /\ g \in Seq(Nat) /\ Len(g) = len - (start + 1)
        /\ \A k \in 1 .. len - (start + 1) : g[k] = slots[(start + 1) + k - 1]
    BY <2>1, HeldNext
  <2> HIDE DEF h, g
  <2>4. h # <<>>
    BY <2>1, <2>2, <1>1, EmptySeq
  <2>5. Head(h) = slots[start]
    <3>1. 1 \in 1 .. len - start /\ start + 1 - 1 = start
      BY <2>1, <1>1
    <3>2. Head(h) = h[1]
      BY <2>2, <2>4
    <3> QED
      BY <3>1, <3>2, <2>2
  <2>6. g = Tail(h)
    <3>1. /\ Tail(h) \in Seq(Nat) /\ Len(Tail(h)) = Len(h) - 1
          /\ \A i \in 1 .. Len(Tail(h)) : Tail(h)[i] = h[i + 1]
      BY <2>2, <2>4, HeadTailProperties
    <3>2. Len(g) = Len(Tail(h))
      BY <3>1, <2>1, <2>2, <2>3, <1>1
    <3>3. ASSUME NEW k \in 1 .. Len(g) PROVE g[k] = Tail(h)[k]
      <4>1. /\ k + 1 \in 1 .. len - start /\ k \in 1 .. len - (start + 1)
            /\ (start + 1) + k - 1 = start + (k + 1) - 1
        BY <3>3, <2>1, <2>3, <1>1
      <4>2. g[k] = h[k + 1]
        BY <4>1, <2>2, <2>3
      <4> QED
        BY <4>2, <3>1, <3>2, <3>3
    <3> QED
      BY <3>1, <3>2, <3>3, <2>3, SeqEqual
  <2>7. Abs!TakeFirst
    BY <2>1, <2>4, <2>5, <2>6 DEF Abs!TakeFirst, h, g
  <2> QED
    BY <2>1, <2>7 DEF Abs!Next, Abs!Promise
<1>7. ASSUME unwound' PROVE [Abs!Next]_(Abs!vars)
  BY <1>7 DEF Abs!Next
<1> QED
  BY <1>2, <1>3, <1>4, <1>5, <1>6, <1>7
     DEF End, DropVecPanics, IterUnwinds, IterDropPanics

\* The vector keeps the promise of AbstractVec: it is the sequence of its
\* elements, whose elements have one owner each, until the destructor of
\* one of them panics.
THEOREM VecImplements == Spec => ImplementsVec
<1>1. Init => Abs!Init
  <2> SUFFICES ASSUME Init PROVE Abs!Init
    OBVIOUS
  <2>1. /\ made = 0 /\ len = 0 /\ start = 0 /\ out = {} /\ dropped = <<>> /\ kept = {}
        /\ unwound = FALSE /\ phase = "vec"
    BY DEF Init
  <2>2. held \in Seq(Nat) /\ Len(held) = 0
    BY <2>1, InitHolds, HeldNow
  <2>3. held = <<>>
    BY <2>2, EmptySeq
  <2> QED
    BY <2>1, <2>3 DEF Abs!Init
<1>2. ASSUME IInv, IInv', [Next]_vars
      PROVE  [Abs!Next]_(Abs!vars)
  <2>1. CASE UNCHANGED vars
    BY <2>1 DEF vars, memory, Abs!vars, held, Elems
  <2> QED
    BY <2>1, <1>2, AddRefines, RemoveRefines, EndRefines DEF Next
<1> QED
  BY <1>1, <1>2, Inductive, PTL DEF Spec, ImplementsVec, Abs!Spec

-----------------------------------------------------------------------------
(* Every element has one owner *)

\* No element occurs twice.
Unique(s) == \A i, j \in 1 .. Len(s) : s[i] = s[j] => i = j

\* The elements 1 .. m are shared out: to the vector that holds h, to the
\* destructors run, d, to the caller, o, and to the memory, k.
SharedOut(m, h, d, o, k) ==
  /\ SetOf(h) \cup SetOf(d) \cup o \cup k = 1 .. m
  /\ SetOf(h) \cap SetOf(d) = {} /\ SetOf(h) \cap o = {}
  /\ SetOf(h) \cap k = {} /\ SetOf(d) \cap o = {}
  /\ SetOf(d) \cap k = {} /\ o \cap k = {}

\* The same, and the vector and the destructors have each element once.
Owners(m, h, d, o, k) ==
  /\ h \in Seq(Nat) /\ d \in Seq(Nat)
  /\ Unique(h) /\ Unique(d)
  /\ SharedOut(m, h, d, o, k)

\* The inductive invariant, up to the first panic of a destructor.
OwnerInv == ~unwound => Owners(made, held, dropped, out, kept)

\* Two sequences without an element in common, one behind the other.
LEMMA JoinedUnique ==
  ASSUME NEW s \in Seq(Nat), NEW t \in Seq(Nat), Unique(s), Unique(t),
         SetOf(s) \cap SetOf(t) = {}
  PROVE  /\ s \o t \in Seq(Nat) /\ Unique(s \o t)
         /\ SetOf(s \o t) = SetOf(s) \cup SetOf(t)
<1> DEFINE a == Len(s)  b == Len(t)  u == s \o t
<1>1. a \in Nat /\ b \in Nat
  BY LenProperties
<1>2. /\ u \in Seq(Nat) /\ Len(u) = a + b
      /\ \A i \in 1 .. a + b : u[i] = IF i <= a THEN s[i] ELSE t[i - a]
  BY ConcatProperties
<1> HIDE DEF u
<1>3. \A i \in 1 .. a : i \in 1 .. a + b /\ u[i] = s[i]
  BY <1>1, <1>2
<1>4. \A i \in 1 .. b : a + i \in 1 .. a + b /\ u[a + i] = t[i]
  <2> TAKE i \in 1 .. b
  <2>1. a + i \in 1 .. a + b /\ ~(a + i <= a) /\ (a + i) - a = i
    BY <1>1
  <2> QED
    BY <2>1, <1>2
<1>5. \A i \in 1 .. a + b : \/ i \in 1 .. a
                            \/ i - a \in 1 .. b /\ i = a + (i - a)
  BY <1>1
<1>6. SetOf(u) = SetOf(s) \cup SetOf(t)
  <2>1. \A i \in 1 .. a + b : u[i] \in SetOf(s) \cup SetOf(t)
    <3> TAKE i \in 1 .. a + b
    <3>1. CASE i \in 1 .. a
      BY <3>1, <1>3 DEF SetOf
    <3>2. CASE i - a \in 1 .. b /\ i = a + (i - a)
      BY <3>2, <1>4 DEF SetOf
    <3> QED
      BY <3>1, <3>2, <1>5
  <2>2. \A i \in 1 .. a : s[i] \in SetOf(u)
    BY <1>2, <1>3 DEF SetOf
  <2>3. \A i \in 1 .. b : t[i] \in SetOf(u)
    BY <1>2, <1>4 DEF SetOf
  <2>4. SetOf(u) \subseteq SetOf(s) \cup SetOf(t)
    BY <2>1, <1>2 DEF SetOf
  <2>5. SetOf(s) \subseteq SetOf(u)
    BY <2>2 DEF SetOf
  <2>6. SetOf(t) \subseteq SetOf(u)
    BY <2>3 DEF SetOf
  <2> QED
    BY <2>4, <2>5, <2>6
<1>7. Unique(u)
  <2>1. \A i \in 1 .. a, j \in 1 .. b : s[i] # t[j]
    BY DEF SetOf
  <2> SUFFICES ASSUME NEW i \in 1 .. a + b, NEW j \in 1 .. a + b, u[i] = u[j]
               PROVE  i = j
    BY <1>2 DEF Unique
  <2>2. CASE i \in 1 .. a /\ j \in 1 .. a
    BY <2>2, <1>3 DEF Unique
  <2>3. CASE i \in 1 .. a /\ j - a \in 1 .. b /\ j = a + (j - a)
    <3>1. u[i] = s[i]
      BY <2>3, <1>3
    <3>2. u[j] = t[j - a]
      BY <2>3, <1>4
    <3>3. s[i] # t[j - a]
      BY <2>1, <2>3
    <3> QED
      BY <3>1, <3>2, <3>3
  <2>4. CASE j \in 1 .. a /\ i - a \in 1 .. b /\ i = a + (i - a)
    <3>1. u[j] = s[j]
      BY <2>4, <1>3
    <3>2. u[i] = t[i - a]
      BY <2>4, <1>4
    <3>3. s[j] # t[i - a]
      BY <2>1, <2>4
    <3> QED
      BY <3>1, <3>2, <3>3
  <2>5. CASE i - a \in 1 .. b /\ i = a + (i - a) /\ j - a \in 1 .. b /\ j = a + (j - a)
    <3>1. u[i] = t[i - a] /\ u[j] = t[j - a]
      BY <2>5, <1>4
    <3>2. i - a = j - a
      BY <3>1, <2>5 DEF Unique
    <3> QED
      BY <3>2, <2>5
  <2> QED
    BY <2>2, <2>3, <2>4, <2>5, <1>5
<1> QED
  BY <1>2, <1>6, <1>7 DEF u

\* New elements are different ones.
LEMMA MadeUnique ==
  ASSUME NEW a \in Nat, NEW b \in Nat, a <= b
  PROVE  /\ Made(a, b) \in Seq(Nat) /\ Unique(Made(a, b))
         /\ SetOf(Made(a, b)) = a + 1 .. b
<1> DEFINE s == Made(a, b)
<1>1. /\ s \in Seq(Nat) /\ Len(s) = b - a
      /\ \A k \in 1 .. b - a : s[k] = a + k
  BY MadeType
<1> HIDE DEF s
<1>2. Unique(s)
  <2> SUFFICES ASSUME NEW i \in 1 .. b - a, NEW j \in 1 .. b - a, s[i] = s[j]
               PROVE  i = j
    BY <1>1 DEF Unique
  <2>1. a + i = a + j
    BY <1>1
  <2> QED
    BY <2>1
<1>3. SetOf(s) = a + 1 .. b
  <2>1. SetOf(s) \subseteq a + 1 .. b
    <3>1. \A k \in 1 .. b - a : a + k \in a + 1 .. b
      OBVIOUS
    <3> QED
      BY <3>1, <1>1 DEF SetOf
  <2>2. ASSUME NEW e \in a + 1 .. b PROVE e \in SetOf(s)
    <3>1. e - a \in 1 .. b - a /\ a + (e - a) = e
      OBVIOUS
    <3>2. s[e - a] = e
      BY <3>1, <1>1
    <3> QED
      BY <3>1, <3>2, <1>1 DEF SetOf
  <2> QED
    BY <2>1, <2>2
<1> QED
  BY <1>1, <1>2, <1>3 DEF s

\* A sequence without repetition, cut in two.
LEMMA CutUnique ==
  ASSUME NEW s \in Seq(Nat), Unique(s), NEW n \in 0 .. Len(s)
  PROVE  /\ SubSeq(s, 1, n) \in Seq(Nat) /\ Unique(SubSeq(s, 1, n))
         /\ SubSeq(s, n + 1, Len(s)) \in Seq(Nat)
         /\ Unique(SubSeq(s, n + 1, Len(s)))
         /\ SetOf(SubSeq(s, 1, n)) \cup SetOf(SubSeq(s, n + 1, Len(s))) = SetOf(s)
         /\ SetOf(SubSeq(s, 1, n)) \cap SetOf(SubSeq(s, n + 1, Len(s))) = {}
<1> DEFINE l == Len(s)  p == SubSeq(s, 1, n)  r == SubSeq(s, n + 1, l)
<1>1. l \in Nat /\ n \in Nat /\ n <= l
  BY LenProperties
<1>2. \A i \in 1 .. l : s[i] \in Nat
  BY ElementOfSeq
<1>3. /\ p \in Seq(Nat) /\ Len(p) = n
      /\ \A i \in 1 .. n : p[i] = s[i]
  <2>1. \A i \in 1 .. n : s[i] \in Nat
    BY <1>1, <1>2
  <2>2. /\ p \in Seq(Nat) /\ Len(p) = IF 1 <= n THEN n - 1 + 1 ELSE 0
        /\ \A i \in 1 .. n - 1 + 1 : p[i] = s[1 + i - 1]
    <3>1. n \in Int /\ 1 \in Int
      BY <1>1
    <3> QED
      BY <3>1, <2>1, SubSeqProperties
  <2>3. \A i \in 1 .. n : i \in 1 .. n - 1 + 1 /\ 1 + i - 1 = i
    BY <1>1
  <2>4. \A i \in 1 .. n : p[i] = s[i]
    <3> TAKE i \in 1 .. n
    <3>1. p[i] = s[1 + i - 1] /\ 1 + i - 1 = i
      BY <2>2, <2>3
    <3> QED
      BY <3>1
  <2> QED
    BY <2>2, <2>4, <1>1
<1>4. /\ r \in Seq(Nat) /\ Len(r) = l - n
      /\ \A i \in 1 .. l - n : r[i] = s[n + i]
  <2> DEFINE m == n + 1
  <2>1. m \in Int /\ l \in Int /\ \A i \in m .. l : s[i] \in Nat
    BY <1>1, <1>2
  <2>2. r = SubSeq(s, m, l)
    OBVIOUS
  <2> HIDE DEF m, l
  <2>3. /\ r \in Seq(Nat) /\ Len(r) = IF m <= l THEN l - m + 1 ELSE 0
        /\ \A i \in 1 .. l - m + 1 : r[i] = s[m + i - 1]
    <3>1. /\ SubSeq(s, m, l) \in Seq(Nat)
          /\ Len(SubSeq(s, m, l)) = IF m <= l THEN l - m + 1 ELSE 0
          /\ \A i \in 1 .. l - m + 1 : SubSeq(s, m, l)[i] = s[m + i - 1]
      BY <2>1, SubSeqProperties
    <3> QED
      BY <2>2, <3>1
  <2>4. \A i \in 1 .. l - n : i \in 1 .. l - m + 1 /\ m + i - 1 = n + i
    BY <1>1 DEF m
  <2>5. \A i \in 1 .. l - n : r[i] = s[n + i]
    <3> TAKE i \in 1 .. l - n
    <3>1. r[i] = s[m + i - 1] /\ m + i - 1 = n + i
      BY <2>3, <2>4
    <3> QED
      BY <3>1
  <2>6. Len(r) = l - n
    BY <2>3, <1>1 DEF m
  <2> QED
    BY <2>3, <2>5, <2>6
<1> HIDE DEF l, p, r
<1>5. /\ \A i \in 1 .. n : i \in 1 .. l
      /\ \A i \in 1 .. l - n : n + i \in 1 .. l /\ ~(n + i <= n)
      /\ \A i \in 1 .. l : i \in 1 .. n \/ (i - n \in 1 .. l - n /\ n + (i - n) = i)
  BY <1>1
<1>6. \A i, j \in 1 .. l : s[i] = s[j] => i = j
  BY DEF Unique, l
<1>7. Unique(p)
  BY <1>3, <1>5, <1>6 DEF Unique
<1>8. Unique(r)
  <2> SUFFICES ASSUME NEW i \in 1 .. l - n, NEW j \in 1 .. l - n, r[i] = r[j]
               PROVE  i = j
    BY <1>4 DEF Unique
  <2>1. n + i = n + j
    BY <1>4, <1>5, <1>6
  <2> QED
    BY <2>1, <1>1
<1>9. SetOf(p) \cap SetOf(r) = {}
  <2>1. ASSUME NEW i \in 1 .. n, NEW j \in 1 .. l - n PROVE p[i] # r[j]
    <3>1. i \in 1 .. l /\ n + j \in 1 .. l /\ i # n + j
      BY <1>1, <1>5
    <3> QED
      BY <3>1, <1>3, <1>4, <1>6
  <2> SUFFICES ASSUME NEW e \in SetOf(p), e \in SetOf(r) PROVE FALSE
    OBVIOUS
  <2>2. PICK i \in 1 .. n : p[i] = e
    BY <1>3 DEF SetOf
  <2>3. PICK j \in 1 .. l - n : r[j] = e
    BY <1>4 DEF SetOf
  <2> QED
    BY <2>1, <2>2, <2>3
<1>10. SetOf(p) \cup SetOf(r) = SetOf(s)
  <2>1. SetOf(p) \subseteq SetOf(s)
    <3>1. ASSUME NEW i \in 1 .. n PROVE p[i] \in SetOf(s)
      <4>1. i \in 1 .. l /\ p[i] = s[i]
        BY <1>3, <1>5
      <4> QED
        BY <4>1 DEF SetOf, l
    <3> QED
      BY <3>1, <1>3 DEF SetOf
  <2>2. SetOf(r) \subseteq SetOf(s)
    <3>1. ASSUME NEW i \in 1 .. l - n PROVE r[i] \in SetOf(s)
      <4>1. n + i \in 1 .. l /\ r[i] = s[n + i]
        BY <1>4, <1>5
      <4> QED
        BY <4>1 DEF SetOf, l
    <3> QED
      BY <3>1, <1>4 DEF SetOf
  <2>3. ASSUME NEW i \in 1 .. l PROVE s[i] \in SetOf(p) \cup SetOf(r)
    <3>1. CASE i \in 1 .. n
      BY <3>1, <1>3 DEF SetOf
    <3>2. CASE i - n \in 1 .. l - n /\ n + (i - n) = i
      <4>1. r[i - n] = s[i]
        BY <3>2, <1>4
      <4> QED
        BY <3>2, <4>1, <1>4 DEF SetOf
    <3> QED
      BY <3>1, <3>2, <1>5
  <2>4. SetOf(s) \subseteq SetOf(p) \cup SetOf(r)
    BY <2>3 DEF SetOf, l
  <2> QED
    BY <2>1, <2>2, <2>4
<1> QED
  BY <1>3, <1>4, <1>7, <1>8, <1>9, <1>10 DEF p, r, l

\* Cut before its last element, a sequence leaves that element.
LEMMA LastOf ==
  ASSUME NEW s \in Seq(Nat), Len(s) > 0
  PROVE  SetOf(SubSeq(s, (Len(s) - 1) + 1, Len(s))) = {s[Len(s)]}
<1> DEFINE l == Len(s)
<1>1. l \in Nat /\ l \in Int /\ l <= l /\ (l - 1) + 1 = l /\ l - l + 1 = 1
  BY LenProperties
<1>2. \A i \in l .. l : s[i] \in Nat
  <2>1. \A i \in l .. l : i \in 1 .. Len(s)
    BY <1>1
  <2> QED
    BY <2>1, ElementOfSeq
<1> DEFINE r == SubSeq(s, l, l)
<1>3. /\ Len(r) = IF l <= l THEN l - l + 1 ELSE 0
      /\ \A i \in 1 .. l - l + 1 : r[i] = s[l + i - 1]
  <2>1. PICK m : m = l
    OBVIOUS
  <2>2. m \in Int /\ l \in Int /\ \A i \in m .. l : s[i] \in Nat
    BY <2>1, <1>1, <1>2
  <2> HIDE DEF l
  <2>3. /\ SubSeq(s, m, l) \in Seq(Nat)
        /\ Len(SubSeq(s, m, l)) = IF m <= l THEN l - m + 1 ELSE 0
        /\ \A i \in 1 .. l - m + 1 : SubSeq(s, m, l)[i] = s[m + i - 1]
    BY <2>2, SubSeqProperties
  <2> QED
    BY <2>1, <2>3
<1>4. Len(r) = 1 /\ r[1] = s[l]
  <2>1. 1 \in 1 .. l - l + 1 /\ l + 1 - 1 = l
    BY <1>1
  <2>2. r[1] = s[l + 1 - 1]
    BY <2>1, <1>3
  <2> QED
    BY <2>1, <2>2, <1>1, <1>3
<1> HIDE DEF r
<1>5. SetOf(r) = {s[l]}
  BY <1>4 DEF SetOf
<1> QED
  BY <1>1, <1>5 DEF r

\* The first element and the others.
LEMMA TailUnique ==
  ASSUME NEW s \in Seq(Nat), Unique(s), s # <<>>
  PROVE  /\ Tail(s) \in Seq(Nat) /\ Unique(Tail(s))
         /\ SetOf(s) = {Head(s)} \cup SetOf(Tail(s))
         /\ Head(s) \notin SetOf(Tail(s))
<1> DEFINE l == Len(s)  t == Tail(s)
<1>1. l \in Nat /\ l > 0
  BY LenProperties, EmptySeq
<1>2. /\ t \in Seq(Nat) /\ Len(t) = l - 1 /\ Head(s) = s[1]
      /\ \A i \in 1 .. Len(t) : t[i] = s[i + 1]
  BY HeadTailProperties
<1> HIDE DEF t
<1>3. /\ 1 \in 1 .. l
      /\ \A i \in 1 .. l - 1 : i + 1 \in 1 .. l /\ i + 1 # 1
      /\ \A i \in 1 .. l : i = 1 \/ (i - 1 \in 1 .. l - 1 /\ (i - 1) + 1 = i)
  BY <1>1
<1>4. Unique(t)
  <2> SUFFICES ASSUME NEW i \in 1 .. l - 1, NEW j \in 1 .. l - 1, t[i] = t[j]
               PROVE  i = j
    BY <1>2 DEF Unique
  <2>1. s[i + 1] = s[j + 1]
    BY <1>2
  <2>2. i + 1 = j + 1
    BY <2>1, <1>3 DEF Unique
  <2> QED
    BY <2>2, <1>1
<1>5. s[1] \notin SetOf(t)
  <2>1. \A i \in 1 .. l - 1 : t[i] # s[1]
    BY <1>2, <1>3 DEF Unique
  <2> QED
    BY <2>1, <1>2 DEF SetOf
<1>6. SetOf(s) = {s[1]} \cup SetOf(t)
  <2>1. {s[1]} \cup SetOf(t) \subseteq SetOf(s)
    <3>1. s[1] \in SetOf(s)
      BY <1>3 DEF SetOf
    <3>2. ASSUME NEW i \in 1 .. l - 1 PROVE t[i] \in SetOf(s)
      <4>1. i + 1 \in 1 .. l
        BY <1>3
      <4>2. t[i] = s[i + 1]
        BY <1>2
      <4> QED
        BY <4>1, <4>2 DEF SetOf
    <3>3. SetOf(t) \subseteq SetOf(s)
      BY <3>2, <1>2 DEF SetOf
    <3> QED
      BY <3>1, <3>3
  <2>2. ASSUME NEW i \in 1 .. l PROVE s[i] \in {s[1]} \cup SetOf(t)
    <3>1. CASE i = 1
      BY <3>1
    <3>2. CASE i - 1 \in 1 .. l - 1 /\ (i - 1) + 1 = i
      <4>1. t[i - 1] = s[i]
        BY <3>2, <1>2
      <4> QED
        BY <3>2, <4>1, <1>2 DEF SetOf
    <3> QED
      BY <3>1, <3>2, <1>3
  <2>3. SetOf(s) \subseteq {s[1]} \cup SetOf(t)
    BY <2>2 DEF SetOf
  <2> QED
    BY <2>1, <2>3
<1> QED
  BY <1>2, <1>4, <1>5, <1>6 DEF t

\* The same elements in another order.
LEMMA ReorderedUnique ==
  ASSUME NEW s \in Seq(Nat), Unique(s),
         NEW p \in [1 .. Len(s) -> 1 .. Len(s)],
         \A i, j \in 1 .. Len(s) : p[i] = p[j] => i = j,
         \A j \in 1 .. Len(s) : \E i \in 1 .. Len(s) : p[i] = j
  PROVE  LET t == [i \in 1 .. Len(s) |-> s[p[i]]]
         IN  t \in Seq(Nat) /\ Unique(t) /\ SetOf(t) = SetOf(s)
<1> DEFINE l == Len(s)  t == [i \in 1 .. l |-> s[p[i]]]
<1>1. l \in Nat
  BY LenProperties
<1>2. \A i \in 1 .. l : p[i] \in 1 .. l /\ t[i] = s[p[i]] /\ s[p[i]] \in Nat
  BY ElementOfSeq
<1>3. t \in Seq(Nat) /\ Len(t) = l
  <2>1. t \in [1 .. l -> Nat]
    BY <1>2
  <2>2. DOMAIN t = 1 .. l
    OBVIOUS
  <2> HIDE DEF t, l
  <2>3. t \in Seq(Nat)
    BY <1>1, <2>1, SeqDef
  <2>4. Len(t) = l
    BY <1>1, <2>2, <2>3, LenProperties
  <2> QED
    BY <2>3, <2>4
<1> HIDE DEF t
<1>4. Unique(t)
  <2> SUFFICES ASSUME NEW i \in 1 .. l, NEW j \in 1 .. l, t[i] = t[j]
               PROVE  i = j
    BY <1>3 DEF Unique
  <2>1. p[i] \in 1 .. l /\ p[j] \in 1 .. l /\ s[p[i]] = s[p[j]]
    BY <1>2
  <2>2. \A a, b \in 1 .. l : s[a] = s[b] => a = b
    BY DEF Unique
  <2>3. p[i] = p[j]
    BY <2>1, <2>2
  <2> QED
    BY <2>3
<1>5. SetOf(t) \subseteq SetOf(s)
  <2>1. ASSUME NEW e \in SetOf(t) PROVE e \in SetOf(s)
    <3>1. PICK i \in 1 .. l : e = t[i]
      BY <1>3 DEF SetOf
    <3>2. e = s[p[i]] /\ p[i] \in 1 .. Len(s)
      BY <3>1, <1>2
    <3> QED
      BY <3>2 DEF SetOf
  <2> QED
    BY <2>1
<1>6. SetOf(s) \subseteq SetOf(t)
  <2>1. ASSUME NEW e \in SetOf(s) PROVE e \in SetOf(t)
    <3>1. PICK j \in 1 .. l : e = s[j]
      BY DEF SetOf
    <3>2. PICK i \in 1 .. l : p[i] = j
      OBVIOUS
    <3>3. e = t[i]
      BY <3>1, <3>2, <1>2
    <3> QED
      BY <3>3, <1>3 DEF SetOf
  <2> QED
    BY <2>1
<1> QED
  BY <1>3, <1>4, <1>5, <1>6 DEF t

\* Dropping more, untaken elements.
LEMMA DropMore ==
  ASSUME NEW m \in Nat, NEW n \in Nat, m <= n,
         NEW h \in Seq(Nat), Unique(h), NEW d \in Seq(Nat), Unique(d),
         NEW h2 \in Seq(Nat), Unique(h2), NEW x \in Seq(Nat), Unique(x),
         NEW o, NEW k, SharedOut(m, h, d, o, k),
         SetOf(h2) \cup SetOf(x) = SetOf(h) \cup m + 1 .. n,
         SetOf(h2) \cap SetOf(x) = {}
  PROVE  Owners(n, h2, d \o x, o, k)
<1>1. /\ 1 .. n = 1 .. m \cup m + 1 .. n
      /\ 1 .. m \cap m + 1 .. n = {}
  OBVIOUS
<1>2. /\ SetOf(d) \subseteq 1 .. m /\ o \subseteq 1 .. m /\ k \subseteq 1 .. m
      /\ SetOf(d) \cap SetOf(h) = {}
  BY DEF SharedOut
<1> DEFINE new == m + 1 .. n  all == 1 .. n  old == 1 .. m
<1>3. all = old \cup new /\ old \cap new = {}
  BY <1>1
<1>4. SetOf(h) \cup SetOf(d) \cup o \cup k = old
  BY DEF SharedOut
<1>5. SetOf(h2) \cup SetOf(x) = SetOf(h) \cup new
  OBVIOUS
<1> HIDE DEF new, all, old
<1>6. SetOf(d) \cap SetOf(x) = {}
  BY <1>2, <1>3, <1>4, <1>5
<1>7. /\ d \o x \in Seq(Nat) /\ Unique(d \o x)
      /\ SetOf(d \o x) = SetOf(d) \cup SetOf(x)
  BY <1>6, JoinedUnique
<1>8. SharedOut(n, h2, d \o x, o, k)
  <2> DEFINE e == SetOf(d \o x)
  <2>1. e = SetOf(d) \cup SetOf(x)
    BY <1>7
  <2>2. /\ SetOf(d) \cap o = {} /\ SetOf(d) \cap k = {} /\ o \cap k = {}
        /\ SetOf(h) \cap o = {} /\ SetOf(h) \cap k = {}
    BY DEF SharedOut
  <2> HIDE DEF e
  <2>3. SetOf(h2) \cup e \cup o \cup k = all
    BY <2>1, <1>3, <1>4, <1>5
  <2>4. SetOf(h2) \cap e = {}
    BY <2>1, <1>2, <1>3, <1>4, <1>5
  <2>5. /\ SetOf(h2) \cap o = {} /\ SetOf(h2) \cap k = {}
        /\ e \cap o = {} /\ e \cap k = {}
    BY <2>1, <2>2, <1>3, <1>4, <1>5
  <2> QED
    BY <2>2, <2>3, <2>4, <2>5 DEF SharedOut, e, all
<1> QED
  BY <1>7, <1>8 DEF Owners

-----------------------------------------------------------------------------
\* Every step of the promise shares the elements out anew.
LEMMA PromiseSharesOut ==
  ASSUME made \in Nat, made' \in Nat,
         Owners(made, held, dropped, out, kept), Abs!Promise
  PROVE  Owners(made', held', dropped', out', kept')
<1> DEFINE m == made  h == held  d == dropped  o == out  k == kept
           m2 == made'  h2 == held'  d2 == dropped'  o2 == out'  k2 == kept'
<1>1. /\ m \in Nat /\ m2 \in Nat
      /\ h \in Seq(Nat) /\ d \in Seq(Nat) /\ Unique(h) /\ Unique(d)
      /\ SharedOut(m, h, d, o, k)
  BY DEF Owners
<1>2. ASSUME NEW t \in 0 .. 1, Abs!Enter(t)
      PROVE  Owners(m2, h2, d2, o2, k2)
  <2>1. /\ m2 >= m + t /\ h2 = h \o Made(m + t, m2) /\ d2 = d \o Made(m, m + t)
        /\ o2 = o /\ k2 = k
    BY <1>2 DEF Abs!Enter, Abs!Made, Made
  <2> HIDE DEF m, h, d, o, k, m2, h2, d2, o2, k2
  <2>2. m + t \in Nat /\ m <= m + t /\ m + t <= m2 /\ m <= m2
    BY <1>1, <2>1
  <2> DEFINE x == Made(m, m + t)  y == Made(m + t, m2)
  <2>3. /\ x \in Seq(Nat) /\ Unique(x) /\ SetOf(x) = m + 1 .. m + t
        /\ y \in Seq(Nat) /\ Unique(y) /\ SetOf(y) = m + t + 1 .. m2
    BY <1>1, <2>2, MadeUnique
  <2>4. SetOf(h) \subseteq 1 .. m
    BY <1>1 DEF SharedOut
  <2>5. /\ 1 .. m \cap m + t + 1 .. m2 = {}
        /\ 1 .. m \cap m + 1 .. m + t = {}
        /\ m + t + 1 .. m2 \cap m + 1 .. m + t = {}
        /\ m + t + 1 .. m2 \cup m + 1 .. m + t = m + 1 .. m2
    BY <1>1, <2>2
  <2> HIDE DEF x, y
  <2>6. h \o y \in Seq(Nat) /\ Unique(h \o y) /\ SetOf(h \o y) = SetOf(h) \cup SetOf(y)
    BY <1>1, <2>3, <2>4, <2>5, JoinedUnique
  <2>7. /\ SetOf(h \o y) \cup SetOf(x) = SetOf(h) \cup m + 1 .. m2
        /\ SetOf(h \o y) \cap SetOf(x) = {}
    BY <2>3, <2>4, <2>5, <2>6
  <2>8. Owners(m2, h \o y, d \o x, o, k)
    BY <1>1, <2>2, <2>3, <2>6, <2>7, DropMore
  <2> QED
    BY <2>1, <2>8 DEF x, y
<1>3. ASSUME NEW t \in 0 .. 1, Abs!EnterNever(t)
      PROVE  Owners(m2, h2, d2, o2, k2)
  <2>1. /\ m2 >= m + t /\ h2 = h /\ d2 = d \o Made(m, m + t)
        /\ o2 = o /\ k2 = k \cup m + t + 1 .. m2
    BY <1>3 DEF Abs!EnterNever, Abs!Made, Made
  <2> HIDE DEF m, h, d, o, k, m2, h2, d2, o2, k2
  <2>2. m + t \in Nat /\ m <= m + t /\ m + t <= m2 /\ m <= m2
    BY <1>1, <2>1
  <2> DEFINE x == Made(m, m + t)  lost == m + t + 1 .. m2  old == 1 .. m + t
  <2>3. x \in Seq(Nat) /\ Unique(x) /\ SetOf(x) = m + 1 .. m + t
    BY <1>1, <2>2, MadeUnique
  <2>4. SetOf(h) \subseteq 1 .. m
    BY <1>1 DEF SharedOut
  <2>5. 1 .. m \cap m + 1 .. m + t = {}
    BY <1>1, <2>2
  <2>6. Owners(m + t, h, d \o x, o, k)
    <3> HIDE DEF x
    <3> QED
      BY <1>1, <2>2, <2>3, <2>4, <2>5, DropMore
  <2>7. 1 .. m2 = old \cup lost /\ old \cap lost = {}
    BY <1>1, <2>2
  <2> HIDE DEF x, lost
  <2>8. SharedOut(m2, h, d \o x, o, k \cup lost)
    <3> DEFINE e == SetOf(d \o x)
    <3>1. /\ SetOf(h) \cup e \cup o \cup k = old
          /\ SetOf(h) \cap e = {} /\ SetOf(h) \cap o = {}
          /\ SetOf(h) \cap k = {} /\ e \cap o = {}
          /\ e \cap k = {} /\ o \cap k = {}
      BY <2>6 DEF Owners, SharedOut
    <3> HIDE DEF e, old
    <3>2. /\ SetOf(h) \cup e \cup o \cup (k \cup lost) = 1 .. m2
          /\ SetOf(h) \cap (k \cup lost) = {}
          /\ e \cap (k \cup lost) = {} /\ o \cap (k \cup lost) = {}
      BY <3>1, <2>7
    <3> QED
      BY <3>1, <3>2 DEF SharedOut, e
  <2> QED
    BY <2>1, <2>6, <2>8 DEF Owners, x, lost
<1>4. ASSUME Abs!Return
      PROVE  Owners(m2, h2, d2, o2, k2)
  <2>1. m2 = m + 1 /\ h2 = h /\ d2 = d /\ o2 = o \cup {m + 1} /\ k2 = k
    BY <1>4 DEF Abs!Return
  <2> HIDE DEF m, h, d, o, k, m2, h2, d2, o2, k2
  <2>2. 1 .. m + 1 = 1 .. m \cup {m + 1} /\ m + 1 \notin 1 .. m
    BY <1>1
  <2>3. SharedOut(m + 1, h, d, o \cup {m + 1}, k)
    <3> DEFINE new == m + 1  old == 1 .. m
    <3>1. 1 .. new = old \cup {new} /\ new \notin old
      BY <2>2
    <3>2. /\ SetOf(h) \cup SetOf(d) \cup o \cup k = old
          /\ SetOf(h) \cap SetOf(d) = {} /\ SetOf(h) \cap o = {}
          /\ SetOf(h) \cap k = {} /\ SetOf(d) \cap o = {}
          /\ SetOf(d) \cap k = {} /\ o \cap k = {}
      BY <1>1 DEF SharedOut
    <3> HIDE DEF new, old
    <3>3. /\ SetOf(h) \cup SetOf(d) \cup (o \cup {new}) \cup k = 1 .. new
          /\ SetOf(h) \cap (o \cup {new}) = {}
          /\ SetOf(d) \cap (o \cup {new}) = {} /\ (o \cup {new}) \cap k = {}
      BY <3>1, <3>2
    <3> QED
      BY <3>2, <3>3 DEF SharedOut, new
  <2> QED
    BY <2>1, <2>3, <1>1 DEF Owners
<1>5. ASSUME NEW g \in Seq(Nat), Unique(g), NEW e,
             SetOf(h) = SetOf(g) \cup {e}, e \notin SetOf(g),
             m2 = m, h2 = g, d2 = d, o2 = o \cup {e}, k2 = k
      PROVE  Owners(m2, h2, d2, o2, k2)
  <2> HIDE DEF m, h, d, o, k, m2, h2, d2, o2, k2
  <2>1. SharedOut(m, g, d, o \cup {e}, k)
    BY <1>1, <1>5 DEF SharedOut
  <2> QED
    BY <2>1, <1>1, <1>5 DEF Owners
<1>6. ASSUME Abs!TakeLast
      PROVE  Owners(m2, h2, d2, o2, k2)
  <2>1. /\ h # <<>> /\ o2 = o \cup {h[Len(h)]} /\ h2 = SubSeq(h, 1, Len(h) - 1)
        /\ m2 = m /\ d2 = d /\ k2 = k
    BY <1>6 DEF Abs!TakeLast
  <2>2. Len(h) \in Nat /\ Len(h) > 0 /\ Len(h) - 1 \in 0 .. Len(h)
    BY <1>1, <2>1, LenProperties, EmptySeq
  <2> DEFINE g == SubSeq(h, 1, Len(h) - 1)  r == SubSeq(h, (Len(h) - 1) + 1, Len(h))
             e == h[Len(h)]
  <2>3. SetOf(r) = {e}
    BY <1>1, <2>2, LastOf
  <2>4. /\ g \in Seq(Nat) /\ Unique(g) /\ SetOf(g) \cup SetOf(r) = SetOf(h)
        /\ SetOf(g) \cap SetOf(r) = {}
    <3> DEFINE i == Len(h) - 1
    <3>1. /\ h \in Seq(Nat) /\ Unique(h) /\ i \in 0 .. Len(h)
          /\ g = SubSeq(h, 1, i) /\ r = SubSeq(h, i + 1, Len(h))
      BY <1>1, <2>2
    <3> HIDE DEF h, i, g, r
    <3> QED
      BY <3>1, CutUnique
  <2>5. m2 = m /\ h2 = g /\ d2 = d /\ o2 = o \cup {e} /\ k2 = k
    BY <2>1
  <2> HIDE DEF m, h, d, o, k, m2, h2, d2, o2, k2, g, r, e
  <2>6. SetOf(h) = SetOf(g) \cup {e} /\ e \notin SetOf(g)
    BY <2>3, <2>4
  <2> QED
    BY <2>4, <2>5, <2>6, <1>5
<1>7. ASSUME Abs!TakeFirst
      PROVE  Owners(m2, h2, d2, o2, k2)
  <2>1. /\ h # <<>> /\ o2 = o \cup {Head(h)} /\ h2 = Tail(h)
        /\ m2 = m /\ d2 = d /\ k2 = k
    BY <1>7 DEF Abs!TakeFirst
  <2>2. /\ Tail(h) \in Seq(Nat) /\ Unique(Tail(h))
        /\ SetOf(h) = {Head(h)} \cup SetOf(Tail(h))
        /\ Head(h) \notin SetOf(Tail(h))
    BY <1>1, <2>1, TailUnique
  <2> HIDE DEF m, h, d, o, k, m2, h2, d2, o2, k2
  <2>3. SetOf(h) = SetOf(Tail(h)) \cup {Head(h)}
    BY <2>2
  <2> QED
    BY <2>1, <2>2, <2>3, <1>5
<1>8. ASSUME NEW i \in 0 .. Len(h), NEW t \in 0 .. 1, Abs!Shrink(i, t)
      PROVE  Owners(m2, h2, d2, o2, k2)
  <2>1. /\ m2 = m + t /\ h2 = SubSeq(h, 1, i) /\ o2 = o /\ k2 = k
        /\ d2 = d \o SubSeq(h, i + 1, Len(h)) \o Made(m, m + t)
    BY <1>8 DEF Abs!Shrink, Abs!Made, Made
  <2> DEFINE p == SubSeq(h, 1, i)  r == SubSeq(h, i + 1, Len(h))
             x == Made(m, m + t)
  <2>2. /\ p \in Seq(Nat) /\ r \in Seq(Nat) /\ Unique(p) /\ Unique(r)
        /\ SetOf(p) \cup SetOf(r) = SetOf(h) /\ SetOf(p) \cap SetOf(r) = {}
    <3>1. /\ h \in Seq(Nat) /\ Unique(h)
          /\ p = SubSeq(h, 1, i) /\ r = SubSeq(h, i + 1, Len(h))
      BY <1>1
    <3> HIDE DEF h, p, r
    <3> QED
      BY <3>1, CutUnique
  <2>3. m2 = m + t /\ h2 = p /\ o2 = o /\ k2 = k /\ d2 = (d \o r) \o x
    BY <2>1
  <2> HIDE DEF m, h, d, o, k, m2, h2, d2, o2, k2, p, r
  <2>4. m + t \in Nat /\ m <= m + t
    BY <1>1
  <2>5. x \in Seq(Nat) /\ Unique(x) /\ SetOf(x) = m + 1 .. m + t
    BY <1>1, <2>4, MadeUnique
  <2> HIDE DEF x
  <2>6. Owners(m, p, d \o r, o, k)
    <3>1. m <= m /\ m + 1 .. m = {}
      BY <1>1
    <3>2. SetOf(p) \cup SetOf(r) = SetOf(h) \cup m + 1 .. m
      BY <3>1, <2>2
    <3> QED
      BY <3>1, <3>2, <1>1, <2>2, DropMore
  <2>7. Owners(m + t, p, (d \o r) \o x, o, k)
    <3>1. /\ SetOf(p) \subseteq 1 .. m /\ Unique(p) /\ p \in Seq(Nat)
          /\ d \o r \in Seq(Nat) /\ Unique(d \o r) /\ SharedOut(m, p, d \o r, o, k)
      BY <2>6 DEF Owners, SharedOut
    <3>2. 1 .. m \cap m + 1 .. m + t = {}
      BY <1>1, <2>4
    <3>3. SetOf(p) \cap SetOf(x) = {}
      BY <3>1, <3>2, <2>5
    <3> QED
      BY <3>1, <3>3, <1>1, <2>4, <2>5, DropMore
  <2> QED
    BY <2>3, <2>7
<1>9. ASSUME Abs!HandOver
      PROVE  Owners(m2, h2, d2, o2, k2)
  <2>1. k2 = k \cup SetOf(h) /\ h2 = <<>> /\ m2 = m /\ o2 = o /\ d2 = d
    BY <1>9 DEF Abs!HandOver, SetOf
  <2> HIDE DEF m, h, d, o, k, m2, h2, d2, o2, k2
  <2>2. <<>> \in Seq(Nat) /\ Unique(<<>>) /\ SetOf(<<>>) = {}
    BY DEF Unique, SetOf
  <2>3. SharedOut(m, <<>>, d, o, k \cup SetOf(h))
    BY <2>2, <1>1 DEF SharedOut
  <2> QED
    BY <2>1, <2>2, <2>3, <1>1 DEF Owners
<1>10. ASSUME Abs!StartIterating
       PROVE  Owners(m2, h2, d2, o2, k2)
  BY <1>10, <1>1 DEF Abs!StartIterating, Owners
<1>11. ASSUME Abs!DropRest
       PROVE  Owners(m2, h2, d2, o2, k2)
  <2>1. PICK p \in Abs!Bijection(1 .. Len(h), 1 .. Len(h)) :
          d2 = d \o [i \in 1 .. Len(h) |-> h[p[i]]]
    BY <1>11 DEF Abs!DropRest
  <2> DEFINE x == [i \in 1 .. Len(h) |-> h[p[i]]]
  <2>2. m2 = m /\ h2 = <<>> /\ d2 = d \o x /\ o2 = o /\ k2 = k
    BY <1>11, <2>1 DEF Abs!DropRest
  <2>3. /\ p \in [1 .. Len(h) -> 1 .. Len(h)]
        /\ \A i, j \in 1 .. Len(h) : p[i] = p[j] => i = j
        /\ \A j \in 1 .. Len(h) : \E i \in 1 .. Len(h) : p[i] = j
    BY <2>1 DEF Abs!Bijection, Abs!Injection, Abs!Surjection, Abs!IsInjective
  <2> HIDE DEF m, h, d, o, k, m2, h2, d2, o2, k2
  <2>4. x \in Seq(Nat) /\ Unique(x) /\ SetOf(x) = SetOf(h)
    BY <1>1, <2>3, ReorderedUnique
  <2> HIDE DEF x
  <2>5. <<>> \in Seq(Nat) /\ Unique(<<>>) /\ SetOf(<<>>) = {}
    BY DEF Unique, SetOf
  <2>6. m <= m /\ m + 1 .. m = {}
    BY <1>1
  <2>7. /\ SetOf(<<>>) \cup SetOf(x) = SetOf(h) \cup m + 1 .. m
        /\ SetOf(<<>>) \cap SetOf(x) = {}
    BY <2>4, <2>5, <2>6
  <2>8. Owners(m, <<>>, d \o x, o, k)
    BY <1>1, <2>4, <2>5, <2>6, <2>7, DropMore
  <2> QED
    BY <2>2, <2>8
<1> QED
  BY <1>2, <1>3, <1>4, <1>6, <1>7, <1>8, <1>9, <1>10, <1>11
     DEF Abs!Promise, Abs!Operation

\* Where nothing repeats, an element occurs once or not at all.
LEMMA TimesUnique ==
  ASSUME NEW s, Unique(s), NEW e
  PROVE  Times(e, s) = IF e \in SetOf(s) THEN 1 ELSE 0
<1> DEFINE K == {i \in 1 .. Len(s) : s[i] = e}
<1>1. CASE e \in SetOf(s)
  <2>1. PICK i \in 1 .. Len(s) : s[i] = e
    BY <1>1 DEF SetOf
  <2>2. K = {i}
    BY <2>1 DEF Unique
  <2>3. Cardinality(K) = 1
    BY <2>2, FS_Singleton
  <2> QED
    BY <2>3, <1>1 DEF Times
<1>2. CASE e \notin SetOf(s)
  <2>1. K = {}
    BY <1>2 DEF SetOf
  <2>2. Cardinality(K) = 0
    BY <2>1, FS_EmptySet
  <2> QED
    BY <2>2, <1>2 DEF Times
<1> QED
  BY <1>1, <1>2

\* What is shared out has one owner each.
LEMMA SharedOutOnce ==
  OwnerInv => OneOwner
<1> SUFFICES ASSUME OwnerInv, ~unwound, NEW e \in 1 .. made
             PROVE  Times(e, held) + Times(e, dropped)
                      + (IF e \in out THEN 1 ELSE 0)
                      + (IF e \in kept THEN 1 ELSE 0) = 1
  BY DEF OneOwner
<1>1. /\ Times(e, held) = IF e \in SetOf(held) THEN 1 ELSE 0
      /\ Times(e, dropped) = IF e \in SetOf(dropped) THEN 1 ELSE 0
  BY TimesUnique DEF OwnerInv, Owners
<1>2. /\ e \in SetOf(held) \/ e \in SetOf(dropped) \/ e \in out \/ e \in kept
      /\ ~(e \in SetOf(held) /\ e \in SetOf(dropped))
      /\ ~(e \in SetOf(held) /\ e \in out) /\ ~(e \in SetOf(held) /\ e \in kept)
      /\ ~(e \in SetOf(dropped) /\ e \in out) /\ ~(e \in SetOf(dropped) /\ e \in kept)
      /\ ~(e \in out /\ e \in kept)
  BY DEF OwnerInv, Owners, SharedOut
<1> QED
  BY <1>1, <1>2

\* Every element made is in the vector, with the caller, dropped or left in the
\* memory: in one of them, and dropped once, until the destructor of an element
\* panics. No element leaks or is dropped twice, whatever else fails.
THEOREM EveryElementHasOneOwner == Spec => []OneOwner
<1>1. Init => OwnerInv
  <2> SUFFICES ASSUME Init PROVE OwnerInv
    OBVIOUS
  <2>1. /\ made = 0 /\ len = 0 /\ start = 0 /\ out = {} /\ dropped = <<>> /\ kept = {}
        /\ phase = "vec"
    BY DEF Init
  <2>2. held \in Seq(Nat) /\ Len(held) = 0
    BY <2>1, InitHolds, HeldNow
  <2>3. held = <<>>
    BY <2>2, EmptySeq
  <2>4. <<>> \in Seq(Nat) /\ Unique(<<>>) /\ SetOf(<<>>) = {}
    BY DEF Unique, SetOf
  <2>5. SharedOut(0, <<>>, <<>>, {}, {})
    BY <2>4 DEF SharedOut
  <2>6. Owners(0, <<>>, <<>>, {}, {})
    BY <2>4, <2>5 DEF Owners
  <2> QED
    BY <2>1, <2>3, <2>6 DEF OwnerInv
<1>2. ASSUME IInv, IInv', [Next]_vars, OwnerInv
      PROVE  OwnerInv'
  <2> SUFFICES ASSUME ~unwound' PROVE Owners(made', held', dropped', out', kept')
    BY DEF OwnerInv
  <2>1. [Abs!Next]_(Abs!vars)
    <3>1. CASE UNCHANGED vars
      BY <3>1 DEF vars, memory, Abs!vars, held, Elems
    <3> QED
      BY <3>1, <1>2, AddRefines, RemoveRefines, EndRefines DEF Next
  <2>2. made \in Nat /\ made' \in Nat
    BY <1>2 DEF IInv, TypeOK
  <2>3. CASE UNCHANGED Abs!vars
    BY <2>3, <1>2 DEF Abs!vars, OwnerInv
  <2>4. CASE Abs!Promise /\ UNCHANGED unwound
    BY <2>2, <2>4, <1>2, PromiseSharesOut DEF OwnerInv
  <2> QED
    BY <2>1, <2>3, <2>4 DEF Abs!Next
<1>3. OwnerInv => OneOwner
  BY SharedOutOnce
<1> QED
  BY <1>1, <1>2, <1>3, Inductive, PTL DEF Spec
=============================================================================
