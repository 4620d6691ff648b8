----------------------------- MODULE VecElements -----------------------------
(***************************************************************************)
(* The elements of an ArenaVec (vec/arena_vec.rs): which slots hold one,   *)
(* and who drops it, when growth fails and when an iterator, a clone or a  *)
(* destructor panics. Where the buffer lies is ArenaVec; here a growth     *)
(* succeeds or not.                                                        *)
(*                                                                         *)
(* Elements are numbered as they are made. Slots are raw memory: reading   *)
(* an element leaves its bits behind.                                      *)
(***************************************************************************)
EXTENDS Integers, Sequences, FiniteSets

CONSTANTS
  FIRST_CAP,  \* capacity of the first growth by push (4 in the code)
  Uninit,     \* what a slot holds before the first write
  MaxCap,     \* bound: capacity
  MaxMade,    \* bound: elements ever made
  MaxDrops    \* bound: destructors ever run

ASSUME VecElementsAssumption ==
  /\ FIRST_CAP \in Nat \ {0}
  /\ Uninit \notin Nat
  /\ MaxCap \in Nat /\ MaxMade \in Nat /\ MaxDrops \in Nat

VARIABLES
  slots, len, cap,
  start,    \* the iterator's position
  phase,    \* "vec", "iter" after into_iter, "gone" after drop or finish
  made,     \* history: elements made so far
  out,      \* history: elements the caller owns
  dropped,  \* history: elements whose destructor ran, in order
  kept,     \* history: elements left in the memory without an owner
  unwound   \* history: an element's destructor has panicked

memory == <<slots, cap>>
vars == <<memory, len, start, phase, made, out, dropped, kept, unwound>>

Init ==
  /\ cap = 0 /\ slots = [i \in 0 .. -1 |-> Uninit]
  /\ len = 0 /\ start = 0
  /\ phase = "vec"
  /\ made = 0 /\ out = {} /\ dropped = <<>> /\ kept = {}
  /\ unwound = FALSE

\* The elements made after the first a, up to b.
Made(a, b) == [k \in 1 .. b - a |-> a + k]

\* The contents of the slots a .. b - 1.
Elems(a, b) == [k \in 1 .. b - a |-> slots[a + k - 1]]

SetOf(s) == {s[k] : k \in 1 .. Len(s)}

-----------------------------------------------------------------------------
(* Memory *)

\* Mutant: the copy misses the last element.
ResizedOneShort(new_cap, n) ==
  [i \in 0 .. new_cap - 1 |-> IF i < n - 1 THEN slots[i] ELSE Uninit]

\* A buffer of new_cap slots, the first n as in the present one.
Resized(new_cap, n) ==
  [i \in 0 .. new_cap - 1 |-> IF i < n THEN slots[i] ELSE Uninit]

\* What grow_to may leave: growth in place keeps every slot, growth by copying
\* the elements only.
Grown(new_cap) == {Resized(new_cap, cap), Resized(new_cap, len)}

\* The slots `s` with the elements `es` behind the last one.
Written(s, es) ==
  [i \in DOMAIN s |->
     IF i \in len .. len + Len(es) - 1 THEN es[i - len + 1] ELSE s[i]]

\* There is or will be room for `needed` elements, and `es` are written behind
\* the last one.
WriteBehind(es, needed, new_cap) ==
  \/ needed <= cap /\ slots' = Written(slots, es) /\ cap' = cap
  \/ needed > cap /\ new_cap <= MaxCap /\ cap' = new_cap
       /\ \E s \in Grown(new_cap) : slots' = Written(s, es)

\* grow and try_grow: double the capacity.
NextCap == IF cap = 0 THEN FIRST_CAP ELSE 2 * cap

-----------------------------------------------------------------------------
(* Adding elements *)

\* push and try_push.
Push ==
  /\ phase = "vec"
  /\ made' = made + 1
  /\ WriteBehind(<<made + 1>>, len + 1, NextCap)
  /\ len' = len + 1
  /\ UNCHANGED <<start, phase, out, dropped, kept, unwound>>

\* Growth fails: push and resize unwind and drop the value, try_push gives it
\* back.
GrowthFails ==
  /\ phase = "vec"
  /\ made' = made + 1
  /\ \/ dropped' = Append(dropped, made + 1) /\ out' = out
     \/ len = cap /\ out' = out \cup {made + 1} /\ dropped' = dropped
  /\ UNCHANGED <<memory, len, start, phase, kept, unwound>>

\* with_capacity, reserve and its variants.
Reserve(n) ==
  /\ phase = "vec"
  /\ len + n > cap
  /\ WriteBehind(<<>>, len + n, len + n)
  /\ UNCHANGED <<len, start, phase, made, out, dropped, kept, unwound>>

\* Mutant: room is made for the added elements only.
FillReservingAdded(n, t) ==
  /\ phase = "vec"
  /\ made' = made + t + n
  /\ WriteBehind(Made(made + t, made + t + n), n, n)
  /\ len' = len + n
  /\ dropped' = dropped \o Made(made, made + t)
  /\ UNCHANGED <<start, phase, out, kept, unwound>>

\* extend_exact: n elements from an iterator, into memory reserved for them.
\* resize to a greater length: t = 1, the clones of a value that is then dropped.
Fill(n, t) ==
  /\ phase = "vec"
  /\ made' = made + t + n
  /\ WriteBehind(Made(made + t, made + t + n), len + n, len + n)
  /\ len' = len + n
  /\ dropped' = dropped \o Made(made, made + t)
  /\ UNCHANGED <<start, phase, out, kept, unwound>>

\* Mutant: the length is set before the elements are written.
FillPanicsAfterLen(n, t, k) ==
  /\ phase = "vec"
  /\ made' = made + t + k
  /\ WriteBehind(Made(made + t, made + t + k), len + n, len + n)
  /\ len' = len + n
  /\ kept' = kept
  /\ dropped' = dropped \o Made(made, made + t)
  /\ UNCHANGED <<start, phase, out, unwound>>

\* The iterator, its early end or a clone panics after k elements: they are
\* written, but len never counts them. The template is dropped.
FillPanics(n, t, k) ==
  /\ phase = "vec"
  /\ made' = made + t + k
  /\ WriteBehind(Made(made + t, made + t + k), len + n, len + n)
  /\ kept' = kept \cup made + t + 1 .. made + t + k
  /\ dropped' = dropped \o Made(made, made + t)
  /\ UNCHANGED <<len, start, phase, out, unwound>>

-----------------------------------------------------------------------------
(* Removing elements *)

\* Mutant: the slot behind the last element is read.
PopPastEnd ==
  /\ phase = "vec" /\ len > 0
  /\ len' = len - 1
  /\ out' = out \cup {slots[len % cap]}
  /\ UNCHANGED <<memory, start, phase, made, dropped, kept, unwound>>

Pop ==
  /\ phase = "vec" /\ len > 0
  /\ len' = len - 1
  /\ out' = out \cup {slots[len - 1]}
  /\ UNCHANGED <<memory, start, phase, made, dropped, kept, unwound>>

\* truncate, clear (n = 0), and resize to a smaller or the same length, which
\* then drops its unused value (t = 1).
Truncate(n, t) ==
  /\ phase = "vec"
  /\ len' = n
  /\ made' = made + t
  /\ dropped' = dropped \o Elems(n, len) \o Made(made, made + t)
  /\ UNCHANGED <<memory, start, phase, out, kept, unwound>>

\* The destructor of element j panics: the length stays what it was.
TruncatePanics(n, t, j) ==
  /\ phase = "vec"
  /\ made' = made + t
  /\ dropped' = dropped \o Elems(n, j + 1) \o Made(made, made + t)
  /\ unwound' = TRUE
  /\ UNCHANGED <<memory, len, start, phase, out, kept>>

-----------------------------------------------------------------------------
(* The end of the vector *)

DropVec ==
  /\ phase = "vec"
  /\ dropped' = dropped \o Elems(0, len)
  /\ phase' = "gone"
  /\ UNCHANGED <<memory, len, start, made, out, kept, unwound>>

\* The destructor of element j panics: those behind it are never run.
DropVecPanics(j) ==
  /\ phase = "vec"
  /\ dropped' = dropped \o Elems(0, j + 1)
  /\ kept' = kept \cup SetOf(Elems(j + 1, len))
  /\ phase' = "gone"
  /\ unwound' = TRUE
  /\ UNCHANGED <<memory, len, start, made, out>>

Finish ==
  /\ phase = "vec"
  /\ kept' = kept \cup SetOf(Elems(0, len))
  /\ phase' = "gone"
  /\ UNCHANGED <<memory, len, start, made, out, dropped, unwound>>

IntoIter ==
  /\ phase = "vec"
  /\ phase' = "iter" /\ start' = 0
  /\ UNCHANGED <<memory, len, made, out, dropped, kept, unwound>>

IterNext ==
  /\ phase = "iter" /\ start < len
  /\ out' = out \cup {slots[start]}
  /\ start' = start + 1
  /\ UNCHANGED <<memory, len, phase, made, dropped, kept, unwound>>

\* Mutant: the iterator's Drop leaves the vector's length to the vector's Drop.
IterDropKeepingLen ==
  /\ phase = "iter"
  /\ dropped' = dropped \o Elems(start, len) \o Elems(0, len)
  /\ phase' = "gone"
  /\ UNCHANGED <<memory, len, start, made, out, kept, unwound>>

\* The iterator drops the rest and empties the vector inside it, whose own Drop
\* then finds nothing.
IterDrop ==
  /\ phase = "iter"
  /\ dropped' = dropped \o Elems(start, len)
  /\ len' = 0
  /\ phase' = "gone"
  /\ UNCHANGED <<memory, start, made, out, kept, unwound>>

\* The destructor of element j panics before the vector is emptied: its Drop
\* runs while the panic unwinds, over every slot.
IterDropPanics(j) ==
  /\ phase = "iter"
  /\ dropped' = dropped \o Elems(start, j + 1) \o Elems(0, len)
  /\ phase' = "gone"
  /\ unwound' = TRUE
  /\ UNCHANGED <<memory, len, start, made, out, kept>>

IterUnwinds == \E j \in start .. len - 1 : IterDropPanics(j)

-----------------------------------------------------------------------------
Add ==
  \/ Push
  \/ GrowthFails
  \/ \E n \in 1 .. MaxCap : Reserve(n)
  \/ \E n \in 1 .. MaxCap, t \in 0 .. 1 :
       \/ Fill(n, t)
       \/ \E k \in 0 .. n - 1 : FillPanics(n, t, k)

Remove ==
  \/ Pop
  \/ \E n \in 0 .. len, t \in 0 .. 1 :
       \/ Truncate(n, t)
       \/ \E j \in n .. len - 1 : TruncatePanics(n, t, j)

End ==
  \/ DropVec
  \/ \E j \in 0 .. len - 1 : DropVecPanics(j)
  \/ Finish
  \/ IntoIter
  \/ IterNext
  \/ IterDrop
  \/ IterUnwinds

Next == (Add \/ Remove \/ End) /\ made' <= MaxMade /\ Len(dropped') <= MaxDrops

Spec == Init /\ [][Next]_vars

-----------------------------------------------------------------------------
(* Properties *)

held == IF phase = "gone" THEN <<>> ELSE Elems(start, len)

\* Every variable stays in its domain, and the length in the capacity.
TypeOK ==
  /\ cap \in Nat /\ len \in 0 .. cap
  /\ start \in Nat /\ (phase # "gone" => start <= len)
  /\ slots \in [0 .. cap - 1 -> Nat \cup {Uninit}]
  /\ phase \in {"vec", "iter", "gone"}
  /\ made \in Nat
  /\ out \subseteq Nat /\ kept \subseteq Nat
  /\ dropped \in Seq(Nat)
  /\ unwound \in BOOLEAN

\* No slot that as_slice, pop, the iterator or a Drop reads is uninitialised,
\* whatever panicked while it was filled or emptied.
ReadsInitialised == \A i \in 0 .. len - 1 : slots[i] \in 1 .. made

Times(e, s) == Cardinality({k \in 1 .. Len(s) : s[k] = e})

\* Every element made has one owner or had its destructor run once: it is in
\* the vector, with the caller, dropped or left in the memory. Until a
\* destructor panics.
OneOwner ==
  ~unwound =>
    \A e \in 1 .. made :
      Times(e, held) + Times(e, dropped)
        + (IF e \in out THEN 1 ELSE 0) + (IF e \in kept THEN 1 ELSE 0) = 1

\* Also after a destructor panicked, the vector never drops an element that it
\* gave to the caller before. One step is left out, the Drop of an iterator that
\* unwinds: see TakenNeverDropped.
NeverDropsTaken ==
  [][~IterUnwinds =>
       \A k \in Len(dropped) + 1 .. Len(dropped') : dropped'[k] \notin out]_vars

\* "Owning iterator ... Drains elements front-to-back and drops any remaining
\* elements ... when the iterator itself is dropped" (vec/arena_vec.rs): what the
\* iterator gave out is not dropped with the rest. When a destructor panics
\* there, the inner vector's Drop runs over every slot: the code breaks this.
TakenNeverDropped ==
  [][\A k \in Len(dropped) + 1 .. Len(dropped') : dropped'[k] \notin out]_vars

Abs == INSTANCE AbstractVec WITH broken <- unwound, iterating <- (phase = "iter")

\* Through growth, failures and panics of its callers, the vector is the
\* sequence of its elements, each dropped at most once: front to back where the
\* vector drops them, in any order where an iterator drops the rest.
ImplementsVec == Abs!Spec
=============================================================================
