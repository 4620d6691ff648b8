----------------------------- MODULE AbstractVec -----------------------------
(***************************************************************************)
(* What ArenaVec promises about its elements: a sequence in which every    *)
(* element has one owner. An element enters at the end, leaves at the end, *)
(* or at the front once the vector is iterated over, and is dropped at     *)
(* most once. The promise ends when an element's destructor panics.        *)
(*                                                                         *)
(* Elements that truncation or the vector's own end drops go front to      *)
(* back. In which order an iterator drops the rest is left open.           *)
(*                                                                         *)
(* Elements are numbered in the order in which they are made.              *)
(***************************************************************************)
EXTENDS Integers, Sequences, Functions

VARIABLES
  made,       \* elements made so far
  held,       \* the vector's elements
  out,        \* elements the caller owns
  dropped,    \* elements whose destructor ran, in order
  kept,       \* elements left in memory that nobody will drop
  iterating,  \* the vector has become an iterator over its elements
  broken      \* a destructor has panicked

vars == <<made, held, out, dropped, kept, iterating, broken>>

Init ==
  /\ made = 0 /\ held = <<>> /\ out = {} /\ dropped = <<>> /\ kept = {}
  /\ iterating = FALSE /\ broken = FALSE

\* The elements made after the first a, up to b.
Made(a, b) == [k \in 1 .. b - a |-> a + k]

\* New elements enter, after t of them that only served as a template.
Enter(t) ==
  /\ made' >= made + t
  /\ held' = held \o Made(made + t, made')
  /\ dropped' = dropped \o Made(made, made + t)
  /\ UNCHANGED <<out, kept>>

\* Elements that were being added when their source panicked.
EnterNever(t) ==
  /\ made' >= made + t
  /\ kept' = kept \cup made + t + 1 .. made'
  /\ dropped' = dropped \o Made(made, made + t)
  /\ UNCHANGED <<held, out>>

Return ==
  /\ made' = made + 1
  /\ out' = out \cup {made + 1}
  /\ UNCHANGED <<held, dropped, kept>>

TakeLast ==
  /\ held # <<>>
  /\ out' = out \cup {held[Len(held)]}
  /\ held' = SubSeq(held, 1, Len(held) - 1)
  /\ UNCHANGED <<made, dropped, kept>>

StartIterating ==
  /\ ~iterating /\ iterating'
  /\ UNCHANGED <<made, held, out, dropped, kept>>

TakeFirst ==
  /\ held # <<>>
  /\ out' = out \cup {Head(held)}
  /\ held' = Tail(held)
  /\ UNCHANGED <<made, dropped, kept>>

\* The elements from position k + 1 are dropped, and then t unused templates.
Shrink(k, t) ==
  /\ made' = made + t
  /\ held' = SubSeq(held, 1, k)
  /\ dropped' = dropped \o SubSeq(held, k + 1, Len(held)) \o Made(made, made + t)
  /\ UNCHANGED <<out, kept>>

\* Every element that the iterator has not given out is dropped, in some order.
DropRest ==
  /\ iterating /\ ~iterating'
  /\ held' = <<>>
  /\ \E p \in Bijection(1 .. Len(held), 1 .. Len(held)) :
       dropped' = dropped \o [k \in 1 .. Len(held) |-> held[p[k]]]
  /\ UNCHANGED <<made, out, kept>>

HandOver ==
  /\ kept' = kept \cup {held[i] : i \in 1 .. Len(held)}
  /\ held' = <<>>
  /\ UNCHANGED <<made, out, dropped>>

\* What the vector's own operations do.
Operation ==
  \/ \E t \in 0 .. 1 : Enter(t) \/ EnterNever(t)
  \/ Return
  \/ TakeLast
  \/ \E k \in 0 .. Len(held), t \in 0 .. 1 : Shrink(k, t)
  \/ HandOver

Promise ==
  \/ ~iterating /\ Operation /\ UNCHANGED iterating
  \/ StartIterating
  \/ iterating /\ TakeFirst /\ UNCHANGED iterating
  \/ DropRest

Next == broken' \/ (Promise /\ UNCHANGED broken)

Spec == Init /\ [][Next]_vars
=============================================================================
