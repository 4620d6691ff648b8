------------------------------- MODULE ArenaBox -------------------------------
(***************************************************************************)
(* ArenaBox (arena/boxed.rs): an owning pointer to a value in the arena.   *)
(* alloc_box is the arena's alloc; into_inner moves the value out of the   *)
(* arena without telling it.                                               *)
(***************************************************************************)
EXTENDS Arena

VARIABLE moved   \* history: regions whose value into_inner gave to the caller

BoxInit == Init /\ moved = {}

\* The box borrows the arena, so that it is the newest allocation of all, and
\* is consumed by into_inner.
IntoInner(r) ==
  /\ r \in live \ moved
  /\ \A s \in live : Below(s, r.blk, r.off + r.size)
  /\ moved' = moved \cup {r}
  /\ UNCHANGED vars

\* Any call on the arena. The caller no longer has a moved value to register.
ViaArena ==
  /\ Next
  /\ moved \cap Registered' \subseteq Registered
  /\ moved' = moved \cap live'

BoxNext == ViaArena \/ \E r \in live : IntoInner(r)

BoxSpec == BoxInit /\ [][BoxNext]_<<vars, moved>>

-----------------------------------------------------------------------------
(* Properties *)

\* "Owned allocation with drop semantics": a value moved out of its box belongs
\* to the caller, and no rewind or reset runs its destructor.
MovedIsNotDropped ==
  [][moved \cap (Registered \ Registered') = {}]_<<vars, moved>>
=============================================================================
