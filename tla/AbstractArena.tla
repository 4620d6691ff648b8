---------------------------- MODULE AbstractArena ----------------------------
(***************************************************************************)
(* What an arena promises to a caller who uses a checkpoint only while it  *)
(* is valid: an allocation returns memory nothing else occupies, a rewind  *)
(* gives back exactly the state the checkpoint was taken in, and the       *)
(* destructors owed are those of the registered values, in order.          *)
(* There are no blocks, offsets or cursors here; Arena implements this.    *)
(***************************************************************************)
EXTENDS Regions, Sequences

CONSTANT Region   \* every region an allocation may return

VARIABLES
  live,       \* the regions handed out and not reclaimed
  owed,       \* the regions whose destructor the arena must run, oldest first
  snapshots,  \* the checkpoints the caller holds: [live, owed] when taken
  outcome     \* how the last call ended, "ok" or not

vars == <<live, owed, snapshots>>

\* s was taken no later than t: nothing has been reclaimed in between.
NoLater(s, t) ==
  /\ s.live \subseteq t.live
  /\ Len(s.owed) <= Len(t.owed)

Init ==
  /\ live = {}
  /\ owed = <<>>
  /\ snapshots = {}
  /\ outcome = "ok"

Allocate(r) ==
  /\ r \in Region
  /\ \A s \in live : Disjoint(r, s)
  /\ live' = live \cup {r}
  /\ owed' \in {owed, Append(owed, r)}
  /\ UNCHANGED snapshots

Register(r) ==
  /\ owed' = Append(owed, r)
  /\ UNCHANGED <<live, snapshots>>

Snapshot ==
  /\ snapshots' = snapshots \cup {[live |-> live, owed |-> owed]}
  /\ UNCHANGED <<live, owed>>

\* The memory that is left is `regions`, unless a destructor panicked.
Leaves(regions) ==
  \/ outcome' = "ok" /\ live' = regions
  \/ outcome' = "panic" /\ live' = live

\* The owed destructors of what came after s run, newest first.
Restore(s) ==
  /\ Leaves(s.live)
  /\ owed' = s.owed
  /\ snapshots' = {t \in snapshots : NoLater(t, s)}

Reset ==
  /\ Leaves({})
  /\ owed' = <<>>
  /\ snapshots' = {}

Next ==
  \/ \E r \in live' : Allocate(r)
  \/ \E r \in live : Register(r)
  \/ Snapshot
  \/ \E s \in snapshots : Restore(s)
  \/ Reset

Spec == Init /\ [][Next]_vars
=============================================================================
