--------------------------- MODULE AbstractSequence ---------------------------
(***************************************************************************)
(* What InlineVec promises, wherever it keeps its elements: a sequence     *)
(* that is pushed, popped and updated at its ends and indices, and whose   *)
(* elements are dropped, in order, exactly once with it.                   *)
(***************************************************************************)
EXTENDS Integers, Sequences

CONSTANT Elem

VARIABLES
  seq,      \* the elements
  popped,   \* what the last pop returned: <<e>> or <<>> for None
  dropped   \* the elements dropped with the sequence

vars == <<seq, popped, dropped>>

Init == seq = <<>> /\ popped = <<>> /\ dropped = <<>>

Push(e) ==
  /\ seq' = Append(seq, e)
  /\ UNCHANGED <<popped, dropped>>

Pop ==
  /\ \/ seq # <<>> /\ popped' = <<seq[Len(seq)]>>
                   /\ seq' = SubSeq(seq, 1, Len(seq) - 1)
     \/ seq = <<>> /\ popped' = <<>> /\ UNCHANGED seq
  /\ UNCHANGED dropped

Update(i, e) ==
  /\ seq' = [seq EXCEPT ![i] = e]
  /\ UNCHANGED <<popped, dropped>>

Drop ==
  /\ dropped' = seq
  /\ seq' = <<>>
  /\ UNCHANGED popped

Next ==
  \/ \E e \in Elem : Push(e)
  \/ Pop
  \/ \E i \in 1 .. Len(seq), e \in Elem : Update(i, e)
  \/ Drop

Spec == Init /\ [][Next]_vars
=============================================================================
