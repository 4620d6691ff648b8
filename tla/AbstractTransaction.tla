------------------------- MODULE AbstractTransaction -------------------------
(***************************************************************************)
(* What nested transactions promise: the open ones form a stack of saved   *)
(* states, work done inside never disturbs what a saved state holds, and a *)
(* rollback returns to the innermost one. Whoever holds a guard decides    *)
(* how it ends; the result of a closure decides for the guard lent to it.  *)
(***************************************************************************)
EXTENDS AbstractArena

VARIABLE saved   \* the open transactions, outermost first: the state each began
                 \* in, whom it belongs to and how its closure ended

txnVars == <<live, owed, snapshots, saved>>

TxnInit == Init /\ saved = <<>>

Top == saved[Len(saved)]
Pop == SubSeq(saved, 1, Len(saved) - 1)

\* Nothing happens between the end of a closure and that of its transaction.
Running == saved # <<>> => Top.result = "open"

Begin(by) ==
  /\ Running
  /\ saved' = Append(saved, [live |-> live, owed |-> owed, by |-> by,
                             result |-> "open"])
  /\ UNCHANGED vars

Return(how) ==
  /\ saved # <<>> /\ Running
  /\ Top.by # "caller"
  /\ saved' = [saved EXCEPT ![Len(saved)].result = how]
  /\ UNCHANGED vars

\* "If the closure returns Ok, the transaction commits", and that of an
\* infallible closure "always commits, even if the closure panics".
MayCommit(t) ==
  \/ t.by = "caller"
  \/ t.by = "closure" /\ t.result = "ok"
  \/ t.by = "infallible" /\ t.result # "open"

\* "If the closure returns Err, the transaction rolls back"; a panic leaves the
\* guard to its Drop.
MayRollback(t) ==
  \/ t.by = "caller"
  \/ t.by = "closure" /\ t.result \in {"err", "panic"}

\* Committing leaves the work to the enclosing transaction.
Commit ==
  /\ saved # <<>> /\ MayCommit(Top)
  /\ saved' = Pop
  /\ UNCHANGED vars

Rollback ==
  /\ saved # <<>> /\ MayRollback(Top)
  /\ Restore(Top)
  /\ saved' = Pop

\* Nothing a saved state holds is reclaimed or dropped.
Undisturbed ==
  \A k \in 1 .. Len(saved) :
    /\ saved[k].live \subseteq live'
    /\ SubSeq(owed', 1, Len(saved[k].owed)) = saved[k].owed

Work ==
  /\ Running
  /\ Next
  /\ Undisturbed
  /\ UNCHANGED saved

TxnNext ==
  \/ \E by \in {"caller", "closure", "infallible"} : Begin(by)
  \/ \E how \in {"ok", "err", "panic"} : Return(how)
  \/ Commit
  \/ Rollback
  \/ Work

TxnSpec == TxnInit /\ [][TxnNext]_txnVars
=============================================================================
