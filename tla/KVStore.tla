------------------------------ MODULE KVStore -------------------------------
(***************************************************************************)
(* What a CereDB engine promises its callers (abstract specification): a   *)
(* map from keys to values that batches update atomically and in order.    *)
(* Batches committed together are in limbo until they are acknowledged;    *)
(* a failure or a crash applies a prefix of them, whole batches only, and  *)
(* forgets the rest.  An applied batch is never undone.                    *)
(***************************************************************************)
EXTENDS Integers, Sequences, SequencesExt

CONSTANTS Keys, Groups, Missing

VARIABLES store, limbo

\* The last operation of a batch on a key decides its value.
ApplyBatch(st, batch) ==
  [k \in Keys |->
     LET touching == {i \in DOMAIN batch : batch[i].key = k}
     IN  IF touching = {} THEN st[k] ELSE batch[Max(touching)].val]

ApplyAll(st, group) == FoldLeft(ApplyBatch, st, group)

Init == store = [k \in Keys |-> Missing] /\ limbo = <<>>

Submit(group) ==
  /\ limbo = <<>>
  /\ limbo' = group
  /\ UNCHANGED store

\* All of limbo when the group is acknowledged, any prefix on a failure.
Settle ==
  \E n \in 0..Len(limbo) :
    /\ store' = ApplyAll(store, SubSeq(limbo, 1, n))
    /\ limbo' = <<>>

Next == (\E g \in Groups : Submit(g)) \/ Settle

Spec == Init /\ [][Next]_<<store, limbo>>

=============================================================================
