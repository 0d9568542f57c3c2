----------------------------- MODULE DurableLog -----------------------------
(***************************************************************************)
(* What the write-ahead log promises its users (abstract specification).   *)
(* The log is the sequence of transactions that a reopen would replay.  A  *)
(* group of transactions handed to the log is in limbo until the append is *)
(* acknowledged or the log is reopened: an acknowledged group is in the    *)
(* log as a whole, an interrupted or failed one leaves a prefix of itself, *)
(* whole transactions only, and nothing else ever changes the log but the  *)
(* truncation of a prefix that a checkpoint covers.                        *)
(*                                                                         *)
(* WAL implements it (run wal_refines); Engine is built on it.             *)
(***************************************************************************)
EXTENDS Naturals, Sequences

CONSTANT Groups  \* the groups of transactions that may be appended

VARIABLES log, limbo

Init == log = <<>> /\ limbo = <<>>

Begin(group) ==
  /\ limbo = <<>>
  /\ limbo' = group
  /\ UNCHANGED log

Acknowledge ==
  /\ log' = log \o limbo
  /\ limbo' = <<>>

\* The log is reopened after a failure or a crash.
Reopen ==
  \E n \in 0..Len(limbo) :
    /\ log' = log \o SubSeq(limbo, 1, n)
    /\ limbo' = <<>>

Truncate(n) ==
  /\ log' = SubSeq(log, n + 1, Len(log))
  /\ UNCHANGED limbo

Next ==
  \/ \E g \in Groups : Begin(g)
  \/ Acknowledge
  \/ Reopen
  \/ \E n \in 0..Len(log) : Truncate(n)

Spec == Init /\ [][Next]_<<log, limbo>>

=============================================================================
