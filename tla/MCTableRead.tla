---------------------------- MODULE MCTableRead -----------------------------
(***************************************************************************)
(* Model checking of TableRead: readers and tables are interchangeable,    *)
(* and the position of an open file description matters only between the   *)
(* seek and the read of a reader that holds it.                            *)
(***************************************************************************)
EXTENDS TableRead, TLC

Symmetry == Permutations(Readers) \cup Permutations(Tables)

Reading == {rd[r].fd : r \in {r \in Readers : rd[r].pc = "read"}}
View ==
  <<live, files, handles, order, rd, worker, [d \in Reading |-> position[d]]>>
=============================================================================
