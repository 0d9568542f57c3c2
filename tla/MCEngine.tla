------------------------------ MODULE MCEngine ------------------------------
(* Small instances of Engine for TLC. *)
EXTENDS EngineRefinement, TLC

CONSTANTS k1, k2, rk, v1, v2

Put(k, v) == [key |-> k, val |-> v]
Delete(k) == [key |-> k, val |-> Tombstone]

\* A put, a delete, and a group of two batches of which one writes a key twice.
MCBatches ==
  {<<<<Put(k1, v1)>>>>,
   <<<<Delete(k1)>>>>,
   <<<<Put(k1, v1), Put(k1, v2)>>, <<Put(k2, v1)>>>>}

\* A raw caller that numbers its record ahead of the engine.
MCRawRecords == {[key |-> rk, lsn |-> 2, val |-> v1]}

=============================================================================
