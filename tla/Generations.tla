---------------------------- MODULE Generations -----------------------------
(***************************************************************************)
(* ExperimentalEngine (experimental.rs): values live in the retained WAL   *)
(* of a generation, CURRENT names the generation and a sequence floor, and *)
(* clean() copies the live records into a new generation, seals it and     *)
(* switches CURRENT to it.  Modelled are the bootstrap, the open with its  *)
(* validation and its removal of abandoned generations, writes, clean()    *)
(* step by step, shutdown, failures of any step and crashes between any    *)
(* two steps.                                                              *)
(*                                                                         *)
(* A WAL is the set of records that its recovery returns; a value is its   *)
(* record.  Files are replaced by the rename of a synced file and a sync   *)
(* of the directory: one step.  A process may be killed, which leaves what *)
(* it wrote, or the machine may lose power, which leaves what was synced   *)
(* and any part of the rest.                                               *)
(***************************************************************************)
EXTENDS Integers, FiniteSets

CONSTANTS
  Processes, \* the processes that open the root
  Keys,      \* the keys
  MaxSeq,    \* bound on application sequence numbers
  MaxGen,    \* bound on generation ids
  MaxFaults  \* bound on failures and crashes

VARIABLES
  \* On disk
  touched,   \* the root holds the LOCK file or a generation
  current,   \* CURRENT: a generation and the application sequence floor
  marker,    \* the root marker is written
  next,      \* NEXT-GENERATION, 0 if there is none
  dirs,      \* the generation directories: recovered WAL and SEAL
  soft,      \* records of the current WAL that are written and not synced
  \* In memory
  seen,      \* what the preflight of each process found, while that process opens
  owner,     \* the process that holds the LOCK
  up,        \* "down", a step of open, or "open"
  state,     \* OperationalState
  gen,       \* the generation that is open
  seq,       \* current_sequence_number
  index,     \* the reference index: the newest record of each key
  broken,    \* the WAL is poisoned by a failed append
  clean,     \* how far clean() is, its new generation and what it has yet to copy
  \* History
  acked,     \* the newest record of each key that was acknowledged, or served once synced
  tried,     \* the records of failed writes that may be in a WAL
  used,      \* the generation ids that were given out
  lost,      \* a power loss has taken back a record that an open had recovered
  faults     \* failures and crashes so far

diskVars == <<touched, current, marker, next, dirs, soft>>
openVars == <<seen, owner>>
engineVars == <<up, state, gen, seq, index, broken>>
historyVars == <<acked, tried, used, lost>>
vars == <<diskVars, openVars, engineVars, clean, historyVars, faults>>

Record == [key : Keys, seq : 1..MaxSeq, del : BOOLEAN]
NoCurrent == [gen |-> 0, floor |-> 0]
NotSeen == [current |-> NoCurrent, marker |-> TRUE]
Nobody == 0
NoSeal == [floor |-> -1, maxLive |-> 0, wal |-> {}]
EmptyGeneration == [wal |-> {}, seal |-> NoSeal]
NoClean == [pc |-> "idle", gen |-> 0, todo |-> {}]

Fault == faults < MaxFaults /\ faults' = faults + 1

Newest(recs) == {r \in recs : \A s \in recs : s.key = r.key => s.seq <= r.seq}
Live(recs) == {r \in Newest(recs) : ~r.del}
MaxOf(numbers) == IF numbers = {} THEN 0 ELSE CHOOSE n \in numbers : \A m \in numbers : m <= n
LastSeq(recs) == MaxOf({r.seq : r \in recs})
Put(f, g, v) == [h \in DOMAIN f \cup {g} |-> IF h = g THEN v ELSE f[h]]
Without(f, g) == [h \in DOMAIN f \ {g} |-> f[h]]

Init ==
  /\ touched = FALSE /\ current = NoCurrent /\ marker = FALSE /\ next = 0 /\ dirs = <<>>
  /\ soft = {} /\ seen = [p \in Processes |-> NotSeen] /\ owner = Nobody /\ up = "down" /\ state = "closed" /\ gen = 0 /\ seq = 0 /\ index = {}
  /\ broken = FALSE /\ clean = NoClean
  /\ acked = {} /\ tried = {} /\ used = {} /\ lost = FALSE /\ faults = 0

-----------------------------------------------------------------------------
(* Open                                                                    *)

\* validate_recovery_against_current: the WAL holds what was sealed, and it reaches the
\* floor, unless the floor is the sealed one and nothing was written since.
Validates(d, floor) ==
  LET recovered == LastSeq(d.wal)
  IN  IF d.seal = NoSeal THEN recovered >= floor
      ELSE /\ d.seal.wal \subseteq d.wal
           /\ IF recovered >= floor THEN d.seal.floor <= floor
              ELSE d.seal.floor = floor /\ recovered = d.seal.maxLive

\* preflight_root: a root with artifacts and without CURRENT is refused, and so is one
\* whose current generation is missing or does not validate.
Accepts ==
  IF current = NoCurrent THEN ~touched
  ELSE current.gen \in DOMAIN dirs /\ Validates(dirs[current.gen], current.floor)

\* The preflight runs before the lock is taken; what it found is used after.
Preflight(p) ==
  /\ owner # p /\ seen[p] = NotSeen /\ Accepts
  /\ seen' = [seen EXCEPT ![p] = [current |-> current, marker |-> marker]]
  /\ UNCHANGED <<diskVars, owner, engineVars, clean, historyVars, faults>>

\* RootLock::acquire, and the choice of prepare_root: a fresh root is bootstrapped, a root
\* without marker gets it.  The open fails when another engine holds the lock.
Lock(p) ==
  /\ seen[p] # NotSeen /\ owner # p
  /\ IF owner = Nobody
     THEN /\ owner' = p /\ touched' = TRUE
          /\ up' = CASE seen[p].current = NoCurrent -> "bootstrap"
                     [] seen[p].current # NoCurrent /\ ~seen[p].marker -> "marker"
                     [] OTHER -> "recover"
          /\ UNCHANGED seen
     ELSE seen' = [seen EXCEPT ![p] = NotSeen] /\ UNCHANGED <<owner, touched, up>>
  /\ UNCHANGED <<current, marker, next, dirs, soft, state, gen, seq, index, broken, clean,
                 historyVars, faults>>

\* bootstrap_generation keeps what is there.
Bootstrap ==
  /\ up = "bootstrap"
  /\ dirs' = IF 1 \in DOMAIN dirs THEN dirs ELSE Put(dirs, 1, EmptyGeneration)
  /\ used' = used \cup {1} /\ up' = "current"
  /\ UNCHANGED <<touched, current, marker, next, soft, openVars, state, gen, seq, index, broken,
                 clean, acked, tried, lost, faults>>

BootstrapCurrent ==
  /\ up = "current"
  /\ current' = [gen |-> 1, floor |-> 0] /\ seen' = [seen EXCEPT ![owner].current = current']
  /\ up' = "marker"
  /\ UNCHANGED <<touched, marker, next, dirs, soft, owner, state, gen, seq, index, broken, clean,
                 historyVars, faults>>

WriteMarker ==
  /\ up = "marker"
  /\ marker' = TRUE /\ up' = "recover"
  /\ UNCHANGED <<touched, current, next, dirs, soft, openVars, state, gen, seq, index, broken,
                 clean, historyVars, faults>>

\* The process of the engine is gone, and with it its lock.
Gone ==
  /\ owner' = Nobody /\ up' = "down" /\ state' = "closed" /\ gen' = 0 /\ seq' = 0
  /\ index' = {} /\ broken' = FALSE /\ clean' = NoClean

\* What the WAL manager recovers in a generation directory, which it creates if missing.
Opened(g) == IF g \in DOMAIN dirs THEN dirs[g] ELSE EmptyGeneration

\* Mutant of RecoveredSequence: the floor does not count.
RecoveredWalSequence(wal, floor) == LastSeq(wal)

RecoveredSequence(wal, floor) == MaxOf({LastSeq(wal), floor})

\* Mutant of Replayed: every record stays.
ReplayedHistory(wal) == wal

\* build_reference_memtable: a later record of a key replaces an earlier one.
Replayed(wal) == Newest(wal)

\* The WAL is opened and replayed into the memtable, validated
\* again, and the floor is raised to what was recovered.
Recover ==
  /\ up = "recover"
  /\ LET c == seen[owner].current
         d == Opened(c.gen)
         s == RecoveredSequence(d.wal, c.floor)
     IN  /\ dirs' = Put(dirs, c.gen, d)
         /\ IF Validates(d, c.floor)
            THEN /\ gen' = c.gen /\ index' = Replayed(d.wal) /\ seq' = s /\ broken' = FALSE
                 /\ current' = IF s > c.floor THEN [gen |-> c.gen, floor |-> s] ELSE current
                 /\ up' = "cleanup"
                 /\ acked' = Newest(acked \cup (d.wal \ soft)) /\ tried' = tried \cap d.wal
                 /\ UNCHANGED <<owner, state, clean>>
            ELSE Gone /\ UNCHANGED <<current, acked, tried>>
  /\ seen' = [seen EXCEPT ![owner] = NotSeen]
  /\ UNCHANGED <<touched, marker, next, soft, used, lost, faults>>

\* cleanup_abandoned_generations, and then the engine serves.
RemoveAbandoned ==
  /\ up = "cleanup"
  /\ \E g \in DOMAIN dirs \ {gen} :
       /\ \A h \in DOMAIN dirs \ {gen} : g <= h
       /\ dirs' = Without(dirs, g)
  /\ UNCHANGED <<touched, current, marker, next, soft, openVars, engineVars, clean, historyVars, faults>>

OpenDone ==
  /\ up = "cleanup" /\ DOMAIN dirs = {gen}
  /\ up' = "open" /\ state' = "active"
  /\ UNCHANGED <<diskVars, openVars, gen, seq, index, broken, clean, historyVars, faults>>

Operational == up = "open" /\ state = "active" /\ clean.pc = "idle"

-----------------------------------------------------------------------------
(* Writes, with their values in the WAL of the generation                  *)

\* write_batch with one operation: the record is written, synced, acknowledged.
Write(k, del) ==
  /\ Operational /\ ~broken /\ seq < MaxSeq
  /\ LET r == [key |-> k, seq |-> seq + 1, del |-> del]
     IN  /\ dirs' = [dirs EXCEPT ![gen].wal = @ \cup {r}]
         /\ index' = Newest(index \cup {r}) /\ acked' = Newest(acked \cup index \cup {r})
  /\ soft' = {} /\ seq' = seq + 1
  /\ UNCHANGED <<touched, current, marker, next, openVars, up, state, gen, broken, clean, tried, used,
                 lost, faults>>

\* The write fails, or its process ends, somewhere between the first byte and the
\* acknowledgement: the record may be in the file, synced or not, or not.
WriteFail(k, del) ==
  /\ Operational /\ ~broken /\ seq < MaxSeq /\ Fault
  /\ LET r == [key |-> k, seq |-> seq + 1, del |-> del]
     IN  /\ tried' = tried \cup {r}
         /\ \/ UNCHANGED <<dirs, soft>>
            \/ dirs' = [dirs EXCEPT ![gen].wal = @ \cup {r}] /\ soft' \in {{}, soft \cup {r}}
  /\ broken' = TRUE
  /\ UNCHANGED <<touched, current, marker, next, openVars, up, state, gen, seq, index, clean, acked, used,
                 lost>>

-----------------------------------------------------------------------------
(* clean()                                                                 *)

\* Mutant of Reserve: the ids of removed generations are given out again.
ReserveAfterExisting ==
  /\ Operational
  /\ LET g == MaxOf(DOMAIN dirs) + 1
     IN  /\ g <= MaxGen
         /\ clean' = [pc |-> "create", gen |-> g, todo |-> Live(index)]
         /\ next' = g + 1
  /\ UNCHANGED <<touched, current, marker, dirs, soft, openVars, engineVars, historyVars, faults>>

\* The live records are scanned and reserve_next_generation picks the new generation.
Reserve ==
  /\ Operational
  /\ LET g == MaxOf({MaxOf(DOMAIN dirs) + 1, next})
     IN  /\ g <= MaxGen
         /\ clean' = [pc |-> "create", gen |-> g, todo |-> Live(index)]
         /\ next' = g + 1
  /\ UNCHANGED <<touched, current, marker, dirs, soft, openVars, engineVars, historyVars, faults>>

CreateGeneration ==
  /\ clean.pc = "create"
  /\ dirs' = Put(dirs, clean.gen, EmptyGeneration) /\ used' = used \cup {clean.gen}
  /\ clean' = [clean EXCEPT !.pc = "copy"]
  /\ UNCHANGED <<touched, current, marker, next, soft, openVars, engineVars, acked, tried, lost, faults>>

\* copy_live_records: a record keeps its sequence number.
Copy ==
  /\ clean.pc = "copy" /\ clean.todo # {}
  /\ \E r \in clean.todo :
       /\ \A s \in clean.todo : r.seq <= s.seq
       /\ dirs' = [dirs EXCEPT ![clean.gen].wal = @ \cup {r}]
       /\ clean' = [clean EXCEPT !.todo = @ \ {r}]
  /\ UNCHANGED <<touched, current, marker, next, soft, openVars, engineVars, historyVars, faults>>

\* Mutant of Seal: the floor of the seal is the last sequence number copied.
SealLive ==
  /\ clean.pc = "copy" /\ clean.todo = {}
  /\ dirs' = [dirs EXCEPT ![clean.gen].seal = [floor   |-> LastSeq(dirs[clean.gen].wal),
                                               maxLive |-> LastSeq(dirs[clean.gen].wal),
                                               wal     |-> dirs[clean.gen].wal]]
  /\ clean' = [clean EXCEPT !.pc = "temp"]
  /\ UNCHANGED <<touched, current, marker, next, soft, openVars, engineVars, historyVars, faults>>

\* The new index is built, flushed and validated, and the generation is sealed.
Seal ==
  /\ clean.pc = "copy" /\ clean.todo = {}
  /\ dirs' = [dirs EXCEPT ![clean.gen].seal = [floor   |-> seq,
                                               maxLive |-> LastSeq(dirs[clean.gen].wal),
                                               wal     |-> dirs[clean.gen].wal]]
  /\ clean' = [clean EXCEPT !.pc = "temp"]
  /\ UNCHANGED <<touched, current, marker, next, soft, openVars, engineVars, historyVars, faults>>

\* Mutant of WriteTemp: the engine is not stopped for the switch.
WriteTempActive ==
  /\ clean.pc = "temp"
  /\ clean' = [clean EXCEPT !.pc = "commit"]
  /\ UNCHANGED <<diskVars, openVars, engineVars, historyVars, faults>>

\* Mutant of WriteTemp: the old generation is removed before the switch.
WriteTempReclaims ==
  /\ clean.pc = "temp"
  /\ state' = "poisoned" /\ clean' = [clean EXCEPT !.pc = "commit"]
  /\ dirs' = Without(dirs, gen)
  /\ UNCHANGED <<touched, current, marker, next, soft, openVars, up, gen, seq, index, broken,
                 historyVars, faults>>

\* write_current_temp; from here until the new generation is adopted the engine is stopped.
WriteTemp ==
  /\ clean.pc = "temp"
  /\ state' = "poisoned" /\ clean' = [clean EXCEPT !.pc = "commit"]
  /\ UNCHANGED <<diskVars, openVars, up, gen, seq, index, broken, historyVars, faults>>

\* commit_current_temp.
Switch ==
  /\ current' = [gen |-> clean.gen, floor |-> seq] /\ soft' = {}
  /\ acked' = Newest(acked \cup index)

Commit ==
  /\ clean.pc = "commit"
  /\ Switch
  /\ clean' = [clean EXCEPT !.pc = "adopt"]
  /\ UNCHANGED <<touched, marker, next, dirs, openVars, engineVars, tried, used, lost, faults>>

Adopt ==
  /\ clean.pc = "adopt"
  /\ gen' = clean.gen /\ index' = dirs[clean.gen].wal /\ broken' = FALSE /\ state' = "active"
  /\ clean' = [clean EXCEPT !.pc = "reclaim"]
  /\ UNCHANGED <<diskVars, openVars, up, seq, historyVars, faults>>

\* reclaim_after_switch: a generation that cannot be removed is left for later.
Reclaim ==
  /\ clean.pc = "reclaim"
  /\ \E g \in DOMAIN dirs \ {gen} :
       /\ \A h \in DOMAIN dirs \ {gen} : g <= h
       /\ dirs' = Without(dirs, g)
  /\ UNCHANGED <<touched, current, marker, next, soft, openVars, engineVars, clean, historyVars, faults>>

CleanDone ==
  /\ clean.pc = "reclaim" /\ DOMAIN dirs = {gen}
  /\ clean' = NoClean
  /\ UNCHANGED <<diskVars, openVars, engineVars, historyVars, faults>>

\* A step of clean() fails, or its caller is cancelled; a switch that fails may be done.
CleanFail ==
  /\ clean.pc # "idle" /\ Fault
  /\ clean' = NoClean
  /\ \/ UNCHANGED <<current, soft, acked>>
     \/ clean.pc = "commit" /\ Switch
  /\ UNCHANGED <<touched, marker, next, dirs, openVars, engineVars, tried, used, lost>>

-----------------------------------------------------------------------------
(* Shutdown, drop and crashes                                              *)

\* shutdown publishes the sequence number in CURRENT, if CURRENT is still this engine's.
Shutdown ==
  /\ Operational /\ current.gen = gen
  /\ current' = [current EXCEPT !.floor = MaxOf({@, seq})]
  /\ state' = "closed"
  /\ UNCHANGED <<touched, marker, next, dirs, soft, openVars, up, gen, seq, index, broken, clean,
                 historyVars, faults>>

\* A closed or stopped engine is dropped.
Drop ==
  /\ up = "open" /\ state # "active" /\ clean.pc = "idle"
  /\ Gone
  /\ UNCHANGED <<diskVars, seen, historyVars, faults>>

Kill ==
  /\ owner # Nobody /\ Fault
  /\ Gone
  /\ seen' = [seen EXCEPT ![owner] = NotSeen]
  /\ UNCHANGED <<diskVars, historyVars>>

\* What a power loss leaves of a WAL of which all records up to n were written out.
Survivors(wal, n) == wal \ {r \in soft : r.seq > n}

PowerLoss ==
  /\ Fault
  /\ Gone
  /\ soft' = {} /\ seen' = [p \in Processes |-> NotSeen]
  /\ IF soft = {} THEN UNCHANGED <<dirs, lost>>
     ELSE \E n \in 0..MaxSeq :
            /\ dirs' = [dirs EXCEPT ![current.gen].wal = Survivors(@, n)]
            /\ lost' = (lost \/ \E r \in soft : n < r.seq /\ r.seq <= current.floor)
  /\ UNCHANGED <<touched, current, marker, next, acked, tried, used>>

Next ==
  \/ \E p \in Processes : Preflight(p) \/ Lock(p)
  \/ Bootstrap \/ BootstrapCurrent \/ WriteMarker
  \/ Recover \/ RemoveAbandoned \/ OpenDone
  \/ \E k \in Keys, del \in BOOLEAN : Write(k, del) \/ WriteFail(k, del)
  \/ Reserve \/ CreateGeneration \/ Copy \/ Seal \/ WriteTemp \/ Commit \/ Adopt
  \/ Reclaim \/ CleanDone \/ CleanFail
  \/ Shutdown \/ Drop \/ Kill \/ PowerLoss

Spec == Init /\ [][Next]_vars

-----------------------------------------------------------------------------
(* Properties                                                              *)

\* Every component of the state has its type, and only the generation named by CURRENT has
\* unsynced records.
TypeOK ==
  /\ touched \in BOOLEAN /\ marker \in BOOLEAN /\ broken \in BOOLEAN /\ lost \in BOOLEAN
  /\ current \in [gen : 0..MaxGen, floor : 0..MaxSeq]
  /\ DOMAIN dirs \subseteq 1..MaxGen /\ next \in 0..(MaxGen + 1)
  /\ \A g \in DOMAIN dirs :
       dirs[g].wal \subseteq Record /\ dirs[g].seal.floor \in -1..MaxSeq
  /\ soft = {} \/ (current.gen \in DOMAIN dirs /\ soft \subseteq dirs[current.gen].wal)
  /\ up \in {"down", "bootstrap", "current", "marker", "recover", "cleanup", "open"}
  /\ state \in {"active", "poisoned", "closed"} /\ seq \in 0..MaxSeq
  /\ index \subseteq Record /\ Newest(index) = index /\ acked \subseteq Record

\* A crash at any moment, and a reopen, lead to the last acknowledged record of each key, or
\* to a later one of a failed write, which may have reached the WAL: in the middle of a
\* clean, after a failed one, and of a key whose tombstone the clean has dropped.
AckedSurvives ==
  current # NoCurrent =>
    \A a \in acked :
      /\ current.gen \in DOMAIN dirs
      /\ \A n \in 0..MaxSeq :
           LET found == {r \in Newest(Survivors(dirs[current.gen].wal, n)) : r.key = a.key}
           IN  \/ found \subseteq tried /\ \E r \in found : r.seq > a.seq
               \/ found = {a}
               \/ a.del /\ found = {}

\* A sequence number that was acknowledged is never given out again, although a clean
\* drops the tombstones that carried the highest ones: CURRENT keeps the floor.
SequenceNeverReused ==
  /\ current # NoCurrent =>
       \A a \in acked : a.seq <= MaxOf({LastSeq(dirs[current.gen].wal), current.floor})
  /\ up = "open" => \A a \in acked : a.seq <= seq

\* A generation id is given out once, even if its directory was removed since: a reference
\* into an old generation never resolves in a new one.
GenerationsFresh == clean.pc = "create" => clean.gen \notin used

\* A root that was once bootstrapped opens again after any crash or failure, unless a
\* power loss has taken back a record that an earlier open recovered without syncing it
\* and then counted in the floor of CURRENT.
OpensAgain == current # NoCurrent => Accepts \/ lost

\* An engine that serves has the generation that CURRENT names: a write it acknowledges
\* is in the generation that the next open reads.
ServesCurrent == Operational => current.gen = gen /\ gen \in DOMAIN dirs

=============================================================================
