------------------------------ MODULE Admission ------------------------------
(***************************************************************************)
(* The write admission queue (storage/writemanager/admission.rs) and its   *)
(* users in storage/writemanager/write.rs: clients that submit batches,    *)
(* the runner task that drains them into group commits, and the barriers   *)
(* (flush_active_memtable, await_pending_writes) that wait for every batch *)
(* admitted so far and then take the writer lock.                          *)
(*                                                                         *)
(* A batch is abstracted to its byte estimate: what the queue looks at.    *)
(* The WAL append of a drained group either succeeds or fails as a whole.  *)
(* tokio semaphores and the tokio mutex are FIFO, hence the wait queues.   *)
(***************************************************************************)
EXTENDS Integers, FiniteSets, Sequences, SequencesExt

CONSTANTS
  Clients,           \* callers of WriteComponent::write_batch
  Barriers,          \* callers of flush_active_memtable / await_pending_writes
  Runners,           \* names for the runner tasks that may be alive at once
  Weights,           \* byte estimates of the batches clients submit
  MaxAdmitted,       \* MAX_ADMITTED_REQUESTS
  ByteBudget,        \* ADMITTED_BYTE_BUDGET
  MaxDrainRequests,  \* MAX_DRAIN_REQUESTS
  MaxDrainBytes,     \* MAX_DRAIN_BYTES
  MaxTicket          \* bound on the number of admitted batches

ASSUME AdmissionAssumption ==
  /\ Weights \subseteq Nat
  /\ MaxAdmitted \in Nat \ {0}
  /\ ByteBudget \in Nat \ {0}
  /\ MaxDrainRequests \in Nat \ {0}
  /\ MaxDrainBytes \in Nat
  /\ MaxTicket \in Nat

VARIABLES
  requests,   \* State.requests: the queue
  running,    \* State.running
  next,       \* State.next_ticket
  completed,  \* State.completed_ticket
  slots,      \* free permits of QueueInner.slots
  bytes,      \* free permits of QueueInner.bytes
  slotWait,   \* clients waiting in slots.acquire_owned
  byteWait,   \* clients waiting in bytes.acquire_many_owned
  client,     \* where each client is in write_batch
  runner,     \* where each runner task is in run_write_admission
  barrier,    \* where each barrier is
  writerLock, \* WriteComponent::writer_lock: holder first, then the waiters
  published,  \* tickets whose records are in the memtable, in insertion order
  outcome     \* what the completion channel of each ticket delivered

queueVars == <<requests, running, next, completed>>
permitVars == <<slots, bytes>>
waitVars == <<slotWait, byteWait>>
resultVars == <<published, outcome>>
vars == <<queueVars, permitVars, waitVars, client, runner, barrier, writerLock,
          resultVars>>

Request == [ticket : Nat, weight : Weights]
NoResult == "none"

\* A client, a runner name and a barrier that hold nothing.
IdleClient == [pc |-> "idle", weight |-> 0, ticket |-> 0]
IdleRunner == [pc |-> "none", batch |-> <<>>, ok |-> FALSE]
IdleBarrier == [pc |-> "idle", ticket |-> 0, notified |-> FALSE]

\* byte_permits of enqueue: estimated_bytes.min(ADMITTED_BYTE_BUDGET).max(1)
BytePermits(w) ==
  LET capped == IF w <= ByteBudget THEN w ELSE ByteBudget
  IN  IF capped = 0 THEN 1 ELSE capped

Init ==
  /\ requests = <<>>
  /\ running = FALSE
  /\ next = 0
  /\ completed = 0
  /\ slots = MaxAdmitted
  /\ bytes = ByteBudget
  /\ slotWait = <<>>
  /\ byteWait = <<>>
  /\ client = [c \in Clients |-> IdleClient]
  /\ runner = [r \in Runners |-> IdleRunner]
  /\ barrier = [b \in Barriers |-> IdleBarrier]
  /\ writerLock = <<>>
  /\ published = <<>>
  /\ outcome = [t \in 1..MaxTicket |-> NoResult]

-----------------------------------------------------------------------------
(* Clients: write_batch and AdmissionQueue::enqueue                        *)

\* write_batch is called and asks for a slot.
Submit(c) ==
  /\ client[c].pc = "idle"
  /\ \E w \in Weights : client' = [client EXCEPT ![c].pc = "slot", ![c].weight = w]
  /\ slotWait' = Append(slotWait, c)
  /\ UNCHANGED <<queueVars, permitVars, byteWait, runner, barrier, writerLock, resultVars>>

AcquireSlot(c) ==
  /\ slotWait # <<>> /\ Head(slotWait) = c
  /\ slots > 0
  /\ slots' = slots - 1
  /\ slotWait' = Tail(slotWait)
  /\ byteWait' = Append(byteWait, c)
  /\ client' = [client EXCEPT ![c].pc = "bytes"]
  /\ UNCHANGED <<queueVars, bytes, runner, barrier, writerLock, resultVars>>

AcquireBytes(c) ==
  /\ byteWait # <<>> /\ Head(byteWait) = c
  /\ bytes >= BytePermits(client[c].weight)
  /\ bytes' = bytes - BytePermits(client[c].weight)
  /\ byteWait' = Tail(byteWait)
  /\ client' = [client EXCEPT ![c].pc = "admit"]
  /\ UNCHANGED <<queueVars, slots, slotWait, runner, barrier, writerLock, resultVars>>

\* Mutant of Enqueue: the request is put at the front of the queue.
EnqueueFront(c) ==
  /\ client[c].pc = "admit"
  /\ next < MaxTicket
  /\ next' = next + 1
  /\ requests' = <<[ticket |-> next + 1, weight |-> client[c].weight]>> \o requests
  /\ running' = TRUE
  /\ IF running
       THEN UNCHANGED runner
       ELSE \E r \in Runners : /\ runner[r].pc = "none"
                               /\ runner' = [runner EXCEPT ![r].pc = "drain"]
  /\ client' = [client EXCEPT ![c].pc = "waiting", ![c].ticket = next + 1]
  /\ UNCHANGED <<completed, permitVars, waitVars, barrier, writerLock, resultVars>>

\* The section of enqueue under the state lock, and the spawn of a runner when
\* none is running.  Two clients with permits enter it in either order.
Enqueue(c) ==
  /\ client[c].pc = "admit"
  /\ next < MaxTicket
  /\ next' = next + 1
  /\ requests' = Append(requests, [ticket |-> next + 1, weight |-> client[c].weight])
  /\ running' = TRUE
  /\ IF running
       THEN UNCHANGED runner
       ELSE \E r \in Runners : /\ runner[r].pc = "none"
                               /\ runner' = [runner EXCEPT ![r].pc = "drain"]
  /\ client' = [client EXCEPT ![c].pc = "waiting", ![c].ticket = next + 1]
  /\ UNCHANGED <<completed, permitVars, waitVars, barrier, writerLock, resultVars>>

\* Mutant of Cancel: the slot is leaked when the byte wait is cancelled.
CancelLeaksSlot(c) ==
  /\ client[c].pc \in {"slot", "bytes", "admit", "waiting"}
  /\ client' = [client EXCEPT ![c] = IdleClient]
  /\ slotWait' = SelectSeq(slotWait, LAMBDA d : d # c)
  /\ byteWait' = SelectSeq(byteWait, LAMBDA d : d # c)
  /\ slots' = IF client[c].pc = "admit" THEN slots + 1 ELSE slots
  /\ bytes' = IF client[c].pc = "admit" THEN bytes + BytePermits(client[c].weight) ELSE bytes
  /\ UNCHANGED <<queueVars, runner, barrier, writerLock, resultVars>>

\* Mutant of Cancel: an admitted request's slot is released with its caller.
CancelReleasesTwice(c) ==
  /\ client[c].pc \in {"slot", "bytes", "admit", "waiting"}
  /\ client' = [client EXCEPT ![c] = IdleClient]
  /\ slotWait' = SelectSeq(slotWait, LAMBDA d : d # c)
  /\ byteWait' = SelectSeq(byteWait, LAMBDA d : d # c)
  /\ slots' = IF client[c].pc # "slot" THEN slots + 1 ELSE slots
  /\ bytes' = IF client[c].pc = "admit" THEN bytes + BytePermits(client[c].weight) ELSE bytes
  /\ UNCHANGED <<queueVars, runner, barrier, writerLock, resultVars>>

\* The future of write_batch is dropped at one of its awaits.  Permits it
\* already holds are released; an admitted request runs on without it.
Cancel(c) ==
  /\ client[c].pc \in {"slot", "bytes", "admit", "waiting"}
  /\ client' = [client EXCEPT ![c] = IdleClient]
  /\ slotWait' = IF client[c].pc = "slot" THEN SelectSeq(slotWait, LAMBDA d : d # c)
                                          ELSE slotWait
  /\ byteWait' = IF client[c].pc = "bytes" THEN SelectSeq(byteWait, LAMBDA d : d # c)
                                           ELSE byteWait
  /\ slots' = IF client[c].pc \in {"bytes", "admit"} THEN slots + 1 ELSE slots
  /\ bytes' = IF client[c].pc = "admit" THEN bytes + BytePermits(client[c].weight) ELSE bytes
  /\ UNCHANGED <<queueVars, runner, barrier, writerLock, resultVars>>

-----------------------------------------------------------------------------
(* The runner: run_write_admission, drain_ready, complete                  *)

WeightOfFirst(q, n) ==
  FoldSeq(LAMBDA req, sum : req.weight + sum, 0, SubSeq(q, 1, n))

\* The loop of drain_ready does not take request n + 1 after the first n.
StopsAfter(q, n) ==
  \/ n = Len(q)
  \/ n = MaxDrainRequests
  \/ n < Len(q) /\ WeightOfFirst(q, n) + q[n + 1].weight > MaxDrainBytes
  \/ \E i \in 1..n : q[i].weight > MaxDrainBytes

\* The longest admissible prefix of the queue, n requests, becomes the batch and
\* the runner asks for the writer lock.
TakeBatch(r, n) ==
  /\ StopsAfter(requests, n)
  /\ \A k \in 1..(n - 1) : ~StopsAfter(requests, k)
  /\ runner' = [runner EXCEPT ![r].pc = "append", ![r].batch = SubSeq(requests, 1, n)]
  /\ requests' = SubSeq(requests, n + 1, Len(requests))
  /\ writerLock' = Append(writerLock, r)

\* Mutant of DrainReady: running is reset as soon as the queue is drained.
DrainResetsEarly(r) ==
  /\ runner[r].pc = "drain"
  /\ \/ /\ requests = <<>>
        /\ running' = FALSE
        /\ runner' = [runner EXCEPT ![r] = IdleRunner]
        /\ UNCHANGED <<requests, writerLock>>
     \/ \E n \in 1..Len(requests) : /\ TakeBatch(r, n)
                                    /\ running' = (n < Len(requests))
  /\ UNCHANGED <<next, completed, permitVars, waitVars, client, barrier, resultVars>>

\* Mutant of DrainReady: running is not reset when the runner ends.
DrainKeepsRunning(r) ==
  /\ runner[r].pc = "drain"
  /\ \/ /\ requests = <<>>
        /\ runner' = [runner EXCEPT ![r] = IdleRunner]
        /\ UNCHANGED <<requests, writerLock>>
     \/ \E n \in 1..Len(requests) : TakeBatch(r, n)
  /\ UNCHANGED <<running, next, completed, permitVars, waitVars, client, barrier, resultVars>>

\* drain_ready: the queue is empty and the runner ends, or it takes a batch.
DrainReady(r) ==
  /\ runner[r].pc = "drain"
  /\ \/ /\ requests = <<>>
        /\ running' = FALSE
        /\ runner' = [runner EXCEPT ![r] = IdleRunner]
        /\ UNCHANGED <<requests, writerLock>>
     \/ \E n \in 1..Len(requests) : TakeBatch(r, n) /\ UNCHANGED running
  /\ UNCHANGED <<next, completed, permitVars, waitVars, client, barrier, resultVars>>

HoldsLock(p) == writerLock # <<>> /\ Head(writerLock) = p

TicketsOf(batch) == [i \in DOMAIN batch |-> batch[i].ticket]

\* Mutant of AppendGroup: the group is inserted before the append is known good.
AppendPublishesFirst(r) ==
  /\ runner[r].pc = "append"
  /\ HoldsLock(r)
  /\ \E ok \in BOOLEAN : runner' = [runner EXCEPT ![r].pc = "complete", ![r].ok = ok]
  /\ published' = published \o TicketsOf(runner[r].batch)
  /\ UNCHANGED <<queueVars, permitVars, waitVars, client, barrier, writerLock, outcome>>

\* Holding the writer lock: one WAL append for the whole group; on success all
\* of it is inserted into the memtable.
AppendGroup(r) ==
  /\ runner[r].pc = "append"
  /\ HoldsLock(r)
  /\ \E ok \in BOOLEAN :
       /\ runner' = [runner EXCEPT ![r].pc = "complete", ![r].ok = ok]
       /\ published' = IF ok THEN published \o TicketsOf(runner[r].batch) ELSE published
  /\ UNCHANGED <<queueVars, permitVars, waitVars, client, barrier, writerLock, outcome>>

\* The request at the head of the batch is dropped with its permits; after the
\* last one the iteration ends and releases the writer lock.
DropHead(r) ==
  LET req == Head(runner[r].batch)
      last == Len(runner[r].batch) = 1
  IN  /\ runner' = [runner EXCEPT
             ![r] = [pc |-> IF last THEN "drain" ELSE "complete",
                     batch |-> Tail(runner[r].batch), ok |-> ~last /\ runner[r].ok]]
      /\ writerLock' = IF last THEN Tail(writerLock) ELSE writerLock
      /\ slots' = slots + 1
      /\ bytes' = bytes + BytePermits(req.weight)

\* complete, up to the release of the state lock.
Complete(r) ==
  /\ runner[r].pc = "complete"
  /\ LET t == Head(runner[r].batch).ticket
     IN  IF t # completed + 1 \/ t > next
           THEN /\ DropHead(r)
                /\ outcome' = [outcome EXCEPT ![t] = "lost"]
                /\ UNCHANGED completed
           ELSE /\ completed' = t
                /\ runner' = [runner EXCEPT ![r].pc = "notify"]
                /\ UNCHANGED <<outcome, permitVars, writerLock>>
  /\ UNCHANGED <<requests, running, next, waitVars, client, barrier, published>>

\* Mutant of Notify: waiting barriers are notified of successes only.
NotifyOnlyOnOk(r) ==
  /\ runner[r].pc = "notify"
  /\ LET t == Head(runner[r].batch).ticket
     IN  /\ outcome' = [outcome EXCEPT ![t] = IF runner[r].ok THEN "ok" ELSE "err"]
         /\ client' = [c \in Clients |->
                         IF client[c].pc = "waiting" /\ client[c].ticket = t
                           THEN IdleClient ELSE client[c]]
  /\ barrier' = [b \in Barriers |->
                   IF runner[r].ok /\ barrier[b].pc \in {"check", "parked"}
                     THEN [barrier[b] EXCEPT !.notified = TRUE] ELSE barrier[b]]
  /\ DropHead(r)
  /\ UNCHANGED <<queueVars, waitVars, published>>

\* The rest of complete: the result is sent, waiting barriers are notified and
\* the permits of the request are dropped.
Notify(r) ==
  /\ runner[r].pc = "notify"
  /\ LET t == Head(runner[r].batch).ticket
     IN  /\ outcome' = [outcome EXCEPT ![t] = IF runner[r].ok THEN "ok" ELSE "err"]
         /\ client' = [c \in Clients |->
                         IF client[c].pc = "waiting" /\ client[c].ticket = t
                           THEN IdleClient ELSE client[c]]
  /\ barrier' = [b \in Barriers |->
                   IF barrier[b].pc \in {"check", "parked"}
                     THEN [barrier[b] EXCEPT !.notified = TRUE] ELSE barrier[b]]
  /\ DropHead(r)
  /\ UNCHANGED <<queueVars, waitVars, published>>

-----------------------------------------------------------------------------
(* Barriers: last_admitted_ticket, await_completed_through, writer_lock    *)

BarrierStart(b) ==
  /\ barrier[b].pc = "idle"
  /\ barrier' = [barrier EXCEPT ![b].pc = "enable", ![b].ticket = next]
  /\ UNCHANGED <<queueVars, permitVars, waitVars, client, runner, writerLock, resultVars>>

\* The notification is enabled before the completed ticket is read.
BarrierEnable(b) ==
  /\ barrier[b].pc = "enable"
  /\ barrier' = [barrier EXCEPT ![b].pc = "check", ![b].notified = FALSE]
  /\ UNCHANGED <<queueVars, permitVars, waitVars, client, runner, writerLock, resultVars>>

\* Mutant of BarrierCheck: the last admitted ticket is not waited for.
BarrierChecksBefore(b) ==
  /\ barrier[b].pc = "check"
  /\ IF completed + 1 >= barrier[b].ticket
       THEN /\ barrier' = [barrier EXCEPT ![b].pc = "lock"]
            /\ writerLock' = Append(writerLock, b)
       ELSE /\ barrier' = [barrier EXCEPT ![b].pc = "parked"]
            /\ UNCHANGED writerLock
  /\ UNCHANGED <<queueVars, permitVars, waitVars, client, runner, resultVars>>

BarrierCheck(b) ==
  /\ barrier[b].pc = "check"
  /\ IF completed >= barrier[b].ticket
       THEN /\ barrier' = [barrier EXCEPT ![b].pc = "lock"]
            /\ writerLock' = Append(writerLock, b)
       ELSE /\ barrier' = [barrier EXCEPT ![b].pc = "parked"]
            /\ UNCHANGED writerLock
  /\ UNCHANGED <<queueVars, permitVars, waitVars, client, runner, resultVars>>

BarrierWake(b) ==
  /\ barrier[b].pc = "parked"
  /\ barrier[b].notified
  /\ barrier' = [barrier EXCEPT ![b].pc = "enable"]
  /\ UNCHANGED <<queueVars, permitVars, waitVars, client, runner, writerLock, resultVars>>

\* The barrier holds the writer lock, does its work and releases the lock.
BarrierFinish(b) ==
  /\ barrier[b].pc = "lock"
  /\ HoldsLock(b)
  /\ barrier' = [barrier EXCEPT ![b] = IdleBarrier]
  /\ writerLock' = Tail(writerLock)
  /\ UNCHANGED <<queueVars, permitVars, waitVars, client, runner, resultVars>>

\* The future of the barrier is dropped at one of its awaits.
BarrierCancel(b) ==
  /\ barrier[b].pc \in {"parked", "lock"}
  /\ barrier' = [barrier EXCEPT ![b] = IdleBarrier]
  /\ writerLock' = SelectSeq(writerLock, LAMBDA p : p # b)
  /\ UNCHANGED <<queueVars, permitVars, waitVars, client, runner, resultVars>>

-----------------------------------------------------------------------------
ClientStep(c) == AcquireSlot(c) \/ AcquireBytes(c) \/ Enqueue(c)
RunnerStep(r) == DrainReady(r) \/ AppendGroup(r) \/ Complete(r) \/ Notify(r)
BarrierStep(b) ==
  BarrierEnable(b) \/ BarrierCheck(b) \/ BarrierWake(b) \/ BarrierFinish(b)

Next ==
  \/ \E c \in Clients : Submit(c) \/ ClientStep(c) \/ Cancel(c)
  \/ \E r \in Runners : RunnerStep(r)
  \/ \E b \in Barriers : BarrierStart(b) \/ BarrierStep(b) \/ BarrierCancel(b)

Spec == Init /\ [][Next]_vars

\* Spawned tasks and woken futures are polled again; nobody has to submit,
\* start a barrier or cancel.
Fairness ==
  /\ \A c \in Clients : WF_vars(ClientStep(c))
  /\ \A r \in Runners : WF_vars(RunnerStep(r))
  /\ \A b \in Barriers : WF_vars(BarrierStep(b))

FairSpec == Spec /\ Fairness

-----------------------------------------------------------------------------
(* Properties                                                              *)

Alive(r) == runner[r].pc # "none"

\* Type invariant: the fields of State, the permits and the program counters.
TypeOK ==
  /\ requests \in Seq(Request)
  /\ running \in BOOLEAN
  /\ next \in Nat /\ completed \in Nat
  /\ slots \in 0..MaxAdmitted /\ bytes \in 0..ByteBudget
  /\ slotWait \in Seq(Clients) /\ byteWait \in Seq(Clients)
  /\ client \in [Clients -> [pc : {"idle", "slot", "bytes", "admit", "waiting"},
                             weight : Weights \cup {0}, ticket : Nat]]
  /\ runner \in [Runners -> [pc : {"none", "drain", "append", "complete", "notify"},
                             batch : Seq(Request), ok : BOOLEAN]]
  /\ barrier \in [Barriers -> [pc : {"idle", "enable", "check", "parked", "lock"},
                               ticket : Nat, notified : BOOLEAN]]
  /\ writerLock \in Seq(Runners \cup Barriers)
  /\ published \in Seq(Nat)
  /\ outcome \in [1..MaxTicket -> {NoResult, "ok", "err", "lost"}]

\* The running flag is set exactly while a runner task is alive, and never two
\* of them: no queued request is stranded without a runner, and no two groups
\* are in flight at once.
SingleRunner ==
  /\ running <=> \E r \in Runners : Alive(r)
  /\ \A r, s \in Runners : Alive(r) /\ Alive(s) => r = s
  /\ requests # <<>> => running

\* The outstanding tickets are the batch of the runner followed by the queue,
\* consecutively from the completed ticket to the last admitted one, so complete
\* never meets its out-of-order error and loses a caller.
TicketsContiguous ==
  /\ \A r \in Runners : \A i \in 1..Len(runner[r].batch) :
       runner[r].batch[i].ticket = IF runner[r].pc = "notify" THEN completed + i - 1
                                                              ELSE completed + i
  /\ \A i \in 1..Len(requests) : requests[i].ticket = next - Len(requests) + i
  /\ (\A r \in Runners : runner[r].batch = <<>>) => next = completed + Len(requests)
  /\ \A t \in 1..MaxTicket : outcome[t] # "lost"

HeldSlots ==
  Cardinality({c \in Clients : client[c].pc \in {"bytes", "admit"}})
    + Len(requests) + FoldFunction(LAMBDA x, n : Len(x.batch) + n, 0, runner)

HeldBytes ==
  LET OfBatch(q) == FoldSeq(LAMBDA req, n : BytePermits(req.weight) + n, 0, q)
  IN  FoldFunction(LAMBDA x, n : (IF x.pc = "admit" THEN BytePermits(x.weight) ELSE 0) + n,
                   0, client)
        + OfBatch(requests)
        + FoldFunction(LAMBDA x, n : OfBatch(x.batch) + n, 0, runner)

\* Every permit is free or held by a caller, a queued request or the batch in
\* flight, whatever is cancelled or fails: admission never shrinks for good.
PermitsConserved ==
  /\ slots + HeldSlots = MaxAdmitted
  /\ bytes + HeldBytes = ByteBudget

\* A caller is told Ok only of records in the memtable and an error only of
\* records that are not, and the memtable is filled in ticket order.
AcksMatchMemtable ==
  /\ \A t \in 1..MaxTicket :
       /\ outcome[t] = "ok" => t \in ToSet(published)
       /\ outcome[t] = "err" => t \notin ToSet(published)
  /\ \A i, j \in 1..Len(published) : i < j => published[i] < published[j]

\* When a flush or await_pending_writes gets the writer lock, every request
\* admitted before it began has been answered and no group is half published.
BarrierSeesAdmitted ==
  \A b \in Barriers : barrier[b].pc = "lock" /\ HoldsLock(b) =>
    /\ \A t \in 1..barrier[b].ticket : outcome[t] \in {"ok", "err"}
    /\ \A r \in Runners : runner[r].pc \notin {"complete", "notify"}

\* Every admitted request is completed, even if its caller went away.
AdmittedCompletes ==
  \A t \in 1..MaxTicket : next >= t ~> completed >= t

\* A barrier gets past its wait: no wakeup is lost between the check of the
\* completed ticket and the notification.
BarrierReturns ==
  \A b \in Barriers : barrier[b].pc = "enable" ~> barrier[b].pc = "idle"

=============================================================================
