----------------------------- MODULE WorkerPool -----------------------------
(***************************************************************************)
(* The kernel worker pool (workers/pool.ts) and the script its workers run *)
(* (workers/kernel-worker-script.ts).                                      *)
(*                                                                         *)
(* The main thread keeps an array of slots, one worker each, and a map of  *)
(* pending requests per slot; a request has an id of its own and a timer.  *)
(* Workers answer by message.  A worker may crash or hang at any time; the *)
(* pool notices when a request to it times out, terminates it and spawns   *)
(* another.  An id is pending from the moment it is sent until an answer,  *)
(* its timer, a replacement of its slot or terminate() settles it.         *)
(*                                                                         *)
(* Main-thread code runs to completion up to its next await, so an action  *)
(* is a handler, or the part of an async function between two awaits.      *)
(***************************************************************************)
EXTENDS Integers, Sequences, FiniteSets

CONSTANTS
  Callers,     \* callers of the pool: each awaits one operation at a time
  Size,        \* numWorkers
  MaxCalls,    \* bound: kernel and meta requests ever sent
  MaxFaults    \* bound: workers that crash or hang, or cannot be created

ASSUME PoolAssumption ==
  /\ Size \in Nat \ {0}
  /\ MaxCalls \in Nat /\ MaxFaults \in Nat

\* A call costs the pool at most one worker, and a worker one init request.
MaxWorkers == Size + MaxCalls
MaxIds == MaxWorkers + MaxCalls
Workers == 1 .. MaxWorkers
Ids == 1 .. MaxIds
Positions == 1 .. Size
None == 0

VARIABLES
  phase,     \* creating, open, failed (create rejected) or terminated
  slots,     \* the worker of each slot
  spawning,  \* the positions whose createRawWorker is awaited
  rejected,  \* the positions whose last createRawWorker was rejected
  spawned,   \* how many workers have been spawned
  worker,    \* what each worker is doing
  boot,      \* the id of the init request of each worker
  pending,   \* the ids in the pending map of each worker's slot object
  timers,    \* the ids whose timer is armed
  outcome,   \* what became of the promise of each id
  nextId, nextSlot,
  op,        \* the ids of each caller's operation
  faults

pool == <<slots, spawning, rejected, spawned, boot, pending, timers, nextId, nextSlot, op>>
vars == <<phase, pool, worker, outcome, faults>>

NoWorker == [state |-> "none", wasm |-> "none", inbox |-> << >>, outbox |-> << >>, running |-> None]

Init ==
  /\ phase = "creating"
  /\ slots = [i \in Positions |-> None]
  /\ spawning = Positions /\ rejected = {} /\ spawned = 0
  /\ worker = [w \in Workers |-> NoWorker]
  /\ boot = [w \in Workers |-> None]
  /\ pending = [w \in Workers |-> {}]
  /\ timers = {}
  /\ outcome = [i \in Ids |-> "unsent"]
  /\ nextId = 1 /\ nextSlot = 1
  /\ op = [c \in Callers |-> {}]
  /\ faults = 0

Alive(w) == worker[w].state = "alive"
Waiting(i) == outcome[i] = "waiting"

\* Requests the pool sends on its own carry no timer.
Boots == {boot[w] : w \in Workers}
Calls == {i \in Ids : outcome[i] # "unsent"} \ Boots

\* Promise.all settles at the first rejection.
Awaits(c) == (\E i \in op[c] : Waiting(i)) /\ \A i \in op[c] : outcome[i] # "failed"

Fails(ids) == [i \in Ids |-> IF i \in ids THEN "failed" ELSE outcome[i]]

\* postMessage: a worker that is gone never sees it.
Posted(ws, w, i) == IF ws[w].state = "alive" THEN [ws EXCEPT ![w].inbox = Append(@, i)] ELSE ws
Stopped(r, how) == [r EXCEPT !.state = how, !.inbox = << >>, !.running = None]

-----------------------------------------------------------------------------
(* Spawning.                                                               *)

\* A new worker takes the slot at p and is sent its init request.
Occupy(p) ==
  LET w == spawned + 1 IN
  /\ spawned' = w
  /\ slots' = [slots EXCEPT ![p] = w]
  /\ spawning' = spawning \ {p}
  /\ worker' = [worker EXCEPT ![w] = [NoWorker EXCEPT !.state = "alive", !.inbox = <<nextId>>]]
  /\ boot' = [boot EXCEPT ![w] = nextId]
  /\ pending' = [pending EXCEPT ![w] = {nextId}]
  /\ outcome' = [outcome EXCEPT ![nextId] = "waiting"]
  /\ nextId' = nextId + 1
  /\ UNCHANGED <<phase, rejected, timers, nextSlot, op, faults>>

\* createRawWorker is rejected: nobody occupies the position.
Reject(p) ==
  /\ faults < MaxFaults /\ faults' = faults + 1
  /\ spawning' = spawning \ {p}
  /\ rejected' = rejected \cup {p}
  /\ UNCHANGED <<slots, spawned, worker, boot, pending, timers, outcome, nextId, nextSlot, op>>

\* addWorker: create pushes its slots in the order their workers come.
AddWorker ==
  /\ spawned < Size /\ spawned + 1 \in spawning
  /\ Occupy(spawned + 1)

\* One worker of create does not come, so that the last position stays empty;
\* create rejects, and the other workers are still added.
AddWorkerRejected(p) ==
  /\ spawned < Size /\ spawned + 1 \in spawning
  /\ p \in spawning /\ \A q \in spawning : q <= p
  /\ Reject(p)
  /\ phase' = "failed"

\* Mutant: the second half runs only while no timer is armed.
InstallStalls(p) ==
  /\ spawned >= Size /\ p \in spawning /\ timers # {}
  /\ Occupy(p)

\* The second half of replaceSlot, whether or not the pool still runs.
Install(p) ==
  /\ spawned >= Size /\ p \in spawning
  /\ Occupy(p)

\* Nobody hears that it was rejected: the slot keeps the worker it terminated,
\* and is replaced again when the next request to it times out.
InstallRejected(p) ==
  /\ spawned >= Size /\ p \in spawning
  /\ Reject(p)
  /\ UNCHANGED phase

CreateReturns ==
  /\ phase = "creating" /\ spawned >= Size
  /\ \A w \in 1 .. Size : outcome[boot[w]] = "answered"
  /\ phase' = "open"
  /\ UNCHANGED <<pool, worker, outcome, faults>>

CreateFails ==
  /\ phase = "creating"
  /\ \E w \in 1 .. Size : boot[w] # None /\ outcome[boot[w]] = "failed"
  /\ phase' = "failed"
  /\ UNCHANGED <<pool, worker, outcome, faults>>

-----------------------------------------------------------------------------
(* Sending.  sendKernel and sendMeta go round robin, the broadcasts to the *)
(* first slots.                                                            *)

\* Mutant: no timer is armed.
ArmedNever(sent) == timers

Armed(sent) == timers \cup sent

CallsSent == nextId - 1 - spawned

\* sendToSlot for each worker of ws.
Send(c, ws) ==
  /\ phase = "open" /\ ~Awaits(c)
  /\ CallsSent + Len(ws) <= MaxCalls
  /\ LET sent == nextId .. nextId + Len(ws) - 1
         idsOf(w) == {i \in sent : ws[i - nextId + 1] = w} IN
     /\ op' = [op EXCEPT ![c] = sent]
     /\ pending' = [w \in Workers |-> pending[w] \cup idsOf(w)]
     /\ timers' = Armed(sent)
     /\ worker' = [w \in Workers |->
          IF idsOf(w) = {} THEN worker[w] ELSE Posted(worker, w, CHOOSE i \in idsOf(w) : TRUE)[w]]
     /\ outcome' = [i \in Ids |-> IF i \in sent THEN "waiting" ELSE outcome[i]]
     /\ nextId' = nextId + Len(ws)
  /\ UNCHANGED <<phase, slots, spawning, rejected, spawned, boot, faults>>

SendKernel(c) ==
  /\ Send(c, <<slots[nextSlot]>>)
  /\ nextSlot' = (nextSlot % Size) + 1

\* One message per slot, for as many slots as there are entries in perSlot.
Broadcast(c, chunks) ==
  /\ Send(c, SubSeq(slots, 1, chunks))
  /\ UNCHANGED nextSlot

-----------------------------------------------------------------------------
(* Settling.                                                               *)

\* Mutant: the timer of an answered request stays armed.
ClearedNever(ids) == timers

Cleared(ids) == timers \ ids

\* Mutant: an answer is taken although its request is no longer pending.
KnownAlways(w, i) == TRUE

Known(w, i) == i \in pending[w]

HandleMessage(w) ==
  /\ worker[w].outbox # << >>
  /\ LET m == Head(worker[w].outbox) IN
     /\ worker' = [worker EXCEPT ![w].outbox = Tail(@)]
     /\ IF Known(w, m.id)
        THEN /\ pending' = [pending EXCEPT ![w] = @ \ {m.id}]
             /\ timers' = Cleared({m.id})
             /\ outcome' = [outcome EXCEPT ![m.id] = IF m.ok THEN "answered" ELSE "failed"]
        ELSE UNCHANGED <<pending, timers, outcome>>
  /\ UNCHANGED <<phase, slots, spawning, rejected, spawned, boot, nextId, nextSlot, op, faults>>

\* replaceSlot rejects whatever the slot still has pending, unless the slot was
\* replaced before.
Replaced(w, i) == IF w \in {slots[p] : p \in Positions} THEN pending[w] ELSE {i}

\* Mutant: a slot with other requests pending is not replaced.
ToSpawnOnlyWhenIdle(w) == IF Cardinality(pending[w]) > 1 THEN {} ELSE {p \in Positions : slots[p] = w}

ToSpawn(w) == {p \in Positions : slots[p] = w}

\* The timer of i fires: i is rejected and its slot replaced.  Equal timeouts
\* fire in the order they were armed, and a spawn takes less than a timeout.
TimerFires(i, w) ==
  /\ i \in timers /\ i \in pending[w]
  /\ \A j \in timers : i <= j
  /\ \A p \in spawning : slots[p] # w
  /\ worker' = [worker EXCEPT ![w] = Stopped(@, "terminated")]
  /\ outcome' = Fails(Replaced(w, i))
  /\ timers' = Cleared({i} \cup Replaced(w, i))
  /\ pending' = [pending EXCEPT ![w] = @ \ Replaced(w, i)]
  /\ spawning' = spawning \cup ToSpawn(w)
  /\ rejected' = rejected \ ToSpawn(w)
  /\ UNCHANGED <<phase, slots, spawned, boot, nextId, nextSlot, op, faults>>

Terminate ==
  LET staff == {slots[p] : p \in Positions}
      dropped == UNION {pending[w] : w \in staff \ {None}} IN
  /\ phase = "open"
  /\ phase' = "terminated"
  /\ outcome' = Fails(dropped)
  /\ timers' = Cleared(dropped)
  /\ pending' = [w \in Workers |-> pending[w] \ dropped]
  /\ worker' = [w \in Workers |-> IF w \in staff THEN Stopped(worker[w], "terminated") ELSE worker[w]]
  /\ slots' = [p \in Positions |-> None] /\ rejected' = {}
  /\ UNCHANGED <<spawning, spawned, boot, nextId, nextSlot, op, faults>>

-----------------------------------------------------------------------------
(* The worker script.                                                      *)

Reply(i, ok) == [id |-> i, ok |-> ok]

\* The next message is handled when no kernel runs.
Next(w) == Head(worker[w].inbox)
Handles(w) == Alive(w) /\ worker[w].inbox # << >> /\ worker[w].running = None

LoadStarts(w) ==
  /\ Handles(w) /\ Next(w) = boot[w]
  /\ worker' = [worker EXCEPT ![w].inbox = Tail(@), ![w].wasm = "loading"]
  /\ UNCHANGED <<phase, pool, outcome, faults>>

\* instantiate is asynchronous: other messages may be handled before it ends.
LoadEnds(w, ok) ==
  /\ Alive(w) /\ worker[w].wasm = "loading"
  /\ worker' = [worker EXCEPT ![w].wasm = IF ok THEN "loaded" ELSE "none",
                              ![w].outbox = Append(@, Reply(boot[w], ok))]
  /\ UNCHANGED <<phase, pool, outcome, faults>>

KernelRefused(w) ==
  /\ Handles(w) /\ Next(w) # boot[w] /\ worker[w].wasm # "loaded"
  /\ worker' = [worker EXCEPT ![w].inbox = Tail(@), ![w].outbox = Append(@, Reply(Next(w), FALSE))]
  /\ UNCHANGED <<phase, pool, outcome, faults>>

KernelStarts(w) ==
  /\ Handles(w) /\ Next(w) # boot[w] /\ worker[w].wasm = "loaded"
  /\ worker' = [worker EXCEPT ![w].inbox = Tail(@), ![w].running = Next(w)]
  /\ UNCHANGED <<phase, pool, outcome, faults>>

KernelEnds(w, ok) ==
  /\ Alive(w) /\ worker[w].running # None
  /\ worker' = [worker EXCEPT ![w].running = None,
                              ![w].outbox = Append(@, Reply(worker[w].running, ok))]
  /\ UNCHANGED <<phase, pool, outcome, faults>>

\* A worker exits, or hangs, without a message.
Crash(w) ==
  /\ Alive(w) /\ faults < MaxFaults
  /\ worker' = [worker EXCEPT ![w] = Stopped(@, "dead")]
  /\ faults' = faults + 1
  /\ UNCHANGED <<phase, pool, outcome>>

-----------------------------------------------------------------------------
WorkerStep(w) ==
  \/ LoadStarts(w) \/ KernelRefused(w) \/ KernelStarts(w)
  \/ \E ok \in BOOLEAN : LoadEnds(w, ok) \/ KernelEnds(w, ok)

Fires == \E i \in Ids, w \in Workers : TimerFires(i, w)

PoolNext ==
  \/ AddWorker \/ CreateReturns \/ CreateFails \/ Terminate \/ Fires
  \/ \E p \in Positions : Install(p) \/ InstallRejected(p) \/ AddWorkerRejected(p)
  \/ \E c \in Callers : SendKernel(c) \/ \E chunks \in 1 .. Size : Broadcast(c, chunks)
  \/ \E w \in Workers : HandleMessage(w) \/ WorkerStep(w) \/ Crash(w)

Spec == Init /\ [][PoolNext]_vars

\* The event loop runs timers, messages and continuations that are due; a
\* worker that did not crash goes on; a kernel returns.
FairSpec ==
  /\ Spec
  /\ WF_vars(Fires) /\ WF_vars(AddWorker) /\ WF_vars(CreateReturns) /\ WF_vars(CreateFails)
  /\ \A p \in Positions : WF_vars(Install(p))
  /\ \A w \in Workers : WF_vars(HandleMessage(w)) /\ WF_vars(WorkerStep(w))

-----------------------------------------------------------------------------
(* Properties.                                                             *)

Replies == [id : Ids, ok : BOOLEAN]

WorkerStates ==
  [state : {"none", "alive", "dead", "terminated"}, wasm : {"none", "loading", "loaded"},
   inbox : Seq(Ids), outbox : Seq(Replies), running : Ids \cup {None}]

\* Every variable ranges over its type.
TypeOK ==
  /\ phase \in {"creating", "open", "failed", "terminated"}
  /\ slots \in [Positions -> Workers \cup {None}]
  /\ spawning \subseteq Positions /\ rejected \subseteq Positions /\ spawned \in 0 .. MaxWorkers
  /\ worker \in [Workers -> WorkerStates]
  /\ boot \in [Workers -> Ids \cup {None}]
  /\ pending \in [Workers -> SUBSET Ids] /\ timers \subseteq Ids
  /\ outcome \in [Ids -> {"unsent", "waiting", "answered", "failed"}]
  /\ nextId \in 1 .. MaxIds + 1 /\ nextSlot \in Positions
  /\ op \in [Callers -> SUBSET Ids] /\ faults \in 0 .. MaxFaults

\* No request is lost and no timer is stray: a request waits exactly while one
\* slot has it pending, and a call waits exactly while its timer is armed, so a
\* timer can never replace a worker that answered.
WaitingIsWatched ==
  /\ \A w, x \in Workers : w # x => pending[w] \cap pending[x] = {}
  /\ {i \in Ids : Waiting(i)} = UNION {pending[w] : w \in Workers}
  /\ timers = {i \in Calls : Waiting(i)}

\* Ids are given out in order, and each worker has an init request of its own.
IdsInOrder ==
  /\ \A i \in Ids : outcome[i] = "unsent" <=> i >= nextId
  /\ \A w \in Workers : IF w <= spawned THEN boot[w] \in 1 .. nextId - 1 ELSE boot[w] = None
  /\ \A v, w \in 1 .. spawned : boot[v] = boot[w] => v = w

\* No worker has two slots and no slot a worker that was never started; the
\* worker of a slot was terminated exactly while its replacement is on its way
\* or was rejected; and whoever is alive has a slot.
Staffing ==
  /\ \A w \in Workers : worker[w].state = "none" <=> w > spawned
  /\ \A w \in Workers : w > spawned => pending[w] = {}
  /\ \A p \in Positions : slots[p] <= spawned
  /\ \A p, q \in Positions : slots[p] = slots[q] /\ slots[p] # None => p = q
  /\ spawning \cap rejected = {}
  /\ \A p \in Positions : slots[p] # None =>
       (worker[slots[p]].state = "terminated" <=> p \in spawning \cup rejected)
  /\ \A w \in Workers : Alive(w) => \E p \in Positions : slots[p] = w
  /\ \A p \in Positions : p > spawned => slots[p] = None /\ p \in spawning \cup rejected
  /\ \A p \in Positions : p <= spawned /\ phase # "terminated" => slots[p] # None
  /\ phase \in {"open", "terminated"} => spawned >= Size

\* A worker is replaced only for a call that failed, so that calls bound the
\* workers ever started.
LossesPaid ==
  /\ CallsSent \in 0 .. MaxCalls
  /\ spawned + Cardinality(spawning) <= Size + Cardinality({i \in Calls : outcome[i] = "failed"})

\* What every handler preserves: requests, slots and timers agree, and each
\* variable ranges over its type.
PoolInv == TypeOK /\ WaitingIsWatched /\ IdsInOrder /\ Staffing /\ LossesPaid

\* While the pool is open, every position has a worker that was not terminated,
\* or a replacement on its way unless createRawWorker was rejected for it, and
\* no live worker is outside the pool.
FullyStaffed ==
  phase = "open" =>
    /\ \A p \in Positions : worker[slots[p]].state = "terminated" <=> p \in spawning \cup rejected
    /\ \A w \in Workers : Alive(w) => \E p \in Positions : slots[p] = w

\* What a request came to never changes: an answer that arrives after the timer,
\* or a timer that fires after the answer, has no effect.
SettledOnce ==
  [][\A i \in Ids : outcome[i] \in {"answered", "failed"} => outcome'[i] = outcome[i]]_vars

\* Every call settles, whatever crashes.
EveryCallSettles == \A i \in Ids : (i \in Calls /\ Waiting(i)) ~> ~Waiting(i)

Staffed(p) == slots[p] # None /\ worker[slots[p]].state # "terminated"
Asked(p) == slots[p] # None /\ pending[slots[p]] # {}

\* A position whose worker was terminated gets another, unless createRawWorker
\* is rejected; and then it is tried again once the position is sent a request.
EveryLossReplaced ==
  \A p \in Positions :
    /\ p \in spawning ~> Staffed(p) \/ p \in rejected
    /\ (p \in rejected /\ Asked(p)) ~> p \notin rejected

\* create settles.
CreateSettles == <>(phase # "creating")
=============================================================================
