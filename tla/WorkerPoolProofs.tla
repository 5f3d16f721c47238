-------------------------- MODULE WorkerPoolProofs --------------------------
(***************************************************************************)
(* Proofs about WorkerPool, for any number of callers, workers, calls and  *)
(* crashes.                                                                *)
(***************************************************************************)
EXTENDS WorkerPool, FiniteSetTheorems, FunctionTheorems, SequenceTheorems, TLAPS

-----------------------------------------------------------------------------
(* Facts about the constants and about counting.                           *)

LEMMA Bounds ==
  /\ MaxWorkers \in Nat /\ MaxIds \in Nat /\ Size \in Nat /\ Size >= 1
  /\ Size <= MaxWorkers /\ MaxWorkers <= MaxIds
  /\ Positions \subseteq Workers /\ None \notin Workers /\ None \notin Ids /\ None \notin Positions
  /\ MaxWorkers = Size + MaxCalls /\ MaxIds = MaxWorkers + MaxCalls
BY PoolAssumption DEF MaxWorkers, MaxIds, Positions, Workers, Ids, None

\* Every id below nextId belongs to a call or to one worker's init request.
LEMMA CallsCounted ==
  ASSUME TypeOK, IdsInOrder
  PROVE  /\ IsFiniteSet(Calls) /\ Cardinality(Calls) = CallsSent
         /\ Calls = {i \in 1 .. nextId - 1 : \A w \in 1 .. spawned : boot[w] # i}
<1>1. nextId \in 1 .. MaxIds + 1 /\ spawned \in 0 .. MaxWorkers /\ boot \in [Workers -> Ids \cup {None}]
  BY DEF TypeOK
<1>2. \A w \in 1 .. spawned : w \in Workers /\ boot[w] \in 1 .. nextId - 1
  BY <1>1, Bounds DEF IdsInOrder, Workers
<1> DEFINE U == 1 .. spawned
           B == {boot[w] : w \in U}
           f == [w \in U |-> boot[w]]
<1>3. Calls = (1 .. nextId - 1) \ B
  <2>1. \A i \in Ids : outcome[i] # "unsent" <=> i \in 1 .. nextId - 1
    BY <1>1, Bounds DEF IdsInOrder, Ids
  <2>2. \A i \in 1 .. nextId - 1 : i \in Ids
    BY <1>1, Bounds DEF Ids
  <2>3. \A i \in 1 .. nextId - 1 : i \in Boots <=> i \in B
    <3> TAKE i \in 1 .. nextId - 1
    <3>1. \A w \in Workers : w \in U \/ boot[w] = None
      BY <1>1, Bounds DEF IdsInOrder, Workers
    <3>2. i # None
      BY <1>1 DEF None
    <3> QED BY <1>2, <3>1, <3>2 DEF Boots
  <2> QED BY <2>1, <2>2, <2>3 DEF Calls
<1>4. IsFiniteSet(B) /\ Cardinality(B) = spawned
  <2>1. f \in Bijection(U, B)
    <3>1. f \in [U -> B]
      OBVIOUS
    <3>2. \A v, w \in U : f[v] = f[w] => v = w
      BY DEF IdsInOrder
    <3>3. \A b \in B : \E w \in U : f[w] = b
      OBVIOUS
    <3> QED BY <3>1, <3>2, <3>3, Fun_IsBij
  <2>2. ExistsBijection(U, B)
    BY <2>1 DEF ExistsBijection
  <2>3. IsFiniteSet(U) /\ Cardinality(U) = spawned
    <3>1. 1 \in Int /\ spawned \in Int /\ spawned >= 0
      BY <1>1, Bounds
    <3> QED BY <3>1, FS_Interval
  <2> HIDE DEF U, B
  <2> QED BY <2>2, <2>3, FS_Bijection
<1>5. IsFiniteSet(1 .. nextId - 1) /\ Cardinality(1 .. nextId - 1) = nextId - 1
  <2>1. 1 \in Int /\ nextId - 1 \in Int /\ nextId - 1 >= 0
    BY <1>1, Bounds
  <2> QED BY <2>1, FS_Interval
<1>6. (1 .. nextId - 1) \cap B = B
  BY <1>2
<1>7. IsFiniteSet(Calls) /\ Cardinality(Calls) = nextId - 1 - spawned
  <2>1. IsFiniteSet(Calls) /\ Cardinality(Calls) = Cardinality(1 .. nextId - 1) - Cardinality((1 .. nextId - 1) \cap B)
    BY <1>3, <1>5, FS_Difference, Zenon
  <2> QED BY <2>1, <1>4, <1>5, <1>6
<1> QED BY <1>3, <1>7 DEF CallsSent

LEMMA FailedCounted ==
  ASSUME PoolInv
  PROVE  LET failed == {i \in Calls : outcome[i] = "failed"} IN
         IsFiniteSet(failed) /\ Cardinality(failed) \in Nat /\ Cardinality(failed) <= CallsSent
<1> DEFINE failed == {i \in Calls : outcome[i] = "failed"}
<1>1. IsFiniteSet(Calls) /\ Cardinality(Calls) = CallsSent
  BY CallsCounted DEF PoolInv
<1>2. failed \in SUBSET Calls
  OBVIOUS
<1> HIDE DEF failed
<1>3. IsFiniteSet(failed) /\ Cardinality(failed) <= Cardinality(Calls)
  BY <1>1, <1>2, FS_Subset
<1>4. Cardinality(failed) \in Nat
  BY <1>3, FS_CardinalityType
<1> QED BY <1>1, <1>3, <1>4 DEF failed

-----------------------------------------------------------------------------
(* The worker script: nothing but the state of workers changes, and no     *)
(* worker is started or terminated.                                        *)

LEMMA WorkerOnly ==
  ASSUME PoolInv, UNCHANGED <<phase, pool, outcome>>, faults' \in 0 .. MaxFaults,
         worker' \in [Workers -> WorkerStates],
         \A w \in Workers : worker'[w].state = worker[w].state \/ (Alive(w) /\ worker'[w].state = "dead")
  PROVE  PoolInv'
<1>1. TypeOK'
  BY DEF PoolInv, TypeOK, pool
<1>2. WaitingIsWatched' /\ IdsInOrder' /\ LossesPaid'
  BY DEF PoolInv, WaitingIsWatched, IdsInOrder, LossesPaid, CallsSent, Calls, Boots, Waiting, pool
<1>3. Staffing'
  <2>1. \A p \in Positions : slots[p] # None => slots[p] \in Workers
    BY DEF PoolInv, TypeOK
  <2> QED BY <2>1 DEF PoolInv, Staffing, Alive, pool
<1> QED BY <1>1, <1>2, <1>3 DEF PoolInv

LEMMA Crashes ==
  ASSUME PoolInv, NEW w \in Workers, Crash(w)
  PROVE  PoolInv'
<1>1. worker \in [Workers -> WorkerStates] /\ faults \in 0 .. MaxFaults
  BY DEF PoolInv, TypeOK
<1>2. << >> \in Seq(Ids)
  BY EmptySeq
<1>3. Stopped(worker[w], "dead") \in WorkerStates
  BY <1>1, <1>2 DEF Stopped, WorkerStates
<1>4. worker' \in [Workers -> WorkerStates]
  BY <1>1, <1>3 DEF Crash
<1>5. \A x \in Workers : worker'[x].state = worker[x].state \/ (Alive(x) /\ worker'[x].state = "dead")
  BY <1>1 DEF Crash, Stopped, WorkerStates, Alive
<1>6. faults' \in 0 .. MaxFaults
  BY <1>1, PoolAssumption DEF Crash
<1> QED BY <1>4, <1>5, <1>6, WorkerOnly DEF Crash

\* The head of an inbox is an id, and an answer may be appended to an outbox.
LEMMA Queues ==
  ASSUME TypeOK, NEW w \in Workers
  PROVE  /\ worker[w] \in WorkerStates
         /\ worker[w].inbox # << >> => Head(worker[w].inbox) \in Ids /\ Tail(worker[w].inbox) \in Seq(Ids)
         /\ worker[w].outbox # << >> =>
              Head(worker[w].outbox) \in Replies /\ Tail(worker[w].outbox) \in Seq(Replies)
         /\ \A i \in Ids, ok \in BOOLEAN : Append(worker[w].outbox, Reply(i, ok)) \in Seq(Replies)
         /\ \A i \in Ids : Append(worker[w].inbox, i) \in Seq(Ids)
<1>1. worker[w] \in WorkerStates
  BY DEF TypeOK
<1>2. worker[w].inbox \in Seq(Ids) /\ worker[w].outbox \in Seq(Replies)
  BY <1>1 DEF WorkerStates
<1>3. \A i \in Ids, ok \in BOOLEAN : Reply(i, ok) \in Replies
  BY DEF Reply, Replies
<1> QED BY <1>1, <1>2, <1>3, HeadTailProperties, AppendProperties

LEMMA WorkerSteps ==
  ASSUME PoolInv, NEW w \in Workers, WorkerStep(w)
  PROVE  PoolInv'
<1>1. worker \in [Workers -> WorkerStates] /\ boot \in [Workers -> Ids \cup {None}] /\ faults \in 0 .. MaxFaults
  BY DEF PoolInv, TypeOK
<1>2. TypeOK
  BY DEF PoolInv
<1>3. boot[w] # None <=> w <= spawned
  BY Bounds DEF PoolInv, IdsInOrder, TypeOK, Workers, None
<1>4. Alive(w) => boot[w] \in Ids
  BY <1>1, <1>3, Bounds DEF Alive, PoolInv, Staffing, TypeOK, Workers
<1>5. SUFFICES /\ UNCHANGED <<phase, pool, outcome, faults>>
               /\ worker' \in [Workers -> WorkerStates]
               /\ \A x \in Workers : worker'[x].state = worker[x].state
  BY <1>1, WorkerOnly
<1>6. CASE LoadStarts(w)
  BY <1>1, <1>2, <1>6, Queues DEF LoadStarts, Handles, WorkerStates
<1>7. CASE KernelRefused(w)
  <2>1. Append(worker[w].outbox, Reply(Next(w), FALSE)) \in Seq(Replies) /\ Tail(worker[w].inbox) \in Seq(Ids)
    BY <1>2, <1>7, Queues DEF KernelRefused, Handles, Next
  <2> QED BY <1>1, <1>2, <1>7, <2>1, Queues DEF KernelRefused, WorkerStates
<1>8. CASE KernelStarts(w)
  BY <1>1, <1>2, <1>8, Queues DEF KernelStarts, Handles, WorkerStates, Next
<1>9. ASSUME NEW ok \in BOOLEAN, LoadEnds(w, ok)
      PROVE  /\ UNCHANGED <<phase, pool, outcome, faults>>
             /\ worker' \in [Workers -> WorkerStates]
             /\ \A x \in Workers : worker'[x].state = worker[x].state
  BY <1>1, <1>2, <1>4, <1>9, Queues DEF LoadEnds, WorkerStates
<1>10. ASSUME NEW ok \in BOOLEAN, KernelEnds(w, ok)
       PROVE  /\ UNCHANGED <<phase, pool, outcome, faults>>
              /\ worker' \in [Workers -> WorkerStates]
              /\ \A x \in Workers : worker'[x].state = worker[x].state
  BY <1>1, <1>2, <1>10, Queues DEF KernelEnds, WorkerStates
<1> QED BY <1>6, <1>7, <1>8, <1>9, <1>10 DEF WorkerStep

-----------------------------------------------------------------------------
(* Spawning.                                                               *)

\* There is room for a replacement and for its init request.
LEMMA RoomToSpawn ==
  ASSUME PoolInv, NEW p \in spawning
  PROVE  /\ spawned + 1 \in Workers /\ nextId \in Ids
         /\ IsFiniteSet(spawning) /\ Cardinality(spawning) \in Nat
         /\ Cardinality(spawning \ {p}) = Cardinality(spawning) - 1
<1>1. spawning \subseteq Positions /\ spawned \in 0 .. MaxWorkers /\ nextId \in 1 .. MaxIds + 1
  BY DEF PoolInv, TypeOK
<1>2. IsFiniteSet(Positions)
  BY Bounds, FS_Interval DEF Positions
<1>3. IsFiniteSet(spawning)
  BY <1>1, <1>2, FS_Subset
<1>4. Cardinality(spawning) \in Nat /\ Cardinality(spawning) # 0
  BY <1>3, FS_CardinalityType, FS_EmptySet
<1>5. Cardinality(spawning \ {p}) = Cardinality(spawning) - 1
  BY <1>3, FS_RemoveElement
<1> DEFINE failed == {i \in Calls : outcome[i] = "failed"}
<1>6. Cardinality(failed) \in Nat /\ Cardinality(failed) <= CallsSent
  BY FailedCounted
<1>7. CallsSent <= MaxCalls /\ CallsSent \in Nat /\ spawned + Cardinality(spawning) <= Size + Cardinality(failed)
  BY PoolAssumption DEF PoolInv, LossesPaid
<1> HIDE DEF failed
<1>8. spawned + 1 <= MaxWorkers
  BY <1>1, <1>4, <1>6, <1>7, Bounds, PoolAssumption
<1>9. nextId = CallsSent + spawned + 1
  BY <1>1, Bounds DEF CallsSent
<1>10. nextId <= MaxIds
  BY <1>1, <1>7, <1>8, <1>9, Bounds, PoolAssumption
<1> QED BY <1>1, <1>3, <1>4, <1>5, <1>8, <1>10, Bounds DEF Workers, Ids

LEMMA Occupies ==
  ASSUME PoolInv, NEW p \in spawning, Occupy(p), UNCHANGED <<phase, faults>>,
         spawned >= Size \/ p = spawned + 1
  PROVE  PoolInv'
<1> DEFINE w == spawned + 1
<1>1. w \in Workers /\ nextId \in Ids /\ Cardinality(spawning \ {p}) = Cardinality(spawning) - 1
      /\ Cardinality(spawning) \in Nat
  BY RoomToSpawn
<1>2. TypeOK /\ p \in Positions /\ p \in Workers
  BY Bounds DEF PoolInv, TypeOK
<1>3. outcome[nextId] = "unsent" /\ boot[w] = None /\ pending[w] = {}
  BY <1>1, <1>2 DEF PoolInv, IdsInOrder, Staffing, TypeOK, Workers, Ids
<1>4. /\ spawned' = w /\ slots' = [slots EXCEPT ![p] = w] /\ spawning' = spawning \ {p}
      /\ worker' = [worker EXCEPT ![w] = [NoWorker EXCEPT !.state = "alive", !.inbox = <<nextId>>]]
      /\ boot' = [boot EXCEPT ![w] = nextId] /\ pending' = [pending EXCEPT ![w] = {nextId}]
      /\ outcome' = [outcome EXCEPT ![nextId] = "waiting"] /\ nextId' = nextId + 1
      /\ UNCHANGED <<phase, rejected, timers, nextSlot, op, faults>>
  BY DEF Occupy
<1> HIDE DEF w
<1>5. TypeOK'
  <2>1. <<nextId>> \in Seq(Ids) /\ << >> \in Seq(Replies)
    BY <1>1
  <2>2. [NoWorker EXCEPT !.state = "alive", !.inbox = <<nextId>>] \in WorkerStates
    BY <2>1 DEF NoWorker, WorkerStates
  <2>3. spawned' \in 0 .. MaxWorkers /\ nextId' \in 1 .. MaxIds + 1
    BY <1>1, <1>4, Bounds DEF Workers, Ids
  <2> QED BY <1>1, <1>2, <1>4, <2>2, <2>3 DEF TypeOK
<1>6. Calls' = Calls
  <2>1. Boots' = (Boots \ {None}) \cup {nextId} \/ Boots' = Boots \cup {nextId}
    BY <1>1, <1>2, <1>3, <1>4 DEF Boots, TypeOK
  <2>2. None \notin Ids
    BY Bounds
  <2> QED BY <1>1, <1>2, <1>3, <1>4, <2>1, <2>2 DEF Calls, TypeOK
<1>7. nextId \notin Calls
  BY <1>3 DEF Calls
<1>8. WaitingIsWatched'
  <2>1. \A v \in Workers : nextId \notin pending[v]
    BY <1>1, <1>3 DEF PoolInv, WaitingIsWatched, Waiting
  <2>2. \A u, v \in Workers : u # v => pending'[u] \cap pending'[v] = {}
    BY <1>1, <1>2, <1>4, <2>1 DEF PoolInv, WaitingIsWatched, TypeOK
  <2>3. {i \in Ids : Waiting(i)}' = {i \in Ids : Waiting(i)} \cup {nextId}
    BY <1>1, <1>2, <1>4 DEF Waiting, TypeOK
  <2>4. (UNION {pending[v] : v \in Workers})' = (UNION {pending[v] : v \in Workers}) \cup {nextId}
    BY <1>1, <1>2, <1>3, <1>4 DEF TypeOK
  <2>5. {i \in Calls : Waiting(i)}' = {i \in Calls : Waiting(i)}
    BY <1>1, <1>2, <1>4, <1>6, <1>7 DEF Waiting, TypeOK
  <2> QED BY <1>4, <2>2, <2>3, <2>4, <2>5 DEF PoolInv, WaitingIsWatched
<1>9. IdsInOrder'
  <2>1. spawned \in 0 .. MaxWorkers /\ nextId \in 1 .. MaxIds + 1 /\ w = spawned + 1
    BY <1>2 DEF TypeOK, w
  <2>2. \A i \in Ids : outcome'[i] = "unsent" <=> i >= nextId'
    BY <1>1, <1>2, <1>4, <2>1, Bounds DEF PoolInv, IdsInOrder, TypeOK, Ids
  <2>3. \A v \in Workers : IF v <= spawned' THEN boot'[v] \in 1 .. nextId' - 1 ELSE boot'[v] = None
    BY <1>1, <1>2, <1>4, <2>1, Bounds DEF PoolInv, IdsInOrder, TypeOK, Ids, Workers
  <2>4. \A u, v \in 1 .. spawned' : boot'[u] = boot'[v] => u = v
    <3>1. \A v \in 1 .. spawned : boot'[v] = boot[v] /\ boot[v] \in 1 .. nextId - 1
      BY <1>2, <1>4, <2>1, Bounds DEF PoolInv, IdsInOrder, TypeOK, Workers
    <3>2. boot'[w] = nextId
      BY <1>1, <1>2, <1>4 DEF TypeOK
    <3> QED BY <1>4, <2>1, <3>1, <3>2, Bounds DEF PoolInv, IdsInOrder
  <2> QED BY <2>2, <2>3, <2>4 DEF IdsInOrder
<1>10. Staffing'
  <2>1. spawned \in 0 .. MaxWorkers /\ w = spawned + 1
    BY <1>2 DEF TypeOK, w
  <2>2. worker'[w].state = "alive" /\ \A v \in Workers : v # w => worker'[v] = worker[v]
    BY <1>1, <1>2, <1>4 DEF TypeOK, NoWorker
  <2>3. slots'[p] = w /\ \A q \in Positions : q # p => slots'[q] = slots[q]
    BY <1>2, <1>4 DEF TypeOK
  <2>4. \A q \in Positions : slots[q] \in 0 .. spawned /\ (slots[q] # None => slots[q] \in Workers)
    BY <1>2, <2>1, Bounds DEF PoolInv, Staffing, TypeOK, Workers, None
  <2>5. \A q \in Positions : slots'[q] = w => q = p
    BY <2>1, <2>3, <2>4, Bounds
  <2>6. \A v \in Workers : Alive(v)' => \E q \in Positions : slots'[q] = v
    <3> SUFFICES ASSUME NEW v \in Workers, v # w, Alive(v)
                 PROVE  \E q \in Positions : slots'[q] = v
      BY <1>2, <2>2, <2>3 DEF Alive
    <3>1. PICK q \in Positions : slots[q] = v
      BY DEF PoolInv, Staffing
    <3>2. q # p
      BY <1>2, <3>1, Bounds DEF PoolInv, Staffing, Alive
    <3> QED BY <2>3, <3>1, <3>2
  <2>7. \A v \in Workers : worker'[v].state = "none" <=> v > spawned'
    BY <1>1, <1>4, <2>1, <2>2, Bounds DEF PoolInv, Staffing, Workers
  <2>8. \A v \in Workers : v > spawned' => pending'[v] = {}
    BY <1>1, <1>2, <1>4, <2>1, Bounds DEF PoolInv, Staffing, Workers, TypeOK
  <2>9. \A q \in Positions : slots'[q] <= spawned'
    BY <1>4, <2>1, <2>3, <2>4, Bounds
  <2>10. \A q, r \in Positions : slots'[q] = slots'[r] /\ slots'[q] # None => q = r
    BY <2>3, <2>5 DEF PoolInv, Staffing
  <2>11. \A q \in Positions : slots'[q] # None => (worker'[slots'[q]].state = "terminated" <=> q \in spawning' \cup rejected')
    BY <1>2, <1>4, <2>2, <2>3, <2>4, <2>5 DEF PoolInv, Staffing
  <2>12. \A q \in Positions : q > spawned' => slots'[q] = None /\ q \in spawning' \cup rejected'
    BY <1>2, <1>4, <2>1, <2>3, Bounds DEF PoolInv, Staffing, Positions
  <2>13. \A q \in Positions : q <= spawned' /\ phase' # "terminated" => slots'[q] # None
    BY <1>1, <1>2, <1>4, <2>1, <2>3, Bounds DEF PoolInv, Staffing, Positions
  <2>14. phase' \in {"open", "terminated"} => spawned' >= Size
    BY <1>4, <2>1, Bounds DEF PoolInv, Staffing
  <2>15. spawning' \cap rejected' = {}
    BY <1>4 DEF PoolInv, Staffing
  <2> QED BY <2>15, <2>6, <2>7, <2>8, <2>9, <2>10, <2>11, <2>12, <2>13, <2>14 DEF Staffing
<1>11. LossesPaid'
  <2>1. CallsSent' = CallsSent
    BY <1>2, <1>4, Bounds DEF CallsSent, w, TypeOK
  <2>2. {i \in Calls : outcome[i] = "failed"}' = {i \in Calls : outcome[i] = "failed"}
    BY <1>1, <1>2, <1>4, <1>6, <1>7 DEF TypeOK
  <2>3. Cardinality({i \in Calls : outcome[i] = "failed"}) \in Nat
    BY FailedCounted
  <2>4. spawned' + Cardinality(spawning') = spawned + Cardinality(spawning)
    BY <1>1, <1>2, <1>4, Bounds DEF w, TypeOK
  <2> QED BY <2>1, <2>2, <2>4 DEF PoolInv, LossesPaid
<1> QED BY <1>5, <1>8, <1>9, <1>10, <1>11 DEF PoolInv

LEMMA Spawns ==
  ASSUME PoolInv, AddWorker \/ \E p \in Positions : Install(p)
  PROVE  PoolInv'
<1>1. CASE AddWorker
  <2>1. spawned + 1 \in spawning /\ Occupy(spawned + 1) /\ UNCHANGED <<phase, faults>>
    BY <1>1 DEF AddWorker, Occupy
  <2> QED BY <2>1, Occupies
<1>2. ASSUME NEW p \in Positions, Install(p)
      PROVE  PoolInv'
  <2>1. p \in spawning /\ spawned >= Size /\ Occupy(p) /\ UNCHANGED <<phase, faults>>
    BY <1>2 DEF Install, Occupy
  <2> QED BY <2>1, Occupies
<1> QED BY <1>1, <1>2

\* A position whose worker was not created, in create or in a replacement.
LEMMA Rejects ==
  ASSUME PoolInv, NEW p \in Positions, InstallRejected(p) \/ AddWorkerRejected(p)
  PROVE  PoolInv'
<1>1. /\ p \in spawning /\ Reject(p) /\ phase' \in {phase, "failed"}
      /\ spawned >= Size \/ (spawned < Size /\ spawned + 1 \in spawning /\ spawned + 1 <= p)
      /\ phase' = phase \/ spawned < Size
  BY DEF InstallRejected, AddWorkerRejected
<1>2. /\ faults < MaxFaults /\ faults' = faults + 1
      /\ spawning' = spawning \ {p} /\ rejected' = rejected \cup {p}
      /\ UNCHANGED <<slots, spawned, worker, boot, pending, timers, outcome, nextId, nextSlot, op>>
  BY <1>1 DEF Reject
<1>3. TypeOK /\ spawned \in Nat
  BY Bounds DEF PoolInv, TypeOK
<1>4. TypeOK'
  <2>1. faults' \in 0 .. MaxFaults
    BY <1>2, <1>3, PoolAssumption DEF TypeOK
  <2> QED BY <1>1, <1>2, <1>3, <2>1 DEF TypeOK
<1>5. WaitingIsWatched' /\ IdsInOrder'
  BY <1>2 DEF PoolInv, WaitingIsWatched, IdsInOrder, Calls, Boots, Waiting
<1>6. LossesPaid'
  <2>1. /\ Cardinality(spawning) \in Nat /\ Cardinality(spawning') = Cardinality(spawning) - 1
    BY <1>1, <1>2, RoomToSpawn
  <2>2. CallsSent' = CallsSent /\ {i \in Calls : outcome[i] = "failed"}' = {i \in Calls : outcome[i] = "failed"}
    BY <1>2 DEF CallsSent, Calls, Boots
  <2>3. Cardinality({i \in Calls : outcome[i] = "failed"}) \in Nat
    BY FailedCounted
  <2> QED BY <1>2, <1>3, <2>1, <2>2, <2>3, Bounds DEF PoolInv, LossesPaid
<1>7. Staffing'
  <2>1. spawning' \cup rejected' = spawning \cup rejected /\ spawning' \cap rejected' = {}
    BY <1>1, <1>2 DEF PoolInv, Staffing
  <2>2. phase' = "terminated" => phase = "terminated"
    BY <1>1
  <2>3. phase' \in {"open", "terminated"} => phase \in {"open", "terminated"}
    BY <1>1
  <2>4. \A w \in Workers : Alive(w)' <=> Alive(w)
    BY <1>2 DEF Alive
  <2>5. \A q \in Positions : q <= spawned /\ phase' # "terminated" => slots[q] # None
    <3>1. spawned < Size => phase # "terminated"
      BY <1>3, Bounds DEF PoolInv, Staffing
    <3> QED BY <1>1, <3>1, Bounds, <1>3 DEF PoolInv, Staffing
  <2> QED BY <1>2, <2>1, <2>2, <2>3, <2>4, <2>5 DEF PoolInv, Staffing
<1> QED BY <1>4, <1>5, <1>6, <1>7 DEF PoolInv

LEMMA Creates ==
  ASSUME PoolInv, CreateReturns \/ CreateFails
  PROVE  PoolInv'
<1>1. phase = "creating" /\ phase' \in {"open", "failed"} /\ (phase' = "open" => spawned >= Size)
      /\ UNCHANGED <<pool, worker, outcome, faults>>
  BY DEF CreateReturns, CreateFails
<1>2. TypeOK'
  BY <1>1 DEF PoolInv, TypeOK, pool
<1>3. WaitingIsWatched' /\ IdsInOrder' /\ LossesPaid'
  BY <1>1 DEF PoolInv, WaitingIsWatched, IdsInOrder, LossesPaid, CallsSent, Calls, Boots, Waiting, pool
<1>4. Staffing'
  BY <1>1 DEF PoolInv, Staffing, Alive, pool
<1> QED BY <1>2, <1>3, <1>4 DEF PoolInv

-----------------------------------------------------------------------------
(* Sending.                                                                *)

\* Each entry of ws is a slot's worker.
LEMMA Sends ==
  ASSUME PoolInv, NEW c \in Callers, NEW n \in 1 .. Size, NEW ws,
         Len(ws) = n, \A k \in 1 .. n : ws[k] \in {slots[p] : p \in Positions},
         Send(c, ws), nextSlot' \in Positions
  PROVE  PoolInv'
<1> DEFINE sent == nextId .. nextId + n - 1
           idsOf(w) == {i \in sent : ws[i - nextId + 1] = w}
<1>1. TypeOK /\ phase = "open" /\ spawned >= Size
  BY DEF PoolInv, Staffing, Send
<1>2. \A p \in Positions : slots[p] \in Workers /\ slots[p] <= spawned
  <2> TAKE p \in Positions
  <2>1. p \in 1 .. Size /\ spawned \in Nat /\ p <= spawned
    BY <1>1, Bounds DEF TypeOK, Positions
  <2>2. phase # "terminated"
    BY <1>1
  <2> QED BY <1>1, <2>1, <2>2 DEF PoolInv, Staffing, TypeOK
<1>3. /\ op' = [op EXCEPT ![c] = sent]
      /\ pending' = [w \in Workers |-> pending[w] \cup idsOf(w)]
      /\ timers' = timers \cup sent
      /\ worker' = [w \in Workers |->
           IF idsOf(w) = {} THEN worker[w] ELSE Posted(worker, w, CHOOSE i \in idsOf(w) : TRUE)[w]]
      /\ outcome' = [i \in Ids |-> IF i \in sent THEN "waiting" ELSE outcome[i]]
      /\ nextId' = nextId + n /\ CallsSent + n <= MaxCalls
      /\ UNCHANGED <<phase, slots, spawning, rejected, spawned, boot, faults>>
  BY DEF Send, Armed
<1>4. sent \subseteq Ids /\ nextId \in 1 .. MaxIds + 1 /\ nextId' \in 1 .. MaxIds + 1 /\ spawned \in 0 .. MaxWorkers
  BY <1>1, <1>3, Bounds, PoolAssumption DEF TypeOK, CallsSent, Ids
<1>5. \A i \in sent : /\ i >= nextId /\ outcome[i] = "unsent" /\ i \notin Calls
                     /\ i - nextId + 1 \in 1 .. n /\ ws[i - nextId + 1] \in Workers /\ ws[i - nextId + 1] <= spawned
  <2> SUFFICES ASSUME NEW i \in sent
               PROVE  /\ i >= nextId /\ outcome[i] = "unsent" /\ i \notin Calls
                      /\ i - nextId + 1 \in 1 .. n /\ ws[i - nextId + 1] \in Workers /\ ws[i - nextId + 1] <= spawned
    OBVIOUS
  <2>1. i \in Ids /\ i >= nextId /\ i - nextId + 1 \in 1 .. n
    BY <1>4, Bounds
  <2>2. ws[i - nextId + 1] \in Workers /\ ws[i - nextId + 1] <= spawned
    BY <1>2, <2>1
  <2> HIDE DEF sent
  <2>3. outcome[i] = "unsent"
    BY <2>1 DEF PoolInv, IdsInOrder
  <2> QED BY <2>1, <2>2, <2>3 DEF Calls
<1>6. \A w \in Workers : idsOf(w) \subseteq sent /\ \A v \in Workers : v # w => idsOf(v) \cap idsOf(w) = {}
  OBVIOUS
<1>7. \A i \in sent : \E w \in Workers : i \in idsOf(w)
  BY <1>5
<1>8. \A w \in Workers : w > spawned => idsOf(w) = {}
  <2> SUFFICES ASSUME NEW w \in Workers, w > spawned, NEW i \in sent, ws[i - nextId + 1] = w
               PROVE  FALSE
    OBVIOUS
  <2>1. w <= spawned
    BY <1>5
  <2> QED BY <1>4, <2>1, Bounds DEF Workers
<1>9. \A w \in Workers : \A i \in sent : i \notin pending[w]
  BY <1>4, <1>5 DEF PoolInv, WaitingIsWatched, Waiting
<1>10. \A i \in sent : \A w \in Workers : boot[w] # i
  BY <1>4, Bounds DEF PoolInv, IdsInOrder
<1> HIDE DEF sent, idsOf
<1>11. \A w \in Workers : worker'[w] \in WorkerStates /\ worker'[w].state = worker[w].state
  <2> SUFFICES ASSUME NEW w \in Workers
               PROVE  worker'[w] \in WorkerStates /\ worker'[w].state = worker[w].state
    OBVIOUS
  <2> DEFINE j == CHOOSE i \in idsOf(w) : TRUE
  <2>1. worker[w] \in WorkerStates /\ worker \in [Workers -> WorkerStates]
    BY <1>1 DEF TypeOK
  <2>2. CASE idsOf(w) = {}
    BY <1>3, <2>1, <2>2
  <2>3. CASE idsOf(w) # {}
    <3>1. j \in Ids
      BY <1>4, <1>6, <2>3
    <3>2. worker'[w] = Posted(worker, w, j)[w]
      BY <1>3, <2>3
    <3> HIDE DEF j
    <3>3. Append(worker[w].inbox, j) \in Seq(Ids)
      BY <1>1, <3>1, Queues
    <3> QED BY <2>1, <3>2, <3>3 DEF Posted, WorkerStates
  <2> QED BY <2>2, <2>3
<1>12. TypeOK'
  <2>1. worker' \in [Workers -> WorkerStates]
    BY <1>3, <1>11
  <2>2. pending' \in [Workers -> SUBSET Ids] /\ timers' \subseteq Ids /\ op' \in [Callers -> SUBSET Ids]
    BY <1>1, <1>3, <1>4, <1>6 DEF TypeOK
  <2>3. outcome' \in [Ids -> {"unsent", "waiting", "answered", "failed"}]
    BY <1>1, <1>3 DEF TypeOK
  <2> QED BY <1>1, <1>3, <1>4, <2>1, <2>2, <2>3 DEF TypeOK
<1>13. Calls' = Calls \cup sent
  <2>1. \A i \in Ids : outcome'[i] # "unsent" <=> outcome[i] # "unsent" \/ i \in sent
    BY <1>1, <1>3 DEF TypeOK
  <2>2. Boots' = Boots /\ Boots \cap sent = {}
    BY <1>3, <1>10 DEF Boots
  <2> QED BY <1>4, <2>1, <2>2 DEF Calls
<1>14. \A i \in Ids : Waiting(i)' <=> Waiting(i) \/ i \in sent
  BY <1>1, <1>3 DEF Waiting, TypeOK
<1>15. WaitingIsWatched'
  <2>1. \A v, w \in Workers : v # w => pending'[v] \cap pending'[w] = {}
    BY <1>3, <1>6, <1>9 DEF PoolInv, WaitingIsWatched
  <2>2. UNION {pending'[w] : w \in Workers} = (UNION {pending[w] : w \in Workers}) \cup sent
    BY <1>3, <1>6, <1>7
  <2>3. {i \in Ids : Waiting(i)'} = {i \in Ids : Waiting(i)} \cup sent
    BY <1>4, <1>14
  <2>4. timers' = {i \in Calls' : Waiting(i)'}
    <3>1. Calls \subseteq Ids /\ sent \subseteq Ids
      BY <1>4 DEF Calls
    <3> QED BY <1>3, <1>13, <1>14, <3>1 DEF PoolInv, WaitingIsWatched
  <2> QED BY <2>1, <2>2, <2>3, <2>4 DEF PoolInv, WaitingIsWatched
<1>16. IdsInOrder'
  <2>1. \A i \in Ids : i \in sent <=> i >= nextId /\ i < nextId'
    BY <1>3, <1>4, Bounds DEF sent, Ids
  <2>2. \A i \in Ids : outcome'[i] = "unsent" <=> i >= nextId'
    BY <1>1, <1>3, <1>4, <2>1, Bounds DEF PoolInv, IdsInOrder, TypeOK, Ids
  <2>3. nextId - 1 <= nextId' - 1 /\ nextId \in Int /\ nextId' \in Int
    BY <1>3, <1>4, Bounds
  <2>4. \A w \in Workers : IF w <= spawned' THEN boot'[w] \in 1 .. nextId' - 1 ELSE boot'[w] = None
    BY <1>3, <2>3 DEF PoolInv, IdsInOrder
  <2> QED BY <1>3, <2>2, <2>4 DEF PoolInv, IdsInOrder
<1>17. Staffing'
  <2>1. \A w \in Workers : w > spawned => pending'[w] = {}
    BY <1>3, <1>8 DEF PoolInv, Staffing
  <2>2. \A w \in Workers : Alive(w)' <=> Alive(w)
    BY <1>11 DEF Alive
  <2> QED BY <1>2, <1>3, <1>11, <2>1, <2>2 DEF PoolInv, Staffing
<1>18. LossesPaid'
  <2>1. CallsSent' = CallsSent + n /\ CallsSent \in Nat
    BY <1>3, <1>4, Bounds DEF CallsSent, PoolInv, LossesPaid
  <2>2. {i \in Calls : outcome[i] = "failed"}' = {i \in Calls : outcome[i] = "failed"}
    <3>1. \A i \in Calls : i \in Ids
      BY DEF Calls
    <3> QED BY <1>1, <1>3, <1>4, <1>5, <1>13, <3>1 DEF TypeOK
  <2>3. CallsSent' \in 0 .. MaxCalls
    BY <1>3, <2>1, PoolAssumption
  <2> QED BY <1>3, <2>2, <2>3 DEF PoolInv, LossesPaid
<1> QED BY <1>12, <1>15, <1>16, <1>17, <1>18 DEF PoolInv

-----------------------------------------------------------------------------
(* Settling: the requests of D leave the pending maps, their timers are    *)
(* cleared and their promises settled, in one handler.                     *)

LEMMA Settles ==
  ASSUME PoolInv, NEW D, D \subseteq UNION {pending[w] : w \in Workers},
         outcome' \in [Ids -> {"unsent", "waiting", "answered", "failed"}],
         \A i \in Ids : IF i \in D THEN outcome'[i] \in {"answered", "failed"} ELSE outcome'[i] = outcome[i],
         pending' = [w \in Workers |-> pending[w] \ D],
         timers' = timers \ D,
         UNCHANGED <<boot, nextId, spawned>>
  PROVE  /\ WaitingIsWatched' /\ IdsInOrder'
         /\ CallsSent' \in 0 .. MaxCalls
         /\ Cardinality({i \in Calls : outcome[i] = "failed"}) \in Nat
         /\ Cardinality({i \in Calls : outcome[i] = "failed"}') \in Nat
         /\ Cardinality({i \in Calls : outcome[i] = "failed"})
              <= Cardinality({i \in Calls : outcome[i] = "failed"}')
         /\ (\E i \in D \cap Calls : outcome'[i] = "failed") =>
              Cardinality({i \in Calls : outcome[i] = "failed"}) + 1
                <= Cardinality({i \in Calls : outcome[i] = "failed"}')
<1>1. TypeOK /\ WaitingIsWatched /\ IdsInOrder
  BY DEF PoolInv
<1>2. \A i \in D : i \in Ids /\ outcome[i] = "waiting"
  BY <1>1 DEF WaitingIsWatched, Waiting
<1>3. \A i \in Ids : /\ Waiting(i)' <=> Waiting(i) /\ i \notin D
                     /\ outcome'[i] = "unsent" <=> outcome[i] = "unsent"
  BY <1>2 DEF Waiting
<1>4. Calls' = Calls /\ Calls \subseteq Ids
  BY <1>3 DEF Calls, Boots
<1>5. WaitingIsWatched'
  <2>1. \A v, w \in Workers : v # w => pending'[v] \cap pending'[w] = {}
    BY <1>1 DEF WaitingIsWatched
  <2>2. UNION {pending'[w] : w \in Workers} = (UNION {pending[w] : w \in Workers}) \ D
    OBVIOUS
  <2>3. {i \in Ids : Waiting(i)'} = {i \in Ids : Waiting(i)} \ D
    <3>1. \A i \in Ids : Waiting(i)' <=> Waiting(i) /\ i \notin D
      BY <1>3
    <3> QED BY <3>1, Zenon
  <2>4. timers' = {i \in Calls' : Waiting(i)'}
    <3>1. timers = {i \in Calls : Waiting(i)}
      BY <1>1 DEF WaitingIsWatched
    <3>2. \A i \in Calls : Waiting(i)' <=> Waiting(i) /\ i \notin D
      BY <1>3, <1>4
    <3>3. {i \in Calls : Waiting(i)'} = {i \in Calls : Waiting(i)} \ D
      BY <3>2, Zenon
    <3> QED BY <1>4, <3>1, <3>3
  <2> QED BY <1>1, <2>1, <2>2, <2>3, <2>4 DEF WaitingIsWatched
<1>6. IdsInOrder'
  BY <1>1, <1>3 DEF IdsInOrder
<1> DEFINE was == {i \in Calls : outcome[i] = "failed"}
           is == {i \in Calls : outcome[i] = "failed"}'
<1>7. is = {i \in Calls : outcome'[i] = "failed"}
  BY <1>4
<1>8. was \in SUBSET is
  <2>1. \A i \in Calls : i \in Ids /\ (outcome[i] = "failed" => i \notin D)
    BY <1>2, <1>4
  <2> QED BY <1>7, <2>1
<1>9. IsFiniteSet(Calls) /\ is \in SUBSET Calls
  BY <1>1, <1>7, CallsCounted
<1>10. CallsSent' = CallsSent
  BY DEF CallsSent
<1>11. \A i \in D \cap Calls : i \notin was
  BY <1>2
<1>12. \A i \in D \cap Calls : outcome'[i] = "failed" => i \in is
  BY <1>7
<1> HIDE DEF was, is
<1>13. IsFiniteSet(is) /\ Cardinality(is) \in Nat
  BY <1>9, FS_Subset, FS_CardinalityType
<1>14. IsFiniteSet(was) /\ Cardinality(was) \in Nat /\ Cardinality(was) <= Cardinality(is)
  BY <1>8, <1>13, FS_Subset, FS_CardinalityType
<1>15. (\E i \in D \cap Calls : outcome'[i] = "failed") => Cardinality(was) + 1 <= Cardinality(is)
  <2> SUFFICES ASSUME NEW i \in D \cap Calls, outcome'[i] = "failed"
               PROVE  Cardinality(was) + 1 <= Cardinality(is)
    OBVIOUS
  <2>1. was # is
    BY <1>11, <1>12
  <2>2. Cardinality(is) # Cardinality(was)
    BY <1>8, <1>13, <2>1, FS_Subset
  <2> QED BY <1>13, <1>14, <2>2
<1>16. CallsSent' \in 0 .. MaxCalls
  BY <1>10 DEF PoolInv, LossesPaid
<1> QED BY <1>5, <1>6, <1>13, <1>14, <1>15, <1>16 DEF was, is

LEMMA Answered ==
  ASSUME PoolInv, NEW w \in Workers, HandleMessage(w)
  PROVE  PoolInv'
<1> DEFINE m == Head(worker[w].outbox)
<1>1. TypeOK /\ worker[w] \in WorkerStates /\ m \in Replies /\ Tail(worker[w].outbox) \in Seq(Replies)
  BY Queues DEF PoolInv, HandleMessage
<1>2. worker' = [worker EXCEPT ![w].outbox = Tail(@)]
      /\ UNCHANGED <<phase, slots, spawning, rejected, spawned, boot, nextId, nextSlot, op, faults>>
  BY DEF HandleMessage
<1>3. worker' \in [Workers -> WorkerStates] /\ \A x \in Workers : worker'[x].state = worker[x].state
  BY <1>1, <1>2 DEF TypeOK, WorkerStates
<1>4. CASE ~Known(w, m.id)
  <2>1. UNCHANGED <<phase, pool, outcome>>
    BY <1>2, <1>4 DEF HandleMessage, pool
  <2>2. faults' \in 0 .. MaxFaults
    BY <1>1, <1>2 DEF TypeOK
  <2> QED BY <1>3, <2>1, <2>2, WorkerOnly
<1>5. CASE Known(w, m.id)
  <2> DEFINE D == {m.id}
  <2>1. m.id \in pending[w] /\ m.id \in Ids
    BY <1>1, <1>5 DEF Known, Replies
  <2>2. /\ pending' = [pending EXCEPT ![w] = @ \ {m.id}] /\ timers' = timers \ {m.id}
        /\ outcome' = [outcome EXCEPT ![m.id] = IF m.ok THEN "answered" ELSE "failed"]
    BY <1>5 DEF HandleMessage, Cleared
  <2> HIDE DEF m
  <2>3. pending' = [v \in Workers |-> pending[v] \ D]
    <3>1. \A v \in Workers : v # w => m.id \notin pending[v]
      BY <2>1 DEF PoolInv, WaitingIsWatched
    <3>2. \A v \in Workers : v # w => pending[v] = pending[v] \ D
      BY <3>1
    <3> QED BY <1>1, <2>2, <3>2 DEF TypeOK
  <2>4. D \subseteq UNION {pending[v] : v \in Workers}
    BY <2>1
  <2>5. /\ outcome' \in [Ids -> {"unsent", "waiting", "answered", "failed"}]
        /\ \A i \in Ids : IF i \in D THEN outcome'[i] \in {"answered", "failed"} ELSE outcome'[i] = outcome[i]
    BY <1>1, <2>1, <2>2 DEF TypeOK
  <2>6. timers' = timers \ D
    BY <2>2
  <2> HIDE DEF D
  <2>7. WaitingIsWatched' /\ IdsInOrder'
    BY <1>2, <2>3, <2>4, <2>5, <2>6, Settles
  <2>8. LossesPaid'
    <3>1. /\ CallsSent' \in 0 .. MaxCalls
          /\ Cardinality({i \in Calls : outcome[i] = "failed"}) \in Nat
          /\ Cardinality({i \in Calls : outcome[i] = "failed"}') \in Nat
          /\ Cardinality({i \in Calls : outcome[i] = "failed"})
               <= Cardinality({i \in Calls : outcome[i] = "failed"}')
      BY <1>2, <2>3, <2>4, <2>5, <2>6, Settles
    <3>2. Cardinality(spawning) \in Nat /\ spawned \in Nat
      <4>1. IsFiniteSet(Positions) /\ spawning \in SUBSET Positions
        BY <1>1, Bounds, FS_Interval DEF Positions, TypeOK
      <4> QED BY <1>1, <4>1, Bounds, FS_Subset, FS_CardinalityType DEF TypeOK
    <3> QED BY <1>2, <3>1, <3>2, Bounds DEF PoolInv, LossesPaid
  <2>9. TypeOK'
    BY <1>1, <1>2, <1>3, <2>2, <2>5 DEF TypeOK
  <2>10. Staffing'
    <3>1. \A p \in Positions : slots[p] # None => slots[p] \in Workers
      BY <1>1 DEF TypeOK
    <3>2. \A x \in Workers : Alive(x)' <=> Alive(x)
      BY <1>3 DEF Alive
    <3>3. \A x \in Workers : x > spawned => pending'[x] = {}
      BY <2>3 DEF PoolInv, Staffing
    <3> QED BY <1>2, <1>3, <3>1, <3>2, <3>3 DEF PoolInv, Staffing
  <2> QED BY <2>7, <2>8, <2>9, <2>10 DEF PoolInv
<1> QED BY <1>4, <1>5

LEMMA TimedOut ==
  ASSUME PoolInv, NEW w \in Workers, NEW i \in Ids, TimerFires(i, w)
  PROVE  PoolInv'
<1> DEFINE D == Replaced(w, i)
<1>1. TypeOK /\ i \in pending[w] /\ i \in timers
  BY DEF PoolInv, TimerFires
<1>2. /\ worker' = [worker EXCEPT ![w] = Stopped(@, "terminated")]
      /\ outcome' = Fails(D) /\ timers' = timers \ ({i} \cup D)
      /\ pending' = [pending EXCEPT ![w] = @ \ D]
      /\ spawning' = spawning \cup ToSpawn(w) /\ rejected' = rejected \ ToSpawn(w) /\ (\A p \in spawning : slots[p] # w)
      /\ UNCHANGED <<phase, slots, spawned, boot, nextId, nextSlot, op, faults>>
  BY DEF TimerFires, Cleared
<1>3. D \subseteq pending[w] /\ i \in D
  BY <1>1 DEF Replaced
<1> HIDE DEF D
<1>4. pending' = [v \in Workers |-> pending[v] \ D]
  <2>1. \A v \in Workers : v # w => pending[v] = pending[v] \ D
    BY <1>3 DEF PoolInv, WaitingIsWatched
  <2> QED BY <1>1, <1>2, <2>1 DEF TypeOK
<1>5. D \subseteq UNION {pending[v] : v \in Workers} /\ timers' = timers \ D
  BY <1>2, <1>3
<1>6. /\ outcome' \in [Ids -> {"unsent", "waiting", "answered", "failed"}]
      /\ \A j \in Ids : IF j \in D THEN outcome'[j] = "failed" ELSE outcome'[j] = outcome[j]
  BY <1>1, <1>2 DEF TypeOK, Fails
<1>7. i \in D \cap Calls /\ outcome'[i] = "failed"
  BY <1>1, <1>3, <1>6 DEF PoolInv, WaitingIsWatched
<1>8. WaitingIsWatched' /\ IdsInOrder'
  BY <1>2, <1>4, <1>5, <1>6, Settles
<1>9. \A p, q \in Positions : slots[p] = w /\ slots[q] = w => p = q
  BY Bounds DEF PoolInv, Staffing
<1>10. spawning \in SUBSET Positions /\ ToSpawn(w) \in SUBSET Positions /\ ToSpawn(w) \cap spawning = {}
  BY <1>1, <1>2 DEF ToSpawn, TypeOK
<1>11. LossesPaid'
  <2>1. /\ CallsSent' \in 0 .. MaxCalls
        /\ Cardinality({j \in Calls : outcome[j] = "failed"}) \in Nat
        /\ Cardinality({j \in Calls : outcome[j] = "failed"}') \in Nat
        /\ Cardinality({j \in Calls : outcome[j] = "failed"}) + 1
             <= Cardinality({j \in Calls : outcome[j] = "failed"}')
    BY <1>2, <1>4, <1>5, <1>6, <1>7, Settles
  <2>2. IsFiniteSet(Positions)
    BY Bounds, FS_Interval DEF Positions
  <2>3. IsFiniteSet(spawning) /\ Cardinality(spawning) \in Nat
    BY <1>10, <2>2, FS_Subset, FS_CardinalityType
  <2>4. Cardinality(spawning') \in Nat /\ Cardinality(spawning') <= Cardinality(spawning) + 1
    <3>1. CASE ToSpawn(w) = {}
      BY <1>2, <2>3, <3>1
    <3>2. CASE ToSpawn(w) # {}
      <4>1. PICK p \in Positions : ToSpawn(w) = {p}
        BY <1>9, <3>2 DEF ToSpawn
      <4>2. spawning' = spawning \cup {p}
        BY <1>2, <4>1
      <4>3. Cardinality(spawning \cup {p}) = IF p \in spawning THEN Cardinality(spawning) ELSE Cardinality(spawning) + 1
        BY <2>3, FS_AddElement
      <4> QED BY <2>3, <4>2, <4>3
    <3> QED BY <3>1, <3>2
  <2>5. spawned \in Nat
    BY <1>1, Bounds DEF TypeOK
  <2> QED BY <1>2, <2>1, <2>3, <2>4, <2>5, Bounds DEF PoolInv, LossesPaid
<1>12. Stopped(worker[w], "terminated") \in WorkerStates /\ worker[w] \in WorkerStates
  <2>1. << >> \in Seq(Ids)
    BY EmptySeq
  <2> QED BY <1>1, <2>1 DEF TypeOK, Stopped, WorkerStates
<1>13. TypeOK'
  <2>1. worker' \in [Workers -> WorkerStates]
    BY <1>1, <1>2, <1>12 DEF TypeOK
  <2> QED BY <1>1, <1>2, <1>4, <1>5, <1>6, <1>10, <2>1 DEF TypeOK
<1>14. worker'[w].state = "terminated" /\ \A v \in Workers : v # w => worker'[v] = worker[v]
  BY <1>1, <1>2, <1>12 DEF TypeOK, Stopped, WorkerStates
<1>15. Staffing'
  <2>1. w <= spawned
    BY <1>1, Bounds DEF PoolInv, Staffing, TypeOK, Workers
  <2>2. \A v \in Workers : worker'[v].state = "none" <=> v > spawned
    BY <1>1, <1>14, <2>1, Bounds DEF PoolInv, Staffing, TypeOK, Workers
  <2>3. \A v \in Workers : v > spawned => pending'[v] = {}
    BY <1>4 DEF PoolInv, Staffing
  <2>4. \A p \in Positions : slots[p] # None => slots[p] \in Workers
    BY <1>1 DEF TypeOK
  <2>5. \A p \in Positions : slots[p] # None => (worker'[slots[p]].state = "terminated" <=> p \in spawning' \cup rejected')
    BY <1>2, <1>14, <2>4 DEF PoolInv, Staffing, ToSpawn
  <2>6. \A v \in Workers : Alive(v)' => \E p \in Positions : slots[p] = v
    BY <1>14 DEF PoolInv, Staffing, Alive
  <2>7. spawning' \cap rejected' = {} /\ spawning \cup rejected \subseteq spawning' \cup rejected'
    BY <1>2 DEF PoolInv, Staffing
  <2> QED BY <1>2, <2>2, <2>3, <2>5, <2>6, <2>7 DEF PoolInv, Staffing
<1> QED BY <1>8, <1>11, <1>13, <1>15 DEF PoolInv

LEMMA Terminates ==
  ASSUME PoolInv, Terminate
  PROVE  PoolInv'
<1> DEFINE staff == {slots[p] : p \in Positions}
           D == UNION {pending[w] : w \in staff \ {None}}
<1>1. TypeOK
  BY DEF PoolInv
<1>2. /\ phase = "open" /\ phase' = "terminated" /\ outcome' = Fails(D) /\ timers' = timers \ D
      /\ pending' = [w \in Workers |-> pending[w] \ D]
      /\ worker' = [w \in Workers |-> IF w \in staff THEN Stopped(worker[w], "terminated") ELSE worker[w]]
      /\ slots' = [p \in Positions |-> None] /\ rejected' = {}
      /\ UNCHANGED <<spawning, spawned, boot, nextId, nextSlot, op, faults>>
  BY DEF Terminate, Cleared
<1>3. spawned \in Nat /\ spawned >= Size /\ \A p \in Positions : p <= spawned
  BY <1>1, <1>2, Bounds DEF TypeOK, PoolInv, Staffing, Positions
<1>4. staff \subseteq Workers
  BY <1>1, <1>2, <1>3 DEF PoolInv, Staffing, TypeOK
<1>5. D \subseteq UNION {pending[w] : w \in Workers}
  BY <1>4
<1>6. \A w \in staff : w <= spawned
  BY DEF PoolInv, Staffing
<1>7. \A w \in Workers : Alive(w) => w \in staff
  BY DEF PoolInv, Staffing
<1> HIDE DEF staff, D
<1>8. /\ outcome' \in [Ids -> {"unsent", "waiting", "answered", "failed"}]
      /\ \A i \in Ids : IF i \in D THEN outcome'[i] \in {"answered", "failed"} ELSE outcome'[i] = outcome[i]
  BY <1>1, <1>2 DEF TypeOK, Fails
<1>9. WaitingIsWatched' /\ IdsInOrder'
  BY <1>2, <1>5, <1>8, Settles
<1>10. LossesPaid'
  <2>1. /\ CallsSent' \in 0 .. MaxCalls
        /\ Cardinality({i \in Calls : outcome[i] = "failed"}) \in Nat
        /\ Cardinality({i \in Calls : outcome[i] = "failed"}') \in Nat
        /\ Cardinality({i \in Calls : outcome[i] = "failed"})
             <= Cardinality({i \in Calls : outcome[i] = "failed"}')
    BY <1>2, <1>5, <1>8, Settles
  <2>2. IsFiniteSet(Positions) /\ spawning \in SUBSET Positions
    BY <1>1, Bounds, FS_Interval DEF Positions, TypeOK
  <2>3. Cardinality(spawning) \in Nat
    BY <2>2, FS_Subset, FS_CardinalityType
  <2> QED BY <1>2, <1>3, <2>1, <2>3, Bounds DEF PoolInv, LossesPaid
<1>11. \A w \in Workers : /\ worker'[w] \in WorkerStates
                          /\ w \in staff => worker'[w].state = "terminated"
                          /\ w \notin staff => worker'[w] = worker[w]
  <2>1. << >> \in Seq(Ids)
    BY EmptySeq
  <2> QED BY <1>1, <1>2, <2>1 DEF TypeOK, Stopped, WorkerStates
<1>12. TypeOK'
  <2>1. pending' \in [Workers -> SUBSET Ids] /\ timers' \subseteq Ids
    BY <1>1, <1>2 DEF TypeOK
  <2> QED BY <1>1, <1>2, <1>8, <1>11, <2>1 DEF TypeOK
<1>13. Staffing'
  <2>1. \A w \in Workers : worker'[w].state = "none" <=> w > spawned
    BY <1>3, <1>6, <1>11, Bounds DEF PoolInv, Staffing, Workers
  <2>2. \A w \in Workers : w > spawned => pending'[w] = {}
    BY <1>2 DEF PoolInv, Staffing
  <2>3. \A w \in Workers : ~Alive(w)'
    BY <1>7, <1>11 DEF Alive
  <2>4. \A p \in Positions : slots'[p] = None /\ ~(p > spawned)
    BY <1>2, <1>3, Bounds DEF Positions
  <2> QED BY <1>2, <1>3, <2>1, <2>2, <2>3, <2>4, Bounds DEF Staffing, None
<1> QED BY <1>9, <1>10, <1>12, <1>13 DEF PoolInv

-----------------------------------------------------------------------------
(* The specification.                                                      *)

LEMMA StartsWell == Init => PoolInv
<1> SUFFICES ASSUME Init PROVE PoolInv
  OBVIOUS
<1>1. << >> \in Seq(Ids) /\ << >> \in Seq(Replies)
  BY EmptySeq
<1>2. NoWorker \in WorkerStates
  BY <1>1 DEF NoWorker, WorkerStates
<1>3. TypeOK
  BY <1>2, Bounds, PoolAssumption DEF Init, TypeOK, Positions
<1>4. Boots \subseteq {None} /\ Calls = {}
  BY DEF Init, Boots, Calls
<1>5. WaitingIsWatched
  BY <1>4 DEF Init, WaitingIsWatched, Waiting
<1>6. IdsInOrder
  BY Bounds DEF Init, IdsInOrder, Ids, Workers
<1>7. Staffing
  BY Bounds DEF Init, Staffing, Workers, Positions, NoWorker, Alive, None
<1>8. LossesPaid
  <2>1. CallsSent = 0
    BY DEF Init, CallsSent
  <2>2. Cardinality(spawning) = Size
    BY Bounds, FS_Interval DEF Init, Positions
  <2>3. {i \in Calls : outcome[i] = "failed"} = {}
    BY <1>4
  <2>4. Cardinality({i \in Calls : outcome[i] = "failed"}) = 0
    BY <2>3, FS_EmptySet
  <2> QED BY <2>1, <2>2, <2>4, Bounds, PoolAssumption DEF Init, LossesPaid
<1> QED BY <1>3, <1>5, <1>6, <1>7, <1>8 DEF PoolInv

LEMMA Preserved ==
  ASSUME PoolInv, [PoolNext]_vars
  PROVE  PoolInv'
<1>1. CASE AddWorker \/ \E p \in Positions : Install(p)
  BY <1>1, Spawns
<1>9. ASSUME NEW p \in Positions, InstallRejected(p) \/ AddWorkerRejected(p)
      PROVE  PoolInv'
  BY <1>9, Rejects
<1>2. CASE CreateReturns \/ CreateFails
  BY <1>2, Creates
<1>3. CASE Terminate
  BY <1>3, Terminates
<1>4. CASE Fires
  BY <1>4, TimedOut DEF Fires
<1>5. ASSUME NEW c \in Callers, SendKernel(c)
      PROVE  PoolInv'
  <2>1. Send(c, <<slots[nextSlot]>>) /\ nextSlot' = (nextSlot % Size) + 1
    BY <1>5 DEF SendKernel
  <2>2. nextSlot \in Positions /\ nextSlot' \in Positions
    BY <2>1, Bounds DEF PoolInv, TypeOK, Positions
  <2> DEFINE ws == <<slots[nextSlot]>>
  <2>3. Len(ws) = 1 /\ \A k \in 1 .. 1 : ws[k] \in {slots[p] : p \in Positions}
    BY <2>2
  <2>4. 1 \in 1 .. Size
    BY Bounds
  <2> HIDE DEF ws
  <2> QED BY <2>1, <2>2, <2>3, <2>4, Sends DEF ws
<1>6. ASSUME NEW c \in Callers, NEW chunks \in 1 .. Size, Broadcast(c, chunks)
      PROVE  PoolInv'
  <2> DEFINE ws == SubSeq(slots, 1, chunks)
  <2>1. Send(c, ws) /\ nextSlot' = nextSlot
    BY <1>6 DEF Broadcast
  <2>2. nextSlot' \in Positions
    BY <2>1 DEF PoolInv, TypeOK
  <2>3. Len(ws) = chunks /\ \A k \in 1 .. chunks : ws[k] = slots[k]
    <3>1. \A k \in 1 .. chunks : slots[k] \in Workers \cup {None}
      BY Bounds DEF PoolInv, TypeOK, Positions
    <3>2. 1 \in Int /\ chunks \in Int /\ 1 <= chunks
      BY Bounds
    <3>3. Len(ws) = chunks - 1 + 1 /\ \A k \in 1 .. chunks - 1 + 1 : ws[k] = slots[1 + k - 1]
      BY <3>1, <3>2, SubSeqProperties
    <3> QED BY <3>2, <3>3
  <2>4. \A k \in 1 .. chunks : ws[k] \in {slots[p] : p \in Positions}
    BY <2>3, Bounds DEF Positions
  <2> HIDE DEF ws
  <2> QED BY <2>1, <2>2, <2>3, <2>4, Sends
<1>7. ASSUME NEW w \in Workers, HandleMessage(w) \/ WorkerStep(w) \/ Crash(w)
      PROVE  PoolInv'
  BY <1>7, Answered, WorkerSteps, Crashes
<1>8. CASE UNCHANGED vars
  <2>1. UNCHANGED <<phase, pool, worker, outcome, faults>>
    BY <1>8 DEF vars
  <2> QED BY <2>1, WorkerOnly DEF PoolInv, TypeOK
<1> QED BY <1>1, <1>2, <1>3, <1>4, <1>5, <1>6, <1>7, <1>8, <1>9 DEF PoolNext

\* What every handler preserves (see PoolInv): a request waits exactly while one
\* slot has it pending, a call exactly while its timer is armed; no position is
\* lost and none has two workers; and lost workers are paid for by failed calls.
THEOREM RequestsWatched == Spec => []PoolInv
<1>1. PoolInv /\ [PoolNext]_vars => PoolInv'
  BY Preserved
<1> QED BY <1>1, StartsWell, PTL DEF Spec

\* replaceSlot and the timers never leave a position of an open pool without a
\* worker or a replacement on its way, unless createRawWorker was rejected for
\* it, and no live worker outside the pool.
THEOREM AlwaysStaffed == Spec => []FullyStaffed
<1>1. PoolInv => FullyStaffed
  <2> SUFFICES ASSUME PoolInv, phase = "open"
               PROVE  /\ \A p \in Positions : worker[slots[p]].state = "terminated" <=> p \in spawning \cup rejected
                      /\ \A w \in Workers : Alive(w) => \E p \in Positions : slots[p] = w
    BY DEF FullyStaffed
  <2>1. \A p \in Positions : p <= spawned
    BY Bounds DEF PoolInv, TypeOK, Staffing, Positions
  <2> QED BY <2>1 DEF PoolInv, Staffing
<1> QED BY <1>1, RequestsWatched, PTL

\* No handler changes a promise that is settled: handleMessage takes only
\* requests it finds pending, and a timer, a replacement and terminate() reject
\* only those.
LEMMA SettledStays ==
  ASSUME PoolInv, [PoolNext]_vars, NEW i \in Ids, outcome[i] \in {"answered", "failed"}
  PROVE  outcome'[i] = outcome[i]
<1>1. TypeOK /\ outcome \in [Ids -> {"unsent", "waiting", "answered", "failed"}]
  BY DEF PoolInv, TypeOK
<1>2. \A w \in Workers : i \notin pending[w]
  BY DEF PoolInv, WaitingIsWatched, Waiting
<1>3. \A j \in Ids : j >= nextId => j # i
  BY DEF PoolInv, IdsInOrder
<1>4. \A p : Occupy(p) => outcome'[i] = outcome[i]
  BY <1>1, <1>3, Bounds DEF Occupy, TypeOK, Ids
<1>5. \A c, ws : Send(c, ws) => outcome'[i] = outcome[i]
  <2> SUFFICES ASSUME NEW c, NEW ws, Send(c, ws)
               PROVE  outcome'[i] = outcome[i]
    OBVIOUS
  <2>1. outcome' = [j \in Ids |-> IF j \in nextId .. nextId + Len(ws) - 1 THEN "waiting" ELSE outcome[j]]
    BY DEF Send
  <2>2. i \notin nextId .. nextId + Len(ws) - 1
    BY <1>3
  <2> QED BY <2>1, <2>2
<1>6. \A w \in Workers : HandleMessage(w) => outcome'[i] = outcome[i]
  BY <1>1, <1>2 DEF HandleMessage, Known
<1>7. Fires => outcome'[i] = outcome[i]
  BY <1>1, <1>2 DEF Fires, TimerFires, Replaced, Fails
<1>8. Terminate => outcome'[i] = outcome[i]
  <2> SUFFICES ASSUME Terminate
               PROVE  outcome'[i] = outcome[i]
    OBVIOUS
  <2> DEFINE D == UNION {pending[w] : w \in {slots[p] : p \in Positions} \ {None}}
  <2>1. outcome' = Fails(D)
    BY DEF Terminate
  <2>2. i \notin D
    BY <1>1, <1>2 DEF TypeOK
  <2> QED BY <2>1, <2>2 DEF Fails
<1>9. AddWorker \/ (\E p \in Positions : Install(p)) => outcome'[i] = outcome[i]
  BY <1>4 DEF AddWorker, Install
<1>10. \A c \in Callers : SendKernel(c) \/ (\E n \in 1 .. Size : Broadcast(c, n)) => outcome'[i] = outcome[i]
  BY <1>5 DEF SendKernel, Broadcast
<1>11. \A w \in Workers : WorkerStep(w) \/ Crash(w) => outcome'[i] = outcome[i]
  BY DEF WorkerStep, LoadStarts, LoadEnds, KernelRefused, KernelStarts, KernelEnds, Crash
<1>12. CreateReturns \/ CreateFails \/ UNCHANGED vars => outcome'[i] = outcome[i]
  BY DEF CreateReturns, CreateFails, vars
<1>13. \A p \in Positions : InstallRejected(p) \/ AddWorkerRejected(p) => outcome'[i] = outcome[i]
  BY DEF InstallRejected, AddWorkerRejected, Reject
<1> QED BY <1>6, <1>7, <1>8, <1>9, <1>10, <1>11, <1>12, <1>13 DEF PoolNext

\* A request is settled once: an answer that arrives after its timer, or a timer
\* of a request already answered, changes nothing.
THEOREM SettlesOnce == Spec => SettledOnce
<1>1. PoolInv /\ [PoolNext]_vars => [\A i \in Ids : outcome[i] \in {"answered", "failed"} => outcome'[i] = outcome[i]]_vars
  BY SettledStays
<1> QED BY <1>1, RequestsWatched, PTL DEF Spec, SettledOnce
=============================================================================
