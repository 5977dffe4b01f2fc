----------------------------- MODULE WorkerPool -----------------------------
(***************************************************************************)
(* BlockingWorkerPool of execution_control.rs: native calls run on at most *)
(* MaxWorkers blocking threads.  A regular operation takes a permit of     *)
(* `regular` (MaxWorkers - 1 of them) and then one of `total`; control     *)
(* work (cancellation, deadlines) takes one of `total` alone, so that a    *)
(* cancel never waits for all the operations it may have to interrupt.     *)
(*                                                                         *)
(* Operations are identities that are used again after they finish.  The   *)
(* await points of acquire() and the field-by-field drop of a permit are   *)
(* steps of their own, since the executor interleaves tasks there.         *)
(***************************************************************************)
EXTENDS Semaphore

CONSTANTS Regular,     \* callers of spawn_regular and run_regular
          Control,     \* callers of run_control
          MaxWorkers   \* capacity of `total`

ASSUME OperationSets ==
  /\ IsFiniteSet(Regular)
  /\ IsFiniteSet(Control)
  /\ Regular \cap Control = {}

\* BlockingWorkerPool::new asserts max_workers >= 2.
ASSUME ReservesControlSlot == MaxWorkers \in Nat /\ MaxWorkers >= 2

VARIABLES total,      \* semaphore of MaxWorkers permits
          regular,    \* semaphore of MaxWorkers - 1 permits
          pc,         \* where each operation is in acquire/run/drop
          active,     \* BLOCKING_ACTIVE
          highWater   \* BLOCKING_HIGH_WATER

vars == <<total, regular, pc, active, highWater>>

Operation == Regular \cup Control

Phase == {"idle", "regular", "total", "running", "dropTotal", "dropRegular"}

Init ==
  /\ total = Idle
  /\ regular = Idle
  /\ pc = [p \in Operation |-> "idle"]
  /\ active = 0
  /\ highWater = 0

Goto(p, phase) == pc' = [pc EXCEPT ![p] = phase]

----------------------------------------------------------------------------
\* A fault: `regular` has as many permits as `total`.
AcquireRegularAll(p) ==
  /\ p \in Regular
  /\ pc[p] = "idle"
  /\ regular' = Acquire(regular, MaxWorkers, p)
  /\ Goto(p, "regular")
  /\ UNCHANGED <<total, active, highWater>>

\* acquire(): a regular operation queues for `regular` first, control work
\* goes to `total` directly.
AcquireRegular(p) ==
  /\ p \in Regular
  /\ pc[p] = "idle"
  /\ regular' = Acquire(regular, MaxWorkers - 1, p)
  /\ Goto(p, "regular")
  /\ UNCHANGED <<total, active, highWater>>

AcquireTotal(p) ==
  /\ \/ p \in Control /\ pc[p] = "idle"
     \/ pc[p] = "regular" /\ p \in regular.holders
  /\ total' = Acquire(total, MaxWorkers, p)
  /\ Goto(p, "total")
  /\ UNCHANGED <<regular, active, highWater>>

\* A fault: the closure does not wait for its permit.
StartAtOnce(p) ==
  /\ pc[p] = "total"
  /\ active' = active + 1
  /\ highWater' = IF active + 1 > highWater THEN active + 1 ELSE highWater
  /\ Goto(p, "running")
  /\ UNCHANGED <<total, regular>>

\* Both permits are owned: BLOCKING_ACTIVE counts the operation, the
\* compare-exchange loop raises the high-water mark, and the closure runs.
Start(p) ==
  /\ pc[p] = "total"
  /\ p \in total.holders
  /\ active' = active + 1
  /\ highWater' = IF active + 1 > highWater THEN active + 1 ELSE highWater
  /\ Goto(p, "running")
  /\ UNCHANGED <<total, regular>>

\* A fault: the gauge is not lowered.
FinishUncounted(p) ==
  /\ pc[p] = "running"
  /\ Goto(p, "dropTotal")
  /\ UNCHANGED <<total, regular, active, highWater>>

\* A fault: the permits are forgotten.
FinishForgets(p) ==
  /\ pc[p] = "running"
  /\ active' = active - 1
  /\ Goto(p, "idle")
  /\ UNCHANGED <<total, regular, highWater>>

\* The closure returns (or panics): Drop for BlockingWorkerPermit lowers the
\* gauge, then the fields are dropped in declaration order, `_total` first.
Finish(p) ==
  /\ pc[p] = "running"
  /\ active' = active - 1
  /\ Goto(p, "dropTotal")
  /\ UNCHANGED <<total, regular, highWater>>

DropTotal(p) ==
  /\ pc[p] = "dropTotal"
  /\ total' = Release(total, p)
  /\ Goto(p, IF p \in Regular THEN "dropRegular" ELSE "idle")
  /\ UNCHANGED <<regular, active, highWater>>

DropRegular(p) ==
  /\ pc[p] = "dropRegular"
  /\ regular' = Release(regular, p)
  /\ Goto(p, "idle")
  /\ UNCHANGED <<total, active, highWater>>

\* A fault: the gauge is lowered for an operation that never ran.
AbandonUncounts(p) ==
  /\ pc[p] \in {"regular", "total"}
  /\ active' = active - 1
  /\ Goto(p, IF pc[p] = "regular" THEN "dropRegular" ELSE "dropTotal")
  /\ UNCHANGED <<total, regular, highWater>>

\* The future of acquire() is dropped while it waits: OperationDeadline's
\* Drop aborts the task that waits in run_control, a server abort drops the
\* others.  The wait for `total` goes before the `regular` permit.
Abandon(p) ==
  /\ pc[p] \in {"regular", "total"}
  /\ Goto(p, IF pc[p] = "regular" THEN "dropRegular" ELSE "dropTotal")
  /\ UNCHANGED <<total, regular, active, highWater>>

Next ==
  \E p \in Operation :
    \/ AcquireRegular(p)
    \/ AcquireTotal(p)
    \/ Start(p)
    \/ Finish(p)
    \/ DropTotal(p)
    \/ DropRegular(p)
    \/ Abandon(p)

Spec == Init /\ [][Next]_vars

\* The executor polls every ready task, and a closure of control work ends:
\* a native cancel does not block.  Nothing is assumed of regular closures.
Fairness ==
  /\ \A p \in Operation :
       /\ WF_vars(pc[p] = "regular" /\ AcquireTotal(p))
       /\ WF_vars(Start(p))
       /\ WF_vars(DropTotal(p))
       /\ WF_vars(DropRegular(p))
  /\ \A p \in Control : WF_vars(Finish(p))

FairSpec == Spec /\ Fairness

----------------------------------------------------------------------------
TypeOK ==
  /\ total \in SemaphoreType(Operation)
  /\ regular \in SemaphoreType(Regular)
  /\ pc \in [Operation -> Phase]
  /\ active \in Nat
  /\ highWater \in Nat

\* The reserved slot: whenever every worker is taken, control work has one
\* of them.  A cancel therefore only ever waits for another cancel, however
\* many regular operations are stuck in native code.
ControlSlotReserved ==
  ~Available(total, MaxWorkers) => total.holders \cap Control # {}

\* BLOCKING_ACTIVE, which is raised after the permits are owned and lowered
\* before they are dropped, never reports more work than there are permits
\* out, so neither it nor the high-water mark exceeds MaxWorkers.
GaugeWithinPool ==
  /\ active <= Cardinality(total.holders)
  /\ Cardinality(total.holders) <= MaxWorkers
  /\ highWater <= MaxWorkers

\* The pool implements bounded execution, with closures as the operations
\* and one worker fewer for regular ones.
Bounded == INSTANCE BoundedExecution
             WITH running <- {p \in Operation : pc[p] = "running"},
                  Limit <- MaxWorkers,
                  ClassOf <- [p \in Operation |->
                                IF p \in Regular THEN "regular" ELSE "control"],
                  ClassLimit <- [c \in {"regular", "control"} |->
                                   IF c = "regular" THEN MaxWorkers - 1 ELSE MaxWorkers]

BoundedSpec == Bounded!Spec

\* A cancel that asked for a worker runs (or is abandoned), even if no
\* regular operation ever finishes.
ControlRuns ==
  \A p \in Control : pc[p] = "total" ~> pc[p] # "total"
============================================================================
