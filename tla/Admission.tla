------------------------------ MODULE Admission ------------------------------
(***************************************************************************)
(* AdmissionController of execution_control.rs: every statement holds a    *)
(* permit of its class (reader, writer, maintenance) and one of the global *)
(* limit while it runs.  acquire() takes a queue slot without waiting,     *)
(* then, under one deadline, waits for the class permit and after it for   *)
(* the global permit.  Operations are identities used again after they     *)
(* finish.                                                                 *)
(***************************************************************************)
EXTENDS Semaphore

CONSTANTS Operation,   \* statements that ask for admission
          Class,       \* operation classes
          ClassOf,     \* the class of each operation
          MaxActive,   \* permits of the global limit
          ClassLimit,  \* permits of each class
          MaxQueued    \* queue slots

\* AdmissionController::new asserts that every limit is positive.
ASSUME AdmissionLimits ==
  /\ IsFiniteSet(Operation)
  /\ ClassOf \in [Operation -> Class]
  /\ MaxActive \in Nat \ {0}
  /\ ClassLimit \in [Class -> Nat \ {0}]
  /\ MaxQueued \in Nat \ {0}

VARIABLES slots,      \* holders of queue slots
          class,      \* the semaphore of each class
          global,     \* the semaphore of the global limit
          pc,         \* where each operation is
          gauge,      \* READER_ACTIVE, WRITER_ACTIVE, MAINTENANCE_ACTIVE
          highWater   \* their high-water marks

vars == <<slots, class, global, pc, gauge, highWater>>

Phase == {"idle", "class", "global", "unqueue", "admit", "admitted",
          "dropGlobal", "dropClass", "dropSlot"}

Init ==
  /\ slots = {}
  /\ class = [c \in Class |-> Idle]
  /\ global = Idle
  /\ pc = [p \in Operation |-> "idle"]
  /\ gauge = [c \in Class |-> 0]
  /\ highWater = [c \in Class |-> 0]

Goto(p, phase) == pc' = [pc EXCEPT ![p] = phase]

\* p's class semaphore
ClassSem(p) == class[ClassOf[p]]

----------------------------------------------------------------------------
\* try_acquire_owned on the queue slots, then the class permit.  With no
\* slot left acquire() returns QueueFull and nothing changes.
AcquireClass(p) ==
  /\ pc[p] = "idle"
  /\ Cardinality(slots) < MaxQueued
  /\ slots' = slots \cup {p}
  /\ class' = [class EXCEPT ![ClassOf[p]] =
                 Acquire(@, ClassLimit[ClassOf[p]], p)]
  /\ Goto(p, "class")
  /\ UNCHANGED <<global, gauge, highWater>>

\* A fault: the global permit is asked for before the class permit is owned.
AcquireGlobalEarly(p) ==
  /\ pc[p] = "class"
  /\ global' = Acquire(global, MaxActive, p)
  /\ Goto(p, "global")
  /\ UNCHANGED <<slots, class, gauge, highWater>>

AcquireGlobal(p) ==
  /\ pc[p] = "class"
  /\ p \in ClassSem(p).holders
  /\ global' = Acquire(global, MaxActive, p)
  /\ Goto(p, "global")
  /\ UNCHANGED <<slots, class, gauge, highWater>>

\* A fault: nobody waits for the global permit.
GrantedUnowned(p) ==
  /\ pc[p] = "global"
  /\ Goto(p, "unqueue")
  /\ UNCHANGED <<slots, class, global, gauge, highWater>>

\* Both permits came within the deadline; the slot is given back before the
\* operation is counted.
Granted(p) ==
  /\ pc[p] = "global"
  /\ p \in global.holders
  /\ Goto(p, "unqueue")
  /\ UNCHANGED <<slots, class, global, gauge, highWater>>

\* A fault: the slot is kept by the admitted operation.
UnqueueKeepsSlot(p) ==
  /\ pc[p] = "unqueue"
  /\ Goto(p, "admit")
  /\ UNCHANGED <<slots, class, global, gauge, highWater>>

Unqueue(p) ==
  /\ pc[p] = "unqueue"
  /\ slots' = slots \ {p}
  /\ Goto(p, "admit")
  /\ UNCHANGED <<class, global, gauge, highWater>>

\* fetch_add on the class gauge, whose result update_high_water folds in.
Admit(p) ==
  LET c == ClassOf[p] IN
  /\ pc[p] = "admit"
  /\ gauge' = [gauge EXCEPT ![c] = @ + 1]
  /\ highWater' = [highWater EXCEPT ![c] =
                     IF gauge[c] + 1 > @ THEN gauge[c] + 1 ELSE @]
  /\ Goto(p, "admitted")
  /\ UNCHANGED <<slots, class, global>>

\* tokio::time::timeout polls the acquisition before its timer, so a permit
\* that has been handed over wins; otherwise the acquisition is dropped, the
\* wait for the global permit before the class permit.
Timeout(p) ==
  /\ \/ pc[p] = "class" /\ p \notin ClassSem(p).holders
     \/ pc[p] = "global" /\ p \notin global.holders
  /\ Goto(p, "dropGlobal")
  /\ UNCHANGED <<slots, class, global, gauge, highWater>>

\* A fault: an acquisition given up lowers the gauge.
AbandonUncounts(p) ==
  /\ pc[p] \in {"class", "global"}
  /\ gauge' = [gauge EXCEPT ![ClassOf[p]] = @ - 1]
  /\ Goto(p, "dropGlobal")
  /\ UNCHANGED <<slots, class, global, highWater>>

\* The connection task is aborted while acquire() waits: its locals are
\* dropped in the same order, permits it has been handed included.
Abandon(p) ==
  /\ pc[p] \in {"class", "global"}
  /\ Goto(p, "dropGlobal")
  /\ UNCHANGED <<slots, class, global, gauge, highWater>>

\* A fault: the gauge is not lowered.
FinishUncounted(p) ==
  /\ pc[p] = "admitted"
  /\ Goto(p, "dropGlobal")
  /\ UNCHANGED <<slots, class, global, gauge, highWater>>

\* Drop for AdmissionPermit: the gauges first, then `_global`, then `_class`.
Finish(p) ==
  /\ pc[p] = "admitted"
  /\ gauge' = [gauge EXCEPT ![ClassOf[p]] = @ - 1]
  /\ Goto(p, "dropGlobal")
  /\ UNCHANGED <<slots, class, global, highWater>>

\* A fault: the global permit is forgotten.
DropGlobalForgets(p) ==
  /\ pc[p] = "dropGlobal"
  /\ Goto(p, "dropClass")
  /\ UNCHANGED <<slots, class, global, gauge, highWater>>

DropGlobal(p) ==
  /\ pc[p] = "dropGlobal"
  /\ global' = Release(global, p)
  /\ Goto(p, "dropClass")
  /\ UNCHANGED <<slots, class, gauge, highWater>>

DropClass(p) ==
  /\ pc[p] = "dropClass"
  /\ class' = [class EXCEPT ![ClassOf[p]] = Release(@, p)]
  /\ Goto(p, "dropSlot")
  /\ UNCHANGED <<slots, global, gauge, highWater>>

\* The queue slot of an acquisition that failed; an admitted operation has
\* given it back already.
DropSlot(p) ==
  /\ pc[p] = "dropSlot"
  /\ slots' = slots \ {p}
  /\ Goto(p, "idle")
  /\ UNCHANGED <<class, global, gauge, highWater>>

Next ==
  \E p \in Operation :
    \/ AcquireClass(p)
    \/ AcquireGlobal(p)
    \/ Granted(p)
    \/ Unqueue(p)
    \/ Admit(p)
    \/ Timeout(p)
    \/ Abandon(p)
    \/ Finish(p)
    \/ DropGlobal(p)
    \/ DropClass(p)
    \/ DropSlot(p)

Spec == Init /\ [][Next]_vars

\* The executor polls every ready task and an admitted statement ends.  The
\* queue deadline may be arbitrarily late.
Fairness ==
  \A p \in Operation :
    /\ WF_vars(AcquireGlobal(p))
    /\ WF_vars(Granted(p))
    /\ WF_vars(Unqueue(p))
    /\ WF_vars(Admit(p))
    /\ WF_vars(Finish(p))
    /\ WF_vars(DropGlobal(p))
    /\ WF_vars(DropClass(p))
    /\ WF_vars(DropSlot(p))

FairSpec == Spec /\ Fairness

----------------------------------------------------------------------------
Waiting(p) == pc[p] \in {"class", "global"}

TypeOK ==
  /\ slots \in SUBSET Operation
  /\ class \in [Class -> SemaphoreType(Operation)]
  /\ global \in SemaphoreType(Operation)
  /\ pc \in [Operation -> Phase]
  /\ gauge \in [Class -> Nat]
  /\ highWater \in [Class -> Nat]

\* A global permit is only ever out to an operation that owns its class
\* permit as well: work that waits for its class cannot use up the global
\* limit and starve the other classes.
NoHoarding ==
  \A p \in global.holders : p \in ClassSem(p).holders

\* The exported gauges and high-water marks stay within the configured
\* limits: they are raised after the permits are owned and lowered before
\* they are given back.
GaugeWithinLimits ==
  \A c \in Class : gauge[c] <= ClassLimit[c] /\ highWater[c] <= ClassLimit[c]

\* QueueFull is an honest answer: every queue slot that is taken belongs to
\* an acquisition still in progress, so nobody is refused on account of
\* statements that already run or have been refused themselves.
SlotsAreInProgress ==
  \A p \in Operation :
    /\ Waiting(p) => p \in slots
    /\ pc[p] \in {"idle", "admit", "admitted"} => p \notin slots

\* The controller implements bounded execution.
Running == {p \in Operation : pc[p] = "admitted"}

Bounded == INSTANCE BoundedExecution
             WITH running <- Running, Limit <- MaxActive

BoundedSpec == Bounded!Spec

\* No acquisition waits forever: while admitted statements end, each one is
\* admitted, or refused by its deadline.  (The fixed order class before
\* global, and the queues being fair, are what this rests on.)
Served == \A p \in Operation : Waiting(p) ~> ~Waiting(p)
============================================================================
