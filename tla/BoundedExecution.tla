-------------------------- MODULE BoundedExecution --------------------------
(***************************************************************************)
(* What the admission controller and the worker pool promise, without how: *)
(* at most Limit operations run at a time, at most ClassLimit[c] of them   *)
(* of class c, and each enters and leaves by itself.                       *)
(***************************************************************************)
EXTENDS Naturals, FiniteSets

CONSTANTS Operation,   \* who may run
          ClassOf,     \* the class of each operation
          Limit,       \* bound on all classes together
          ClassLimit   \* bound on each class

VARIABLE running

OfClass(c) == {q \in running : ClassOf[q] = c}

Init == running = {}

Enter(p) ==
  /\ p \notin running
  /\ Cardinality(running) < Limit
  /\ Cardinality(OfClass(ClassOf[p])) < ClassLimit[ClassOf[p]]
  /\ running' = running \cup {p}

Leave(p) ==
  /\ p \in running
  /\ running' = running \ {p}

Next == \E p \in Operation : Enter(p) \/ Leave(p)

Spec == Init /\ [][Next]_running
============================================================================
