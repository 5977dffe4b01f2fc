----------------------------- MODULE Semaphore -----------------------------
(***************************************************************************)
(* tokio::sync::Semaphore as execution_control.rs uses it: one permit per  *)
(* acquire, first come first served, a permit handed straight to the head  *)
(* of the queue when it is released, and given back when the future that   *)
(* waits for it (or the permit itself) is dropped.                         *)
(*                                                                         *)
(* A semaphore is a record: `holders`, the owners of a permit, whether or  *)
(* not they have been polled since it was handed to them, and `queue`, the *)
(* owners waiting for one, oldest first.                                   *)
(***************************************************************************)
EXTENDS Naturals, Sequences, FiniteSets

\* The elements of a queue.
Waiters(q) == {q[i] : i \in DOMAIN q}

\* The queue without p's entry, the others in their order.
Without(q, p) ==
  LET at == CHOOSE i \in DOMAIN q : q[i] = p
  IN  [j \in 1 .. Len(q) - 1 |-> IF j < at THEN q[j] ELSE q[j + 1]]

\* No permit out, nobody waiting.
Idle == [holders |-> {}, queue |-> <<>>]

SemaphoreType(Owner) == [holders : SUBSET Owner, queue : Seq(Owner)]

Available(sem, limit) == Cardinality(sem.holders) < limit

\* acquire_owned(): a permit at once when one is free, a place in the queue
\* otherwise.
Acquire(sem, limit, p) ==
  IF Available(sem, limit)
  THEN [sem EXCEPT !.holders = @ \cup {p}]
  ELSE [sem EXCEPT !.queue = Append(@, p)]

\* Dropping a permit hands it to the oldest waiter; dropping an acquire
\* future gives up its place, or the permit it was handed meanwhile.
Release(sem, p) ==
  IF p \in sem.holders
  THEN IF sem.queue = <<>>
       THEN [sem EXCEPT !.holders = @ \ {p}]
       ELSE [holders |-> (sem.holders \ {p}) \cup {Head(sem.queue)},
             queue   |-> Tail(sem.queue)]
  ELSE IF p \in Waiters(sem.queue)
       THEN [sem EXCEPT !.queue = Without(@, p)]
       ELSE sem
============================================================================
