------------------------------ MODULE Lifecycle ------------------------------
(***************************************************************************)
(* RuntimeLifecycle of lifecycle.rs: the flag that admits explicit         *)
(* transactions, the count of those that are open, the exported readiness, *)
(* and the drain at shutdown.  Every atomic access is a step.              *)
(*                                                                         *)
(* begin_drain stores with Release and loads with Acquire, which does not  *)
(* order a store before a later load of another location.  Its stores      *)
(* therefore go through a store buffer that memory takes them from, in     *)
(* order, at any later time; a read-modify-write, or the lock inside       *)
(* Notify, empties it first.  The other threads only use read-modify-write *)
(* operations to write, so they need no buffer.                            *)
(***************************************************************************)
EXTENDS Naturals, Sequences, FiniteSets

CONSTANTS Transaction,  \* callers of try_start_transaction
          Prober        \* callers of mark_storage_ready and _unavailable

ASSUME LifecycleSets == IsFiniteSet(Transaction) /\ IsFiniteSet(Prober)

VARIABLES accepting,  \* AtomicBool
          readiness,  \* AtomicU8
          active,     \* active_transactions
          buffer,     \* the drain thread's stores not yet in memory
          tx,         \* where each transaction is
          probe,      \* the value each prober last read, or "none"
          drain,      \* where begin_drain is
          waiter,     \* where wait_for_transactions is
          observed,   \* the count begin_drain loaded (history)
          settled     \* wait_for_transactions returned on a count that was
                      \* loaded after the drain had reached memory (history)

vars == <<accepting, readiness, active, buffer, tx, probe, drain, waiter,
          observed, settled>>

Readiness == {"Starting", "Ready", "StorageUnavailable", "Draining"}

Init ==
  /\ accepting = TRUE
  /\ readiness = "Starting"
  /\ active = 0
  /\ buffer = <<>>
  /\ tx = [t \in Transaction |-> "idle"]
  /\ probe = [p \in Prober |-> "none"]
  /\ drain = "idle"
  /\ waiter = "idle"
  /\ observed = 0
  /\ settled = FALSE

GotoTx(t, phase) == tx' = [tx EXCEPT ![t] = phase]

\* Notify::notify_waiters wakes who waits now and is lost on anyone else.
NotifyWaiters == waiter' = IF waiter = "waiting" THEN "woken" ELSE waiter

drainVars == <<buffer, drain, observed>>

----------------------------------------------------------------------------
\* A fault: a refused start leaves the count it never joined.
TryStartLeaves(t) ==
  /\ tx[t] = "idle"
  /\ GotoTx(t, IF accepting THEN "join" ELSE "finish")
  /\ UNCHANGED <<accepting, readiness, active, probe, waiter, settled, drainVars>>

\* try_start_transaction: look at the flag, join the count, look again.
TryStart(t) ==
  /\ tx[t] = "idle"
  /\ accepting
  /\ GotoTx(t, "join")
  /\ UNCHANGED <<accepting, readiness, active, probe, waiter, settled, drainVars>>

Join(t) ==
  /\ tx[t] = "join"
  /\ active' = active + 1
  /\ GotoTx(t, "recheck")
  /\ UNCHANGED <<accepting, readiness, probe, waiter, settled, drainVars>>

\* Faults: the second look is not taken; the refused start stays counted.
RecheckNot(t) ==
  /\ tx[t] = "recheck"
  /\ GotoTx(t, "open")
  /\ UNCHANGED <<accepting, readiness, active, probe, waiter, settled, drainVars>>

RecheckStaysCounted(t) ==
  /\ tx[t] = "recheck"
  /\ GotoTx(t, IF accepting THEN "open" ELSE "idle")
  /\ UNCHANGED <<accepting, readiness, active, probe, waiter, settled, drainVars>>

Recheck(t) ==
  /\ tx[t] = "recheck"
  /\ GotoTx(t, IF accepting THEN "open" ELSE "finish")
  /\ UNCHANGED <<accepting, readiness, active, probe, waiter, settled, drainVars>>

\* An open transaction commits or rolls back.
End(t) ==
  /\ tx[t] = "open"
  /\ GotoTx(t, "finish")
  /\ UNCHANGED <<accepting, readiness, active, probe, waiter, settled, drainVars>>

\* transaction_finished: fetch_sub, and whoever took the count from one to
\* zero notifies.
Finish(t) ==
  /\ tx[t] = "finish"
  /\ active' = active - 1
  /\ GotoTx(t, IF active = 1 THEN "notify" ELSE "idle")
  /\ UNCHANGED <<accepting, readiness, probe, waiter, settled, drainVars>>

FinishNotify(t) ==
  /\ tx[t] = "notify"
  /\ NotifyWaiters
  /\ GotoTx(t, "idle")
  /\ UNCHANGED <<accepting, readiness, active, probe, settled, drainVars>>

----------------------------------------------------------------------------
\* update_readiness: load, give up if draining, compare and exchange with
\* what was loaded; a failed exchange (also a spurious one) loads again.
ProbeLoad(p) ==
  /\ probe[p] = "none"
  /\ readiness # "Draining"
  /\ probe' = [probe EXCEPT ![p] = readiness]
  /\ UNCHANGED <<accepting, readiness, active, tx, waiter, settled, drainVars>>

\* A fault: a plain store in place of the exchange.
ProbeStore(p, next) ==
  /\ probe[p] # "none"
  /\ readiness' = next
  /\ probe' = [probe EXCEPT ![p] = "none"]
  /\ UNCHANGED <<accepting, active, tx, waiter, settled, drainVars>>

ProbeExchange(p, next) ==
  /\ probe[p] # "none"
  /\ \/ probe[p] = readiness /\ readiness' = next
     \/ UNCHANGED readiness
  /\ probe' = [probe EXCEPT ![p] = "none"]
  /\ UNCHANGED <<accepting, active, tx, waiter, settled, drainVars>>

----------------------------------------------------------------------------
\* begin_drain: two stores, then the count decides whether to notify.
StoreAccepting ==
  /\ drain = "idle"
  /\ drain' = "storeReadiness"
  /\ buffer' = Append(buffer, "accepting")
  /\ UNCHANGED <<accepting, readiness, active, tx, probe, waiter, observed, settled>>

StoreReadiness ==
  /\ drain = "storeReadiness"
  /\ drain' = "load"
  /\ buffer' = Append(buffer, "readiness")
  /\ UNCHANGED <<accepting, readiness, active, tx, probe, waiter, observed, settled>>

LoadActive ==
  /\ drain = "load"
  /\ observed' = active
  /\ drain' = IF active = 0 THEN "notify" ELSE "done"
  /\ UNCHANGED <<accepting, readiness, active, buffer, tx, probe, waiter, settled>>

DrainNotify ==
  /\ drain = "notify"
  /\ buffer = <<>>
  /\ NotifyWaiters
  /\ drain' = "done"
  /\ UNCHANGED <<accepting, readiness, active, buffer, tx, probe, observed, settled>>

\* Memory takes the oldest buffered store.
Flush ==
  /\ buffer # <<>>
  /\ buffer' = Tail(buffer)
  /\ accepting' = (accepting /\ Head(buffer) # "accepting")
  /\ readiness' = IF Head(buffer) = "readiness" THEN "Draining" ELSE readiness
  /\ UNCHANGED <<active, tx, probe, drain, waiter, observed, settled>>

----------------------------------------------------------------------------
\* wait_for_transactions: load the count; if it is not zero, create the
\* Notified future (which sees notifications from then on) and await it.
WaitLoad ==
  /\ drain = "done"
  /\ waiter \in {"idle", "woken"}
  /\ waiter' = IF active = 0 THEN "returned" ELSE "create"
  /\ settled' = (active = 0 /\ ~accepting)
  /\ UNCHANGED <<accepting, readiness, active, tx, probe, drainVars>>

WaitCreate ==
  /\ waiter = "create"
  /\ waiter' = "waiting"
  /\ UNCHANGED <<accepting, readiness, active, tx, probe, settled, drainVars>>

Next ==
  \/ \E t \in Transaction :
       TryStart(t) \/ Join(t) \/ Recheck(t) \/ End(t) \/ Finish(t) \/ FinishNotify(t)
  \/ \E p \in Prober :
       ProbeLoad(p) \/ \E next \in {"Ready", "StorageUnavailable"} : ProbeExchange(p, next)
  \/ StoreAccepting \/ StoreReadiness \/ LoadActive \/ DrainNotify \/ Flush
  \/ WaitLoad \/ WaitCreate

Spec == Init /\ [][Next]_vars

\* Shutdown happens, threads run, stores reach memory, and transactions end.
\* New transactions need not arrive.
Fairness ==
  /\ WF_vars(StoreAccepting) /\ WF_vars(StoreReadiness)
  /\ WF_vars(LoadActive) /\ WF_vars(DrainNotify)
  /\ WF_vars(Flush)
  /\ WF_vars(WaitLoad) /\ WF_vars(WaitCreate)
  /\ \A t \in Transaction :
       /\ WF_vars(Join(t)) /\ WF_vars(Recheck(t)) /\ WF_vars(End(t))
       /\ WF_vars(Finish(t)) /\ WF_vars(FinishNotify(t))

FairSpec == Spec /\ Fairness

----------------------------------------------------------------------------
\* Transactions the count includes.
Counted == {t \in Transaction : tx[t] \in {"recheck", "open", "finish"}}

TypeOK ==
  /\ accepting \in BOOLEAN
  /\ readiness \in Readiness
  /\ active \in Nat
  /\ buffer \in Seq({"accepting", "readiness"})
  /\ tx \in [Transaction ->
              {"idle", "join", "recheck", "open", "finish", "notify"}]
  /\ probe \in [Prober -> Readiness \cup {"none"}]
  /\ drain \in {"idle", "storeReadiness", "load", "notify", "done"}
  /\ waiter \in {"idle", "create", "waiting", "woken", "returned"}
  /\ observed \in Nat
  /\ settled \in BOOLEAN

\* quackgis_transactions_active counts exactly the transactions that joined
\* and have not left: fetch_sub never underflows, and a start that loses the
\* race with the drain takes its own contribution back.
CountExact == active = Cardinality(Counted)

\* Once a drain that has reached memory is found to have no transaction
\* left, none is open and none ever opens: the second look at `accepting`
\* in try_start_transaction turns away whoever passed the first.
DrainedForGood == settled => \A t \in Transaction : tx[t] # "open"

\* A storage probe that finishes late never takes back Draining.
DrainingIsFinal ==
  [][readiness = "Draining" => readiness' = "Draining"]_readiness

\* The comment on try_start_transaction: a drain racing a start either
\* observes the transaction or makes the start fail.  So when begin_drain
\* has counted none, none is open.
DrainObservesOrRejects ==
  drain \in {"notify", "done"} /\ observed = 0
    => \A t \in Transaction : tx[t] # "open"

\* What the test of the drain expects: after the drain has begun and the
\* transactions have ended, wait_for_transactions returns.
WaitReturns == drain = "done" ~> waiter = "returned"
============================================================================
