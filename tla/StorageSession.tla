--------------------------- MODULE StorageSession ---------------------------
(***************************************************************************)
(* One DuckDbAdbcStorage of duckdb_adbc_storage.rs: the slot that holds    *)
(* its native connection, its transaction state, the operations that take  *)
(* the connection out of the slot, and the threads that cancel them.       *)
(*                                                                         *)
(* The slot is the ownership token.  An operation takes the connection,    *)
(* drives it through native calls any of which may fail, and either puts   *)
(* it back or quarantines the session by dropping it.  A session runs one  *)
(* operation at a time (pgwire handles one message of a client at a time); *)
(* a cancel thread that got hold of an operation's handle runs at its own  *)
(* pace, also after that operation has ended.                              *)
(*                                                                         *)
(* The handle's flags are written with Release and read with Acquire.  A   *)
(* thread's own store may therefore reach the other after its next load: a *)
(* store is buffered by its thread and drained at any later time, at the   *)
(* latest when the thread takes a lock (every native call does).           *)
(***************************************************************************)
EXTENDS Naturals, FiniteSets

CONSTANTS Op,         \* identities of operations; each is started once
          Canceller,  \* statement deadlines and cancel requests
          NoOp        \* no operation

ASSUME NoOpIsNoOp == NoOp \notin Op

VARIABLES
  slot,       \* the connection is in the slot
  state,      \* EngineTransactionState
  readOnly,   \* transaction_read_only
  counted,    \* this session's share of active_transactions
  accepting,  \* RuntimeLifecycle still accepts transactions
  dropped,    \* DuckDbAdbcStorage has been dropped
  \* the native connection
  txn,        \* "auto", or "open" inside a transaction
  pending,    \* writes of the open transaction
  durable,    \* writes that are committed
  \* the operation that has the connection
  kind, cur, pc, explicit, goal,
  \* cancellation handles and the threads that use them
  requested, closed, closing, cancel, target,
  \* what callers were told
  members,    \* successful writes of the open explicit transaction
  outcome     \* the answer each operation got

slotVars == <<slot, state, readOnly, counted>>
nativeVars == <<txn, pending, durable>>
opVars == <<kind, cur, pc, explicit, goal>>
handleVars == <<requested, closed, closing>>
cancelVars == <<cancel, target>>
answerVars == <<members, outcome>>
vars == <<slotVars, accepting, dropped, nativeVars, opVars, handleVars,
          cancelVars, answerVars>>

TransactionState == {"Idle", "Active", "Quarantined"}

Kind == {"none", "update", "ingest", "stream", "commit", "rollback",
         "scoped", "probe"}

\* What the caller of an operation knows of it.  "staged": accepted in a
\* transaction that is still open; "committed": an error that says the write
\* is committed; "read": the whole result of a query was read.
Answer == {"none", "staged", "ok", "failed", "cancelled", "indeterminate",
           "committed", "read"}

Init ==
  /\ slot = TRUE
  /\ state = "Idle"
  /\ readOnly = FALSE
  /\ counted = 0
  /\ accepting = TRUE
  /\ dropped = FALSE
  /\ txn = "auto"
  /\ pending = {}
  /\ durable = {}
  /\ kind = "none"
  /\ cur = NoOp
  /\ pc = "none"
  /\ explicit = FALSE
  /\ goal = "none"
  /\ requested = [o \in Op |-> FALSE]
  /\ closed = [o \in Op |-> FALSE]
  /\ closing = FALSE
  /\ cancel = [c \in Canceller |-> "idle"]
  /\ target = [c \in Canceller |-> NoOp]
  /\ members = {}
  /\ outcome = [o \in Op |-> "none"]

----------------------------------------------------------------------------
\* A fault: every state but Active leaves the drain set.
SetStateAlwaysLeaves(s) ==
  /\ state' = s
  /\ counted' = IF s # "Active" THEN counted - 1 ELSE counted
  /\ readOnly' = IF s = "Active" THEN readOnly ELSE FALSE

\* set_transaction_state: leaving Active leaves the drain set, and only an
\* active transaction is read-only.
SetState(s) ==
  /\ state' = s
  /\ counted' = IF state = "Active" /\ s # "Active" THEN counted - 1 ELSE counted
  /\ readOnly' = IF s = "Active" THEN readOnly ELSE FALSE

\* take_connection: the operation gets the connection.  (Without one its
\* caller gets an error, "busy" or "quarantined", and nothing changes.)
Take(k, o, at) ==
  /\ slot
  /\ slot' = FALSE
  /\ kind' = k
  /\ cur' = o
  /\ pc' = at
  /\ closing' = FALSE

Fresh(o) == outcome[o] = "none"

EndOperation ==
  /\ kind' = "none"
  /\ cur' = NoOp
  /\ pc' = "none"
  /\ explicit' = FALSE
  /\ goal' = "none"

\* The answer of the operation at hand; operations without one (commit and
\* rollback) answer for the writes of their transaction.
Tell(answer) ==
  outcome' = [o \in Op |-> IF o = cur THEN answer ELSE outcome[o]]

TellMembers(answer) ==
  /\ outcome' = [o \in Op |-> IF o \in members THEN answer ELSE outcome[o]]
  /\ members' = {}

\* A fault: quarantine does not leave the drain set.
QuarantineStaysCounted(answer) ==
  /\ state' = "Quarantined"
  /\ readOnly' = FALSE
  /\ slot' = FALSE
  /\ txn' = "auto"
  /\ pending' = {}
  /\ outcome' = [o \in Op |-> IF o = cur THEN answer
                              ELSE IF o \in members THEN "failed"
                              ELSE outcome[o]]
  /\ members' = {}
  /\ EndOperation
  /\ UNCHANGED counted

\* The session is quarantined and the native connection dropped with it,
\* which rolls its open transaction back.  Writes an open transaction had
\* accepted are lost with it.
Quarantine(answer) ==
  /\ SetState("Quarantined")
  /\ slot' = FALSE
  /\ txn' = "auto"
  /\ pending' = {}
  /\ outcome' = [o \in Op |-> IF o = cur THEN answer
                              ELSE IF o \in members THEN "failed"
                              ELSE outcome[o]]
  /\ members' = {}
  /\ EndOperation

\* Every native call and every return to the slot takes a lock, which first
\* drains the thread's store of `closed`.
Fenced == ~closing

----------------------------------------------------------------------------
\* begin_transaction_with_access.  (A refused or failed begin gives its
\* share of the count back and changes nothing.)
Begin(ro) ==
  /\ state = "Idle"
  /\ accepting
  /\ slot
  /\ txn' = "open"
  /\ counted' = counted + 1
  /\ state' = "Active"
  /\ readOnly' = ro
  /\ UNCHANGED <<slot, accepting, dropped, pending, durable, opVars,
                 handleVars, cancelVars, answerVars>>

\* RuntimeLifecycle::begin_drain
BeginDrain ==
  /\ accepting
  /\ accepting' = FALSE
  /\ UNCHANGED <<slotVars, dropped, nativeVars, opVars, handleVars,
                 cancelVars, answerVars>>

\* commit_transaction and rollback_transaction take the connection.
StartCommit ==
  /\ state = "Active"
  /\ Take("commit", NoOp, "commit")
  /\ explicit' = TRUE
  /\ goal' = "ok"
  /\ UNCHANGED <<state, readOnly, counted, accepting, dropped, nativeVars,
                 requested, closed, cancelVars, answerVars>>

StartRollback ==
  /\ state = "Active"
  /\ Take("rollback", NoOp, "rollback")
  /\ explicit' = TRUE
  /\ goal' = "failed"
  /\ UNCHANGED <<state, readOnly, counted, accepting, dropped, nativeVars,
                 requested, closed, cancelVars, answerVars>>

\* transaction(): a closure under a transaction of its own, and
\* rollback_write_probe, which never commits.
StartScoped(k, o) ==
  /\ k \in {"scoped", "probe"}
  /\ Fresh(o)
  /\ state = "Idle"
  /\ accepting
  /\ Take(k, o, "run")
  /\ txn' = "open"
  /\ state' = "Active"
  /\ counted' = counted + 1
  /\ explicit' = FALSE
  /\ goal' = "none"
  /\ UNCHANGED <<readOnly, accepting, dropped, pending, durable,
                 requested, closed, cancelVars, answerVars>>

----------------------------------------------------------------------------
\* A fault: require_writable is not called.
WritableAlways == TRUE

\* require_writable
Writable == ~(state = "Active" /\ readOnly)

\* start_update_operation
StartUpdate(o) ==
  /\ Fresh(o)
  /\ Writable
  /\ Take("update", o, "enter")
  /\ explicit' = (state = "Active")
  /\ goal' = "none"
  /\ UNCHANGED <<state, readOnly, counted, accepting, dropped, nativeVars,
                 requested, closed, cancelVars, answerVars>>

\* execute: outside an explicit transaction the write gets one of its own.
EnterWrite ==
  /\ kind = "update" /\ pc = "enter"
  /\ pc' = "run"
  /\ txn' = "open"
  /\ UNCHANGED <<slotVars, accepting, dropped, pending, durable, kind, cur,
                 explicit, goal, handleVars, cancelVars, answerVars>>

\* ... or autocommit cannot be disabled and the connection goes back.
EnterWriteFails ==
  /\ kind = "update" /\ pc = "enter"
  /\ ~explicit
  /\ slot' = TRUE
  /\ Tell("failed")
  /\ EndOperation
  /\ UNCHANGED <<state, readOnly, counted, accepting, dropped, nativeVars,
                 handleVars, cancelVars, members>>

\* The statement, or the closure of transaction().  It fails for reasons of
\* its own or because a native cancel interrupts it.
RunStatement ==
  /\ kind \in {"update", "scoped", "probe"} /\ pc = "run"
  /\ \/ pending' = pending \cup {cur} /\ goal' = "ok"
     \/ goal' = "failed" /\ UNCHANGED pending
  /\ pc' = CASE kind = "update" -> "close"
             [] kind = "probe"  -> "rollback"
             [] OTHER -> IF goal' = "ok" THEN "commit" ELSE "rollback"
  /\ UNCHANGED <<slotVars, accepting, dropped, txn, durable, kind, cur,
                 explicit, handleVars, cancelVars, answerVars>>

\* DuckDbCancelHandle::close
CloseHandle ==
  /\ kind = "update" /\ pc = "close"
  /\ closing' = TRUE
  /\ pc' = "decide"
  /\ UNCHANGED <<slotVars, accepting, dropped, nativeVars, kind, cur,
                 explicit, goal, requested, closed, cancelVars, answerVars>>

\* The buffered store of `closed` reaches memory.
FlushClosed ==
  /\ closing
  /\ closing' = FALSE
  /\ closed' = [closed EXCEPT ![cur] = TRUE]
  /\ UNCHANGED <<slotVars, accepting, dropped, nativeVars, opVars,
                 requested, cancelVars, answerVars>>

\* A fault: a cancelled write of an explicit transaction gives the
\* connection back like a failed one.
DecideKeepsExplicit ==
  /\ kind = "update" /\ pc = "decide"
  /\ goal' = IF requested[cur] THEN "cancelled" ELSE goal
  /\ pc' = IF explicit THEN "return"
           ELSE IF goal' = "ok" THEN "commit" ELSE "rollback"
  /\ UNCHANGED <<slotVars, accepting, dropped, nativeVars, kind, cur,
                 explicit, handleVars, cancelVars, answerVars>>

\* After close the write looks at `requested`: a cancelled write rolls back,
\* a write of an explicit transaction is done, the others end their own
\* transaction.
Decide ==
  /\ kind = "update" /\ pc = "decide"
  /\ goal' = IF requested[cur] THEN "cancelled" ELSE goal
  /\ pc' = IF requested[cur] THEN "rollback"
           ELSE IF explicit THEN "return"
           ELSE IF goal = "ok" THEN "commit" ELSE "rollback"
  /\ UNCHANGED <<slotVars, accepting, dropped, nativeVars, kind, cur,
                 explicit, handleVars, cancelVars, answerVars>>

\* A write of an explicit transaction gives the connection back as it is.
ReturnExplicit ==
  /\ kind = "update" /\ pc = "return" /\ Fenced
  /\ slot' = TRUE
  /\ Tell(IF goal = "ok" THEN "staged" ELSE "failed")
  /\ members' = IF goal = "ok" THEN members \cup {cur} ELSE members
  /\ EndOperation
  /\ UNCHANGED <<state, readOnly, counted, accepting, dropped, nativeVars,
                 handleVars, cancelVars>>

----------------------------------------------------------------------------
\* connection.commit() publishes the transaction and opens the next one; a
\* failure leaves it open whether the writes are durable.
NativeCommit ==
  /\ pc = "commit" /\ Fenced
  /\ pc' = "reconcile"
  /\ durable' = durable \cup pending
  /\ pending' = {}
  /\ UNCHANGED <<slotVars, accepting, dropped, txn, kind, cur, explicit,
                 goal, handleVars, cancelVars, answerVars>>

NativeCommitFails ==
  /\ pc = "commit" /\ Fenced
  /\ durable' \in {durable, durable \cup pending}
  /\ SetState("Quarantined")
  /\ txn' = "auto"
  /\ pending' = {}
  /\ outcome' = [o \in Op |-> IF o = cur \/ o \in members
                              THEN "indeterminate" ELSE outcome[o]]
  /\ members' = {}
  /\ EndOperation
  /\ UNCHANGED <<slot, accepting, dropped, handleVars, cancelVars>>

\* reconcile_catalog_identity_registry_on, a transaction of its own.
Reconcile ==
  /\ pc = "reconcile"
  /\ pc' = "restore"
  /\ UNCHANGED <<slotVars, accepting, dropped, nativeVars, kind, cur,
                 explicit, goal, handleVars, cancelVars, answerVars>>

\* When the reconciliation or the restoration of autocommit after it fails,
\* the session is quarantined, and the answer says the write is committed.
CommitCleanupFails ==
  /\ pc \in {"reconcile", "restore"}
  /\ goal = "ok"
  /\ SetState("Quarantined")
  /\ txn' = "auto"
  /\ outcome' = [o \in Op |-> IF o = cur \/ o \in members
                              THEN "committed" ELSE outcome[o]]
  /\ members' = {}
  /\ EndOperation
  /\ UNCHANGED <<slot, accepting, dropped, pending, durable, handleVars,
                 cancelVars>>

\* connection.rollback().  What the operation wrote is undone, which is also
\* what the caller of a probe asked for.
NativeRollback ==
  /\ pc = "rollback" /\ Fenced
  /\ pc' = "restore"
  /\ pending' = {}
  /\ goal' = IF goal = "cancelled" THEN goal ELSE "failed"
  /\ UNCHANGED <<slotVars, accepting, dropped, txn, durable, kind, cur,
                 explicit, handleVars, cancelVars, answerVars>>

\* A fault: autocommit is restored although the rollback failed.
RollbackFailsRestores ==
  /\ pc = "rollback" /\ Fenced
  /\ pc' = "restore"
  /\ goal' = IF goal = "cancelled" THEN goal ELSE "failed"
  /\ UNCHANGED <<slotVars, accepting, dropped, nativeVars, kind, cur,
                 explicit, handleVars, cancelVars, answerVars>>

RollbackFails ==
  /\ \/ pc = "rollback" /\ Fenced
     \/ pc = "restore" /\ goal # "ok"
  /\ Quarantine(IF goal = "cancelled" THEN "indeterminate" ELSE "failed")
  /\ UNCHANGED <<accepting, dropped, durable, handleVars, cancelVars>>

\* restore_autocommit ends the transaction opened by the last commit or
\* rollback, committing what it holds.  The connection goes back and the
\* transaction, if it was the session's, is over; a cancelled write of an
\* explicit transaction quarantines the session even so.
RestoreAutocommit ==
  /\ pc = "restore"
  /\ ~(explicit /\ goal = "cancelled")
  /\ txn' = "auto"
  /\ durable' = durable \cup pending
  /\ pending' = {}
  /\ slot' = TRUE
  /\ IF state = "Active"
     THEN SetState("Idle")
     ELSE UNCHANGED <<state, counted, readOnly>>
  /\ IF cur = NoOp
     THEN TellMembers(goal)
     ELSE Tell(goal) /\ UNCHANGED members
  /\ EndOperation
  /\ UNCHANGED <<accepting, dropped, handleVars, cancelVars>>

RestoreThenQuarantine ==
  /\ pc = "restore"
  /\ explicit /\ goal = "cancelled"
  /\ durable' = durable \cup pending
  /\ Quarantine("cancelled")
  /\ UNCHANGED <<accepting, dropped, handleVars, cancelVars>>

----------------------------------------------------------------------------
\* query_bound_stream_at_catalog_epoch.  (When the epoch does not match or
\* the setup fails the connection goes straight back.)
OpenStream(o) ==
  /\ Fresh(o)
  /\ Take("stream", o, "streaming")
  /\ explicit' = (state = "Active")
  /\ goal' = "none"
  /\ UNCHANGED <<state, readOnly, counted, accepting, dropped, nativeVars,
                 requested, closed, cancelVars, answerVars>>

\* next_batch reaches the end of the result, or an error.
NextBatch ==
  /\ kind = "stream" /\ pc = "streaming"
  /\ pc' = "ended"
  /\ goal' \in {"ok", "failed"}
  /\ UNCHANGED <<slotVars, accepting, dropped, nativeVars, kind, cur,
                 explicit, handleVars, cancelVars, answerVars>>

\* A fault: an abandoned stream marks the session quarantined but gives the
\* connection back.
DropStreamKeeps ==
  /\ kind = "stream"
  /\ slot' = TRUE
  /\ Tell("read")
  /\ EndOperation
  /\ IF goal = "ok" /\ ~requested[cur]
     THEN UNCHANGED <<state, readOnly, counted>>
     ELSE SetState("Quarantined")
  /\ UNCHANGED <<txn, pending, members>>
  /\ UNCHANGED <<accepting, dropped, durable, handleVars, cancelVars>>

\* Drop for DuckDbBatchStream, after the end or in the middle of the result.
DropStream ==
  /\ kind = "stream"
  /\ IF goal = "ok" /\ ~requested[cur]
     THEN /\ slot' = TRUE
          /\ Tell("read")
          /\ EndOperation
          /\ UNCHANGED <<state, readOnly, counted, txn, pending, members>>
     ELSE Quarantine("failed")
  /\ UNCHANGED <<accepting, dropped, durable, handleVars, cancelVars>>

----------------------------------------------------------------------------
\* start_ingest_operation
StartIngest(o) ==
  /\ Fresh(o)
  /\ Writable
  /\ Take("ingest", o, "schema")
  /\ explicit' = (state = "Active")
  /\ goal' = "none"
  /\ UNCHANGED <<state, readOnly, counted, accepting, dropped, nativeVars,
                 requested, closed, cancelVars, answerVars>>

\* execute: the target's schema cannot be read.  The error returns at once,
\* and the connection is dropped with the local variable that held it.
IngestSchemaFails ==
  /\ kind = "ingest" /\ pc = "schema"
  /\ txn' = "auto"
  /\ pending' = {}
  /\ Tell("failed")
  /\ EndOperation
  /\ UNCHANGED <<slotVars, accepting, dropped, durable, handleVars,
                 cancelVars, members>>

\* The maintained bounding boxes rule the input out: nothing was done yet.
IngestLayoutFails ==
  /\ kind = "ingest" /\ pc = "schema"
  /\ slot' = TRUE
  /\ Tell("failed")
  /\ EndOperation
  /\ UNCHANGED <<state, readOnly, counted, accepting, dropped, nativeVars,
                 handleVars, cancelVars, members>>

\* The temporary stage is created and loaded.
LoadStage ==
  /\ kind = "ingest" /\ pc = "schema"
  /\ \/ pc' = "check" /\ UNCHANGED goal
     \/ pc' = "dropStage" /\ goal' = "failed"
  /\ UNCHANGED <<slotVars, accepting, dropped, nativeVars, kind, cur,
                 explicit, handleVars, cancelVars, answerVars>>

\* The last look at `requested` before the target is touched.
CheckCancelled ==
  /\ kind = "ingest" /\ pc = "check"
  /\ pc' = IF requested[cur] THEN "dropStage" ELSE "publish"
  /\ goal' = IF requested[cur] THEN "failed" ELSE goal
  /\ UNCHANGED <<slotVars, accepting, dropped, nativeVars, kind, cur,
                 explicit, handleVars, cancelVars, answerVars>>

\* One INSERT from the stage: part of the open transaction, or committed by
\* itself.  That a failed one has written nothing is assumed of the native
\* connection, also when a cancel interrupts its implicit commit (the handle
\* of an ingestion is never closed): no code here deals with another outcome.
Publish ==
  /\ kind = "ingest" /\ pc = "publish"
  /\ pc' = "dropStage"
  /\ \/ /\ goal' = "ok"
        /\ IF txn = "open"
           THEN pending' = pending \cup {cur} /\ UNCHANGED durable
           ELSE durable' = durable \cup {cur} /\ UNCHANGED pending
     \/ goal' = "failed" /\ UNCHANGED <<pending, durable>>
  /\ UNCHANGED <<slotVars, accepting, dropped, txn, kind, cur, explicit,
                 handleVars, cancelVars, answerVars>>

\* The stage is dropped; a late cancel, or a stage that stays behind,
\* quarantines the session, and a published COPY succeeds all the same.
DropStage(clean) ==
  /\ kind = "ingest" /\ pc = "dropStage"
  /\ LET answer == IF goal # "ok" THEN "failed"
                   ELSE IF explicit THEN "staged" ELSE "ok"
     IN  IF clean /\ ~requested[cur]
         THEN /\ slot' = TRUE
              /\ Tell(answer)
              /\ members' = IF answer = "staged" THEN members \cup {cur} ELSE members
              /\ EndOperation
              /\ UNCHANGED <<state, readOnly, counted, txn, pending>>
         ELSE Quarantine(IF answer = "staged" THEN "failed" ELSE answer)
  /\ UNCHANGED <<accepting, dropped, durable, handleVars, cancelVars>>

----------------------------------------------------------------------------
\* Drop for DuckDbAdbcStorage: an open transaction is rolled back if the
\* connection is at hand (whatever comes of it), and the connection goes.
DropStorage ==
  /\ ~dropped
  /\ kind = "none"           \* an operation keeps its owner alive
  /\ dropped' = TRUE
  /\ IF state = "Active" /\ slot
     THEN \E s \in {"Idle", "Quarantined"} : SetState(s)
     ELSE UNCHANGED <<state, readOnly, counted>>
  /\ slot' = FALSE
  /\ txn' = "auto"
  /\ pending' = {}
  /\ TellMembers("failed")
  /\ UNCHANGED <<accepting, durable, opVars, handleVars, cancelVars>>

----------------------------------------------------------------------------
\* A deadline expires or a cancel request finds the operation in the
\* registry; DuckDbCancelHandle::cancel runs when a worker is free.
Aim(c) ==
  /\ cancel[c] = "idle"
  /\ kind \in {"update", "ingest", "stream"}
  /\ target' = [target EXCEPT ![c] = cur]
  /\ cancel' = [cancel EXCEPT ![c] = "look"]
  /\ UNCHANGED <<slotVars, accepting, dropped, nativeVars, opVars,
                 handleVars, answerVars>>

LookClosed(c) ==
  /\ cancel[c] = "look"
  /\ cancel' = [cancel EXCEPT ![c] = IF closed[target[c]] THEN "done" ELSE "store"]
  /\ UNCHANGED <<slotVars, accepting, dropped, nativeVars, opVars,
                 handleVars, target, answerVars>>

\* The store of `requested` is buffered until FlushRequested.
StoreRequested(c) ==
  /\ cancel[c] = "store"
  /\ cancel' = [cancel EXCEPT ![c] = "lookAgain"]
  /\ UNCHANGED <<slotVars, accepting, dropped, nativeVars, opVars,
                 handleVars, target, answerVars>>

LookAgain(c) ==
  /\ cancel[c] = "lookAgain"
  /\ cancel' = [cancel EXCEPT ![c] = IF closed[target[c]] THEN "flush" ELSE "lock"]
  /\ UNCHANGED <<slotVars, accepting, dropped, nativeVars, opVars,
                 handleVars, target, answerVars>>

FlushRequested(c) ==
  /\ cancel[c] \in {"lookAgain", "flush", "lock"}
  /\ ~requested[target[c]]
  /\ requested' = [requested EXCEPT ![target[c]] = TRUE]
  /\ UNCHANGED <<slotVars, accepting, dropped, nativeVars, opVars, closed,
                 closing, cancelVars, answerVars>>

\* The handle's lock drains the store; then the native cancel interrupts
\* whatever statement the connection runs, if any.  A handle found closed is
\* left alone.
NativeCancel(c) ==
  /\ \/ cancel[c] = "lock" /\ requested[target[c]]
     \/ cancel[c] = "flush" /\ requested[target[c]]
  /\ cancel' = [cancel EXCEPT ![c] = "done"]
  /\ UNCHANGED <<slotVars, accepting, dropped, nativeVars, opVars,
                 handleVars, target, answerVars>>

----------------------------------------------------------------------------
Next ==
  \/ \E ro \in BOOLEAN : Begin(ro)
  \/ BeginDrain
  \/ StartCommit \/ StartRollback
  \/ \E o \in Op :
       \/ StartUpdate(o) \/ StartIngest(o) \/ OpenStream(o)
       \/ \E k \in {"scoped", "probe"} : StartScoped(k, o)
  \/ EnterWrite \/ EnterWriteFails \/ RunStatement
  \/ CloseHandle \/ FlushClosed \/ Decide \/ ReturnExplicit
  \/ NativeCommit \/ NativeCommitFails \/ Reconcile \/ CommitCleanupFails
  \/ NativeRollback \/ RollbackFails
  \/ RestoreAutocommit \/ RestoreThenQuarantine
  \/ NextBatch \/ DropStream
  \/ IngestSchemaFails \/ IngestLayoutFails \/ LoadStage
  \/ CheckCancelled \/ Publish
  \/ \E clean \in BOOLEAN : DropStage(clean)
  \/ DropStorage
  \/ \E c \in Canceller :
       Aim(c) \/ LookClosed(c) \/ StoreRequested(c) \/ LookAgain(c)
       \/ FlushRequested(c) \/ NativeCancel(c)

Spec == Init /\ [][Next]_vars

----------------------------------------------------------------------------
TypeOK ==
  /\ slot \in BOOLEAN
  /\ state \in TransactionState
  /\ readOnly \in BOOLEAN
  /\ counted \in {0, 1}
  /\ accepting \in BOOLEAN
  /\ dropped \in BOOLEAN
  /\ txn \in {"auto", "open"}
  /\ pending \in SUBSET Op
  /\ durable \in SUBSET Op
  /\ kind \in Kind
  /\ cur \in Op \cup {NoOp}
  /\ pc \in {"none", "enter", "run", "close", "decide", "return", "commit",
             "reconcile", "rollback", "restore", "streaming", "ended",
             "schema", "check", "publish", "dropStage"}
  /\ explicit \in BOOLEAN
  /\ goal \in {"none", "ok", "failed", "cancelled"}
  /\ requested \in [Op -> BOOLEAN]
  /\ closed \in [Op -> BOOLEAN]
  /\ closing \in BOOLEAN
  /\ cancel \in [Canceller -> {"idle", "look", "store", "lookAgain", "flush",
                               "lock", "done"}]
  /\ target \in [Canceller -> Op \cup {NoOp}]
  /\ members \in SUBSET Op
  /\ outcome \in [Op -> Answer]

\* Whoever takes the connection out of the slot is its only user and finds
\* it in the state it expects: no open transaction and nothing pending when
\* the session is idle, an open transaction holding exactly the accepted
\* writes when it is active.  A quarantined session has no connection.
ReusedConnectionIsClean ==
  /\ slot => kind = "none" /\ ~dropped
  /\ slot /\ state = "Idle" => txn = "auto" /\ pending = {}
  /\ slot /\ state = "Active" => txn = "open" /\ pending = members
  /\ state = "Quarantined" => ~slot /\ kind = "none"

\* Answers are true whatever fails and whenever a cancel arrives: a write
\* reported successful, or committed by an error that says so, is durable;
\* one reported failed or cancelled is not, and never becomes so; and one
\* accepted in an explicit transaction is not durable before the commit.
AnswersAreTrue ==
  \A o \in Op :
    /\ outcome[o] \in {"ok", "committed"} => o \in durable
    /\ outcome[o] \in {"failed", "cancelled", "read"} => o \notin durable
    /\ outcome[o] = "staged" /\ kind # "commit" => o \notin durable

\* The session is in the drain set exactly while its transaction state is
\* Active, so that no path leaves it twice, or leaves it with a transaction
\* open, or sets another state and stays.  That every transaction leaves
\* Active is not claimed and not true: one whose COPY has lost the connection
\* (IngestSchemaFails, see ConnectionAccounted) is counted for good, also
\* when its session is dropped.
DrainShareExact == counted = IF state = "Active" THEN 1 ELSE 0

\* Quarantine is final: no operation runs on the session again and nothing
\* it had pending becomes durable.
QuarantineIsFinal ==
  [][state = "Quarantined" =>
       state' = "Quarantined" /\ durable' = durable /\ kind' = "none"]_vars

\* A write rejected in a read-only transaction stays rejected: no write is
\* ever pending while one is open.
ReadOnlyWritesNothing == readOnly => pending = {} /\ members = {}

\* The connection is in the slot, with an operation, or lost with the
\* session quarantined (the comment on the field `connection`).
ConnectionAccounted ==
  ~dropped /\ ~slot /\ kind = "none" => state = "Quarantined"

\* docs/OPERATIONS.md: the cancellation handle closes before commit starts,
\* and commit is not cancellable.  No cancel of a write is about to reach
\* the connection once that write has gone on to commit.
CommitNotCancelled ==
  \A c \in Canceller :
    ~(cancel[c] = "lock" /\ kind = "update" /\ target[c] = cur /\ goal = "ok"
      /\ pc \in {"commit", "reconcile", "restore"})
============================================================================
