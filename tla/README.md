# QuackGIS: specifications and proofs

TLA+ models of the concurrent and transactional parts of QuackGIS, the TLC
configurations that check them on small instances, and TLAPS proofs of the
storage session. `PROJECT.json` maps every definition to the lines it models
and lists runs, mutants, findings, hazards and theorems.

    tlc -workers 2 -config MCStorageSession.cfg StorageSession
    tlapm StorageSessionProofs.tla

## 1. The system

QuackGIS puts a PostgreSQL wire protocol (`quackgis-server`, over a vendored
`pgwire`) in front of DuckDB, reached through ADBC, with tables in DuckLake.

| Part | State | Operations | Hard behaviour |
|---|---|---|---|
| Blocking worker pool (`execution_control.rs`) | two semaphores, gauges | acquire, run, drop, abandon | one slot is reserved for cancels; tasks interleave at every await |
| Admission controller (`execution_control.rs`) | queue slots, class and global permits, gauges | acquire under a deadline, drop | two-stage acquisition, timeout against a permit being handed over |
| Runtime lifecycle (`lifecycle.rs`) | accepting, readiness, count, Notify | start, finish, drain, wait, probe | lock-free accesses with Acquire/Release; lost wake-ups |
| Storage session (`duckdb_adbc_storage.rs`) | connection slot, transaction state, cancel handles | begin, commit, rollback, update, stream, ingest, probe, drop, cancel | each native call can fail; a cancel may come at any time, also late |
| COPY (`pgwire_server/duckdb.rs`, `copy_text.rs`) | decoder, bounded channel, abort flag, worker, stage | data, done, fail, disconnect, cancel | reader blocked on a silent client, wake-up on a full channel |
| Wire sessions (`pgwire_server/duckdb.rs`, `vendor/pgwire`) | transaction status, prepared statements, cursors, portals | parse, execute, fetch, close, begin, commit, rollback | streams keep permits and the connection between messages |
| Active queries, deadlines (`execution_control.rs`) | map of cancel handles | register, cancel, expire | a handle used after its statement has ended |
| Catalog identity (`duckdb_adbc_storage.rs`, `postgres_compat.rs`) | registry, epochs, commit lock | commit, reconcile, compare epoch | schema changes of other sessions under a prepared statement |
| Role session (`role.rs`, `auth.rs`) | effective role, request settings, epoch | set, reset, end of transaction | transaction-local settings undone at the end of the block |
| Listener, shutdown (`pgwire_server.rs`, `main.rs`) | connection limit, join set | accept, drain, abort | the shutdown deadline against open sessions |
| Storage authority (`storage_authority.rs`) | marker file | claim | crash between creation and write |
| Edge (`quackgis-edge`) | leases, sessions, streams | lease, authenticate, open, forward | expiry while streams are open |
| Migration (`quackgis-migrate`) | staging and release tables, reports | run, verify, promote, clean up | indeterminate commits |
| REST (`quackgis-rest`) | schema caches by role | discover, validate | slow discovery overtaken by a fast one |

A statement takes an admission permit, then the connection of its session, and
runs native calls on a blocking worker; a deadline task and cancel requests
reach it through its cancel handle, on the worker reserved for them. An explicit
transaction keeps its session in the drain set. A stream keeps connection and
permit until it is dropped; COPY moves both into its worker.

## 2. Modules

| Module | Models |
|---|---|
| `Semaphore` | tokio's fair semaphore (external), as operators on a record of holders and queue |
| `BoundedExecution` | abstract: at most so many operations run, overall and per class |
| `WorkerPool`, `Admission` | the two users of semaphores; both implement `BoundedExecution` |
| `MCAdmission`, `MCWireSessions` | constants and symmetry of two instances |
| `Lifecycle` | one step per atomic access; the drain thread's stores go through a store buffer |
| `StorageSession` | one session: slot, transaction, operations step by step, cancel threads |
| `StorageSessionProofs` | the inductive invariant and the theorems |
| `AtomicCopy` | abstract: what COPY promises its client |
| `CopyIngest` | one COPY from the first chunk to the answer; implements `AtomicCopy` |
| `WireSessions` | sessions over shared admission, above the storage session |

Definitions keep the names of the code where there is one (`Quarantine`,
`SetState` for `set_transaction_state`, `TryStart` for
`try_start_transaction`). An operator introduced by "A fault:" is a mutated
form of the definition after it; no specification uses it.

**WorkerPool, Admission.** `pc` says at which await point or at which step of
its drop an operation is. A permit handed to a waiter counts as held before the
waiter is polled, as in tokio. `Abandon` drops the future (a finished statement
aborts its deadline task; a connection task is aborted at shutdown); `Timeout`
happens only to an acquisition that owns nothing new, because
`tokio::time::timeout` polls the acquisition first. The gauges for the queue and
the separate gauges for control and regular work follow the same pattern and
are left out.

**Lifecycle.** `begin_drain` stores with Release and then loads with Acquire.
That does not order the store before the load, so its stores wait in `buffer`
until memory takes them. Everybody else writes with read-modify-write
operations. `Notify` wakes those who wait at that moment.

**StorageSession.** The native connection is external: `txn` says whether a
transaction is open, `pending` which writes it holds, `durable` which are
committed. It is modelled from its use: disabling autocommit opens a
transaction; commit and rollback end it and open the next; restoring autocommit
commits what is open; dropping the connection rolls back; a failed commit may or
may not have committed, as its callers assume. A failed statement is taken to
have written nothing, and for the INSERT that publishes a COPY outside a block
(line 1622, `Publish` here, `PublishStage` in `CopyIngest`) this is an assumption
about DuckDB that carries weight: that statement commits by itself, COPY never
closes its cancel handle, so a cancel may interrupt the implicit commit, and the
code reports its failure as a plain failure or a cancel, never as indeterminate.
`AnswersAreTrue` and `PromiseKept` hold for such a COPY only if an error means
that nothing was committed. `outcome` records what
the caller of each operation was told, `members` the writes of the open explicit
transaction. One session runs one operation at a time, because pgwire handles
one message of a client at a time; the steps between taking and returning the
connection interleave with cancel threads only. The two steps "connection back,
then state Idle" are one, since nobody else looks at the session in between.
The cancel handle's flags are Release/Acquire, so their stores are buffered:
`CloseHandle` and `FlushClosed`, and `FlushRequested`, are separate steps.
Left out: poisoned mutexes (a panic inside a short critical section), the
commit lock across sessions, operations that were created and dropped without
being executed (only a forced shutdown does that), and clones of a connection
that a cancel thread still holds when the session has dropped its own. A COPY
published in a block and then hit by a late cancel returns its row count; since
the session is quarantined in the same step, and the transaction with it,
`DropStage` records the answer as "failed" at once.

**CopyIngest.** Rows are numbered and a chunk is a number of complete rows; the
decoder emits a batch per `BatchRows` rows (that a batch may be split again by
bytes only makes more batches). `permit` is the tokio channel's hand-over to a
waiting sender. The flag `aborted` is sequentially consistent here, which is an
assumption: `abort_input` stores it with Release and `try_send` on a full channel
only loads, so `AbortEndsWorker` relies on the store reaching memory before the
worker has loaded the two batches that `try_send` found queued.
`CopyTextDecoder::new` fails only for limits of zero, which the command
line refuses, and is left out.

**WireSessions.** `status` is the transaction status pgwire keeps for the
connection and `engine` the storage's view of the transaction. `failed` and
`published` are history, read by no guard: in which transactions a statement has
failed, and which of those were committed. They do not look at `status`, so an
error that does not reach it, or a command that resets it, shows. A command waits for admission, runs, answers. Admission is used as
`BoundedExecution` promises and the storage as `StorageSession` answers.
`Preparable` and `MaxPrepared` bound what clients parse in advance; `prepared` matters
because only Parse and simple queries look at a failed block. `readers` tells
the permit of a command from that of its session's stream. Left out: several
cursors at a time, the two cursor batches (sequences of modelled commands), COPY
and maintenance commands within a session, the role session, and the order of
the admission queue. COPY matters for what the client is told: ReadyForQuery
carries `status`, except at the end of a simple-protocol COPY, where
`vendor/pgwire/src/tokio/server.rs:262` sends Idle although a block may be open
(OPERATIONS.md:311-312 names this edge). `StatusMatchesStorage` is therefore a
statement about the status kept, not about every ReadyForQuery.

## 3. Runs

Passing runs:

| Run | Bounds | States | Shows |
|---|---|---|---|
| `worker_pool` | 3 regular, 2 control, 2 workers | 10,024 | a cancel runs although regular work is stuck; gauges; refinement |
| `admission` | 2 readers, 2 writers, class limits 2 and 1, 2 in all, 3 slots | 70,404 | limits, no hoarding, slots, everyone served while statements end; refinement |
| `lifecycle` | 3 transactions, 1 prober | 69,838 | count exact, a drain found empty stays empty, Draining final |
| `storage_session` | 3 operations, 1 canceller | 719,124 | clean reuse, true answers, drain share, read-only, quarantine final |
| `copy_ingest` | 9 rows in chunks of up to 9, batches of 2, channel of 2, 2 cancellers | 42,579 | atomic publication (refinement), abort ends the worker, answers |
| `wire_sessions` | 2 symmetric sessions, 2 permits, 1 writer, 1 prepared statement | 1,088,998 | the status kept and storage agree, one stream, a transaction with a failed statement is never committed, permits accounted |

Why these bounds are enough to be interesting: in each semaphore instance there
are more callers than permits of every kind, so that queues of two form and
hand-over, timeout and abandonment meet. Three storage operations are two
members of an explicit transaction and one that reuses the connection after
them, with a canceller aimed at any of them. Nine rows fill the channel twice
over, so a sender waits, and Abort meets a full channel. Sessions interact
through permits only, so two of them show every conflict between a session's own
stream and somebody else's command; a prepared statement matters by itself (it
is let through in a failed block), so one at a time, of any kind, is enough.

Runs that end in a violation state what a document, comment or test says; each
has a finding in `PROJECT.json`:

| Run | Says | The code |
|---|---|---|
| `lifecycle_observe` | a drain observes a racing start or makes it fail (comment) | neither, when the store of `accepting` is delayed |
| `lifecycle_wait` | the wait for transactions returns (test) | the last wake-up can fall between load and `notified()` |
| `storage_accounted` | an empty slot is a taken or quarantined connection (comment) | COPY loses it when the target's schema cannot be read; a transaction it was in can neither end nor leave the drain set |
| `storage_commit_cancel` | commit cannot be cancelled (OPERATIONS.md) | a cancel past its last look at `closed` reaches it, if a store of one of the two flags is delayed past its thread's next load |
| `wire_failed_block` | work in a failed block is refused (OPERATIONS.md) | Execute of an already parsed statement is not |
| `wire_rollback` | capacity is reserved for rollback (ARCHITECTURE.md) | ROLLBACK waits for the permit its own stream holds |

`AnswersAreTrue` and `FailedBlockPublishesNothing` hold all the same: a commit
hit by a cancel is answered as indeterminate, and a failed block is rolled back
whatever ran in it. `DrainShareExact` holds too, but it ties the share to the
transaction state only: the transaction of `storage_accounted` stays Active and
counted, also after its session is dropped.

**Fairness.** The executor polls ready tasks and native control calls return:
weak fairness of every internal step. Regular closures need not end in
`worker_pool`; clients owe nothing in `copy_ingest`; queue deadlines may be
arbitrarily late in `admission`, while admitted statements end. The last is an
assumption on clients as well as on deadlines: a deadline interrupts a native
call, but a suspended portal or cursor whose deadline has passed keeps its
Reader permit until its client fetches, closes it, ends the block or leaves. So
`Served` says that admission itself starves nobody, not that a reader is served
while other sessions keep suspended streams. In `wire_rollback` the client keeps asking for
ROLLBACK and a command that could be admitted again and again is (the semaphore
is fair). In `lifecycle_wait` stores reach memory and transactions end.

**Deadlock** is checked except where the system stops: after a drain, when the
operations of an instance are used up, and after a COPY.

## 4. Proofs

`StorageSessionProofs` proves, for any sets of operations and cancel threads
and from the sole assumption `NoOp \notin Op`: `TypeCorrect`, `CleanReuse`,
`TrueAnswers`, `DrainShare`, `ReadOnly` and `QuarantineFinal`, the properties
of run `storage_session`.

None of them is inductive. Whether a connection is clean when it goes back
depends on what the operation did with it, and whether an answer is true on
what the transaction held. The invariant `IInv` has two layers:

- `Control`: types and drain share (`Typed`), the steps each kind of operation
  may be at and what it then aims for (`Phases`), that the connection is in the
  slot, with one operation or gone (`Ownership`), and which operations run in
  the session's own transaction (`Transactions`). It is inductive by itself.
- `Content`: `members` are the writes answered "staged" (`Answered`), which
  writes are durable at each step of a commit or publication (`Durability`),
  and what the native transaction holds (`Holdings`). It is inductive relative
  to `Control`.

`LeaveState`, `EndOperationEnds` and `QuarantineTypes` are the lemmas about
`set_transaction_state` and quarantine that every path out of an operation
uses. `IInv` holds on the instance of `MCStorageSession.cfg` by TLC as well.

Only model-checked: liveness (outside the prover's reach), the refinements, and
the other modules.

## 5. Plan

1. `CatalogIdentity`: commits of several sessions under the commit lock,
   reconciliation, epochs against prepared statements and cursors; composed
   with the storage session's commit.
2. `RoleSession`: SET ROLE and request settings against the end of a block.
3. `CopyTextDecoder`: `push` over bytes as a fold, checked against a one-pass
   reference for every split into chunks.
4. `Registry`: registration, removal by key, deadlines and late cancels.
5. `Shutdown`: listener, limiter and join set, composed with `Lifecycle`.
6. `EdgeLease`, `Migration`, `RestSchemaCache`, `StorageAuthority`.
7. Proofs: `WorkerPool` and `Admission` (semaphore lemmas, the reserved slot,
   the refinement of `BoundedExecution`), `Lifecycle` (`CountExact`,
   `DrainedForGood`), `WireSessions` (`StatusMatchesStorage`, `OneStream`),
   `CopyIngest` implements `AtomicCopy`.

Not planned, as pure data transformations or I/O: SQL rewriting and statement
policy, catalog emulation queries, metrics and audit, message codecs,
compression, migration planning and reports, deployment scripts.
