---------------------------- MODULE WireSessions ----------------------------
(***************************************************************************)
(* Client sessions of pgwire_server/duckdb.rs over one admission           *)
(* controller: the transaction status pgwire keeps, the transaction state  *)
(* of the session's storage, SQL cursors and extended-protocol portals     *)
(* whose streams keep the connection and a Reader permit, and the          *)
(* commands that need permits of their own.                                *)
(*                                                                         *)
(* A session handles one message at a time; a command waits for admission, *)
(* runs, and answers.  Admission is used as BoundedExecution promises it:  *)
(* a waiting command is admitted when its class and the whole have room,   *)
(* or gives up.  StorageSession is used as its answers promise.            *)
(***************************************************************************)
EXTENDS Naturals, FiniteSets

CONSTANTS Session,
          Preparable,   \* commands clients prepare in advance
          MaxPrepared,  \* bound: statements prepared at a time
          MaxActive,    \* max_active_queries
          ReaderLimit,  \* max_reader_queries
          WriterLimit   \* max_writer_queries

ASSUME WireLimits ==
  /\ IsFiniteSet(Session)
  /\ Preparable \subseteq {"begin", "write", "read", "fetch", "close"}
  /\ MaxPrepared \in Nat
  /\ MaxActive \in Nat
  /\ ReaderLimit \in 1..MaxActive
  /\ WriterLimit \in 1..MaxActive

VARIABLES
  status,    \* TransactionStatus of the pgwire connection
  engine,    \* EngineTransactionState of its storage
  cursor,    \* its SQL cursor: "none", "declared", "suspended", "finished"
  portal,    \* it has a suspended portal
  expired,   \* the deadline of its open stream has cancelled it
  prepared,  \* commands it has parsed
  command,   \* the command at hand
  pc,        \* "ready", "wait", "run"
  readers,   \* Reader permits: <<s, "command">> and <<s, "stream">>
  writers,   \* sessions whose command holds a Writer permit
  failed,    \* history: sessions in whose open transaction a statement failed
  published  \* history: sessions that have committed such a transaction

txnVars == <<status, engine, failed, published>>
streamVars == <<cursor, portal, expired>>
permitVars == <<readers, writers>>
vars == <<txnVars, streamVars, prepared, command, pc, permitVars>>

EndOfBlock == {"commit", "rollback"}

ParseFor == [c \in {"write", "read"} |->
               IF c = "write" THEN "parse write" ELSE "parse read"]
Command ==
  {"begin", "write", "read", "fetch", "declare"} \cup EndOfBlock
    \cup {ParseFor[c] : c \in Preparable \cap {"write", "read"}}

Init ==
  /\ status = [s \in Session |-> "Idle"]
  /\ engine = [s \in Session |-> "Idle"]
  /\ cursor = [s \in Session |-> "none"]
  /\ portal = [s \in Session |-> FALSE]
  /\ expired = [s \in Session |-> FALSE]
  /\ prepared = [s \in Session |-> {}]
  /\ command = [s \in Session |-> "none"]
  /\ pc = [s \in Session |-> "ready"]
  /\ readers = {} /\ writers = {}
  /\ failed = {} /\ published = {}

----------------------------------------------------------------------------
\* The session's connection is with a stream.
Streaming(s) == cursor[s] = "suspended" \/ portal[s]

\* A fault: the error leaves a block as it was.
ToErrorStateKeeps(st) == st

\* TransactionStatus::to_error_state
ToErrorState(st) == IF st = "Idle" THEN "Idle" ELSE "Error"

\* validate_failed_transaction_command, which Parse and simple queries go
\* through; Execute of a statement parsed before does not.
Accepted(s, c) ==
  status[s] = "Error" => c \in EndOfBlock \cup prepared[s]

\* There is room for one more prepared statement, or it is prepared already.
MayPrepare(s, c) ==
  \/ c \in prepared[s]
  \/ Cardinality(UNION {{z} \X prepared[z] : z \in Session}) < MaxPrepared

\* The command is over, and with it its Writer permit.  (Its Reader permit
\* is over as well, or goes with the stream.)
Answer(s) ==
  /\ pc' = [pc EXCEPT ![s] = "ready"]
  /\ command' = [command EXCEPT ![s] = "none"]
  /\ writers' = writers \ {s}

\* process_error.  That a statement of the storage's transaction has failed
\* is kept apart from the status that is to remember it.
FailBlock(s) ==
  /\ status' = [status EXCEPT ![s] = ToErrorState(@)]
  /\ failed' = IF engine[s] = "Active" THEN failed \cup {s} ELSE failed

Fail(s) == Answer(s) /\ FailBlock(s)

Permits(s) == {<<s, "command">>, <<s, "stream">>}

\* A fault: the connection's next stream inherits the deadline.
EndStreamExpired(s, clean) ==
  /\ readers' = readers \ Permits(s)
  /\ engine' = [engine EXCEPT ![s] = IF clean THEN @ ELSE "Quarantined"]
  /\ UNCHANGED expired

\* Dropping the stream gives the Reader permit back, and the connection if
\* the result was read to its end and not cancelled.
EndStream(s, clean) ==
  /\ readers' = readers \ Permits(s)
  /\ expired' = [expired EXCEPT ![s] = FALSE]
  /\ engine' = [engine EXCEPT ![s] = IF clean THEN @ ELSE "Quarantined"]

\* A fault: a failed block stays failed.
EndBlockFailed(s) ==
  /\ status' = [status EXCEPT ![s] = IF @ = "Error" THEN @ ELSE "Idle"]
  /\ failed' = failed \ {s}

\* ReadyForQuery(Idle): the block is over.
EndBlock(s) ==
  /\ status' = [status EXCEPT ![s] = "Idle"]
  /\ failed' = failed \ {s}

----------------------------------------------------------------------------
\* parse_sql of a statement that needs no description.
Parse(s, c) ==
  /\ pc[s] = "ready"
  /\ c \in Preparable \cap {"begin", "fetch", "close"}
  /\ status[s] # "Error"
  /\ MayPrepare(s, c)
  /\ prepared' = [prepared EXCEPT ![s] = @ \cup {c}]
  /\ UNCHANGED <<txnVars, streamVars, command, pc, permitVars>>

\* A command that needs admission asks for it.  A FETCH does so only when it
\* starts its cursor's query, and a DECLARE when there is no such cursor yet.
Ask(s, c) ==
  /\ pc[s] = "ready"
  /\ Accepted(s, c)
  /\ \A p \in DOMAIN ParseFor : c = ParseFor[p] => MayPrepare(s, p)
  /\ c = "fetch" => engine[s] = "Active" /\ cursor[s] = "declared"
  /\ c = "declare" => engine[s] = "Active" /\ cursor[s] = "none"
  /\ pc' = [pc EXCEPT ![s] = "wait"]
  /\ command' = [command EXCEPT ![s] = c]
  /\ UNCHANGED <<txnVars, streamVars, prepared, permitVars>>

\* StatementKind::operation_class; everything else is a Writer.
Reads(s) == command[s] \in {"read", "fetch", "declare", "parse read"}

\* AdmissionController::acquire.  The Reader permit of a session's stream is
\* no help to its next command.
Admitted(s) ==
  /\ pc[s] = "wait"
  /\ Cardinality(readers) + Cardinality(writers) < MaxActive
  /\ pc' = [pc EXCEPT ![s] = "run"]
  /\ IF Reads(s)
     THEN /\ Cardinality(readers) < ReaderLimit
          /\ readers' = readers \cup {<<s, "command">>}
          /\ UNCHANGED writers
     ELSE /\ Cardinality(writers) < WriterLimit
          /\ writers' = writers \cup {s}
          /\ UNCHANGED readers
  /\ UNCHANGED <<txnVars, streamVars, prepared, command>>

\* ... or it answers that its queue is full or the wait too long.  (A command
\* that fails before it asks for admission has the same effect.)
NotAdmitted(s) ==
  /\ pc[s] = "wait"
  /\ Fail(s)
  /\ UNCHANGED <<engine, published, streamVars, prepared, readers>>

----------------------------------------------------------------------------
\* begin_transaction
RunBegin(s) ==
  /\ pc[s] = "run" /\ command[s] = "begin"
  /\ engine[s] = "Idle" /\ ~Streaming(s)
  /\ Answer(s)
  /\ engine' = [engine EXCEPT ![s] = "Active"]
  /\ status' = [status EXCEPT ![s] = IF @ = "Idle" THEN "Transaction" ELSE @]
  /\ UNCHANGED <<failed, published, streamVars, prepared, readers>>

\* A write, in the block or by itself (what becomes of it is StorageSession's).
RunWrite(s) ==
  /\ pc[s] = "run" /\ command[s] = "write"
  /\ engine[s] # "Quarantined" /\ ~Streaming(s)
  /\ Answer(s)
  /\ UNCHANGED <<txnVars, streamVars, prepared, readers>>

\* A write that is cancelled in a block or whose cleanup fails, and a read
\* whose stream is dropped for an error, cost the session its connection.
RunQuarantines(s) ==
  /\ pc[s] = "run" /\ command[s] \in {"write", "read", "fetch"}
  /\ engine[s] # "Quarantined" /\ ~Streaming(s)
  /\ Fail(s)
  /\ engine' = [engine EXCEPT ![s] = "Quarantined"]
  /\ readers' = readers \ {<<s, "command">>}
  /\ UNCHANGED <<published, streamVars, prepared>>

\* parse_sql describes the statement on the session's connection.
RunParse(s) ==
  /\ pc[s] = "run"
  /\ engine[s] # "Quarantined" /\ ~Streaming(s)
  /\ \E c \in DOMAIN ParseFor :
       /\ command[s] = ParseFor[c]
       /\ prepared' = [prepared EXCEPT ![s] = @ \cup {c}]
  /\ Answer(s)
  /\ readers' = readers \ {<<s, "command">>}
  /\ UNCHANGED <<txnVars, streamVars>>

\* DECLARE CURSOR parses its query and keeps it for the first FETCH.
RunDeclare(s) ==
  /\ pc[s] = "run" /\ command[s] = "declare"
  /\ engine[s] # "Quarantined" /\ ~Streaming(s)
  /\ Answer(s)
  /\ cursor' = [cursor EXCEPT ![s] = "declared"]
  /\ readers' = readers \ {<<s, "command">>}
  /\ UNCHANGED <<txnVars, portal, expired, prepared>>

\* A read opens its stream, which keeps the permit, and delivers some rows.
Opens(s) == command[s] \in {"read", "fetch"}

\* A fault: the stream that has the connection is not noticed.
RunReadBusy(s) ==
  /\ pc[s] = "run" /\ Opens(s)
  /\ engine[s] # "Quarantined"
  /\ Answer(s)
  /\ readers' = (readers \ Permits(s)) \cup {<<s, "stream">>}
  /\ IF command[s] = "fetch"
     THEN cursor' = [cursor EXCEPT ![s] = "suspended"] /\ UNCHANGED portal
     ELSE portal' = [portal EXCEPT ![s] = TRUE] /\ UNCHANGED cursor
  /\ UNCHANGED <<txnVars, expired, prepared>>

RunRead(s) ==
  /\ pc[s] = "run" /\ Opens(s)
  /\ engine[s] # "Quarantined" /\ ~Streaming(s)
  /\ Answer(s)
  /\ readers' = (readers \ Permits(s)) \cup {<<s, "stream">>}
  /\ IF command[s] = "fetch"
     THEN cursor' = [cursor EXCEPT ![s] = "suspended"] /\ UNCHANGED portal
     ELSE portal' = [portal EXCEPT ![s] = TRUE] /\ UNCHANGED cursor
  /\ UNCHANGED <<txnVars, expired, prepared>>

\* ... or all of them, and is over.
ReadWhole(s) ==
  /\ pc[s] = "run" /\ Opens(s)
  /\ engine[s] # "Quarantined" /\ ~Streaming(s)
  /\ Answer(s)
  /\ EndStream(s, TRUE)
  /\ cursor' = [cursor EXCEPT ![s] = IF command[s] = "fetch" THEN "finished" ELSE @]
  /\ UNCHANGED <<status, failed, published, portal, prepared>>

\* A fault: the permit of a failed command is not given back.
RunFailsAdmitted(s) ==
  /\ pc[s] = "run" /\ command[s] \notin EndOfBlock
  /\ Fail(s)
  /\ UNCHANGED <<engine, published, streamVars, prepared, readers>>

\* A command other than an end of block fails: the statement is wrong, the
\* connection is busy or gone, the server drains.
RunFails(s) ==
  /\ pc[s] = "run" /\ command[s] \notin EndOfBlock
  /\ Fail(s)
  /\ readers' = readers \ {<<s, "command">>}
  /\ UNCHANGED <<engine, published, streamVars, prepared>>

----------------------------------------------------------------------------
\* FETCH from an open cursor, and Execute of a suspended portal, need no
\* permit: the stream has one.  They deliver more rows (and change nothing),
\* reach the end, or fail.
FetchRest(s, ok) ==
  /\ pc[s] = "ready" /\ Streaming(s)
  /\ cursor[s] = "suspended" => Accepted(s, "fetch")
  /\ EndStream(s, ok /\ ~expired[s])
  /\ cursor' = [cursor EXCEPT ![s] = IF @ = "suspended" THEN "finished" ELSE @]
  /\ portal' = [portal EXCEPT ![s] = FALSE]
  /\ IF ok THEN UNCHANGED <<status, failed>> ELSE FailBlock(s)
  /\ UNCHANGED <<published, prepared, command, pc, writers>>

\* CLOSE reads an open cursor to its end.
CloseCursor(s, ok) ==
  /\ pc[s] = "ready"
  /\ Accepted(s, "close") /\ engine[s] = "Active"
  /\ cursor[s] # "none"
  /\ IF cursor[s] = "suspended"
     THEN EndStream(s, ok /\ ~expired[s])
     ELSE UNCHANGED <<readers, expired, engine>>
  /\ ok \/ cursor[s] = "suspended"
  /\ cursor' = [cursor EXCEPT ![s] = IF ok THEN "none" ELSE "finished"]
  /\ IF ok THEN UNCHANGED <<status, failed>> ELSE FailBlock(s)
  /\ UNCHANGED <<published, portal, prepared, command, pc, writers>>

\* Close of a suspended portal drops its stream in the middle.
ClosePortal(s) ==
  /\ pc[s] = "ready"
  /\ portal[s]
  /\ portal' = [portal EXCEPT ![s] = FALSE]
  /\ EndStream(s, FALSE)
  /\ UNCHANGED <<status, failed, published, cursor, prepared, command, pc,
                 writers>>

\* The statement deadline, or a cancel request, reaches an open stream.
Expire(s) ==
  /\ Streaming(s) /\ ~expired[s]
  /\ expired' = [expired EXCEPT ![s] = TRUE]
  /\ UNCHANGED <<txnVars, cursor, portal, prepared, command, pc, permitVars>>

----------------------------------------------------------------------------
\* The connection closes: the client leaves, a fatal error, a panic.  The
\* storage is dropped with it, which rolls back; a new client takes over.
Reconnect(s) ==
  /\ status' = [status EXCEPT ![s] = "Idle"]
  /\ engine' = [engine EXCEPT ![s] = "Idle"]
  /\ cursor' = [cursor EXCEPT ![s] = "none"]
  /\ portal' = [portal EXCEPT ![s] = FALSE]
  /\ expired' = [expired EXCEPT ![s] = FALSE]
  /\ prepared' = [prepared EXCEPT ![s] = {}]
  /\ failed' = failed \ {s}
  /\ Answer(s)
  /\ readers' = readers \ Permits(s)

Disconnect(s) ==
  /\ pc[s] = "ready"
  /\ Reconnect(s)
  /\ UNCHANGED published

\* end_transaction, once admitted: cursors are read to their ends ...
EndReady(s) == pc[s] = "run" /\ command[s] \in EndOfBlock

EndFailsInCursor(s) ==
  /\ EndReady(s)
  /\ cursor[s] = "suspended"
  /\ EndStream(s, FALSE)
  /\ cursor' = [cursor EXCEPT ![s] = "finished"]
  /\ Fail(s)
  /\ UNCHANGED <<published, portal, prepared>>

\* ... portals are dropped, and the storage decides.  A stream that is not
\* clean has left it quarantined, which is fatal.
Clean(s) == engine[s] # "Quarantined" /\ ~portal[s]
            /\ (cursor[s] = "suspended" => ~expired[s])

\* COMMIT of a block whose status says that it has failed is a ROLLBACK.
RollsBack(s) == command[s] = "rollback" \/ status[s] = "Error"

EndFatal(s) ==
  /\ EndReady(s)
  /\ \/ ~Clean(s)
     \/ engine[s] = "Idle" /\ command[s] = "commit" /\ status[s] = "Error"
     \/ engine[s] = "Active" /\ ~RollsBack(s)
  /\ Reconnect(s)
  /\ UNCHANGED published

EndSucceeds(s) ==
  /\ EndReady(s)
  /\ Clean(s)
  /\ ~(engine[s] = "Idle" /\ command[s] = "commit" /\ status[s] = "Error")
  /\ Answer(s)
  /\ EndBlock(s)
  /\ engine' = [engine EXCEPT ![s] = "Idle"]
  /\ published' = published \cup
       {z \in failed \cap {s} : ~RollsBack(z)}
  /\ readers' = readers \ Permits(s)
  /\ expired' = [expired EXCEPT ![s] = FALSE]
  /\ cursor' = [cursor EXCEPT ![s] = "none"]
  /\ UNCHANGED <<portal, prepared>>

\* The rollback fails natively.
RollbackFails(s) ==
  /\ EndReady(s)
  /\ Clean(s) /\ engine[s] = "Active" /\ RollsBack(s)
  /\ Fail(s)
  /\ engine' = [engine EXCEPT ![s] = "Quarantined"]
  /\ readers' = readers \ Permits(s)
  /\ expired' = [expired EXCEPT ![s] = FALSE]
  /\ cursor' = [cursor EXCEPT ![s] = "none"]
  /\ UNCHANGED <<published, portal, prepared>>

----------------------------------------------------------------------------
Run(s) ==
  \/ RunBegin(s) \/ RunWrite(s) \/ RunQuarantines(s)
  \/ RunParse(s) \/ RunDeclare(s) \/ RunRead(s) \/ ReadWhole(s) \/ RunFails(s)
  \/ EndFailsInCursor(s) \/ EndFatal(s) \/ EndSucceeds(s) \/ RollbackFails(s)

Client(s) ==
  \/ \E c \in Preparable : Parse(s, c)
  \/ \E c \in Command : Ask(s, c)
  \/ ClosePortal(s) \/ Disconnect(s)
  \/ \E ok \in BOOLEAN : FetchRest(s, ok) \/ CloseCursor(s, ok)

Next ==
  \E s \in Session :
    Client(s) \/ Admitted(s) \/ NotAdmitted(s) \/ Expire(s) \/ Run(s)

Spec == Init /\ [][Next]_vars

\* A command that can be admitted again and again is; one that waits is
\* admitted or gives up; native calls return; and the client of a failed
\* block keeps asking for its end.
Fairness ==
  \A s \in Session :
    /\ SF_vars(Admitted(s))
    /\ WF_vars(Admitted(s) \/ NotAdmitted(s))
    /\ WF_vars(Run(s))
    /\ WF_vars(status[s] = "Error" /\ Ask(s, "rollback"))

FairSpec == Spec /\ Fairness

----------------------------------------------------------------------------
TypeOK ==
  /\ status \in [Session -> {"Idle", "Transaction", "Error"}]
  /\ engine \in [Session -> {"Idle", "Active", "Quarantined"}]
  /\ cursor \in [Session -> {"none", "declared", "suspended", "finished"}]
  /\ portal \in [Session -> BOOLEAN]
  /\ expired \in [Session -> BOOLEAN]
  /\ \A s \in Session : expired[s] => Streaming(s)
  /\ prepared \in [Session -> SUBSET Preparable]
  /\ command \in [Session -> {"none"} \cup Command]
  /\ pc \in [Session -> {"ready", "wait", "run"}]
  /\ readers \subseteq Session \X {"command", "stream"} /\ writers \subseteq Session
  /\ failed \subseteq Session /\ published \subseteq Session

\* The transaction status pgwire keeps for a connection, by which failed
\* blocks are recognised and COMMIT becomes ROLLBACK, and the state of its
\* storage agree: outside a block the storage is never in a transaction (a
\* write there would not be published), and in a block it is never idle (a
\* write there would be published at once).  What ReadyForQuery says is this
\* status, except at the end of a simple COPY, which is not modelled here.
StatusMatchesStorage ==
  \A s \in Session :
    /\ status[s] = "Idle" => engine[s] # "Active"
    /\ engine[s] = "Idle" => status[s] = "Idle"

\* Permits are neither lost nor kept: a session holds one for
\* its stream exactly while it has an open stream, and none for a command
\* between commands; all sessions together stay within the limits.
PermitsAccounted ==
  /\ Cardinality(readers) + Cardinality(writers) <= MaxActive
  /\ Cardinality(readers) <= ReaderLimit
  /\ Cardinality(writers) <= WriterLimit
  /\ \A s \in Session :
       /\ pc[s] # "run" => s \notin writers
       /\ pc[s] # "run" => <<s, "command">> \notin readers
       /\ <<s, "stream">> \in readers <=> Streaming(s)

\* A session has one open stream at most, and never one while its storage is
\* quarantined (its connection is gone).
OneStream ==
  \A s \in Session :
    /\ ~(cursor[s] = "suspended" /\ portal[s])
    /\ Streaming(s) => engine[s] # "Quarantined"
    /\ cursor[s] = "suspended" => engine[s] = "Active"

\* A transaction in which a statement failed publishes nothing, whichever
\* statement it was, whatever is executed after it and whichever end its
\* client asks for: COMMIT looks at the status alone, so no error may fail to
\* reach it and no later command may reset it.
FailedBlockPublishesNothing == published = {}

\* docs/OPERATIONS.md: after an error in a block, work is refused with 25P02
\* until ROLLBACK.  No other command runs in a failed block.
FailedBlockRefusesWork ==
  \A s \in Session :
    status[s] = "Error" /\ pc[s] = "run" => command[s] \in EndOfBlock

\* ARCHITECTURE.md: capacity is reserved for rollback.  A failed block whose
\* client keeps asking for ROLLBACK comes to its end.
FailedBlockEnds ==
  \A s \in Session : status[s] = "Error" ~> status[s] # "Error"
============================================================================
