------------------------ MODULE StorageSessionProofs ------------------------
(***************************************************************************)
(* Proofs that the storage session keeps its connection clean, tells its   *)
(* callers the truth and leaves the drain set exactly once, for any number *)
(* of operations and cancel threads.                                       *)
(*                                                                         *)
(* The inductive invariant is built in two layers.  Control says who has   *)
(* the connection and what the transaction state may be at each step of    *)
(* each operation; Content says which writes the native transaction holds, *)
(* which are durable, and what was answered, at each of those steps.       *)
(***************************************************************************)
EXTENDS StorageSession, TLAPS

----------------------------------------------------------------------------
(* Types, and the session's share of the drain count.                      *)

\* An operation other than commit and rollback has an identity.
Identified ==
  kind \in {"update", "scoped", "probe", "stream", "ingest"} => cur \in Op

Typed == TypeOK /\ DrainShareExact /\ Identified

\* The parts of Typed that set_transaction_state, the end of an operation and
\* quarantine assign.
Left ==
  /\ state \in TransactionState
  /\ counted \in {0, 1}
  /\ readOnly \in BOOLEAN
  /\ DrainShareExact

Ended ==
  /\ kind = "none" /\ cur = NoOp /\ pc = "none" /\ goal = "none"
  /\ explicit \in BOOLEAN

Quarantined ==
  /\ Left /\ Ended
  /\ slot \in BOOLEAN
  /\ txn = "auto" /\ pending = {} /\ members = {}
  /\ outcome \in [Op -> Answer]

\* set_transaction_state(s) leaves the drain set exactly when it leaves Active.
LEMMA LeaveState ==
  ASSUME Typed, NEW s \in TransactionState \ {"Active"}, SetState(s)
  PROVE  Left'
<1>1. readOnly' \in BOOLEAN
  BY DEF SetState, TransactionState
<1>2. state' = s
  BY DEF SetState
<1>3. counted' = 0
  <2>1. CASE state = "Active"
    BY <2>1 DEF SetState, Typed, DrainShareExact, TransactionState
  <2>2. CASE state # "Active"
    BY <2>2 DEF SetState, Typed, DrainShareExact, TransactionState
  <2> QED
    BY <2>1, <2>2
<1> QED
  BY <1>1, <1>2, <1>3 DEF Left, DrainShareExact, TransactionState

\* The end of every operation resets the operation's variables.
LEMMA EndOperationEnds == EndOperation => Ended'
BY Zenon DEF EndOperation, Ended

\* Quarantine assigns values of the right types and leaves the drain set.
LEMMA QuarantineTypes ==
  ASSUME Typed, NEW a \in Answer, Quarantine(a)
  PROVE  Quarantined'
<1>1. Left'
  BY LeaveState DEF Quarantine, TransactionState
<1>2. Ended' /\ slot' \in BOOLEAN
  BY Zenon, EndOperationEnds DEF Quarantine
<1>3. outcome' \in [Op -> Answer]
  BY DEF Quarantine, Typed, TypeOK, Answer
<1> QED
  BY <1>1, <1>2, <1>3 DEF Quarantine, Quarantined

\* Init has the right types.
LEMMA TypedInit == Init => Typed
BY Zenon DEF Init, Typed, TypeOK, DrainShareExact, Identified, TransactionState, Kind, Answer

\* Every step keeps the types and the drain share.
LEMMA TypedNext == Typed /\ [Next]_vars => Typed'
<1> SUFFICES ASSUME Typed, [Next]_vars PROVE Typed'
  OBVIOUS
<1> USE NoOpIsNoOp DEF Typed, TypeOK, DrainShareExact, Identified,
      TransactionState, Kind, Answer
<1>1. CASE BeginDrain
  <2>1. accepting' \in BOOLEAN
    BY Zenon, <1>1 DEF BeginDrain
  <2> QED
    BY <1>1, <2>1 DEF BeginDrain, slotVars, nativeVars, opVars, handleVars,
      cancelVars, answerVars
<1>2. CASE StartCommit
  BY Zenon, <1>2 DEF StartCommit, Take, nativeVars, cancelVars, answerVars
<1>3. CASE StartRollback
  BY Zenon, <1>3 DEF StartRollback, Take, nativeVars, cancelVars, answerVars
<1>4. CASE EnterWrite
  BY <1>4 DEF EnterWrite, slotVars, handleVars, cancelVars, answerVars
<1>5. CASE EnterWriteFails
  BY ZenonT(60), ZenonT(30), <1>5 DEF EnterWriteFails, EndOperation, Tell, nativeVars, handleVars,
    cancelVars
<1>6. CASE RunStatement
  BY <1>6 DEF RunStatement, slotVars, handleVars, cancelVars, answerVars
<1>7. CASE CloseHandle
  BY <1>7 DEF CloseHandle, slotVars, nativeVars, cancelVars, answerVars
<1>8. CASE FlushClosed
  <2>1. closing' \in BOOLEAN
    BY Zenon, <1>8 DEF FlushClosed
  <2>2. closed' \in [Op -> BOOLEAN]
    BY Zenon, <1>8 DEF FlushClosed
  <2> QED
    BY <1>8, <2>1, <2>2 DEF FlushClosed, slotVars, nativeVars, opVars,
      cancelVars, answerVars
<1>9. CASE Decide
  BY <1>9 DEF Decide, slotVars, nativeVars, handleVars, cancelVars, answerVars
<1>10. CASE ReturnExplicit
  BY ZenonT(60), ZenonT(30), <1>10 DEF ReturnExplicit, EndOperation, Tell, Fenced, nativeVars,
    handleVars, cancelVars
<1>11. CASE NativeCommit
  BY <1>11 DEF NativeCommit, Fenced, slotVars, handleVars, cancelVars,
    answerVars
<1>12. CASE NativeCommitFails
  <2>1. Left'
    BY <1>12, LeaveState DEF NativeCommitFails, TransactionState
  <2>2. Ended'
    BY <1>12, EndOperationEnds DEF NativeCommitFails
  <2>3. durable' \in SUBSET Op
    BY <1>12 DEF NativeCommitFails
  <2> QED
    BY <1>12, <2>1, <2>2, <2>3 DEF NativeCommitFails, Fenced, handleVars,
      cancelVars, Left, Ended
<1>13. CASE Reconcile
  BY <1>13 DEF Reconcile, slotVars, nativeVars, handleVars, cancelVars,
    answerVars
<1>14. CASE CommitCleanupFails
  <2>1. Left'
    BY <1>14, LeaveState DEF CommitCleanupFails, TransactionState
  <2>2. Ended'
    BY <1>14, EndOperationEnds DEF CommitCleanupFails
  <2> QED
    BY <1>14, <2>1, <2>2 DEF CommitCleanupFails, handleVars, cancelVars, Left,
      Ended
<1>15. CASE NativeRollback
  BY <1>15 DEF NativeRollback, Fenced, slotVars, handleVars, cancelVars,
    answerVars
<1>16. CASE RollbackFails
  <2>1. Quarantined'
    BY <1>16, QuarantineTypes DEF RollbackFails
  <2> QED
    BY <1>16, <2>1 DEF RollbackFails, Fenced, handleVars, cancelVars,
      Quarantined, Left, Ended
<1>17. CASE RestoreAutocommit
  <2>1. Left'
    <3>1. CASE state = "Active"
      BY Zenon, <1>17, <3>1, LeaveState DEF RestoreAutocommit, TransactionState
    <3>2. CASE state # "Active"
      BY Zenon, <1>17, <3>2 DEF RestoreAutocommit, Left
    <3> QED
      BY Zenon, <3>1, <3>2
  <2>2. Ended' /\ slot' \in BOOLEAN
    BY <1>17, EndOperationEnds DEF RestoreAutocommit
  <2>3. outcome' \in [Op -> Answer] /\ members' \in SUBSET Op
    BY ZenonT(60), <1>17 DEF RestoreAutocommit, Tell, TellMembers
  <2> QED
    BY <1>17, <2>1, <2>2, <2>3 DEF RestoreAutocommit, Left, Ended, handleVars,
      cancelVars
<1>18. CASE RestoreThenQuarantine
  <2>1. Quarantined'
    BY Zenon, <1>18, QuarantineTypes DEF RestoreThenQuarantine
  <2> QED
    BY Zenon, <1>18, <2>1 DEF RestoreThenQuarantine, handleVars, cancelVars,
      Quarantined, Left, Ended
<1>19. CASE NextBatch
  BY <1>19 DEF NextBatch, slotVars, nativeVars, handleVars, cancelVars,
    answerVars
<1>20. CASE DropStream
  <2>1. CASE goal = "ok" /\ ~requested[cur]
    <3>1. Ended' /\ slot' \in BOOLEAN /\ outcome' \in [Op -> Answer]
      BY <1>20, <2>1, EndOperationEnds DEF DropStream, Tell
    <3> QED
      BY <1>20, <2>1, <3>1 DEF DropStream, Ended, handleVars, cancelVars
  <2>2. CASE ~(goal = "ok" /\ ~requested[cur])
    <3>1. Quarantined'
      BY Zenon, <1>20, <2>2, QuarantineTypes DEF DropStream
    <3> QED
      BY Zenon, <1>20, <2>2, <3>1 DEF DropStream, Quarantined, Left, Ended, handleVars,
        cancelVars
  <2> QED
    BY <2>1, <2>2
<1>21. CASE IngestSchemaFails
  BY ZenonT(60), ZenonT(30), <1>21 DEF IngestSchemaFails, EndOperation, Tell, slotVars, handleVars,
    cancelVars
<1>22. CASE IngestLayoutFails
  BY ZenonT(60), <1>22 DEF IngestLayoutFails, EndOperation, Tell, nativeVars, handleVars,
    cancelVars
<1>23. CASE LoadStage
  BY <1>23 DEF LoadStage, slotVars, nativeVars, handleVars, cancelVars,
    answerVars
<1>24. CASE CheckCancelled
  BY <1>24 DEF CheckCancelled, slotVars, nativeVars, handleVars, cancelVars,
    answerVars
<1>25. CASE Publish
  BY <1>25 DEF Publish, slotVars, handleVars, cancelVars, answerVars
<1>26. CASE DropStorage
  <2>1. Left'
    <3>1. CASE state = "Active" /\ slot
      BY <1>26, <3>1, LeaveState DEF DropStorage, TransactionState
    <3>2. CASE ~(state = "Active" /\ slot)
      BY <1>26, <3>2 DEF DropStorage, Left
    <3> QED
      BY Zenon, <3>1, <3>2
  <2>2. slot' \in BOOLEAN /\ dropped' \in BOOLEAN
    BY Zenon, <1>26 DEF DropStorage
  <2>3. outcome' \in [Op -> Answer] /\ members' \in SUBSET Op
    BY <1>26 DEF DropStorage, TellMembers
  <2> QED
    BY <1>26, <2>1, <2>2, <2>3 DEF DropStorage, Left, opVars, handleVars, cancelVars
<1>27. ASSUME NEW ro \in BOOLEAN, Begin(ro) PROVE Typed'
  BY <1>27 DEF Begin, opVars, handleVars, cancelVars, answerVars
<1>28. ASSUME NEW o \in Op, StartUpdate(o) PROVE Typed'
  BY Zenon, <1>28 DEF StartUpdate, Take, Fresh, Writable, nativeVars, cancelVars,
    answerVars
<1>29. ASSUME NEW o \in Op, StartIngest(o) PROVE Typed'
  BY Zenon, <1>29 DEF StartIngest, Take, Fresh, Writable, nativeVars, cancelVars,
    answerVars
<1>30. ASSUME NEW o \in Op, OpenStream(o) PROVE Typed'
  BY Zenon, <1>30 DEF OpenStream, Take, Fresh, nativeVars, cancelVars, answerVars
<1>31. ASSUME NEW k \in {"scoped", "probe"}, NEW o \in Op,
              StartScoped(k, o)
       PROVE  Typed'
  <2>1. slot' \in BOOLEAN /\ closing' \in BOOLEAN /\ explicit' \in BOOLEAN
    BY Zenon, <1>31 DEF StartScoped, Take
  <2> QED
    BY <1>31, <2>1 DEF StartScoped, Take, Fresh, cancelVars, answerVars
<1>32. ASSUME NEW clean \in BOOLEAN, DropStage(clean) PROVE Typed'
  <2> DEFINE answer == IF goal # "ok" THEN "failed"
                       ELSE IF explicit THEN "staged" ELSE "ok"
  <2>1. CASE clean /\ ~requested[cur]
    <3>1. Ended' /\ slot' \in BOOLEAN /\ outcome' \in [Op -> Answer]
      BY ZenonT(60), <1>32, <2>1, EndOperationEnds DEF DropStage, Tell
    <3>2. members' \in SUBSET Op
      BY Zenon, <1>32, <2>1 DEF DropStage
    <3> QED
      BY <1>32, <2>1, <3>1, <3>2 DEF DropStage, Ended, handleVars, cancelVars
  <2>2. CASE ~(clean /\ ~requested[cur])
    <3>1. Quarantine(IF answer = "staged" THEN "failed" ELSE answer)
      BY Zenon, <1>32, <2>2 DEF DropStage
    <3>2. Quarantined'
      BY Zenon, <3>1, QuarantineTypes
    <3> QED
      BY Zenon, <1>32, <2>2, <3>2 DEF DropStage, Quarantined, Left, Ended, handleVars,
        cancelVars
  <2> QED
    BY <2>1, <2>2
<1>33. ASSUME NEW c \in Canceller, Aim(c) PROVE Typed'
  BY <1>33 DEF Aim, slotVars, nativeVars, opVars, handleVars, answerVars
<1>34. ASSUME NEW c \in Canceller, LookClosed(c) PROVE Typed'
  BY <1>34 DEF LookClosed, slotVars, nativeVars, opVars, handleVars,
    answerVars
<1>35. ASSUME NEW c \in Canceller, StoreRequested(c) PROVE Typed'
  BY <1>35 DEF StoreRequested, slotVars, nativeVars, opVars, handleVars,
    answerVars
<1>36. ASSUME NEW c \in Canceller, LookAgain(c) PROVE Typed'
  BY <1>36 DEF LookAgain, slotVars, nativeVars, opVars, handleVars, answerVars
<1>37. ASSUME NEW c \in Canceller, FlushRequested(c) PROVE Typed'
  <2>1. requested' \in [Op -> BOOLEAN]
    BY Zenon, <1>37 DEF FlushRequested
  <2> QED
    BY <1>37, <2>1 DEF FlushRequested, slotVars, nativeVars, opVars,
      cancelVars, answerVars
<1>38. ASSUME NEW c \in Canceller, NativeCancel(c) PROVE Typed'
  BY <1>38 DEF NativeCancel, slotVars, nativeVars, opVars, handleVars,
    answerVars
<1>39. CASE UNCHANGED vars
  BY <1>39 DEF vars, slotVars, nativeVars, opVars, handleVars, cancelVars,
    answerVars
<1> QED
  BY ZenonT(60), <1>1, <1>2, <1>3, <1>4, <1>5, <1>6, <1>7, <1>8, <1>9, <1>10, <1>11,
    <1>12, <1>13, <1>14, <1>15, <1>16, <1>17, <1>18, <1>19, <1>20, <1>21, <1>22,
    <1>23, <1>24, <1>25, <1>26, <1>27, <1>28, <1>29, <1>30, <1>31, <1>32, <1>33,
    <1>34, <1>35, <1>36, <1>37, <1>38, <1>39 DEF Next
----------------------------------------------------------------------------
(* Who has the connection, and what the transaction state may be.          *)

\* The steps of each kind of operation.
Phases ==
  /\ kind = "none" => pc = "none" /\ cur = NoOp /\ goal = "none"
  /\ kind = "update" => pc \in {"enter", "run", "close", "decide", "return",
                                "commit", "reconcile", "rollback", "restore"}
  /\ kind = "scoped" => pc \in {"run", "commit", "reconcile", "rollback", "restore"}
  /\ kind = "probe" => pc \in {"run", "rollback", "restore"}
  /\ kind = "commit" => pc \in {"commit", "reconcile", "restore"}
  /\ kind = "rollback" => pc \in {"rollback", "restore"}
  /\ kind = "stream" => pc \in {"streaming", "ended"}
  /\ kind = "ingest" => pc \in {"schema", "check", "publish", "dropStage"}
  /\ kind \in {"commit", "rollback"} => cur = NoOp
  /\ pc \in {"enter", "run", "schema", "check", "publish"} => goal = "none"
  /\ pc \in {"commit", "reconcile"} => goal = "ok"
  /\ pc \in {"close", "decide", "return"} => goal \in {"ok", "failed"}
  /\ pc \in {"rollback", "restore"} => goal # "none"
  /\ kind = "commit" => goal = "ok"
  /\ kind \in {"rollback", "probe"} /\ pc = "restore" => goal # "ok"
  /\ pc = "dropStage" => goal \in {"ok", "failed"}
  /\ goal = "cancelled" => kind = "update" /\ pc \in {"rollback", "restore"}

\* The connection is in the slot, or with one operation, or gone.
Ownership ==
  /\ kind # "none" => ~slot /\ state # "Quarantined" /\ ~dropped
  /\ slot => ~dropped
  /\ state = "Quarantined" => ~slot

\* Which operations run in the session's own transaction.
Transactions ==
  /\ kind \in {"update", "stream", "ingest"} => (explicit <=> state = "Active")
  /\ kind \in {"commit", "rollback"} => explicit /\ state = "Active"
  /\ kind \in {"scoped", "probe"} => ~explicit /\ state = "Active"
  /\ kind = "none" => ~explicit
  /\ kind = "update" /\ explicit => pc \notin {"commit", "reconcile"}
  /\ kind = "update" /\ explicit /\ pc \in {"rollback", "restore"} => goal = "cancelled"
  /\ kind = "update" /\ pc = "return" => explicit
  /\ readOnly => state = "Active" /\ kind \notin {"update", "ingest", "scoped", "probe"}

Control ==
  /\ Typed
  /\ Phases
  /\ Ownership
  /\ Transactions

\* Nobody has the connection at first.
LEMMA ControlInit == Init => Control
BY TypedInit DEF Init, Control, Phases, Ownership, Transactions

\* Every step keeps the connection with one owner, and each operation to its
\* phases.
LEMMA ControlNext == Control /\ [Next]_vars => Control'
<1> SUFFICES ASSUME Control, [Next]_vars
             PROVE  Phases' /\ Ownership' /\ Transactions'
  BY Zenon, TypedNext DEF Control
<1> USE NoOpIsNoOp DEF Control, Typed, TypeOK, Identified, Phases, Ownership,
      Transactions, TransactionState, Kind
<1>1. CASE BeginDrain
  BY <1>1 DEF BeginDrain, slotVars, nativeVars, opVars, handleVars,
    cancelVars, answerVars
<1>2. CASE StartCommit
  BY Zenon, <1>2 DEF StartCommit, Take, nativeVars, cancelVars, answerVars
<1>3. CASE StartRollback
  BY Zenon, <1>3 DEF StartRollback, Take, nativeVars, cancelVars, answerVars
<1>4. CASE EnterWrite
  BY Zenon, <1>4 DEF EnterWrite, slotVars, handleVars, cancelVars, answerVars
<1>5. CASE EnterWriteFails
  BY <1>5 DEF EnterWriteFails, EndOperation, Tell, nativeVars, handleVars,
    cancelVars
<1>6. CASE RunStatement
  BY Zenon, <1>6 DEF RunStatement, slotVars, handleVars, cancelVars, answerVars
<1>7. CASE CloseHandle
  BY Zenon, <1>7 DEF CloseHandle, slotVars, nativeVars, cancelVars, answerVars
<1>8. CASE FlushClosed
  BY <1>8 DEF FlushClosed, slotVars, nativeVars, opVars, cancelVars,
    answerVars
<1>9. CASE Decide
  BY Zenon, <1>9 DEF Decide, slotVars, nativeVars, handleVars, cancelVars, answerVars
<1>10. CASE ReturnExplicit
  BY Zenon, <1>10 DEF ReturnExplicit, EndOperation, Tell, Fenced, nativeVars,
    handleVars, cancelVars
<1>11. CASE NativeCommit
  BY Zenon, <1>11 DEF NativeCommit, Fenced, slotVars, handleVars, cancelVars,
    answerVars
<1>12. CASE NativeCommitFails
  BY Zenon, <1>12 DEF NativeCommitFails, SetState, EndOperation, Fenced, handleVars,
    cancelVars
<1>13. CASE Reconcile
  BY Zenon, <1>13 DEF Reconcile, slotVars, nativeVars, handleVars, cancelVars,
    answerVars
<1>14. CASE CommitCleanupFails
  BY Zenon, <1>14 DEF CommitCleanupFails, SetState, EndOperation, handleVars,
    cancelVars
<1>15. CASE NativeRollback
  BY Zenon, <1>15 DEF NativeRollback, Fenced, slotVars, handleVars, cancelVars,
    answerVars
<1>16. CASE RollbackFails
  BY Zenon, <1>16 DEF RollbackFails, SetState, EndOperation, Quarantine, Fenced,
    handleVars, cancelVars
<1>17. CASE RestoreAutocommit
  BY Zenon, <1>17 DEF RestoreAutocommit, SetState, EndOperation, Tell, TellMembers,
    handleVars, cancelVars
<1>18. CASE RestoreThenQuarantine
  BY <1>18 DEF RestoreThenQuarantine, SetState, EndOperation, Quarantine,
    handleVars, cancelVars
<1>19. CASE NextBatch
  BY <1>19 DEF NextBatch, slotVars, nativeVars, handleVars, cancelVars,
    answerVars
<1>20. CASE DropStream
  BY Zenon, <1>20 DEF DropStream, SetState, EndOperation, Tell, Quarantine,
    handleVars, cancelVars
<1>21. CASE IngestSchemaFails
  BY <1>21 DEF IngestSchemaFails, EndOperation, Tell, slotVars, handleVars,
    cancelVars
<1>22. CASE IngestLayoutFails
  BY <1>22 DEF IngestLayoutFails, EndOperation, Tell, nativeVars, handleVars,
    cancelVars
<1>23. CASE LoadStage
  BY Zenon, <1>23 DEF LoadStage, slotVars, nativeVars, handleVars, cancelVars,
    answerVars
<1>24. CASE CheckCancelled
  BY Zenon, <1>24 DEF CheckCancelled, slotVars, nativeVars, handleVars, cancelVars,
    answerVars
<1>25. CASE Publish
  BY Zenon, <1>25 DEF Publish, slotVars, handleVars, cancelVars, answerVars
<1>26. CASE DropStorage
  BY Zenon, <1>26 DEF DropStorage, SetState, TellMembers, opVars, handleVars,
    cancelVars
<1>27. ASSUME NEW ro \in BOOLEAN,
              Begin(ro)
       PROVE  Phases' /\ Ownership' /\ Transactions'
  BY <1>27 DEF Begin, opVars, handleVars, cancelVars, answerVars
<1>28. ASSUME NEW o \in Op,
              StartUpdate(o)
       PROVE  Phases' /\ Ownership' /\ Transactions'
  BY Zenon, <1>28 DEF StartUpdate, Take, Fresh, Writable, nativeVars, cancelVars,
    answerVars
<1>29. ASSUME NEW o \in Op,
              StartIngest(o)
       PROVE  Phases' /\ Ownership' /\ Transactions'
  BY Zenon, <1>29 DEF StartIngest, Take, Fresh, Writable, nativeVars, cancelVars,
    answerVars
<1>30. ASSUME NEW o \in Op,
              OpenStream(o)
       PROVE  Phases' /\ Ownership' /\ Transactions'
  BY Zenon, <1>30 DEF OpenStream, Take, Fresh, nativeVars, cancelVars, answerVars
<1>31. ASSUME NEW k \in {"scoped", "probe"}, NEW o \in Op,
              StartScoped(k, o)
       PROVE  Phases' /\ Ownership' /\ Transactions'
  BY <1>31 DEF StartScoped, Take, Fresh, cancelVars, answerVars
<1>32. ASSUME NEW clean \in BOOLEAN,
              DropStage(clean)
       PROVE  Phases' /\ Ownership' /\ Transactions'
  BY Zenon, <1>32 DEF DropStage, SetState, EndOperation, Tell, Quarantine,
    handleVars, cancelVars
<1>33. ASSUME NEW c \in Canceller,
              Aim(c)
       PROVE  Phases' /\ Ownership' /\ Transactions'
  BY <1>33 DEF Aim, slotVars, nativeVars, opVars, handleVars, answerVars
<1>34. ASSUME NEW c \in Canceller,
              LookClosed(c)
       PROVE  Phases' /\ Ownership' /\ Transactions'
  BY <1>34 DEF LookClosed, slotVars, nativeVars, opVars, handleVars,
    answerVars
<1>35. ASSUME NEW c \in Canceller,
              StoreRequested(c)
       PROVE  Phases' /\ Ownership' /\ Transactions'
  BY <1>35 DEF StoreRequested, slotVars, nativeVars, opVars, handleVars,
    answerVars
<1>36. ASSUME NEW c \in Canceller,
              LookAgain(c)
       PROVE  Phases' /\ Ownership' /\ Transactions'
  BY <1>36 DEF LookAgain, slotVars, nativeVars, opVars, handleVars, answerVars
<1>37. ASSUME NEW c \in Canceller,
              FlushRequested(c)
       PROVE  Phases' /\ Ownership' /\ Transactions'
  BY <1>37 DEF FlushRequested, slotVars, nativeVars, opVars, cancelVars,
    answerVars
<1>38. ASSUME NEW c \in Canceller,
              NativeCancel(c)
       PROVE  Phases' /\ Ownership' /\ Transactions'
  BY <1>38 DEF NativeCancel, slotVars, nativeVars, opVars, handleVars,
    answerVars
<1>39. CASE UNCHANGED vars
  BY <1>39 DEF vars, slotVars, nativeVars, opVars, handleVars, cancelVars,
    answerVars
<1> QED
  BY ZenonT(60), <1>1, <1>2, <1>3, <1>4, <1>5, <1>6, <1>7, <1>8, <1>9, <1>10, <1>11,
    <1>12, <1>13, <1>14, <1>15, <1>16, <1>17, <1>18, <1>19, <1>20, <1>21, <1>22,
    <1>23, <1>24, <1>25, <1>26, <1>27, <1>28, <1>29, <1>30, <1>31, <1>32, <1>33,
    <1>34, <1>35, <1>36, <1>37, <1>38, <1>39 DEF Next
----------------------------------------------------------------------------
(* What was written, what is durable, and what was answered.               *)

\* The writes an explicit transaction has accepted are those answered
\* "staged"; the operation at hand has no answer yet.
Answered ==
  /\ members = {o \in Op : outcome[o] = "staged"}
  /\ cur \in Op => outcome[cur] = "none"
  /\ readOnly => members = {}
  /\ members # {} => state = "Active" /\ kind \notin {"scoped", "probe"}

\* What is durable, write by write.
Durability ==
  \A o \in Op :
    /\ outcome[o] \in {"ok", "committed"} => o \in durable
    /\ outcome[o] \in {"failed", "cancelled", "read"} => o \notin durable
    /\ outcome[o] = "none" /\ o # cur => o \notin durable
    /\ o = cur => (o \in durable <=>
                     \/ pc \in {"reconcile", "restore"} /\ goal = "ok"
                     \/ pc = "dropStage" /\ goal = "ok" /\ ~explicit)
    /\ outcome[o] = "staged" =>
         (o \in durable <=> kind = "commit" /\ pc \in {"reconcile", "restore"})

\* What the native transaction holds.
Holdings ==
  /\ txn = IF \/ slot /\ state = "Active"
              \/ kind # "none" /\ (explicit \/ kind \in {"scoped", "probe"})
              \/ kind = "update" /\ pc # "enter"
           THEN "open" ELSE "auto"
  /\ kind = "none" => pending = IF slot THEN members ELSE {}
  /\ pc \in {"reconcile", "restore"} => pending = {}
  /\ kind = "stream" => pending = members
  /\ kind # "none" /\ pc \notin {"reconcile", "restore", "rollback"} /\ kind # "stream" =>
       pending = IF cur \in Op /\ goal = "ok" /\ txn = "open"
                 THEN members \cup {cur} ELSE members
  /\ pc = "rollback" => pending \subseteq members \cup {cur}

Content == Answered /\ Durability /\ Holdings

IInv == Control /\ Content

\* Nothing is written at first.
LEMMA ContentInit == Init => Content
BY Zenon, NoOpIsNoOp DEF Init, Content, Answered, Durability, Holdings

\* Every step keeps the account of writes and answers.
LEMMA ContentNext == IInv /\ [Next]_vars => Content'
<1> SUFFICES ASSUME Control, Content, [Next]_vars
             PROVE  Answered' /\ Durability' /\ Holdings'
  BY Zenon DEF IInv, Content
<1> USE NoOpIsNoOp DEF Control, Typed, TypeOK, Identified, Phases, Ownership,
      Transactions, TransactionState, Kind, Answer, Content, Answered, Durability,
      Holdings
<1>1. CASE BeginDrain
  <2>1. Answered'
    BY Zenon, <1>1 DEF BeginDrain, slotVars, nativeVars, opVars, handleVars,
      cancelVars, answerVars
  <2>2. Durability'
    BY Zenon, <1>1 DEF BeginDrain, slotVars, nativeVars, opVars, handleVars,
      cancelVars, answerVars
  <2>3. Holdings'
    BY <1>1 DEF BeginDrain, slotVars, nativeVars, opVars, handleVars,
      cancelVars, answerVars
  <2> QED
    BY Zenon, <2>1, <2>2, <2>3
<1>2. CASE StartCommit
  <2>1. Answered'
    BY Zenon, <1>2 DEF StartCommit, Take, nativeVars, cancelVars, answerVars
  <2>2. Durability'
    BY Zenon, <1>2 DEF StartCommit, Take, nativeVars, cancelVars, answerVars
  <2>3. Holdings'
    BY Zenon, <1>2 DEF StartCommit, Take, nativeVars, cancelVars, answerVars
  <2> QED
    BY Zenon, <2>1, <2>2, <2>3
<1>3. CASE StartRollback
  <2>1. Answered'
    BY Zenon, <1>3 DEF StartRollback, Take, nativeVars, cancelVars, answerVars
  <2>2. Durability'
    BY Zenon, <1>3 DEF StartRollback, Take, nativeVars, cancelVars, answerVars
  <2>3. Holdings'
    BY Zenon, <1>3 DEF StartRollback, Take, nativeVars, cancelVars, answerVars
  <2> QED
    BY Zenon, <2>1, <2>2, <2>3
<1>4. CASE EnterWrite
  <2>1. Answered'
    BY Zenon, <1>4 DEF EnterWrite, slotVars, handleVars, cancelVars, answerVars
  <2>2. Durability'
    BY Zenon, <1>4 DEF EnterWrite, slotVars, handleVars, cancelVars, answerVars
  <2>3. Holdings'
    BY Zenon, <1>4 DEF EnterWrite, slotVars, handleVars, cancelVars, answerVars
  <2> QED
    BY Zenon, <2>1, <2>2, <2>3
<1>5. CASE EnterWriteFails
  <2>1. Answered'
    BY Zenon, <1>5 DEF EnterWriteFails, EndOperation, Tell, nativeVars, handleVars,
      cancelVars
  <2>2. Durability'
    BY Zenon, <1>5 DEF EnterWriteFails, EndOperation, Tell, nativeVars, handleVars,
      cancelVars
  <2>3. Holdings'
    BY ZenonT(60), <1>5 DEF EnterWriteFails, EndOperation, Tell, nativeVars, handleVars,
      cancelVars
  <2> QED
    BY Zenon, <2>1, <2>2, <2>3
<1>6. CASE RunStatement
  <2>1. Answered'
    BY <1>6 DEF RunStatement, slotVars, handleVars, cancelVars, answerVars
  <2>2. Durability'
    BY <1>6 DEF RunStatement, slotVars, handleVars, cancelVars, answerVars
  <2>3. Holdings'
    BY ZenonT(60), <1>6 DEF RunStatement, slotVars, handleVars, cancelVars, answerVars
  <2> QED
    BY <2>1, <2>2, <2>3
<1>7. CASE CloseHandle
  <2>1. Answered'
    BY Zenon, <1>7 DEF CloseHandle, slotVars, nativeVars, cancelVars, answerVars
  <2>2. Durability'
    BY ZenonT(60), <1>7 DEF CloseHandle, slotVars, nativeVars, cancelVars, answerVars
  <2>3. Holdings'
    BY Zenon, <1>7 DEF CloseHandle, slotVars, nativeVars, cancelVars, answerVars
  <2> QED
    BY Zenon, <2>1, <2>2, <2>3
<1>8. CASE FlushClosed
  <2>1. Answered'
    BY Zenon, <1>8 DEF FlushClosed, slotVars, nativeVars, opVars, cancelVars,
      answerVars
  <2>2. Durability'
    BY ZenonT(60), <1>8 DEF FlushClosed, slotVars, nativeVars, opVars, cancelVars,
      answerVars
  <2>3. Holdings'
    BY <1>8 DEF FlushClosed, slotVars, nativeVars, opVars, cancelVars,
      answerVars
  <2> QED
    BY Zenon, <2>1, <2>2, <2>3
<1>9. CASE Decide
  <2>1. Answered'
    BY Zenon, <1>9 DEF Decide, slotVars, nativeVars, handleVars, cancelVars,
      answerVars
  <2>2. Durability'
    BY Zenon, <1>9 DEF Decide, slotVars, nativeVars, handleVars, cancelVars,
      answerVars
  <2>3. Holdings'
    BY ZenonT(60), <1>9 DEF Decide, slotVars, nativeVars, handleVars, cancelVars,
      answerVars
  <2> QED
    BY Zenon, <2>1, <2>2, <2>3
<1>10. CASE ReturnExplicit
  <2>1. Answered'
    BY ZenonT(60), <1>10 DEF ReturnExplicit, EndOperation, Tell, Fenced, nativeVars,
      handleVars, cancelVars
  <2>2. Durability'
    BY ZenonT(60), <1>10 DEF ReturnExplicit, EndOperation, Tell, Fenced, nativeVars,
      handleVars, cancelVars
  <2>3. Holdings'
    BY Zenon, <1>10 DEF ReturnExplicit, EndOperation, Tell, Fenced, nativeVars,
      handleVars, cancelVars
  <2> QED
    BY Zenon, <2>1, <2>2, <2>3
<1>11. CASE NativeCommit
  <2>1. Answered'
    BY Zenon, <1>11 DEF NativeCommit, Fenced, slotVars, handleVars, cancelVars,
      answerVars
  <2>2. Durability'
    BY Zenon, <1>11 DEF NativeCommit, Fenced, slotVars, handleVars, cancelVars,
      answerVars
  <2>3. Holdings'
    BY Zenon, <1>11 DEF NativeCommit, Fenced, slotVars, handleVars, cancelVars,
      answerVars
  <2> QED
    BY Zenon, <2>1, <2>2, <2>3
<1>12. CASE NativeCommitFails
  <2>1. Answered'
    BY ZenonT(60), <1>12 DEF NativeCommitFails, SetState, EndOperation, Fenced,
      handleVars, cancelVars
  <2>2. Durability'
    BY <1>12 DEF NativeCommitFails, SetState, EndOperation, Fenced,
      handleVars, cancelVars
  <2>3. Holdings'
    BY Zenon, <1>12 DEF NativeCommitFails, SetState, EndOperation, Fenced,
      handleVars, cancelVars
  <2> QED
    BY Zenon, <2>1, <2>2, <2>3
<1>13. CASE Reconcile
  <2>1. Answered'
    BY Zenon, <1>13 DEF Reconcile, slotVars, nativeVars, handleVars, cancelVars,
      answerVars
  <2>2. Durability'
    BY Zenon, <1>13 DEF Reconcile, slotVars, nativeVars, handleVars, cancelVars,
      answerVars
  <2>3. Holdings'
    BY Zenon, <1>13 DEF Reconcile, slotVars, nativeVars, handleVars, cancelVars,
      answerVars
  <2> QED
    BY Zenon, <2>1, <2>2, <2>3
<1>14. CASE CommitCleanupFails
  <2>1. Answered'
    BY ZenonT(60), <1>14 DEF CommitCleanupFails, SetState, EndOperation, handleVars,
      cancelVars
  <2>2. Durability'
    BY Zenon, <1>14 DEF CommitCleanupFails, SetState, EndOperation, handleVars,
      cancelVars
  <2>3. Holdings'
    BY Zenon, <1>14 DEF CommitCleanupFails, SetState, EndOperation, handleVars,
      cancelVars
  <2> QED
    BY Zenon, <2>1, <2>2, <2>3
<1>15. CASE NativeRollback
  <2>1. Answered'
    BY Zenon, <1>15 DEF NativeRollback, Fenced, slotVars, handleVars, cancelVars,
      answerVars
  <2>2. Durability'
    BY ZenonT(60), <1>15 DEF NativeRollback, Fenced, slotVars, handleVars, cancelVars,
      answerVars
  <2>3. Holdings'
    BY Zenon, <1>15 DEF NativeRollback, Fenced, slotVars, handleVars, cancelVars,
      answerVars
  <2> QED
    BY Zenon, <2>1, <2>2, <2>3
<1>16. CASE RollbackFails
  <2>1. Answered'
    BY <1>16 DEF RollbackFails, SetState, EndOperation, Quarantine, Fenced,
      handleVars, cancelVars
  <2>2. Durability'
    BY ZenonT(60), <1>16 DEF RollbackFails, SetState, EndOperation, Quarantine, Fenced,
      handleVars, cancelVars
  <2>3. Holdings'
    BY Zenon, <1>16 DEF RollbackFails, SetState, EndOperation, Quarantine, Fenced,
      handleVars, cancelVars
  <2> QED
    BY Zenon, <2>1, <2>2, <2>3
<1>17. CASE RestoreAutocommit
  <2>1. Answered'
    BY <1>17 DEF RestoreAutocommit, SetState, EndOperation, Tell, TellMembers,
      handleVars, cancelVars
  <2>2. Durability'
    BY <1>17 DEF RestoreAutocommit, SetState, EndOperation, Tell, TellMembers,
      handleVars, cancelVars
  <2>3. Holdings'
    BY ZenonT(60), <1>17 DEF RestoreAutocommit, SetState, EndOperation, Tell, TellMembers,
      handleVars, cancelVars
  <2> QED
    BY Zenon, <2>1, <2>2, <2>3
<1>18. CASE RestoreThenQuarantine
  <2>1. Answered'
    BY <1>18 DEF RestoreThenQuarantine, SetState, EndOperation, Quarantine,
      handleVars, cancelVars
  <2>2. Durability'
    BY Zenon, <1>18 DEF RestoreThenQuarantine, SetState, EndOperation, Quarantine,
      handleVars, cancelVars
  <2>3. Holdings'
    BY Zenon, <1>18 DEF RestoreThenQuarantine, SetState, EndOperation, Quarantine,
      handleVars, cancelVars
  <2> QED
    BY <2>1, <2>2, <2>3
<1>19. CASE NextBatch
  <2>1. Answered'
    BY Zenon, <1>19 DEF NextBatch, slotVars, nativeVars, handleVars, cancelVars,
      answerVars
  <2>2. Durability'
    BY Zenon, <1>19 DEF NextBatch, slotVars, nativeVars, handleVars, cancelVars,
      answerVars
  <2>3. Holdings'
    BY Zenon, <1>19 DEF NextBatch, slotVars, nativeVars, handleVars, cancelVars,
      answerVars
  <2> QED
    BY Zenon, <2>1, <2>2, <2>3
<1>20. CASE DropStream
  <2>1. CASE goal = "ok" /\ ~requested[cur]
    <3>1. Answered'
      BY <1>20, <2>1 DEF DropStream, Tell, EndOperation, handleVars,
        cancelVars
    <3>2. Durability'
      BY <1>20, <2>1 DEF DropStream, Tell, EndOperation, handleVars,
        cancelVars
    <3>3. Holdings'
      BY Zenon, <1>20, <2>1 DEF DropStream, Tell, EndOperation, handleVars,
        cancelVars
    <3> QED
      BY Zenon, <3>1, <3>2, <3>3
  <2>2. CASE ~(goal = "ok" /\ ~requested[cur])
    <3>1. Quarantine("failed") /\ durable' = durable
      BY Zenon, <1>20, <2>2 DEF DropStream
    <3>2. Answered'
      BY Zenon, <1>20, <3>1 DEF DropStream, Quarantine, SetState, EndOperation
    <3>3. Durability'
      BY ZenonT(60), <1>20, <3>1 DEF DropStream, Quarantine, SetState, EndOperation
    <3>4. Holdings'
      BY Zenon, <1>20, <3>1 DEF DropStream, Quarantine, SetState, EndOperation
    <3> QED
      BY Zenon, <3>2, <3>3, <3>4
  <2> QED
    BY Zenon, <2>1, <2>2
<1>21. CASE IngestSchemaFails
  <2>1. Answered'
    BY Zenon, <1>21 DEF IngestSchemaFails, EndOperation, Tell, slotVars, handleVars,
      cancelVars
  <2>2. Durability'
    BY Zenon, <1>21 DEF IngestSchemaFails, EndOperation, Tell, slotVars, handleVars,
      cancelVars
  <2>3. Holdings'
    BY Zenon, <1>21 DEF IngestSchemaFails, EndOperation, Tell, slotVars, handleVars,
      cancelVars
  <2> QED
    BY Zenon, <2>1, <2>2, <2>3
<1>22. CASE IngestLayoutFails
  <2>1. Answered'
    BY ZenonT(60), <1>22 DEF IngestLayoutFails, EndOperation, Tell, nativeVars,
      handleVars, cancelVars
  <2>2. Durability'
    BY ZenonT(60), <1>22 DEF IngestLayoutFails, EndOperation, Tell, nativeVars,
      handleVars, cancelVars
  <2>3. Holdings'
    BY Zenon, <1>22 DEF IngestLayoutFails, EndOperation, Tell, nativeVars,
      handleVars, cancelVars
  <2> QED
    BY Zenon, <2>1, <2>2, <2>3
<1>23. CASE LoadStage
  <2>1. Answered'
    BY Zenon, <1>23 DEF LoadStage, slotVars, nativeVars, handleVars, cancelVars,
      answerVars
  <2>2. Durability'
    BY Zenon, <1>23 DEF LoadStage, slotVars, nativeVars, handleVars, cancelVars,
      answerVars
  <2>3. Holdings'
    BY Zenon, <1>23 DEF LoadStage, slotVars, nativeVars, handleVars, cancelVars,
      answerVars
  <2> QED
    BY Zenon, <2>1, <2>2, <2>3
<1>24. CASE CheckCancelled
  <2>1. Answered'
    BY Zenon, <1>24 DEF CheckCancelled, slotVars, nativeVars, handleVars, cancelVars,
      answerVars
  <2>2. Durability'
    BY Zenon, <1>24 DEF CheckCancelled, slotVars, nativeVars, handleVars, cancelVars,
      answerVars
  <2>3. Holdings'
    BY Zenon, <1>24 DEF CheckCancelled, slotVars, nativeVars, handleVars, cancelVars,
      answerVars
  <2> QED
    BY Zenon, <2>1, <2>2, <2>3
<1>25. CASE Publish
  <2>1. Answered'
    BY ZenonT(60), <1>25 DEF Publish, slotVars, handleVars, cancelVars, answerVars
  <2>2. Durability'
    BY <1>25 DEF Publish, slotVars, handleVars, cancelVars, answerVars
  <2>3. Holdings'
    BY ZenonT(60), <1>25 DEF Publish, slotVars, handleVars, cancelVars, answerVars
  <2> QED
    BY Zenon, <2>1, <2>2, <2>3
<1>26. CASE DropStorage
  <2>1. Answered'
    BY <1>26 DEF DropStorage, SetState, TellMembers, opVars, handleVars,
      cancelVars
  <2>2. Durability'
    BY ZenonT(60), <1>26 DEF DropStorage, SetState, TellMembers, opVars, handleVars,
      cancelVars
  <2>3. Holdings'
    BY Zenon, <1>26 DEF DropStorage, SetState, TellMembers, opVars, handleVars,
      cancelVars
  <2> QED
    BY Zenon, <2>1, <2>2, <2>3
<1>27. ASSUME NEW ro \in BOOLEAN,
              Begin(ro)
       PROVE  Answered' /\ Durability' /\ Holdings'
  <2>1. Answered'
    BY ZenonT(60), <1>27 DEF Begin, opVars, handleVars, cancelVars, answerVars
  <2>2. Durability'
    BY Zenon, <1>27 DEF Begin, opVars, handleVars, cancelVars, answerVars
  <2>3. Holdings'
    BY Zenon, <1>27 DEF Begin, opVars, handleVars, cancelVars, answerVars
  <2> QED
    BY Zenon, <2>1, <2>2, <2>3
<1>28. ASSUME NEW o \in Op,
              StartUpdate(o)
       PROVE  Answered' /\ Durability' /\ Holdings'
  <2>1. Answered'
    BY ZenonT(60), <1>28 DEF StartUpdate, Take, Fresh, Writable, nativeVars, cancelVars,
      answerVars
  <2>2. Durability'
    BY ZenonT(60), <1>28 DEF StartUpdate, Take, Fresh, Writable, nativeVars, cancelVars,
      answerVars
  <2>3. Holdings'
    BY Zenon, <1>28 DEF StartUpdate, Take, Fresh, Writable, nativeVars, cancelVars,
      answerVars
  <2> QED
    BY Zenon, <2>1, <2>2, <2>3
<1>29. ASSUME NEW o \in Op,
              StartIngest(o)
       PROVE  Answered' /\ Durability' /\ Holdings'
  <2>1. Answered'
    BY Zenon, <1>29 DEF StartIngest, Take, Fresh, Writable, nativeVars, cancelVars,
      answerVars
  <2>2. Durability'
    BY ZenonT(60), <1>29 DEF StartIngest, Take, Fresh, Writable, nativeVars, cancelVars,
      answerVars
  <2>3. Holdings'
    BY Zenon, <1>29 DEF StartIngest, Take, Fresh, Writable, nativeVars, cancelVars,
      answerVars
  <2> QED
    BY Zenon, <2>1, <2>2, <2>3
<1>30. ASSUME NEW o \in Op,
              OpenStream(o)
       PROVE  Answered' /\ Durability' /\ Holdings'
  <2>1. Answered'
    BY Zenon, <1>30 DEF OpenStream, Take, Fresh, nativeVars, cancelVars, answerVars
  <2>2. Durability'
    BY ZenonT(60), <1>30 DEF OpenStream, Take, Fresh, nativeVars, cancelVars, answerVars
  <2>3. Holdings'
    BY Zenon, <1>30 DEF OpenStream, Take, Fresh, nativeVars, cancelVars, answerVars
  <2> QED
    BY Zenon, <2>1, <2>2, <2>3
<1>31. ASSUME NEW k \in {"scoped", "probe"}, NEW o \in Op,
              StartScoped(k, o)
       PROVE  Answered' /\ Durability' /\ Holdings'
  <2>1. Answered'
    BY Zenon, <1>31 DEF StartScoped, Take, Fresh, cancelVars, answerVars
  <2>2. Durability'
    BY Zenon, <1>31 DEF StartScoped, Take, Fresh, cancelVars, answerVars
  <2>3. Holdings'
    BY Zenon, <1>31 DEF StartScoped, Take, Fresh, cancelVars, answerVars
  <2> QED
    BY Zenon, <2>1, <2>2, <2>3
<1>32. ASSUME NEW clean \in BOOLEAN,
              DropStage(clean)
       PROVE  Answered' /\ Durability' /\ Holdings'
  <2>1. CASE clean /\ ~requested[cur]
    <3>1. Answered'
      BY <1>32, <2>1 DEF DropStage, Tell, EndOperation, handleVars, cancelVars
    <3>2. Durability'
      BY <1>32, <2>1 DEF DropStage, Tell, EndOperation, handleVars, cancelVars
    <3>3. Holdings'
      BY ZenonT(60), ZenonT(30), <1>32, <2>1 DEF DropStage, Tell, EndOperation, handleVars, cancelVars
    <3> QED
      BY ZenonT(60), <3>1, <3>2, <3>3
  <2>2. CASE ~(clean /\ ~requested[cur])
    <3>1. Quarantine(IF goal = "ok" /\ ~explicit THEN "ok" ELSE "failed") /\ durable' = durable
      BY ZenonT(60), <1>32, <2>2 DEF DropStage
    <3>2. Answered'
      BY SMTT(60), <1>32, <3>1 DEF DropStage, Quarantine, SetState, EndOperation
    <3>3. Durability'
      BY SMTT(60), <1>32, <3>1 DEF DropStage, Quarantine, SetState, EndOperation
    <3>4. Holdings'
      BY <1>32, <3>1 DEF DropStage, Quarantine, SetState, EndOperation
    <3> QED
      BY Zenon, <3>2, <3>3, <3>4
  <2> QED
    BY Zenon, <2>1, <2>2
<1>33. ASSUME NEW c \in Canceller,
              Aim(c)
       PROVE  Answered' /\ Durability' /\ Holdings'
  <2>1. Answered'
    BY Zenon, <1>33 DEF Aim, slotVars, nativeVars, opVars, handleVars, answerVars
  <2>2. Durability'
    BY ZenonT(60), <1>33 DEF Aim, slotVars, nativeVars, opVars, handleVars, answerVars
  <2>3. Holdings'
    BY <1>33 DEF Aim, slotVars, nativeVars, opVars, handleVars, answerVars
  <2> QED
    BY Zenon, <2>1, <2>2, <2>3
<1>34. ASSUME NEW c \in Canceller,
              LookClosed(c)
       PROVE  Answered' /\ Durability' /\ Holdings'
  <2>1. Answered'
    BY Zenon, <1>34 DEF LookClosed, slotVars, nativeVars, opVars, handleVars,
      answerVars
  <2>2. Durability'
    BY ZenonT(60), <1>34 DEF LookClosed, slotVars, nativeVars, opVars, handleVars,
      answerVars
  <2>3. Holdings'
    BY <1>34 DEF LookClosed, slotVars, nativeVars, opVars, handleVars,
      answerVars
  <2> QED
    BY Zenon, <2>1, <2>2, <2>3
<1>35. ASSUME NEW c \in Canceller,
              StoreRequested(c)
       PROVE  Answered' /\ Durability' /\ Holdings'
  <2>1. Answered'
    BY Zenon, <1>35 DEF StoreRequested, slotVars, nativeVars, opVars, handleVars,
      answerVars
  <2>2. Durability'
    BY ZenonT(60), <1>35 DEF StoreRequested, slotVars, nativeVars, opVars, handleVars,
      answerVars
  <2>3. Holdings'
    BY <1>35 DEF StoreRequested, slotVars, nativeVars, opVars, handleVars,
      answerVars
  <2> QED
    BY Zenon, <2>1, <2>2, <2>3
<1>36. ASSUME NEW c \in Canceller,
              LookAgain(c)
       PROVE  Answered' /\ Durability' /\ Holdings'
  <2>1. Answered'
    BY Zenon, <1>36 DEF LookAgain, slotVars, nativeVars, opVars, handleVars,
      answerVars
  <2>2. Durability'
    BY ZenonT(60), <1>36 DEF LookAgain, slotVars, nativeVars, opVars, handleVars,
      answerVars
  <2>3. Holdings'
    BY <1>36 DEF LookAgain, slotVars, nativeVars, opVars, handleVars,
      answerVars
  <2> QED
    BY Zenon, <2>1, <2>2, <2>3
<1>37. ASSUME NEW c \in Canceller,
              FlushRequested(c)
       PROVE  Answered' /\ Durability' /\ Holdings'
  <2>1. Answered'
    BY Zenon, <1>37 DEF FlushRequested, slotVars, nativeVars, opVars, cancelVars,
      answerVars
  <2>2. Durability'
    BY ZenonT(60), <1>37 DEF FlushRequested, slotVars, nativeVars, opVars, cancelVars,
      answerVars
  <2>3. Holdings'
    BY <1>37 DEF FlushRequested, slotVars, nativeVars, opVars, cancelVars,
      answerVars
  <2> QED
    BY Zenon, <2>1, <2>2, <2>3
<1>38. ASSUME NEW c \in Canceller,
              NativeCancel(c)
       PROVE  Answered' /\ Durability' /\ Holdings'
  <2>1. Answered'
    BY <1>38 DEF NativeCancel, slotVars, nativeVars, opVars, handleVars,
      answerVars
  <2>2. Durability'
    BY ZenonT(60), <1>38 DEF NativeCancel, slotVars, nativeVars, opVars, handleVars,
      answerVars
  <2>3. Holdings'
    BY SMTT(60), <1>38 DEF NativeCancel, slotVars, nativeVars, opVars, handleVars,
      answerVars
  <2> QED
    BY ZenonT(60), <2>1, <2>2, <2>3
<1>39. CASE UNCHANGED vars
  BY <1>39 DEF vars, slotVars, nativeVars, opVars, handleVars, cancelVars,
    answerVars
<1> QED
  BY ZenonT(60), <1>1, <1>2, <1>3, <1>4, <1>5, <1>6, <1>7, <1>8, <1>9, <1>10, <1>11,
    <1>12, <1>13, <1>14, <1>15, <1>16, <1>17, <1>18, <1>19, <1>20, <1>21, <1>22,
    <1>23, <1>24, <1>25, <1>26, <1>27, <1>28, <1>29, <1>30, <1>31, <1>32, <1>33,
    <1>34, <1>35, <1>36, <1>37, <1>38, <1>39 DEF Next

----------------------------------------------------------------------------
(* What the session promises.                                              *)

\* The inductive invariant: at every step of every operation the connection
\* has one owner, and what is pending, durable and answered agree.
THEOREM IInvariant == Spec => []IInv
<1>1. Init => IInv
  BY ControlInit, ContentInit DEF IInv
<1>2. IInv /\ [Next]_vars => IInv'
  BY ControlNext, ContentNext DEF IInv
<1> QED
  BY <1>1, <1>2, PTL DEF Spec

\* Every variable keeps its type; in particular the session's share of
\* active_transactions never goes below zero or above one.
THEOREM TypeCorrect == Spec => []TypeOK
<1>1. IInv => TypeOK
  BY DEF IInv, Control, Typed
<1> QED
  BY <1>1, IInvariant, PTL

\* On every path out of an operation the session is in the drain set exactly
\* if set_transaction_state has left it Active: no path leaves the set twice,
\* and none changes the state and stays in it.
THEOREM DrainShare == Spec => []DrainShareExact
<1>1. IInv => DrainShareExact
  BY DEF IInv, Control, Typed
<1> QED
  BY <1>1, IInvariant, PTL

\* take_connection never hands out a connection with somebody else's
\* transaction open, whatever failed or was cancelled before.
THEOREM CleanReuse == Spec => []ReusedConnectionIsClean
<1>1. IInv => ReusedConnectionIsClean
  BY DEF IInv, Control, Content, Ownership, Answered, Holdings,
    ReusedConnectionIsClean
<1> QED
  BY <1>1, IInvariant, PTL

\* The result that execute, commit_transaction and rollback_transaction
\* return about a write agrees with what is durable, then and ever after.
THEOREM TrueAnswers == Spec => []AnswersAreTrue
<1>1. IInv => AnswersAreTrue
  BY DEF IInv, Control, Content, Typed, TypeOK, Answered, Durability,
    AnswersAreTrue, Answer
<1> QED
  BY <1>1, IInvariant, PTL

\* require_writable keeps every write out of a read-only transaction.
THEOREM ReadOnly == Spec => []ReadOnlyWritesNothing
<1>1. IInv => ReadOnlyWritesNothing
  <2> SUFFICES ASSUME IInv, readOnly PROVE pending = {} /\ members = {}
    BY DEF ReadOnlyWritesNothing
  <2>1. members = {}
    BY Zenon DEF IInv, Content, Answered
  <2>2. kind \in {"none", "stream", "commit", "rollback"}
    BY DEF IInv, Control, Typed, TypeOK, Kind, Transactions
  <2>3. CASE kind \in {"none", "stream"}
    BY <2>1, <2>3 DEF IInv, Content, Holdings
  <2>4. CASE kind \in {"commit", "rollback"}
    <3>1. cur \notin Op /\ pc \in {"commit", "reconcile", "rollback", "restore"}
      BY Zenon, <2>4, NoOpIsNoOp DEF IInv, Control, Phases
    <3>2. pending \subseteq Op
      BY Zenon DEF IInv, Control, Typed, TypeOK
    <3>3. pending \subseteq members \cup {cur}
      BY <2>1, <2>4, <3>1 DEF IInv, Content, Holdings
    <3> QED
      BY Zenon, <2>1, <3>1, <3>2, <3>3
  <2> QED
    BY <2>1, <2>2, <2>3, <2>4
<1> QED
  BY <1>1, IInvariant, PTL

\* Once a session is quarantined no operation of it runs again, so that
\* nothing it had pending can still become durable.
THEOREM QuarantineFinal == Spec => QuarantineIsFinal
<1> DEFINE Final == state = "Quarantined" =>
                      state' = "Quarantined" /\ durable' = durable /\ kind' = "none"
<1>1. IInv /\ [Next]_vars => [Final]_vars
  <2> SUFFICES ASSUME IInv, Next, state = "Quarantined" PROVE Final
    BY Zenon
  <2>1. kind = "none" /\ pc = "none" /\ ~slot
    BY Zenon DEF IInv, Control, Typed, TypeOK, Kind, Ownership, Phases
  <2>2. \/ BeginDrain \/ FlushClosed \/ DropStorage
        \/ \E c \in Canceller :
             LookClosed(c) \/ StoreRequested(c) \/ LookAgain(c)
             \/ FlushRequested(c) \/ NativeCancel(c)
    BY Zenon, <2>1 DEF Next, Begin, StartCommit, StartRollback, StartUpdate,
      StartIngest, OpenStream, StartScoped, Take, EnterWrite, EnterWriteFails,
      RunStatement, CloseHandle, Decide, ReturnExplicit, NativeCommit,
      NativeCommitFails, Reconcile, CommitCleanupFails, NativeRollback,
      RollbackFails, RestoreAutocommit, RestoreThenQuarantine, NextBatch,
      DropStream, IngestSchemaFails, IngestLayoutFails, LoadStage,
      CheckCancelled, Publish, DropStage, Aim
  <2> QED
    BY <2>1, <2>2 DEF BeginDrain, FlushClosed, DropStorage, LookClosed,
      StoreRequested, LookAgain, FlushRequested, NativeCancel, slotVars,
      nativeVars, opVars
<1>2. [][Final]_vars => QuarantineIsFinal
  BY DEF QuarantineIsFinal
<1> QED
  BY <1>1, <1>2, IInvariant, PTL DEF Spec
============================================================================
