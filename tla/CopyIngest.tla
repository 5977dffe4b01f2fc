----------------------------- MODULE CopyIngest -----------------------------
(***************************************************************************)
(* One COPY ... FROM STDIN of pgwire_server/duckdb.rs, from begin_copy on. *)
(* The connection's task decodes the client's chunks into batches and      *)
(* sends them over a bounded channel; a blocking worker feeds them to the  *)
(* native ingestion of DuckDbIngestOperation; deadlines and cancel         *)
(* requests abort the input from threads of their own.                     *)
(*                                                                         *)
(* The tokio channel (external) hands a freed permit to a waiting sender,  *)
(* who pushes when its task is next polled; until then try_send finds the  *)
(* channel full.  The flag `aborted` is modelled as sequentially           *)
(* consistent: its store is assumed to reach memory before the worker has  *)
(* loaded the batches that a try_send after it found in the channel.       *)
(***************************************************************************)
EXTENDS Naturals, Sequences, SequencesExt

CONSTANTS MaxRows,    \* rows the client may send (bound)
          ChunkRows,  \* rows of one CopyData message (bound)
          BatchRows,  \* CopyBatchLimits::max_rows
          Capacity,   \* of the channel
          Canceller   \* deadlines and cancel requests

ASSUME CopyLimits ==
  /\ MaxRows \in Nat /\ ChunkRows \in Nat
  /\ BatchRows \in Nat \ {0} /\ Capacity \in Nat \ {0}

VARIABLES
  \* the connection's task
  handler,   \* where the task is
  input,     \* rows received from the client
  buffer,    \* rows the decoder holds back
  rows,      \* CopyRequest::rows
  outbox,    \* messages the current handler still has to send
  permit,    \* its pending send: "none", "waiting" or "granted"
  complete,  \* the input is complete
  told,      \* what the client was told
  \* the channel and the flag
  channel, closed, aborted,
  \* the worker
  worker, staged, result, target,
  \* cancellation
  requested, cancel

taskVars == <<handler, input, buffer, rows, outbox, permit, complete, told>>
channelVars == <<channel, closed, aborted>>
workerVars == <<worker, staged, result, target>>
cancelVars == <<requested, cancel>>
vars == <<taskVars, channelVars, workerVars, cancelVars>>

Row == 1..MaxRows

Batch(rs) == [kind |-> "batch", rows |-> rs]
Finish == [kind |-> "finish", rows |-> <<>>]
Abort == [kind |-> "abort", rows |-> <<>>]

Nothing == [answer |-> "nothing"]
Error == [answer |-> "error"]
Done(n) == [answer |-> "done", rows |-> n]

\* begin_copy has started the worker and answered CopyInResponse.
Init ==
  /\ handler = "copy"
  /\ input = <<>> /\ buffer = <<>> /\ rows = 0
  /\ outbox = <<>> /\ permit = "none" /\ complete = FALSE
  /\ told = Nothing
  /\ channel = <<>> /\ closed = FALSE /\ aborted = FALSE
  /\ worker = "schema" /\ staged = <<>> /\ result = "none"
  /\ target = <<>>
  /\ requested = FALSE
  /\ cancel = [c \in Canceller |-> "idle"]

----------------------------------------------------------------------------
\* The channel.
Permits == Capacity - Len(channel) - IF permit = "granted" THEN 1 ELSE 0

\* Faults: the reader is not woken; it is woken beyond the capacity.
TryWakeNot(queue) == queue

TryWakeAnyway(queue) == IF ~closed THEN Append(queue, Abort) ELSE queue

\* try_send(Abort): nothing happens when the channel is full or closed.
TryWake(queue) ==
  IF ~closed /\ Permits > 0 THEN Append(queue, Abort) ELSE queue

\* CopyCancellation::abort_input sets the flag and then wakes the reader.
\* The task goes on to `at` in between.
AbortInput(at) ==
  /\ aborted' = TRUE
  /\ handler' = at
  /\ outbox' = <<>>
  /\ permit' = "none"
  /\ UNCHANGED <<channel, closed, input, buffer, rows, complete, told,
                 workerVars, cancelVars>>

\* Receiving frees a permit, which goes to a waiting sender first.
Receive ==
  /\ channel' = Tail(channel)
  /\ permit' = IF permit = "waiting" THEN "granted" ELSE permit

----------------------------------------------------------------------------
\* CopyTextDecoder::push emits a batch whenever enough rows are complete.
FullBatches(rs) ==
  [i \in 1..(Len(rs) \div BatchRows) |->
     Batch(SubSeq(rs, (i - 1) * BatchRows + 1, i * BatchRows))]

HeldBack(rs) == SubSeq(rs, (Len(rs) \div BatchRows) * BatchRows + 1, Len(rs))

\* CopyTextDecoder::finish flushes what is left.
LastBatches(rs) == IF rs = <<>> THEN <<>> ELSE <<Batch(rs)>>

RowsOf(messages) == FoldLeft(LAMBDA n, m : n + Len(m.rows), 0, messages)

\* on_copy_data with a chunk that decodes.
CopyData(k) ==
  /\ handler = "copy"
  /\ Len(input) + k <= MaxRows
  /\ LET chunk == [i \in 1..k |-> Len(input) + i]
         held  == buffer \o chunk
     IN  /\ input' = input \o chunk
         /\ buffer' = HeldBack(held)
         /\ outbox' = FullBatches(held)
         /\ rows' = rows + RowsOf(FullBatches(held))
         /\ handler' = IF FullBatches(held) = <<>> THEN "copy" ELSE "send"
  /\ UNCHANGED <<permit, complete, told, channelVars, workerVars, cancelVars>>

\* on_copy_data or on_copy_done with input that does not decode, and
\* on_copy_fail.  As every failure they go through cleanup_aborted_copy.
RefuseInput ==
  /\ handler = "copy"
  /\ AbortInput("wake")

\* A fault: the end of the input is not announced.
CopyDoneUnannounced ==
  /\ handler = "copy"
  /\ handler' = IF buffer = <<>> THEN "await" ELSE "send"
  /\ complete' = TRUE
  /\ buffer' = <<>>
  /\ rows' = rows + RowsOf(LastBatches(buffer))
  /\ outbox' = LastBatches(buffer)
  /\ UNCHANGED <<input, permit, told, channelVars, workerVars, cancelVars>>

\* on_copy_done: the last rows and Finish are sent.
CopyDone ==
  /\ handler = "copy"
  /\ handler' = "send"
  /\ complete' = TRUE
  /\ buffer' = <<>>
  /\ rows' = rows + RowsOf(LastBatches(buffer))
  /\ outbox' = Append(LastBatches(buffer), Finish)
  /\ UNCHANGED <<input, permit, told, channelVars, workerVars, cancelVars>>

\* The task sends the next message, or waits for room.
Push ==
  /\ channel' = IF closed THEN channel ELSE Append(channel, Head(outbox))
  /\ outbox' = Tail(outbox)
  /\ permit' = "none"
  /\ handler' = IF Len(outbox) > 1 THEN "send"
                ELSE IF complete THEN "await" ELSE "copy"

SendMessage ==
  /\ handler = "send"
  /\ \/ permit = "none" /\ ~closed /\ Permits > 0
     \/ permit = "granted"
  /\ Push
  /\ UNCHANGED <<input, buffer, rows, complete, told, closed, aborted,
                 workerVars, cancelVars>>

WaitForRoom ==
  /\ handler = "send"
  /\ permit = "none" /\ ~closed /\ Permits = 0
  /\ permit' = "waiting"
  /\ UNCHANGED <<handler, input, buffer, rows, outbox, complete, told,
                 channelVars, workerVars, cancelVars>>

SendFails ==
  /\ handler = "send"
  /\ closed /\ permit # "granted"
  /\ AbortInput("wake")

\* The second half of abort_input.
WakeReader ==
  /\ handler \in {"wake", "dropWake"}
  /\ channel' = TryWake(channel)
  /\ handler' = IF handler = "wake" THEN "cleanup" ELSE "gone"
  /\ UNCHANGED <<input, buffer, rows, outbox, permit, complete, told, closed,
                 aborted, workerVars, cancelVars>>

\* The worker has ended; the client is told.
TellCleanup ==
  /\ handler = "cleanup"
  /\ worker = "over"
  /\ handler' = "over"
  /\ told' = Error
  /\ UNCHANGED <<input, buffer, rows, outbox, permit, complete, channelVars,
                 workerVars, cancelVars>>

TellResult ==
  /\ handler = "await"
  /\ worker = "over"
  /\ handler' = "over"
  /\ told' = IF result = "ok" THEN Done(rows) ELSE Error
  /\ UNCHANGED <<input, buffer, rows, outbox, permit, complete, channelVars,
                 workerVars, cancelVars>>

\* The client disconnects between two messages, or the task is aborted at
\* the shutdown deadline, anywhere: CopyRequest is dropped.
Disconnect ==
  /\ handler \notin {"over", "dropWake", "gone"}
  /\ AbortInput("dropWake")

----------------------------------------------------------------------------
\* DuckDbIngestOperation::execute.  Leaving the load drops the reader and
\* with it the receiving end of the channel.
Leave(at, r) ==
  /\ worker' = at
  /\ result' = r
  /\ closed' = TRUE
  /\ channel' = <<>>
  /\ UNCHANGED <<handler, input, buffer, rows, outbox, complete, told, permit,
                 aborted, staged, target, cancelVars>>

SchemaFails ==
  /\ worker = "schema"
  /\ Leave("over", "failed")

StartLoad ==
  /\ worker = "schema"
  /\ worker' = "next"
  /\ UNCHANGED <<taskVars, channelVars, staged, result, target, cancelVars>>

\* The native load fails for reasons of its own.
LoadFails ==
  /\ worker = "next"
  /\ Leave("dropStage", "failed")

\* CopyBatchReader::next looks at the flag before it waits for a message.
LookAborted ==
  /\ worker = "next"
  /\ IF aborted
     THEN Leave("dropStage", "failed")
     ELSE /\ worker' = "receive"
          /\ UNCHANGED <<taskVars, channelVars, staged, result, target,
                         cancelVars>>

ReceiveBatch ==
  /\ worker = "receive"
  /\ channel # <<>> /\ Head(channel).kind = "batch"
  /\ staged' = staged \o Head(channel).rows
  /\ Receive
  /\ worker' = "next"
  /\ UNCHANGED <<handler, input, buffer, rows, outbox, complete, told, closed,
                 aborted, result, target, cancelVars>>

ReceiveFinish ==
  /\ worker = "receive"
  /\ channel # <<>> /\ Head(channel) = Finish
  /\ Leave("check", "none")

\* A fault: an aborted input ends like a complete one.
ReceiveAbortAsEnd ==
  /\ worker = "receive"
  /\ channel # <<>> /\ Head(channel) = Abort
  /\ Leave("check", "none")

ReceiveAbort ==
  /\ worker = "receive"
  /\ channel # <<>> /\ Head(channel) = Abort
  /\ Leave("dropStage", "failed")

CheckCancelled ==
  /\ worker = "check"
  /\ worker' = IF requested THEN "dropStage" ELSE "publish"
  /\ result' = IF requested THEN "failed" ELSE result
  /\ UNCHANGED <<taskVars, channelVars, staged, target, cancelVars>>

\* The INSERT from the stage, committed by itself.  A failed one is assumed
\* to have written nothing, also when a cancel interrupts it.
PublishStage ==
  /\ worker = "publish"
  /\ worker' = "dropStage"
  /\ \/ target' = <<staged>> /\ result' = "ok"
     \/ result' = "failed" /\ UNCHANGED target
  /\ UNCHANGED <<taskVars, channelVars, staged, cancelVars>>

\* The worker ends, and releases the permit, registration and deadline.
DropStage ==
  /\ worker = "dropStage"
  /\ worker' = "over"
  /\ UNCHANGED <<taskVars, channelVars, staged, result, target, cancelVars>>

----------------------------------------------------------------------------
\* CopyCancellation::cancel, from a deadline or a cancel request that got
\* hold of it while the worker was running.
AbortFlag(c) ==
  /\ cancel[c] = "idle"
  /\ worker # "over"
  /\ cancel' = [cancel EXCEPT ![c] = "wake"]
  /\ aborted' = TRUE
  /\ UNCHANGED <<taskVars, channel, closed, workerVars, requested>>

AbortWake(c) ==
  /\ cancel[c] = "wake"
  /\ cancel' = [cancel EXCEPT ![c] = "native"]
  /\ channel' = TryWake(channel)
  /\ UNCHANGED <<taskVars, closed, aborted, workerVars, requested>>

CancelNative(c) ==
  /\ cancel[c] = "native"
  /\ cancel' = [cancel EXCEPT ![c] = "done"]
  /\ requested' = TRUE
  /\ UNCHANGED <<taskVars, channelVars, workerVars>>

----------------------------------------------------------------------------
ClientStep == (\E k \in 0..ChunkRows : CopyData(k)) \/ CopyDone \/ RefuseInput
              \/ Disconnect

TaskStep == SendMessage \/ WaitForRoom \/ SendFails \/ WakeReader
            \/ TellCleanup \/ TellResult

WorkerStep ==
  \/ SchemaFails \/ StartLoad \/ LoadFails \/ LookAborted
  \/ ReceiveBatch \/ ReceiveFinish \/ ReceiveAbort
  \/ CheckCancelled \/ PublishStage \/ DropStage

CancelStep(c) == AbortFlag(c) \/ AbortWake(c) \/ CancelNative(c)

Next == ClientStep \/ TaskStep \/ WorkerStep \/ \E c \in Canceller : CancelStep(c)

\* The runtime polls tasks that can make progress, native calls return, and
\* a cancel that has begun runs to its end.  Clients owe nothing.
Fairness ==
  /\ WF_vars(TaskStep)
  /\ WF_vars(WorkerStep)
  /\ \A c \in Canceller : WF_vars(AbortWake(c)) /\ WF_vars(CancelNative(c))

Spec == Init /\ [][Next]_vars

FairSpec == Spec /\ Fairness

----------------------------------------------------------------------------
TypeOK ==
  /\ handler \in {"copy", "send", "await", "wake", "cleanup", "over", "dropWake",
                  "gone"}
  /\ worker \in {"schema", "next", "receive", "check", "publish", "dropStage",
                 "over"}
  /\ Len(channel) + (IF permit = "granted" THEN 1 ELSE 0) <= Capacity
  /\ permit # "none" => handler = "send"
  /\ rows \in Nat

\* COPY is atomic and its answer true: AtomicCopy's promise, through decoder,
\* channel, staging table and every way to fail or to be cancelled.
Promise == INSTANCE AtomicCopy

PromiseKept == Promise!Spec

\* A COPY whose input is aborted (by its deadline, a cancel request, a decode
\* error or a disconnect) gives its worker, connection and permits back even
\* if its client never sends another message.
AbortEndsWorker == aborted ~> worker = "over"

\* A client that has said CopyDone, or whose input was refused, is answered.
ClientAnswered ==
  complete \/ handler = "wake" ~> handler \in {"over", "gone"}
============================================================================
