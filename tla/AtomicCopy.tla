----------------------------- MODULE AtomicCopy -----------------------------
(***************************************************************************)
(* What COPY promises its client (ARCHITECTURE.md, "COPY lifecycle"): the  *)
(* target receives every row the client sent, in order, in one atomic      *)
(* step and only after the client said the input is complete; or it        *)
(* receives nothing.  A client that was told COPY n has n rows in the      *)
(* target, one that was told an error has none, then and later.            *)
(***************************************************************************)
EXTENDS Sequences, SequencesExt

CONSTANTS Row

VARIABLES input,     \* rows sent so far
          complete,  \* the client said CopyDone
          target,    \* <<rows>> once rows are published, <<>> before
          told       \* Nothing, Error, or Done(n) for COPY n

Nothing == [answer |-> "nothing"]
Error == [answer |-> "error"]
Done(n) == [answer |-> "done", rows |-> n]

vars == <<input, complete, target, told>>

Init ==
  /\ input = <<>>
  /\ complete = FALSE
  /\ target = <<>>
  /\ told = Nothing

Send ==
  /\ ~complete
  /\ told = Nothing
  /\ input' \in Seq(Row) /\ IsPrefix(input, input')
  /\ UNCHANGED <<complete, target, told>>

Complete ==
  /\ complete' = TRUE
  /\ told = Nothing
  /\ UNCHANGED <<input, target, told>>

Publish ==
  /\ complete
  /\ target = <<>>
  /\ told = Nothing
  /\ target' = <<input>>
  /\ UNCHANGED <<input, complete, told>>

TellDone ==
  /\ told = Nothing
  /\ target # <<>>
  /\ told' = Done(Len(target[1]))
  /\ UNCHANGED <<input, complete, target>>

TellError ==
  /\ told = Nothing
  /\ target = <<>>
  /\ told' = Error
  /\ UNCHANGED <<input, complete, target>>

Next == Send \/ Complete \/ Publish \/ TellDone \/ TellError

Spec == Init /\ [][Next]_vars
============================================================================
