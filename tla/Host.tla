-------------------------------- MODULE Host --------------------------------
(***************************************************************************)
(* The host program (src/host/src): what transfer.zig and state.zig do to  *)
(* a record, one operator for each thing that can happen between sending a *)
(* packet and reading the next.  Link adds the line and the device.        *)
(*                                                                         *)
(* A process carries out one operation and ends: main.zig gives it a fresh *)
(* state machine and returns whatever error the operation returns.  The    *)
(* fields of a process:                                                    *)
(*   op       the operation                                                *)
(*   state    current_state of state.zig                                   *)
(*   sequence, retries   sequence and retry_count of state.zig             *)
(*   pos      which of the operation's requests is in hand                 *)
(*   number   the sequence number of its packet                            *)
(*   try      the loop variable of sync and sendData                       *)
(*   step     what the process does next                                   *)
(*   outcome  what the operation returned                                  *)
(***************************************************************************)
EXTENDS Naturals, Sequences

CONSTANTS
  MaxTries,    \* MAX_RETRIES of constants.zig (8)
  Chunks,      \* chunks of an image (450)
  SeqMod       \* sequence numbers (256)

ASSUME HostAssumption == /\ MaxTries \in Nat \ {0}
                         /\ Chunks \in Nat \ {0}
                         /\ SeqMod \in Nat \ {0, 1}

Numbers == 0 .. SeqMod - 1

\* A sequence number is a u8 and wraps.
NextNumber(s) == IF s = SeqMod - 1 THEN 0 ELSE s + 1

\* ping, pattern and image of main.zig
Operations == {"ping", "pattern", "image"}

\* How many requests an operation makes.
Length(op) == CASE op = "ping" -> 1 [] op = "pattern" -> 2 [] op = "image" -> Chunks + 3

\* The requests of an operation.  A fresh state machine is not ready, so
\* sendCommand syncs first; sendImage then sends a command, the chunks and
\* another command.
Request(op, pos) ==
  CASE pos = 1 -> "SYNC"
    [] pos > 1 /\ (pos = 2 \/ pos = Length(op)) -> "COMMAND"
    [] OTHER -> "DATA"

HostStates == {"idle", "syncing", "ready", "sending_command", "error_state"}

Outcomes == {"none", "done", "SyncFailed", "TransferFailed", "InvalidResponse",
             "InvalidTransition", "InvalidState", "Timeout", "RetriesExceeded", "ReadError",
             "WriteError", "DecodeError", "killed"}

Steps == {"clear", "send", "receive", "image", "end"}

\* The transitions state.zig accepts, receiving_data aside, which nobody
\* asks for.
HostTransitions ==
  { <<"idle", "syncing">>, <<"syncing", "ready">>, <<"syncing", "error_state">>,
    <<"ready", "sending_command">>, <<"ready", "error_state">>,
    <<"sending_command", "ready">>, <<"sending_command", "error_state">>,
    <<"error_state", "idle">> }

-----------------------------------------------------------------------------
(* state.zig                                                               *)

\* The operation returns an error or nothing, and the process ends.
End(h, outcome) == [h EXCEPT !.step = "end", !.outcome = outcome]

\* transition
Enter(h, to) ==
  IF <<h.state, to>> \in HostTransitions THEN [h EXCEPT !.state = to]
                                        ELSE End(h, "InvalidTransition")

\* The operation gives up, by way of error_state.
GiveUp(h, outcome) ==
  LET failed == Enter(h, "error_state")
  IN  IF failed.step = "end" THEN failed ELSE End(failed, outcome)

\* Mutant: a success leaves the count as it is.
ResetForgotten(h) == h

\* resetRetry
ResetRetry(h) == [h EXCEPT !.retries = 0]

\* incrementRetry.  Its error is a Timeout too; it has a name of its own here.
IncrementRetry(h) ==
  LET counted == [h EXCEPT !.retries = @ + 1]
  IN  IF counted.retries > MaxTries
      THEN GiveUp(counted, "RetriesExceeded") ELSE counted

-----------------------------------------------------------------------------
(* transfer.zig                                                            *)

\* The next request is made out: a number is drawn for its packet, after the
\* transition that announces it.
Prepare(h) ==
  LET kind  == Request(h.op, h.pos)
      ready == CASE kind = "SYNC" -> Enter(h, "syncing")
                 [] kind = "COMMAND" -> Enter(h, "sending_command")
                 [] kind = "DATA" -> IF h.state = "ready" THEN h ELSE End(h, "InvalidState")
  IN  IF ready.step = "end" THEN ready
      ELSE [ready EXCEPT !.number = h.sequence, !.sequence = NextNumber(@),
                         !.try = 0, !.step = "send"]

\* main.zig, up to the first request: sync begins by clearing the input, ...
Start(op) ==
  [op |-> op, state |-> "idle", sequence |-> 0, retries |-> 0, pos |-> 1,
   number |-> 0, try |-> 0, step |-> "clear", outcome |-> "none"]

\* ... and makes its request out once a read of it has returned nothing.
Cleared(h) == Prepare(h)

\* The request in hand was carried out.  After the command that announces an
\* image sendImage decodes the file.
Completed(h) ==
  IF h.step = "end" THEN h
  ELSE IF h.pos = Length(h.op) THEN End(h, "done")
  ELSE LET n == [h EXCEPT !.pos = @ + 1]
       IN  IF n.pos = 3 THEN [n EXCEPT !.step = "image"] ELSE Prepare(n)

\* sendImage, once the image is decoded, or could not be
Decoded(h, ok) == IF ok THEN Prepare(h) ELSE End(h, "DecodeError")

\* Mutant: only a failed read uses a try up.
TryNotCounted(h, failure) == [h EXCEPT !.step = "send"]

\* Another turn of the loop, or its end.
TryAgain(h, failure) ==
  LET next == [h EXCEPT !.try = @ + 1]
  IN  IF h.step = "end" THEN h
      ELSE IF next.try < MaxTries THEN [next EXCEPT !.step = "send"]
      ELSE GiveUp(next, failure)

\* sync: an answer that is not a SYNC_ACK uses a try up, but is not counted
\* by incrementRetry.
SyncAnswer(h, answer) ==
  CASE answer = "SYNC_ACK" -> Completed(ResetRetry(Enter(h, "ready")))
    [] answer = "nothing" -> TryAgain(IncrementRetry(h), "SyncFailed")
    [] OTHER -> TryAgain(h, "SyncFailed")

\* sendCommand tries once.
CommandAnswer(h, answer) ==
  CASE answer = "ACK" -> Completed(Enter(h, "ready"))
    [] answer = "nothing" -> End(h, "Timeout")
    [] OTHER -> End(h, "InvalidResponse")

\* sendData, one chunk
DataAnswer(h, answer) ==
  IF answer = "ACK" THEN Completed(ResetRetry(h))
  ELSE TryAgain(IncrementRetry(h), "TransferFailed")

\* What receivePacket returned, "nothing" for an error, is looked at.  No
\* answer is matched with the number of the request.
Answered(h, answer) ==
  LET kind == Request(h.op, h.pos)
  IN  CASE kind = "SYNC" -> SyncAnswer(h, answer)
        [] kind = "COMMAND" -> CommandAnswer(h, answer)
        [] kind = "DATA" -> DataAnswer(h, answer)
=============================================================================
