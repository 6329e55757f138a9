---------------------------- MODULE SerialWrite ----------------------------
(***************************************************************************)
(* Sending over the serial line: packet_transmit (src/src/protocol/        *)
(* packet.c) as a series of calls of serial_write (src/src/hardware/       *)
(* serial.c), whose retries, timeouts and overflow messages are logged.    *)
(*                                                                         *)
(* A log record is itself a packet and is sent over the same line, by a    *)
(* nested call, before the write that logs it goes on: what runs is a      *)
(* stack of writers.  The log's packet is not sent when there is no memory *)
(* for it, and whether it could be sent nobody asks.                       *)
(*                                                                         *)
(* Of a writer's bytes only the positions are modelled.  A write that      *)
(* fails or that runs out of time is a fault; the line has at most         *)
(* MaxFaults of them in one call.                                          *)
(***************************************************************************)
EXTENDS Naturals, Sequences, SequencesExt

CONSTANTS
  Messages,     \* the lengths of the calls of serial_write that send one
  LogWrites,    \* those of a log record
  ChunkSize,    \* CHUNK_SIZE
  MaxRetries,   \* max_retries of serial_write (3 in the code)
  MaxFaults     \* bound of the model

ASSUME WritesAssumption == /\ Messages \subseteq Seq(Nat \ {0}) \ {<<>>}
                           /\ LogWrites \in Seq(1 .. ChunkSize) \ {<<>>}
ASSUME BoundsAssumption == /\ ChunkSize \in Nat \ {0}
                           /\ MaxRetries \in Nat \ {0}
                           /\ MaxFaults \in Nat

VARIABLES
  stack,       \* the calls that are running, the innermost last
  overflow,    \* serial_state.in_overflow
  faults,      \* faults since the outermost call was made
  returned     \* the last call that returned: what, and whether all its
               \* bytes had gone out in order

vars == <<stack, overflow, faults, returned>>

Places == {"check", "overflowed", "write", "failed", "again", "written", "next"}

\* todo: the calls of serial_write to make, the present one first; left: its
\* bytes that are not in a finished chunk; part: what fwrite took of the
\* present chunk; pos: bytes in finished chunks of the whole message; sent:
\* history, how many of its bytes went out in order; size: history, the bytes
\* of the calls made so far; pc: where the call stands
Writers == [todo : Seq(Nat \ {0}), left : Nat, part : Nat, pos : Nat,
            sent : Nat, size : Nat, retry : 0 .. MaxRetries - 1, pc : Places]

Writer(w) ==
  [todo |-> w, left |-> Head(w), part |-> 0, pos |-> 0, sent |-> 0,
   size |-> Head(w), retry |-> 0, pc |-> "check"]

TypeOK ==
  /\ stack \in Seq(Writers)
  /\ overflow \in BOOLEAN
  /\ faults \in 0 .. MaxFaults
  /\ returned \in [ok : BOOLEAN, whole : BOOLEAN]

Init ==
  /\ stack = <<>>
  /\ overflow = FALSE
  /\ faults = 0
  /\ returned = [ok |-> FALSE, whole |-> FALSE]

-----------------------------------------------------------------------------

\* All bytes of the message went out in their order.
Whole(w) == Tail(w.todo) = <<>> /\ w.sent = w.size

\* The innermost call stands at this place.
At(place) == stack # <<>> /\ Last(stack).pc = place

\* The innermost call goes on as w.
Continue(w) == stack' = Append(Front(stack), w)

\* send_message: the innermost call will go on as w when the log is sent.
Log(w) ==
  \/ stack' = Front(stack) \o <<w, Writer(LogWrites)>>
  \/ Continue(w)    \* no memory for the packet

Return(ok) ==
  /\ stack' = Front(stack)
  /\ returned' = [ok |-> ok, whole |-> Whole(Last(stack))]

\* packet_transmit or serial_write is called, and no other call is running.
Call(w) ==
  /\ stack = <<>>
  /\ stack' = <<Writer(w)>>
  /\ faults' = 0
  /\ UNCHANGED <<overflow, returned>>

\* serial_write is entered.  More than a chunk is an overflow, unless one is
\* being handled.
CheckOverflow ==
  /\ At("check")
  /\ LET w == Last(stack)
     IN IF w.left > ChunkSize /\ ~overflow
        THEN overflow' = TRUE /\ Log([w EXCEPT !.pc = "overflowed"])
        ELSE UNCHANGED overflow /\ Continue([w EXCEPT !.pc = "write"])
  /\ UNCHANGED <<faults, returned>>

\* Mutant: the flag is left to the end of the write.
FlushWithoutReset(w) == UNCHANGED overflow /\ Continue(w)

\* serial_flush, after which the innermost call goes on as w
Flush(w) ==
  IF overflow THEN overflow' = FALSE /\ Log(w)
              ELSE UNCHANGED overflow /\ Continue(w)

\* serial_flush and serial_clear, before the bytes are written all the same
RecoverFromOverflow ==
  /\ At("overflowed")
  /\ Flush([Last(stack) EXCEPT !.pc = "write"])
  /\ UNCHANGED <<faults, returned>>

Chunk(w) == IF w.left > ChunkSize THEN ChunkSize ELSE w.left

\* Mutant: what fwrite returns is not looked at.
ShortWriteIgnored(w, n) == TRUE

\* The chunk is finished when fwrite takes n more bytes.
Finishes(w, n) == w.part + n = Chunk(w)

\* n more bytes are on the line; sent counts them if none is missing before.
Sent(w, n) ==
  IF w.pos + w.part <= w.sent /\ w.pos + w.part + n > w.sent
  THEN w.pos + w.part + n ELSE w.sent

\* fwrite takes n bytes.
Write(n) ==
  /\ At("write")
  /\ LET w == Last(stack)
     IN /\ w.part + n <= Chunk(w)
        /\ IF Finishes(w, n)
           THEN Continue([w EXCEPT !.part = 0, !.pos = @ + Chunk(w),
                                   !.left = @ - Chunk(w), !.retry = 0,
                                   !.sent = Sent(w, n),
                                   !.pc = IF w.left = Chunk(w) THEN "written"
                                                               ELSE "write"])
           ELSE Continue([w EXCEPT !.part = @ + n, !.sent = Sent(w, n)])
  /\ UNCHANGED <<overflow, faults, returned>>

\* fwrite takes nothing.
WriteFails ==
  /\ At("write")
  /\ faults < MaxFaults
  /\ faults' = faults + 1
  /\ Continue([Last(stack) EXCEPT !.pc = "failed"])
  /\ UNCHANGED <<overflow, returned>>

\* The time for the chunk is over, which is logged.
WriteTimesOut ==
  /\ At("write")
  /\ faults < MaxFaults
  /\ faults' = faults + 1
  /\ Log([Last(stack) EXCEPT !.pc = "failed"])
  /\ UNCHANGED <<overflow, returned>>

\* Mutant: the limit on retries is off by one.
RetryNotCapped ==
  /\ At("failed")
  /\ LET w == Last(stack)
     IN IF w.retry < MaxRetries
        THEN /\ Log([w EXCEPT !.retry = @ + 1, !.part = 0, !.pc = "again"])
             /\ UNCHANGED returned
        ELSE Return(FALSE)
  /\ UNCHANGED <<overflow, faults>>

\* serial_write_chunk has returned FALSE: the chunk is written again from its
\* start, after a log, or the call fails and with it the whole packet.
HandleFailure ==
  /\ At("failed")
  /\ LET w == Last(stack)
     IN IF w.retry + 1 < MaxRetries
        THEN /\ Log([w EXCEPT !.retry = @ + 1, !.part = 0, !.pc = "again"])
             /\ UNCHANGED returned
        ELSE Return(FALSE)
  /\ UNCHANGED <<overflow, faults>>

\* serial_flush, before the chunk is written again
Retry ==
  /\ At("again")
  /\ Flush([Last(stack) EXCEPT !.pc = "write"])
  /\ UNCHANGED <<faults, returned>>

\* Mutant: the recovery is logged before the flag is reset.
FinishLogsFirst ==
  /\ At("written")
  /\ LET w == [Last(stack) EXCEPT !.pc = "next"]
     IN IF overflow THEN Log(w) ELSE Continue(w)
  /\ UNCHANGED <<overflow, faults, returned>>

\* All bytes of one call of serial_write are written.
FinishWrite ==
  /\ At("written")
  /\ LET w == [Last(stack) EXCEPT !.pc = "next"]
     IN IF overflow THEN overflow' = FALSE /\ Log(w)
                    ELSE UNCHANGED overflow /\ Continue(w)
  /\ UNCHANGED <<faults, returned>>

\* serial_write returns TRUE, and the next part of the packet is written.
NextWrite ==
  /\ At("next")
  /\ LET w == Last(stack)
         rest == Tail(w.todo)
     IN IF rest = <<>>
        THEN Return(TRUE)
        ELSE /\ Continue([w EXCEPT !.todo = rest, !.left = Head(rest),
                                   !.size = @ + Head(rest), !.retry = 0,
                                   !.pc = "check"])
             /\ UNCHANGED returned
  /\ UNCHANGED <<overflow, faults>>

Next ==
  \/ \E w \in Messages : Call(w)
  \/ CheckOverflow
  \/ RecoverFromOverflow
  \/ \E n \in 1 .. ChunkSize : Write(n)
  \/ WriteFails
  \/ WriteTimesOut
  \/ HandleFailure
  \/ Retry
  \/ FinishWrite
  \/ NextWrite

Spec == Init /\ [][Next]_vars

-----------------------------------------------------------------------------
(* Properties                                                              *)

\* A call that reports success has put all its bytes on the line in their
\* order, whatever short writes, retries and nested logs there were.  (Bytes
\* of a chunk that was retried are there twice.)
SuccessMeansSent == returned.ok => returned.whole

\* Logs nest no deeper than faults make them: every call that waits for its
\* log has met a fault of its own, but for two that log one overflow.  There
\* is no other bound: on a line that fails for good the calls nest until the
\* processor's stack is used up.
NestingNeedsFaults == Len(stack) <= 1 + faults + 2

\* An overflow is over when the outermost call returns, be it a failure, so
\* that the next one is noticed.
OverflowEnds == stack = <<>> => ~overflow

-----------------------------------------------------------------------------
(* What the documentation says and the code does not do                    *)

\* Messages are wrapped "in packets with consistent framing"
\* (docs/protocol.md): no packet goes out between the bytes of another.
PacketsIntact ==
  \A i, j \in DOMAIN stack :
    i < j /\ stack[j].sent > 0 => stack[i].sent = 0 \/ Whole(stack[i])
=============================================================================
