------------------------------ MODULE Transfer ------------------------------
(***************************************************************************)
(* The transfer of an image into a buffer of the device and from there to  *)
(* the panel (src/src/protocol/transfer.c), its public calls made in any   *)
(* order.                                                                  *)
(*                                                                         *)
(* Sizes are counted in units of a chunk's smallest payload.  Progress,    *)
(* speed, times and messages are left out: nothing reads them back.  Nor   *)
(* do the counts of chunks appear, which only transfer_sequence_valid      *)
(* reads.  transfer_allocate_buffer and transfer_free_buffer are modelled  *)
(* where transfer.c calls them, not as calls of their own.                 *)
(***************************************************************************)
EXTENDS Naturals

CONSTANTS
  SeqMod,         \* number of sequence numbers (256 in the code)
  ImageSize,      \* DISPLAY_WIDTH * DISPLAY_HEIGHT * 2, in units
  Sizes,          \* sizes transfer_start is asked for
  Lengths,        \* lengths of the chunks' payloads
  MaxRetries,     \* errors a transfer survives (8 in the code)
  ErrorBound,     \* bound of the model: error_count is not counted beyond
  PanelOutcomes   \* how writing an image to the panel may end

\* The four ends of transfer_process_image once the buffer has the right size.
Outcomes == {"not_ready", "write_fails", "end_fails", "shown"}

ASSUME SeqModAssumption == SeqMod \in Nat \ {0, 1}
ASSUME SizesAssumption == /\ ImageSize \in Nat \ {0}
                          /\ Sizes \subseteq Nat
                          /\ Lengths \subseteq Nat
ASSUME ErrorsAssumption == /\ MaxRetries \in Nat
                           /\ ErrorBound \in Nat
                           /\ ErrorBound > MaxRetries
ASSUME OutcomesAssumption == PanelOutcomes \subseteq Outcomes

SeqNums == 0 .. SeqMod - 1

\* good: the checksum in the header is that of the payload
Chunks == [data : BOOLEAN, seq : SeqNums, length : Lengths, good : BOOLEAN]

TransferStates == {"IDLE", "STARTING", "IN_PROGRESS", "COMPLETING", "ERROR"}

Modes == {"NONE", "IMAGE"}

VARIABLES
  context,   \* g_transfer_context
  taken,     \* what the last call returned
  panel,     \* history: the bytes the last image put on the panel, and how
             \* many bytes of its buffer had been received
  spoilt     \* history: numbers of the chunks of this transfer that came
             \* in sequence with a wrong checksum and were not taken since

vars == <<context, taken, panel, spoilt>>

TypeOK ==
  /\ context \in [mode : Modes, state : TransferStates, buffer : BOOLEAN,
                  size : Nat, offset : Nat, received : Nat, expected : Nat,
                  last : SeqNums, errors : 0 .. ErrorBound]
  /\ taken \in BOOLEAN
  /\ panel \in [written : 0 .. ImageSize, filled : 0 .. ImageSize]
  /\ spoilt \subseteq SeqNums

-----------------------------------------------------------------------------
(* Memory of the context                                                   *)

\* g_transfer_context, all zero
Zero == [mode |-> "NONE", state |-> "IDLE", buffer |-> FALSE, size |-> 0,
         offset |-> 0, received |-> 0, expected |-> 0, last |-> 0, errors |-> 0]

\* transfer_free_buffer
FreeBuffer(c) == [c EXCEPT !.buffer = FALSE, !.size = 0, !.offset = 0]

\* transfer_allocate_buffer, where ok says whether malloc returned memory
AllocateBuffer(c, n, ok) ==
  IF ok THEN [FreeBuffer(c) EXCEPT !.buffer = TRUE, !.size = n]
        ELSE FreeBuffer(c)

\* transfer_reset
Reset(c) == Zero

\* Mutant: the bytes received are not reset.
CleanupKeepsReceived(c) ==
  [FreeBuffer(c) EXCEPT !.mode = "NONE", !.state = "IDLE", !.expected = 0,
                        !.last = 0, !.errors = 0]

\* transfer_cleanup
Cleanup(c) ==
  [FreeBuffer(c) EXCEPT !.mode = "NONE", !.state = "IDLE", !.received = 0,
                        !.expected = 0, !.last = 0, !.errors = 0]

\* transfer_abort
Abort(c) == IF c.state = "IDLE" THEN c ELSE Reset(c)

-----------------------------------------------------------------------------
(* Control                                                                 *)

\* The statics of transfer.c before any call.
Init ==
  /\ context = Zero
  /\ taken = FALSE
  /\ panel = [written |-> 0, filled |-> 0]
  /\ spoilt = {}

\* transfer_init.  A buffer that is allocated is not freed but forgotten.
Initialize ==
  /\ context' = Zero
  /\ taken' = TRUE
  /\ spoilt' = {}
  /\ UNCHANGED panel

\* transfer_reset
ResetTransfer ==
  /\ context' = Reset(context)
  /\ taken' = TRUE
  /\ spoilt' = {}
  /\ UNCHANGED panel

\* transfer_start.  What a transfer leaves behind it clears, not this.
Start(mode, n, ok) ==
  /\ taken' = (context.state = "IDLE" /\ ok)
  /\ context' =
       IF context.state # "IDLE" THEN context
       ELSE IF ~ok THEN AllocateBuffer(context, n, ok)
       ELSE [AllocateBuffer(context, n, ok) EXCEPT
               !.mode = mode, !.state = "STARTING", !.expected = n]
  /\ spoilt' = IF taken' THEN {} ELSE spoilt
  /\ UNCHANGED panel

\* Nothing in transfer.c moves a transfer from STARTING to IN_PROGRESS: the
\* caller does, through transfer_get_context, as the tests do.
Begin ==
  /\ context.state = "STARTING"
  /\ context' = [context EXCEPT !.state = "IN_PROGRESS"]
  /\ UNCHANGED <<taken, panel, spoilt>>

\* transfer_abort
AbortTransfer ==
  /\ taken' = (context.state # "IDLE")
  /\ context' = Abort(context)
  /\ spoilt' = IF taken' THEN {} ELSE spoilt
  /\ UNCHANGED panel

-----------------------------------------------------------------------------
(* Data                                                                    *)

\* transfer_validate_sequence; where it returns TRUE it commits the number
InSequence(c, seq) == seq = IF c.last = SeqMod - 1 THEN 0 ELSE c.last + 1

\* transfer_validate_checksum
ChecksumValid(chunk) == chunk.length > 0 /\ chunk.good

\* The number is committed with the sequence check, before the checksum is
\* looked at: a chunk that is refused after it has used its number up.
Committed(c, chunk) ==
  IF chunk.data /\ InSequence(c, chunk.seq) THEN [c EXCEPT !.last = chunk.seq]
                                            ELSE c

\* transfer_validate_chunk
ValidChunk(c, chunk) ==
  chunk.data /\ InSequence(c, chunk.seq) /\ ChecksumValid(chunk)

\* Mutant: one unit too many passes the check.
FitsOffByOne(c, chunk) == c.offset + chunk.length <= c.size + 1

\* The check of the space left in the buffer
Fits(c, chunk) == c.offset + chunk.length <= c.size

\* transfer_process_chunk
ProcessChunk(chunk) ==
  LET open == context.state = "IN_PROGRESS"
      seen == Committed(context, chunk)
  IN  /\ taken' = (open /\ ValidChunk(context, chunk) /\ Fits(context, chunk))
      /\ context' = IF taken'
                    THEN [seen EXCEPT !.offset = @ + chunk.length,
                                      !.received = @ + chunk.length]
                    ELSE IF open THEN seen ELSE context
      /\ spoilt' = IF taken' THEN spoilt \ {chunk.seq}
                   ELSE IF /\ open /\ chunk.data
                           /\ InSequence(context, chunk.seq)
                           /\ ~ChecksumValid(chunk)
                        THEN spoilt \cup {chunk.seq}
                   ELSE spoilt
      /\ UNCHANGED panel

\* Mutant: a transfer is complete as soon as it is told to be.
AllReceivedUnchecked(c) == TRUE

\* The check of transfer_complete
AllReceived(c) == c.received = c.expected

\* Mutant: the size of the buffer is not compared with that of the panel.
SizeUnchecked(c) == c.mode = "IMAGE" /\ c.buffer

\* transfer_process_image up to the panel: mode, buffer and its size
ImageValid(c) == c.mode = "IMAGE" /\ c.buffer /\ c.size = ImageSize

\* transfer_process_image: buffer_size bytes are written, or fewer when a
\* write fails.
Written(c, outcome, n) ==
  CASE outcome = "not_ready"             -> 0
    [] outcome = "write_fails"           -> n
    [] outcome \in {"end_fails", "shown"} -> c.size

\* transfer_complete, refused: the transfer goes on
CompleteRefused ==
  /\ ~(context.state = "IN_PROGRESS" /\ AllReceived(context))
  /\ taken' = FALSE
  /\ UNCHANGED <<context, panel, spoilt>>

\* transfer_complete.  An image the panel does not take is aborted.  n is how
\* far the writes get when one fails.
Complete(outcome, n) ==
  /\ context.state = "IN_PROGRESS"
  /\ AllReceived(context)
  /\ taken' = (ImageValid(context) /\ outcome = "shown")
  /\ context' = IF taken' THEN Cleanup(context)
                ELSE Abort([context EXCEPT !.state = "COMPLETING"])
  /\ panel' = IF ImageValid(context)
              THEN [written |-> Written(context, outcome, n),
                    filled |-> context.offset]
              ELSE panel
  /\ spoilt' = {}

\* Mutant: giving up leaves the transfer to somebody else's abort.
GivesUpWithoutAbort(c) == c

\* What transfer_handle_error does about an error too many.  In IDLE the
\* abort is refused, and the count stays.
GiveUp(c) == Abort(c)

\* transfer_handle_error.  It returns TRUE while retry_count, which nothing
\* increments, is below its limit.
HandleTransferError ==
  /\ context.errors < ErrorBound
  /\ LET counted == [context EXCEPT !.errors = @ + 1]
     IN  IF counted.errors > MaxRetries
         THEN taken' = FALSE /\ context' = GiveUp(counted)
         ELSE taken' = TRUE /\ context' = counted
  /\ spoilt' = IF taken' THEN spoilt ELSE {}
  /\ UNCHANGED panel

Next ==
  \/ Initialize
  \/ ResetTransfer
  \/ \E mode \in Modes, n \in Sizes, ok \in BOOLEAN : Start(mode, n, ok)
  \/ Begin
  \/ AbortTransfer
  \/ \E chunk \in Chunks : ProcessChunk(chunk)
  \/ CompleteRefused
  \/ \E outcome \in PanelOutcomes, n \in 0 .. ImageSize - 1 : Complete(outcome, n)
  \/ HandleTransferError

Spec == Init /\ [][Next]_vars

-----------------------------------------------------------------------------
(* Properties                                                              *)

\* While a transfer runs, what has been counted as received is what lies in
\* the buffer, and the buffer has room for what is expected: the check on the
\* buffer and the check on the count, made in different functions on
\* different fields, never disagree, and no byte is stored beyond the end.
BufferHoldsReceived ==
  context.state \in {"STARTING", "IN_PROGRESS"} =>
    /\ context.buffer
    /\ context.received = context.offset
    /\ context.expected = context.size
    /\ context.offset <= context.size

\* Between calls a transfer is running or the context is clean: transfer_start
\* resets neither the count nor the sequence number, so every way back to IDLE
\* must have done it, with the buffer freed.  The error count is not part of
\* it: errors reported in IDLE are carried into the next transfer.
NoResidue ==
  \/ context.state \in {"STARTING", "IN_PROGRESS"}
  \/ context = [Zero EXCEPT !.errors = context.errors]

\* No byte reaches the panel that was not received: malloc does not clear the
\* buffer, and the image is written from all of it.
PanelShowsReceived == panel.written <= panel.filled

\* An error after which the caller is told not to go on has ended the
\* transfer and freed its buffer, whatever state it was reported in.
GivingUpEnds ==
  [][HandleTransferError /\ ~taken' => /\ context'.state = "IDLE"
                                       /\ ~context'.buffer]_vars

Images == INSTANCE ImageDelivery WITH open <- context.state # "IDLE",
                                       goal <- context.expected,
                                       got  <- context.received

\* The transfer implements ImageDelivery: the size is that of expected_bytes
\* and what has come is counted by bytes_received, while the room is checked,
\* and the panel written, by two other fields, of the buffer.
ImageDelivered == Images!Spec

-----------------------------------------------------------------------------
(* What the documentation says and the code does not do                    *)

\* "Checksums verify each chunk", "Failed chunks retransmitted"
\* (docs/index.md): a chunk that came with a wrong checksum can be sent again,
\* that is, the transfer still waits for its number.
FailedChunkAwaited ==
  context.state = "IN_PROGRESS" => \A seq \in spoilt : InSequence(context, seq)
=============================================================================
