# DeskThang in TLA+

DeskThang is a desk display: a Raspberry Pi Pico with a round GC9A01 panel
(firmware in C, `src/src/`) and a client on the host that sends it images over
a serial line (Zig, `src/host/`). This directory models the firmware's control
in TLA+, model-checks it with TLC and proves the main results with TLAPS.

Paths in this text are relative to the repository root, so `src/state/state.c` is
the firmware's state machine; `PROJECT.json` and the modules' comments prefix them
with `src/`.

## 1. Inventory

The firmware has one thread and no interrupt handler of its own. Its
components call each other; there are no queues and no locks. What is hard is
not parallelism but order: entry actions that make transitions from inside a
transition, calls that change state and then fail, memory that is allocated in
the middle of an answer, and two programs that meet over a line with timeouts.

| Component | State | Operations | Hard behaviour | What makes it correct |
|---|---|---|---|---|
| State machine (`src/state/state.c`, `context.c`) | current, previous state and condition; retry count and flag | init, transition, handle_error, attempt_recovery, handle_recovery | entry actions cascade; recovery returns to a state that every transition overwrites; the retry budget is never refilled | it settles after every call; ERROR always has a way back; drivers come up in order |
| Main loop (`src/main.c`) | none of its own | boot, poll and process, ERROR case, heartbeat | allocation and sending fail between two state changes; nothing is freed | fail-stop on the wire; no dead case is ever needed |
| Protocol (`src/protocol/protocol.c`) | sequence number, has_valid_sync | process_packet and four handlers | state is changed before the answer that announces it is sent; wrap at 255 | answers in sequence, none without a session |
| Image transfer (`src/protocol/transfer.c`) | context: mode, state, buffer, three counters, sequence, errors | init, start, chunk, complete, abort, reset, error | checks are made on different fields in different functions; commits before checks; start relies on the last transfer's clean-up | no overrun; clean start; the panel shows what was received |
| Packet codec (`src/protocol/packet.c`) | none | create, transmit, receive, free | escaping, a timeout in every byte | what is sent is what is received, or nothing is |
| Serial driver (`src/hardware/serial.c`) and log (`src/error/logging.c`) | clock of the last activity | write with retries, available, read | a log record is itself a packet and is written into the middle of another; `serial_available` consumes a byte | packets arrive whole |
| Command layer (`src/protocol/command.c`) | command context | process, start_image, complete | asks for transitions the state machine refuses | commands start transfers |
| Errors and recovery (`src/error/`) | configuration, statistics, last error | get_strategy, attempt | nested delays and retries | recovery is bounded |
| Hardware drivers (`src/hardware/hardware.c`, SPI, GPIO) | initialized flags, directions of the pins | init, deinit, reset | a reset behind the back of the display driver | a driver is used after its bus |
| Display and panel (`src/hardware/display.c`, `GC9A01.c`) | configuration, initialized flag; the controller's memory and whether it is open | init, test patterns, clear, pixels, settings | init does not look at what the panel's init could do; pixels count only after the right command; the controller's registers change under the stored settings | an awake panel shows what was drawn last; stored settings are in force |
| Host client (`host/src/`) | protocol state, sequence, retries | ping, pattern, image: sync, sendCommand, sendData, sendImage | reading does not wait; retries whose first try was handled; late and unasked-for packets, of killed processes too; clearing the input has no limit; two counts of retries | what is reported done was done, once and in order |
| Debug, time, validation tables | counters, a clock | | nothing decides on them | |

The main loop boots the hardware and then the state machine (whose entry
actions boot the hardware again and then the display). In IDLE and READY it
polls for one packet, hands it to the protocol, and moves the state machine to
ERROR when processing failed. In the present firmware nothing calls the command
layer or the transfer: the protocol's handlers of COMMAND and DATA only
acknowledge. Both are complete as components and are tested as such, so they
are modelled as components and not composed with the loop. The host talks to
the loop's protocol over the line and knows nothing of the rest.

The hazards are listed with their lines in `PROJECT.json`.

## 2. Modules

```
StateTransitions ---- StateMachine ---- Device      calls of state.c; with the
       |       \            |          /   |        drivers, drawing, commands
       |        \           |     Panel    DeviceProofs
       |    StateTransitionsProofs ---- StateMachineProofs
       |                       \
Protocol ---- Firmware --------- FirmwareProofs     the main loop
                 |  SessionSpec
          FailStopSession                           what the host may rely on
                 |  INSTANCE
Host ---------- Link ---- LinkProofs                processes, line, device
                 |  Deliveries
              Delivery                              what the user may rely on

Transfer ---- TransferProofs                        images
    |  Images
ImageDelivery                                       what a caller may rely on

Codec ---- Reception ---- ReceptionProofs           bytes into packets

SerialWrite ---- SerialWriteProofs                  packets and logs into bytes
          \---- MCSerialWrite
```

**StateTransitions** is `state_machine_transition` as a function from a machine
and a request to a machine. An entry action may itself call
`state_machine_transition`; the nesting is two deep at most (HARDWARE_INIT enters
DISPLAY_INIT, which enters IDLE or ERROR), so it is unfolded into
`EnterHardwareInit`, `EnterDisplayInit` and `Step` and needs no recursion. A
machine carries the fields of `g_state_context` and the set of drivers that are
up; the latter is only there for the properties, and follows the `initialized`
flags.

**StateMachine** adds the retry counter and lets anybody call anything in any
order: `Request` (`state_machine_transition` with any arguments, values outside
the enum included), `ReportFailure`, `AttemptRecovery`, `HandleRecovery`.
Each call is one action, since nothing runs between its first statement and its
return. Two history variables serve the properties: `stuck` counts attempts at
recovery since ERROR was entered, `wasReset` remembers a RESET.

**Panel** is the path from a driver call to the panel's memory: operators over a
record `lcd`, one for each call of `display.c`, `GC9A01.c` and the hardware drivers. A
byte reaches the controller when the port, the pins and the driver's configuration
are there (`Reaches`); a command opens or closes its memory (`Command`); data changes
the picture only while it is open (`Data`). The patterns are sets of rectangles, as
the code draws them (`ColorBars`, `Gradient`, `Checkerboard`), and `Expected` is the
picture `docs/display.md` describes, pixel by pixel. A pixel arrives as the two bytes
that were sent: `GC9A01_fill_rect` and `GC9A01_draw_pixel` send a colour as it lies in
memory, low byte first (`Swapped`), `display_fill_region` high byte first. `Configure` sets
the registers of the setters: the orientation (MADCTL) decides where on the glass an
address lies (`Cell`), for what is drawn from then on; the inversion is kept beside the
picture. `GC9A01_init` sets both to values of its own (`Woken`), and `Show` is what
`display_init` does after it.

**Device** is StateMachine with what its entry actions do to the panel added to each
call, and with the two layers that draw: the patterns of `display.c` and
`command_process` of `command.c` with everything it calls. `settings` is what `display.c` has
stored of its configuration. Two history variables: `asked` (the pattern drawn last
and the orientation it was drawn under) and `rewired` (`hardware_reset` ran since the panel was
set up). A hardware initialization drives the reset line low for an unspecified
time, so it may or may not take the panel's configuration away (`pulse`).

**Protocol** is `protocol_process_packet` as operators: which packets are rejected
and what a handler makes of the sequence number and the session.

**Firmware** is the main loop over both, with a heap. An action is one iteration
that does something: a packet rejected (`Reject`), answered (`HandleRequest`) or
noted (`HandleErrorPacket`), the ERROR case, a heartbeat, or the processor
stopping on a failed allocation (`Panic`). The heap is a number of equal blocks:
what matters is which allocations are never freed, and that any of them may be
the one that fails.

**FailStopSession** is the abstract specification: a session is opened by SYNC,
requests are answered in the order of their numbers, each at most once, and
nothing is answered after the first failure. It has three variables and knows
nothing of states, heaps or packets.

**Host** is what `transfer.zig` and `state.zig` do to a record, one operator for each
thing that can happen between sending a packet and reading the next: a request is
made out (`Prepare`), an answer of some type or none is looked at (`Answered`), a try or
the operation ends (`TryAgain`, `GiveUp`). A process runs one operation and ends, as in
`main.zig`. It begins with clearing the input (`Start`), and makes its first request out when
a read has returned nothing (`Cleared`).

**Link** joins processes of the host, one after the other, with a device over a line
that loses packets in both directions and delays them. The device is the
`FailStopSession` the firmware is shown to implement, with the types of `protocol.c`'s
answers; it may fail at any moment and sends packets nobody asked for (`SendDebug`).
A process may be killed between any two steps, and the next meets the session it
left and every packet that is still under way in either direction. Of `clearInput`
each read is a step: it drops a packet that has arrived and goes on (`ClearInput`), or finds
nothing, because nothing is there or nothing has arrived yet, and ends
(`InputCleared`). `taken` counts the requests of the present process the device has
answered; for it packets carry the position of their request, or 0 if its process has
ended, which neither side reads. `misled` notes that the present process took an
answer to another for its own.

**Delivery** is the abstract specification of both together: requests are carried out
one after the other, each exactly once before the host goes on, and of a failed
operation there is at most one request that may or may not have been taken. The only
exception it admits is a host that goes past its first request by mistake
(`Mistake`), after which it promises nothing until the next operation. It has two
counters and a flag and knows nothing of numbers, tries or packets.

**Transfer** is `transfer.c` with any caller. Two history variables: `panel` (how
much of the last image was written, and how much had been received) and
`spoilt` (numbers of chunks that came with a wrong checksum).

**ImageDelivery** is the abstract specification of the transfer: an image is opened for
a size and begins empty, grows chunk by chunk within that size, and is put on the
panel only when all of it has come and the size is the panel's; it may be given up at
any time and leaves no trace. It has four variables and knows nothing of buffers,
states, sequence numbers or errors. The mapping takes the size from `expected_bytes`
and what has come from `bytes_received`; the code checks the room and writes the panel
by two other fields, the buffer's.

**Codec** is the escaping of `packet.c`, byte by byte with the values of the code.

**Reception** is `packet_receive` over `serial_read_byte`, called again and again as
the main loop does. The steps are those of the clock, of the host (`Arrive`) and
of the receiver: `serial_available` takes a byte (`Probe`), `serial_read` finds the
next (`ReadByte`) or none (`Miss`), or the byte has not come in time (`TimedOut`).
`rx` is the call that is running: the part of the packet it is in, how far it is,
whether it is inside an escape, and how many payload buffers it has allocated
and neither freed nor returned. Of the data only what the function decides on is
kept: the first byte, the length, whether the checksum parses and is right.

**SerialWrite** is `packet_transmit` as the calls of `serial_write` it makes, with the
retries, timeouts and overflow messages that are logged. A log record is a
packet of its own, written by a nested call, so the variable is a stack of
writers; each action is a step of the innermost one. Of the bytes only positions
are modelled. A history field counts how many of a writer's bytes have gone out
in order (`sent`), another the bytes of the calls made so far (`size`).
**MCSerialWrite** gives the lengths of the writes of its packets.

### Decisions a reader should know

* `hardware_init` fails only for a NULL configuration and `display_init` likewise,
  so in the build both answer TRUE and the firmware runs use `{TRUE}`. The
  state machine handles FALSE, so its own run allows both each time.
* `packet_create_nack` copies text through a payload pointer it has just set to
  NULL. That is undefined; the model allows both outcomes: the processor
  faults, or it goes on and the packet, which carries no markers, is not sent.
* `protocol_init` has no caller: the protocol starts from its static values.
* `malloc` of the SDK may stop the processor or return NULL, depending on how it
  is built. `Panic` is the first, the failing branches of the actions are the second.
* Nothing in `transfer.c` sets the state IN_PROGRESS; a caller does, through
  `transfer_get_context`, as `test/protocol/test_transfer_validation.c` does (`Begin`).
* `display_ready` reads status bits the build's `GC9A01_read_status` always
  returns as 0. Transfer models the interface transfer.c was written against: any
  answer, and failure at any point of the writing.
* `debug_init` has no caller, so `debug_state.enabled` is false and the calls of the debug
  module inside `serial_write` and `state_machine_transition` send nothing.
* `serial_clear`, in the overflow path, throws received bytes away. SerialWrite has no
  receiving side, so the step is there without that effect.
* Receiving a packet and writing one are separate modules and neither is composed
  with Firmware, which takes a packet as received whole and a send as done or
  failed. Reception supports the first (a call always returns, and returns a packet
  or nothing). The second has an exception: on a line that fails for good the
  logs of `serial_write` nest until the stack is used up, and Firmware has no step for it.
* The controller of the panel is not in the repository. Panel assumes what
  `GC9A01_fill_rect` and `GC9A01_draw_pixel` rely on: data after MEM_WR goes into
  the window, data after another command is a parameter of that command. An
  address beyond the panel makes the whole picture unknown, so clipping has to be
  right.
* `state_machine_init` and the calls of the main loop pass configurations that are never
  NULL; Device allows the failing answers all the same, because its transitions
  are those of StateMachine, where a call that fails has done nothing.
* The recovery handler of `main.c` that calls `hardware_reset` is registered, but
  `recovery_attempt`, which should call it, does not and has no caller.
  `HardwareReset` is an action nevertheless: the function is offered by the
  driver's interface and tested.
* The device answers a SYNC with ACK, and the host waits for a SYNC_ACK, so as the code
  stands no operation gets beyond its first request (`sync_answer`). Link takes the type of
  the answer as a parameter: with ACK it is the code, with SYNC_ACK the exchange of
  `docs/host.md:178`. The other properties of Link hold for both, and what they say of
  commands and chunks concerns the documented answer.
* The two ends do not frame packets alike either: the device's header is text
  between markers, with escapes, while the host's packets are a struct sent
  as it is, and `packet.zig` defines only a message type, so that the host does not compile
  as it stands. Link reads the calls `transfer.zig` makes and takes a packet as
  something that arrives or does not.
* Nothing waits for the packets of a killed process: `clearInput` drops what has arrived,
  `sendCommand` looks for its answer once, and the device may sleep 50 ms before it sends one.
  So a process of Link starts with whatever is on the line. What then holds is stated
  with `misled`: the SYNC_ACK to a killed process's SYNC may be read by the next process
  as the answer to its own, which was lost. Neither side has anything to tell the two
  apart, and from then on the host may be ahead of the device (without `~misled` TLC
  refutes `CompletedMeansTaken`). No
  other answer can be mistaken this way: an ACK of a command or chunk that comes to a
  process waiting for SYNC_ACK only uses a try up, and when the answer to its own SYNC is
  read, everything before it on the line has been. Requests of a killed process may
  still be taken by the device, or fail it, before the first of the next one.
* The values of `DisplayOrientation` (`deskthang_constants.h:91-94`) are register values:
  90 exchanges rows and columns (MV), 180 mirrors the columns (MX), 270 the rows (MY). They
  are not the rotations of the comments in `display.h:25-28`; `Cell` is what the register
  does. The value `display_init` passes to `GC9A01_set_orientation` is read by nobody.
* The colours of Panel are those the bytes mean. The byte order of the pattern functions
  and of the region functions differ, and the controller takes the high byte first, so the
  bars are not red, green and blue as in `docs/display.md:64` (theorem `BarsChangeColor`).
* `transfer_process_image` sets the window and writes the image without a MEM_WR
  (`transfer.c:183-191`), as `display_clear` does, so by Panel's assumption none of its bytes would
  reach the memory. Transfer counts a byte written as shown. That is an
  over-approximation: it makes `PanelShowsReceived` and `ImageDelivered` harder to keep.
* `sendTestPattern` returns `InvalidPattern` for the patterns 4 to 9, which `main.zig` lets
  through, before it sends anything. Host has no such operation.
* An error reported to the transfer in IDLE is counted and carried into the next
  transfer. That is what the code does, so `NoResidue` exempts the error count.

## 3. Runs

| Run | Module, configuration | Result |
|---|---|---|
| `device` | `Device`, `Device.cfg` | ten invariants and an action property hold |
| `firmware` | `Firmware`, `Firmware.cfg` | invariants and refinement hold |
| `link` | `Link`, `Link.cfg` | invariants, action properties, refinement and liveness hold |
| `transfer` | `Transfer`, `Transfer.cfg` | invariants and action property hold |
| `reception` | `Reception`, `Reception.cfg` | invariants and two liveness properties hold |
| `serial_write` | `MCSerialWrite`, `SerialWrite.cfg` | invariants hold |
| `error_absorbing` | `Firmware`, `FirmwareRecovery.cfg` | `ErrorIsLeft` is violated |
| `command_ignored` | `Firmware`, `FirmwareCommand.cfg` | `CommandIsProcessed` is violated |
| `sync_answer` | `Link`, `LinkSync.cfg` | `AnswerEndsSync` is violated |
| `chunk_retransmission` | `Transfer`, `TransferRetransmission.cfg` | `FailedChunkAwaited` is violated |
| `byte_dropped` | `Reception`, `ReceptionPolling.cfg` | `NoByteDropped` is violated |
| `torn_packet` | `MCSerialWrite`, `SerialWriteFraming.cfg` | `PacketsIntact` is violated |

`device`. Whatever is called in whatever order and whichever driver fails
when, a call never leaves the machine in an initialization state
(`InitStatesAreTransient`), ERROR remembers a state recovery can go back to
(`ErrorRemembersOrigin`), so recovery is never refused (`RecoveryNeverRefused`) and
takes at most `MaxRetries` failed attempts (`RecoveryTerminates`); the display
never comes up on hardware that did not (`HardwareBeforeDisplay`), and without
a display the machine gets out of initialization only by a RESET
(`DisplayReadyOrReset`).
`display_init` reports success without looking at what the panel's initialization
could do, which is right only because of the order in which the machine brings the
drivers up: a panel that was set up is awake unless `hardware_reset` ran
(`AwakeUnlessRewired`). An awake panel shows the pattern drawn last to the pixel,
whatever was cleared, written or configured in between, under the orientation it was
drawn under and in the colours the bytes sent mean (`ShowsWhatWasDrawn`); this is
partly because clearing and writing pixels draw nothing, see section 4. The
orientation and the inversion `display.c` believes in are those of the controller
(`SettingsInForce`): `display_init` stores them first, `GC9A01_init` then leaves registers at
values of its own, the inversion on for one, and what is sent after it has to
make up for that, through every failure and recovery.

`firmware`. Whatever packets arrive and whichever send or allocation fails, the
device is a fail-stop session on the wire (`SessionSpec`). This is not obvious
from `protocol.c`: `handle_sync_packet` opens the session before its ACK is sent, and
a failed ACK leaves a session nobody was told of. It is the main loop that
saves it, because it leaves IDLE on the failure and never polls again.
`LoopSeesIdleOrError` shows that three cases of the loop's switch are dead code.

`link`. The device fails for good on the first request it does not expect, the
host sends a request again when its answer is late, and answers carry no number:
one would expect a chunk to be taken for another. It is not. What the host holds
for carried out the device has taken (`CompletedMeansTaken`), in order, none twice
and none left out (`TakenInOrder`), and host, line and device implement `Delivery`
(`Delivered`), unless the process was misled by an old answer to a SYNC (section 2); and
none but a SYNC is taken twice even then (`TakenOnce`). The reason is harsh: a request sent again after it was taken stops
the device, so it never answers one request twice, SYNC apart, whose second answer
ends a command as an invalid response. So a lost ACK costs the session, never the
order. `ErrorStateExplained`: the host's two counts of retries agree, and
`state.zig` refuses no transition `transfer.zig` asks for. `OperationEnds`: once its
input is cleared every operation returns, whatever arrives; and clearing it ends, unless
the device never stops sending. The exception is real: `clearInput` reads until a
read returns nothing, and a device in ERROR writes two log records in every
iteration of its loop without a delay (`main.c:256-263`). `OperationBounded` says why: every
step of an operation leaves it fewer steps to make (`StepsLeft`), no more than
`2 * MaxTries + 1` for each of its requests, and a read that clears the input
leaves less on the line.

`transfer`. The buffer is never overrun, though the space is checked against
one pair of fields and completion against another (`BufferHoldsReceived`);
every way back to IDLE leaves the clean context `transfer_start` relies on
(`NoResidue`); no byte reaches the panel that was not received
(`PanelShowsReceived`: the buffer is not cleared and is written whole, so this
needs the completion check, the size check and `BufferHoldsReceived`
together); and an error that makes the caller give up has ended the transfer
(`GivingUpEnds`). All together, `transfer.c` implements `ImageDelivery`
(`ImageDelivered`): dropping any one of its checks of size or count, or the reset of
the count in `transfer_cleanup`, breaks it.

`reception`. `packet_receive` has ten ways out, before and after it owns a payload
buffer; none leaks it or frees it twice (`PayloadOwned`). Whatever the host sends
or stops sending, the function returns (`ReceiveReturns`), though it has no limit on
the packet as a whole, only on every byte; what that rests on is that every byte takes
it further or ends it, and the first that does not come ends it (`ReceiveAdvances`). The start marker is looked at when
a whole header has been read, so one stray byte shifts all packets after it;
when the host pauses, the receiver ends up at the beginning of a packet
(`PauseResynchronizes`).

`serial_write`. A write that reports success has put all its bytes on the line in
their order (`SuccessMeansSent`), with short writes, retries that start the chunk
again and logs of the retries in between; bytes of a retried chunk may be there
twice, which the code does not prevent. Logs nest as deep as there are faults, and
two more for an overflow (`NestingNeedsFaults`): that an overflow logs from a function that the
log itself calls does not recurse, because the flag is reset before. An overflow
does not outlive the call in which it happened, a failed call included
(`OverflowEnds`), or the next one would go unnoticed.

The six violations are disagreements between the code and what its
documentation or comments say, each listed under "findings" with both lines:

* In ERROR the loop calls `state_machine_handle_error`, which refuses in ERROR,
  where `docs/index.md:209-210` promises automatic recovery. `ErrorIsLeft`
  excuses a device that has stopped.
* `handle_command_packet` acknowledges a command and does nothing else ("For now, just ACK"),
  where `docs/state_machine.md:82-83` and `docs/index.md:179` have a valid packet lead from
  IDLE to COMMAND_PROCESSING. `CommandIsProcessed` excuses a device that has failed.
* A SYNC is answered with ACK (`protocol.c:239`), and the host, as in the exchange of
  `docs/host.md:178`, waits for SYNC_ACK: it reads the answer and tries again.
* A chunk with a wrong checksum has used up its sequence number, so it is
  refused when it is sent again, where `docs/index.md:268-269` says failed chunks
  are retransmitted.
* `serial_available` consumes the byte it looks for. `serial_read_byte` reads the one
  after it, or returns -1 having lost one, against its comment in `serial.h:32`.
* A retry of `serial_write` logs before it writes, and the log's packet goes out in
  the middle of the packet being written, against the "consistent framing" of
  `docs/protocol.md:4`.

Five more disagreements are not runs but theorems, because what the code does
instead is so in every instance (section 4): `display_clear` changes no pixel, the
bars have other colours, no failure is ever reported out of SYNCING, no order of calls
gets a command carried out, and a heap that is used up ends the heartbeats.

### Bounds

* `Device`: `MaxRetries = 3`, the code's value; both driver answers. The state space
  is finite without further bounds, since attempts in ERROR are bounded by
  the property itself. The panel is 8 by 8 pixels, square like the real one, since an orientation
  may exchange rows and columns; a bar is one pixel wide, and neighbouring pixels of the
  gradient have different shades. With squares of 3 the last
  squares of a row and of a column are clipped, which with 20 and 240 they are
  not. Two of the four orientations, none and the exchange: enough for what was drawn under
  one to be looked at under another. The theorems are for all four, the mirrors included.
* `Link`: `MaxTries = 3` (8 in the code) so that a first, a middle and a last try
  differ; three chunks, so that an image has a first, a middle and a last one;
  `SeqMod = 3` instead of 256, so that the six requests of an image wrap the
  numbers twice and an old number comes round again; `Capacity = 2` packets each
  way, a request and its repetition, or one of a killed process and one of the next. Both
  types of the answer to a SYNC. There is no bound on the number of processes.
  `sync_answer` has the code's answer only and two tries.
* `Firmware`: `SeqMod = 4` instead of 256: zero, its successor, the largest number and
  one between, so numbers wrap and a wrong number differs from the right one
  in both directions. `HeapBlocks = 6`: a request takes two blocks, so the heap
  fills up with either parity, between the payload and the ACK of one request,
  after a session was opened. A payload is empty, the one byte of
  the version, or something else: nothing else is looked at.
* `Transfer`: `ImageSize = 4` units, transfers of size 0, one too small, right and one
  too large; chunks of 0, 1 and 2 units, so that a transfer takes up to four
  chunks, wraps its sequence numbers, and a chunk of two meets a gap of one.
  `MaxRetries = 2` (8 in the code) and `ErrorBound = 4`: errors beyond the
  limit that were reported in IDLE. `transfer_start` with a `total_size` of 0 is
  allowed because the code does not refuse it.

* `Reception`: the bytes are the start marker, the escape character, an escaped start
  marker's second byte, a space and the end marker: every comparison of the code
  has a byte on each side. Header and checksum have two bytes, so each has a
  first, a last and an escape across the boundary; announced lengths are none,
  allowed and beyond `MaxPayload`. A byte is waited for two ticks, so that
  a byte may come at once, late or too late, and the line holds two bytes, which
  is what one look of `serial_read_byte` takes.
* `SerialWrite`: a packet of three writes, the second an escaped byte of two, and a
  single write of three bytes, more than `ChunkSize = 2`: an overflow of two
  chunks. `MaxRetries = 3` as in the code. `MaxFaults = 3` for each outermost call:
  enough for a write to fail for good, or for the logs to nest three deep with
  one retry each. A log is two writes of one byte, since its first and its last
  byte are what matters. `torn_packet` needs one fault.

`CHECK_DEADLOCK FALSE` in the firmware runs: a processor that has faulted or
stopped does nothing more. All other runs are checked for deadlock.

### Fairness

`error_absorbing` uses `FairSpec` of `Firmware`. The loop is the only thread, waits for
nothing without a timeout, and time passes, so its ERROR case
(`WF_vars(HandleErrorState)`) and its heartbeat (`WF_vars(Heartbeat(TRUE))`, a line that is
not permanently down) happen. Nothing is assumed of the host. The
counterexample does not rest on a device that may simply stop: the loop runs on
in ERROR for ever.

`command_ignored` uses the same specification; a device that goes on running is in IDLE
with its command acknowledged, and nothing the loop does leads on from there.

`OperationEnds` uses `FairSpec` of `Link`, weak fairness of the host's own steps:
the process is scheduled, and none of its calls blocks, reading included, so one
of them is always possible. Nothing is assumed of the line, the device or the
user. That the process runs is not enough for `clearInput`, whose loop has no end of its
own; what it takes in addition, a device that pauses at some time, is not assumed
but stands in the property (`[]<><<SendDebug>>_vars` is the exception).

The liveness properties of `reception` use `FairSpec` of `Reception`: weak fairness of the
clock and of each step of the receiver, which is a loop that never blocks, and
strong fairness of `Probe`. In the model the clock may tick until the time is over
between two looks at the line, again and again, while a byte lies there; the
code looks many thousands of times a tick. `ReceiveReturns` holds with weak fairness
too; `PauseResynchronizes` needs the strong one for the line to be read empty. Nothing is
assumed of the host: it may stop at any byte or never stop.

## 4. Proofs

TLAPS checks the following for every value of the constants that satisfies the
named assumptions of the modules (any retry budget of at least 1, any sets of driver
answers, at least two sequence numbers, any heap, any image size, any sets of
transfer sizes and chunk lengths).

**StateTransitionsProofs** holds the lemmas about the transition function that both
state-machine proofs use. `Settled` says of a machine what is true between calls:
its state is IDLE, SYNCING or ERROR, in ERROR the previous state is one that can
fail, and the display is up only if the hardware is. `TransitionSettles` and
`BootSettles` say that a transition keeps it and booting establishes it; they rest on one
lemma for each entry action, in the order in which they nest.

**StateMachineProofs**. None of the invariants is inductive alone:
`ErrorRemembersOrigin` needs `InitStatesAreTransient` (or a failure in ERROR's
neighbours would be remembered wrongly), and `RecoveryTerminates` needs to know
that `stuck` never exceeds the retries spent. The inductive invariant adds the
latter (`Counted`) to the type invariant, `Settled` and `DisplayReadyOrReset`.
Proved: all six invariants and `RecoveryNeverRefused`; and `SyncingTraps`.

**DeviceProofs**. First that every step of Device is one of StateMachine or leaves
it alone (`Implements`), so that all of the above carries over. Then
`AwakeUnlessRewired`, whose invariant relates both halves: where the machine has
hardware the port is initialized, where it has a display the panel is awake or
rewired, and a machine whose hardware failed has no driver up (`NothingUp`), so
that hardware is initialized, and the panel pulsed, only before there is a display
to lose. The lemmas follow the entry actions: a transition starts the display only
on hardware that is up before it or comes up in it. `SettingsInForce` is part of the same
invariant (`InStep`): a panel as `Woken` leaves it is out of step with the stored
settings, and the lemmas on `Show` and `Configure` (`ConfigureSets`, `RegistersSet`) say which
registers each call sets and that drawing sets none.

`ShowsWhatWasDrawn` is proved for every panel whose width is a multiple of eight
(of other widths the eight bars leave columns unpainted), squares of any side and any of
the orientations, in two
parts. The first is about the patterns alone (`PatternDrawn`): a lemma
(`PixelsDraw`) reduces what is sent to two facts, every rectangle agrees with the picture
and every address lies in one, and a lemma for each pattern proves them, with the
few facts about division they need (`Division`, `Quotient`, `Multiple`, `Parity`) stated
before; the checkerboard's clipped squares come out of `StopBelow` and `StopUnique`. The
second is the invariant `PictureInv`: a panel that is awake can be reached and shows
what was drawn last, as `PaintDraws` carries it from addresses to the glass (`Cell` is its
own inverse, `CellOnScreen`). It is inductive because whatever sends pixels without being
asked to draw, `display_clear` and the pixel functions, sets the window before, and
the commands that do so close the panel's memory (`ClearSetsTheWindow`). `DeviceTypeOK` follows
from both invariants. `BarsChangeColor` is a consequence: exchanging the bytes of red, green or
blue gives another colour.

**FirmwareProofs**. The inductive invariant is the type invariant with
`LoopSeesIdleOrError`; under it every step of the loop maps to a step of
`FailStopSession` or to a stutter, with `phase` "failed" for a device that is dead or
in ERROR, "open" after the first accepted SYNC, and `next` the successor of the
protocol's number. Proved: `TypeOK`, `LoopSeesIdleOrError` and
the refinement `Spec => SessionSpec`; and `Exhaustion`.

**TransferProofs**. `BufferHoldsReceived`, `NoResidue` and `PanelShowsReceived` are
inductive only together with the type invariant: the first needs a clean context
at `Start`, the second a buffer at every end, the third both. Proved: all four
(the type invariant is `TypeCorrect`) and `GivingUpEnds`. From the same invariant
every call is a step of `ImageDelivery` or none (`Refinement`): `DropsImage` covers the
ways back to IDLE, `StartOpens`, `ChunkGrows` and `CompleteShows` the rest; growing within
the size and writing all of it need the two pairs of fields to agree.

**ReceptionProofs**. `PayloadOwned` is inductive with the type invariant and one more
fact (`LengthAfterHeader`): while the header is read no length has been announced,
and while a payload is read the length is not zero. Proved for every format:
any sizes of header and checksum, any lengths, any timeout. Two lemmas about
`Codec` go over all 256 bytes: unescaping undoes escaping (`EscapeRoundTrip`), and
what was escaped contains neither marker (`MarkersOutside`), which is what makes
the markers markers. `ReceiveAdvances` goes
through the same cases: the order of the parts (`Order`), the position in the part and
the escape only ever grow until the call returns.

**SerialWriteProofs** is for all packets, all logs whose parts fit a chunk (the code's are
of single bytes and short fields), any limit on retries and any number of faults. The
invariant says three things of the stack. Of each writer (`Sound`): what is on the line in
order covers the finished chunks and what was taken of the present one, and no
more than all of it. Of the whole (`Paid`): one call for the outermost, one for each
fault, two for an overflow, the second only when it is over; a call whose failure is not
yet logged owes one. Of the overflow (`OverflowAtTheBottom`): it is the
outermost call's and that call has yet to recover from it, since a log's writes
never exceed a chunk. Proved: all four invariants.

**LinkProofs** is for any number of tries, chunks and numbers and any capacity.
Its first half is about the host alone: what `Prepare`, `Answered` and the rest
make of a sound process, from which `ErrorStateExplained` and the type invariant
follow (`TypeCorrect`, `ErrorExplained`). The second half is the invariant behind
`Delivered`. `Together`: the host is at the request the device took last or at the
next. `Agreed`: while the device works, the number it expects is that of its next
request on the host's side. `RequestsInOrder`: what is on its way to the device is
the request it awaits or a repetition of the one it took last, with numbers to
match, in this order; the repetition never has the number that is awaited, which
is why it stops the device. `AnswersInOrder`: at most one ACK of a request is ever
under way, and none of a request before the one in hand. Packets of ended processes lie
before these and have no part in them: when the device takes this process's SYNC, which
sets the number it expects, it has taken or rejected all of them. The invariant says nothing of a process that was misled
(`Guarded`: `~misled => Inv`), and every process starts within it again. Nothing is
assumed of what is on the line when a process starts. Proved: `CompletedMeansTaken`,
`TakenInOrder`, the refinement `Delivered`, and `AtMostOneInDoubt`, which says what a user
knows of an operation that failed.

`TakenOnce` holds of misled processes too, so it has an invariant of its own. `Repeats`:
the requests under way lie in their order, and a repetition carries the number it
had. `UsedUp`: a packet on its way whose request the device has
taken has the number the device used last, so it is not the one it expects.

`Bounded` is about the host alone. A step
that carries a request out moves on by one request, which costs `2 * MaxTries + 1` of
`StepsLeft`, and any other step uses up part of a try of the request in hand; both
follow from what `Completed` and `TryAgain` were shown to make of a sound process.
`DeviceKeepsSession` closes the gap between the two compositions: the device at the
end of Link's line is the session Firmware implements.

Two theorems say of every instance what a violated run says of one:
`NeverSynchronized` (LinkProofs: with the device's ACK for a SYNC no request is ever
carried out, by any process) and `ErrorIsForever` (FirmwareProofs: in
ERROR nothing of the machine or of its answers changes any more).

Five more theorems are about what documentation or comments promise and no instance
does; they are no properties of a run, since a run that passes over them would hide
the disagreement:

* `ClearDrawsNothing` (DeviceProofs): `display_clear` sends black pixels without
  opening the panel's memory, so the panel goes on showing what it showed, against "Clear
  display to black" (`display.c:73`) and "Clear screen to black" (`docs/display.md:45`).
* `BarsChangeColor` (DeviceProofs): no red, green or blue bar of the test pattern is
  red, green or blue on the glass, against `docs/display.md:64`.
* `SyncingTraps` (StateMachineProofs): nothing leads out of SYNCING, a failure or a reset
  included, against "Any State → ERROR" (`docs/state_machine.md:103`).
* `CommandsIdle` (DeviceProofs): in no order of calls does `command_process` carry out a command,
  because the states in which it would are entered by commands only, against "Begin
  command processing" (`docs/state_machine.md:90`). `InitStatesAreTransient` and
  `LoopSeesIdleOrError` also say that COMMAND_PROCESSING is not reached; what they
  are there for is that initialization ends and which cases of the loop are dead.
* `Exhaustion` (FirmwareProofs): each heartbeat takes a block of the heap, and when none is
  left there are no heartbeats and no answers any more, not even to a request without
  a payload, against "Heartbeat every second" (`main.c:266`).

Only model-checked: the liveness properties `ReceiveReturns`, `PauseResynchronizes` and
`OperationEnds`, since liveness under fairness, and ENABLED, are out of reach of the
installed provers. For the first and the last the safety half is proved
(`ReceiveAdvances`, `OperationBounded`: no step is made for nothing); what stays with
TLC is that the steps are made. The six violated properties are refuted by TLC and,
apart from the two above, stay with it.

## 5. Not modelled, and why

* `src/state/validation.c` is not in the build, the transition table of
  `src/state/transition.c` has no reader and names other transitions than `state.c` does;
  the state machine's on_error handlers and the `validate_*` functions of `state.c` have no
  caller.
* `recovery_attempt` (`src/error/recovery.c`) has no caller, never calls the
  registered handlers and changes only statistics; `protocol_should_retry` with
  its backoff has no caller; `protocol_init`, `protocol_deinit`, `hardware_deinit`
  alone and `display_deinit` neither.
* The debug statistics and the clock: nothing decides on them. Wording of log
  messages and the layout of packets.
* The host's image conversion is a pure function around a library's decoder; Host has
  its outcome. Setting up the host's port is I/O.
* The formats of the two ends differ (section 2).
* The panel's brightness, and what the vendor's registers of `GC9A01_init` do.
* A restart of the device. The code has no state that survives one and nothing on the host
  notices it; in Link the device may fail and stays failed.
* The checksum of packets and chunks is right or wrong; that its table is the
  polynomial's is a test over data. Its computation is a recursion over bytes, out
  of reach of the proofs.

What is left to extend: Firmware without the main loop's assumption that a send
returns (a stack of nested logs, whose depth `NestingNeedsFaults` bounds by faults
only); a restart of the device in Link; the checksum's table as a function over
short payloads.
