----------------------------- MODULE Reception -----------------------------
(***************************************************************************)
(* packet_receive (src/src/protocol/packet.c) over serial_read_byte        *)
(* (src/src/hardware/serial.c), while bytes arrive: called again and again *)
(* as the main loop does, with a timeout in every byte.                    *)
(*                                                                         *)
(* serial_read_byte takes two looks at the line: serial_available, which   *)
(* takes a byte to see whether there is one, and serial_read.  Bytes may   *)
(* arrive in between, so they are two steps.                               *)
(*                                                                         *)
(* What is in a header, a payload or a checksum is left out except for     *)
(* what packet_receive decides on: the first byte, the length, whether the *)
(* checksum parses and whether it is right.                                *)
(***************************************************************************)
EXTENDS Codec

CONSTANTS
  Bytes,         \* bytes that arrive
  HeaderSize,    \* sizeof(PacketHeader)
  CheckSize,     \* characters of the checksum (8 in the code)
  Lengths,       \* lengths a header may announce
  MaxPayload,    \* MAX_PAYLOAD_SIZE
  Timeout,       \* ticks a byte is waited for (10 ms in the code)
  FifoSize       \* bytes the USB stack keeps; the host waits when it is full

ASSUME BytesAssumption == Bytes \subseteq Byte
ASSUME SizesAssumption == /\ HeaderSize \in Nat \ {0}
                          /\ CheckSize \in Nat \ {0}
                          /\ Lengths \subseteq Nat
                          /\ MaxPayload \in Nat
                          /\ Timeout \in Nat \ {0}
                          /\ FifoSize \in Nat \ {0}

VARIABLES
  fifo,      \* bytes that have arrived and were not read
  probed,    \* serial_available has just taken a byte
  waited,    \* ticks since the present byte was first asked for
  rx,        \* the call of packet_receive that is running
  result     \* what the last call returned, with a bit that tells one call
             \* from the next

vars == <<fifo, probed, waited, rx, result>>

Phases == {"header", "payload", "space", "checksum", "end"}

\* place: the part of the packet that is read, and how many bytes of it were;
\* escape: the first byte of an escape was read; blocks: payload buffers
\* allocated and neither freed nor returned.
Calls == [phase : Phases, index : Nat, escape : BOOLEAN, marked : BOOLEAN,
          length : Lengths \cup {0}, blocks : Nat]

\* packet_receive is entered.
Entered == [phase |-> "header", index |-> 0, escape |-> FALSE,
            marked |-> FALSE, length |-> 0, blocks |-> 0]

\* How many bytes the part that is read has.
Size(c) == CASE c.phase = "header" -> HeaderSize
             [] c.phase = "payload" -> c.length
             [] c.phase = "checksum" -> CheckSize
             [] OTHER -> 1

TypeOK ==
  /\ fifo \in Seq(Bytes) /\ Len(fifo) <= FifoSize
  /\ probed \in BOOLEAN
  /\ waited \in 0 .. Timeout
  /\ rx \in Calls /\ rx.index < Size(rx)
  /\ result \in [ok : BOOLEAN, turn : BOOLEAN]

Init ==
  /\ fifo = <<>>
  /\ probed = FALSE
  /\ waited = 0
  /\ rx = Entered
  /\ result = [ok |-> FALSE, turn |-> FALSE]

-----------------------------------------------------------------------------
(* Returning                                                               *)

\* packet_receive returns and is called again, with blocks still allocated
\* that it neither freed nor handed to its caller.
Return(ok, blocks) ==
  /\ rx' = [Entered EXCEPT !.blocks = blocks]
  /\ result' = [ok |-> ok, turn |-> ~result.turn]

\* Mutant: a failure forgets the payload.
PayloadForgotten(c) == c.blocks

\* free(packet->payload), where there is one
Freed(c) == IF c.length > 0 THEN c.blocks - 1 ELSE c.blocks

Fail == Return(FALSE, Freed(rx))

-----------------------------------------------------------------------------
(* The last byte of a part has been read                                   *)

Proceed(phase) ==
  /\ rx' = [rx EXCEPT !.phase = phase, !.index = 0, !.escape = FALSE]
  /\ UNCHANGED result

Announced(phase, n, blocks) ==
  /\ rx' = [Entered EXCEPT !.phase = phase, !.marked = TRUE, !.length = n,
                           !.blocks = blocks]
  /\ UNCHANGED result

\* The marker is looked at when the whole header is there, and the payload
\* allocated, whatever its length: MAX_PAYLOAD_SIZE is compared at the end.
HeaderRead(marked) ==
  \/ ~marked /\ Fail
  \/ marked /\ 0 \in Lengths /\ Announced("space", 0, rx.blocks)
  \/ /\ marked
     /\ \E n \in Lengths \ {0} : \/ Announced("payload", n, rx.blocks + 1)
                                \/ Fail    \* malloc returned NULL

SpaceRead(byte) == IF byte = SPACE THEN Proceed("checksum") ELSE Fail

\* sscanf finds a number in the characters, or does not.
ChecksumRead == Proceed("end") \/ Fail

\* packet_validate; the checksum is right, or is not.
EndRead(byte) ==
  \/ /\ byte = END_MARKER
     /\ rx.length <= MaxPayload
     /\ Return(TRUE, rx.blocks - (IF rx.length > 0 THEN 1 ELSE 0))
  \/ Fail

\* Mutant: a part is one byte too long.
LastByteOffByOne(c) == c.index = Size(c)

LastByte(c) == c.index + 1 = Size(c)

\* An unescaped byte is stored, and may be the last of its part.
Store(byte) ==
  LET marked == IF rx.phase = "header" /\ rx.index = 0 THEN byte = START_MARKER
                                                       ELSE rx.marked
  IN IF ~LastByte(rx)
     THEN /\ rx' = [rx EXCEPT !.index = @ + 1, !.escape = FALSE, !.marked = marked]
          /\ UNCHANGED result
     ELSE \/ rx.phase = "header"   /\ HeaderRead(marked)
          \/ rx.phase = "payload"  /\ Proceed("space")
          \/ rx.phase = "space"    /\ SpaceRead(byte)
          \/ rx.phase = "checksum" /\ ChecksumRead
          \/ rx.phase = "end"      /\ EndRead(byte)

-----------------------------------------------------------------------------
(* Steps                                                                   *)

\* The host sends a byte.
Arrive(b) ==
  /\ Len(fifo) < FifoSize
  /\ fifo' = Append(fifo, b)
  /\ UNCHANGED <<probed, waited, rx, result>>

\* A tick of the clock
Tick ==
  /\ waited < Timeout
  /\ waited' = waited + 1
  /\ UNCHANGED <<fifo, probed, rx, result>>

\* Mutant: the clock is not looked at while the line is quiet.
NeverExpires(w) == FALSE

\* The end of the loop of read_with_timeout
Expired(w) == w = Timeout

\* serial_available: the byte it finds is gone.  Without one the loop goes
\* round.
Probe ==
  /\ ~probed
  /\ ~Expired(waited)
  /\ fifo # <<>>
  /\ fifo' = Tail(fifo)
  /\ probed' = TRUE
  /\ UNCHANGED <<waited, rx, result>>

\* serial_read finds no byte, and serial_read_byte returns -1.
Miss ==
  /\ probed
  /\ fifo = <<>>
  /\ probed' = FALSE
  /\ UNCHANGED <<fifo, waited, rx, result>>

\* serial_read finds the byte after the one serial_available took.
ReadByte ==
  /\ probed
  /\ fifo # <<>>
  /\ fifo' = Tail(fifo)
  /\ probed' = FALSE
  /\ waited' = 0
  /\ LET raw == Head(fifo)
     IN IF ~rx.escape /\ raw = ESCAPE_CHAR
        THEN rx' = [rx EXCEPT !.escape = TRUE] /\ UNCHANGED result
        ELSE Store(Unescape(IF rx.escape THEN <<ESCAPE_CHAR, raw>> ELSE <<raw>>))

\* Mutant: the second byte of an escape is waited for without a limit.
TimedOutUnlessEscaped ==
  /\ ~probed
  /\ Expired(waited)
  /\ waited' = 0
  /\ IF rx.escape THEN UNCHANGED <<rx, result>> ELSE Fail
  /\ UNCHANGED <<fifo, probed>>

\* A byte did not come in time.
TimedOut ==
  /\ ~probed
  /\ Expired(waited)
  /\ waited' = 0
  /\ Fail
  /\ UNCHANGED <<fifo, probed>>

Next ==
  \/ \E b \in Bytes : Arrive(b)
  \/ Tick
  \/ Probe
  \/ Miss
  \/ ReadByte
  \/ TimedOut

Spec == Init /\ [][Next]_vars

\* Time passes and the receiver runs; the host may send or stop at any time.
\* The loop looks at the line far more often than the clock ticks, so it does
\* not find it empty at every look while a byte lies there: strong fairness.
FairSpec ==
  /\ Spec
  /\ WF_vars(Tick)
  /\ SF_vars(Probe)
  /\ WF_vars(Miss)
  /\ WF_vars(ReadByte)
  /\ WF_vars(TimedOut)

-----------------------------------------------------------------------------
(* Properties                                                              *)

\* A call owns its payload's buffer exactly while it reads what follows the
\* header: none of the ten ways out of packet_receive leaks it or frees it
\* twice, the one for a header that announced a length and got no memory
\* included.
PayloadOwned ==
  rx.blocks = IF rx.phase # "header" /\ rx.length > 0 THEN 1 ELSE 0

\* The order in which the parts of a packet are read
Order == [header |-> 1, payload |-> 2, space |-> 3, checksum |-> 4, end |-> 5]

\* A call that has read more of its packet: of a later part, or more of the
\* same, or the first byte of an escape.
Further(c, d) ==
  \/ Order[c.phase] < Order[d.phase]
  \/ c.phase = d.phase /\ c.index < d.index
  \/ c.phase = d.phase /\ c.index = d.index /\ ~c.escape /\ d.escape

\* packet_receive never goes back and never waits twice for the same byte: one
\* it reads takes it further or is its last, and the first that does not come
\* in time ends it, also inside an escape and between two parts.
\* There is no limit on the packet as a whole, so ReceiveReturns rests on this
\* and on the parts being finite.
ReceiveAdvances ==
  [][/\ ReadByte => result' # result \/ Further(rx, rx')
     /\ TimedOut => result' # result]_vars

\* packet_receive returns, whatever the host sends or does not send: the main
\* loop is never held up for good.
ReceiveReturns == []<><<result' # result>>_vars

\* When the host stops sending, in the middle of a packet or of an escape, the
\* receiver is in the end where a packet begins, with nothing left to read:
\* a pause is what tells it where packets begin.
PauseResynchronizes ==
  \/ []<><<\E b \in Bytes : Arrive(b)>>_vars
  \/ <>[](fifo = <<>> /\ ~probed /\ rx = Entered)

-----------------------------------------------------------------------------
(* What the documentation says and the code does not do                    *)

\* "Returns -1 if no data available, otherwise returns byte value" (serial.h):
\* serial_read_byte never returns -1 having found a byte.
NoByteDropped == [][~Miss]_vars
=============================================================================
