------------------------------ MODULE Firmware ------------------------------
(***************************************************************************)
(* The firmware's main loop (src/src/main.c) over the state machine and    *)
(* the protocol, for every sequence of packets and every outcome of        *)
(* sending and allocating.                                                 *)
(*                                                                         *)
(* The loop is the only thread.  Its iterations that find no packet and no *)
(* heartbeat due change nothing; the others are the actions below.  The    *)
(* cases HARDWARE_INIT and DISPLAY_INIT of its switch have no action:      *)
(* LoopSeesIdleOrError is the claim that the loop never gets there.        *)
(*                                                                         *)
(* The heap is a number of equal blocks.  main never calls packet_free, so *)
(* a payload that was received, the payload of an ACK and that of a        *)
(* heartbeat stay allocated.  What is freed within a call (the packets     *)
(* logging_write sends, a receive that fails) does not appear.             *)
(***************************************************************************)
EXTENDS Protocol, StateTransitions

CONSTANTS
  HeapBlocks,        \* blocks malloc can hand out before it returns NULL
  HardwareAnswers,   \* answers of hardware_init
  DisplayAnswers     \* answers of display_init

ASSUME HeapAssumption == HeapBlocks \in Nat
ASSUME AnswersAssumption == /\ HardwareAnswers \subseteq BOOLEAN
                            /\ DisplayAnswers \subseteq BOOLEAN

VARIABLES
  machine,    \* the state machine, as in StateTransitions
  protocol,   \* the protocol's statics, as in Protocol
  heap,       \* blocks allocated and not freed
  acked,      \* the last acknowledgement sent
  beat,       \* parity of the heartbeats sent
  alive       \* FALSE once main has returned or the processor has faulted

vars == <<machine, protocol, heap, acked, beat, alive>>

TypeOK ==
  /\ machine \in Machines
  /\ protocol \in ProtocolStates
  /\ heap \in 0 .. HeapBlocks
  /\ acked \in Acks \cup {NoAck}
  /\ beat \in BOOLEAN
  /\ alive \in BOOLEAN

\* main up to its loop: init_subsystems sets the hardware up once, and main
\* returns when that fails; state_machine_init then sets it up again.
Init ==
  /\ \/ TRUE \in HardwareAnswers /\ alive = TRUE
     \/ FALSE \in HardwareAnswers /\ alive = FALSE
  /\ \E hw \in HardwareAnswers, disp \in DisplayAnswers :
       machine = IF alive THEN Boot({"hardware"}, hw, disp) ELSE PowerOn({})
  /\ protocol = Unsynced
  /\ heap = 0
  /\ acked = NoAck
  /\ beat = FALSE

-----------------------------------------------------------------------------
(* Receiving and processing a packet                                       *)

Blocks(packet) == IF packet.payload = "empty" THEN 0 ELSE 1

\* Mutant: the payload is stored without asking whether malloc had room.
ReceivesUnchecked(packet) ==
  /\ alive
  /\ machine.current \in {"IDLE", "READY"}

\* The loop polls in IDLE and READY, and packet_receive returns this packet:
\* there is a block for its payload.
Receives(packet) ==
  /\ alive
  /\ machine.current \in {"IDLE", "READY"}
  /\ heap + Blocks(packet) <= HeapBlocks

\* main moves to ERROR when processing failed.
After(ok) == IF ok THEN machine ELSE Step(machine, "ERROR", "ERROR")

\* packet_create_nack copies its text to payload, a pointer it has just set to
\* NULL: the processor faults, or it does not and the packet, which has no
\* markers, is not sent.
Reject(packet, faults) ==
  /\ Receives(packet)
  /\ Rejected(protocol, packet)
  /\ heap' = heap + Blocks(packet)
  /\ IF faults THEN alive' = FALSE /\ UNCHANGED machine
               ELSE alive' = alive /\ machine' = After(FALSE)
  /\ UNCHANGED <<protocol, acked, beat>>

\* handle_sync_packet, handle_command_packet and handle_data_packet: the ACK
\* needs a block, and packet_transmit may fail.  Nobody frees the ACK.
HandleRequest(packet, sent) ==
  /\ Receives(packet)
  /\ ~Rejected(protocol, packet)
  /\ Answered(packet)
  /\ LET used == heap + Blocks(packet)
         ok   == used < HeapBlocks /\ sent
     IN  /\ heap' = IF used < HeapBlocks THEN used + 1 ELSE used
         /\ acked' = IF ok THEN [type |-> packet.type, seq |-> packet.seq]
                           ELSE acked
         /\ protocol' = Handled(protocol, packet, ok)
         /\ machine' = After(ok)
  /\ UNCHANGED <<beat, alive>>

\* handle_error_packet: a report of the host is logged and not answered.
HandleErrorPacket(packet) ==
  /\ Receives(packet)
  /\ ~Rejected(protocol, packet)
  /\ packet.type = "ERROR"
  /\ heap' = heap + Blocks(packet)
  /\ protocol' = Handled(protocol, packet, TRUE)
  /\ UNCHANGED <<machine, acked, beat, alive>>

-----------------------------------------------------------------------------
(* The rest of the loop                                                    *)

\* The loop in ERROR: it calls state_machine_handle_error and nothing else.
HandleErrorState ==
  /\ alive
  /\ machine.current = "ERROR"
  /\ machine' = HandleError(machine)
  /\ UNCHANGED <<protocol, heap, acked, beat, alive>>

\* A second has passed.  With no block left packet_create_debug fails, and
\* the loop goes on without a heartbeat.
Heartbeat(sent) ==
  /\ alive
  /\ heap < HeapBlocks
  /\ heap' = heap + 1
  /\ beat' = (beat # sent)
  /\ UNCHANGED <<machine, protocol, acked, alive>>

\* An allocation finds no block.  The SDK's malloc stops the processor unless
\* it is built to return NULL, which is what the calls above see.  A stop in
\* the middle of a call appears as one right after it.
Panic ==
  /\ alive
  /\ heap = HeapBlocks
  /\ alive' = FALSE
  /\ UNCHANGED <<machine, protocol, heap, acked, beat>>

Next ==
  \/ \E packet \in Packets :
       \/ \E faults \in BOOLEAN : Reject(packet, faults)
       \/ \E sent \in BOOLEAN : HandleRequest(packet, sent)
       \/ HandleErrorPacket(packet)
  \/ HandleErrorState
  \/ \E sent \in BOOLEAN : Heartbeat(sent)
  \/ Panic

Spec == Init /\ [][Next]_vars

\* The loop never blocks for good and time passes: what the loop does on its
\* own it does.  Nothing is assumed of the host's packets.
FairSpec ==
  /\ Spec
  /\ WF_vars(HandleErrorState)
  /\ WF_vars(Heartbeat(TRUE))

-----------------------------------------------------------------------------
(* Properties                                                              *)

\* What a host can observe of the device's state.
Phase ==
  IF ~alive \/ machine.current = "ERROR" THEN "failed"
  ELSE IF protocol.synced THEN "open" ELSE "closed"

Session == INSTANCE FailStopSession
             WITH phase <- Phase, next <- Succ(protocol.sequence)

\* On the wire the device is a fail-stop session: no answer before a SYNC was
\* answered, answers in sequence, none twice, none after a failure.
\* handle_sync_packet opens the session before its ACK is sent, so this rests
\* on main leaving IDLE for good when the ACK could not be sent.
SessionSpec == Session!Spec

\* At the top of the loop the machine is in IDLE or ERROR, however booting
\* went and whatever failed since: the cases HARDWARE_INIT, DISPLAY_INIT and
\* READY of main's switch are dead.  That no packet leads further is not what
\* the documentation says (CommandIsProcessed below).
LoopSeesIdleOrError == alive => machine.current \in {"IDLE", "ERROR"}

-----------------------------------------------------------------------------
(* What the documentation says and the code does not do                    *)

\* "Attempts automatic recovery", "Returns to IDLE when fixed"
\* (docs/index.md): a device that goes on running does not stay in ERROR.
ErrorIsLeft ==
  (alive /\ machine.current = "ERROR") ~> (~alive \/ machine.current = "IDLE")

\* "Heartbeat every second" (main.c), and what becomes of it: a heap that is
\* used up stays used up, and from then on the device answers nothing, not
\* even a request without a payload, and its heart has stopped beating.
\* Every heartbeat takes a block, so this comes to every device.
SilentWhenExhausted ==
  [][heap = HeapBlocks =>
       heap' = HeapBlocks /\ acked' = acked /\ beat' = beat]_vars

\* "IDLE -> COMMAND_PROCESSING, triggered by: valid packet received"
\* (docs/state_machine.md): a command that was acknowledged is processed,
\* unless the device fails before.
CommandIsProcessed ==
  acked.type = "COMMAND" ~>
    (machine.current = "COMMAND_PROCESSING" \/ Phase = "failed")
=============================================================================
