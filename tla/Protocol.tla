------------------------------ MODULE Protocol ------------------------------
(***************************************************************************)
(* protocol_process_packet of src/src/protocol/protocol.c, as what one     *)
(* packet makes of the protocol's state.                                   *)
(*                                                                         *)
(* The packets here are those packet_receive returns TRUE for: markers,    *)
(* length and checksum are right, so the first half of                     *)
(* protocol_validate_packet, which looks at them again, always passes.     *)
(***************************************************************************)
EXTENDS Naturals

CONSTANT SeqMod    \* number of sequence numbers (256 in the code, a uint8_t)

ASSUME SeqModAssumption == SeqMod \in Nat \ {0, 1}

SeqNums == 0 .. SeqMod - 1

\* One more, in a uint8_t.
Succ(s) == IF s = SeqMod - 1 THEN 0 ELSE s + 1

\* "UNKNOWN" stands for every type byte that is not in the enum.
PacketTypes == {"SYNC", "COMMAND", "DATA", "ERROR", "ACK", "NACK", "DEBUG",
                "UNKNOWN"}

\* A payload is absent, the one byte PROTOCOL_VERSION, or something else.
Payloads == {"empty", "version", "other"}

Packets == [type : PacketTypes, seq : SeqNums, payload : Payloads]

\* The acknowledgement of a packet, with the type of what it answers.
Acks == [type : {"SYNC", "COMMAND", "DATA"}, seq : SeqNums]

NoAck == [type |-> "none", seq |-> 0]

\* The protocol's statics: g_protocol_config.sequence and has_valid_sync.
\* protocol_init is never called; the statics start as zero.
ProtocolStates == [sequence : SeqNums, synced : BOOLEAN]

Unsynced == [sequence |-> 0, synced |-> FALSE]

\* protocol_validate_packet, the protocol's own half
Valid(q, packet) ==
  IF packet.type = "SYNC" THEN packet.payload = "version"
                          ELSE packet.seq = Succ(q.sequence)

\* Mutant: requests are handled before the first SYNC too.
UnsyncedAllowed(q, packet) ==
  \/ ~Valid(q, packet)
  \/ packet.type \in {"ACK", "NACK", "DEBUG", "UNKNOWN"}

\* The three ways to packet_create_nack and FALSE: not valid, a request
\* without a session, a type the device does not take.
Rejected(q, packet) ==
  \/ ~Valid(q, packet)
  \/ packet.type \in {"COMMAND", "DATA"} /\ ~q.synced
  \/ packet.type \in {"ACK", "NACK", "DEBUG", "UNKNOWN"}

\* The handlers that answer with an ACK: SYNC, COMMAND and DATA.
Answered(packet) == packet.type \in {"SYNC", "COMMAND", "DATA"}

\* The protocol after the handler of a packet that was not rejected, where ok
\* is what the handler returned.  handle_sync_packet resets the number and
\* opens the session before it knows whether its ACK can be sent.
Handled(q, packet, ok) ==
  [sequence |-> IF ok THEN packet.seq
                ELSE IF packet.type = "SYNC" THEN 0 ELSE q.sequence,
   synced |-> q.synced \/ packet.type = "SYNC"]
=============================================================================
