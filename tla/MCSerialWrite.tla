--------------------------- MODULE MCSerialWrite ---------------------------
(***************************************************************************)
(* Instances of SerialWrite: a packet with an escaped byte in it, and with *)
(* it, where overflows matter, a write of more than a chunk.               *)
(***************************************************************************)
EXTENDS SerialWrite

MCPackets == {<<1, 2, 1>>}

MCMessages == MCPackets \cup {<<3>>}

\* The records are packets of two bytes.
MCLogWrites == <<1, 1>>
=============================================================================
