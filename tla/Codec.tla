------------------------------- MODULE Codec -------------------------------
(***************************************************************************)
(* The bytes of a packet on the line (src/src/protocol/packet.c): which    *)
(* ones are escaped, and how.                                              *)
(***************************************************************************)
EXTENDS Integers, Sequences

Byte == 0 .. 255

START_MARKER == 126    \* '~'
END_MARKER   == 10     \* newline
ESCAPE_CHAR  == 92     \* backslash
SPACE        == 32

Special == {START_MARKER, END_MARKER, ESCAPE_CHAR}

\* b ^ 0x20
Flip(b) == IF (b \div 32) % 2 = 0 THEN b + 32 ELSE b - 32

\* write_escaped, for one byte
Escape(b) == IF b \in Special THEN <<ESCAPE_CHAR, Flip(b)>> ELSE <<b>>

\* read_byte_unescaped, for the one or two bytes it reads
Unescape(raw) == IF raw[1] = ESCAPE_CHAR THEN Flip(raw[2]) ELSE raw[1]
=============================================================================
