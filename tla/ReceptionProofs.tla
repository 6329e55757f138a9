-------------------------- MODULE ReceptionProofs --------------------------
(***************************************************************************)
(* Proofs about Reception, for every packet format, timeout and FIFO, and  *)
(* about the escaping it undoes.                                           *)
(***************************************************************************)
EXTENDS Reception, TLAPS

-----------------------------------------------------------------------------
(* Escaping                                                                *)

\* Flipping bit 5 of a byte gives a byte, and twice the byte one began with.
LEMMA FlipTwice ==
  \A b \in Byte : Flip(b) \in Byte /\ Flip(Flip(b)) = b
<1>1. SUFFICES ASSUME NEW b \in Byte
               PROVE Flip(b) \in Byte /\ Flip(Flip(b)) = b
  OBVIOUS
<1> QED
  BY DEF Byte, Flip

\* What write_escaped makes of a byte, read_byte_unescaped makes that byte of,
\* for all 256 of them.
THEOREM EscapeRoundTrip ==
  \A b \in Byte : Unescape(Escape(b)) = b
<1>1. SUFFICES ASSUME NEW b \in Byte
               PROVE Unescape(Escape(b)) = b
  OBVIOUS
<1>2. CASE b \in Special
  BY <1>2, FlipTwice DEF Escape, Unescape
<1>3. CASE b \notin Special
  BY <1>3 DEF Escape, Unescape, Special
<1> QED
  BY <1>2, <1>3

\* Neither marker appears among the bytes write_escaped sends, so the raw end
\* marker packet_transmit writes is the only one in a packet.
THEOREM MarkersOutside ==
  \A b \in Byte : \A i \in DOMAIN Escape(b) :
    Escape(b)[i] \notin {START_MARKER, END_MARKER}
<1>1. SUFFICES ASSUME NEW b \in Byte, NEW i \in DOMAIN Escape(b)
               PROVE Escape(b)[i] \notin {START_MARKER, END_MARKER}
  OBVIOUS
<1>2. CASE b \in Special
  BY <1>2 DEF Escape, Flip, Special, START_MARKER, END_MARKER, ESCAPE_CHAR
<1>3. CASE b \notin Special
  BY <1>3 DEF Escape, Special
<1> QED
  BY <1>2, <1>3

-----------------------------------------------------------------------------
(* The inductive invariant                                                 *)

\* Before the header is complete no length is known.  PayloadOwned needs this:
\* a timeout in the header must not free what was not allocated.
LengthAfterHeader == rx.phase = "header" => rx.length = 0

CallOK == /\ rx \in Calls
          /\ rx.index < Size(rx)
          /\ PayloadOwned
          /\ LengthAfterHeader

IInv == TypeOK /\ PayloadOwned /\ LengthAfterHeader

LEMMA InitEstablishes == Init => IInv
<1> SUFFICES ASSUME Init PROVE IInv
  OBVIOUS
<1> USE SizesAssumption DEF Init
<1>1. CallOK
  BY DEF CallOK, Calls, Phases, Entered, Size, PayloadOwned, LengthAfterHeader
<1>2. fifo \in Seq(Bytes) /\ Len(fifo) <= FifoSize
  OBVIOUS
<1>3. probed \in BOOLEAN
  OBVIOUS
<1>4. waited \in 0 .. Timeout
  OBVIOUS
<1>5. result \in [ok : BOOLEAN, turn : BOOLEAN]
  OBVIOUS
<1> QED
  BY <1>1, <1>2, <1>3, <1>4, <1>5 DEF CallOK, IInv, TypeOK

\* A call that returns leaves the next one at its beginning, when what it
\* leaves allocated is nothing.
LEMMA ReturnKeeps ==
  ASSUME NEW ok \in BOOLEAN, NEW blocks, blocks = 0,
         result \in [ok : BOOLEAN, turn : BOOLEAN], Return(ok, blocks)
  PROVE  CallOK' /\ result' \in [ok : BOOLEAN, turn : BOOLEAN]
<1>1. rx' = Entered
  BY DEF Return, Entered
<1>2. CallOK'
  BY <1>1, SizesAssumption
     DEF CallOK, Calls, Phases, Entered, Size, PayloadOwned, LengthAfterHeader
<1>3. result' \in [ok : BOOLEAN, turn : BOOLEAN]
  BY Zenon DEF Return
<1> QED
  BY <1>2, <1>3

\* Every failure frees what the call has allocated.
LEMMA FailKeeps ==
  ASSUME CallOK, result \in [ok : BOOLEAN, turn : BOOLEAN], Fail
  PROVE  CallOK' /\ result' \in [ok : BOOLEAN, turn : BOOLEAN]
<1>1. Freed(rx) = 0
  BY SizesAssumption DEF CallOK, Calls, PayloadOwned, LengthAfterHeader, Freed
<1> QED
  BY <1>1, ReturnKeeps DEF Fail

\* Going on to a part of one byte, or to the checksum, touches no buffer.
LEMMA ProceedKeeps ==
  ASSUME CallOK, rx.phase # "header",
         NEW phase \in {"space", "checksum", "end"}, Proceed(phase)
  PROVE  CallOK'
<1>1. rx' = [rx EXCEPT !.phase = phase, !.index = 0, !.escape = FALSE]
  BY DEF Proceed
<1>2. rx' \in Calls
  BY <1>1 DEF CallOK, Calls, Phases
<1>3. rx'.phase = phase /\ rx'.index = 0
      /\ rx'.length = rx.length /\ rx'.blocks = rx.blocks
  BY <1>1 DEF CallOK, Calls
<1>4. rx'.index < Size(rx')
  BY <1>3, SizesAssumption DEF Size
<1> QED
  BY <1>2, <1>3, <1>4 DEF CallOK, PayloadOwned, LengthAfterHeader

\* A header that is complete begins the payload it announces, or fails.
LEMMA HeaderKeeps ==
  ASSUME CallOK, result \in [ok : BOOLEAN, turn : BOOLEAN],
         rx.phase = "header", NEW marked, HeaderRead(marked)
  PROVE  CallOK' /\ result' \in [ok : BOOLEAN, turn : BOOLEAN]
<1>1. CASE Fail
  BY <1>1, FailKeeps
<1>2. CASE ~Fail
  <2>1. PICK n \in Lengths, phase \in {"payload", "space"}, blocks \in {0, 1} :
          /\ Announced(phase, n, blocks)
          /\ \/ phase = "payload" /\ n # 0 /\ blocks = 1
             \/ phase = "space" /\ n = 0 /\ blocks = 0
    <3>1. rx.blocks = 0
      BY DEF CallOK, PayloadOwned
    <3> QED
      BY <1>2, <3>1 DEF HeaderRead
  <2>2. n \in Nat
    BY SizesAssumption
  <2>3. rx' = [phase |-> phase, index |-> 0, escape |-> FALSE,
               marked |-> TRUE, length |-> n, blocks |-> blocks]
    BY <2>1 DEF Announced, Entered
  <2>4. CallOK'
    BY <2>1, <2>2, <2>3
       DEF CallOK, Calls, Phases, Size, PayloadOwned, LengthAfterHeader
  <2> QED
    BY <2>1, <2>4 DEF Announced
<1> QED
  BY <1>1, <1>2

\* Whatever byte is stored wherever.
LEMMA StoreKeeps ==
  ASSUME CallOK, result \in [ok : BOOLEAN, turn : BOOLEAN],
         NEW byte, Store(byte)
  PROVE  CallOK' /\ result' \in [ok : BOOLEAN, turn : BOOLEAN]
<1> DEFINE marked == IF rx.phase = "header" /\ rx.index = 0
                     THEN byte = START_MARKER ELSE rx.marked
<1>1. CASE ~LastByte(rx)
  <2>1. rx' = [rx EXCEPT !.index = @ + 1, !.escape = FALSE, !.marked = marked]
        /\ UNCHANGED result
    BY <1>1 DEF Store
  <2>2. marked \in BOOLEAN
    BY DEF CallOK, Calls
  <2>3. Size(rx) \in Nat /\ rx.index \in Nat
    BY SizesAssumption DEF CallOK, Calls, Phases, Size
  <2>4. rx.index + 1 < Size(rx)
    BY <1>1, <2>3 DEF CallOK, LastByte
  <2> HIDE DEF marked
  <2>5. rx' \in Calls
    <3> DEFINE next == rx.index + 1
    <3>1. next \in Nat
      BY <2>3
    <3>2. rx' = [rx EXCEPT !.index = next, !.escape = FALSE, !.marked = marked]
      BY <2>1
    <3> HIDE DEF next
    <3> QED
      BY <2>2, <3>1, <3>2 DEF CallOK, Calls
  <2>6. Size(rx') = Size(rx) /\ rx'.index = rx.index + 1
    BY <2>1 DEF CallOK, Calls, Size
  <2>7. PayloadOwned' /\ LengthAfterHeader'
    BY <2>1 DEF CallOK, Calls, PayloadOwned, LengthAfterHeader
  <2> QED
    BY <2>1, <2>4, <2>5, <2>6, <2>7 DEF CallOK
<1>2. CASE LastByte(rx)
  <2>1. CASE rx.phase = "header" /\ HeaderRead(marked)
    BY <2>1, HeaderKeeps
  <2>2. CASE rx.phase = "payload" /\ Proceed("space")
    <3>1. CallOK'
      BY <2>2, ProceedKeeps
    <3> QED
      BY <2>2, <3>1 DEF Proceed
  <2>3. CASE rx.phase = "space" /\ SpaceRead(byte)
    <3>1. CASE Fail
      BY <3>1, FailKeeps
    <3>2. CASE Proceed("checksum")
      <4>1. CallOK'
        BY <2>3, <3>2, ProceedKeeps
      <4> QED
        BY <3>2, <4>1 DEF Proceed
    <3> QED
      BY <2>3, <3>1, <3>2 DEF SpaceRead
  <2>4. CASE rx.phase = "checksum" /\ ChecksumRead
    <3>1. CASE Fail
      BY <3>1, FailKeeps
    <3>2. CASE Proceed("end")
      <4>1. CallOK'
        BY <2>4, <3>2, ProceedKeeps
      <4> QED
        BY <3>2, <4>1 DEF Proceed
    <3> QED
      BY <2>4, <3>1, <3>2 DEF ChecksumRead
  <2>5. CASE rx.phase = "end" /\ EndRead(byte)
    <3>1. CASE Fail
      BY <3>1, FailKeeps
    <3>2. CASE Return(TRUE, rx.blocks - (IF rx.length > 0 THEN 1 ELSE 0))
      <4>1. rx.blocks - (IF rx.length > 0 THEN 1 ELSE 0) = 0
        BY <2>5, SizesAssumption DEF CallOK, Calls, PayloadOwned
      <4> QED
        BY <3>2, <4>1, ReturnKeeps
    <3> QED
      BY <2>5, <3>1, <3>2 DEF EndRead
  <2> QED
    BY <1>2, <2>1, <2>2, <2>3, <2>4, <2>5 DEF Store
<1> QED
  BY <1>1, <1>2

LEMMA NextPreserves == IInv /\ [Next]_vars => IInv'
<1> SUFFICES ASSUME IInv, [Next]_vars PROVE IInv'
  OBVIOUS
<1> DEFINE Results == [ok : BOOLEAN, turn : BOOLEAN]
<1>0. CallOK /\ result \in Results
  BY DEF IInv, TypeOK, CallOK
<1>1. ASSUME NEW b \in Bytes, Arrive(b) PROVE IInv'
  BY <1>1, SizesAssumption
     DEF Arrive, IInv, TypeOK, PayloadOwned, LengthAfterHeader, Size
<1>2. CASE Tick
  BY <1>2, SizesAssumption
     DEF Tick, IInv, TypeOK, PayloadOwned, LengthAfterHeader, Size
<1>3. CASE Probe
  BY <1>3, SizesAssumption
     DEF Probe, IInv, TypeOK, PayloadOwned, LengthAfterHeader, Size
<1>4. CASE Miss
  BY <1>4 DEF Miss, IInv, TypeOK, PayloadOwned, LengthAfterHeader, Size
<1>5. CASE ReadByte
  <2>1. fifo' \in Seq(Bytes) /\ Len(fifo') <= FifoSize
    <3>1. fifo \in Seq(Bytes) /\ fifo # <<>> /\ fifo' = Tail(fifo)
      BY <1>5 DEF ReadByte, IInv, TypeOK
    <3>2. Len(fifo) \in Nat /\ Len(fifo) <= FifoSize
      BY <3>1 DEF IInv, TypeOK
    <3>3. Tail(fifo) \in Seq(Bytes) /\ Len(Tail(fifo)) = Len(fifo) - 1
      BY <3>1
    <3> QED
      BY <3>1, <3>2, <3>3, SizesAssumption
  <2>2. probed' \in BOOLEAN
    BY <1>5 DEF ReadByte
  <2>4. waited' \in 0 .. Timeout
    BY <1>5, SizesAssumption DEF ReadByte
  <2>3. CallOK' /\ result' \in Results
    <3>1. CASE rx' = [rx EXCEPT !.escape = TRUE] /\ UNCHANGED result
      BY <1>0, <3>1
         DEF CallOK, Calls, Size, PayloadOwned, LengthAfterHeader
    <3>2. CASE ~(rx' = [rx EXCEPT !.escape = TRUE] /\ UNCHANGED result)
      <4>1. PICK byte : Store(byte)
        BY <1>5, <3>2 DEF ReadByte
      <4> QED
        BY <1>0, <4>1, StoreKeeps
    <3> QED
      BY <3>1, <3>2
  <2> QED
    BY <2>1, <2>2, <2>3, <2>4 DEF IInv, TypeOK, CallOK
<1>6. CASE TimedOut
  <2>1. CallOK' /\ result' \in Results
    BY <1>0, <1>6, FailKeeps DEF TimedOut
  <2>2. /\ fifo' \in Seq(Bytes) /\ Len(fifo') <= FifoSize
        /\ probed' \in BOOLEAN
        /\ waited' \in 0 .. Timeout
    BY <1>6, SizesAssumption DEF TimedOut, IInv, TypeOK
  <2> QED
    BY <2>1, <2>2 DEF IInv, TypeOK, CallOK
<1>7. CASE UNCHANGED vars
  BY <1>7 DEF vars, IInv, TypeOK, PayloadOwned, LengthAfterHeader, Size
<1> QED
  BY <1>1, <1>2, <1>3, <1>4, <1>5, <1>6, <1>7 DEF Next

\* The receiver stays within its types, above all within the part of the
\* packet it is reading, and its buffers are accounted for.
THEOREM Invariance == Spec => []IInv
BY InitEstablishes, NextPreserves, PTL DEF Spec

\* Every byte is stored within its part: index < Size is part of TypeOK.
THEOREM TypeCorrect == Spec => []TypeOK
<1>1. IInv => TypeOK
  BY DEF IInv
<1> QED
  BY <1>1, Invariance, PTL

\* No way out of packet_receive leaks or double-frees the payload.
THEOREM PayloadSafe == Spec => []PayloadOwned
<1>1. IInv => PayloadOwned
  BY DEF IInv
<1> QED
  BY <1>1, Invariance, PTL

-----------------------------------------------------------------------------
(* Progress                                                                *)

\* A call that returns is told from the one before.
LEMMA ReturnTells ==
  ASSUME result \in [ok : BOOLEAN, turn : BOOLEAN],
         NEW ok, NEW blocks, Return(ok, blocks)
  PROVE  result' # result
<1>1. result'.turn = ~result.turn
  BY DEF Return
<1>2. result.turn \in BOOLEAN
  OBVIOUS
<1> QED BY <1>1, <1>2

LEMMA PartsInOrder ==
  /\ {"space", "checksum", "end"} \subseteq Phases
  /\ Order["payload"] < Order["space"]
  /\ Order["space"] < Order["checksum"]
  /\ Order["checksum"] < Order["end"]
BY DEF Phases, Order

\* The next part is a later one.
LEMMA ProceedsFurther ==
  ASSUME rx \in Calls, NEW phase \in Phases, Order[rx.phase] < Order[phase], Proceed(phase)
  PROVE  Further(rx, rx')
BY DEF Proceed, Further, Calls

\* A complete header is followed by the payload or by the space.
LEMMA HeaderFurther ==
  ASSUME rx \in Calls, rx.phase = "header",
         result \in [ok : BOOLEAN, turn : BOOLEAN], NEW marked, HeaderRead(marked)
  PROVE  result' # result \/ Further(rx, rx')
<1>1. CASE Fail
  BY <1>1, ReturnTells DEF Fail
<1>2. ASSUME NEW phase \in {"payload", "space"}, NEW n, NEW blocks,
             Announced(phase, n, blocks)
      PROVE  Further(rx, rx')
  <2>1. rx'.phase = phase
    BY <1>2 DEF Announced, Entered
  <2> QED BY <2>1 DEF Further, Order
<1> QED BY <1>1, <1>2 DEF HeaderRead

\* A byte that is stored is one more of its part, or the last.
LEMMA StoreFurther ==
  ASSUME CallOK, result \in [ok : BOOLEAN, turn : BOOLEAN], NEW byte, Store(byte)
  PROVE  result' # result \/ Further(rx, rx')
<1> DEFINE marked == IF rx.phase = "header" /\ rx.index = 0
                     THEN byte = START_MARKER ELSE rx.marked
<1>0. rx \in Calls
  BY DEF CallOK
<1>1. CASE ~LastByte(rx)
  <2>1. rx'.index = rx.index + 1 /\ rx'.phase = rx.phase /\ rx.index \in Nat
    BY <1>0, <1>1 DEF Store, Calls
  <2> QED BY <2>1 DEF Further
<1>2. CASE LastByte(rx)
  <2>1. CASE rx.phase = "header" /\ HeaderRead(marked)
    BY <1>0, <2>1, HeaderFurther
  <2>2. CASE rx.phase = "payload" /\ Proceed("space")
    BY <1>0, <2>2, ProceedsFurther, PartsInOrder
  <2>3. CASE rx.phase = "space" /\ SpaceRead(byte)
    <3>1. CASE Fail
      BY <3>1, ReturnTells DEF Fail
    <3>2. CASE Proceed("checksum")
      BY <1>0, <2>3, <3>2, ProceedsFurther, PartsInOrder
    <3> QED BY <2>3, <3>1, <3>2 DEF SpaceRead
  <2>4. CASE rx.phase = "checksum" /\ ChecksumRead
    <3>1. CASE Fail
      BY <3>1, ReturnTells DEF Fail
    <3>2. CASE Proceed("end")
      BY <1>0, <2>4, <3>2, ProceedsFurther, PartsInOrder
    <3> QED BY <2>4, <3>1, <3>2 DEF ChecksumRead
  <2>5. CASE rx.phase = "end" /\ EndRead(byte)
    BY <2>5, ReturnTells DEF EndRead, Fail
  <2> QED
    BY <1>2, <2>1, <2>2, <2>3, <2>4, <2>5 DEF Store
<1> QED BY <1>1, <1>2

\* Every byte takes packet_receive further or ends it, and so does waiting in
\* vain: a call reads no more than twice the bytes of the longest packet a
\* header can announce, and waits for each of them no longer than Timeout.
THEOREM Advances == Spec => ReceiveAdvances
<1>1. ASSUME IInv, ReadByte PROVE result' # result \/ Further(rx, rx')
  <2>0. CallOK /\ result \in [ok : BOOLEAN, turn : BOOLEAN]
    BY <1>1 DEF IInv, TypeOK, CallOK
  <2>1. CASE ~rx.escape /\ rx' = [rx EXCEPT !.escape = TRUE]
    BY <2>0, <2>1 DEF CallOK, Calls, Further
  <2>2. CASE ~(~rx.escape /\ rx' = [rx EXCEPT !.escape = TRUE])
    <3>1. PICK byte : Store(byte)
      BY <1>1, <2>2 DEF ReadByte
    <3> QED BY <2>0, <3>1, StoreFurther
  <2> QED BY <2>1, <2>2
<1>2. ASSUME IInv, TimedOut PROVE result' # result
  BY <1>2, ReturnTells DEF IInv, TypeOK, TimedOut, Fail
<1> QED BY <1>1, <1>2, Invariance, PTL DEF ReceiveAdvances
=============================================================================
