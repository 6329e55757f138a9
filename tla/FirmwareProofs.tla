--------------------------- MODULE FirmwareProofs ---------------------------
(***************************************************************************)
(* The firmware's main loop, for every number of sequence numbers, every   *)
(* size of the heap and every answer of the drivers: where its states are, *)
(* and that on the wire it is a fail-stop session.                         *)
(*                                                                         *)
(* The session is open in the protocol before its ACK is sent, and the     *)
(* machine is what keeps the loop from going on when the ACK is not.  So   *)
(* the refinement needs to know that a failure takes the machine to ERROR, *)
(* which is so because it is met in IDLE, and that nothing in the loop     *)
(* leads out of ERROR.                                                     *)
(***************************************************************************)
EXTENDS Firmware, StateTransitionsProofs

IInv ==
  /\ TypeOK
  /\ LoopSeesIdleOrError

-----------------------------------------------------------------------------
(* Lemmas about the operators of Protocol and Firmware                     *)

\* The successor of a sequence number is one.
LEMMA SuccType ==
  ASSUME NEW s \in SeqNums
  PROVE  Succ(s) \in SeqNums
  BY SeqModAssumption DEF SeqNums, Succ

\* The first number a session takes is 1.
LEMMA FirstNumber == Succ(0) = 1
  BY SeqModAssumption DEF Succ

\* Whatever a handler returns, the protocol keeps to its type.
LEMMA HandledType ==
  ASSUME NEW q \in ProtocolStates, NEW packet \in Packets, NEW ok \in BOOLEAN
  PROVE  /\ Handled(q, packet, ok) \in ProtocolStates
         /\ Handled(q, packet, ok).sequence
              = IF ok THEN packet.seq
                ELSE IF packet.type = "SYNC" THEN 0 ELSE q.sequence
         /\ Handled(q, packet, ok).synced = (q.synced \/ packet.type = "SYNC")
<1>1. packet.seq \in SeqNums /\ 0 \in SeqNums
  BY SeqModAssumption DEF Packets, SeqNums
<1>2. q.sequence \in SeqNums /\ q.synced \in BOOLEAN
  BY DEF ProtocolStates
<1>3. (q.synced \/ packet.type = "SYNC") \in BOOLEAN
  OBVIOUS
<1>4. (IF ok THEN packet.seq
       ELSE IF packet.type = "SYNC" THEN 0 ELSE q.sequence) \in SeqNums
  BY <1>1, <1>2
<1> QED BY <1>3, <1>4, Zenon DEF Handled, ProtocolStates

\* A failure that is met in IDLE moves the machine to ERROR.
LEMMA FailureLeadsToError ==
  ASSUME NEW m \in Machines, m.current = "IDLE"
  PROVE  /\ Step(m, "ERROR", "ERROR") \in Machines
         /\ Step(m, "ERROR", "ERROR").current = "ERROR"
<1>1. ValidTransition(m, "ERROR", "ERROR")
  BY DEF ValidTransition, FixedTransitions
<1> QED BY <1>1, MoveFields DEF Step, States, Conditions

\* A packet is received in IDLE, the only state the loop polls in and reaches.
LEMMA ReceivedInIdle ==
  ASSUME IInv, NEW packet \in Packets, Receives(packet)
  PROVE  /\ alive
         /\ machine.current = "IDLE"
         /\ heap + Blocks(packet) \in 0 .. HeapBlocks
         /\ Blocks(packet) \in {0, 1}
<1>1. Blocks(packet) \in {0, 1}
  BY DEF Blocks
<1>2. alive /\ machine.current = "IDLE"
  BY DEF IInv, LoopSeesIdleOrError, Receives
<1> QED BY <1>1, <1>2, HeapAssumption DEF IInv, TypeOK, Receives

\* What main makes of the handler's result.
LEMMA AfterFields ==
  ASSUME IInv, machine.current = "IDLE", NEW ok \in BOOLEAN
  PROVE  /\ After(ok) \in Machines
         /\ After(ok).current = IF ok THEN "IDLE" ELSE "ERROR"
  BY FailureLeadsToError DEF After, IInv, TypeOK

-----------------------------------------------------------------------------
(* The invariant                                                           *)

\* The loop is entered in IDLE or ERROR, or not at all.
LEMMA InitIInv == Init => IInv
<1> SUFFICES ASSUME Init PROVE IInv
  OBVIOUS
<1>1. /\ protocol \in ProtocolStates
      /\ heap \in 0 .. HeapBlocks
      /\ acked \in Acks \cup {NoAck}
      /\ beat \in BOOLEAN
  <2>1. Unsynced \in ProtocolStates
    BY SeqModAssumption DEF Unsynced, ProtocolStates, SeqNums
  <2>2. 0 \in 0 .. HeapBlocks
    BY HeapAssumption
  <2> QED BY <2>1, <2>2, Zenon DEF Init
<1>2. alive \in BOOLEAN
  BY DEF Init
<1>3. PICK hw \in HardwareAnswers, disp \in DisplayAnswers :
        machine = IF alive THEN Boot({"hardware"}, hw, disp) ELSE PowerOn({})
  BY DEF Init
<1>4. CASE alive
  <2>1. machine = Boot({"hardware"}, hw, disp)
    BY <1>3, <1>4
  <2>2. Settled(machine, FALSE) /\ machine.current # "SYNCING"
    BY <2>1, BootSettles, AnswersAssumption
  <2> QED BY <1>1, <1>2, <2>2
          DEF IInv, TypeOK, LoopSeesIdleOrError, Settled
<1>5. CASE ~alive
  <2>1. machine \in Machines
    BY <1>3, <1>5 DEF PowerOn, Machines, States, Conditions, Drivers
  <2> QED BY <1>1, <1>2, <1>5, <2>1 DEF IInv, TypeOK, LoopSeesIdleOrError
<1> QED BY <1>2, <1>4, <1>5

\* Every step of the loop preserves the invariant.
LEMMA NextIInv == IInv /\ [Next]_vars => IInv'
<1> SUFFICES ASSUME IInv, [Next]_vars PROVE IInv'
  OBVIOUS
<1>1. CASE UNCHANGED vars
  BY <1>1 DEF vars, IInv, TypeOK, LoopSeesIdleOrError
<1>2. ASSUME NEW packet \in Packets, NEW faults \in BOOLEAN,
             Reject(packet, faults)
      PROVE  IInv'
  <2>1. /\ machine.current = "IDLE"
        /\ heap' \in 0 .. HeapBlocks
    BY <1>2, ReceivedInIdle DEF Reject
  <2>2. CASE faults
    BY <1>2, <2>1, <2>2 DEF Reject, IInv, TypeOK, LoopSeesIdleOrError
  <2>3. CASE ~faults
    <3>1. machine' \in Machines /\ machine'.current = "ERROR"
      BY <1>2, <2>1, <2>3, AfterFields DEF Reject
    <3> QED BY <1>2, <2>1, <2>3, <3>1
            DEF Reject, IInv, TypeOK, LoopSeesIdleOrError
  <2> QED BY <2>2, <2>3
<1>3. ASSUME NEW packet \in Packets, NEW sent \in BOOLEAN,
             HandleRequest(packet, sent)
      PROVE  IInv'
  <2> DEFINE used == heap + Blocks(packet)
             ok   == used < HeapBlocks /\ sent
  <2>1. /\ heap' = IF used < HeapBlocks THEN used + 1 ELSE used
        /\ acked' = IF ok THEN [type |-> packet.type, seq |-> packet.seq]
                          ELSE acked
        /\ protocol' = Handled(protocol, packet, ok)
        /\ machine' = After(ok)
        /\ UNCHANGED <<beat, alive>>
    BY <1>3 DEF HandleRequest
  <2>2. ok \in BOOLEAN
    OBVIOUS
  <2>3. machine.current = "IDLE" /\ used \in 0 .. HeapBlocks
    BY <1>3, ReceivedInIdle DEF HandleRequest
  <2>4. heap' \in 0 .. HeapBlocks
    BY <2>1, <2>3, HeapAssumption
  <2>5. acked' \in Acks \cup {NoAck}
    <3>1. [type |-> packet.type, seq |-> packet.seq] \in Acks
      BY <1>3 DEF HandleRequest, Answered, Packets, Acks
    <3> QED BY <2>1, <3>1 DEF IInv, TypeOK
  <2> HIDE DEF ok, used
  <2>6. protocol' \in ProtocolStates
    BY <2>1, <2>2, HandledType DEF IInv, TypeOK
  <2>7. machine' \in Machines /\ machine'.current \in {"IDLE", "ERROR"}
    BY <2>1, <2>2, <2>3, AfterFields
  <2> QED BY <2>1, <2>4, <2>5, <2>6, <2>7 DEF IInv, TypeOK, LoopSeesIdleOrError
<1>4. ASSUME NEW packet \in Packets, HandleErrorPacket(packet)
      PROVE  IInv'
  <2>1. heap' \in 0 .. HeapBlocks
    BY <1>4, ReceivedInIdle DEF HandleErrorPacket
  <2>2. protocol' \in ProtocolStates
    BY <1>4, HandledType DEF HandleErrorPacket, IInv, TypeOK
  <2> QED BY <1>4, <2>1, <2>2
          DEF HandleErrorPacket, IInv, TypeOK, LoopSeesIdleOrError
<1>5. CASE HandleErrorState
  <2>1. machine' = machine
    BY <1>5 DEF HandleErrorState, HandleError
  <2> QED BY <1>5, <2>1 DEF HandleErrorState, IInv, TypeOK, LoopSeesIdleOrError
<1>6. ASSUME NEW sent \in BOOLEAN, Heartbeat(sent)
      PROVE  IInv'
  <2>1. heap' \in 0 .. HeapBlocks
    BY <1>6, HeapAssumption DEF Heartbeat, IInv, TypeOK
  <2>2. beat' \in BOOLEAN
    BY <1>6 DEF Heartbeat
  <2> QED BY <1>6, <2>1, <2>2 DEF Heartbeat, IInv, TypeOK, LoopSeesIdleOrError
<1>7. CASE Panic
  BY <1>7 DEF Panic, IInv, TypeOK, LoopSeesIdleOrError
<1> QED BY <1>1, <1>2, <1>3, <1>4, <1>5, <1>6, <1>7 DEF Next

\* The strengthened invariant holds throughout.
THEOREM Invariance == Spec => []IInv
  BY InitIInv, NextIInv, PTL DEF Spec

-----------------------------------------------------------------------------
(* The properties the run checks                                           *)

\* Every variable of the loop keeps to its type; in particular the number of
\* blocks in use never exceeds the heap.
THEOREM TypeCorrect == Spec => []TypeOK
<1>1. IInv => TypeOK
  BY DEF IInv
<1> QED BY <1>1, Invariance, PTL

\* The loop of a running device finds the machine in IDLE or in ERROR: the
\* other cases of main's switch are dead code.
THEOREM DeadCases == Spec => []LoopSeesIdleOrError
<1>1. IInv => LoopSeesIdleOrError
  BY DEF IInv
<1> QED BY <1>1, Invariance, PTL

\* A device whose heap is used up answers nothing any more, and sends no
\* heartbeat.
THEOREM Exhaustion == Spec => SilentWhenExhausted
<1>1. ASSUME IInv, [Next]_vars, heap = HeapBlocks
      PROVE  heap' = HeapBlocks /\ acked' = acked /\ beat' = beat
  <2>1. CASE UNCHANGED vars
    BY <1>1, <2>1 DEF vars
  <2>2. ASSUME NEW packet \in Packets, NEW faults \in BOOLEAN,
               Reject(packet, faults)
        PROVE  heap' = HeapBlocks /\ acked' = acked /\ beat' = beat
    BY <1>1, <2>2, ReceivedInIdle, HeapAssumption DEF Reject
  <2>3. ASSUME NEW packet \in Packets, NEW sent \in BOOLEAN,
               HandleRequest(packet, sent)
        PROVE  heap' = HeapBlocks /\ acked' = acked /\ beat' = beat
    <3>1. heap + Blocks(packet) = HeapBlocks
      BY <1>1, <2>3, ReceivedInIdle, HeapAssumption DEF HandleRequest
    <3> QED BY <2>3, <3>1, HeapAssumption DEF HandleRequest
  <2>4. ASSUME NEW packet \in Packets, HandleErrorPacket(packet)
        PROVE  heap' = HeapBlocks /\ acked' = acked /\ beat' = beat
    BY <1>1, <2>4, ReceivedInIdle, HeapAssumption DEF HandleErrorPacket
  <2>5. CASE HandleErrorState
    BY <1>1, <2>5 DEF HandleErrorState
  <2>6. ASSUME NEW sent \in BOOLEAN, Heartbeat(sent)
        PROVE  heap' = HeapBlocks /\ acked' = acked /\ beat' = beat
    BY <1>1, <2>6, HeapAssumption DEF Heartbeat
  <2>7. CASE Panic
    BY <1>1, <2>7 DEF Panic
  <2> QED BY <1>1, <2>1, <2>2, <2>3, <2>4, <2>5, <2>6, <2>7 DEF Next
<1>2. IInv /\ [Next]_vars
        => [heap = HeapBlocks => heap' = HeapBlocks /\ acked' = acked /\ beat' = beat]_vars
  BY <1>1
<1> QED BY <1>2, Invariance, PTL DEF Spec, SilentWhenExhausted

\* What the run error_absorbing finds is so of every device: whatever arrives,
\* a machine that is in ERROR at the top of the loop stays as it is, retry
\* count included, and the host gets no answer.
THEOREM ErrorIsForever ==
  Spec => [][machine.current = "ERROR" => machine' = machine /\ acked' = acked]_vars
<1>1. ASSUME IInv, [Next]_vars, machine.current = "ERROR"
      PROVE  machine' = machine /\ acked' = acked
  <2>1. \A packet \in Packets : ~Receives(packet)
    BY <1>1, ReceivedInIdle
  <2>2. CASE HandleErrorState
    BY <1>1, <2>2 DEF HandleErrorState, HandleError
  <2>3. CASE (\E sent \in BOOLEAN : Heartbeat(sent)) \/ Panic \/ UNCHANGED vars
    BY <2>3 DEF Heartbeat, Panic, vars
  <2> QED BY <1>1, <2>1, <2>2, <2>3 DEF Next, Reject, HandleRequest, HandleErrorPacket
<1> QED BY <1>1, Invariance, PTL DEF Spec

-----------------------------------------------------------------------------
(* The refinement                                                          *)

\* The loop is entered with no session, or failed.
LEMMA InitRefined == Init => Session!Init
<1> SUFFICES ASSUME Init PROVE Session!Init
  OBVIOUS
<1>1. protocol.sequence = 0 /\ ~protocol.synced /\ acked = NoAck
  BY DEF Init, Unsynced
<1>2. Phase \in {"closed", "failed"}
  BY <1>1 DEF Phase
<1> QED BY <1>1, <1>2, FirstNumber DEF Session!Init, Session!NoAck, NoAck

\* A step that leaves the device failed and answers nothing is Fail.
LEMMA FailRefined ==
  ASSUME IInv', acked' = acked,
         ~alive' \/ machine'.current = "ERROR"
  PROVE  Session!Fail
<1>1. Phase' = "failed"
  BY DEF Phase
<1>2. Succ(protocol.sequence)' \in SeqNums
  BY SuccType DEF IInv, TypeOK, ProtocolStates
<1> QED BY <1>1, <1>2 DEF Session!Fail, Session!SeqNums, SeqNums

\* Every step of the loop is a step of the session, or leaves it alone.
LEMMA NextRefined == IInv /\ IInv' /\ [Next]_vars => [Session!Next]_(Session!vars)
<1> SUFFICES ASSUME IInv, IInv', [Next]_vars
             PROVE  [Session!Next]_(Session!vars)
  OBVIOUS
<1>1. CASE UNCHANGED vars
  BY <1>1 DEF vars, Session!vars, Phase
<1>2. ASSUME NEW packet \in Packets, NEW faults \in BOOLEAN,
             Reject(packet, faults)
      PROVE  Session!Next
  <2>1. ~alive' \/ machine'.current = "ERROR"
    BY <1>2, ReceivedInIdle, AfterFields DEF Reject
  <2> QED BY <1>2, <2>1, FailRefined DEF Reject, Session!Next
<1>3. ASSUME NEW packet \in Packets, NEW sent \in BOOLEAN,
             HandleRequest(packet, sent)
      PROVE  Session!Next
  <2> DEFINE ok == heap + Blocks(packet) < HeapBlocks /\ sent
  <2>1. /\ acked' = IF ok THEN [type |-> packet.type, seq |-> packet.seq]
                          ELSE acked
        /\ protocol' = Handled(protocol, packet, ok)
        /\ machine' = After(ok)
        /\ alive' = alive
    BY <1>3 DEF HandleRequest
  <2>2. ok \in BOOLEAN
    OBVIOUS
  <2> HIDE DEF ok
  <2>3. alive /\ machine.current = "IDLE"
    BY <1>3, ReceivedInIdle DEF HandleRequest
  <2>4. CASE ~ok
    <3>1. machine'.current = "ERROR"
      BY <2>1, <2>2, <2>3, <2>4, AfterFields
    <3> QED BY <2>1, <2>4, <3>1, FailRefined DEF Session!Next
  <2>5. CASE ok
    <3>1. machine'.current = "IDLE"
      BY <2>1, <2>2, <2>3, <2>5, AfterFields
    <3>2. /\ protocol'.sequence = packet.seq
          /\ protocol'.synced = (protocol.synced \/ packet.type = "SYNC")
      BY <2>1, <2>2, <2>5, HandledType DEF IInv, TypeOK
    <3>3. acked' = [type |-> packet.type, seq |-> packet.seq]
      BY <2>1, <2>5
    <3>4. packet.seq \in SeqNums
      BY DEF Packets
    <3>5. CASE packet.type = "SYNC"
      <4>1. Phase # "failed" /\ Phase' = "open"
        BY <2>1, <2>3, <3>1, <3>2, <3>5 DEF Phase
      <4>2. Succ(protocol.sequence)' = Session!Succ(packet.seq)
        BY <3>2 DEF Succ, Session!Succ
      <4>3. Session!Open(packet.seq)
        BY <3>3, <3>5, <4>1, <4>2 DEF Session!Open
      <4> QED BY <3>4, <4>3 DEF Session!Next, Session!SeqNums, SeqNums
    <3>6. CASE packet.type # "SYNC"
      <4>1. /\ packet.type \in {"COMMAND", "DATA"}
            /\ protocol.synced
            /\ packet.seq = Succ(protocol.sequence)
        BY <1>3, <3>6 DEF HandleRequest, Answered, Rejected, Valid
      <4>2. Phase = "open" /\ Phase' = "open"
        BY <2>1, <2>3, <3>1, <3>2, <4>1 DEF Phase
      <4>3. Succ(protocol.sequence)' = Session!Succ(Succ(protocol.sequence))
        BY <3>2, <4>1 DEF Succ, Session!Succ
      <4>4. Session!Answer(packet.type)
        BY <3>3, <4>1, <4>2, <4>3 DEF Session!Answer
      <4> QED BY <4>1, <4>4 DEF Session!Next
    <3> QED BY <3>5, <3>6
  <2> QED BY <2>4, <2>5
<1>4. ASSUME NEW packet \in Packets, HandleErrorPacket(packet)
      PROVE  Session!Next
  <2>1. alive /\ machine.current = "IDLE"
    BY <1>4, ReceivedInIdle DEF HandleErrorPacket
  <2>2. packet.type = "ERROR" /\ packet.seq = Succ(protocol.sequence)
    BY <1>4 DEF HandleErrorPacket, Rejected, Valid
  <2>3. /\ protocol'.sequence = packet.seq
        /\ protocol'.synced = (protocol.synced \/ packet.type = "SYNC")
    BY <1>4, HandledType DEF HandleErrorPacket, IInv, TypeOK
  <2>4. protocol'.synced = protocol.synced
    BY <2>2, <2>3 DEF IInv, TypeOK, ProtocolStates
  <2>5. Phase # "failed" /\ Phase' = Phase
    BY <1>4, <2>1, <2>4 DEF HandleErrorPacket, Phase
  <2>6. Succ(protocol.sequence)' = Session!Succ(Succ(protocol.sequence))
    BY <2>2, <2>3 DEF Succ, Session!Succ
  <2>7. Session!Note
    BY <1>4, <2>5, <2>6 DEF HandleErrorPacket, Session!Note
  <2> QED BY <2>7 DEF Session!Next
<1>5. CASE HandleErrorState
  <2>1. machine' = machine
    BY <1>5 DEF HandleErrorState, HandleError
  <2> QED BY <1>5, <2>1 DEF HandleErrorState, Session!vars, Phase
<1>6. ASSUME NEW sent \in BOOLEAN, Heartbeat(sent)
      PROVE  UNCHANGED Session!vars
  BY <1>6 DEF Heartbeat, Session!vars, Phase
<1>7. CASE Panic
  BY <1>7, FailRefined DEF Panic, Session!Next
<1> QED BY <1>1, <1>2, <1>3, <1>4, <1>5, <1>6, <1>7 DEF Next

\* The firmware implements the fail-stop session: whatever packets arrive and
\* whatever fails, no request is answered before a SYNC was, none twice, none
\* out of order and none after a failure.
THEOREM Refinement == Spec => SessionSpec
  BY InitRefined, NextRefined, Invariance, PTL
     DEF Spec, SessionSpec, Session!Spec
=============================================================================
