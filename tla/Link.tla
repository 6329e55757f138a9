-------------------------------- MODULE Link --------------------------------
(***************************************************************************)
(* The host program and the device, joined by a line: processes of the     *)
(* host, one after the other, against a device that keeps its session from *)
(* one to the next.                                                        *)
(*                                                                         *)
(* The device is the fail-stop session that Firmware implements, with the  *)
(* answers of protocol.c; it may fail at any moment, for any of the        *)
(* reasons Firmware has, and it sends packets nobody asked for: heartbeats *)
(* and log records.  Packets arrive in order, if they arrive, and late.    *)
(* The host does not wait: serial.zig opens the port without blocking, so  *)
(* reading an answer that has not arrived yet fails at once.  For the same *)
(* reason a process may find packets under way that were sent by, or to, a *)
(* process that has ended: clearing the input drops what has arrived, and  *)
(* nothing clears the other direction.                                     *)
(*                                                                         *)
(* Both ends are taken to frame packets alike, which they do not (README). *)
(***************************************************************************)
EXTENDS Host

CONSTANTS
  Capacity,      \* packets on their way in one direction
  SyncReplies    \* the type of the device's answer to a SYNC (ACK in the code)

ASSUME LinkAssumption == /\ Capacity \in Nat \ {0}
                         /\ SyncReplies \subseteq {"ACK", "SYNC_ACK"}

VARIABLES
  host,       \* the process that runs, or the last one
  toDevice,   \* requests on their way
  toHost,     \* answers and debug packets on their way
  phase, next, acked,   \* the device, as in FailStopSession
  reply,      \* how this device answers a SYNC
  taken,      \* history: requests of this process the device has answered
  misled      \* history: this process took an answer to another for its own

vars == <<host, toDevice, toHost, phase, next, acked, reply, taken, misled>>

Device == INSTANCE FailStopSession

\* A packet remembers which request of the present process it is, or answers;
\* it is 0 for a process that has ended.  Neither side looks at it.
Positions == 0 .. Chunks + 3

Requests == [kind : {"SYNC", "COMMAND", "DATA"}, number : Numbers, pos : Positions]

Answers == [type : {"ACK", "SYNC_ACK", "DEBUG"}, pos : Positions]

TypeOK ==
  /\ host \in [op : Operations, state : HostStates, sequence : Numbers,
               retries : 0 .. MaxTries, pos : Positions \ {0}, number : Numbers,
               try : 0 .. MaxTries, step : Steps, outcome : Outcomes]
  /\ toDevice \in Seq(Requests) /\ Len(toDevice) <= Capacity
  /\ toHost \in Seq(Answers) /\ Len(toHost) <= Capacity
  /\ phase \in {"closed", "open", "failed"}
  /\ next \in Numbers
  /\ acked \in [type : {"none", "SYNC", "COMMAND", "DATA"}, seq : Numbers]
  /\ reply \in SyncReplies
  /\ taken \in Positions
  /\ misled \in BOOLEAN

device == <<phase, next, acked>>

\* The requests of the present process that it holds for carried out.
completed == IF host.outcome = "done" THEN host.pos ELSE host.pos - 1

Init ==
  /\ \E op \in Operations : host = Start(op)
  /\ toDevice = <<>>
  /\ toHost = <<>>
  /\ Device!Init
  /\ reply \in SyncReplies
  /\ taken = 0
  /\ misled = FALSE

-----------------------------------------------------------------------------
(* The host                                                                *)

\* A packet of a process that has ended.
Orphaned(channel) == [i \in DOMAIN channel |-> [channel[i] EXCEPT !.pos = 0]]

\* Another process starts, with all that is on the line.
StartProcess(op) ==
  /\ host.step = "end"
  /\ host' = Start(op)
  /\ toHost' = Orphaned(toHost)
  /\ toDevice' = Orphaned(toDevice)
  /\ taken' = 0
  /\ misled' = FALSE
  /\ UNCHANGED <<device, reply>>

\* A read of clearInput returns something, which is dropped.  The loop is
\* endless: it reads again.
ClearInput ==
  /\ host.step = "clear"
  /\ toHost # <<>>
  /\ toHost' = Tail(toHost)
  /\ UNCHANGED <<host, toDevice, device, reply, taken, misled>>

\* It returns nothing, because nothing is there or nothing has arrived yet.
InputCleared ==
  /\ host.step = "clear"
  /\ host' = Cleared(host)
  /\ UNCHANGED <<toDevice, toHost, device, reply, taken, misled>>

\* sendPacket, of a new packet or again of the same one
Send ==
  /\ host.step = "send"
  /\ Len(toDevice) < Capacity
  /\ toDevice' = Append(toDevice, [kind |-> Request(host.op, host.pos),
                                   number |-> host.number, pos |-> host.pos])
  /\ host' = [host EXCEPT !.step = "receive"]
  /\ UNCHANGED <<toHost, device, reply, taken, misled>>

\* The port takes no byte, which write reports as a success.
SendNothing ==
  /\ host.step = "send"
  /\ host' = [host EXCEPT !.step = "receive"]
  /\ UNCHANGED <<toDevice, toHost, device, reply, taken, misled>>

\* receivePacket finds a packet.
ReceiveAnswer ==
  /\ host.step = "receive"
  /\ toHost # <<>>
  /\ host' = Answered(host, Head(toHost).type)
  /\ toHost' = Tail(toHost)
  /\ misled' = (misled \/ (Head(toHost).pos = 0 /\ completed' # completed))
  /\ UNCHANGED <<toDevice, device, reply, taken>>

\* receivePacket finds nothing, or nothing yet.
ReceiveNothing ==
  /\ host.step = "receive"
  /\ host' = Answered(host, "nothing")
  /\ UNCHANGED <<toDevice, toHost, device, reply, taken, misled>>

DecodeImage(ok) ==
  /\ host.step = "image"
  /\ host' = Decoded(host, ok)
  /\ UNCHANGED <<toDevice, toHost, device, reply, taken, misled>>

\* The process is stopped, or a call of the port returns an error.
Break(outcome) ==
  /\ host.step # "end"
  /\ outcome = "ReadError" => host.step = "clear"
  /\ outcome = "WriteError" => host.step = "send"
  /\ host' = End(host, outcome)
  /\ UNCHANGED <<toDevice, toHost, device, reply, taken, misled>>

HostStep ==
  \/ ClearInput \/ InputCleared
  \/ Send \/ SendNothing \/ ReceiveAnswer \/ ReceiveNothing
  \/ \E ok \in BOOLEAN : DecodeImage(ok)

-----------------------------------------------------------------------------
(* The device                                                              *)

\* The main loop polls until it is in ERROR.
Polls == phase # "failed" /\ toDevice # <<>>

\* The ACK of a request, and the note that it was taken.
Answer(request, type) ==
  /\ Len(toHost) < Capacity
  /\ toHost' = Append(toHost, [type |-> type, pos |-> request.pos])
  /\ taken' = IF request.pos = 0 THEN taken ELSE request.pos

\* handle_sync_packet
TakeSync ==
  /\ Polls
  /\ LET request == Head(toDevice)
     IN  /\ request.kind = "SYNC"
         /\ Device!Open(request.number)
         /\ Answer(request, reply)
  /\ toDevice' = Tail(toDevice)
  /\ UNCHANGED <<host, reply, misled>>

\* Mutant: the number of the last request is accepted once more.
ExpectedOrLast(request) ==
  phase = "open" /\ request.number \in {next, acked.seq}

\* Mutant: the number is not looked at.
NumberIgnored(request) == phase = "open"

\* protocol_validate_packet, for a COMMAND or DATA packet
Expected(request) == phase = "open" /\ request.number = next

\* handle_command_packet and handle_data_packet
TakeRequest ==
  /\ Polls
  /\ LET request == Head(toDevice)
     IN  /\ request.kind # "SYNC"
         /\ Expected(request)
         /\ phase' = phase
         /\ next' = NextNumber(request.number)
         /\ acked' = [type |-> request.kind, seq |-> request.number]
         /\ Answer(request, "ACK")
  /\ toDevice' = Tail(toDevice)
  /\ UNCHANGED <<host, reply, misled>>

\* A packet that is rejected fails the device.
RejectRequest ==
  /\ Polls
  /\ Head(toDevice).kind # "SYNC"
  /\ ~Expected(Head(toDevice))
  /\ Device!Fail
  /\ toDevice' = Tail(toDevice)
  /\ UNCHANGED <<host, toHost, reply, taken, misled>>

\* A request is damaged on the way: packet_receive drops it.
LoseRequest ==
  /\ Polls
  /\ toDevice' = Tail(toDevice)
  /\ UNCHANGED <<host, toHost, device, reply, taken, misled>>

\* The device fails for a reason of its own.
Fail ==
  /\ phase # "failed"
  /\ Device!Fail
  /\ UNCHANGED <<host, toDevice, toHost, reply, taken, misled>>

\* A heartbeat or a log record.
SendDebug ==
  /\ Len(toHost) < Capacity
  /\ toHost' = Append(toHost, [type |-> "DEBUG", pos |-> 0])
  /\ UNCHANGED <<host, toDevice, device, reply, taken, misled>>

\* An answer is damaged on the way: receivePacket reads it in vain.
LoseAnswer ==
  /\ toHost # <<>>
  /\ toHost' = Tail(toHost)
  /\ UNCHANGED <<host, toDevice, device, reply, taken, misled>>

Next ==
  \/ \E op \in Operations : StartProcess(op)
  \/ HostStep
  \/ \E outcome \in {"ReadError", "WriteError", "killed"} : Break(outcome)
  \/ TakeSync \/ TakeRequest \/ RejectRequest \/ LoseRequest
  \/ Fail \/ SendDebug \/ LoseAnswer

Spec == Init /\ [][Next]_vars

\* The host's process runs.  Nothing is assumed of the line, the device or
\* the user.
FairSpec == Spec /\ WF_vars(HostStep)

-----------------------------------------------------------------------------
(* Properties                                                              *)

\* What the host holds for carried out the device has taken: answers are not
\* matched with requests, but a request sent twice fails a device that took
\* it the first time, so no second ACK of one request is ever read as the
\* ACK of the next.  Only an answer that outlives the process it was meant
\* for can mislead the host, and then nothing holds.
CompletedMeansTaken == ~misled => completed <= taken

\* The device takes the requests of a process that was not misled one after
\* the other, none twice and none left out, however often they were sent and
\* whatever is left of others on the line; only a SYNC is taken again, and
\* not after anything else.
TakenInOrder ==
  [][~misled =>
       /\ TakeRequest => Head(toDevice).pos \in {0, taken + 1}
       /\ TakeSync => Head(toDevice).pos = 0 \/ taken <= 1]_vars

\* No request but a SYNC is ever taken a second time, also for a process that
\* was misled: a repetition has the number the device has just used up.
TakenOnce ==
  [][TakeRequest => Head(toDevice).pos = 0 \/ Head(toDevice).pos > taken]_vars

\* Host and device together implement Delivery: the host goes on only after
\* the device took the request in hand, and the device takes nothing ahead.
\* An answer to a process that ended can be mistaken for one's own only at
\* the SYNC.
Deliveries == INSTANCE Delivery WITH done <- completed

Delivered == Deliveries!Spec

\* The only way into error_state is to use the tries up, and using them up
\* leads there: state.zig refuses no transition transfer.zig asks for, and
\* its own count of retries, which sync and sendData share, never ends an
\* operation before the loop does.
ErrorStateExplained ==
  /\ host.outcome \notin {"InvalidTransition", "InvalidState", "RetriesExceeded"}
  /\ host.state = "error_state" <=> host.outcome \in {"SyncFailed", "TransferFailed"}

\* Whatever arrives, and if nothing does, an operation returns once its input
\* is cleared; and clearing it ends unless the device never stops sending.
OperationEnds ==
  /\ host.step \in {"send", "receive", "image"} ~> host.step = "end"
  /\ (host.step = "clear" ~> host.step # "clear") \/ []<><<SendDebug>>_vars

\* The steps a process can still make: every request is tried MaxTries times,
\* which is a step to send it and one to look for its answer, and decoding the
\* image is a step of its own.
StepsLeft(h) ==
  IF h.step = "end" THEN 0
  ELSE (Length(h.op) - h.pos) * (2 * MaxTries + 1)
         + CASE h.step \in {"clear", "image"} -> 2 * MaxTries + 1
             [] h.step = "send"    -> 2 * (MaxTries - h.try)
             [] h.step = "receive" -> 2 * (MaxTries - h.try) - 1

\* Every step of an operation leaves it fewer steps to make, whatever arrives:
\* two counts, in transfer.zig and state.zig, bound the tries of a request,
\* one of them is reset on the way, and neither lets a try be made for
\* nothing.  Only a read of clearInput is not counted; it shortens what is on
\* the line.  OperationEnds rests on this and on the process being run.
OperationBounded ==
  [][HostStep =>
       \/ StepsLeft(host') \in 0 .. StepsLeft(host) - 1
       \/ host.step = "clear" /\ host' = host /\ Len(toHost') < Len(toHost)]_vars

-----------------------------------------------------------------------------
(* What the documentation says and the code does not do                    *)

\* The exchange of docs/host.md, "TX: SYNC", "RX: SYNC_ACK": an answer to its
\* SYNC that the host reads ends the synchronization.
AnswerEndsSync ==
  [][ReceiveAnswer /\ host.pos = 1 /\ Head(toHost).pos = 1
       => host'.state = "ready" \/ host'.pos = 2]_vars
=============================================================================
