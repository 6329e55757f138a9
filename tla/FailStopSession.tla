-------------------------- MODULE FailStopSession ---------------------------
(***************************************************************************)
(* What the device promises on the wire, whatever packets arrive: a        *)
(* session is opened by a SYNC, its requests are answered one by one in    *)
(* the order of their sequence numbers, each at most once, and after the   *)
(* first failure nothing is answered any more.                             *)
(***************************************************************************)
EXTENDS Naturals

CONSTANT SeqMod    \* number of sequence numbers, at least two

VARIABLES
  phase,   \* no session yet, a session, or a device that has failed
  next,    \* the only sequence number that can be taken next
  acked    \* the last acknowledgement sent, or NoAck

vars == <<phase, next, acked>>

SeqNums == 0 .. SeqMod - 1

\* The successor of a sequence number, which is an unsigned counter.
Succ(s) == IF s = SeqMod - 1 THEN 0 ELSE s + 1

NoAck == [type |-> "none", seq |-> 0]

\* The device may have failed while it booted.
Init ==
  /\ phase \in {"closed", "failed"}
  /\ next = 1
  /\ acked = NoAck

\* A SYNC of any number opens a session, or opens it anew.
Open(s) ==
  /\ phase # "failed"
  /\ phase' = "open"
  /\ next' = Succ(s)
  /\ acked' = [type |-> "SYNC", seq |-> s]

\* The next request of the session is answered.
Answer(type) ==
  /\ phase = "open"
  /\ next' = Succ(next)
  /\ acked' = [type |-> type, seq |-> next]
  /\ UNCHANGED phase

\* An error report of the host uses a number up and gets no answer.
Note ==
  /\ phase # "failed"
  /\ next' = Succ(next)
  /\ UNCHANGED <<phase, acked>>

Fail ==
  /\ phase' = "failed"
  /\ next' \in SeqNums
  /\ UNCHANGED acked

Next ==
  \/ \E s \in SeqNums : Open(s)
  \/ \E type \in {"COMMAND", "DATA"} : Answer(type)
  \/ Note
  \/ Fail

Spec == Init /\ [][Next]_vars
=============================================================================
