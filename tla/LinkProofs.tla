----------------------------- MODULE LinkProofs -----------------------------
(***************************************************************************)
(* Link is proved to implement Delivery for every number of tries, chunks  *)
(* and sequence numbers and every capacity of the line, whatever packets   *)
(* of ended processes a process finds on its way, up to the moment at      *)
(* which it takes an answer among them for that to its SYNC (misled).  The *)
(* first half is about the host alone: what each operator of Host makes of *)
(* a process.                                                              *)
(***************************************************************************)
EXTENDS Link, TLAPS

Process ==
  [op : Operations, state : HostStates, sequence : Numbers, retries : 0 .. MaxTries,
   pos : Positions \ {0}, number : Numbers, try : 0 .. MaxTries, step : Steps,
   outcome : Outcomes]

Failures == {"InvalidTransition", "InvalidState", "RetriesExceeded"}

\* The state of a process that waits for the answer to a request.
Waiting(kind) ==
  CASE kind = "SYNC" -> "syncing" [] kind = "COMMAND" -> "sending_command"
    [] kind = "DATA" -> "ready"

\* What is true of a process between two steps.
Sound(h) ==
  /\ h \in Process
  /\ h.pos <= Length(h.op)
  /\ h.step \in {"send", "receive", "image"} => h.sequence = NextNumber(h.number)
  /\ h.step = "clear" => /\ h.state = "idle" /\ h.retries = 0
                         /\ h.outcome = "none" /\ h.pos = 1
                         /\ h.number = 0 /\ h.sequence = 0
  /\ h.step = "image" => /\ h.state = "ready" /\ h.retries = 0
                         /\ h.outcome = "none" /\ h.op = "image" /\ h.pos = 3
  /\ h.step \in {"send", "receive"} =>
       /\ h.outcome = "none" /\ h.try < MaxTries /\ h.retries <= h.try
       /\ h.state = Waiting(Request(h.op, h.pos))
       /\ Request(h.op, h.pos) = "COMMAND" => h.try = 0
  /\ h.step = "end" => h.outcome # "none"
  /\ h.outcome \notin Failures
  /\ h.state = "error_state" <=> h.outcome \in {"SyncFailed", "TransferFailed"}

\* A process whose request in hand is done with.
Idle(h) ==
  /\ h \in Process
  /\ h.pos <= Length(h.op)
  /\ h.retries = 0 /\ h.outcome = "none" /\ h.step # "end"

LEMMA RequestKinds ==
  ASSUME NEW op \in Operations, NEW pos \in Positions \ {0}, pos <= Length(op)
  PROVE  /\ Request(op, pos) \in {"SYNC", "COMMAND", "DATA"}
         /\ Request(op, pos) = "SYNC" <=> pos = 1
         /\ Length(op) \in 1 .. Chunks + 3
         /\ pos < Length(op) /\ pos + 1 = 3 => op = "image"
BY HostAssumption DEF Request, Operations, Positions, Length

LEMMA NextNumberType ==
  ASSUME NEW s \in Numbers
  PROVE  NextNumber(s) \in Numbers /\ NextNumber(s) # s
BY HostAssumption DEF NextNumber, Numbers

\* Preparing a request never fails: it is asked for in the state from which
\* its transition is allowed.
LEMMA PrepareSound ==
  ASSUME NEW h, Idle(h), h.state = (IF h.pos = 1 THEN "idle" ELSE "ready")
  PROVE  /\ Sound(Prepare(h))
         /\ Prepare(h).op = h.op /\ Prepare(h).pos = h.pos
         /\ Prepare(h).step = "send" /\ Prepare(h).number = h.sequence
<1> DEFINE kind == Request(h.op, h.pos)
           entered == [h EXCEPT !.state = Waiting(kind)]
           result == [entered EXCEPT !.number = h.sequence, !.sequence = NextNumber(@),
                                     !.try = 0, !.step = "send"]
<1>1. /\ h \in Process /\ h.op \in Operations /\ h.pos \in Positions \ {0}
      /\ h.pos <= Length(h.op)
      /\ kind \in {"SYNC", "COMMAND", "DATA"} /\ (kind = "SYNC" <=> h.pos = 1)
  BY RequestKinds DEF Idle, Process
<1>2. Waiting(kind) \in HostStates \ {"error_state"}
  BY <1>1 DEF Waiting, HostStates
<1>3. Prepare(h) = result
  <2>1. CASE kind = "SYNC"
    BY <2>1, <1>1 DEF Prepare, Enter, HostTransitions, Waiting, Idle, Process
  <2>2. CASE kind = "COMMAND"
    BY <2>2, <1>1 DEF Prepare, Enter, HostTransitions, Waiting, Idle, Process
  <2>3. CASE kind = "DATA"
    BY <2>3, <1>1 DEF Prepare, Enter, HostTransitions, Waiting, Idle, Process
  <2> QED BY <1>1, <2>1, <2>2, <2>3
<1>4. /\ result.op = h.op /\ result.pos = h.pos /\ result.step = "send"
      /\ result.number = h.sequence /\ result.sequence = NextNumber(h.sequence)
      /\ result.try = 0 /\ result.retries = 0 /\ result.outcome = "none"
      /\ result.state = Waiting(kind)
  BY <1>1 DEF Idle, Process
<1>5. result \in Process
  BY <1>1, <1>2, NextNumberType, HostAssumption DEF Idle, Process, Steps
<1>6. Sound(result)
  BY <1>1, <1>2, <1>4, <1>5, HostAssumption DEF Sound, Failures
<1> QED BY <1>3, <1>4, <1>6

\* What the host makes of the request in hand when it was carried out: it is
\* done, or decodes the image, or prepares the request that follows.
Proceeded(h, after) ==
  /\ Sound(after)
  /\ after.op = h.op
  /\ \/ /\ h.pos = Length(h.op)
        /\ after.pos = h.pos /\ after.step = "end" /\ after.outcome = "done"
     \/ /\ h.pos < Length(h.op)
        /\ after.pos = h.pos + 1 /\ after.step = "image" /\ after.sequence = h.sequence
     \/ /\ h.pos < Length(h.op)
        /\ after.pos = h.pos + 1 /\ after.step = "send" /\ after.number = h.sequence

LEMMA CompletedSound ==
  ASSUME NEW h, Idle(h), h.state = "ready", h.sequence = NextNumber(h.number)
  PROVE  Proceeded(h, Completed(h))
<1> DEFINE n == [h EXCEPT !.pos = @ + 1]
<1>1. /\ h \in Process /\ h.op \in Operations /\ h.pos \in Positions \ {0}
      /\ h.pos <= Length(h.op) /\ h.step # "end"
      /\ Length(h.op) \in 1 .. Chunks + 3 /\ h.pos \in Nat \ {0}
      /\ h.sequence = NextNumber(h.number)
      /\ h.retries = 0 /\ h.outcome = "none"
  BY RequestKinds, HostAssumption DEF Idle, Process, Positions
<1>2. CASE h.pos = Length(h.op)
  <2> DEFINE result == [h EXCEPT !.step = "end", !.outcome = "done"]
  <2>1. Completed(h) = result
    BY <1>1, <1>2 DEF Completed, End
  <2>2. result \in Process /\ result.pos = h.pos /\ result.op = h.op
        /\ result.step = "end" /\ result.outcome = "done" /\ result.state = "ready"
        /\ result.sequence = NextNumber(result.number)
    BY <1>1 DEF Process, Steps, Outcomes
  <2>3. Sound(result)
    BY <2>2, <1>1 DEF Sound, Failures
  <2> QED BY <1>2, <2>1, <2>2, <2>3 DEF Proceeded
<1>3. CASE h.pos # Length(h.op)
  <2>1. h.pos < Length(h.op) /\ h.pos + 1 <= Length(h.op) /\ h.pos + 1 \in Positions \ {0}
        /\ h.pos + 1 # 1
    BY <1>1, <1>3, HostAssumption DEF Positions
  <2>2. /\ n \in Process /\ n.pos = h.pos + 1 /\ n.op = h.op /\ n.state = "ready"
        /\ n.sequence = h.sequence /\ n.number = h.number /\ n.step = h.step
        /\ n.retries = 0 /\ n.outcome = "none"
    BY <1>1, <2>1, h.state = "ready" DEF Process
  <2>3. Idle(n)
    BY <1>1, <2>1, <2>2 DEF Idle
  <2>4. CASE n.pos = 3
    <3> DEFINE result == [n EXCEPT !.step = "image"]
    <3>1. Completed(h) = result
      BY <1>1, <1>3, <2>4 DEF Completed
    <3>2. result \in Process /\ result.pos = n.pos /\ result.op = n.op
          /\ result.step = "image" /\ result.outcome = "none" /\ result.state = "ready"
          /\ result.sequence = n.sequence /\ result.number = n.number /\ result.retries = 0
      BY <2>2 DEF Process, Steps
    <3>3. h.op = "image"
      BY <1>1, <2>1, <2>2, <2>4, RequestKinds
    <3>4. Sound(result)
      BY <1>1, <2>1, <2>2, <2>4, <3>2, <3>3 DEF Sound, Failures
    <3> QED BY <2>1, <2>2, <3>1, <3>2, <3>4 DEF Proceeded
  <2>5. CASE n.pos # 3
    <3>1. Completed(h) = Prepare(n)
      BY <1>1, <1>3, <2>5 DEF Completed
    <3> HIDE DEF n
    <3>2. /\ Sound(Prepare(n)) /\ Prepare(n).op = n.op /\ Prepare(n).pos = n.pos
          /\ Prepare(n).step = "send" /\ Prepare(n).number = n.sequence
      BY <2>1, <2>2, <2>3, PrepareSound
    <3> QED BY <2>1, <2>2, <3>1, <3>2 DEF Proceeded
  <2> QED BY <2>4, <2>5
<1> QED BY <1>2, <1>3

LEMMA StartSound ==
  ASSUME NEW op \in Operations
  PROVE  /\ Sound(Start(op)) /\ Start(op).pos = 1 /\ Start(op).step = "clear"
         /\ Start(op).outcome = "none" /\ Start(op).number = 0
<1>1. Start(op) \in Process
  BY HostAssumption DEF Start, Process, Positions, Numbers, HostStates, Steps, Outcomes
<1>2. 1 <= Length(op)
  BY HostAssumption DEF Length, Operations
<1> QED BY <1>1, <1>2 DEF Start, Sound, Failures

\* The first request is made out once the input is cleared.
LEMMA ClearedSound ==
  ASSUME NEW h, Sound(h), h.step = "clear"
  PROVE  /\ Sound(Cleared(h)) /\ Cleared(h).op = h.op /\ Cleared(h).pos = 1
         /\ Cleared(h).step = "send" /\ Cleared(h).number = 0
         /\ Cleared(h).outcome = "none"
<1>1. Idle(h) /\ h.state = "idle" /\ h.pos = 1 /\ h.sequence = 0
  BY DEF Sound, Idle
<1>2. /\ Sound(Prepare(h)) /\ Prepare(h).op = h.op /\ Prepare(h).pos = 1
      /\ Prepare(h).step = "send" /\ Prepare(h).number = 0
  BY <1>1, PrepareSound
<1>3. Prepare(h).outcome = "none"
  BY <1>2 DEF Sound
<1> QED BY <1>2, <1>3 DEF Cleared

\* The request in hand is not carried out yet, or never.
Remained(h, after) ==
  /\ Sound(after)
  /\ after.op = h.op /\ after.pos = h.pos
  /\ after.number = h.number /\ after.sequence = h.sequence
  /\ after.step \in {"send", "end"} /\ after.outcome # "done"
  /\ after.step = "send" => after.try = h.try + 1

Failing == {"InvalidResponse", "Timeout", "ReadError", "WriteError", "DecodeError", "killed"}

LEMMA EndSound ==
  ASSUME NEW h, Sound(h), h.step # "end",
         NEW outcome \in Failing
  PROVE  Remained(h, End(h, outcome))
<1>1. h \in Process /\ h.op \in Operations /\ h.pos \in Positions \ {0} /\ h.pos <= Length(h.op)
      /\ h.step \in Steps
  BY DEF Sound, Process
<1>2. h.state # "error_state"
  <2>1. h.outcome = "none"
    BY <1>1, h.step # "end" DEF Sound, Steps
  <2> QED BY <2>1 DEF Sound
<1> DEFINE result == [h EXCEPT !.step = "end", !.outcome = outcome]
<1>3. /\ result \in Process /\ result.pos = h.pos /\ result.op = h.op
      /\ result.number = h.number /\ result.sequence = h.sequence
      /\ result.step = "end" /\ result.outcome = outcome /\ result.state = h.state
  BY <1>1 DEF Process, Steps, Outcomes, Failing
<1>4. Sound(result) /\ result.outcome # "done"
  BY <1>1, <1>2, <1>3 DEF Sound, Failures, Failing
<1> QED BY <1>3, <1>4 DEF Remained, End

\* The count of state.zig never exceeds that of the loop, so it never ends an
\* operation.
LEMMA TryAgainSound ==
  ASSUME NEW h, Sound(h), h.step = "receive", Request(h.op, h.pos) # "COMMAND",
         NEW counted \in {h, IncrementRetry(h)},
         NEW failure \in {"SyncFailed", "TransferFailed"}
  PROVE  Remained(h, TryAgain(counted, failure))
<1>1. /\ h \in Process /\ h.op \in Operations /\ h.pos \in Positions \ {0}
      /\ h.pos <= Length(h.op) /\ h.sequence = NextNumber(h.number)
      /\ h.outcome = "none" /\ h.try \in Nat /\ h.retries \in Nat /\ MaxTries \in Nat
      /\ h.try < MaxTries /\ h.retries <= h.try
      /\ h.state = Waiting(Request(h.op, h.pos))
  BY HostAssumption DEF Sound, Process
<1>2. h.state \in {"syncing", "ready"}
  BY <1>1, RequestKinds DEF Waiting
<1> DEFINE raised == [h EXCEPT !.retries = @ + 1]
<1>3. IncrementRetry(h) = raised
  <2>1. raised.retries = h.retries + 1 /\ ~(h.retries + 1 > MaxTries)
    BY <1>1 DEF Process
  <2> QED BY <2>1 DEF IncrementRetry
<1>4. /\ counted \in Process /\ counted.op = h.op /\ counted.pos = h.pos
      /\ counted.number = h.number /\ counted.sequence = h.sequence /\ counted.try = h.try
      /\ counted.state = h.state /\ counted.step = "receive" /\ counted.outcome = "none"
      /\ counted.retries <= h.try + 1
  <2>1. CASE counted = h
    BY <2>1, <1>1, h.step = "receive"
  <2>2. CASE counted = raised
    <3>1. h.retries + 1 \in 0 .. MaxTries
      BY <1>1
    <3> QED BY <2>2, <3>1, <1>1, h.step = "receive" DEF Process
  <2> QED BY <1>3, <2>1, <2>2
<1> DEFINE turned == [counted EXCEPT !.try = @ + 1]
<1>5. /\ turned \in Process /\ turned.op = h.op /\ turned.pos = h.pos
      /\ turned.number = h.number /\ turned.sequence = h.sequence /\ turned.try = h.try + 1
      /\ turned.state = h.state /\ turned.step = "receive" /\ turned.outcome = "none"
      /\ turned.retries <= turned.try
  <2>1. h.try + 1 \in 0 .. MaxTries
    BY <1>1
  <2> QED BY <2>1, <1>4 DEF Process
<1> HIDE DEF raised
<1>6. CASE turned.try < MaxTries
  <2> DEFINE result == [turned EXCEPT !.step = "send"]
  <2>1. TryAgain(counted, failure) = result
    BY <1>4, <1>6 DEF TryAgain
  <2> HIDE DEF turned
  <2>2. /\ result \in Process /\ result.op = h.op /\ result.pos = h.pos
        /\ result.number = h.number /\ result.sequence = h.sequence
        /\ result.try = turned.try /\ result.retries = turned.retries
        /\ result.state = h.state /\ result.step = "send" /\ result.outcome = "none"
    BY <1>5 DEF Process, Steps
  <2>3. Sound(result)
    BY <1>1, <1>2, <1>5, <1>6, <2>2 DEF Sound, Failures
  <2> QED BY <1>5, <2>1, <2>2, <2>3 DEF Remained
<1>7. CASE ~(turned.try < MaxTries)
  <2> DEFINE failed == [turned EXCEPT !.state = "error_state"]
             result == [failed EXCEPT !.step = "end", !.outcome = failure]
  <2>1. TryAgain(counted, failure) = GiveUp(turned, failure)
    BY <1>4, <1>7 DEF TryAgain
  <2> HIDE DEF turned
  <2>2. Enter(turned, "error_state") = failed
    BY <1>2, <1>5 DEF Enter, HostTransitions
  <2>3. failed.step = "receive"
    BY <1>5 DEF Process
  <2>4. GiveUp(turned, failure) = result
    BY <2>2, <2>3 DEF GiveUp, End
  <2>5. /\ result \in Process /\ result.op = h.op /\ result.pos = h.pos
        /\ result.number = h.number /\ result.sequence = h.sequence
        /\ result.state = "error_state" /\ result.step = "end" /\ result.outcome = failure
    BY <1>5 DEF Process, Steps, HostStates, Outcomes
  <2>6. Sound(result)
    BY <1>1, <2>5 DEF Sound, Failures
  <2> QED BY <2>1, <2>4, <2>5, <2>6 DEF Remained
<1> QED BY <1>6, <1>7

\* The answer that carries the request in hand out.
Completes(h, answer) ==
  IF Request(h.op, h.pos) = "SYNC" THEN answer = "SYNC_ACK" ELSE answer = "ACK"

LEMMA AnsweredSound ==
  ASSUME NEW h, Sound(h), h.step = "receive",
         NEW answer \in {"ACK", "SYNC_ACK", "DEBUG", "nothing"}
  PROVE  IF Completes(h, answer) THEN Proceeded(h, Answered(h, answer))
                                 ELSE Remained(h, Answered(h, answer))
<1> DEFINE kind == Request(h.op, h.pos)
<1>1. /\ h \in Process /\ h.op \in Operations /\ h.pos \in Positions \ {0}
      /\ h.pos <= Length(h.op) /\ h.sequence = NextNumber(h.number)
      /\ h.outcome = "none" /\ h.try \in Nat /\ h.retries \in Nat /\ MaxTries \in Nat
      /\ h.try < MaxTries /\ h.retries <= h.try /\ h.state = Waiting(kind)
      /\ kind \in {"SYNC", "COMMAND", "DATA"} /\ (kind = "COMMAND" => h.try = 0)
  BY HostAssumption, RequestKinds DEF Sound, Process
<1>2. CASE kind = "SYNC"
  <2>1. CASE answer = "SYNC_ACK"
    <3> DEFINE entered == [h EXCEPT !.state = "ready"]
               reset == [entered EXCEPT !.retries = 0]
    <3>1. Answered(h, answer) = Completed(reset)
      BY <1>1, <1>2, <2>1 DEF Answered, SyncAnswer, Enter, HostTransitions, ResetRetry, Waiting
    <3>0. /\ entered \in Process /\ entered.op = h.op /\ entered.pos = h.pos
          /\ entered.number = h.number /\ entered.sequence = h.sequence
          /\ entered.state = "ready" /\ entered.step = "receive" /\ entered.outcome = "none"
      BY <1>1, h.step = "receive" DEF Process, HostStates
    <3> HIDE DEF entered
    <3>2. /\ reset \in Process /\ reset.op = h.op /\ reset.pos = h.pos
          /\ reset.number = h.number /\ reset.sequence = h.sequence
          /\ reset.state = "ready" /\ reset.retries = 0 /\ reset.step = "receive"
          /\ reset.outcome = "none"
      BY <1>1, <3>0 DEF Process
    <3> HIDE DEF reset
    <3>3. Proceeded(reset, Completed(reset))
      BY <1>1, <3>2, CompletedSound DEF Idle
    <3> QED BY <1>2, <2>1, <3>1, <3>2, <3>3 DEF Proceeded, Completes
  <2>2. CASE answer # "SYNC_ACK"
    <3>1. \E counted \in {h, IncrementRetry(h)} :
             Answered(h, answer) = TryAgain(counted, "SyncFailed")
      BY <1>2, <2>2 DEF Answered, SyncAnswer
    <3> QED BY <1>2, <2>2, <3>1, TryAgainSound DEF Completes
  <2> QED BY <2>1, <2>2
<1>3. CASE kind = "COMMAND"
  <2>1. CASE answer = "ACK"
    <3> DEFINE entered == [h EXCEPT !.state = "ready"]
    <3>1. Answered(h, answer) = Completed(entered)
      BY <1>1, <1>3, <2>1 DEF Answered, CommandAnswer, Enter, HostTransitions, Waiting
    <3>2. /\ entered \in Process /\ entered.op = h.op /\ entered.pos = h.pos
          /\ entered.number = h.number /\ entered.sequence = h.sequence
          /\ entered.state = "ready" /\ entered.retries = h.retries
          /\ entered.step = "receive" /\ entered.outcome = "none"
      BY <1>1, h.step = "receive" DEF Process, HostStates
    <3>3. h.retries = 0
      BY <1>1, <1>3
    <3> HIDE DEF entered
    <3>4. Proceeded(entered, Completed(entered))
      BY <1>1, <3>2, <3>3, CompletedSound DEF Idle
    <3> QED BY <1>3, <2>1, <3>1, <3>2, <3>4 DEF Proceeded, Completes
  <2>2. CASE answer # "ACK"
    <3>1. Answered(h, answer) \in {End(h, "Timeout"), End(h, "InvalidResponse")}
      BY <1>3, <2>2 DEF Answered, CommandAnswer
    <3> QED BY <1>3, <2>2, <3>1, EndSound, h.step = "receive" DEF Completes, Failing
  <2> QED BY <2>1, <2>2
<1>4. CASE kind = "DATA"
  <2>1. CASE answer = "ACK"
    <3> DEFINE reset == [h EXCEPT !.retries = 0]
    <3>1. Answered(h, answer) = Completed(reset)
      BY <1>4, <2>1 DEF Answered, DataAnswer, ResetRetry
    <3>2. /\ reset \in Process /\ reset.op = h.op /\ reset.pos = h.pos
          /\ reset.number = h.number /\ reset.sequence = h.sequence
          /\ reset.state = "ready" /\ reset.retries = 0 /\ reset.step = "receive"
          /\ reset.outcome = "none"
      BY <1>1, <1>4, h.step = "receive" DEF Process, Waiting
    <3> HIDE DEF reset
    <3>3. Proceeded(reset, Completed(reset))
      BY <1>1, <3>2, CompletedSound DEF Idle
    <3> QED BY <1>4, <2>1, <3>1, <3>2, <3>3 DEF Proceeded, Completes
  <2>2. CASE answer # "ACK"
    <3>1. Answered(h, answer) = TryAgain(IncrementRetry(h), "TransferFailed")
      BY <1>4, <2>2 DEF Answered, DataAnswer
    <3> QED BY <1>4, <2>2, <3>1, TryAgainSound DEF Completes
  <2> QED BY <2>1, <2>2
<1> QED BY <1>1, <1>2, <1>3, <1>4

-----------------------------------------------------------------------------
(* Types, and what holds of a misled process too                           *)

TypeInv == TypeOK /\ Sound(host)

LEMMA SequenceFacts ==
  ASSUME NEW S, NEW s \in Seq(S), s # <<>>
  PROVE  /\ Head(s) \in S /\ Head(s) = s[1] /\ Len(s) \in Nat \ {0}
         /\ Tail(s) \in Seq(S) /\ Len(Tail(s)) = Len(s) - 1
         /\ \A i \in 1 .. Len(Tail(s)) : Tail(s)[i] = s[i + 1] /\ i + 1 \in 1 .. Len(s)
OBVIOUS

LEMMA OneGone ==
  ASSUME NEW S, NEW s \in Seq(S), NEW t, t = s \/ (s # <<>> /\ t = Tail(s))
  PROVE  \E k \in {0, 1} :
           /\ Len(t) = Len(s) - k
           /\ \A i \in 1 .. Len(t) : t[i] = s[i + k] /\ i + k \in 1 .. Len(s)
<1>1. CASE t = s
  <2>1. /\ Len(t) = Len(s) - 0
        /\ \A i \in 1 .. Len(t) : t[i] = s[i + 0] /\ i + 0 \in 1 .. Len(s)
    BY <1>1
  <2> QED BY <2>1
<1>2. CASE s # <<>> /\ t = Tail(s)
  <2>1. /\ Len(t) = Len(s) - 1
        /\ \A i \in 1 .. Len(t) : t[i] = s[i + 1] /\ i + 1 \in 1 .. Len(s)
    BY <1>2, SequenceFacts
  <2> QED BY <2>1
<1> QED BY <1>1, <1>2

LEMMA AppendFacts ==
  ASSUME NEW S, NEW s \in Seq(S), NEW e \in S
  PROVE  /\ Append(s, e) \in Seq(S) /\ Len(Append(s, e)) = Len(s) + 1 /\ Len(s) \in Nat
         /\ \A i \in 1 .. Len(Append(s, e)) :
              \/ i \in 1 .. Len(s) /\ Append(s, e)[i] = s[i]
              \/ i = Len(s) + 1 /\ Append(s, e)[i] = e
OBVIOUS

\* Every step of the host leaves a process that is Sound.
LEMMA HostSound ==
  ASSUME TypeInv, Next
  PROVE  Sound(host')
<1> USE DEF TypeInv
<1>1. ASSUME NEW op \in Operations, StartProcess(op)
      PROVE  Sound(host')
  BY <1>1, StartSound DEF StartProcess
<1>2. ASSUME Send \/ SendNothing PROVE Sound(host')
  <2> DEFINE result == [host EXCEPT !.step = "receive"]
  <2>1. host.step = "send" /\ host' = result
    BY <1>2 DEF Send, SendNothing
  <2>2. /\ result \in Process /\ result.op = host.op /\ result.pos = host.pos
        /\ result.number = host.number /\ result.sequence = host.sequence
        /\ result.try = host.try /\ result.retries = host.retries
        /\ result.state = host.state /\ result.step = "receive"
        /\ result.outcome = host.outcome
    BY <2>1 DEF Sound, Process, Steps
  <2> QED BY <2>1, <2>2 DEF Sound
<1>3. ASSUME ReceiveAnswer PROVE Sound(host')
  <2>1. Head(toHost).type \in {"ACK", "SYNC_ACK", "DEBUG"}
    <3>1. toHost \in Seq(Answers) /\ toHost # <<>>
      BY <1>3 DEF ReceiveAnswer, TypeOK
    <3>2. Head(toHost) \in Answers
      BY <3>1, SequenceFacts
    <3> QED BY <3>2 DEF Answers
  <2> QED BY <1>3, <2>1, AnsweredSound DEF ReceiveAnswer, Proceeded, Remained
<1>4. ASSUME ReceiveNothing PROVE Sound(host')
  BY <1>4, AnsweredSound DEF ReceiveNothing, Proceeded, Remained
<1>5. ASSUME NEW ok \in BOOLEAN, DecodeImage(ok) PROVE Sound(host')
  <2>1. Idle(host) /\ host.state = "ready" /\ host.pos = 3
    BY <1>5 DEF DecodeImage, Sound, Idle
  <2>2. Sound(Prepare(host))
    BY <2>1, PrepareSound
  <2>3. Sound(End(host, "DecodeError"))
    BY <1>5, EndSound DEF DecodeImage, Remained, Failing
  <2> QED BY <1>5, <2>2, <2>3 DEF DecodeImage, Decoded
<1>6. ASSUME NEW outcome \in {"ReadError", "WriteError", "killed"}, Break(outcome) PROVE Sound(host')
  BY <1>6, EndSound DEF Break, Remained, Failing
<1>7. ASSUME InputCleared PROVE Sound(host')
  BY <1>7, ClearedSound DEF InputCleared
<1>8. ASSUME \/ ClearInput \/ TakeSync \/ TakeRequest \/ RejectRequest \/ LoseRequest
             \/ Fail \/ SendDebug \/ LoseAnswer
      PROVE  Sound(host')
  BY <1>8 DEF ClearInput, TakeSync, TakeRequest, RejectRequest, LoseRequest, Fail, SendDebug, LoseAnswer
<1> QED BY <1>1, <1>2, <1>3, <1>4, <1>5, <1>6, <1>7, <1>8 DEF Next, HostStep

\* Marking the packets of a channel as those of another process.
LEMMA OrphanedFacts ==
  ASSUME NEW S, NEW s \in Seq(S),
         \A e \in S : [e EXCEPT !.pos = 0] \in S /\ [e EXCEPT !.pos = 0].pos = 0
  PROVE  /\ Orphaned(s) \in Seq(S) /\ Len(Orphaned(s)) = Len(s)
         /\ \A i \in 1 .. Len(Orphaned(s)) : Orphaned(s)[i].pos = 0
<1> DEFINE o == [i \in 1 .. Len(s) |-> [s[i] EXCEPT !.pos = 0]]
<1>1. Orphaned(s) = o
  BY DEF Orphaned
<1>2. Len(s) \in Nat /\ \A i \in 1 .. Len(s) : s[i] \in S
  OBVIOUS
<1>3. o \in [1 .. Len(s) -> S]
  BY <1>2
<1>4. o \in Seq(S) /\ Len(o) = Len(s)
  <2> HIDE DEF o
  <2>1. DOMAIN o = 1 .. Len(s)
    BY <1>3
  <2> QED BY <1>2, <1>3, <2>1
<1> QED BY <1>1, <1>4

LEMMA OrphanedChannels ==
  ASSUME TypeOK
  PROVE  /\ Orphaned(toHost) \in Seq(Answers) /\ Len(Orphaned(toHost)) = Len(toHost)
         /\ Orphaned(toDevice) \in Seq(Requests) /\ Len(Orphaned(toDevice)) = Len(toDevice)
         /\ \A i \in 1 .. Len(Orphaned(toHost)) : Orphaned(toHost)[i].pos = 0
         /\ \A i \in 1 .. Len(Orphaned(toDevice)) : Orphaned(toDevice)[i].pos = 0
<1>1. \A e \in Answers : [e EXCEPT !.pos = 0] \in Answers /\ [e EXCEPT !.pos = 0].pos = 0
  BY HostAssumption DEF Answers, Positions
<1>2. \A e \in Requests : [e EXCEPT !.pos = 0] \in Requests /\ [e EXCEPT !.pos = 0].pos = 0
  BY HostAssumption DEF Requests, Positions
<1>3. toHost \in Seq(Answers) /\ toDevice \in Seq(Requests)
  BY DEF TypeOK
<1>4. /\ Orphaned(toHost) \in Seq(Answers) /\ Len(Orphaned(toHost)) = Len(toHost)
      /\ \A i \in 1 .. Len(Orphaned(toHost)) : Orphaned(toHost)[i].pos = 0
  BY <1>1, <1>3, OrphanedFacts
<1>5. /\ Orphaned(toDevice) \in Seq(Requests) /\ Len(Orphaned(toDevice)) = Len(toDevice)
      /\ \A i \in 1 .. Len(Orphaned(toDevice)) : Orphaned(toDevice)[i].pos = 0
  BY <1>2, <1>3, OrphanedFacts
<1> QED BY <1>4, <1>5

LEMMA InitTypes == Init => TypeInv
<1> SUFFICES ASSUME Init PROVE TypeInv
  OBVIOUS
<1>1. Sound(host)
  BY StartSound DEF Init
<1>0. misled \in BOOLEAN
  BY Zenon DEF Init
<1>2. TypeOK
  BY <1>0, <1>1, HostAssumption, LinkAssumption
  DEF Init, Device!Init, Device!NoAck, TypeOK, Sound, Process, Numbers, Positions
<1> QED BY <1>1, <1>2 DEF TypeInv

\* What the channels hold after one step of either end.
LEMMA StepTypes ==
  ASSUME TypeInv, [Next]_vars
  PROVE  TypeInv'
<1> USE DEF TypeInv
<1>0. /\ TypeOK /\ Sound(host)
      /\ toDevice \in Seq(Requests) /\ toHost \in Seq(Answers)
      /\ Len(toDevice) \in Nat /\ Len(toHost) \in Nat /\ Capacity \in Nat
      /\ Len(toDevice) <= Capacity /\ Len(toHost) <= Capacity
  BY LinkAssumption DEF TypeOK
<1>1. ASSUME NEW h, Sound(h)
      PROVE  /\ h \in [op : Operations, state : HostStates, sequence : Numbers,
                        retries : 0 .. MaxTries, pos : Positions \ {0}, number : Numbers,
                        try : 0 .. MaxTries, step : Steps, outcome : Outcomes]
             /\ h.number \in Numbers /\ h.pos \in Positions
             /\ Request(h.op, h.pos) \in {"SYNC", "COMMAND", "DATA"}
  <2>1. h \in Process /\ h.op \in Operations /\ h.pos \in Positions \ {0} /\ h.pos <= Length(h.op)
    BY <1>1 DEF Sound, Process
  <2> QED BY <2>1, RequestKinds DEF Process
<1>2. CASE UNCHANGED vars
  BY <1>2, <1>0 DEF vars, device, TypeOK
<1>3. CASE Next
  <2>1. Sound(host')
    BY <1>3, HostSound
  <2>2. host' \in [op : Operations, state : HostStates, sequence : Numbers,
                   retries : 0 .. MaxTries, pos : Positions \ {0}, number : Numbers,
                   try : 0 .. MaxTries, step : Steps, outcome : Outcomes]
    BY <1>1, <2>1
  <2>3. ASSUME NEW op \in Operations, StartProcess(op)
        PROVE  TypeOK'
    <3>1. /\ Orphaned(toHost) \in Seq(Answers) /\ Len(Orphaned(toHost)) = Len(toHost)
          /\ Orphaned(toDevice) \in Seq(Requests) /\ Len(Orphaned(toDevice)) = Len(toDevice)
      BY <1>0, OrphanedChannels
    <3>2. /\ toHost' = Orphaned(toHost) /\ toDevice' = Orphaned(toDevice)
          /\ taken' = 0 /\ misled' = FALSE /\ UNCHANGED <<phase, next, acked, reply>>
      BY <2>3 DEF StartProcess, device
    <3>3. 0 \in Positions
      BY HostAssumption DEF Positions
    <3>4. misled' \in BOOLEAN
      BY <3>2, Zenon
    <3> QED BY <1>0, <2>2, <3>1, <3>2, <3>3, <3>4 DEF TypeOK
  <2>4. ASSUME Send PROVE TypeOK'
    <3> DEFINE request == [kind |-> Request(host.op, host.pos),
                           number |-> host.number, pos |-> host.pos]
    <3>1. request \in Requests
      BY <1>0, <1>1 DEF Requests
    <3>2. toDevice' = Append(toDevice, request) /\ Len(toDevice) < Capacity
          /\ UNCHANGED <<toHost, phase, next, acked, reply, taken, misled>>
      BY <2>4 DEF Send, device
    <3> HIDE DEF request
    <3>3. toDevice' \in Seq(Requests) /\ Len(toDevice') <= Capacity
      BY <1>0, <3>1, <3>2, AppendFacts
    <3> QED BY <1>0, <2>2, <3>2, <3>3 DEF TypeOK
  <2>5. ASSUME \/ InputCleared \/ SendNothing \/ ReceiveNothing \/ \E ok \in BOOLEAN : DecodeImage(ok)
               \/ \E outcome \in {"ReadError", "WriteError", "killed"} : Break(outcome)
        PROVE  TypeOK'
    <3>1. UNCHANGED <<toDevice, toHost, phase, next, acked, reply, taken, misled>>
      BY <2>5 DEF InputCleared, SendNothing, ReceiveNothing, DecodeImage, Break, device
    <3> QED BY <1>0, <2>2, <3>1 DEF TypeOK
  <2>6. ASSUME ReceiveAnswer \/ ClearInput \/ LoseAnswer PROVE TypeOK'
    <3>0. misled' \in BOOLEAN
      BY <1>0, <2>6, Zenon DEF TypeOK, ReceiveAnswer, ClearInput, LoseAnswer
    <3>1. toHost # <<>> /\ toHost' = Tail(toHost)
          /\ UNCHANGED <<toDevice, phase, next, acked, reply, taken>>
      BY <2>6 DEF ReceiveAnswer, ClearInput, LoseAnswer, device
    <3>2. toHost' \in Seq(Answers) /\ Len(toHost') <= Capacity
      BY <1>0, <3>1, SequenceFacts
    <3> QED BY <1>0, <2>2, <3>0, <3>1, <3>2 DEF TypeOK
  <2>7. ASSUME SendDebug PROVE TypeOK'
    <3> DEFINE answer == [type |-> "DEBUG", pos |-> 0]
    <3>1. answer \in Answers
      BY HostAssumption DEF Answers, Positions
    <3>2. toHost' = Append(toHost, answer) /\ Len(toHost) < Capacity
          /\ UNCHANGED <<toDevice, phase, next, acked, reply, taken, misled>>
      BY <2>7 DEF SendDebug, device
    <3> HIDE DEF answer
    <3>3. toHost' \in Seq(Answers) /\ Len(toHost') <= Capacity
      BY <1>0, <3>1, <3>2, AppendFacts
    <3> QED BY <1>0, <2>2, <3>2, <3>3 DEF TypeOK
  <2>8. ASSUME toDevice # <<>>, toDevice' = Tail(toDevice)
        PROVE  /\ toDevice' \in Seq(Requests) /\ Len(toDevice') <= Capacity
               /\ Head(toDevice) \in Requests
    BY <1>0, <2>8, SequenceFacts
  <2>9. ASSUME NEW request \in Requests, NEW type \in {"ACK", "SYNC_ACK"}, Answer(request, type)
        PROVE  toHost' \in Seq(Answers) /\ Len(toHost') <= Capacity /\ taken' \in Positions
    <3> DEFINE answer == [type |-> type, pos |-> request.pos]
    <3>1. answer \in Answers /\ request.pos \in Positions
      BY DEF Answers, Requests
    <3>2. toHost' = Append(toHost, answer) /\ Len(toHost) < Capacity
          /\ taken' \in {taken, request.pos}
      BY <2>9 DEF Answer
    <3> HIDE DEF answer
    <3>3. toHost' \in Seq(Answers) /\ Len(toHost') <= Capacity
      BY <1>0, <3>1, <3>2, AppendFacts
    <3> QED BY <1>0, <3>1, <3>2, <3>3 DEF TypeOK
  <2>10. ASSUME TakeSync PROVE TypeOK'
    <3>1. /\ toDevice # <<>> /\ toDevice' = Tail(toDevice)
          /\ Answer(Head(toDevice), reply) /\ Device!Open(Head(toDevice).number)
          /\ UNCHANGED <<reply, misled>>
      BY <2>10 DEF TakeSync, Polls
    <3>2. reply \in {"ACK", "SYNC_ACK"} /\ reply \in SyncReplies
      BY <1>0, LinkAssumption DEF TypeOK
    <3>3. Head(toDevice).number \in Numbers
      BY <2>8, <3>1 DEF Requests
    <3>4. /\ phase' = "open" /\ next' = NextNumber(Head(toDevice).number)
          /\ acked' = [type |-> "SYNC", seq |-> Head(toDevice).number]
      BY <3>1 DEF Device!Open, Device!Succ, NextNumber
    <3> QED BY <1>0, <2>2, <2>8, <2>9, <3>1, <3>2, <3>3, <3>4, NextNumberType DEF TypeOK
  <2>11. ASSUME TakeRequest PROVE TypeOK'
    <3>1. /\ toDevice # <<>> /\ toDevice' = Tail(toDevice)
          /\ Answer(Head(toDevice), "ACK") /\ Head(toDevice).kind # "SYNC"
          /\ phase' = phase /\ next' = NextNumber(Head(toDevice).number)
          /\ acked' = [type |-> Head(toDevice).kind, seq |-> Head(toDevice).number]
          /\ UNCHANGED <<reply, misled>>
      BY <2>11 DEF TakeRequest, Polls
    <3>2. Head(toDevice).number \in Numbers
          /\ Head(toDevice).kind \in {"SYNC", "COMMAND", "DATA"}
      BY <2>8, <3>1 DEF Requests
    <3> QED BY <1>0, <2>2, <2>8, <2>9, <3>1, <3>2, NextNumberType DEF TypeOK
  <2>12. ASSUME RejectRequest \/ LoseRequest PROVE TypeOK'
    <3>1. /\ toDevice # <<>> /\ toDevice' = Tail(toDevice)
          /\ UNCHANGED <<toHost, acked, reply, taken, misled>>
          /\ phase' \in {phase, "failed"} /\ (next' = next \/ next' \in Numbers)
      BY <2>12 DEF RejectRequest, LoseRequest, Polls, device, Device!Fail, Device!SeqNums, Numbers
    <3> QED BY <1>0, <2>2, <2>8, <3>1 DEF TypeOK
  <2>13. ASSUME Fail PROVE TypeOK'
    <3>1. /\ UNCHANGED <<toDevice, toHost, acked, reply, taken, misled>>
          /\ phase' = "failed" /\ next' \in Numbers
      BY <2>13 DEF Fail, Device!Fail, Device!SeqNums, Numbers
    <3> QED BY <1>0, <2>2, <3>1 DEF TypeOK
  <2> QED BY <1>3, <2>1, <2>3, <2>4, <2>5, <2>6, <2>7, <2>10, <2>11, <2>12, <2>13
      DEF Next, HostStep
<1> QED BY <1>2, <1>3

-----------------------------------------------------------------------------
(* Requests are taken in order                                             *)

\* The host is at most one request ahead of the device and never behind.
Together ==
  /\ taken <= host.pos
  /\ host.pos <= taken + 1
  /\ host.step \in {"image", "clear"} => host.pos = taken + 1
  /\ host.outcome = "done" => host.pos = taken
  /\ host.pos = 1 /\ host.step # "end" => host.number = 0

\* The numbers on the two ends agree while the device works.
Agreed ==
  phase # "failed" /\ taken > 0 =>
    /\ phase = "open"
    /\ host.step # "end" =>
         IF host.pos = taken \/ host.step = "image" THEN host.sequence = next
                                                   ELSE host.number = next

\* A request on its way is the one the device awaits or the one it took last,
\* for a process h, when k requests are taken and n is awaited; requests of
\* ended processes are taken before any of this one.
Awaited(r, h, k, n) ==
  \/ r.pos = 0 /\ k = 0
  \/ /\ r.pos > 0 /\ r.pos \in {k, k + 1} /\ r.pos <= h.pos
     /\ h.step \in {"image", "clear"} => r.pos < h.pos
     /\ r.kind = "SYNC" <=> r.pos = 1
     /\ r.pos = 1 => r.number = 0
     /\ k > 0 => IF r.pos = k THEN NextNumber(r.number) = n ELSE r.number = n

RequestsInOrder ==
  phase # "failed" =>
    /\ \A i \in 1 .. Len(toDevice) : Awaited(toDevice[i], host, taken, next)
    /\ \A i, j \in 1 .. Len(toDevice) : i < j => toDevice[i].pos <= toDevice[j].pos

\* An answer on its way is to a request the device took, and an ACK is to the
\* one in hand, unless the process has ended; answers to ended processes are
\* gone once the host goes on from its SYNC.
Due(a, h, k, answer) ==
  /\ a.type # "DEBUG" => a.pos <= k /\ (a.pos = 0 => h.pos = 1)
  /\ a.type = "SYNC_ACK" /\ a.pos > 0 => answer = "SYNC_ACK"
  /\ a.type = "ACK" /\ answer = "SYNC_ACK" /\ a.pos > 0 =>
       a.pos > 1 /\ (h.step # "end" => h.pos <= a.pos)

\* The answer at j comes after the one at i.
Later(a, b, answer) ==
  a.type # "DEBUG" /\ b.type # "DEBUG" =>
    /\ a.pos <= b.pos
    /\ answer = "SYNC_ACK" /\ a.type = "ACK" /\ b.type = "ACK" /\ a.pos > 0
         => a.pos < b.pos

AnswersInOrder ==
  /\ \A i \in 1 .. Len(toHost) : Due(toHost[i], host, taken, reply)
  /\ \A i, j \in 1 .. Len(toHost) : i < j => Later(toHost[i], toHost[j], reply)
  /\ reply = "ACK" => host.pos = 1 /\ host.outcome # "done"

\* The invariant of a process that was not misled.
Inv == TypeInv /\ Together /\ Agreed /\ RequestsInOrder /\ AnswersInOrder

Guarded == TypeInv /\ (~misled => Inv)

LEMMA InitInv == Init => Inv
<1> SUFFICES ASSUME Init PROVE Inv
  OBVIOUS
<1>1. TypeInv
  BY InitTypes
<1>2. /\ host.pos = 1 /\ host.step = "clear" /\ host.outcome = "none" /\ taken = 0
      /\ host.number = 0
      /\ toDevice = <<>> /\ toHost = <<>>
  BY StartSound DEF Init
<1>3. Len(toDevice) = 0 /\ Len(toHost) = 0
  BY <1>2
<1> QED BY <1>1, <1>2, <1>3 DEF Inv, Together, Agreed, RequestsInOrder, AnswersInOrder

LEMMA Typed ==
  ASSUME TypeInv
  PROVE  /\ host.pos \in Nat \ {0} /\ taken \in Nat
         /\ toDevice \in Seq(Requests) /\ toHost \in Seq(Answers)
         /\ Len(toDevice) \in Nat /\ Len(toHost) \in Nat
         /\ \A i \in 1 .. Len(toDevice) : toDevice[i] \in Requests /\ toDevice[i].pos \in Nat
         /\ \A i \in 1 .. Len(toHost) : toHost[i] \in Answers /\ toHost[i].pos \in Nat
<1>1. /\ host.pos \in Positions \ {0} /\ taken \in Positions /\ Positions \subseteq Nat
      /\ toDevice \in Seq(Requests) /\ toHost \in Seq(Answers)
  BY HostAssumption DEF TypeInv, TypeOK, Positions
<1>2. /\ \A i \in 1 .. Len(toDevice) : toDevice[i] \in Requests
      /\ \A i \in 1 .. Len(toHost) : toHost[i] \in Answers
  BY <1>1
<1>3. (\A r \in Requests : r.pos \in Nat) /\ (\A a \in Answers : a.pos \in Nat)
  BY <1>1 DEF Requests, Answers
<1>4. Len(toDevice) \in Nat /\ Len(toHost) \in Nat
  BY <1>1
<1>5. host.pos \in Nat \ {0} /\ taken \in Nat
  BY <1>1
<1> QED BY <1>1, <1>2, <1>3, <1>4, <1>5

\* A step that adds no request and leaves the device alone.
LEMMA RequestsKept ==
  ASSUME Inv, TypeInv', UNCHANGED <<phase, next, taken>>,
         toDevice' = toDevice \/ (toDevice # <<>> /\ toDevice' = Tail(toDevice)),
         host'.pos >= host.pos,
         host'.step \in {"image", "clear"} =>
           host'.pos > host.pos \/ host.step \in {"image", "clear"}
  PROVE  RequestsInOrder'
<1> USE DEF Inv
<1>0. /\ host.pos \in Nat /\ host'.pos \in Nat /\ taken \in Nat
      /\ toDevice \in Seq(Requests)
      /\ \A i \in 1 .. Len(toDevice) : toDevice[i].pos \in Nat
  BY Typed DEF TypeInv, Sound, Process, Positions
<1>2. PICK k \in {0, 1} : /\ Len(toDevice') = Len(toDevice) - k
                         /\ \A i \in 1 .. Len(toDevice') :
                              toDevice'[i] = toDevice[i + k] /\ i + k \in 1 .. Len(toDevice)
  BY <1>0, OneGone
<1>3. SUFFICES ASSUME phase # "failed"
      PROVE  /\ \A i \in 1 .. Len(toDevice') : Awaited(toDevice'[i], host', taken, next)
             /\ \A i, j \in 1 .. Len(toDevice') :
                  i < j => toDevice'[i].pos <= toDevice'[j].pos
  BY DEF RequestsInOrder
<1>4. ASSUME NEW i \in 1 .. Len(toDevice') PROVE Awaited(toDevice'[i], host', taken, next)
  <2> DEFINE r == toDevice[i + k]
  <2>1. toDevice'[i] = r /\ r.pos \in Nat /\ Awaited(r, host, taken, next)
    BY <1>0, <1>2, <1>3 DEF RequestsInOrder
  <2> HIDE DEF r
  <2>2. Awaited(r, host', taken, next)
    BY <1>0, <2>1 DEF Awaited
  <2> QED BY <2>1, <2>2 DEF Awaited
<1>5. ASSUME NEW i \in 1 .. Len(toDevice'), NEW j \in 1 .. Len(toDevice'), i < j
      PROVE  toDevice'[i].pos <= toDevice'[j].pos
  <2>1. /\ toDevice'[i] = toDevice[i + k] /\ i + k \in 1 .. Len(toDevice)
        /\ toDevice'[j] = toDevice[j + k] /\ j + k \in 1 .. Len(toDevice) /\ i + k < j + k
    BY <1>2, <1>5
  <2> QED BY <1>3, <2>1 DEF RequestsInOrder
<1> QED BY <1>4, <1>5

\* A step that adds no answer.
LEMMA AnswersKept ==
  ASSUME Inv, TypeInv', UNCHANGED <<reply, taken>>,
         toHost' = toHost \/ (toHost # <<>> /\ toHost' = Tail(toHost)),
         reply = "ACK" => host'.pos = 1 /\ host'.outcome # "done",
         \/ host'.pos = host.pos
         \/ \A i \in 1 .. Len(toHost') : toHost'[i].type # "DEBUG" => toHost'[i].pos > 0,
         host'.step # "end" =>
           \/ host.step # "end" /\ host'.pos = host.pos
           \/ \A i \in 1 .. Len(toHost') :
                toHost'[i].type = "ACK" /\ reply = "SYNC_ACK" => host'.pos <= toHost'[i].pos
  PROVE  AnswersInOrder'
<1> USE DEF Inv
<1>0. /\ host.pos \in Nat /\ host'.pos \in Nat /\ taken \in Nat
      /\ toHost \in Seq(Answers)
      /\ \A i \in 1 .. Len(toHost) : toHost[i].pos \in Nat
  BY Typed DEF TypeInv, Sound, Process, Positions
<1>2. PICK k \in {0, 1} : /\ Len(toHost') = Len(toHost) - k
                         /\ \A i \in 1 .. Len(toHost') :
                              toHost'[i] = toHost[i + k] /\ i + k \in 1 .. Len(toHost)
  BY <1>0, OneGone
<1>3. ASSUME NEW i \in 1 .. Len(toHost') PROVE Due(toHost'[i], host', taken, reply)
  <2> DEFINE a == toHost[i + k]
  <2>1. toHost'[i] = a /\ a.pos \in Nat /\ Due(a, host, taken, reply)
    BY <1>0, <1>2 DEF AnswersInOrder
  <2>2. a.type = "ACK" /\ reply = "SYNC_ACK" /\ a.pos > 0 /\ host'.step # "end"
          => host'.pos <= a.pos
    BY <2>1 DEF Due
  <2>3. a.type # "DEBUG" /\ a.pos = 0 => host'.pos = 1
    BY <1>0, <2>1 DEF Due
  <2> HIDE DEF a
  <2> QED BY <2>1, <2>2, <2>3 DEF Due
<1>4. ASSUME NEW i \in 1 .. Len(toHost'), NEW j \in 1 .. Len(toHost'), i < j
      PROVE  Later(toHost'[i], toHost'[j], reply)
  <2>1. /\ toHost'[i] = toHost[i + k] /\ i + k \in 1 .. Len(toHost)
        /\ toHost'[j] = toHost[j + k] /\ j + k \in 1 .. Len(toHost) /\ i + k < j + k
    BY <1>2, <1>4
  <2> QED BY <2>1 DEF AnswersInOrder
<1> QED BY <1>3, <1>4 DEF AnswersInOrder

-----------------------------------------------------------------------------
(* The invariant, action by action                                         *)

\* A step of the host after which the same request is in hand.
LEMMA Remains ==
  ASSUME Inv, TypeInv', host.step # "end", Remained(host, host') \/ host' = [host EXCEPT !.step = "receive"],
         host.step \in {"image", "clear"} => host'.step = "end",
         toHost' = toHost \/ (toHost # <<>> /\ toHost' = Tail(toHost)),
         UNCHANGED <<phase, next, taken, reply>>
  PROVE  /\ Together' /\ Agreed' /\ AnswersInOrder'
         /\ toDevice' = toDevice => RequestsInOrder'
         /\ host'.pos = host.pos /\ host'.step \notin {"image", "clear"}
<1> USE DEF Inv
<1>1. /\ Sound(host) /\ host \in Process /\ host.pos \in Nat /\ taken \in Nat
      /\ host.outcome # "done"
  BY Typed DEF TypeInv, Sound, Process, Steps
<1>2. /\ host'.pos = host.pos /\ host'.number = host.number /\ host'.sequence = host.sequence
      /\ host'.step \in {"send", "receive", "end"} /\ host'.outcome # "done"
  BY <1>1 DEF Remained, Process
<1>3. Together'
  BY <1>1, <1>2 DEF Together
<1>4. Agreed'
  BY <1>1, <1>2 DEF Agreed
<1>5. AnswersInOrder'
  <2>1. reply = "ACK" => host'.pos = 1 /\ host'.outcome # "done"
    BY <1>2 DEF AnswersInOrder
  <2> QED BY <1>2, <2>1, AnswersKept
<1>6. ASSUME toDevice' = toDevice PROVE RequestsInOrder'
  BY <1>1, <1>2, <1>6, RequestsKept
<1> QED BY <1>2, <1>3, <1>4, <1>5, <1>6

LEMMA StartInv ==
  ASSUME TypeInv, TypeInv', NEW op \in Operations, StartProcess(op)
  PROVE  Inv'
<1>1. /\ host' = Start(op) /\ taken' = 0 /\ UNCHANGED <<phase, next, acked, reply>>
      /\ toHost' = Orphaned(toHost) /\ toDevice' = Orphaned(toDevice)
  BY DEF StartProcess, device
<1>2. /\ host'.pos = 1 /\ host'.step = "clear" /\ host'.outcome = "none" /\ host'.number = 0
  BY <1>1, StartSound
<1>3. /\ \A i \in 1 .. Len(toDevice') : toDevice'[i].pos = 0
      /\ \A i \in 1 .. Len(toHost') : toHost'[i].pos = 0
  BY <1>1, OrphanedChannels DEF TypeInv
<1>4. Together' /\ Agreed'
  BY <1>1, <1>2 DEF Together, Agreed
<1>5. RequestsInOrder'
  BY <1>1, <1>3 DEF RequestsInOrder, Awaited
<1>6. AnswersInOrder'
  BY <1>1, <1>2, <1>3 DEF AnswersInOrder, Due, Later
<1> QED BY <1>4, <1>5, <1>6 DEF Inv

\* The first request is made out.
LEMMA ClearedInv ==
  ASSUME Inv, TypeInv', InputCleared
  PROVE  Inv' /\ host'.pos = host.pos /\ host'.outcome = host.outcome
<1> USE DEF Inv
<1>1. /\ host.step = "clear" /\ host' = Cleared(host) /\ Sound(host)
      /\ UNCHANGED <<toDevice, toHost, phase, next, reply, taken>>
  BY DEF InputCleared, device, TypeInv
<1>2. /\ host.pos = 1 /\ host.outcome = "none" /\ host'.pos = 1 /\ host'.step = "send"
      /\ host'.number = 0 /\ host'.outcome = "none"
  BY <1>1, ClearedSound DEF Sound
<1>3. taken = 0
  BY <1>1, <1>2, Typed DEF Together
<1>4. Together' /\ Agreed'
  BY <1>1, <1>2, <1>3 DEF Together, Agreed
<1>5. RequestsInOrder'
  BY <1>1, <1>2, RequestsKept
<1>6. AnswersInOrder'
  <2>1. reply = "ACK" => host'.pos = 1 /\ host'.outcome # "done"
    BY <1>2
  <2> QED BY <1>1, <1>2, <2>1, AnswersKept
<1> QED BY <1>2, <1>4, <1>5, <1>6

\* The answer the host waited for: the device has taken the request in hand,
\* so the next one is the one it awaits.
LEMMA ProceedInv ==
  ASSUME Inv, TypeInv', ReceiveAnswer, Completes(host, Head(toHost).type),
         Proceeded(host, host'), Head(toHost).pos # 0
  PROVE  Inv'
<1> USE DEF Inv
<1>1. /\ host.step = "receive" /\ toHost # <<>> /\ toHost' = Tail(toHost)
      /\ UNCHANGED <<toDevice, phase, next, acked, reply, taken>>
  BY DEF ReceiveAnswer, device
<1>2. /\ Sound(host) /\ host.pos \in Nat \ {0} /\ taken \in Nat /\ host.outcome # "done"
      /\ toHost \in Seq(Answers) /\ host.pos <= Length(host.op)
      /\ \A i \in 1 .. Len(toHost) : toHost[i].pos \in Nat
      /\ (Request(host.op, host.pos) = "SYNC" <=> host.pos = 1)
      /\ reply \in {"ACK", "SYNC_ACK"}
  BY <1>1, Typed, RequestKinds, LinkAssumption DEF TypeInv, TypeOK, Sound, Process
<1>3. /\ Head(toHost) = toHost[1] /\ 1 \in 1 .. Len(toHost) /\ Len(toHost) \in Nat
      /\ \A i \in 1 .. Len(toHost') : toHost'[i] = toHost[i + 1] /\ i + 1 \in 1 .. Len(toHost) /\ 1 < i + 1
      /\ toHost[1].pos \in Nat /\ toHost[1].pos > 0 /\ toHost[1].type # "DEBUG"
  BY <1>1, <1>2, SequenceFacts DEF Completes
<1>4. Due(toHost[1], host, taken, reply)
  BY <1>3 DEF AnswersInOrder
<1>5. reply = "SYNC_ACK" /\ host.pos = taken
      /\ (toHost[1].type = "ACK" => host.pos <= toHost[1].pos)
  <2>1. CASE host.pos = 1
    <3>1. toHost[1].type = "SYNC_ACK"
      BY <1>2, <1>3, <2>1 DEF Completes
    <3> QED BY <1>2, <1>3, <1>4, <2>1, <3>1 DEF Due, Together
  <2>2. CASE host.pos # 1
    <3>1. toHost[1].type = "ACK" /\ reply # "ACK"
      BY <1>2, <1>3, <2>2 DEF Completes, AnswersInOrder
    <3>2. host.pos <= toHost[1].pos /\ toHost[1].pos <= taken
      BY <1>1, <1>2, <1>4, <3>1 DEF Due
    <3> QED BY <1>2, <1>3, <3>1, <3>2 DEF Together
  <2> QED BY <2>1, <2>2
<1>6. \A i \in 1 .. Len(toHost') :
        /\ toHost'[i].type # "DEBUG" => toHost'[i].pos > 0
        /\ toHost'[i].type = "ACK" => toHost'[i].pos > host.pos
  <2> SUFFICES ASSUME NEW i \in 1 .. Len(toHost'), toHost'[i].type # "DEBUG"
               PROVE  toHost'[i].pos > 0 /\ (toHost'[i].type = "ACK" => toHost'[i].pos > host.pos)
    OBVIOUS
  <2>1. toHost'[i] = toHost[i + 1] /\ i + 1 \in 1 .. Len(toHost) /\ 1 < i + 1
        /\ toHost[i + 1].pos \in Nat
    BY <1>2, <1>3
  <2>2. Due(toHost[i + 1], host, taken, reply) /\ Later(toHost[1], toHost[i + 1], reply)
    BY <1>3, <2>1 DEF AnswersInOrder
  <2>3. toHost[i + 1].pos > 0
    BY <1>3, <2>1, <2>2 DEF Later
  <2>4. CASE host.pos = 1
    BY <1>5, <2>1, <2>2, <2>3, <2>4 DEF Due
  <2>5. CASE host.pos # 1
    <3>1. toHost[1].type = "ACK"
      BY <1>2, <1>3, <2>5 DEF Completes
    <3>2. toHost[i + 1].type = "ACK" => toHost[1].pos < toHost[i + 1].pos
      BY <1>3, <1>5, <2>2, <3>1 DEF Later
    <3> QED BY <1>2, <1>3, <1>5, <2>1, <2>3, <3>1, <3>2
  <2> QED BY <2>4, <2>5
<1>7. host.sequence = next \/ phase = "failed"
  BY <1>1, <1>2, <1>5 DEF Agreed
<1>8. /\ host'.pos \in Nat
      /\ \/ host'.pos = host.pos /\ host'.step = "end" /\ host'.outcome = "done"
         \/ host'.pos = host.pos + 1 /\ host'.step = "image" /\ host'.sequence = host.sequence
            /\ host'.outcome # "done"
         \/ host'.pos = host.pos + 1 /\ host'.step = "send" /\ host'.number = host.sequence
            /\ host'.outcome # "done"
  BY <1>2 DEF Proceeded, Sound
<1>9. Together'
  BY <1>1, <1>2, <1>5, <1>8 DEF Together
<1>10. Agreed'
  BY <1>1, <1>2, <1>5, <1>7, <1>8 DEF Agreed
<1>11. RequestsInOrder'
  BY <1>1, <1>2, <1>8, RequestsKept
<1>12. AnswersInOrder'
  <2>1. /\ \A i \in 1 .. Len(toHost') : toHost'[i].type # "DEBUG" => toHost'[i].pos > 0
        /\ host'.step # "end" => \A i \in 1 .. Len(toHost') :
             toHost'[i].type = "ACK" /\ reply = "SYNC_ACK" => host'.pos <= toHost'[i].pos
    <3>1. \A i \in 1 .. Len(toHost') : toHost'[i].pos \in Nat
      BY <1>2, <1>3
    <3> QED BY <1>2, <1>6, <1>8, <3>1
  <2> QED BY <1>1, <1>5, <2>1, AnswersKept
<1> QED BY <1>9, <1>10, <1>11, <1>12

LEMMA SendInv ==
  ASSUME Inv, TypeInv', Send
  PROVE  Inv'
<1> USE DEF Inv
<1> DEFINE r == [kind |-> Request(host.op, host.pos), number |-> host.number, pos |-> host.pos]
<1>1. /\ host.step = "send" /\ host' = [host EXCEPT !.step = "receive"]
      /\ toDevice' = Append(toDevice, r)
      /\ UNCHANGED <<toHost, phase, next, acked, reply, taken>>
  BY DEF Send, device
<1>2. /\ Together' /\ Agreed' /\ AnswersInOrder'
      /\ host'.pos = host.pos /\ host'.step \notin {"image", "clear"}
  BY <1>1, Remains
<1>3. /\ Sound(host) /\ host.pos \in Nat \ {0} /\ taken \in Nat
      /\ toDevice \in Seq(Requests) /\ Len(toDevice) \in Nat
      /\ host.pos <= Length(host.op)
      /\ (Request(host.op, host.pos) = "SYNC" <=> host.pos = 1)
      /\ \A i \in 1 .. Len(toDevice) : toDevice[i].pos \in Nat
  BY <1>1, Typed, RequestKinds DEF TypeInv, Sound, Process
<1>4. r \in Requests /\ r.pos = host.pos /\ r.number = host.number
      /\ (r.kind = "SYNC" <=> r.pos = 1)
  <2>1. r.kind \in {"SYNC", "COMMAND", "DATA"} /\ r.number \in Numbers /\ r.pos \in Positions
    BY <1>3, RequestKinds DEF TypeInv, Sound, Process
  <2> QED BY <1>3, <2>1 DEF Requests
<1> HIDE DEF r
<1>5. /\ Len(toDevice') = Len(toDevice) + 1
      /\ \A i \in 1 .. Len(toDevice') :
           \/ i \in 1 .. Len(toDevice) /\ toDevice'[i] = toDevice[i]
           \/ i = Len(toDevice) + 1 /\ toDevice'[i] = r
  BY <1>1, <1>3, <1>4, AppendFacts
<1>6. SUFFICES ASSUME phase # "failed" PROVE RequestsInOrder'
  BY <1>1, <1>2 DEF RequestsInOrder
<1>7. Awaited(r, host', taken, next)
  <2>1. taken > 0 => IF host.pos = taken THEN host.sequence = next ELSE host.number = next
    BY <1>1, <1>6 DEF Agreed
  <2>2. host.sequence = NextNumber(host.number)
    BY <1>1, <1>3 DEF Sound
  <2>3. r.pos \in {taken, taken + 1} /\ (r.pos = 1 => r.number = 0)
    BY <1>1, <1>3, <1>4 DEF Together
  <2> QED BY <1>1, <1>2, <1>3, <1>4, <2>1, <2>2, <2>3 DEF Awaited
<1>8. ASSUME NEW i \in 1 .. Len(toDevice) PROVE Awaited(toDevice[i], host', taken, next)
                                             /\ toDevice[i].pos <= host.pos
  <2>1. Awaited(toDevice[i], host, taken, next)
    BY <1>6 DEF RequestsInOrder
  <2> QED BY <1>2, <1>3, <2>1 DEF Awaited
<1>9. ASSUME NEW i \in 1 .. Len(toDevice') PROVE Awaited(toDevice'[i], host', taken, next)
  BY <1>5, <1>7, <1>8
<1>10. ASSUME NEW i \in 1 .. Len(toDevice'), NEW j \in 1 .. Len(toDevice'), i < j
       PROVE  toDevice'[i].pos <= toDevice'[j].pos
  <2>1. i \in 1 .. Len(toDevice) /\ toDevice'[i] = toDevice[i]
    BY <1>3, <1>5, <1>10
  <2>2. CASE j \in 1 .. Len(toDevice) /\ toDevice'[j] = toDevice[j]
    BY <1>6, <1>10, <2>1, <2>2 DEF RequestsInOrder
  <2>3. CASE toDevice'[j] = r
    BY <1>4, <1>8, <2>1, <2>3
  <2> QED BY <1>5, <2>2, <2>3
<1> QED BY <1>1, <1>9, <1>10 DEF RequestsInOrder

\* The device takes a request: what follows it on the line is in order.
LEMMA TakeInv ==
  ASSUME Inv, TypeInv', phase # "failed", toDevice # <<>>, toDevice' = Tail(toDevice),
         UNCHANGED <<host, reply>>, phase' = "open",
         next' = NextNumber(Head(toDevice).number), NEW type \in {"ACK", "SYNC_ACK"},
         Answer(Head(toDevice), type), Head(toDevice).pos \in {1, taken + 1},
         type = "ACK" /\ reply = "SYNC_ACK" => Head(toDevice).pos = taken + 1 /\ taken > 0,
         type = "SYNC_ACK" => reply = "SYNC_ACK",
         taken <= 1 \/ Head(toDevice).pos = taken + 1
  PROVE  Inv' /\ taken' = Head(toDevice).pos
<1> USE DEF Inv
<1> DEFINE r == Head(toDevice)
           a == [type |-> type, pos |-> r.pos]
<1>1. /\ Sound(host) /\ host.pos \in Nat \ {0} /\ taken \in Nat
      /\ toDevice \in Seq(Requests) /\ Len(toDevice) \in Nat
      /\ toHost \in Seq(Answers) /\ Len(toHost) \in Nat
      /\ host.step \in {"send", "receive", "image"} => host.sequence = NextNumber(host.number)
      /\ host.step \in Steps
      /\ \A i \in 1 .. Len(toDevice) : toDevice[i].pos \in Nat
      /\ \A i \in 1 .. Len(toHost) : toHost[i].pos \in Nat
  BY Typed DEF TypeInv, Sound, Process
<1>2. /\ r = toDevice[1] /\ 1 \in 1 .. Len(toDevice) /\ r.pos \in Nat
      /\ \A i \in 1 .. Len(toDevice') :
           toDevice'[i] = toDevice[i + 1] /\ i + 1 \in 1 .. Len(toDevice) /\ 1 < i + 1
      /\ r \in Requests
  BY <1>1, SequenceFacts
<1>3. Awaited(r, host, taken, next) /\ r.pos > 0
  BY <1>1, <1>2 DEF RequestsInOrder
<1>4. /\ taken' = r.pos /\ r.pos <= host.pos /\ host.step # "clear"
      /\ toHost' = Append(toHost, a)
  BY <1>1, <1>2, <1>3 DEF Answer, Awaited, TypeInv, Sound
<1>5. a \in Answers
  BY <1>2 DEF Answers, Requests
<1> HIDE DEF a
<1>6. /\ a.type = type /\ a.pos = r.pos
      /\ Len(toHost') = Len(toHost) + 1
      /\ \A i \in 1 .. Len(toHost') :
           \/ i \in 1 .. Len(toHost) /\ toHost'[i] = toHost[i]
           \/ i = Len(toHost) + 1 /\ toHost'[i] = a
  <2>1. a.type = type /\ a.pos = r.pos
    BY DEF a
  <2> QED BY <1>1, <1>4, <1>5, <2>1, AppendFacts
<1>7. \/ r.pos = taken + 1
      \/ r.pos = taken /\ taken = 1
  BY <1>1, <1>3 DEF Awaited
<1>8. Together'
  BY <1>1, <1>2, <1>3, <1>4, <1>7 DEF Together, Awaited
<1>9. host.step # "end" => IF host.pos = taken' \/ host.step = "image"
                          THEN host.sequence = next' ELSE host.number = next'
  <2> SUFFICES ASSUME host.step # "end"
               PROVE  IF host.pos = r.pos \/ host.step = "image"
                      THEN host.sequence = next' ELSE host.number = next'
    BY <1>4
  <2>1. CASE taken = 0
    <3>1. r.pos = 1 /\ r.number = 0 /\ host.pos = 1 /\ host.number = 0
      BY <1>1, <1>3, <1>7, <2>1 DEF Awaited, Together
    <3> QED BY <1>1, <1>4, <3>1 DEF Steps
  <2>2. CASE taken > 0 /\ r.pos = taken
    <3>1. NextNumber(r.number) = next
      BY <1>3, <2>2 DEF Awaited
    <3> QED BY <2>2, <3>1 DEF Agreed
  <2>3. CASE taken > 0 /\ r.pos = taken + 1
    <3>1. r.number = next /\ host.pos = r.pos /\ host.step # "image" /\ host.pos # taken
      BY <1>1, <1>2, <1>3, <2>3 DEF Awaited, Together
    <3>2. host.number = next
      BY <2>3, <3>1 DEF Agreed
    <3> QED BY <1>1, <1>4, <3>1, <3>2 DEF Steps
  <2> QED BY <1>1, <1>7, <2>1, <2>2, <2>3
<1>10. Agreed'
  BY <1>9 DEF Agreed
<1>11. ASSUME NEW i \in 1 .. Len(toDevice')
       PROVE  Awaited(toDevice'[i], host, r.pos, next')
  <2> DEFINE q == toDevice[i + 1]
  <2>1. toDevice'[i] = q /\ i + 1 \in 1 .. Len(toDevice) /\ q.pos \in Nat
    BY <1>1, <1>2
  <2>2. Awaited(q, host, taken, next) /\ r.pos <= q.pos
    BY <1>2, <2>1 DEF RequestsInOrder
  <2> HIDE DEF q
  <2>3. q.pos \in {r.pos, r.pos + 1}
    BY <1>1, <1>2, <1>7, <2>1, <2>2 DEF Awaited
  <2>4. IF q.pos = r.pos THEN NextNumber(q.number) = next' ELSE q.number = next'
    <3>1. CASE taken = 0
      <4>1. r.pos = 1 /\ r.number = 0 /\ q.pos = 1 /\ q.number = 0
        BY <1>1, <1>3, <1>7, <2>2, <3>1 DEF Awaited
      <4> QED BY <4>1
    <3>2. CASE taken > 0 /\ r.pos = taken
      <4>1. NextNumber(r.number) = next /\ next' = next
        BY <1>3, <3>2 DEF Awaited
      <4> QED BY <2>2, <3>2, <4>1 DEF Awaited
    <3>3. CASE taken > 0 /\ r.pos = taken + 1
      <4>1. r.number = next /\ q.pos = r.pos /\ q.number = next
        BY <1>1, <1>2, <1>3, <2>1, <2>2, <3>3 DEF Awaited
      <4> QED BY <4>1
    <3> QED BY <1>1, <1>7, <3>1, <3>2, <3>3
  <2>5. Awaited(q, host, r.pos, next')
    BY <2>2, <2>3, <2>4 DEF Awaited
  <2> QED BY <2>1, <2>5
<1>12. ASSUME NEW i \in 1 .. Len(toDevice'), NEW j \in 1 .. Len(toDevice'), i < j
       PROVE  toDevice'[i].pos <= toDevice'[j].pos
  <2>1. /\ toDevice'[i] = toDevice[i + 1] /\ i + 1 \in 1 .. Len(toDevice)
        /\ toDevice'[j] = toDevice[j + 1] /\ j + 1 \in 1 .. Len(toDevice) /\ i + 1 < j + 1
    BY <1>1, <1>2, <1>12
  <2> QED BY <2>1 DEF RequestsInOrder
<1>13. RequestsInOrder'
  BY <1>4, <1>11, <1>12 DEF RequestsInOrder
<1>14. ASSUME NEW i \in 1 .. Len(toHost) PROVE Due(toHost[i], host, r.pos, reply)
  <2>1. Due(toHost[i], host, taken, reply) /\ toHost[i].pos \in Nat
    BY <1>1 DEF AnswersInOrder
  <2>2. toHost[i].type # "DEBUG" => toHost[i].pos <= r.pos
    BY <1>1, <1>2, <1>7, <2>1 DEF Due
  <2> QED BY <2>1, <2>2 DEF Due
<1>15. Due(a, host, r.pos, reply)
  <2>1. a.type = "ACK" /\ reply = "SYNC_ACK" => a.pos > 1 /\ host.pos <= a.pos
    BY <1>1, <1>2, <1>6 DEF Together
  <2>2. a.type = "SYNC_ACK" => reply = "SYNC_ACK"
    BY <1>6
  <2>3. a.pos > 0 /\ a.pos <= r.pos
    BY <1>2, <1>3, <1>4, <1>6
  <2> QED BY <2>1, <2>2, <2>3 DEF Due
<1>16. ASSUME NEW i \in 1 .. Len(toHost') PROVE Due(toHost'[i], host', taken', reply')
  BY <1>4, <1>6, <1>14, <1>15
<1>17. ASSUME NEW i \in 1 .. Len(toHost'), NEW j \in 1 .. Len(toHost'), i < j
       PROVE  Later(toHost'[i], toHost'[j], reply)
  <2>1. i \in 1 .. Len(toHost) /\ toHost'[i] = toHost[i]
    BY <1>1, <1>6, <1>17
  <2>2. CASE j \in 1 .. Len(toHost) /\ toHost'[j] = toHost[j]
    BY <1>17, <2>1, <2>2 DEF AnswersInOrder
  <2>3. CASE toHost'[j] = a
    <3>1. Due(toHost[i], host, taken, reply) /\ toHost[i].pos \in Nat
      BY <1>1, <2>1 DEF AnswersInOrder
    <3>2. toHost[i].type # "DEBUG" => toHost[i].pos <= taken
      BY <3>1 DEF Due
    <3>3. /\ taken <= a.pos /\ a.pos \in Nat
          /\ a.type = "ACK" /\ reply = "SYNC_ACK" => a.pos = taken + 1
      BY <1>1, <1>2, <1>6, <1>7
    <3> QED BY <1>1, <2>1, <2>3, <3>1, <3>2, <3>3 DEF Later
  <2> QED BY <1>6, <2>2, <2>3
<1>18. AnswersInOrder'
  <2>1. reply' = "ACK" => host'.pos = 1 /\ host'.outcome # "done"
    BY DEF AnswersInOrder
  <2> QED BY <1>16, <1>17, <2>1 DEF AnswersInOrder
<1> QED BY <1>4, <1>8, <1>10, <1>13, <1>18

\* It takes a request of an ended process: of this one it has taken none.
LEMMA TakeOrphanInv ==
  ASSUME Inv, TypeInv', phase # "failed", toDevice # <<>>, toDevice' = Tail(toDevice),
         UNCHANGED <<host, reply>>, NEW type \in {"ACK", "SYNC_ACK"},
         Answer(Head(toDevice), type), Head(toDevice).pos = 0
  PROVE  Inv' /\ taken = 0 /\ taken' = 0
<1> USE DEF Inv
<1> DEFINE a == [type |-> type, pos |-> 0]
<1>1. /\ host.pos \in Nat \ {0} /\ taken \in Nat
      /\ toDevice \in Seq(Requests) /\ toHost \in Seq(Answers) /\ Len(toHost) \in Nat
      /\ \A i \in 1 .. Len(toHost) : toHost[i].pos \in Nat
  BY Typed DEF TypeInv
<1>2. /\ Head(toDevice) = toDevice[1] /\ 1 \in 1 .. Len(toDevice)
      /\ \A i \in 1 .. Len(toDevice') :
           toDevice'[i] = toDevice[i + 1] /\ i + 1 \in 1 .. Len(toDevice)
  BY <1>1, SequenceFacts
<1>3. taken = 0 /\ taken' = 0 /\ host.pos = 1 /\ toHost' = Append(toHost, a)
  <2>1. Awaited(Head(toDevice), host, taken, next)
    BY <1>2 DEF RequestsInOrder
  <2>2. taken = 0
    BY <2>1 DEF Awaited
  <2> QED BY <1>1, <2>2 DEF Together, Answer
<1>4. a \in Answers /\ a.type = type /\ a.pos = 0
  BY HostAssumption DEF Answers, Positions
<1> HIDE DEF a
<1>5. /\ Len(toHost') = Len(toHost) + 1
      /\ \A i \in 1 .. Len(toHost') :
           \/ i \in 1 .. Len(toHost) /\ toHost'[i] = toHost[i]
           \/ i = Len(toHost) + 1 /\ toHost'[i] = a
  BY <1>1, <1>3, <1>4, AppendFacts
<1>6. Together' /\ Agreed'
  BY <1>3 DEF Together, Agreed
<1>7. RequestsInOrder'
  <2>1. ASSUME NEW i \in 1 .. Len(toDevice') PROVE Awaited(toDevice'[i], host, 0, next')
    <3>1. toDevice'[i] = toDevice[i + 1] /\ Awaited(toDevice[i + 1], host, taken, next)
      BY <1>2 DEF RequestsInOrder
    <3> QED BY <1>3, <3>1 DEF Awaited
  <2>2. ASSUME NEW i \in 1 .. Len(toDevice'), NEW j \in 1 .. Len(toDevice'), i < j
        PROVE  toDevice'[i].pos <= toDevice'[j].pos
    <3>1. /\ toDevice'[i] = toDevice[i + 1] /\ i + 1 \in 1 .. Len(toDevice)
          /\ toDevice'[j] = toDevice[j + 1] /\ j + 1 \in 1 .. Len(toDevice) /\ i + 1 < j + 1
      BY <1>2, <2>2
    <3> QED BY <3>1 DEF RequestsInOrder
  <2> QED BY <1>3, <2>1, <2>2 DEF RequestsInOrder
<1>8. ASSUME NEW i \in 1 .. Len(toHost') PROVE Due(toHost'[i], host, 0, reply)
  <2>1. Due(a, host, 0, reply)
    BY <1>3, <1>4 DEF Due
  <2> QED BY <1>3, <1>5, <2>1 DEF AnswersInOrder
<1>9. ASSUME NEW i \in 1 .. Len(toHost'), NEW j \in 1 .. Len(toHost'), i < j
      PROVE  Later(toHost'[i], toHost'[j], reply)
  <2>1. i \in 1 .. Len(toHost) /\ toHost'[i] = toHost[i]
    BY <1>1, <1>5, <1>9
  <2>2. CASE j \in 1 .. Len(toHost) /\ toHost'[j] = toHost[j]
    BY <1>9, <2>1, <2>2 DEF AnswersInOrder
  <2>3. CASE toHost'[j] = a
    <3>1. toHost[i].pos \in Nat /\ (toHost[i].type # "DEBUG" => toHost[i].pos <= 0)
      BY <1>1, <1>3, <2>1 DEF AnswersInOrder, Due
    <3> QED BY <1>4, <2>1, <2>3, <3>1 DEF Later
  <2> QED BY <1>5, <2>2, <2>3
<1>10. AnswersInOrder'
  BY <1>3, <1>8, <1>9 DEF AnswersInOrder
<1> QED BY <1>3, <1>6, <1>7, <1>10

LEMMA TakeSyncInv ==
  ASSUME Inv, TypeInv', TakeSync
  PROVE  /\ Inv'
         /\ \/ Head(toDevice).pos = 0 /\ taken' = taken
            \/ taken <= 1 /\ taken' = 1
<1> USE DEF Inv
<1> DEFINE r == Head(toDevice)
<1>1. /\ phase # "failed" /\ toDevice # <<>> /\ toDevice' = Tail(toDevice)
      /\ UNCHANGED <<host, reply>> /\ r.kind = "SYNC" /\ Answer(r, reply)
      /\ phase' = "open" /\ next' = NextNumber(r.number)
  BY DEF TakeSync, Polls, Device!Open, Device!Succ, NextNumber
<1>2. r = toDevice[1] /\ 1 \in 1 .. Len(toDevice) /\ taken \in Nat
  BY <1>1, Typed, SequenceFacts
<1>3. Awaited(r, host, taken, next)
  BY <1>1, <1>2 DEF RequestsInOrder
<1>4. reply \in {"ACK", "SYNC_ACK"} /\ ~(reply = "ACK" /\ reply = "SYNC_ACK")
  BY LinkAssumption DEF TypeInv, TypeOK
<1>5. CASE r.pos = 0
  <2> HIDE DEF r
  <2>1. Inv' /\ taken = 0 /\ taken' = 0
    BY <1>1, <1>4, <1>5, TakeOrphanInv DEF r
  <2> QED BY <1>5, <2>1 DEF r
<1>6. CASE r.pos # 0
  <2>1. r.pos = 1 /\ taken <= 1
    BY <1>1, <1>2, <1>3, <1>6 DEF Awaited
  <2> HIDE DEF r
  <2>2. Inv' /\ taken' = r.pos
    BY <1>1, <1>2, <1>4, <2>1, TakeInv DEF r
  <2> QED BY <2>1, <2>2
<1> QED BY <1>5, <1>6

\* The number is the one awaited, so the request is the one that follows.
LEMMA TakeRequestInv ==
  ASSUME Inv, TypeInv', TakeRequest
  PROVE  /\ Inv'
         /\ \/ Head(toDevice).pos = 0 /\ taken' = taken
            \/ Head(toDevice).pos = taken + 1 /\ taken' = taken + 1
<1> USE DEF Inv
<1> DEFINE r == Head(toDevice)
<1>1. /\ phase = "open" /\ phase # "failed" /\ toDevice # <<>> /\ toDevice' = Tail(toDevice)
      /\ UNCHANGED <<host, reply>> /\ r.kind # "SYNC" /\ Answer(r, "ACK")
      /\ phase' = "open" /\ r.number = next /\ next' = NextNumber(r.number)
  BY DEF TakeRequest, Polls, Expected
<1>2. r = toDevice[1] /\ 1 \in 1 .. Len(toDevice) /\ taken \in Nat /\ r.pos \in Nat
  BY <1>1, Typed, SequenceFacts
<1>3. next \in Numbers
  BY DEF TypeInv, TypeOK
<1>4. Awaited(r, host, taken, next)
  BY <1>1, <1>2 DEF RequestsInOrder
<1>5. CASE r.pos = 0
  <2> HIDE DEF r
  <2>1. Inv' /\ taken = 0 /\ taken' = 0
    BY <1>1, <1>5, TakeOrphanInv DEF r
  <2> QED BY <1>5, <2>1 DEF r
<1>6. CASE r.pos # 0
  <2>1. r.pos # 1 /\ taken > 0
    BY <1>1, <1>2, <1>4, <1>6 DEF Awaited
  <2>2. r.pos # taken
    BY <1>1, <1>3, <1>4, <2>1, NextNumberType DEF Awaited
  <2>3. r.pos = taken + 1
    BY <1>4, <1>6, <2>2 DEF Awaited
  <2> HIDE DEF r
  <2>4. Inv' /\ taken' = r.pos
    BY <1>1, <2>1, <2>3, TakeInv DEF r
  <2> QED BY <2>3, <2>4 DEF r
<1> QED BY <1>5, <1>6

\* The image is decoded, and the first chunk is prepared.
LEMMA DecodedInv ==
  ASSUME Inv, TypeInv', DecodeImage(TRUE)
  PROVE  Inv'
<1> USE DEF Inv
<1>1. /\ host.step = "image" /\ host' = Prepare(host)
      /\ UNCHANGED <<toDevice, toHost, phase, next, reply, taken>>
  BY DEF DecodeImage, Decoded, device
<1>2. /\ Sound(host) /\ host.pos \in Nat /\ taken \in Nat /\ host.state = "ready"
      /\ host.pos = 3 /\ Idle(host)
  BY <1>1, Typed DEF TypeInv, Sound, Idle
<1>3. host'.pos = host.pos /\ host'.step = "send" /\ host'.number = host.sequence
  BY <1>1, <1>2, PrepareSound
<1>4. host'.outcome # "done"
  BY <1>3 DEF TypeInv, Sound
<1>5. Together'
  BY <1>1, <1>2, <1>3, <1>4 DEF Together
<1>6. Agreed'
  BY <1>1, <1>2, <1>3 DEF Agreed, Together
<1>7. RequestsInOrder'
  BY <1>1, <1>2, <1>3, RequestsKept
<1>8. AnswersInOrder'
  <2>1. reply = "ACK" => host'.pos = 1 /\ host'.outcome # "done"
    BY <1>3, <1>4 DEF AnswersInOrder
  <2> QED BY <1>1, <1>3, <2>1, AnswersKept
<1> QED BY <1>5, <1>6, <1>7, <1>8

LEMMA DebugInv ==
  ASSUME Inv, TypeInv', SendDebug
  PROVE  Inv'
<1> USE DEF Inv
<1> DEFINE a == [type |-> "DEBUG", pos |-> 0]
<1>1. toHost' = Append(toHost, a) /\ UNCHANGED <<host, toDevice, phase, next, reply, taken>>
  BY DEF SendDebug, device
<1>2. a \in Answers /\ a.type = "DEBUG"
  BY HostAssumption DEF Answers, Positions
<1> HIDE DEF a
<1>3. /\ Len(toHost') = Len(toHost) + 1 /\ Len(toHost) \in Nat
      /\ \A i \in 1 .. Len(toHost') :
           \/ i \in 1 .. Len(toHost) /\ toHost'[i] = toHost[i]
           \/ i = Len(toHost) + 1 /\ toHost'[i] = a
  BY <1>1, <1>2, Typed, AppendFacts
<1>4. Together' /\ Agreed' /\ RequestsInOrder'
  BY <1>1 DEF Together, Agreed, RequestsInOrder
<1>5. Due(a, host, taken, reply)
  BY <1>2 DEF Due
<1>6. ASSUME NEW i \in 1 .. Len(toHost') PROVE Due(toHost'[i], host', taken', reply')
  BY <1>1, <1>3, <1>5 DEF AnswersInOrder
<1>7. ASSUME NEW i \in 1 .. Len(toHost'), NEW j \in 1 .. Len(toHost'), i < j
      PROVE  Later(toHost'[i], toHost'[j], reply)
  <2>1. i \in 1 .. Len(toHost) /\ toHost'[i] = toHost[i]
    BY <1>3, <1>7
  <2>2. CASE j \in 1 .. Len(toHost) /\ toHost'[j] = toHost[j]
    BY <1>7, <2>1, <2>2 DEF AnswersInOrder
  <2>3. CASE toHost'[j] = a
    BY <1>2, <2>3 DEF Later
  <2> QED BY <1>3, <2>2, <2>3
<1>8. reply' = "ACK" => host'.pos = 1 /\ host'.outcome # "done"
  BY <1>1 DEF AnswersInOrder
<1> QED BY <1>1, <1>4, <1>6, <1>7, <1>8 DEF AnswersInOrder

\* Packets are lost, and the device fails.
LEMMA LossInv ==
  ASSUME Inv, TypeInv', RejectRequest \/ LoseRequest \/ Fail \/ LoseAnswer \/ ClearInput
  PROVE  Inv'
<1> USE DEF Inv
<1>1. UNCHANGED <<host, reply, taken>>
  BY DEF RejectRequest, LoseRequest, Fail, LoseAnswer, ClearInput, device
<1>2. Together'
  BY <1>1 DEF Together
<1>3. /\ toDevice' = toDevice \/ (toDevice # <<>> /\ toDevice' = Tail(toDevice))
      /\ toHost' = toHost \/ (toHost # <<>> /\ toHost' = Tail(toHost))
      /\ phase' = "failed" \/ UNCHANGED <<phase, next>>
  BY DEF RejectRequest, LoseRequest, Fail, LoseAnswer, ClearInput, Polls, device, Device!Fail
<1>4. Agreed'
  BY <1>1, <1>3 DEF Agreed
<1>5. RequestsInOrder'
  <2>1. CASE phase' = "failed"
    BY <2>1 DEF RequestsInOrder
  <2>2. CASE UNCHANGED <<phase, next>>
    BY <1>1, <1>3, <2>2, Typed, RequestsKept
  <2> QED BY <1>3, <2>1, <2>2
<1>6. AnswersInOrder'
  <2>1. reply = "ACK" => host'.pos = 1 /\ host'.outcome # "done"
    BY <1>1 DEF AnswersInOrder
  <2>2. CASE host.step # "end"
    BY <1>1, <1>3, <2>1, <2>2, AnswersKept
  <2>3. CASE host.step = "end"
    BY <1>1, <1>3, <2>1, <2>3, AnswersKept
  <2> QED BY <2>2, <2>3
<1> QED BY <1>2, <1>4, <1>5, <1>6

\* What an answer makes of the requests held for carried out.
LEMMA AnswerCompletes ==
  ASSUME TypeInv, host.step = "receive"
  PROVE  /\ completed = host.pos - 1 /\ host.pos \in Nat \ {0}
         /\ Proceeded(host, host') => completed' = completed + 1
         /\ Remained(host, host') => completed' = completed
<1>1. Sound(host) /\ host.pos \in Nat \ {0} /\ host.outcome # "done"
  BY Typed DEF TypeInv, Sound
<1>2. completed = host.pos - 1
  BY <1>1 DEF completed
<1>3. ASSUME Proceeded(host, host') PROVE completed' = completed + 1
  BY <1>1, <1>2, <1>3 DEF Proceeded, Sound, completed
<1>4. ASSUME Remained(host, host') PROVE completed' = completed
  BY <1>1, <1>2, <1>4 DEF Remained, completed
<1> QED BY <1>1, <1>2, <1>3, <1>4

\* The first packet on its way to the host, and what is made of it.
LEMMA AnswerRead ==
  ASSUME TypeInv, ReceiveAnswer
  PROVE  /\ host.step = "receive" /\ toHost # <<>> /\ toHost' = Tail(toHost)
         /\ UNCHANGED <<toDevice, phase, next, taken, reply>>
         /\ IF Completes(host, Head(toHost).type) THEN Proceeded(host, host')
                                                 ELSE Remained(host, host')
<1>1. /\ host.step = "receive" /\ toHost # <<>> /\ toHost' = Tail(toHost)
      /\ host' = Answered(host, Head(toHost).type) /\ Sound(host) /\ toHost \in Seq(Answers)
      /\ UNCHANGED <<toDevice, phase, next, taken, reply>>
  BY Typed DEF ReceiveAnswer, device, TypeInv
<1>2. Head(toHost) \in Answers
  BY <1>1, SequenceFacts
<1>3. Head(toHost).type \in {"ACK", "SYNC_ACK", "DEBUG", "nothing"}
  BY <1>2 DEF Answers
<1> QED BY <1>1, <1>3, AnsweredSound

\* One step of anybody that does not mislead the process, and what it does to
\* the requests taken and done.
LEMMA NextInv ==
  ASSUME Inv, Next, ~misled'
  PROVE  /\ Inv'
         /\ \/ taken' = 0 /\ host'.pos = 1 /\ host'.outcome = "none"
            \/ taken' = taken /\ Proceeded(host, host') /\ host.step # "end"
            \/ taken' = taken /\ host'.pos = host.pos
               /\ (host'.outcome = "done" <=> host.outcome = "done")
            \/ taken' = taken + 1 /\ host' = host
            \/ taken' = taken /\ host' = host
<1> USE DEF Inv
<1>1. TypeInv'
  BY StepTypes
<1>2. /\ Sound(host) /\ host.pos \in Nat \ {0} /\ taken \in Nat
  BY Typed DEF TypeInv
<1>3. /\ TakeRequest => Inv' /\ taken' \in {taken, taken + 1} /\ host' = host
      /\ TakeSync => Inv' /\ taken' \in {taken, taken + 1} /\ host' = host
  BY <1>1, <1>2, TakeRequestInv, TakeSyncInv DEF TakeRequest, TakeSync
<1>4. ASSUME NEW op \in Operations, StartProcess(op)
      PROVE  Inv' /\ taken' = 0 /\ host'.pos = 1 /\ host'.outcome = "none"
  BY <1>1, <1>4, StartInv, StartSound DEF StartProcess
<1>5. ASSUME Send \/ SendNothing
      PROVE  Inv' /\ taken' = taken /\ host'.pos = host.pos /\ host'.outcome = host.outcome
  <2>1. /\ host.step = "send" /\ host' = [host EXCEPT !.step = "receive"]
        /\ UNCHANGED <<toHost, phase, next, taken, reply>>
    BY <1>5 DEF Send, SendNothing, device
  <2>2. host'.pos = host.pos /\ host'.outcome = host.outcome
    BY <1>2, <2>1 DEF Sound, Process
  <2>3. CASE Send
    BY <1>1, <2>1, <2>2, <2>3, SendInv
  <2>4. CASE SendNothing
    <3>1. toDevice' = toDevice
      BY <2>4 DEF SendNothing
    <3> QED BY <1>1, <2>1, <2>2, <3>1, Remains
  <2> QED BY <1>5, <2>3, <2>4
<1>6. ASSUME ReceiveAnswer \/ ReceiveNothing
      PROVE  /\ Inv' /\ taken' = taken
             /\ \/ Proceeded(host, host') /\ host.step # "end"
                \/ Remained(host, host') /\ host.step # "end"
  <2>1. /\ host.step = "receive" /\ UNCHANGED <<toDevice, phase, next, taken, reply>>
        /\ toHost' = toHost \/ (toHost # <<>> /\ toHost' = Tail(toHost))
    BY <1>6 DEF ReceiveAnswer, ReceiveNothing, device
  <2>2. CASE ReceiveAnswer
    <3>1. CASE Completes(host, Head(toHost).type)
      <4>1. Proceeded(host, host') /\ completed' # completed
        BY <2>1, <2>2, <3>1, AnswerRead, AnswerCompletes
      <4>2. misled' = (misled \/ (Head(toHost).pos = 0 /\ completed' # completed))
        BY <2>2, Zenon DEF ReceiveAnswer
      <4>3. Head(toHost).pos # 0
        BY <4>1, <4>2, Zenon
      <4> QED BY <1>1, <2>1, <2>2, <3>1, <4>1, <4>3, ProceedInv
    <3>2. CASE ~Completes(host, Head(toHost).type)
      <4>1. Remained(host, host')
        BY <2>2, <3>2, AnswerRead
      <4> QED BY <1>1, <2>1, <4>1, Remains
    <3> QED BY <3>1, <3>2
  <2>3. CASE ReceiveNothing
    <3>1. ~Completes(host, "nothing")
      BY DEF Completes
    <3>2. Remained(host, host')
      BY <1>2, <2>1, <2>3, <3>1, AnsweredSound DEF ReceiveNothing
    <3> QED BY <1>1, <2>1, <3>2, Remains
  <2> QED BY <1>6, <2>2, <2>3
<1>7. ASSUME NEW ok \in BOOLEAN, DecodeImage(ok)
      PROVE  /\ Inv' /\ taken' = taken /\ host'.pos = host.pos
             /\ host.outcome # "done" /\ host'.outcome # "done"
  <2>1. /\ host.step = "image" /\ UNCHANGED <<toDevice, toHost, phase, next, taken, reply>>
        /\ host.outcome = "none"
    BY <1>2, <1>7 DEF DecodeImage, device, Sound
  <2>2. CASE ok
    <3>1. DecodeImage(TRUE)
      BY <1>7, <2>2
    <3>2. Idle(host) /\ host.state = "ready" /\ host.pos = 3
      BY <1>2, <2>1 DEF Sound, Idle
    <3>3. host'.pos = host.pos /\ Sound(host') /\ host'.step = "send"
      BY <3>1, <3>2, PrepareSound DEF DecodeImage, Decoded
    <3>4. host'.outcome # "done"
      BY <3>3 DEF Sound
    <3> QED BY <1>1, <2>1, <3>1, <3>3, <3>4, DecodedInv
  <2>3. CASE ~ok
    <3>1. Remained(host, host') /\ host'.step = "end"
      <4>1. host' = End(host, "DecodeError")
        BY <1>7, <2>3 DEF DecodeImage, Decoded
      <4>2. End(host, "DecodeError").step = "end"
        BY <1>2 DEF End, Sound, Process
      <4> QED BY <1>2, <2>1, <4>1, <4>2, EndSound DEF Failing
    <3> QED BY <1>1, <2>1, <3>1, Remains DEF Remained
  <2> QED BY <2>2, <2>3
<1>8. ASSUME NEW outcome \in {"ReadError", "WriteError", "killed"}, Break(outcome)
      PROVE  /\ Inv' /\ taken' = taken /\ Remained(host, host') /\ host.step # "end"
  <2>1. /\ host.step # "end" /\ host' = End(host, outcome)
        /\ UNCHANGED <<toDevice, toHost, phase, next, taken, reply>>
    BY <1>8 DEF Break, device
  <2>2. Remained(host, host')
    BY <1>2, <2>1, EndSound DEF Failing
  <2>3. host'.step = "end"
    BY <1>2, <2>1 DEF End, Sound, Process
  <2> QED BY <1>1, <2>1, <2>2, <2>3, Remains
<1>9. ASSUME RejectRequest \/ LoseRequest \/ Fail \/ LoseAnswer \/ ClearInput \/ SendDebug
      PROVE  Inv' /\ taken' = taken /\ host' = host
  <2>1. taken' = taken /\ host' = host
    BY <1>9 DEF RejectRequest, LoseRequest, Fail, LoseAnswer, ClearInput, SendDebug
  <2> QED BY <1>1, <1>9, <2>1, LossInv, DebugInv
<1>10. ASSUME Remained(host, host'), host.step # "end"
       PROVE  /\ host'.pos = host.pos
              /\ host'.outcome # "done" /\ host.outcome # "done"
  BY <1>2, <1>10 DEF Remained, Sound, Process, Steps
<1>11. ASSUME InputCleared
       PROVE  /\ Inv' /\ taken' = taken /\ host'.pos = host.pos /\ host'.outcome = host.outcome
  BY <1>1, <1>11, ClearedInv DEF InputCleared
<1>12. CASE TakeSync \/ TakeRequest
  BY <1>3, <1>12
<1>13. CASE ~(TakeSync \/ TakeRequest)
  BY <1>4, <1>5, <1>6, <1>7, <1>8, <1>9, <1>10, <1>11, <1>13 DEF Next, HostStep
<1> QED BY <1>12, <1>13

LEMMA StutterInv ==
  ASSUME Inv, UNCHANGED vars
  PROVE  Inv'
BY DEF Inv, TypeInv, TypeOK, Together, Agreed, RequestsInOrder, AnswersInOrder, vars, device

-----------------------------------------------------------------------------
(* Theorems                                                                *)

\* The variables keep to their types; the retries of both counters stay
\* within MAX_RETRIES.
THEOREM TypeCorrect == Spec => []TypeOK
<1>1. TypeInv => TypeOK
  BY DEF TypeInv
<1> QED BY InitTypes, StepTypes, <1>1, PTL DEF Spec

\* No operation of the host ends for a transition that state.zig refuses or
\* by its own count of retries, and error_state is where running out of tries
\* leads.
THEOREM ErrorExplained == Spec => []ErrorStateExplained
<1>1. TypeInv => ErrorStateExplained
  BY DEF TypeInv, Sound, Failures, ErrorStateExplained
<1> QED BY InitTypes, StepTypes, <1>1, PTL DEF Spec

\* How a process is misled, and how that ends: only by an answer it reads,
\* and with the process.
LEMMA MisledSteps ==
  ASSUME Next
  PROVE  /\ misled => misled' \/ \E op \in Operations : StartProcess(op)
         /\ misled' => misled \/ ReceiveAnswer
<1>1. ASSUME NEW op \in Operations, StartProcess(op) PROVE ~misled'
  BY <1>1 DEF StartProcess
<1>2. ASSUME ReceiveAnswer PROVE misled => misled'
  BY <1>2, Zenon DEF ReceiveAnswer
<1>3. ASSUME \/ ClearInput \/ InputCleared \/ Send \/ SendNothing \/ ReceiveNothing
             \/ \E ok \in BOOLEAN : DecodeImage(ok)
             \/ \E outcome \in {"ReadError", "WriteError", "killed"} : Break(outcome)
             \/ TakeSync \/ TakeRequest \/ RejectRequest \/ LoseRequest
             \/ Fail \/ SendDebug \/ LoseAnswer
      PROVE  misled' = misled
  BY <1>3 DEF ClearInput, InputCleared, Send, SendNothing, ReceiveNothing, DecodeImage, Break,
              TakeSync, TakeRequest, RejectRequest, LoseRequest, Fail, SendDebug, LoseAnswer
<1>4. (\E op \in Operations : StartProcess(op)) \/ ReceiveAnswer \/ misled' = misled
  BY <1>3 DEF Next, HostStep
<1>5. CASE \E op \in Operations : StartProcess(op)
  BY <1>1, <1>5
<1>6. CASE ReceiveAnswer
  BY <1>2, <1>6
<1>7. CASE misled' = misled
  BY <1>7, Zenon
<1> QED BY <1>4, <1>5, <1>6, <1>7

\* The answer that misleads a process is taken for that to its SYNC.
LEMMA MistakeStep ==
  ASSUME Inv, ReceiveAnswer, ~misled, misled'
  PROVE  completed = 0 /\ completed' = 1 /\ taken' = taken
<1> USE DEF Inv
<1>1. Head(toHost).pos = 0 /\ completed' # completed
  <2>1. misled' = (misled \/ (Head(toHost).pos = 0 /\ completed' # completed))
    BY Zenon DEF ReceiveAnswer
  <2> QED BY <2>1, Zenon
<1>2. /\ Completes(host, Head(toHost).type) /\ Proceeded(host, host')
      /\ completed = host.pos - 1 /\ completed' = completed + 1 /\ taken' = taken
  BY <1>1, AnswerRead, AnswerCompletes
<1>3. Head(toHost) = toHost[1] /\ 1 \in 1 .. Len(toHost)
  BY Typed, AnswerRead, SequenceFacts
<1>4. host.pos = 1
  <2>1. Due(toHost[1], host, taken, reply)
    BY <1>3 DEF AnswersInOrder
  <2> QED BY <1>1, <1>2, <1>3, <2>1 DEF Due, Completes
<1> QED BY <1>2, <1>4

\* The invariant behind the rest.
THEOREM Invariance == Spec => []Guarded
<1>1. Init => Guarded
  BY InitInv DEF Guarded, Inv
<1>2. Guarded /\ [Next]_vars => Guarded'
  <2> SUFFICES ASSUME Guarded, [Next]_vars PROVE Guarded'
    OBVIOUS
  <2>1. TypeInv /\ TypeInv'
    BY StepTypes DEF Guarded
  <2>2. ASSUME NEW op \in Operations, StartProcess(op) PROVE Inv'
    BY <2>1, <2>2, StartInv
  <2>3. CASE Next
    <3>1. ASSUME ~misled' PROVE Inv'
      <4>1. CASE misled
        BY <2>2, <2>3, <3>1, <4>1, MisledSteps
      <4>2. CASE ~misled
        BY <2>3, <3>1, <4>2, NextInv DEF Guarded
      <4> QED BY <4>1, <4>2
    <3> QED BY <2>1, <3>1 DEF Guarded
  <2>4. CASE UNCHANGED vars
    <3>1. misled' = misled
      BY <2>4 DEF vars
    <3> QED BY <2>1, <2>4, <3>1, StutterInv DEF Guarded
  <2> QED BY <2>3, <2>4
<1> QED BY <1>1, <1>2, PTL DEF Spec

LEMMA InvBounds ==
  ASSUME Inv
  PROVE  completed \in Nat /\ completed <= taken /\ taken <= host.pos
BY Typed DEF Inv, Together, completed

\* What the host holds for carried out the device has taken, unless an answer
\* left from a process before was taken for that to the SYNC.
THEOREM Honest == Spec => []CompletedMeansTaken
<1>1. Guarded => CompletedMeansTaken
  BY InvBounds DEF Guarded, CompletedMeansTaken
<1> QED BY Invariance, <1>1, PTL

\* The device takes the requests of a process that is not misled in their
\* order, none twice, in between those left on the line by others.
THEOREM InOrder == Spec => TakenInOrder
<1> DEFINE A == ~misled =>
                  /\ TakeRequest => Head(toDevice).pos \in {0, taken + 1}
                  /\ TakeSync => Head(toDevice).pos = 0 \/ taken <= 1
<1>1. Guarded /\ [Next]_vars => [A]_vars
  <2> SUFFICES ASSUME Guarded, [Next]_vars, ~misled
               PROVE  /\ TakeRequest => Head(toDevice).pos \in {0, taken + 1}
                      /\ TakeSync => Head(toDevice).pos = 0 \/ taken <= 1
    OBVIOUS
  <2>1. Inv /\ TypeInv'
    BY StepTypes DEF Guarded
  <2> QED BY <2>1, TakeRequestInv, TakeSyncInv
<1> QED BY Invariance, <1>1, PTL DEF Spec, TakenInOrder

\* Host, line and device implement Delivery.
THEOREM Refinement == Spec => Delivered
<1>1. Init => Deliveries!Init
  BY StartSound DEF Init, Deliveries!Init, completed
<1>2. Guarded /\ Guarded' /\ [Next]_vars => [Deliveries!Next]_<<completed, taken, misled>>
  <2> SUFFICES ASSUME Guarded, Guarded', [Next]_vars
               PROVE  Deliveries!Next \/ UNCHANGED <<completed, taken, misled>>
    OBVIOUS
  <2> USE DEF Deliveries!Next, Deliveries!Take, Deliveries!Complete, Deliveries!Renew
  <2>1. CASE UNCHANGED vars
    BY <2>1 DEF vars, completed
  <2>2. CASE Next /\ ~misled /\ ~misled'
    <3>0. Inv /\ Inv' /\ misled' = misled
      BY <2>2 DEF Guarded, TypeInv, TypeOK
    <3>1. /\ host.pos \in Nat /\ taken \in Nat /\ completed \in Nat /\ completed <= taken
          /\ completed' \in Nat /\ completed' <= taken' /\ taken <= host.pos
          /\ taken' <= host'.pos /\ host.pos - 1 <= completed
      <4>1. completed' \in Nat /\ completed' <= taken' /\ taken' <= host'.pos
        <5>1. host'.pos \in Positions \ {0} /\ taken' \in Positions
          BY <3>0 DEF Inv, TypeInv, TypeOK
        <5>2. Together'
          BY <3>0 DEF Inv
        <5> QED BY <5>1, <5>2, HostAssumption DEF Together, completed, Positions
      <4> QED BY <3>0, <4>1, InvBounds, Typed DEF completed, Inv
    <3>2. CASE taken' = 0 /\ host'.pos = 1 /\ host'.outcome = "none"
      BY <2>2, <3>0, <3>2 DEF completed
    <3>3. CASE taken' = taken /\ Proceeded(host, host') /\ host.step # "end"
      <4>1. host.outcome # "done"
        BY <3>0, <3>3 DEF Inv, TypeInv, Sound, Process, Steps
      <4>2. completed' = completed + 1
        BY <3>1, <3>3, <4>1 DEF Proceeded, Sound, completed
      <4> QED BY <2>2, <3>0, <3>1, <3>3, <4>2
    <3>4. CASE /\ taken' = taken /\ host'.pos = host.pos
               /\ (host'.outcome = "done" <=> host.outcome = "done")
      BY <3>0, <3>4 DEF completed
    <3>5. CASE taken' = taken + 1 /\ host' = host
      <4>1. completed' = completed
        BY <3>5 DEF completed
      <4>2. taken = completed
        BY <3>1, <3>5
      <4> QED BY <2>2, <3>0, <3>5, <4>1, <4>2
    <3>6. CASE taken' = taken /\ host' = host
      BY <3>0, <3>6 DEF completed
    <3> QED BY <2>2, <3>0, <3>2, <3>3, <3>4, <3>5, <3>6, NextInv
  <2>3. CASE Next /\ ~misled /\ misled'
    <3>1. ReceiveAnswer /\ Inv
      BY <2>3, MisledSteps DEF Guarded
    <3>2. completed = 0 /\ completed' = 1 /\ taken' = taken
      BY <2>3, <3>1, MistakeStep
    <3>3. misled' = TRUE
      BY <2>3 DEF Guarded, TypeInv, TypeOK
    <3> QED BY <3>2, <3>3 DEF Deliveries!Mistake
  <2>4. CASE misled /\ misled'
    BY <2>4 DEF Deliveries!Stray
  <2>5. ASSUME NEW op \in Operations, StartProcess(op)
        PROVE  Deliveries!Next
    BY <2>5, StartSound DEF StartProcess, completed
  <2> QED BY <2>1, <2>2, <2>3, <2>4, <2>5, MisledSteps
<1> QED BY Invariance, <1>1, <1>2, PTL DEF Spec, Delivered, Deliveries!Spec

-----------------------------------------------------------------------------
(* Requests taken once, also by a process that was misled                  *)

\* The request in hand has its number, and the process has not ended.
Numbered == host.step \in {"send", "receive"}

\* A repeated request carries the number it had, and the requests on the line
\* are sent in their order; the device awaits another number than that of the
\* request it took last.
Repeats ==
  /\ taken <= host.pos
  /\ host.step \in {"image", "clear"} => taken < host.pos
  /\ \A i \in 1 .. Len(toDevice) :
       /\ toDevice[i].pos <= host.pos
       /\ toDevice[i].pos = host.pos => host.step \notin {"image", "clear"}
       /\ toDevice[i].pos = host.pos /\ Numbered => toDevice[i].number = host.number
  /\ \A i, j \in 1 .. Len(toDevice) : i < j =>
       /\ toDevice[i].pos <= toDevice[j].pos
       /\ toDevice[i].pos = toDevice[j].pos /\ toDevice[i].pos > 0
            => toDevice[i].number = toDevice[j].number

\* What the device holds against a repetition.
UsedUp ==
  phase # "failed" /\ taken > 0 =>
    /\ \A i \in 1 .. Len(toDevice) :
         /\ toDevice[i].pos >= taken
         /\ toDevice[i].pos = taken => NextNumber(toDevice[i].number) = next
    /\ host.pos = taken /\ Numbered => NextNumber(host.number) = next

\* What a step of the host may do to the request in hand: repeat it, be done
\* with it, give the next one a number, or end.
Moved(h, after) ==
  \/ /\ after.pos = h.pos /\ after.number = h.number
     /\ after.step \in {"image", "clear"} => h.step \in {"image", "clear"}
     /\ after.step \in {"send", "receive"} => h.step \in {"send", "receive"}
  \/ after.pos = h.pos + 1
  \/ after.pos = h.pos /\ h.step \in {"image", "clear"} /\ after.step = "send"
  \/ after.pos = h.pos /\ after.step = "end"

LEMMA HostMoves ==
  ASSUME TypeInv, Next, \A op \in Operations : ~StartProcess(op)
  PROVE  Moved(host, host')
<1>1. Sound(host) /\ host \in Process
  BY DEF TypeInv, Sound
<1>2. CASE host' = host
  BY <1>2 DEF Moved
<1>3. CASE Send \/ SendNothing
  <2>1. host.step = "send" /\ host' = [host EXCEPT !.step = "receive"]
    BY <1>3 DEF Send, SendNothing
  <2>2. host'.pos = host.pos /\ host'.number = host.number /\ host'.step = "receive"
    BY <1>1, <2>1 DEF Process
  <2> QED BY <2>1, <2>2 DEF Moved
<1>4. CASE ReceiveAnswer \/ ReceiveNothing
  <2>1. host.step = "receive" /\ (Proceeded(host, host') \/ Remained(host, host'))
    <3>1. CASE ReceiveAnswer
      BY <3>1, AnswerRead
    <3>2. CASE ReceiveNothing
      BY <1>1, <3>2, AnsweredSound DEF ReceiveNothing
    <3> QED BY <1>4, <3>1, <3>2
  <2> QED BY <2>1 DEF Moved, Proceeded, Remained
<1>5. CASE InputCleared
  <2>1. host.step = "clear" /\ host' = Cleared(host) /\ host.pos = 1
    BY <1>1, <1>5 DEF InputCleared, Sound
  <2> QED BY <1>1, <2>1, ClearedSound DEF Moved
<1>6. ASSUME NEW ok \in BOOLEAN, DecodeImage(ok) PROVE Moved(host, host')
  <2>1. host.step = "image" /\ host' = Decoded(host, ok)
    BY <1>6 DEF DecodeImage
  <2>2. CASE ok
    <3>1. Idle(host) /\ host.state = "ready" /\ host.pos = 3
      BY <1>1, <2>1 DEF Sound, Idle
    <3>2. host'.pos = host.pos /\ host'.step = "send"
      BY <2>1, <2>2, <3>1, PrepareSound DEF Decoded
    <3> QED BY <2>1, <3>2 DEF Moved
  <2>3. CASE ~ok
    <3>1. host'.pos = host.pos /\ host'.step = "end"
      BY <1>1, <2>1, <2>3 DEF Decoded, End, Process
    <3> QED BY <3>1 DEF Moved
  <2> QED BY <2>2, <2>3
<1>7. ASSUME NEW outcome, Break(outcome) PROVE Moved(host, host')
  <2>1. host'.pos = host.pos /\ host'.step = "end"
    BY <1>1, <1>7 DEF Break, End, Process
  <2> QED BY <2>1 DEF Moved
<1>8. ASSUME \/ ClearInput \/ TakeSync \/ TakeRequest \/ RejectRequest \/ LoseRequest
             \/ Fail \/ SendDebug \/ LoseAnswer
      PROVE  host' = host
  BY <1>8 DEF ClearInput, TakeSync, TakeRequest, RejectRequest, LoseRequest, Fail, SendDebug,
              LoseAnswer
<1> QED BY <1>2, <1>3, <1>4, <1>5, <1>6, <1>7, <1>8 DEF Next, HostStep

\* A step that sends no request and takes none.
LEMMA RepeatsKept ==
  ASSUME TypeInv, TypeInv', Repeats, UsedUp, Moved(host, host'), taken' = taken,
         phase' = "failed" \/ UNCHANGED <<phase, next>>,
         toDevice' = toDevice \/ (toDevice # <<>> /\ toDevice' = Tail(toDevice))
  PROVE  Repeats' /\ UsedUp'
<1>1. /\ host.pos \in Nat /\ host'.pos \in Nat /\ taken \in Nat /\ toDevice \in Seq(Requests)
      /\ \A i \in 1 .. Len(toDevice) : toDevice[i].pos \in Nat
  BY Typed DEF TypeInv, Sound, Process, Positions
<1>2. PICK k \in {0, 1} :
        /\ Len(toDevice') = Len(toDevice) - k
        /\ \A i \in 1 .. Len(toDevice') :
             toDevice'[i] = toDevice[i + k] /\ i + k \in 1 .. Len(toDevice)
  BY <1>1, OneGone
<1>3. taken' <= host'.pos /\ (host'.step \in {"image", "clear"} => taken' < host'.pos)
  BY <1>1 DEF Repeats, Moved
<1>4. ASSUME NEW i \in 1 .. Len(toDevice')
      PROVE  /\ toDevice'[i].pos <= host'.pos
             /\ toDevice'[i].pos = host'.pos => host'.step \notin {"image", "clear"}
             /\ toDevice'[i].pos = host'.pos /\ Numbered' => toDevice'[i].number = host'.number
  <2> DEFINE r == toDevice[i + k]
  <2>1. /\ toDevice'[i] = r /\ r.pos \in Nat /\ r.pos <= host.pos
        /\ r.pos = host.pos => host.step \notin {"image", "clear"}
        /\ r.pos = host.pos /\ Numbered => r.number = host.number
    BY <1>1, <1>2 DEF Repeats
  <2> HIDE DEF r
  <2> QED BY <1>1, <2>1 DEF Moved, Numbered
<1>5. ASSUME NEW i \in 1 .. Len(toDevice'), NEW j \in 1 .. Len(toDevice'), i < j
      PROVE  /\ toDevice'[i].pos <= toDevice'[j].pos
             /\ toDevice'[i].pos = toDevice'[j].pos /\ toDevice'[i].pos > 0
                  => toDevice'[i].number = toDevice'[j].number
  <2>1. /\ toDevice'[i] = toDevice[i + k] /\ i + k \in 1 .. Len(toDevice)
        /\ toDevice'[j] = toDevice[j + k] /\ j + k \in 1 .. Len(toDevice) /\ i + k < j + k
    BY <1>2, <1>5
  <2> QED BY <2>1 DEF Repeats
<1>6. Repeats'
  BY <1>3, <1>4, <1>5 DEF Repeats
<1>7. ASSUME phase' # "failed", taken > 0
      PROVE  /\ \A i \in 1 .. Len(toDevice') :
                  /\ toDevice'[i].pos >= taken
                  /\ toDevice'[i].pos = taken => NextNumber(toDevice'[i].number) = next
             /\ host'.pos = taken /\ Numbered' => NextNumber(host'.number) = next
             /\ next' = next
  <2>1. phase # "failed" /\ next' = next
    BY <1>7
  <2>2. host'.pos = taken /\ Numbered' => NextNumber(host'.number) = next
    BY <1>1, <1>7, <2>1 DEF Moved, Repeats, UsedUp, Numbered
  <2>3. ASSUME NEW i \in 1 .. Len(toDevice')
        PROVE  /\ toDevice'[i].pos >= taken
               /\ toDevice'[i].pos = taken => NextNumber(toDevice'[i].number) = next
    BY <1>2, <1>7, <2>1 DEF UsedUp
  <2> QED BY <2>1, <2>2, <2>3
<1>8. UsedUp'
  BY <1>7 DEF UsedUp
<1> QED BY <1>6, <1>8

LEMMA SendRepeats ==
  ASSUME TypeInv, Repeats, UsedUp, Send
  PROVE  Repeats' /\ UsedUp'
<1> DEFINE r == [kind |-> Request(host.op, host.pos), number |-> host.number, pos |-> host.pos]
<1>1. /\ host.step = "send" /\ host' = [host EXCEPT !.step = "receive"]
      /\ toDevice' = Append(toDevice, r) /\ UNCHANGED <<phase, next, taken>>
  BY DEF Send, device
<1>2. /\ Sound(host) /\ host \in Process /\ host.pos \in Nat \ {0} /\ taken \in Nat
      /\ toDevice \in Seq(Requests) /\ Len(toDevice) \in Nat
      /\ \A i \in 1 .. Len(toDevice) : toDevice[i].pos \in Nat
  BY Typed DEF TypeInv, Sound
<1>3. host'.pos = host.pos /\ host'.number = host.number /\ host'.step = "receive"
  BY <1>1, <1>2 DEF Process
<1>4. r \in Requests /\ r.pos = host.pos /\ r.number = host.number
  <2>1. Request(host.op, host.pos) \in {"SYNC", "COMMAND", "DATA"}
    BY <1>2, RequestKinds DEF Sound, Process
  <2> QED BY <1>2, <2>1 DEF Requests, Process
<1> HIDE DEF r
<1>5. /\ Len(toDevice') = Len(toDevice) + 1
      /\ \A i \in 1 .. Len(toDevice') :
           \/ i \in 1 .. Len(toDevice) /\ toDevice'[i] = toDevice[i]
           \/ i = Len(toDevice) + 1 /\ toDevice'[i] = r
  BY <1>1, <1>2, <1>4, AppendFacts
<1>6. ASSUME NEW i \in 1 .. Len(toDevice')
      PROVE  /\ toDevice'[i].pos <= host.pos
             /\ toDevice'[i].pos = host.pos => toDevice'[i].number = host.number
  BY <1>1, <1>2, <1>4, <1>5 DEF Repeats, Numbered
<1>7. ASSUME NEW i \in 1 .. Len(toDevice'), NEW j \in 1 .. Len(toDevice'), i < j
      PROVE  /\ toDevice'[i].pos <= toDevice'[j].pos
             /\ toDevice'[i].pos = toDevice'[j].pos /\ toDevice'[i].pos > 0
                  => toDevice'[i].number = toDevice'[j].number
  <2>1. i \in 1 .. Len(toDevice) /\ toDevice'[i] = toDevice[i]
    BY <1>2, <1>5, <1>7
  <2>2. CASE j \in 1 .. Len(toDevice) /\ toDevice'[j] = toDevice[j]
    BY <1>7, <2>1, <2>2 DEF Repeats
  <2>3. CASE toDevice'[j] = r
    BY <1>4, <1>6, <2>3
  <2> QED BY <1>5, <2>2, <2>3
<1>8. Repeats'
  BY <1>1, <1>2, <1>3, <1>6, <1>7 DEF Repeats, Numbered
<1>9. UsedUp'
  <2> SUFFICES ASSUME phase # "failed", taken > 0
               PROVE  /\ \A i \in 1 .. Len(toDevice') :
                           /\ toDevice'[i].pos >= taken
                           /\ toDevice'[i].pos = taken => NextNumber(toDevice'[i].number) = next
                      /\ host.pos = taken => NextNumber(host.number) = next
    BY <1>1, <1>3 DEF UsedUp
  <2>1. host.pos = taken => NextNumber(host.number) = next
    BY <1>1 DEF UsedUp, Numbered
  <2>2. r.pos >= taken /\ (r.pos = taken => NextNumber(r.number) = next)
    BY <1>2, <1>4, <2>1 DEF Repeats
  <2> QED BY <1>5, <2>1, <2>2 DEF UsedUp
<1> QED BY <1>8, <1>9

\* What follows a request that is taken repeats it or comes after it.
LEMMA TakeRepeats ==
  ASSUME TypeInv, TypeInv', Repeats, UsedUp, phase # "failed", host' = host,
         toDevice # <<>>, toDevice' = Tail(toDevice), next' = NextNumber(Head(toDevice).number),
         taken' = IF Head(toDevice).pos = 0 THEN taken ELSE Head(toDevice).pos
  PROVE  Repeats' /\ UsedUp'
<1> DEFINE r == Head(toDevice)
<1>1. /\ host.pos \in Nat /\ taken \in Nat /\ toDevice \in Seq(Requests)
      /\ \A i \in 1 .. Len(toDevice) : toDevice[i].pos \in Nat
  BY Typed
<1>2. /\ r = toDevice[1] /\ 1 \in 1 .. Len(toDevice) /\ r.pos \in Nat
      /\ \A i \in 1 .. Len(toDevice') :
           toDevice'[i] = toDevice[i + 1] /\ i + 1 \in 1 .. Len(toDevice) /\ 1 < i + 1
  BY <1>1, SequenceFacts
<1>3. /\ r.pos <= host.pos
      /\ r.pos = host.pos => host.step \notin {"image", "clear"}
      /\ r.pos = host.pos /\ Numbered => r.number = host.number
  BY <1>2 DEF Repeats
<1>4. taken > 0 => r.pos >= taken
  BY <1>2 DEF UsedUp
<1> HIDE DEF r
<1>5. taken' = r.pos
  BY <1>1, <1>2, <1>4 DEF r
<1>6. taken' <= host'.pos /\ (host'.step \in {"image", "clear"} => taken' < host'.pos)
  BY <1>1, <1>2, <1>3, <1>5
<1>7. ASSUME NEW i \in 1 .. Len(toDevice')
      PROVE  /\ toDevice'[i].pos <= host.pos
             /\ toDevice'[i].pos = host.pos => host.step \notin {"image", "clear"}
             /\ toDevice'[i].pos = host.pos /\ Numbered => toDevice'[i].number = host.number
             /\ r.pos <= toDevice'[i].pos
             /\ r.pos = toDevice'[i].pos /\ r.pos > 0 => r.number = toDevice'[i].number
  BY <1>2 DEF Repeats
<1>8. ASSUME NEW i \in 1 .. Len(toDevice'), NEW j \in 1 .. Len(toDevice'), i < j
      PROVE  /\ toDevice'[i].pos <= toDevice'[j].pos
             /\ toDevice'[i].pos = toDevice'[j].pos /\ toDevice'[i].pos > 0
                  => toDevice'[i].number = toDevice'[j].number
  <2>1. /\ toDevice'[i] = toDevice[i + 1] /\ i + 1 \in 1 .. Len(toDevice)
        /\ toDevice'[j] = toDevice[j + 1] /\ j + 1 \in 1 .. Len(toDevice) /\ i + 1 < j + 1
    BY <1>2, <1>8
  <2> QED BY <2>1 DEF Repeats
<1>9. Repeats'
  BY <1>6, <1>7, <1>8 DEF Repeats, Numbered
<1>10. UsedUp'
  <2>1. next' = NextNumber(r.number)
    BY DEF r
  <2>2. ASSUME r.pos > 0
        PROVE  /\ \A i \in 1 .. Len(toDevice') :
                    /\ toDevice'[i].pos >= r.pos
                    /\ toDevice'[i].pos = r.pos => NextNumber(toDevice'[i].number) = next'
               /\ host.pos = r.pos /\ Numbered => NextNumber(host.number) = next'
    <3>1. \A i \in 1 .. Len(toDevice') : toDevice'[i].pos \in Nat
      BY <1>1, <1>2
    <3> QED BY <1>2, <1>3, <1>7, <2>1, <2>2, <3>1
  <2> QED BY <1>5, <2>2 DEF UsedUp, Numbered
<1> QED BY <1>9, <1>10

LEMMA NextRepeats ==
  ASSUME TypeInv, TypeInv', Repeats, UsedUp, Next
  PROVE  Repeats' /\ UsedUp'
<1>1. ASSUME NEW op \in Operations, StartProcess(op) PROVE Repeats' /\ UsedUp'
  <2>1. /\ host' = Start(op) /\ taken' = 0 /\ toDevice' = Orphaned(toDevice)
    BY <1>1 DEF StartProcess
  <2>2. host'.pos = 1 /\ host'.step = "clear"
    BY <2>1, StartSound
  <2>3. \A i \in 1 .. Len(toDevice') : toDevice'[i].pos = 0
    BY <2>1, OrphanedChannels DEF TypeInv
  <2> QED BY <2>1, <2>2, <2>3 DEF Repeats, UsedUp
<1>2. CASE Send
  BY <1>2, SendRepeats
<1>3. CASE TakeSync \/ TakeRequest
  <2>1. /\ phase # "failed" /\ host' = host /\ toDevice # <<>> /\ toDevice' = Tail(toDevice)
        /\ next' = NextNumber(Head(toDevice).number)
        /\ taken' = IF Head(toDevice).pos = 0 THEN taken ELSE Head(toDevice).pos
    BY <1>3 DEF TakeSync, TakeRequest, Answer, Polls, Device!Open, Device!Succ, NextNumber
  <2> QED BY <2>1, TakeRepeats
<1>4. ASSUME \/ ClearInput \/ InputCleared \/ SendNothing \/ ReceiveAnswer \/ ReceiveNothing
             \/ \E ok \in BOOLEAN : DecodeImage(ok)
             \/ \E outcome \in {"ReadError", "WriteError", "killed"} : Break(outcome)
             \/ RejectRequest \/ LoseRequest \/ Fail \/ SendDebug \/ LoseAnswer
      PROVE  /\ taken' = taken
             /\ phase' = "failed" \/ UNCHANGED <<phase, next>>
             /\ toDevice' = toDevice \/ (toDevice # <<>> /\ toDevice' = Tail(toDevice))
  BY <1>4 DEF ClearInput, InputCleared, SendNothing, ReceiveAnswer, ReceiveNothing, DecodeImage,
              Break, RejectRequest, LoseRequest, Fail, SendDebug, LoseAnswer, Polls, device,
              Device!Fail
<1>5. CASE /\ \A op \in Operations : ~StartProcess(op)
           /\ ~Send /\ ~TakeSync /\ ~TakeRequest
  <2>1. Moved(host, host')
    BY <1>5, HostMoves
  <2>2. /\ taken' = taken
        /\ phase' = "failed" \/ UNCHANGED <<phase, next>>
        /\ toDevice' = toDevice \/ (toDevice # <<>> /\ toDevice' = Tail(toDevice))
    BY <1>4, <1>5 DEF Next, HostStep
  <2> QED BY <2>1, <2>2, RepeatsKept
<1> QED BY <1>1, <1>2, <1>3, <1>5

\* No request but a SYNC is taken a second time, whatever is on the line and
\* also by a process that was misled.
THEOREM NoneTwice == Spec => TakenOnce
<1> DEFINE I == TypeInv /\ Repeats /\ UsedUp
           A == TakeRequest => Head(toDevice).pos = 0 \/ Head(toDevice).pos > taken
<1>1. Init => I
  <2> SUFFICES ASSUME Init PROVE I
    OBVIOUS
  <2>1. host.pos = 1 /\ host.step = "clear" /\ taken = 0 /\ toDevice = <<>>
    BY StartSound DEF Init
  <2>2. Len(toDevice) = 0
    BY <2>1
  <2> QED BY <2>1, <2>2, InitTypes DEF Repeats, UsedUp
<1>2. I /\ [Next]_vars => I'
  <2> SUFFICES ASSUME I, [Next]_vars PROVE I'
    OBVIOUS
  <2>1. TypeInv'
    BY StepTypes
  <2>2. CASE UNCHANGED vars
    BY <2>1, <2>2 DEF vars, Repeats, UsedUp, Numbered
  <2>3. CASE Next
    BY <2>1, <2>3, NextRepeats
  <2> QED BY <2>2, <2>3
<1>3. I => [A]_vars
  <2> SUFFICES ASSUME I, TakeRequest
               PROVE  Head(toDevice).pos = 0 \/ Head(toDevice).pos > taken
    OBVIOUS
  <2> DEFINE r == Head(toDevice)
  <2>1. /\ phase = "open" /\ toDevice # <<>> /\ r.number = next
    BY DEF TakeRequest, Polls, Expected
  <2>2. r = toDevice[1] /\ 1 \in 1 .. Len(toDevice) /\ r.pos \in Nat /\ taken \in Nat
    BY <2>1, Typed, SequenceFacts
  <2>3. next \in Numbers
    BY DEF TypeInv, TypeOK
  <2>4. taken > 0 => r.pos >= taken /\ (r.pos = taken => NextNumber(next) = next)
    BY <2>1, <2>2 DEF UsedUp
  <2>5. NextNumber(next) # next
    BY <2>3, NextNumberType
  <2> HIDE DEF r
  <2>6. r.pos = 0 \/ r.pos > taken
    BY <2>2, <2>4, <2>5
  <2> QED BY <2>6 DEF r
<1> QED BY <1>1, <1>2, <1>3, PTL DEF Spec, TakenOnce

-----------------------------------------------------------------------------
(* The steps of an operation                                               *)

LEMMA StepsLeftOf ==
  ASSUME NEW h, Sound(h)
  PROVE  LET rest == (Length(h.op) - h.pos) * (2 * MaxTries + 1)
         IN  /\ rest \in Nat
             /\ h.step = "end" => StepsLeft(h) = 0
             /\ h.step \in {"image", "clear"} => StepsLeft(h) = rest + 2 * MaxTries + 1
             /\ h.step = "send" => StepsLeft(h) = rest + 2 * (MaxTries - h.try)
             /\ h.step = "receive" => StepsLeft(h) = rest + 2 * (MaxTries - h.try) - 1
<1>1. /\ h.op \in Operations /\ h.pos \in Positions \ {0} /\ h.pos <= Length(h.op)
      /\ h.try \in Nat /\ MaxTries \in Nat
  BY HostAssumption DEF Sound, Process
<1>2. h.pos \in Nat /\ Length(h.op) \in Nat
  BY <1>1, RequestKinds, HostAssumption DEF Positions
<1> DEFINE ahead == Length(h.op) - h.pos
           rest  == ahead * (2 * MaxTries + 1)
<1>3. ahead \in Nat
  BY <1>1, <1>2
<1> HIDE DEF ahead
<1>4. rest \in Nat
  BY <1>1, <1>3
<1> HIDE DEF rest
<1>5. /\ h.step = "end" => StepsLeft(h) = 0
      /\ h.step \in {"image", "clear"} => StepsLeft(h) = rest + (2 * MaxTries + 1)
      /\ h.step = "send" => StepsLeft(h) = rest + 2 * (MaxTries - h.try)
      /\ h.step = "receive" => StepsLeft(h) = rest + (2 * (MaxTries - h.try) - 1)
  BY DEF StepsLeft, rest, ahead
<1>6. /\ h.step = "end" => StepsLeft(h) = 0
      /\ h.step \in {"image", "clear"} => StepsLeft(h) = rest + 2 * MaxTries + 1
      /\ h.step = "send" => StepsLeft(h) = rest + 2 * (MaxTries - h.try)
      /\ h.step = "receive" => StepsLeft(h) = rest + 2 * (MaxTries - h.try) - 1
  BY <1>1, <1>4, <1>5
<1> QED BY <1>4, <1>6 DEF rest, ahead

\* The request that follows has its own tries, and no more.
LEMMA ProceededBounded ==
  ASSUME NEW h, Sound(h), h.step = "receive", NEW after, Proceeded(h, after)
  PROVE  StepsLeft(after) \in 0 .. StepsLeft(h) - 1
<1> DEFINE per == 2 * MaxTries + 1
           rest == (Length(h.op) - h.pos) * per
           later == (Length(after.op) - after.pos) * per
<1>1. /\ h.pos \in Nat /\ Length(h.op) \in Nat /\ MaxTries \in Nat
      /\ h.try \in Nat /\ h.try < MaxTries /\ after.try \in Nat
      /\ after.op = h.op /\ Sound(after)
      /\ after.step = "send" => after.try < MaxTries
  BY RequestKinds, HostAssumption DEF Proceeded, Sound, Process, Positions
<1>2. rest \in Nat /\ StepsLeft(h) = rest + 2 * (MaxTries - h.try) - 1
  BY StepsLeftOf
<1>3. CASE after.step = "end"
  <2>1. StepsLeft(after) = 0
    BY <1>1, <1>3, StepsLeftOf
  <2> HIDE DEF rest
  <2> QED BY <1>1, <1>2, <2>1
<1>4. CASE after.step # "end"
  <2>1. /\ after.pos = h.pos + 1 /\ after.step \in {"image", "send"}
    BY <1>4 DEF Proceeded
  <2>2. rest = later + per
    BY <1>1, <2>1
  <2>3. /\ later \in Nat
        /\ after.step = "image" => StepsLeft(after) = later + 2 * MaxTries + 1
        /\ after.step = "send" => StepsLeft(after) = later + 2 * (MaxTries - after.try)
    BY <1>1, StepsLeftOf
  <2> HIDE DEF rest, later
  <2> QED BY <1>1, <1>2, <2>1, <2>2, <2>3
<1> QED BY <1>3, <1>4

LEMMA RemainedBounded ==
  ASSUME NEW h, Sound(h), h.step = "receive", NEW after, Remained(h, after)
  PROVE  StepsLeft(after) \in 0 .. StepsLeft(h) - 1
<1> DEFINE rest == (Length(h.op) - h.pos) * (2 * MaxTries + 1)
<1>1. /\ MaxTries \in Nat /\ h.try \in Nat /\ h.try < MaxTries
      /\ after.op = h.op /\ after.pos = h.pos /\ Sound(after)
      /\ after.step \in {"send", "end"}
      /\ after.step = "send" => after.try = h.try + 1 /\ after.try < MaxTries
  BY HostAssumption DEF Remained, Sound, Process
<1>2. rest \in Nat /\ StepsLeft(h) = rest + 2 * (MaxTries - h.try) - 1
  BY StepsLeftOf
<1>3. /\ after.step = "end" => StepsLeft(after) = 0
      /\ after.step = "send" => StepsLeft(after) = rest + 2 * (MaxTries - after.try)
  BY <1>1, StepsLeftOf
<1> HIDE DEF rest
<1> QED BY <1>1, <1>2, <1>3

LEMMA StepBounded ==
  ASSUME TypeInv, HostStep
  PROVE  \/ StepsLeft(host') \in 0 .. StepsLeft(host) - 1
         \/ host.step = "clear" /\ host' = host /\ Len(toHost') < Len(toHost)
<1> DEFINE rest == (Length(host.op) - host.pos) * (2 * MaxTries + 1)
<1>1. Sound(host) /\ Sound(host')
  <2>1. Next
    BY DEF Next
  <2> QED BY <2>1, HostSound DEF TypeInv
<1>2. MaxTries \in Nat /\ host.try \in Nat /\ host'.try \in Nat
  BY <1>1, HostAssumption DEF Sound, Process
<1>3. CASE Send \/ SendNothing
  <2>1. /\ host.step = "send" /\ host.try < MaxTries
        /\ host' = [host EXCEPT !.step = "receive"]
    BY <1>1, <1>3 DEF Send, SendNothing, Sound
  <2>2. /\ host'.step = "receive" /\ host'.op = host.op /\ host'.pos = host.pos
        /\ host'.try = host.try
    BY <1>1, <2>1 DEF Sound, Process
  <2>3. /\ rest \in Nat
        /\ StepsLeft(host) = rest + 2 * (MaxTries - host.try)
        /\ StepsLeft(host') = rest + 2 * (MaxTries - host.try) - 1
    BY <1>1, <2>1, <2>2, StepsLeftOf
  <2> HIDE DEF rest
  <2> QED BY <1>2, <2>1, <2>3
<1>4. CASE ReceiveAnswer \/ ReceiveNothing
  <2>1. PICK answer \in {"ACK", "SYNC_ACK", "DEBUG", "nothing"} :
          host.step = "receive" /\ host' = Answered(host, answer)
    <3>1. CASE ReceiveAnswer
      <4>1. toHost \in Seq(Answers) /\ toHost # <<>>
        BY <3>1 DEF ReceiveAnswer, TypeInv, TypeOK
      <4>2. Head(toHost) \in Answers
        BY <4>1, SequenceFacts
      <4> QED BY <3>1, <4>2 DEF ReceiveAnswer, Answers
    <3>2. CASE ReceiveNothing
      BY <3>2 DEF ReceiveNothing
    <3> QED BY <1>4, <3>1, <3>2
  <2>2. Proceeded(host, host') \/ Remained(host, host')
    BY <1>1, <2>1, AnsweredSound
  <2> QED BY <1>1, <2>1, <2>2, ProceededBounded, RemainedBounded
<1>5. ASSUME NEW ok \in BOOLEAN, DecodeImage(ok)
      PROVE  StepsLeft(host') \in 0 .. StepsLeft(host) - 1
  <2>1. host.step = "image" /\ host' = Decoded(host, ok)
    BY <1>5 DEF DecodeImage
  <2>2. rest \in Nat /\ StepsLeft(host) = rest + 2 * MaxTries + 1
    BY <1>1, <2>1, StepsLeftOf
  <2>3. CASE ok
    <3>1. Idle(host) /\ host.state = "ready" /\ host.pos = 3
      BY <1>1, <2>1 DEF Sound, Idle
    <3>2. host'.op = host.op /\ host'.pos = host.pos /\ host'.step = "send"
      BY <2>1, <2>3, <3>1, PrepareSound DEF Decoded
    <3>3. StepsLeft(host') = rest + 2 * (MaxTries - host'.try) /\ host'.try < MaxTries
      BY <1>1, <3>2, StepsLeftOf DEF Sound
    <3> HIDE DEF rest
    <3> QED BY <1>2, <2>2, <3>3
  <2>4. CASE ~ok
    <3>1. host'.step = "end"
      BY <1>1, <2>1, <2>4 DEF Decoded, End, Sound, Process
    <3>2. StepsLeft(host') = 0
      BY <1>1, <3>1, StepsLeftOf
    <3> HIDE DEF rest
    <3> QED BY <1>2, <2>2, <3>2
  <2> QED BY <2>3, <2>4
<1>6. CASE InputCleared
  <2>1. host.step = "clear" /\ host' = Cleared(host) /\ host.pos = 1
    BY <1>1, <1>6 DEF InputCleared, Sound
  <2>2. host'.op = host.op /\ host'.pos = host.pos /\ host'.step = "send"
    BY <1>1, <2>1, ClearedSound
  <2>3. /\ rest \in Nat /\ StepsLeft(host) = rest + 2 * MaxTries + 1
        /\ StepsLeft(host') = rest + 2 * (MaxTries - host'.try) /\ host'.try < MaxTries
    BY <1>1, <2>1, <2>2, StepsLeftOf DEF Sound
  <2> HIDE DEF rest
  <2> QED BY <1>2, <2>3
<1>7. CASE ClearInput
  <2>1. host.step = "clear" /\ host' = host /\ toHost # <<>> /\ toHost' = Tail(toHost)
    BY <1>7 DEF ClearInput
  <2>2. Len(toHost') = Len(toHost) - 1 /\ Len(toHost) \in Nat
    BY <2>1, Typed, SequenceFacts
  <2> QED BY <2>1, <2>2
<1> QED BY <1>3, <1>4, <1>5, <1>6, <1>7 DEF HostStep

\* Whatever the line and the device do, an operation whose input is cleared
\* makes no more than Length(op) * (2 * MaxTries + 1) steps: for an image of 450
\* chunks 7701.  A read that clears the input takes something from the line.
THEOREM Bounded == Spec => OperationBounded
<1>1. TypeInv /\ HostStep =>
        \/ StepsLeft(host') \in 0 .. StepsLeft(host) - 1
        \/ host.step = "clear" /\ host' = host /\ Len(toHost') < Len(toHost)
  BY StepBounded
<1>2. Spec => []TypeInv
  <2>1. TypeInv /\ [Next]_vars => TypeInv'
    BY StepTypes
  <2> QED BY <2>1, InitTypes, PTL DEF Spec
<1> QED BY <1>1, <1>2, PTL DEF OperationBounded

-----------------------------------------------------------------------------
(* The device of Link                                                      *)

\* The device that Link puts at the end of the line makes no step that the
\* session FailStopSession promises does not allow: what is proved of Link is
\* proved of a device that Firmware implements, whatever arrives.
THEOREM DeviceKeepsSession == Spec => Device!Spec
<1>1. Init => Device!Init
  BY DEF Init
<1>2. TypeInv /\ [Next]_vars => [Device!Next]_device
  <2> SUFFICES ASSUME TypeInv, [Next]_vars
               PROVE  Device!Next \/ UNCHANGED device
    OBVIOUS
  <2> USE DEF device
  <2>0. /\ toDevice \in Seq(Requests)
        /\ toDevice # <<>> => Head(toDevice) \in Requests
    BY DEF TypeInv, TypeOK
  <2>1. ASSUME NEW op \in Operations, StartProcess(op)
        PROVE  UNCHANGED device
    BY <2>1 DEF StartProcess
  <2>2. CASE HostStep
    BY <2>2 DEF HostStep, ClearInput, InputCleared, Send, SendNothing, ReceiveAnswer,
                ReceiveNothing, DecodeImage
  <2>3. ASSUME NEW outcome, Break(outcome) PROVE UNCHANGED device
    BY <2>3 DEF Break
  <2>4. CASE TakeSync
    <3>1. Head(toDevice).number \in Device!SeqNums /\ Device!Open(Head(toDevice).number)
      BY <2>0, <2>4 DEF TakeSync, Polls, Requests, Numbers, Device!SeqNums
    <3> QED BY <3>1 DEF Device!Next
  <2>5. CASE TakeRequest
    <3> DEFINE request == Head(toDevice)
    <3>1. request.kind \in {"COMMAND", "DATA"}
      BY <2>0, <2>5 DEF TakeRequest, Polls, Requests
    <3>2. /\ phase = "open" /\ request.number = next
          /\ phase' = phase /\ next' = NextNumber(request.number)
          /\ acked' = [type |-> request.kind, seq |-> request.number]
      BY <2>5 DEF TakeRequest, Expected
    <3>3. Device!Answer(request.kind)
      BY <3>2 DEF Device!Answer, Device!Succ, NextNumber
    <3> QED BY <3>1, <3>3 DEF Device!Next
  <2>6. CASE RejectRequest \/ Fail
    BY <2>6 DEF RejectRequest, Fail, Device!Next
  <2>7. CASE LoseRequest \/ SendDebug \/ LoseAnswer
    BY <2>7 DEF LoseRequest, SendDebug, LoseAnswer
  <2>8. CASE UNCHANGED vars
    BY <2>8 DEF vars
  <2> QED BY <2>1, <2>2, <2>3, <2>4, <2>5, <2>6, <2>7, <2>8 DEF Next
<1>3. Spec => []TypeInv
  <2>1. TypeInv /\ [Next]_vars => TypeInv'
    BY StepTypes
  <2> QED BY <2>1, InitTypes, PTL DEF Spec
<1> QED BY <1>1, <1>2, <1>3, PTL DEF Spec, Device!Spec, Device!vars, device

-----------------------------------------------------------------------------
(* With the answers of protocol.c                                          *)

Acknowledgements == {a \in Answers : a.type # "SYNC_ACK"}

\* The host is at its SYNC, and nothing on its way answers it.
Unsynchronized ==
  /\ reply = "ACK"
  /\ toHost \in Seq(Acknowledgements)
  /\ host.pos = 1 /\ host.outcome # "done"

\* An answer to a SYNC that is no SYNC_ACK does not carry it out.
LEMMA SyncRemains ==
  ASSUME TypeInv, host.step = "receive", host.pos = 1,
         NEW answer \in {"ACK", "DEBUG", "nothing"}
  PROVE  /\ Answered(host, answer).pos = 1
         /\ Answered(host, answer).outcome # "done"
<1>1. Sound(host) /\ Request(host.op, host.pos) = "SYNC"
  BY RequestKinds DEF TypeInv, Sound, Process
<1>2. Remained(host, Answered(host, answer))
  BY <1>1, AnsweredSound DEF Completes
<1> QED BY <1>2 DEF Remained

LEMMA StaysUnsynchronized ==
  ASSUME TypeInv, Unsynchronized, [Next]_vars
  PROVE  Unsynchronized'
<1> USE DEF Unsynchronized
<1>1. ASSUME NEW op \in Operations, StartProcess(op)
      PROVE  Unsynchronized'
  <2>1. \A a \in Acknowledgements :
          [a EXCEPT !.pos = 0] \in Acknowledgements /\ [a EXCEPT !.pos = 0].pos = 0
    BY HostAssumption DEF Acknowledgements, Answers, Positions
  <2>2. toHost' \in Seq(Acknowledgements)
    BY <1>1, <2>1, OrphanedFacts DEF StartProcess
  <2> QED BY <1>1, <2>2, StartSound DEF StartProcess
<1>2. CASE Send \/ SendNothing
  <2>1. host' = [host EXCEPT !.step = "receive"] /\ host \in Process
    BY <1>2 DEF Send, SendNothing, TypeInv, Sound
  <2>2. host'.pos = host.pos /\ host'.outcome = host.outcome
    BY <2>1 DEF Process
  <2> QED BY <1>2, <2>2 DEF Send, SendNothing
<1>3. CASE ReceiveAnswer
  <2>1. toHost # <<>> /\ Tail(toHost) \in Seq(Acknowledgements)
        /\ Head(toHost) \in Acknowledgements
    BY <1>3 DEF ReceiveAnswer
  <2>2. Head(toHost).type \in {"ACK", "DEBUG", "nothing"}
    BY <2>1 DEF Acknowledgements, Answers
  <2> QED BY <1>3, <2>1, <2>2, SyncRemains DEF ReceiveAnswer
<1>4. CASE ReceiveNothing
  BY <1>4, SyncRemains DEF ReceiveNothing
<1>5. ASSUME NEW ok \in BOOLEAN, DecodeImage(ok) PROVE Unsynchronized'
  BY <1>5 DEF DecodeImage, TypeInv, Sound
<1>6. ASSUME NEW outcome \in {"ReadError", "WriteError", "killed"}, Break(outcome) PROVE Unsynchronized'
  BY <1>6, EndSound DEF Break, Remained, Failing, TypeInv
<1>7. CASE TakeSync \/ TakeRequest \/ SendDebug
  <2>1. ASSUME NEW n \in Positions, NEW type \in {"ACK", "DEBUG"},
               toHost' = Append(toHost, [type |-> type, pos |-> n])
        PROVE  toHost' \in Seq(Acknowledgements)
    BY <2>1 DEF Acknowledgements, Answers
  <2>2. toDevice # <<>> => Head(toDevice).pos \in Positions
    <3>1. toDevice \in Seq(Requests)
      BY DEF TypeInv, TypeOK
    <3>2. toDevice # <<>> => Head(toDevice) \in Requests
      BY <3>1
    <3> QED BY <3>2 DEF Requests
  <2>3. 0 \in Positions
    BY HostAssumption DEF Positions
  <2>4. toHost' \in Seq(Acknowledgements)
    BY <1>7, <2>1, <2>2, <2>3 DEF TakeSync, TakeRequest, SendDebug, Answer, Polls
  <2> QED BY <1>7, <2>4 DEF TakeSync, TakeRequest, SendDebug
<1>8. CASE LoseAnswer \/ ClearInput
  <2>1. Tail(toHost) \in Seq(Acknowledgements)
    BY <1>8 DEF LoseAnswer, ClearInput
  <2> QED BY <1>8, <2>1 DEF LoseAnswer, ClearInput
<1>9. CASE RejectRequest \/ LoseRequest \/ Fail \/ UNCHANGED vars
  BY <1>9 DEF RejectRequest, LoseRequest, Fail, vars
<1>10. CASE InputCleared
  BY <1>10, ClearedSound DEF InputCleared, TypeInv
<1> QED BY <1>1, <1>2, <1>3, <1>4, <1>5, <1>6, <1>7, <1>8, <1>9, <1>10 DEF Next, HostStep

\* protocol.c answers a SYNC with an ACK and transfer.zig waits for a SYNC_ACK:
\* with these two no request of any operation is ever carried out, whatever
\* the line and the device do and however long the user tries.
THEOREM NeverSynchronized ==
  ASSUME SyncReplies = {"ACK"}
  PROVE  Spec => [](completed = 0)
<1>1. Init => TypeInv /\ Unsynchronized
  <2> SUFFICES ASSUME Init PROVE TypeInv /\ Unsynchronized
    OBVIOUS
  <2>1. toHost \in Seq(Acknowledgements)
    BY DEF Init
  <2>2. host.pos = 1 /\ host.outcome # "done"
    BY StartSound DEF Init
  <2> QED BY <2>1, <2>2, InitTypes DEF Init, Unsynchronized
<1>2. TypeInv /\ Unsynchronized /\ [Next]_vars => (TypeInv /\ Unsynchronized)'
  BY StepTypes, StaysUnsynchronized
<1>3. Unsynchronized => completed = 0
  BY DEF Unsynchronized, completed
<1> QED BY <1>1, <1>2, <1>3, PTL DEF Spec

-----------------------------------------------------------------------------
(* What a failed operation leaves in doubt                                 *)

\* When an operation ends, however it ends, the device has taken what the host
\* holds for carried out and at most one request more, unless the process was
\* misled.
THEOREM AtMostOneInDoubt == Spec => [](~misled => taken \in {completed, completed + 1})
<1>1. Guarded => (~misled => taken \in {completed, completed + 1})
  <2> SUFFICES ASSUME Inv PROVE taken \in {completed, completed + 1}
    BY DEF Guarded
  <2>1. host.pos \in Nat /\ taken \in Nat /\ completed \in Nat
        /\ completed <= taken /\ taken <= host.pos
    BY InvBounds, Typed DEF Inv
  <2>2. host.pos <= completed + 1
    BY <2>1 DEF completed
  <2> QED BY <2>1, <2>2
<1> QED BY Invariance, <1>1, PTL
=============================================================================
