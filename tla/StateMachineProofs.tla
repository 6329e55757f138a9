------------------------- MODULE StateMachineProofs -------------------------
(***************************************************************************)
(* The safety invariants of StateMachine, for every retry budget and every *)
(* set of answers of the drivers.                                          *)
(***************************************************************************)
EXTENDS StateMachine, StateTransitionsProofs

\* The counters: attempts in a row are counted, and the flag follows the count.
Counted ==
  /\ retry \in [count : 0 .. MaxRetries, can : BOOLEAN]
  /\ stuck \in Nat
  /\ stuck <= retry.count
  /\ retry.can <=> retry.count < MaxRetries

IInv ==
  /\ Settled(machine, wasReset)
  /\ Counted
  /\ result \in BOOLEAN
  /\ wasReset \in BOOLEAN

-----------------------------------------------------------------------------

\* A call leaves the machine settled and its answer a Boolean.
LEMMA CallSettles ==
  ASSUME IInv, NEW next, NEW cond \in Conditions,
         NEW hw \in BOOLEAN, NEW disp \in BOOLEAN,
         Call(next, cond, hw, disp)
  PROVE  /\ Settled(machine', wasReset')
         /\ result' \in BOOLEAN
         /\ wasReset' \in BOOLEAN
  BY TransitionSettles DEF Call, IInv, ValidTransition

-----------------------------------------------------------------------------
(* The invariant                                                           *)

\* Booting establishes the invariant.
LEMMA InitIInv == Init => IInv
<1> SUFFICES ASSUME Init PROVE IInv
  OBVIOUS
<1>1. PICK hw \in HardwareAnswers, disp \in DisplayAnswers :
        machine = Boot({}, hw, disp)
  BY DEF Init
<1>2. Settled(machine, wasReset)
  BY <1>1, BootSettles, AnswersAssumption DEF Init
<1>3. Counted
  BY RetriesAssumption DEF Init, Counted
<1> QED BY <1>2, <1>3 DEF IInv, Init

\* Every call preserves the invariant.
LEMMA NextIInv == IInv /\ [Next]_vars => IInv'
<1> SUFFICES ASSUME IInv, [Next]_vars PROVE IInv'
  OBVIOUS
<1> USE AnswersAssumption
<1>1. CASE UNCHANGED vars
  BY <1>1 DEF vars, IInv, Counted
<1>2. CASE ReportFailure
  <2>1. machine' = Transition(machine, "ERROR", "ERROR", TRUE, TRUE) \/ machine' = machine
    <3>1. Step(machine, "ERROR", "ERROR") = Transition(machine, "ERROR", "ERROR", TRUE, TRUE)
      <4>1. OnEntry(Move(machine, "ERROR", "ERROR"), TRUE, TRUE) = Move(machine, "ERROR", "ERROR")
        <5>1. Move(machine, "ERROR", "ERROR").current = "ERROR"
          BY MoveFields DEF IInv, Settled, States, Conditions
        <5> QED BY <5>1 DEF OnEntry
      <4> QED BY <4>1 DEF Step, Transition
    <3> QED BY <1>2, <3>1 DEF ReportFailure, HandleError
  <2>2. Settled(machine', wasReset')
    <3>1. wasReset' = wasReset
      BY <1>2 DEF ReportFailure
    <3>2. wasReset = (wasReset \/ (ValidTransition(machine, "ERROR", "ERROR") /\ "ERROR" = "RESET"))
      BY DEF IInv
    <3> QED BY <2>1, <3>1, <3>2, TransitionSettles DEF IInv, Conditions
  <2>3. Counted'
    BY <1>2 DEF ReportFailure, Remember, IInv, Counted
  <2> QED BY <1>2, <2>2, <2>3 DEF ReportFailure, IInv, ValidTransition
<1>3. CASE AttemptRefused
  BY <1>3 DEF AttemptRefused, IInv, Counted
<1>4. ASSUME NEW hw \in HardwareAnswers, NEW disp \in DisplayAnswers,
             NEW next \in Requests, NEW cond \in Conditions,
             Request(next, cond, hw, disp)
      PROVE  IInv'
  <2>1. Counted'
    BY <1>4 DEF Request, Remember, IInv, Counted
  <2> QED BY <1>4, <2>1, CallSettles DEF Request, IInv
<1>5. ASSUME NEW hw \in HardwareAnswers, NEW disp \in DisplayAnswers,
             AttemptRecovery(hw, disp)
      PROVE  IInv'
  <2>1. CASE CanRetry(retry)
    <3>1. /\ retry' = IncrementRetry(retry)
          /\ Call(machine.previous, "RECOVERED", hw, disp)
          /\ Remember(1)
      BY <1>5, <2>1 DEF AttemptRecovery
    <3>2. Counted'
      <4>1. /\ retry.count \in Nat /\ retry.count < MaxRetries
            /\ retry.can = TRUE
            /\ stuck \in Nat /\ stuck <= retry.count
        BY <2>1 DEF CanRetry, IInv, Counted
      <4>2. /\ retry'.count = retry.count + 1
            /\ retry'.can = (retry.count + 1 < MaxRetries)
            /\ retry' = [count |-> retry.count + 1, can |-> (retry.count + 1 < MaxRetries)]
        BY <3>1, <4>1 DEF IncrementRetry
      <4>3. retry' \in [count : 0 .. MaxRetries, can : BOOLEAN]
        BY <4>1, <4>2, RetriesAssumption
      <4>4. stuck' \in Nat /\ stuck' <= retry.count + 1
        BY <3>1, <4>1 DEF Remember
      <4> QED BY <4>2, <4>3, <4>4 DEF Counted
    <3> QED BY <3>1, <3>2, CallSettles DEF IInv, Conditions
  <2>2. CASE ~CanRetry(retry)
    <3>1. /\ retry' = retry
          /\ Call("IDLE", "RESET", hw, disp)
          /\ Remember(1)
      BY <1>5, <2>2 DEF AttemptRecovery
    \* The reset is accepted, so the attempts in a row are over.
    <3>2. machine'.current = "IDLE"
      <4>1. ValidTransition(machine, "IDLE", "RESET")
        BY <1>5 DEF AttemptRecovery, ValidTransition, FixedTransitions
      <4>2. Move(machine, "IDLE", "RESET").current = "IDLE"
        BY MoveFields DEF IInv, Settled, States, Conditions
      <4> QED BY <3>1, <4>1, <4>2 DEF Call, Transition, OnEntry
    <3>3. Counted'
      BY <3>1, <3>2 DEF Remember, IInv, Counted
    <3> QED BY <3>1, <3>3, CallSettles DEF IInv, Conditions
  <2> QED BY <2>1, <2>2
<1>6. ASSUME NEW hw \in HardwareAnswers, NEW disp \in DisplayAnswers,
             NEW error \in Errors, HandleRecovery(error, hw, disp)
      PROVE  IInv'
  <2>1. Counted'
    BY <1>6 DEF HandleRecovery, Remember, IInv, Counted
  <2>2. \/ Call("SYNCING", "RETRY", hw, disp)
        \/ Call("IDLE", "RESET", hw, disp)
        \/ Call("DISPLAY_INIT", "RESET", hw, disp)
        \/ result' = FALSE /\ UNCHANGED <<machine, wasReset>>
    BY <1>6 DEF HandleRecovery
  <2> QED BY <2>1, <2>2, CallSettles DEF IInv, Conditions
<1> QED
  BY <1>1, <1>2, <1>3, <1>4, <1>5, <1>6 DEF Next

(* For every budget and every set of answers: the strengthened invariant    *)
(* holds in every reachable state of the API.                               *)
THEOREM Invariance == Spec => []IInv
  BY InitIInv, NextIInv, PTL DEF Spec

-----------------------------------------------------------------------------
(* The properties the run checks                                           *)

\* Every variable keeps to its type whatever calls are made: the count of
\* retries stays within the budget of context.c.
THEOREM TypeCorrect == Spec => []TypeOK
<1>1. IInv => TypeOK
  BY DEF IInv, Settled, Counted, TypeOK
<1> QED BY <1>1, Invariance, PTL

\* ERROR always remembers a state that can be gone back to: previous_state is
\* never ERROR and never a state without a way out.
THEOREM OriginRemembered == Spec => []ErrorRemembersOrigin
<1>1. IInv => ErrorRemembersOrigin
  BY DEF IInv, Settled, ErrorRemembersOrigin
<1> QED BY <1>1, Invariance, PTL

\* Between two calls the machine is in IDLE, SYNCING or ERROR: the cascade of
\* entry actions always runs to its end.
THEOREM Transience == Spec => []InitStatesAreTransient
<1>1. IInv => InitStatesAreTransient
  BY DEF IInv, Settled, InitStatesAreTransient
<1> QED BY <1>1, Invariance, PTL

\* display_init succeeds only on hardware that was set up, through every
\* sequence of failures, retries and resets.
THEOREM DriverOrder == Spec => []HardwareBeforeDisplay
<1>1. IInv => HardwareBeforeDisplay
  BY DEF IInv, Settled, HardwareBeforeDisplay
<1> QED BY <1>1, Invariance, PTL

\* Without a RESET, the machine leaves initialization with the display up.
THEOREM DisplayBroughtUp == Spec => []DisplayReadyOrReset
<1>1. IInv => DisplayReadyOrReset
  BY DEF IInv, Settled, DisplayReadyOrReset
<1> QED BY <1>1, Invariance, PTL

\* No more than MaxRetries calls of attempt_recovery in a row leave the
\* machine in ERROR.
THEOREM RecoveryBounded == Spec => []RecoveryTerminates
<1>1. ASSUME IInv PROVE RecoveryTerminates
  <2>1. /\ retry \in [count : 0 .. MaxRetries, can : BOOLEAN]
        /\ stuck \in Nat
        /\ stuck <= retry.count
    BY <1>1 DEF IInv, Counted
  <2>2. retry.count \in 0 .. MaxRetries
    BY <2>1
  <2> QED BY <2>1, <2>2, RetriesAssumption DEF RecoveryTerminates
<1> QED BY <1>1, Invariance, PTL

\* The validator accepts whichever transition attempt_recovery asks for.
THEOREM RecoveryAccepted == Spec => RecoveryNeverRefused
<1>1. ASSUME NEW hw \in HardwareAnswers, NEW disp \in DisplayAnswers,
             AttemptRecovery(hw, disp)
      PROVE  result' = TRUE
  <2>1. /\ ValidTransition(machine, machine.previous, "RECOVERED")
        /\ ValidTransition(machine, "IDLE", "RESET")
    BY <1>1 DEF AttemptRecovery, ValidTransition, FixedTransitions
  <2> QED BY <1>1, <2>1 DEF AttemptRecovery, Call
<1>2. [Next]_vars => [\A hw \in HardwareAnswers, disp \in DisplayAnswers :
                        AttemptRecovery(hw, disp) => result']_vars
  BY <1>1
<1> QED BY <1>2, PTL DEF Spec, RecoveryNeverRefused

\* Whatever is called, a machine in SYNCING stays there.
THEOREM SyncingTraps == Spec => SyncingIsFinal
<1>1. ASSUME [Next]_vars, machine.current = "SYNCING"
      PROVE  machine'.current = "SYNCING"
  <2>1. \A next, cond : ~ValidTransition(machine, next, cond)
    BY <1>1 DEF ValidTransition, FixedTransitions
  <2>2. \A next, cond, hw, disp : Transition(machine, next, cond, hw, disp) = machine
    BY <2>1 DEF Transition
  <2>3. \A next, cond, hw, disp : Call(next, cond, hw, disp) => machine' = machine
    BY <2>2 DEF Call
  <2>4. CASE ReportFailure
    BY <1>1, <2>1, <2>4 DEF ReportFailure, HandleError, Step
  <2>5. CASE UNCHANGED vars \/ AttemptRefused
    BY <1>1, <2>5 DEF vars, AttemptRefused
  <2>6. ASSUME NEW hw, NEW disp, NEW next, NEW cond, Request(next, cond, hw, disp)
        PROVE  machine'.current = "SYNCING"
    BY <1>1, <2>3, <2>6 DEF Request
  <2>7. ASSUME NEW hw, NEW disp PROVE ~AttemptRecovery(hw, disp)
    BY <1>1 DEF AttemptRecovery
  <2>8. ASSUME NEW error, NEW hw, NEW disp, HandleRecovery(error, hw, disp)
        PROVE  machine'.current = "SYNCING"
    BY <1>1, <2>3, <2>8 DEF HandleRecovery
  <2> QED BY <1>1, <2>4, <2>5, <2>6, <2>7, <2>8 DEF Next
<1>2. [Next]_vars => [machine.current = "SYNCING" => machine'.current = "SYNCING"]_vars
  BY <1>1
<1> QED BY <1>2, PTL DEF Spec, SyncingIsFinal
=============================================================================
