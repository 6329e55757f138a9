---------------------------- MODULE StateMachine ----------------------------
(***************************************************************************)
(* The public calls of src/src/state/state.c, made in any order with any   *)
(* arguments, over the transition function of StateTransitions and the     *)
(* retry counter of src/src/state/context.c.                               *)
(*                                                                         *)
(* Every call runs to completion before the next one (the firmware has one *)
(* thread and no interrupt handler of its own), so a call is one action.   *)
(* hardware_init and display_init are declared bool and their callers      *)
(* handle FALSE: HardwareAnswers and DisplayAnswers are the answers an     *)
(* instance lets them give.                                                *)
(***************************************************************************)
EXTENDS Naturals, StateTransitions

CONSTANTS
  MaxRetries,        \* attempts context.c grants from boot on (3 in the code)
  HardwareAnswers,   \* answers of hardware_init
  DisplayAnswers     \* answers of display_init

ASSUME RetriesAssumption == MaxRetries \in Nat \ {0}
ASSUME AnswersAssumption == /\ HardwareAnswers \subseteq BOOLEAN
                            /\ DisplayAnswers \subseteq BOOLEAN
                            /\ HardwareAnswers # {} /\ DisplayAnswers # {}

VARIABLES
  machine,    \* g_state_context of state.c, with the drivers' flags
  retry,      \* retry_count and can_retry, in the context of context.c
  result,     \* what the last call returned
  stuck,      \* history: attempts at recovery since the machine entered ERROR
  wasReset    \* history: a RESET has taken the machine to IDLE since boot

vars == <<machine, retry, result, stuck, wasReset>>

\* Requests may name a state outside the enum.
Requests == States \cup {"OUT_OF_RANGE"}

\* What handle_recovery looks at in an error.
ErrorRecord(type, fatal, recoverable) ==
  [type |-> type, fatal |-> fatal, recoverable |-> recoverable]

\* What error_report of src/src/error/error.c leaves as the last error.  A
\* code outside the range of its type makes it a system error, whatever the
\* type and severity reported: main's only report has such a code.
Recorded(type, fatal, inRange) ==
  IF inRange THEN ErrorRecord(type, fatal, ~fatal)
             ELSE ErrorRecord("OTHER", FALSE, TRUE)

\* The last error there can be, none since error_init included.
Errors ==
  {ErrorRecord("OTHER", FALSE, FALSE)} \cup
  {Recorded(type, fatal, inRange) : type \in {"HARDWARE", "STATE", "OTHER"},
                                    fatal \in BOOLEAN, inRange \in BOOLEAN}

TypeOK ==
  /\ machine \in Machines
  /\ retry \in [count : 0 .. MaxRetries, can : BOOLEAN]
  /\ result \in BOOLEAN
  /\ stuck \in Nat
  /\ wasReset \in BOOLEAN

-----------------------------------------------------------------------------

\* state_machine_init.  The machine and both histories start over.
Init ==
  \E hw \in HardwareAnswers, disp \in DisplayAnswers :
    /\ machine = Boot({}, hw, disp)
    /\ retry = [count |-> 0, can |-> TRUE]
    /\ result = TRUE
    /\ stuck = 0
    /\ wasReset = FALSE

\* A call that asks for a transition, and what is remembered of it.
Call(next, cond, hw, disp) ==
  /\ machine' = Transition(machine, next, cond, hw, disp)
  /\ result' = ValidTransition(machine, next, cond)
  /\ wasReset' = (wasReset \/ (result' /\ cond = "RESET"))

\* stuck counts attempts while the machine stays in ERROR.
Remember(attempts) ==
  stuck' = IF machine'.current = "ERROR" THEN stuck + attempts ELSE 0

\* state_machine_transition, called by anyone
Request(next, cond, hw, disp) ==
  /\ Call(next, cond, hw, disp)
  /\ Remember(0)
  /\ UNCHANGED retry

\* state_machine_handle_error
ReportFailure ==
  /\ machine' = HandleError(machine)
  /\ result' = (machine.current # "ERROR"
                  /\ ValidTransition(machine, "ERROR", "ERROR"))
  /\ Remember(0)
  /\ UNCHANGED <<retry, wasReset>>

\* Mutant: the limit on retries is not consulted.
RetryUnlimited(r) == TRUE

\* state_context_can_retry
CanRetry(r) == r.can /\ r.count < MaxRetries

\* Mutant: the attempt is not counted.
AttemptNotCounted(r) == r

\* state_context_increment_retry
IncrementRetry(r) ==
  [count |-> r.count + 1, can |-> r.can /\ r.count + 1 < MaxRetries]

\* state_machine_attempt_recovery, in ERROR
AttemptRecovery(hw, disp) ==
  /\ machine.current = "ERROR"
  /\ IF CanRetry(retry)
     THEN /\ retry' = IncrementRetry(retry)
          /\ Call(machine.previous, "RECOVERED", hw, disp)
     ELSE /\ UNCHANGED retry
          /\ Call("IDLE", "RESET", hw, disp)
  /\ Remember(1)

\* state_machine_attempt_recovery, refused outside ERROR
AttemptRefused ==
  /\ machine.current # "ERROR"
  /\ result' = FALSE
  /\ UNCHANGED <<machine, retry, stuck, wasReset>>

\* recovery_get_strategy of src/src/error/recovery.c, under the configuration
\* of main.c, which does not allow reboots
Strategy(error) ==
  CASE error.fatal -> "NONE"
    [] ~error.fatal /\ error.type = "HARDWARE" -> "REINIT"
    [] ~error.fatal /\ error.type = "STATE" -> "RESET_STATE"
    [] OTHER -> IF error.recoverable THEN "RETRY" ELSE "NONE"

\* state_machine_handle_recovery.  The transition asked for by REINIT is to
\* DISPLAY_INIT: the strategy is chosen for HARDWARE errors only.
HandleRecovery(error, hw, disp) ==
  /\ \/ Strategy(error) = "RETRY" /\ Call("SYNCING", "RETRY", hw, disp)
     \/ Strategy(error) = "RESET_STATE" /\ Call("IDLE", "RESET", hw, disp)
     \/ Strategy(error) = "REINIT" /\ Call("DISPLAY_INIT", "RESET", hw, disp)
     \/ Strategy(error) = "NONE" /\ result' = FALSE /\ UNCHANGED <<machine, wasReset>>
  /\ Remember(0)
  /\ UNCHANGED retry

Next ==
  \/ ReportFailure
  \/ AttemptRefused
  \/ \E hw \in HardwareAnswers, disp \in DisplayAnswers :
       \/ \E next \in Requests, cond \in Conditions : Request(next, cond, hw, disp)
       \/ AttemptRecovery(hw, disp)
       \/ \E error \in Errors : HandleRecovery(error, hw, disp)

Spec == Init /\ [][Next]_vars

-----------------------------------------------------------------------------
(* Safety                                                                  *)

\* In ERROR, the previous state is the state that failed, and a state that
\* can fail: recovery "to the previous state" never means ERROR itself, nor
\* SYNCING, out of which no transition leads.
ErrorRemembersOrigin ==
  machine.current = "ERROR" =>
    machine.previous \in {"HARDWARE_INIT", "DISPLAY_INIT", "IDLE"}

\* The initialization states are passed through inside one call, however
\* often recovery re-enters them: between calls nobody sees the machine in
\* them.  Nor in READY, COMMAND_PROCESSING or DATA_TRANSFER, which is not
\* what docs/state_machine.md has (CommandIsProcessed of Firmware).
InitStatesAreTransient ==
  machine.current \in {"IDLE", "SYNCING", "ERROR"}

\* The panel driver is never started on buses that were not set up, whatever
\* failed, was retried or was reset before.
HardwareBeforeDisplay ==
  "display" \in machine.ready => "hardware" \in machine.ready

\* Leaving the initialization without a working display takes a RESET: no
\* sequence of failures, retries and recoveries alone ends in IDLE or
\* SYNCING with the display down.
DisplayReadyOrReset ==
  machine.current \in {"IDLE", "SYNCING"} =>
    ("display" \in machine.ready \/ wasReset)

\* attempt_recovery is never a trap: at most MaxRetries calls in a row leave
\* the machine in ERROR, and the next one does not.
RecoveryTerminates == stuck <= MaxRetries

\* In ERROR a call of attempt_recovery is never refused by the validator.
RecoveryNeverRefused ==
  [][\A hw \in HardwareAnswers, disp \in DisplayAnswers :
       AttemptRecovery(hw, disp) => result']_vars

-----------------------------------------------------------------------------
(* What the documentation says and the code does not do                    *)

\* "Any State -> ERROR" (docs/state_machine.md), and what becomes of it in
\* SYNCING, which is a dead end: no call of the state machine, a failure
\* reported, a recovery or a reset included, ever leads out of it.
SyncingIsFinal ==
  [][machine.current = "SYNCING" => machine'.current = "SYNCING"]_vars
=============================================================================
