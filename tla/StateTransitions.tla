-------------------------- MODULE StateTransitions --------------------------
(***************************************************************************)
(* The device's state machine as a function: what one call of              *)
(* state_machine_transition (src/src/state/state.c) makes of the machine,  *)
(* the entry action it runs and the calls that entry action nests          *)
(* included.  StateMachine adds the callers and the retry counter;         *)
(* Firmware calls it from the main loop.                                   *)
(*                                                                         *)
(* A machine is a record: current, previous and last are the fields of     *)
(* g_state_context, ready the set of drivers whose "initialized" flag is   *)
(* set (is_initialized of hardware.c, display_state.initialized of         *)
(* display.c), which only the two entry actions below set.                 *)
(*                                                                         *)
(* hw and disp are the answers hardware_init and display_init give when    *)
(* an entry action calls them.                                             *)
(***************************************************************************)

States == {"HARDWARE_INIT", "DISPLAY_INIT", "IDLE", "SYNCING", "READY",
           "COMMAND_PROCESSING", "DATA_TRANSFER", "ERROR"}

Conditions == {"NONE", "HARDWARE_READY", "DISPLAY_READY", "SYNC_RECEIVED",
               "SYNC_VALID", "COMMAND_VALID", "TRANSFER_START",
               "TRANSFER_COMPLETE", "ERROR", "RESET", "RETRY", "RECOVERED"}

Drivers == {"hardware", "display"}

Machines == [current : States, previous : States, last : Conditions,
             ready : SUBSET Drivers]

\* The context state_machine_init installs before it runs the entry action,
\* when the drivers in up have been initialized already.
PowerOn(up) == [current |-> "HARDWARE_INIT", previous |-> "HARDWARE_INIT",
                last |-> "NONE", ready |-> up]

-----------------------------------------------------------------------------
(* state_machine_validate_transition                                       *)

\* The transitions the validator names outright.
FixedTransitions ==
  { <<"HARDWARE_INIT", "DISPLAY_INIT", "HARDWARE_READY">>,
    <<"HARDWARE_INIT", "ERROR", "ERROR">>,
    <<"DISPLAY_INIT", "IDLE", "DISPLAY_READY">>,
    <<"DISPLAY_INIT", "ERROR", "ERROR">>,
    <<"IDLE", "SYNCING", "SYNC_RECEIVED">>,
    <<"IDLE", "ERROR", "ERROR">>,
    <<"ERROR", "IDLE", "RESET">> }

\* Mutant: a failure may be reported again while the machine is in ERROR.
ErrorReentered(m, next, cond) ==
  \/ <<m.current, next, cond>> \in FixedTransitions
  \/ m.current = "ERROR" /\ next = m.previous /\ cond = "RECOVERED"
  \/ m.current = "ERROR" /\ next = "ERROR" /\ cond = "ERROR"

\* Mutant: the way back to the failed state is left out of the validator.
NoWayBack(m, next, cond) ==
  <<m.current, next, cond>> \in FixedTransitions

\* Mutant: any state may be asked to start the display over.
DisplayFromAnywhere(m, next, cond) ==
  \/ <<m.current, next, cond>> \in FixedTransitions
  \/ m.current = "ERROR" /\ next = m.previous /\ cond = "RECOVERED"
  \/ m.current = "ERROR" /\ next = "DISPLAY_INIT" /\ cond = "RESET"

\* A state asked for that is no enum value matches no disjunct: the range
\* check of state_machine_validate_state refuses it.
ValidTransition(m, next, cond) ==
  \/ <<m.current, next, cond>> \in FixedTransitions
  \/ m.current = "ERROR" /\ next = m.previous /\ cond = "RECOVERED"

-----------------------------------------------------------------------------
(* state_machine_transition                                                *)

Move(m, next, cond) ==
  [m EXCEPT !.previous = m.current, !.current = next, !.last = cond]

\* A transition to a state whose entry action does nothing.  A refused
\* transition leaves the machine alone.
Step(m, next, cond) ==
  IF ValidTransition(m, next, cond) THEN Move(m, next, cond) ELSE m

\* Mutant: the success path waits for the main loop to leave DISPLAY_INIT.
EntryWithoutCascade(m, disp) ==
  IF disp THEN [m EXCEPT !.ready = @ \cup {"display"}]
          ELSE Step(m, "ERROR", "ERROR")

\* Mutant: the result of display_init is not looked at.
DisplayResultIgnored(m, disp) ==
  Step([m EXCEPT !.ready = @ \cup (IF disp THEN {"display"} ELSE {})],
       "IDLE", "DISPLAY_READY")

\* display_init_entry
EnterDisplayInit(m, disp) ==
  IF disp THEN Step([m EXCEPT !.ready = @ \cup {"display"}],
                    "IDLE", "DISPLAY_READY")
          ELSE Step(m, "ERROR", "ERROR")

\* hardware_init_entry: its successful transition runs display_init_entry.
EnterHardwareInit(m, hw, disp) ==
  IF hw THEN LET n == Step([m EXCEPT !.ready = @ \cup {"hardware"}],
                           "DISPLAY_INIT", "HARDWARE_READY")
             IN  EnterDisplayInit(n, disp)
        ELSE Step(m, "ERROR", "ERROR")

\* The entry action of the state m has just moved to; the others are empty.
OnEntry(m, hw, disp) ==
  CASE m.current = "HARDWARE_INIT" -> EnterHardwareInit(m, hw, disp)
    [] m.current = "DISPLAY_INIT"  -> EnterDisplayInit(m, disp)
    [] OTHER -> m

\* state_machine_transition.  It returns TRUE iff the transition is valid,
\* whatever the entry action goes on to do.
Transition(m, next, cond, hw, disp) ==
  IF ValidTransition(m, next, cond)
  THEN OnEntry(Move(m, next, cond), hw, disp)
  ELSE m

\* state_machine_init
Boot(up, hw, disp) == OnEntry(PowerOn(up), hw, disp)

\* state_machine_handle_error: refused in ERROR, a failure anywhere else.
HandleError(m) ==
  IF m.current = "ERROR" THEN m ELSE Step(m, "ERROR", "ERROR")
=============================================================================
