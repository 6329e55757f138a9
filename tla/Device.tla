------------------------------- MODULE Device -------------------------------
(***************************************************************************)
(* The state machine together with what its entry actions drive, the panel *)
(* (Panel), and with the two layers above it that draw: the test patterns  *)
(* of src/src/hardware/display.c and the commands of                       *)
(* src/src/protocol/command.c.                                             *)
(*                                                                         *)
(* Every call of StateMachine is a call here, with what it does to the     *)
(* panel added: DeviceSpec implies Spec (theorem Implements of             *)
(* DeviceProofs).  There is one thread, so a call is one action.           *)
(*                                                                         *)
(* hardware_deinit alone and display_deinit have no caller in src/ and are *)
(* left out.                                                               *)
(***************************************************************************)
EXTENDS StateMachine, Panel

VARIABLES
  lcd,        \* the panel, as in Panel
  settings,   \* display_state.config of display.c, the brightness left out
  command,    \* g_command_context and g_command_status of command.c
  asked,      \* history: the pattern last drawn, and under which orientation
  rewired     \* history: hardware_reset ran since the panel was last set up

panelVars == <<lcd, settings, asked, rewired>>

deviceVars == <<vars, lcd, settings, command, asked, rewired>>

CommandTypes == {"IMAGE_START", "IMAGE_END", "PATTERN_CHECKER", "PATTERN_STRIPE",
                 "PATTERN_GRADIENT", "HELP", "PING", "UNKNOWN"}

Commands == [inProgress : BOOLEAN, success : BOOLEAN]

NoCommand == [inProgress |-> FALSE, success |-> FALSE]

\* A pattern drawn under an orientation; display_init ends with this one.
Drawings == [pattern : Patterns, turned : Orientations]

LastOfInit == [pattern |-> "CHECKERBOARD", turned |-> "ORIENTATION_0"]

\* What display.c believes of the controller's registers: nothing until it is
\* given the configuration of main.c.
Settings == [turned : Orientations \cup {"UNSET"}, inverted : BOOLEAN]

UnsetSettings == [turned |-> "UNSET", inverted |-> FALSE]

MainSettings == [turned |-> "ORIENTATION_0", inverted |-> FALSE]

DeviceTypeOK ==
  /\ lcd \in Lcds
  /\ settings \in Settings
  /\ command \in Commands
  /\ asked \in Drawings
  /\ rewired \in BOOLEAN

-----------------------------------------------------------------------------
(* What a transition does to the panel                                     *)

\* The entry actions call hardware_init, ...
InitializesHardware(m, next, cond, hw) ==
  ValidTransition(m, next, cond) /\ next = "HARDWARE_INIT" /\ hw

\* ... and, once that is done or at once, display_init.
InitializesDisplay(m, next, cond, hw, disp) ==
  /\ ValidTransition(m, next, cond)
  /\ next = "DISPLAY_INIT" \/ InitializesHardware(m, next, cond, hw)
  /\ disp

\* The panel after both.  A call that fails was given no configuration and
\* has done nothing.
Driven(l, hardware, display, pulse) ==
  LET up == IF hardware THEN WireUp(l, pulse) ELSE l
  IN  IF display THEN DisplayUp(up) ELSE up

\* A transition of the machine, seen from the panel.
Drive(next, cond, hw, disp, pulse) ==
  LET hardware == InitializesHardware(machine, next, cond, hw)
      display  == InitializesDisplay(machine, next, cond, hw, disp)
  IN  /\ lcd' = Driven(lcd, hardware, display, pulse)
      /\ settings' = IF display THEN MainSettings ELSE settings
      /\ asked' = IF display THEN LastOfInit ELSE asked
      /\ rewired' = (rewired /\ ~display)

\* main.c and state_machine_init
DeviceInit ==
  /\ \E hw \in HardwareAnswers, disp \in DisplayAnswers, pulse \in BOOLEAN :
       /\ machine = Boot({}, hw, disp)
       /\ lcd = Driven(Dark, hw, hw /\ disp, pulse)
       /\ settings = IF hw /\ disp THEN MainSettings ELSE UnsetSettings
  /\ retry = [count |-> 0, can |-> TRUE]
  /\ result = TRUE
  /\ stuck = 0
  /\ wasReset = FALSE
  /\ command = NoCommand
  /\ asked = LastOfInit
  /\ rewired = FALSE

\* The calls of the state machine, as in StateMachine, with the transition
\* each of them asks for.  Of state_machine_transition, those that are valid.
DriveRequest(next, cond, hw, disp, pulse) ==
  /\ ValidTransition(machine, next, cond)
  /\ Request(next, cond, hw, disp)
  /\ Drive(next, cond, hw, disp, pulse)
  /\ UNCHANGED command

\* The calls the validator refuses, which ask nothing of the drivers and do
\* all the same.
Refused == {call \in Requests \X Conditions : ~ValidTransition(machine, call[1], call[2])}

RequestRefused ==
  /\ Refused # {}
  /\ result' = FALSE
  /\ UNCHANGED <<machine, retry, wasReset, panelVars, command>>
  /\ Remember(0)

DriveRecovery(hw, disp, pulse) ==
  /\ AttemptRecovery(hw, disp)
  /\ IF CanRetry(retry) THEN Drive(machine.previous, "RECOVERED", hw, disp, pulse)
                        ELSE Drive("IDLE", "RESET", hw, disp, pulse)
  /\ UNCHANGED command

\* The other calls ask for SYNCING, IDLE, ERROR or, with the condition RESET,
\* for DISPLAY_INIT: none of them starts a driver.
OtherCalls ==
  /\ \/ ReportFailure
     \/ AttemptRefused
     \/ \E error \in Errors, hw \in HardwareAnswers, disp \in DisplayAnswers :
          HandleRecovery(error, hw, disp)
  /\ UNCHANGED <<panelVars, command>>

-----------------------------------------------------------------------------
(* Drawing                                                                 *)

\* A call that concerns the panel and not the machine, ...
Touch(after) ==
  /\ lcd' = after
  /\ UNCHANGED <<vars, rewired>>

\* ... and one that draws a pattern.
Draw(pattern) ==
  /\ Touch(Fill(lcd, Drawing[pattern]))
  /\ asked' = [pattern |-> pattern, turned |-> lcd.turned]
  /\ UNCHANGED settings

\* display_draw_test_pattern
DrawTestPattern(pattern) == Draw(pattern) /\ UNCHANGED command

\* display_clear
DisplayClear == Touch(Clear(lcd)) /\ UNCHANGED <<settings, asked, command>>

\* display_write_pixels
DisplayWritePixels == Touch(WritePixels(lcd)) /\ UNCHANGED <<settings, asked, command>>

\* display_set_orientation
SetOrientation(turned) ==
  /\ Touch(Configure(lcd, turned, lcd.inverted))
  /\ settings' = [settings EXCEPT !.turned = turned]
  /\ UNCHANGED <<asked, command>>

\* display_set_inverted
SetInverted(inverted) ==
  /\ Touch(Configure(lcd, lcd.turned, inverted))
  /\ settings' = [settings EXCEPT !.inverted = inverted]
  /\ UNCHANGED <<asked, command>>

\* display_set_brightness
SetBrightness ==
  /\ Touch(Configure(lcd, lcd.turned, lcd.inverted))
  /\ UNCHANGED <<settings, asked, command>>

\* hardware_reset of hardware.c, offered to recovery by reinit_handler of
\* main.c: the hardware is deinitialized, which leaves the reset line to
\* itself for a while, and initialized again.  Nobody tells display.c.
HardwareReset(pulse) ==
  /\ "hardware" \in machine.ready
  /\ lcd' = WireUp(lcd, pulse)
  /\ rewired' = TRUE
  /\ UNCHANGED <<vars, settings, command, asked>>

-----------------------------------------------------------------------------
(* Commands                                                                *)

\* What the pattern commands draw.
Shown ==
  [PATTERN_CHECKER  |-> "CHECKERBOARD",
   PATTERN_STRIPE   |-> "COLOR_BARS",
   PATTERN_GRADIENT |-> "GRADIENT"]

\* command_show_checkerboard, command_show_stripes, command_show_gradient
ShowPattern(type) ==
  /\ Draw(Shown[type])
  /\ command' = [command EXCEPT !.success = TRUE]

\* command_validate_state
Accepting == machine.current \in {"COMMAND_PROCESSING", "DATA_TRANSFER"}

\* The image commands ask for a transition, to a state without entry action.
ImageTransition(type) ==
  IF type = "IMAGE_START" THEN Request("DATA_TRANSFER", "TRANSFER_START", TRUE, TRUE)
                          ELSE Request("READY", "TRANSFER_COMPLETE", TRUE, TRUE)

\* The switch of command_process.  Help and ping leave a message, which
\* the model does not keep; no case ends the command.
Dispatch(type) ==
  /\ CASE type \in DOMAIN Shown ->
            Draw(Shown[type])
       [] type \in {"IMAGE_START", "IMAGE_END"} ->
            ImageTransition(type) /\ UNCHANGED panelVars
       [] OTHER -> UNCHANGED <<vars, panelVars>>
  /\ command' = [inProgress |-> TRUE,
                 success |-> CASE type \in DOMAIN Shown -> TRUE
                               [] type = "UNKNOWN" -> FALSE
                               [] OTHER -> command.success]

\* command_process
ProcessCommand(type) ==
  IF Accepting THEN Dispatch(type) ELSE UNCHANGED deviceVars

\* command_complete and command_abort.  Both set the status and then call
\* command_reset, which clears it.
EndCommand ==
  /\ command' = IF command.inProgress THEN NoCommand ELSE command
  /\ UNCHANGED <<vars, panelVars>>

\* command_reset
ResetCommand ==
  /\ command' = NoCommand
  /\ UNCHANGED <<vars, panelVars>>

DeviceNext ==
  \/ OtherCalls
  \/ RequestRefused
  \/ \E hw \in HardwareAnswers, disp \in DisplayAnswers, pulse \in BOOLEAN :
       \/ \E next \in Requests, cond \in Conditions :
            DriveRequest(next, cond, hw, disp, pulse)
       \/ DriveRecovery(hw, disp, pulse)
  \/ \E pattern \in Patterns : DrawTestPattern(pattern)
  \/ DisplayClear
  \/ DisplayWritePixels
  \/ \E turned \in Orientations : SetOrientation(turned)
  \/ \E inverted \in BOOLEAN : SetInverted(inverted)
  \/ SetBrightness
  \/ \E pulse \in BOOLEAN : HardwareReset(pulse)
  \/ \E type \in DOMAIN Shown : ShowPattern(type)
  \/ \E type \in CommandTypes : ProcessCommand(type)
  \/ EndCommand
  \/ ResetCommand

DeviceSpec == DeviceInit /\ [][DeviceNext]_deviceVars

-----------------------------------------------------------------------------
(* Properties                                                              *)

\* Once display_init has returned TRUE the panel is out of sleep and stays
\* so, whatever fails and is recovered later; only hardware_reset can put it
\* out behind the back of display.c.  display_init does not look at what
\* GC9A01_init could do, so this rests on the order in which the state
\* machine brings the drivers up.
AwakeUnlessRewired ==
  "display" \in machine.ready => lcd.awake \/ rewired

\* A panel that is awake shows the pattern drawn last, to the pixel: what
\* draws it covers the panel, does not reach beyond it, and nothing drawn or
\* configured since is left on it.  It lies as the orientation it was drawn
\* under says, which a later one does not change, and in the colours the
\* bytes sent mean: the two of each are exchanged, so that the red, green and
\* blue of docs/display.md are not the red, green and blue of the glass.
ShowsWhatWasDrawn ==
  lcd.awake => lcd.picture = Seen(asked.pattern, asked.turned)

\* What display.c believes of the controller's registers is so: the setters
\* store and send, and display_init, whose GC9A01_init resets the controller
\* and leaves registers at values of its own, ends with both in step,
\* whatever failed before and whatever is set after.  Only hardware_reset can
\* part them, behind the back of display.c.
SettingsInForce ==
  "display" \in machine.ready =>
    \/ lcd.turned = settings.turned /\ lcd.inverted = settings.inverted
    \/ rewired

-----------------------------------------------------------------------------
(* What the documentation says and the code does not do                    *)

\* "COMMAND_PROCESSING", "begin command processing" (docs/state_machine.md),
\* and what becomes of it: command_process carries out no command, since the
\* states in which it would are not reached by any order of calls.
CommandLayerIdle == ~command.inProgress
=============================================================================
