----------------------- MODULE StateTransitionsProofs -----------------------
(***************************************************************************)
(* What every transition, and booting, makes of a machine between two      *)
(* calls, for the proofs about the modules that use StateTransitions.      *)
(*                                                                         *)
(* Settled says what is known of a machine between two calls; the lemmas   *)
(* follow it through the entry actions to Transition and Boot, so that     *)
(* those proofs need not look inside a transition.                         *)
(***************************************************************************)
EXTENDS StateTransitions, TLAPS

\* A machine between two calls, where reset tells whether a RESET was taken.
\*  - A machine that failed in DISPLAY_INIT has its hardware up, so going
\*    back there cannot start the display on buses that are down.
\*  - A machine that failed in IDLE was in IDLE rightly.
Settled(m, reset) ==
  /\ m \in Machines
  /\ m.current \in {"IDLE", "SYNCING", "ERROR"}
  /\ m.current = "ERROR" =>
       m.previous \in {"HARDWARE_INIT", "DISPLAY_INIT", "IDLE"}
  /\ "display" \in m.ready => "hardware" \in m.ready
  /\ (m.current = "ERROR" /\ m.previous = "DISPLAY_INIT")
       => "hardware" \in m.ready
  /\ (m.current # "ERROR" \/ m.previous = "IDLE")
       => ("display" \in m.ready \/ reset)

-----------------------------------------------------------------------------
(* The transition function                                                 *)

\* What Move does to each field.
LEMMA MoveFields ==
  ASSUME NEW m \in Machines, NEW next \in States, NEW cond \in Conditions
  PROVE  /\ Move(m, next, cond) \in Machines
         /\ Move(m, next, cond).current = next
         /\ Move(m, next, cond).previous = m.current
         /\ Move(m, next, cond).last = cond
         /\ Move(m, next, cond).ready = m.ready
  BY DEF Move, Machines

\* Marking a driver as ready changes nothing else.
LEMMA MarkFields ==
  ASSUME NEW m \in Machines, NEW d \in Drivers
  PROVE  /\ [m EXCEPT !.ready = @ \cup {d}] \in Machines
         /\ [m EXCEPT !.ready = @ \cup {d}].current = m.current
         /\ [m EXCEPT !.ready = @ \cup {d}].previous = m.previous
         /\ [m EXCEPT !.ready = @ \cup {d}].ready = m.ready \cup {d}
  BY DEF Machines

\* The entry action of DISPLAY_INIT ends in IDLE with the display up, or in
\* ERROR with DISPLAY_INIT remembered.
LEMMA DisplayEntrySettles ==
  ASSUME NEW m \in Machines, NEW reset \in BOOLEAN, NEW disp \in BOOLEAN,
         m.current = "DISPLAY_INIT", "hardware" \in m.ready
  PROVE  /\ Settled(EnterDisplayInit(m, disp), reset)
         /\ EnterDisplayInit(m, disp).current # "SYNCING"
<1> DEFINE up == [m EXCEPT !.ready = @ \cup {"display"}]
<1>1. /\ up \in Machines
      /\ up.current = "DISPLAY_INIT"
      /\ up.ready = m.ready \cup {"display"}
  BY MarkFields DEF Drivers
<1>2. CASE disp
  <2>1. ValidTransition(up, "IDLE", "DISPLAY_READY")
    BY <1>1 DEF ValidTransition, FixedTransitions
  <2>2. EnterDisplayInit(m, disp) = Move(up, "IDLE", "DISPLAY_READY")
    BY <1>2, <2>1 DEF EnterDisplayInit, Step
  <2> HIDE DEF up
  <2> QED
    BY <1>1, <2>2, MoveFields DEF Settled, States, Conditions
<1>3. CASE ~disp
  <2>1. ValidTransition(m, "ERROR", "ERROR")
    BY DEF ValidTransition, FixedTransitions
  <2>2. EnterDisplayInit(m, disp) = Move(m, "ERROR", "ERROR")
    BY <1>3, <2>1 DEF EnterDisplayInit, Step
  <2> QED
    BY <2>2, MoveFields DEF Settled, States, Conditions
<1> QED BY <1>2, <1>3

\* The entry action of HARDWARE_INIT settles too, in the same states, through DISPLAY_INIT.
LEMMA HardwareEntrySettles ==
  ASSUME NEW m \in Machines, NEW reset \in BOOLEAN,
         NEW hw \in BOOLEAN, NEW disp \in BOOLEAN,
         m.current = "HARDWARE_INIT",
         "display" \in m.ready => "hardware" \in m.ready
  PROVE  /\ Settled(EnterHardwareInit(m, hw, disp), reset)
         /\ EnterHardwareInit(m, hw, disp).current # "SYNCING"
<1> DEFINE up == [m EXCEPT !.ready = @ \cup {"hardware"}]
           n  == Move(up, "DISPLAY_INIT", "HARDWARE_READY")
<1>1. /\ up \in Machines
      /\ up.current = "HARDWARE_INIT"
      /\ up.ready = m.ready \cup {"hardware"}
  BY MarkFields DEF Drivers
<1>2. CASE hw
  <2>1. ValidTransition(up, "DISPLAY_INIT", "HARDWARE_READY")
    BY <1>1 DEF ValidTransition, FixedTransitions
  <2>2. EnterHardwareInit(m, hw, disp) = EnterDisplayInit(n, disp)
    BY <1>2, <2>1 DEF EnterHardwareInit, Step
  <2>3. n \in Machines /\ n.current = "DISPLAY_INIT" /\ "hardware" \in n.ready
    <3> HIDE DEF up
    <3> QED BY <1>1, MoveFields DEF States, Conditions
  <2> HIDE DEF n
  <2> QED BY <2>2, <2>3, DisplayEntrySettles
<1>3. CASE ~hw
  <2>1. ValidTransition(m, "ERROR", "ERROR")
    BY DEF ValidTransition, FixedTransitions
  <2>2. EnterHardwareInit(m, hw, disp) = Move(m, "ERROR", "ERROR")
    BY <1>3, <2>1 DEF EnterHardwareInit, Step
  <2> QED
    BY <2>2, MoveFields DEF Settled, States, Conditions
<1> QED BY <1>2, <1>3

\* Whatever is asked of a settled machine, it settles again; a RESET that is
\* accepted is remembered.
LEMMA TransitionSettles ==
  ASSUME NEW m, NEW reset \in BOOLEAN, Settled(m, reset),
         NEW next, NEW cond \in Conditions,
         NEW hw \in BOOLEAN, NEW disp \in BOOLEAN
  PROVE  Settled(Transition(m, next, cond, hw, disp),
                 reset \/ (ValidTransition(m, next, cond) /\ cond = "RESET"))
<1> DEFINE reset2 == reset \/ (ValidTransition(m, next, cond) /\ cond = "RESET")
           n == Move(m, next, cond)
<1>1. CASE ~ValidTransition(m, next, cond)
  BY <1>1 DEF Transition, Settled
<1>2. CASE ValidTransition(m, next, cond)
  <2>1. \/ /\ m.current = "IDLE"
           /\ \/ next = "SYNCING" /\ cond = "SYNC_RECEIVED"
              \/ next = "ERROR" /\ cond = "ERROR"
        \/ /\ m.current = "ERROR"
           /\ \/ next = "IDLE" /\ cond = "RESET"
              \/ next = m.previous /\ cond = "RECOVERED"
    BY <1>2 DEF ValidTransition, FixedTransitions, Settled
  <2>2. next \in States
    BY <2>1 DEF Settled, States
  <2>3. m \in Machines
    BY DEF Settled
  <2>4. /\ n \in Machines
        /\ n.current = next
        /\ n.previous = m.current
        /\ n.ready = m.ready
    BY <2>2, <2>3, MoveFields
  <2>5. Transition(m, next, cond, hw, disp) = OnEntry(n, hw, disp)
    BY <1>2 DEF Transition
  <2>6. reset2 \in BOOLEAN
    BY DEF reset2
  <2> HIDE DEF n, reset2
  <2>7. CASE next = "HARDWARE_INIT"
    <3>1. OnEntry(n, hw, disp) = EnterHardwareInit(n, hw, disp)
      BY <2>4, <2>7 DEF OnEntry
    <3> QED BY <2>4, <2>5, <2>6, <2>7, <3>1, HardwareEntrySettles DEF Settled
  <2>8. CASE next = "DISPLAY_INIT"
    <3>1. OnEntry(n, hw, disp) = EnterDisplayInit(n, disp)
      BY <2>4, <2>8 DEF OnEntry
    <3>2. "hardware" \in n.ready
      BY <2>1, <2>4, <2>8 DEF Settled
    <3> QED BY <2>4, <2>5, <2>6, <2>8, <3>1, <3>2, DisplayEntrySettles
  <2>9. CASE next \notin {"HARDWARE_INIT", "DISPLAY_INIT"}
    <3>1. OnEntry(n, hw, disp) = n
      BY <2>4, <2>9 DEF OnEntry
    <3>2. Settled(n, reset2)
      BY <1>2, <2>1, <2>4, <2>9 DEF Settled, reset2
    <3> QED BY <2>5, <3>1, <3>2 DEF reset2
  <2> QED BY <2>7, <2>8, <2>9 DEF reset2
<1> QED BY <1>1, <1>2

\* Booting settles: the display is not up before hardware_init_entry runs.
LEMMA BootSettles ==
  ASSUME NEW up \in SUBSET {"hardware"},
         NEW reset \in BOOLEAN, NEW hw \in BOOLEAN, NEW disp \in BOOLEAN
  PROVE  /\ Settled(Boot(up, hw, disp), reset)
         /\ Boot(up, hw, disp).current # "SYNCING"
<1>1. PowerOn(up) \in Machines
  BY DEF PowerOn, Machines, States, Conditions, Drivers
<1>2. /\ PowerOn(up).current = "HARDWARE_INIT"
      /\ "display" \notin PowerOn(up).ready
  BY DEF PowerOn
<1>3. Boot(up, hw, disp) = EnterHardwareInit(PowerOn(up), hw, disp)
  BY <1>2 DEF Boot, OnEntry
<1> QED BY <1>1, <1>2, <1>3, HardwareEntrySettles
=============================================================================
