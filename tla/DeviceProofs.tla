---------------------------- MODULE DeviceProofs ----------------------------
(***************************************************************************)
(* Device implements StateMachine, so whatever is proved of the state      *)
(* machine holds with its drivers, the test patterns and the commands      *)
(* around it; the panel is awake whenever its driver believes so, and      *)
(* shows what was drawn last.  For every retry budget, all answers of the  *)
(* drivers and every size of the panel.                                    *)
(***************************************************************************)
EXTENDS Device, StateMachineProofs

\* A machine whose hardware failed has never had a driver up.
NothingUp(m) ==
  m.current = "ERROR" /\ m.previous = "HARDWARE_INIT" => m.ready = {}

\* An lcd, by its fields.
LcdOf(wired, hal, awake, writing, turned, inverted, picture) ==
  [wired |-> wired, hal |-> hal, awake |-> awake, writing |-> writing,
   turned |-> turned, inverted |-> inverted, picture |-> picture]

\* What an lcd is, its registers and its picture left open.
Shaped(l) ==
  /\ l = LcdOf(l.wired, l.hal, l.awake, l.writing, l.turned, l.inverted, l.picture)
  /\ l.wired \in BOOLEAN /\ l.hal \in BOOLEAN /\ l.awake \in BOOLEAN
  /\ l.inverted \in BOOLEAN

\* The registers hold what display.c believes.
InStep(l, set) == l.turned = set.turned /\ l.inverted = set.inverted

PanelInv ==
  /\ NothingUp(machine)
  /\ Shaped(lcd)
  /\ "hardware" \in machine.ready => lcd.wired
  /\ "display" \in machine.ready =>
       /\ lcd.hal
       /\ lcd.awake \/ rewired
       /\ InStep(lcd, settings) \/ rewired
  /\ settings \in Settings
  /\ rewired \in BOOLEAN
  /\ command \in Commands
  /\ ~command.inProgress

-----------------------------------------------------------------------------
(* What a transition starts                                                *)

\* The flags a transition raises, and that it starts the display only on
\* hardware that is up and the hardware only when nothing is.
Starts(m, after, hardware, display) ==
  /\ NothingUp(after)
  /\ after.ready = m.ready \cup (IF hardware THEN {"hardware"} ELSE {})
                           \cup (IF display THEN {"display"} ELSE {})
  /\ display => hardware \/ "hardware" \in m.ready
  /\ hardware => m.ready = {}

LEMMA DisplayEntryStarts ==
  ASSUME NEW m \in Machines, m.current = "DISPLAY_INIT", NEW disp \in BOOLEAN
  PROVE  /\ NothingUp(EnterDisplayInit(m, disp))
         /\ EnterDisplayInit(m, disp).ready
              = m.ready \cup (IF disp THEN {"display"} ELSE {})
<1> DEFINE up == [m EXCEPT !.ready = @ \cup {"display"}]
<1>1. /\ up \in Machines
      /\ up.current = "DISPLAY_INIT"
      /\ up.ready = m.ready \cup {"display"}
  BY MarkFields DEF Drivers
<1>2. CASE disp
  <2>1. ValidTransition(up, "IDLE", "DISPLAY_READY")
    BY <1>1 DEF ValidTransition, FixedTransitions
  <2>2. EnterDisplayInit(m, disp) = Move(up, "IDLE", "DISPLAY_READY")
    BY <1>2, <2>1 DEF EnterDisplayInit, Step
  <2> HIDE DEF up
  <2>3. /\ EnterDisplayInit(m, disp).current = "IDLE"
        /\ EnterDisplayInit(m, disp).ready = m.ready \cup {"display"}
    BY <1>1, <2>2, MoveFields DEF States, Conditions
  <2> QED BY <1>2, <2>3 DEF NothingUp
<1>3. CASE ~disp
  <2>1. ValidTransition(m, "ERROR", "ERROR")
    BY DEF ValidTransition, FixedTransitions
  <2>2. EnterDisplayInit(m, disp) = Move(m, "ERROR", "ERROR")
    BY <1>3, <2>1 DEF EnterDisplayInit, Step
  <2> QED BY <1>3, <2>2, MoveFields DEF NothingUp, States, Conditions
<1> QED BY <1>2, <1>3

LEMMA HardwareEntryStarts ==
  ASSUME NEW m \in Machines, m.current = "HARDWARE_INIT", m.ready = {},
         NEW hw \in BOOLEAN, NEW disp \in BOOLEAN
  PROVE  Starts(m, EnterHardwareInit(m, hw, disp), hw, hw /\ disp)
<1> DEFINE up == [m EXCEPT !.ready = @ \cup {"hardware"}]
           n  == Move(up, "DISPLAY_INIT", "HARDWARE_READY")
<1>1. /\ up \in Machines
      /\ up.current = "HARDWARE_INIT"
      /\ up.ready = m.ready \cup {"hardware"}
  BY MarkFields DEF Drivers
<1>2. CASE hw
  <2>1. ValidTransition(up, "DISPLAY_INIT", "HARDWARE_READY")
    BY <1>1 DEF ValidTransition, FixedTransitions
  <2>2. EnterHardwareInit(m, hw, disp) = EnterDisplayInit(n, disp)
    BY <1>2, <2>1 DEF EnterHardwareInit, Step
  <2>3. n \in Machines /\ n.current = "DISPLAY_INIT" /\ n.ready = m.ready \cup {"hardware"}
    <3> HIDE DEF up
    <3> QED BY <1>1, MoveFields DEF States, Conditions
  <2> HIDE DEF n
  <2>4. /\ NothingUp(EnterDisplayInit(n, disp))
        /\ EnterDisplayInit(n, disp).ready = n.ready \cup (IF disp THEN {"display"} ELSE {})
    BY <2>3, DisplayEntryStarts
  <2> QED BY <1>2, <2>2, <2>3, <2>4 DEF Starts
<1>3. CASE ~hw
  <2>1. ValidTransition(m, "ERROR", "ERROR")
    BY DEF ValidTransition, FixedTransitions
  <2>2. EnterHardwareInit(m, hw, disp) = Move(m, "ERROR", "ERROR")
    BY <1>3, <2>1 DEF EnterHardwareInit, Step
  <2>3. Move(m, "ERROR", "ERROR").ready = {}
    BY MoveFields DEF States, Conditions
  <2> QED BY <1>3, <2>2, <2>3 DEF Starts, NothingUp
<1> QED BY <1>2, <1>3

LEMMA TransitionStarts ==
  ASSUME NEW m, NEW reset \in BOOLEAN, Settled(m, reset), NothingUp(m),
         NEW next, NEW cond \in Conditions, NEW hw \in BOOLEAN, NEW disp \in BOOLEAN
  PROVE  Starts(m, Transition(m, next, cond, hw, disp),
                InitializesHardware(m, next, cond, hw),
                InitializesDisplay(m, next, cond, hw, disp))
<1> DEFINE n == Move(m, next, cond)
           hardware == InitializesHardware(m, next, cond, hw)
           display  == InitializesDisplay(m, next, cond, hw, disp)
<1>1. CASE ~ValidTransition(m, next, cond)
  <2>1. ~hardware /\ ~display /\ Transition(m, next, cond, hw, disp) = m
    BY <1>1 DEF Transition, InitializesHardware, InitializesDisplay
  <2> HIDE DEF hardware, display
  <2>2. Starts(m, Transition(m, next, cond, hw, disp), hardware, display)
    BY <2>1 DEF Starts
  <2> QED BY <2>2 DEF hardware, display
<1>2. CASE ValidTransition(m, next, cond)
  <2>1. \/ /\ m.current = "IDLE"
           /\ \/ next = "SYNCING" /\ cond = "SYNC_RECEIVED"
              \/ next = "ERROR" /\ cond = "ERROR"
        \/ /\ m.current = "ERROR"
           /\ \/ next = "IDLE" /\ cond = "RESET"
              \/ next = m.previous /\ cond = "RECOVERED"
    BY <1>2 DEF ValidTransition, FixedTransitions, Settled
  <2>2. next \in States /\ m \in Machines
    BY <2>1 DEF Settled, States
  <2>3. n \in Machines /\ n.current = next /\ n.previous = m.current /\ n.ready = m.ready
    BY <2>2, MoveFields
  <2>4. Transition(m, next, cond, hw, disp) = OnEntry(n, hw, disp)
    BY <1>2 DEF Transition
  <2>5. /\ hardware <=> next = "HARDWARE_INIT" /\ hw
        /\ display <=> (next = "DISPLAY_INIT" \/ (next = "HARDWARE_INIT" /\ hw)) /\ disp
    BY <1>2 DEF InitializesHardware, InitializesDisplay
  <2> HIDE DEF n, hardware, display
  <2>6. CASE next = "HARDWARE_INIT"
    <3>1. n.ready = {}
      BY <2>1, <2>3, <2>6 DEF NothingUp
    <3>2. OnEntry(n, hw, disp) = EnterHardwareInit(n, hw, disp)
      BY <2>3, <2>6 DEF OnEntry
    <3>3. Starts(n, EnterHardwareInit(n, hw, disp), hw, hw /\ disp)
      BY <2>3, <2>6, <3>1, HardwareEntryStarts
    <3>4. (hardware <=> hw) /\ (display <=> (hw /\ disp))
      BY <2>5, <2>6
    <3>5. Starts(m, Transition(m, next, cond, hw, disp), hardware, display)
      BY <2>3, <2>4, <3>2, <3>3, <3>4 DEF Starts
    <3> QED BY <3>5 DEF hardware, display
  <2>7. CASE next = "DISPLAY_INIT"
    <3>1. "hardware" \in m.ready
      BY <2>1, <2>7 DEF Settled
    <3>2. OnEntry(n, hw, disp) = EnterDisplayInit(n, disp)
      BY <2>3, <2>7 DEF OnEntry
    <3>3. /\ NothingUp(EnterDisplayInit(n, disp))
          /\ EnterDisplayInit(n, disp).ready = n.ready \cup (IF disp THEN {"display"} ELSE {})
      BY <2>3, <2>7, DisplayEntryStarts
    <3>4. ~hardware /\ (display <=> disp)
      BY <2>5, <2>7
    <3>5. Starts(m, Transition(m, next, cond, hw, disp), hardware, display)
      BY <2>3, <2>4, <3>1, <3>2, <3>3, <3>4 DEF Starts
    <3> QED BY <3>5 DEF hardware, display
  <2>8. CASE next \notin {"HARDWARE_INIT", "DISPLAY_INIT"}
    <3>1. OnEntry(n, hw, disp) = n
      BY <2>3, <2>8 DEF OnEntry
    <3>2. ~hardware /\ ~display
      BY <2>5, <2>8
    <3>3. NothingUp(n)
      BY <2>1, <2>3, <2>8 DEF NothingUp
    <3>4. Starts(m, Transition(m, next, cond, hw, disp), hardware, display)
      BY <2>3, <2>4, <3>1, <3>2, <3>3 DEF Starts
    <3> QED BY <3>4 DEF hardware, display
  <2> QED BY <2>6, <2>7, <2>8 DEF hardware, display
<1> QED BY <1>1, <1>2

-----------------------------------------------------------------------------
(* What the drivers do to the panel                                        *)

\* Drawing neither wakes the panel nor puts it out, nor does it set its
\* registers.
Kept(l, after) ==
  /\ Shaped(after)
  /\ after.wired = l.wired /\ after.hal = l.hal /\ after.awake = l.awake
  /\ after.turned = l.turned /\ after.inverted = l.inverted

LEMMA CommandKeeps ==
  ASSUME NEW l, Shaped(l), NEW opens \in BOOLEAN
  PROVE  Kept(l, Command(l, opens))
<1> DEFINE after == LcdOf(l.wired, l.hal, l.awake, opens, l.turned, l.inverted, l.picture)
<1>1. [l EXCEPT !.writing = opens] = after
  BY DEF Shaped, LcdOf
<1>2. Kept(l, after) /\ Kept(l, l)
  BY DEF Kept, Shaped, LcdOf
<1> QED BY <1>1, <1>2 DEF Command

LEMMA DataKeeps ==
  ASSUME NEW l, Shaped(l), NEW pixels
  PROVE  Kept(l, Data(l, pixels))
<1> DEFINE picture == Paint(l, pixels)
           after == LcdOf(l.wired, l.hal, l.awake, l.writing, l.turned, l.inverted, picture)
<1> HIDE DEF picture
<1>1. [l EXCEPT !.picture = picture] = after
  BY DEF Shaped, LcdOf
<1>2. Kept(l, after) /\ Kept(l, l)
  BY DEF Kept, Shaped, LcdOf
<1> HIDE DEF after
<1>3. Data(l, pixels) = after \/ Data(l, pixels) = l
  BY <1>1 DEF Data, picture
<1> QED BY <1>2, <1>3

LEMMA DrawingKeeps ==
  ASSUME NEW l, Shaped(l)
  PROVE  /\ \A pixels : Kept(l, Fill(l, pixels))
         /\ Kept(l, Clear(l)) /\ Kept(l, WritePixels(l))
<1>1. Kept(l, SetFrame(l))
  BY CommandKeeps DEF SetFrame
<1>2. Kept(SetFrame(l), Command(SetFrame(l), TRUE))
  BY <1>1, CommandKeeps DEF Kept
<1>3. ASSUME NEW pixels PROVE Kept(l, Fill(l, pixels))
  <2>1. Kept(Command(SetFrame(l), TRUE), Fill(l, pixels))
    BY <1>2, DataKeeps DEF Kept, Fill
  <2> QED BY <1>1, <1>2, <2>1 DEF Kept
<1>4. Kept(l, Clear(l))
  <2>1. Kept(SetFrame(l), Clear(l))
    BY <1>1, DataKeeps DEF Kept, Clear, FillRegion
  <2> QED BY <1>1, <2>1 DEF Kept
<1> QED BY <1>1, <1>3, <1>4 DEF WritePixels

\* One field of an lcd set, for each that display.c sets.
LEMMA WritingSet ==
  ASSUME NEW l, Shaped(l), NEW on \in BOOLEAN
  PROVE  [l EXCEPT !.writing = on]
           = LcdOf(l.wired, l.hal, l.awake, on, l.turned, l.inverted, l.picture)
  BY DEF Shaped, LcdOf

LEMMA TurningSet ==
  ASSUME NEW l, Shaped(l), NEW turned
  PROVE  [l EXCEPT !.turned = turned]
           = LcdOf(l.wired, l.hal, l.awake, l.writing, turned, l.inverted, l.picture)
  BY DEF Shaped, LcdOf

LEMMA InvertingSet ==
  ASSUME NEW l, Shaped(l), NEW on \in BOOLEAN
  PROVE  [l EXCEPT !.inverted = on]
           = LcdOf(l.wired, l.hal, l.awake, l.writing, l.turned, on, l.picture)
  BY DEF Shaped, LcdOf

\* The fields that a command sets, one after the other.
LEMMA FieldsSet ==
  ASSUME NEW l, Shaped(l), NEW shut \in BOOLEAN, NEW turned, NEW inverted \in BOOLEAN
  PROVE  LET aimed == [[l EXCEPT !.writing = shut] EXCEPT !.turned = turned]
         IN  [aimed EXCEPT !.inverted = inverted]
               = LcdOf(l.wired, l.hal, l.awake, shut, turned, inverted, l.picture)
<1> DEFINE closed == LcdOf(l.wired, l.hal, l.awake, shut, l.turned, l.inverted, l.picture)
           aimed  == LcdOf(l.wired, l.hal, l.awake, shut, turned, l.inverted, l.picture)
           after  == LcdOf(l.wired, l.hal, l.awake, shut, turned, inverted, l.picture)
<1>1. [l EXCEPT !.writing = shut] = closed
  BY WritingSet
<1>2. /\ Shaped(closed)
      /\ closed.wired = l.wired /\ closed.hal = l.hal /\ closed.awake = l.awake
      /\ closed.writing = shut /\ closed.inverted = l.inverted
      /\ closed.picture = l.picture
  BY DEF Shaped, LcdOf
<1>3. /\ Shaped(aimed)
      /\ aimed.wired = l.wired /\ aimed.hal = l.hal /\ aimed.awake = l.awake
      /\ aimed.writing = shut /\ aimed.turned = turned
      /\ aimed.picture = l.picture
  BY DEF Shaped, LcdOf
<1> HIDE DEF closed
<1>4. [closed EXCEPT !.turned = turned] = aimed
  BY <1>2, TurningSet
<1> HIDE DEF aimed
<1>5. [aimed EXCEPT !.inverted = inverted] = after
  BY <1>3, InvertingSet
<1> HIDE DEF after
<1>6. [[[l EXCEPT !.writing = shut] EXCEPT !.turned = turned]
         EXCEPT !.inverted = inverted] = after
  BY <1>1, <1>4, <1>5, Zenon
<1> QED BY <1>6 DEF after

\* A command that sets registers.
LEMMA RegistersSet ==
  ASSUME NEW l, Shaped(l), Reaches(l), NEW turned, NEW inverted \in BOOLEAN
  PROVE  Configure(l, turned, inverted)
           = LcdOf(l.wired, l.hal, l.awake, FALSE, turned, inverted, l.picture)
<1>1. FALSE \in BOOLEAN
  OBVIOUS
<1>2. Configure(l, turned, inverted)
        = LET aimed == [[l EXCEPT !.writing = FALSE] EXCEPT !.turned = turned]
          IN  [aimed EXCEPT !.inverted = inverted]
  BY Zenon DEF Configure, Command
<1> QED BY <1>1, <1>2, FieldsSet, Zenon

\* Configuring sets the registers of a controller that can be reached, and
\* nothing else of it.
LEMMA ConfigureSets ==
  ASSUME NEW l, Shaped(l), NEW turned, NEW inverted \in BOOLEAN
  PROVE  LET after == Configure(l, turned, inverted)
         IN  /\ Shaped(after)
             /\ after.wired = l.wired /\ after.hal = l.hal /\ after.awake = l.awake
             /\ after.picture = l.picture
             /\ Reaches(l) => after.turned = turned /\ after.inverted = inverted
             /\ ~Reaches(l) => after = l
<1> DEFINE after == LcdOf(l.wired, l.hal, l.awake, FALSE, turned, inverted, l.picture)
<1>1. Reaches(l) => Configure(l, turned, inverted) = after
  BY RegistersSet
<1>2. /\ Shaped(after)
      /\ after.wired = l.wired /\ after.hal = l.hal /\ after.awake = l.awake
      /\ after.picture = l.picture
      /\ after.turned = turned /\ after.inverted = inverted
  BY DEF Shaped, LcdOf
<1> HIDE DEF after
<1>3. Configure(l, turned, inverted) = IF Reaches(l) THEN after ELSE l
  BY <1>1 DEF Configure
<1> QED BY <1>2, <1>3

\* display_init stores the configurations it is given.
LEMMA StoringKeeps ==
  ASSUME NEW l, Shaped(l), NEW on \in BOOLEAN
  PROVE  [l EXCEPT !.hal = on]
           = LcdOf(l.wired, on, l.awake, l.writing, l.turned, l.inverted, l.picture)
  BY DEF Shaped, LcdOf

\* hardware_init wires the panel up.
LEMMA WiringKeeps ==
  ASSUME NEW l, Shaped(l), NEW on \in BOOLEAN
  PROVE  [l EXCEPT !.wired = on]
           = LcdOf(on, l.hal, l.awake, l.writing, l.turned, l.inverted, l.picture)
  BY DEF Shaped, LcdOf

\* A panel with what display_init draws on it is as awake as before, and not
\* inverted if it can be reached.
LEMMA ShowKeeps ==
  ASSUME NEW l, Shaped(l)
  PROVE  LET after == Show(l)
         IN  /\ Shaped(after)
             /\ after.wired = l.wired /\ after.hal = l.hal /\ after.awake = l.awake
             /\ Reaches(l) => after.turned = l.turned /\ after.inverted = FALSE
<1> DEFINE set     == Configure(l, l.turned, FALSE)
           cleared == Clear(set)
           bars    == Fill(cleared, Drawing["COLOR_BARS"])
           shaded  == Fill(bars, Drawing["GRADIENT"])
<1>1. Show(l) = Fill(shaded, Drawing["CHECKERBOARD"])
  BY DEF Show
<1>2. /\ Shaped(set)
      /\ set.wired = l.wired /\ set.hal = l.hal /\ set.awake = l.awake
      /\ Reaches(l) => set.turned = l.turned /\ set.inverted = FALSE
  <2>1. FALSE \in BOOLEAN
    OBVIOUS
  <2> QED BY <2>1, ConfigureSets, Zenon
<1> HIDE DEF set
<1>3. Kept(set, cleared)
  BY <1>2, DrawingKeeps
<1> HIDE DEF cleared
<1>4. Kept(cleared, bars)
  BY <1>3, DrawingKeeps DEF Kept
<1> HIDE DEF bars
<1>5. Kept(bars, shaded)
  BY <1>4, DrawingKeeps DEF Kept
<1> HIDE DEF shaded
<1>6. Kept(shaded, Show(l))
  BY <1>1, <1>5, DrawingKeeps DEF Kept
<1> QED BY <1>2, <1>3, <1>4, <1>5, <1>6 DEF Kept

\* What display_init leaves of a panel that is wired up: a working one, its
\* registers as main.c wants them.
Working(l) ==
  /\ Shaped(l) /\ l.wired /\ l.hal /\ l.awake
  /\ InStep(l, MainSettings)

LEMMA WokenShaped ==
  /\ Shaped(Woken) /\ Reaches(Woken)
  /\ Woken.wired /\ Woken.hal /\ Woken.awake /\ Woken.turned = "ORIENTATION_0"
<1> DEFINE picture == Plain(Unknown)
           woken == LcdOf(TRUE, TRUE, TRUE, FALSE, "ORIENTATION_0", TRUE, picture)
<1> HIDE DEF picture
<1>1. Woken = woken
  BY DEF Woken, picture, LcdOf
<1>2. /\ Shaped(woken)
      /\ woken.wired = TRUE /\ woken.hal = TRUE /\ woken.awake = TRUE
      /\ woken.turned = "ORIENTATION_0"
  BY DEF Shaped, LcdOf
<1> QED BY <1>1, <1>2 DEF Reaches

LEMMA DisplayUpWakes ==
  ASSUME NEW l, Shaped(l), l.wired
  PROVE  Working(DisplayUp(l))
<1>1. DisplayUp(l) = Show(Woken)
  BY DEF DisplayUp, Ready
<1>2. /\ Shaped(Show(Woken))
      /\ Show(Woken).wired = Woken.wired /\ Show(Woken).hal = Woken.hal
      /\ Show(Woken).awake = Woken.awake
      /\ Show(Woken).turned = Woken.turned /\ Show(Woken).inverted = FALSE
  BY WokenShaped, ShowKeeps
<1>3. MainSettings.turned = "ORIENTATION_0" /\ MainSettings.inverted = FALSE
  BY DEF MainSettings
<1> QED BY <1>1, <1>2, <1>3, WokenShaped DEF Working, InStep

LEMMA WireUpShapes ==
  ASSUME NEW l, Shaped(l), NEW pulse \in BOOLEAN
  PROVE  /\ Shaped(WireUp(l, pulse)) /\ WireUp(l, pulse).wired
         /\ WireUp(l, pulse).hal = l.hal
<1> DEFINE picture == Plain(Unknown)
           reset == LcdOf(TRUE, l.hal, FALSE, FALSE, "ORIENTATION_0", FALSE, picture)
           kept  == LcdOf(TRUE, l.hal, l.awake, l.writing, l.turned, l.inverted, l.picture)
<1> HIDE DEF picture
<1>1. CASE pulse
  <2>1. WireUp(l, pulse) = reset
    BY <1>1 DEF WireUp, Dark, LcdOf, picture
  <2>2. Shaped(reset) /\ reset.wired = TRUE /\ reset.hal = l.hal
    BY DEF Shaped, LcdOf
  <2> QED BY <2>1, <2>2
<1>2. CASE ~pulse
  <2>1. WireUp(l, pulse) = kept
    BY <1>2, WiringKeeps, Zenon DEF WireUp
  <2>2. Shaped(kept) /\ kept.wired = TRUE /\ kept.hal = l.hal
    BY DEF Shaped, LcdOf
  <2> QED BY <2>1, <2>2
<1> QED BY <1>1, <1>2

\* What starting the drivers makes of the panel.
LEMMA DrivenWakes ==
  ASSUME NEW l, Shaped(l), NEW hardware \in BOOLEAN, NEW display \in BOOLEAN,
         NEW pulse \in BOOLEAN, display => hardware \/ l.wired
  PROVE  /\ Shaped(Driven(l, hardware, display, pulse))
         /\ hardware \/ l.wired => Driven(l, hardware, display, pulse).wired
         /\ display => Working(Driven(l, hardware, display, pulse))
         /\ ~hardware /\ ~display => Driven(l, hardware, display, pulse) = l
<1> DEFINE up == IF hardware THEN WireUp(l, pulse) ELSE l
<1>1. Shaped(up) /\ (hardware \/ l.wired => up.wired) /\ (~hardware => up = l)
  BY WireUpShapes
<1>2. Driven(l, hardware, display, pulse) = IF display THEN DisplayUp(up) ELSE up
  BY DEF Driven
<1> HIDE DEF up
<1>3. CASE display
  BY <1>1, <1>2, <1>3, DisplayUpWakes DEF Working
<1>4. CASE ~display
  BY <1>1, <1>2, <1>4
<1> QED BY <1>3, <1>4

\* Nothing is known of a panel before the machine boots.
LEMMA DarkShaped == Shaped(Dark)
<1> DEFINE picture == Plain(Unknown)
<1> HIDE DEF picture
<1>1. Dark = LcdOf(FALSE, FALSE, FALSE, FALSE, "ORIENTATION_0", FALSE, picture)
  BY DEF Dark, picture, LcdOf
<1> QED BY <1>1 DEF Shaped, LcdOf

\* Booting brings the display up on hardware that is up, or not at all.
LEMMA BootStarts ==
  ASSUME NEW hw \in BOOLEAN, NEW disp \in BOOLEAN
  PROVE  Starts(PowerOn({}), Boot({}, hw, disp), hw, hw /\ disp)
<1> DEFINE m == PowerOn({})
<1>1. m \in Machines /\ m.current = "HARDWARE_INIT" /\ m.ready = {}
  BY DEF PowerOn, Machines, States, Conditions, Drivers
<1>2. Boot({}, hw, disp) = EnterHardwareInit(m, hw, disp)
  BY <1>1 DEF Boot, OnEntry
<1> HIDE DEF m
<1>3. Starts(m, Boot({}, hw, disp), hw, hw /\ disp)
  BY <1>1, <1>2, HardwareEntryStarts
<1> QED BY <1>3 DEF m

-----------------------------------------------------------------------------
(* Arithmetic of pixels                                                    *)

\* The quotient and the remainder of a coordinate, and how the quotient is
\* recognized.
LEMMA Division ==
  ASSUME NEW a \in Nat, NEW k \in Nat \ {0}
  PROVE  /\ a \div k \in Nat
         /\ k * (a \div k) <= a
         /\ a < k * (a \div k) + k
  OBVIOUS

LEMMA Remainder ==
  ASSUME NEW a \in Nat, NEW k \in Nat \ {0}
  PROVE  a % k = a - k * (a \div k) /\ a % k \in 0 .. k - 1
  OBVIOUS

LEMMA Quotient ==
  ASSUME NEW a \in Nat, NEW k \in Nat \ {0}, NEW q \in Nat,
         k * q <= a, a < k * q + k
  PROVE  a \div k = q
  OBVIOUS

LEMMA Multiple ==
  ASSUME NEW q \in Nat, NEW k \in Nat \ {0}
  PROVE  (q * k) \div k = q /\ (q * k) % k = 0
  OBVIOUS

\* Counting bars by the scaled coordinate or by the width of a bar.
LEMMA Scaled ==
  ASSUME NEW a \in Nat, NEW k \in Nat \ {0}
  PROVE  (a * 8) \div (8 * k) = a \div k
  OBVIOUS

\* The checkerboard in code and documentation: the sum of two indices is odd
\* when the parities differ.
LEMMA Parity ==
  ASSUME NEW a \in Nat, NEW b \in Nat
  PROVE  (a + b) % 2 = 1 <=> a % 2 # b % 2
  OBVIOUS

\* Eight bars leave no pixel over.
LEMMA Width8 == Width \in Nat /\ Width \div 8 \in Nat \ {0} /\ Width = 8 * (Width \div 8)
  BY PanelAssumption

-----------------------------------------------------------------------------
(* What the test patterns draw                                             *)

\* Rectangles that draw a picture: none reaches beyond the panel, every pixel
\* is covered, and by rectangles of its colour only.
Draws(rects, picture) ==
  /\ \A r \in rects : Inside(r)
  /\ \A p \in Screen : \E r \in rects : Covers(r, p)
  /\ \A p \in Screen, r \in rects : Covers(r, p) => r.color = At(picture, p)

LEMMA Place ==
  ASSUME NEW x \in Columns, NEW y \in Rows
  PROVE  <<x, y>> \in Screen /\ \A picture : At(picture, <<x, y>>) = picture[x][y]
  BY DEF Screen, At

LEMMA PixelsDraw ==
  ASSUME NEW rects, NEW picture \in Pictures, Draws(rects, picture)
  PROVE  Pixels(rects) = picture
<1> DEFINE sent(x, y) == IF \E r \in rects : Covers(r, <<x, y>>)
                         THEN (CHOOSE r \in rects : Covers(r, <<x, y>>)).color ELSE Untouched
<1>1. \A r \in rects : Inside(r)
  BY DEF Draws
<1>2. ASSUME NEW x \in Columns, NEW y \in Rows PROVE sent(x, y) = picture[x][y]
  <2> DEFINE p == <<x, y>>
  <2>1. p \in Screen /\ At(picture, p) = picture[x][y]
    BY Place
  <2> HIDE DEF p
  <2>2. \E r \in rects : Covers(r, p)
    BY <2>1 DEF Draws
  <2>3. (CHOOSE r \in rects : Covers(r, p)) \in rects /\ Covers(CHOOSE r \in rects : Covers(r, p), p)
    BY <2>2, Zenon
  <2>4. (CHOOSE r \in rects : Covers(r, p)).color = At(picture, p)
    BY <2>1, <2>3, Zenon DEF Draws
  <2> QED BY <2>1, <2>2, <2>4 DEF p
<1>3. Pixels(rects) = [x \in Columns |-> [y \in Rows |-> sent(x, y)]]
  BY <1>1, Zenon DEF Pixels
<1>4. picture = [x \in Columns |-> [y \in Rows |-> picture[x][y]]]
  BY DEF Pictures
<1> HIDE DEF sent
<1> QED BY <1>2, <1>3, <1>4, Zenon

LEMMA OnScreen ==
  ASSUME NEW p \in Screen
  PROVE  /\ p[1] \in Nat /\ p[1] < Width
         /\ p[2] \in Nat /\ p[2] < Height
  BY PanelAssumption DEF Screen, Columns, Rows

\* What Expected says of a place.
LEMMA ExpectedAt ==
  ASSUME NEW p \in Screen
  PROVE  /\ At(Expected("SOLID"), p) = WHITE
         /\ At(Expected("GRADIENT"), p) = Shade(p[1], p[2])
         /\ At(Expected("COLOR_BARS"), p) = BarColors[(p[1] * 8) \div Width + 1]
         /\ At(Expected("CHECKERBOARD"), p)
              = IF (p[1] \div Square) % 2 = (p[2] \div Square) % 2 THEN WHITE ELSE BLACK
<1>1. p[1] \in Columns /\ p[2] \in Rows
  BY DEF Screen
<1>2. At(Expected("SOLID"), p) = WHITE
  BY <1>1 DEF Expected, At
<1>3. At(Expected("GRADIENT"), p) = Shade(p[1], p[2])
  BY <1>1 DEF Expected, At
<1>4. At(Expected("COLOR_BARS"), p) = BarColors[(p[1] * 8) \div Width + 1]
  BY <1>1 DEF Expected, At
<1>5. At(Expected("CHECKERBOARD"), p)
        = IF (p[1] \div Square) % 2 = (p[2] \div Square) % 2 THEN WHITE ELSE BLACK
  BY <1>1 DEF Expected, At
<1> QED BY <1>2, <1>3, <1>4, <1>5

LEMMA RectFields ==
  ASSUME NEW x, NEW y, NEW w, NEW h, NEW c
  PROVE  /\ Rect(x, y, w, h, c).x = x
         /\ Rect(x, y, w, h, c).y = y
         /\ Rect(x, y, w, h, c).w = w
         /\ Rect(x, y, w, h, c).h = h
         /\ Rect(x, y, w, h, c).color = c
  BY DEF Rect

LEMMA SolidDraws == Draws(Solid(WHITE), Expected("SOLID"))
<1> DEFINE r == Rect(0, 0, Width, Height, WHITE)
<1>1. r.x = 0 /\ r.y = 0 /\ r.w = Width /\ r.h = Height /\ r.color = WHITE
  BY RectFields
<1>2. Solid(WHITE) = {r}
  BY DEF Solid
<1> HIDE DEF r
<1>3. Inside(r)
  BY <1>1, PanelAssumption DEF Inside
<1>4. ASSUME NEW p \in Screen PROVE Covers(r, p) /\ At(Expected("SOLID"), p) = r.color
  <2>1. Covers(r, p)
    BY <1>1, OnScreen, PanelAssumption DEF Covers
  <2>2. At(Expected("SOLID"), p) = WHITE
    BY ExpectedAt
  <2> QED BY <1>1, <2>1, <2>2
<1> QED BY <1>2, <1>3, <1>4, Zenon DEF Draws

LEMMA GradientDraws == Draws(Gradient, Expected("GRADIENT"))
<1> DEFINE R(q) == Rect(q[1], q[2], 1, 1, Shade(q[1], q[2]))
<1>1. \A q : /\ R(q).x = q[1] /\ R(q).y = q[2] /\ R(q).w = 1 /\ R(q).h = 1
             /\ R(q).color = Shade(q[1], q[2])
  BY RectFields
<1>2. Gradient = {R(q) : q \in Screen}
  BY DEF Gradient
<1> HIDE DEF R
<1>3. ASSUME NEW q \in Screen PROVE Inside(R(q)) /\ Covers(R(q), q)
  BY <1>1, OnScreen, PanelAssumption DEF Inside, Covers
<1>4. ASSUME NEW p \in Screen, NEW q \in Screen, Covers(R(q), p)
      PROVE  R(q).color = At(Expected("GRADIENT"), p)
  <2>1. p[1] \in Nat /\ p[2] \in Nat /\ q[1] \in Nat /\ q[2] \in Nat
    BY OnScreen
  <2>2. /\ q[1] <= p[1] /\ p[1] < q[1] + 1
        /\ q[2] <= p[2] /\ p[2] < q[2] + 1
    BY <1>1, <1>4 DEF Covers
  <2>3. p[1] = q[1] /\ p[2] = q[2]
    BY <2>1, <2>2
  <2>4. At(Expected("GRADIENT"), p) = Shade(p[1], p[2])
    BY ExpectedAt
  <2> QED BY <1>1, <2>3, <2>4
<1> QED BY <1>2, <1>3, <1>4, Zenon DEF Draws

LEMMA ColorBarsDraw == Draws(ColorBars, Expected("COLOR_BARS"))
<1> DEFINE k == Width \div 8
           R(i) == Rect(i * k, 0, k, Height, BarColors[i + 1])
<1>1. \A i : /\ R(i).x = i * k /\ R(i).y = 0 /\ R(i).w = k /\ R(i).h = Height
             /\ R(i).color = BarColors[i + 1]
  BY RectFields
<1>2. ColorBars = {R(i) : i \in 0 .. 7}
  BY DEF ColorBars
<1>3. k \in Nat \ {0} /\ Width = 8 * k
  BY Width8
<1> HIDE DEF R, k
<1>4. ASSUME NEW i \in 0 .. 7 PROVE Inside(R(i))
  <2>1. i * k >= 0 /\ i * k + k <= Width
    BY <1>3
  <2>2. R(i).x = i * k /\ R(i).y = 0 /\ R(i).w = k /\ R(i).h = Height
    BY <1>1
  <2> QED BY <2>1, <2>2, PanelAssumption DEF Inside
<1>5. ASSUME NEW p \in Screen
      PROVE  p[1] \div k \in 0 .. 7 /\ Covers(R(p[1] \div k), p)
  <2>1. p[1] \in Nat /\ p[1] < Width /\ p[2] \in Nat /\ p[2] < Height
    BY OnScreen
  <2> DEFINE i == p[1] \div k
  <2>2. i \in Nat /\ k * i <= p[1] /\ p[1] < k * i + k
    BY <1>3, <2>1, Division
  <2> HIDE DEF i
  <2>3. i \in 0 .. 7
    BY <1>3, <2>1, <2>2
  <2>4. i * k <= p[1] /\ p[1] < i * k + k
    BY <1>3, <2>1, <2>2
  <2>5. R(i).x = i * k /\ R(i).y = 0 /\ R(i).w = k /\ R(i).h = Height
    BY <1>1
  <2>6. Covers(R(i), p)
    BY <2>1, <2>4, <2>5, PanelAssumption DEF Covers
  <2> QED BY <2>3, <2>6 DEF i
<1>6. ASSUME NEW p \in Screen, NEW i \in 0 .. 7, Covers(R(i), p)
      PROVE  R(i).color = At(Expected("COLOR_BARS"), p)
  <2>1. p[1] \in Nat
    BY OnScreen
  <2>2. i * k <= p[1] /\ p[1] < i * k + k
    BY <1>1, <1>6 DEF Covers
  <2>3. p[1] \div k = i
    BY <1>3, <2>1, <2>2, Quotient
  <2>4. (p[1] * 8) \div Width = i
    BY <1>3, <2>1, <2>3, Scaled
  <2>5. At(Expected("COLOR_BARS"), p) = BarColors[(p[1] * 8) \div Width + 1]
    BY ExpectedAt
  <2> QED BY <1>1, <2>4, <2>5
<1> QED BY <1>2, <1>4, <1>5, <1>6, Zenon DEF Draws

\* Where the square of a coordinate starts, how far it reaches, and that no
\* other square of the row or column contains it.
LEMMA StopBelow ==
  ASSUME NEW size \in Nat \ {0}, NEW a \in Nat, a < size
  PROVE  LET k == Square * (a \div Square)
         IN  k \in Stops(Square, size) /\ k <= a /\ a < k + Clip(k, Square, size)
<1> DEFINE q == a \div Square
           k == Square * q
<1>1. q \in Nat /\ k <= a /\ a < k + Square
  BY PanelAssumption, Division
<1> HIDE DEF q
<1>2. k \in 0 .. size - 1
  BY <1>1, PanelAssumption
<1>3. k % Square = 0
  <2>1. (q * Square) % Square = 0
    BY <1>1, PanelAssumption, Multiple
  <2>2. q * Square = k
    BY <1>1, PanelAssumption
  <2> QED BY <2>1, <2>2
<1>4. a < k + Clip(k, Square, size)
  BY <1>1, <1>2, PanelAssumption DEF Clip
<1> QED BY <1>1, <1>2, <1>3, <1>4 DEF Stops, q

LEMMA StopFits ==
  ASSUME NEW size \in Nat \ {0}, NEW k \in Stops(Square, size)
  PROVE  /\ k \in Nat /\ Clip(k, Square, size) \in Nat
         /\ k + Clip(k, Square, size) <= size
  BY PanelAssumption DEF Stops, Clip

LEMMA StopUnique ==
  ASSUME NEW size \in Nat \ {0}, NEW k \in Stops(Square, size), NEW a \in Nat,
         k <= a, a < k + Clip(k, Square, size)
  PROVE  a \div Square = k \div Square
<1>1. k \in Nat /\ k % Square = 0 /\ Square \in Nat \ {0}
  BY PanelAssumption DEF Stops
<1>2. a < k + Square
  BY <1>1, PanelAssumption DEF Clip
<1> DEFINE q == k \div Square
<1>3. q \in Nat /\ k = Square * q
  <2>1. k % Square = k - Square * q
    BY <1>1, Remainder
  <2>2. q \in Nat
    BY <1>1, Division
  <2> QED BY <1>1, <2>1, <2>2
<1> HIDE DEF q
<1>4. a \div Square = q
  BY <1>1, <1>2, <1>3, Quotient
<1> QED BY <1>4 DEF q

LEMMA CheckerboardDraws == Draws(Checkerboard(Square), Expected("CHECKERBOARD"))
<1> DEFINE W(x) == Clip(x, Square, Width)
           H(y) == Clip(y, Square, Height)
           C(x, y) == IF (x \div Square + y \div Square) % 2 = 1 THEN BLACK ELSE WHITE
           R(x, y) == Rect(x, y, W(x), H(y), C(x, y))
           X == Stops(Square, Width)
           Y == Stops(Square, Height)
<1>1. \A x, y : /\ R(x, y).x = x /\ R(x, y).y = y /\ R(x, y).w = W(x) /\ R(x, y).h = H(y)
                /\ R(x, y).color = C(x, y)
  BY RectFields
<1>2. Checkerboard(Square) = {R(x, y) : x \in X, y \in Y}
  BY DEF Checkerboard
<1>3. Width \in Nat \ {0} /\ Height \in Nat \ {0}
  BY PanelAssumption
<1>4. /\ \A x \in X : x \in Nat /\ W(x) \in Nat /\ x + W(x) <= Width
      /\ \A y \in Y : y \in Nat /\ H(y) \in Nat /\ y + H(y) <= Height
  BY <1>3, StopFits, Zenon
<1> HIDE DEF R
<1>5. ASSUME NEW x \in X, NEW y \in Y PROVE Inside(R(x, y))
  <2>1. /\ x \in Nat /\ W(x) \in Nat /\ x + W(x) <= Width
        /\ y \in Nat /\ H(y) \in Nat /\ y + H(y) <= Height
    BY <1>4
  <2> HIDE DEF W, H, C
  <2>2. R(x, y).x = x /\ R(x, y).y = y /\ R(x, y).w = W(x) /\ R(x, y).h = H(y)
    BY <1>1
  <2> QED BY <2>1, <2>2 DEF Inside
<1>6. ASSUME NEW p \in Screen
      PROVE  \E x \in X, y \in Y : Covers(R(x, y), p)
  <2>1. p[1] \in Nat /\ p[1] < Width /\ p[2] \in Nat /\ p[2] < Height
    BY OnScreen
  <2> DEFINE x == Square * (p[1] \div Square)
             y == Square * (p[2] \div Square)
  <2>2. /\ x \in X /\ x <= p[1] /\ p[1] < x + W(x)
        /\ y \in Y /\ y <= p[2] /\ p[2] < y + H(y)
    BY <1>3, <2>1, StopBelow, Zenon
  <2> HIDE DEF x, y, W, H, C, X, Y
  <2>3. R(x, y).x = x /\ R(x, y).y = y /\ R(x, y).w = W(x) /\ R(x, y).h = H(y)
    BY <1>1
  <2>4. Covers(R(x, y), p)
    BY <2>2, <2>3 DEF Covers
  <2> QED BY <2>2, <2>4
<1>7. ASSUME NEW p \in Screen, NEW x \in X, NEW y \in Y, Covers(R(x, y), p)
      PROVE  R(x, y).color = At(Expected("CHECKERBOARD"), p)
  <2>1. p[1] \in Nat /\ p[2] \in Nat
    BY OnScreen
  <2>2. /\ x <= p[1] /\ p[1] < x + W(x)
        /\ y <= p[2] /\ p[2] < y + H(y)
    <3> HIDE DEF W, H, C
    <3> QED BY <1>1, <1>7 DEF Covers
  <2>3. p[1] \div Square = x \div Square /\ p[2] \div Square = y \div Square
    BY <1>3, <2>1, <2>2, StopUnique, Zenon
  <2>4. x \in Nat /\ y \in Nat
    BY <1>4
  <2> DEFINE a == x \div Square
             b == y \div Square
  <2>5. a \in Nat /\ b \in Nat
    BY <2>4, PanelAssumption, Division
  <2>6. At(Expected("CHECKERBOARD"), p) = IF a % 2 = b % 2 THEN WHITE ELSE BLACK
    BY <2>3, ExpectedAt
  <2>7. C(x, y) = IF (a + b) % 2 = 1 THEN BLACK ELSE WHITE
    OBVIOUS
  <2> HIDE DEF a, b, C
  <2>8. C(x, y) = At(Expected("CHECKERBOARD"), p)
    BY <2>5, <2>6, <2>7, Parity
  <2> QED BY <1>1, <2>8
<1> HIDE DEF X, Y
<1>8. \A r \in Checkerboard(Square) : Inside(r)
  BY <1>2, <1>5
<1>9. \A p \in Screen : \E r \in Checkerboard(Square) : Covers(r, p)
  <2> SUFFICES ASSUME NEW p \in Screen PROVE \E r \in Checkerboard(Square) : Covers(r, p)
    OBVIOUS
  <2>1. PICK x \in X, y \in Y : Covers(R(x, y), p)
    BY <1>6
  <2>2. R(x, y) \in Checkerboard(Square)
    BY <1>2
  <2> QED BY <2>1, <2>2
<1>10. ASSUME NEW p \in Screen, NEW r \in Checkerboard(Square), Covers(r, p)
       PROVE  r.color = At(Expected("CHECKERBOARD"), p)
  <2>1. PICK x \in X, y \in Y : r = R(x, y)
    BY <1>2
  <2> QED BY <1>7, <1>10, <2>1
<1> QED BY <1>8, <1>9, <1>10, Zenon DEF Draws

\* What fits in sixteen bits is a colour.
LEMMA SixteenBits ==
  ASSUME NEW c \in Nat, c <= 65535
  PROVE  c \in Colors
<1>1. \A n : n = 65535 => Colors = 0 .. n
  BY SMT DEF Colors
<1>2. \E n \in Nat : n >= 65535 /\ Colors = 0 .. n
  BY <1>1
<1>3. PICK n \in Nat : n >= 65535 /\ Colors = 0 .. n
  BY <1>2
<1> QED BY <1>3

LEMMA ShadeInColors ==
  ASSUME NEW p \in Screen
  PROVE  Shade(p[1], p[2]) \in Colors
<1>1. p[1] \in Nat /\ p[1] < Width /\ p[2] \in Nat /\ p[2] < Height
  BY OnScreen
<1> DEFINE r == (p[1] * 255) \div Width
           g == (p[2] * 255) \div Height
           b == ((p[1] + p[2]) * 255) \div (Width + Height)
<1>2. ASSUME NEW n \in Nat, NEW d \in Nat \ {0}, n < d
      PROVE  (n * 255) \div d \in 0 .. 254
  <2> DEFINE q == (n * 255) \div d
  <2>1. q \in Nat /\ d * q <= n * 255
    BY Division
  <2>2. n * 255 < d * 255
    BY <1>2
  <2> HIDE DEF q
  <2>3. q < 255
    BY <2>1, <2>2
  <2> QED BY <2>1, <2>3 DEF q
<1>3. r \in 0 .. 254 /\ g \in 0 .. 254
  BY <1>1, <1>2, PanelAssumption
<1>4. p[1] + p[2] \in Nat /\ Width + Height \in Nat \ {0} /\ p[1] + p[2] < Width + Height
  BY <1>1, PanelAssumption
<1>5. b \in 0 .. 254
  BY <1>2, <1>4
<1>6. Shade(p[1], p[2]) = (r \div 8) * 2048 + (g \div 4) * 32 + b \div 8
  BY DEF Shade, RGB565
<1> HIDE DEF r, g, b
<1> DEFINE red == (r \div 8) * 2048
           green == (g \div 4) * 32
           blue == b \div 8
<1>7. /\ red \in Nat /\ red <= 63488
      /\ green \in Nat /\ green <= 2016
      /\ blue \in Nat /\ blue <= 31
  BY <1>3, <1>5
<1>8. Shade(p[1], p[2]) = red + green + blue
  BY <1>6
<1> HIDE DEF red, green, blue
<1>9. red + green + blue \in Nat /\ red + green + blue <= 65535
  BY <1>7
<1> QED BY <1>8, <1>9, SixteenBits

LEMMA ExpectedInColors ==
  ASSUME NEW pattern \in Patterns, NEW p \in Screen
  PROVE  At(Expected(pattern), p) \in Colors
<1>1. WHITE \in Colors /\ BLACK \in Colors
  BY SixteenBits DEF WHITE, BLACK
<1>2. BarColors[(p[1] * 8) \div Width + 1] \in Colors
  <2> DEFINE i == (p[1] * 8) \div Width
  <2>1. p[1] \in Nat /\ p[1] < Width /\ Width \in Nat \ {0}
    BY OnScreen, PanelAssumption
  <2>2. i \in Nat /\ Width * i <= p[1] * 8
    BY <2>1, Division
  <2> HIDE DEF i
  <2>3. i \in 0 .. 7
    BY <2>1, <2>2
  <2>4. /\ BarColors[1] = 63488 /\ BarColors[2] = 2016 /\ BarColors[3] = 31
        /\ BarColors[4] = 65504 /\ BarColors[5] = 63519 /\ BarColors[6] = 2047
        /\ BarColors[7] = 65535 /\ BarColors[8] = 0
    BY DEF BarColors, WHITE, BLACK
  <2>5. \/ i + 1 = 1 \/ i + 1 = 2 \/ i + 1 = 3 \/ i + 1 = 4
        \/ i + 1 = 5 \/ i + 1 = 6 \/ i + 1 = 7 \/ i + 1 = 8
    BY <2>3
  <2>6. BarColors[i + 1] \in Nat /\ BarColors[i + 1] <= 65535
    BY <2>4, <2>5
  <2> QED BY <2>6, SixteenBits DEF i
<1>3. CASE pattern = "COLOR_BARS"
  BY <1>2, <1>3, ExpectedAt
<1>4. CASE pattern = "GRADIENT"
  BY <1>4, ExpectedAt, ShadeInColors
<1>5. CASE pattern = "CHECKERBOARD"
  BY <1>1, <1>5, ExpectedAt
<1>6. CASE pattern = "SOLID"
  BY <1>1, <1>6, ExpectedAt
<1> QED BY <1>3, <1>4, <1>5, <1>6 DEF Patterns

LEMMA ExpectedInPictures ==
  ASSUME NEW pattern \in Patterns
  PROVE  Expected(pattern) \in Pictures
<1> DEFINE color(x, y) ==
     CASE pattern = "COLOR_BARS" -> BarColors[(x * 8) \div Width + 1]
       [] pattern = "GRADIENT" -> Shade(x, y)
       [] pattern = "CHECKERBOARD" ->
            IF (x \div Square) % 2 = (y \div Square) % 2 THEN WHITE ELSE BLACK
       [] pattern = "SOLID" -> WHITE
<1>1. Expected(pattern) = [x \in Columns |-> [y \in Rows |-> color(x, y)]]
  BY DEF Expected
<1> HIDE DEF color
<1>2. ASSUME NEW x \in Columns, NEW y \in Rows PROVE color(x, y) \in Colors
  <2>1. <<x, y>> \in Screen /\ At(Expected(pattern), <<x, y>>) = Expected(pattern)[x][y]
    BY Place
  <2>2. Expected(pattern)[x][y] = color(x, y)
    BY <1>1
  <2> QED BY <2>1, <2>2, ExpectedInColors
<1> QED BY <1>1, <1>2 DEF Pictures

\* Each test pattern sends every address of the panel the colour
\* docs/display.md has there.
THEOREM PatternDrawn ==
  ASSUME NEW pattern \in Patterns
  PROVE  Pixels(Rectangles(pattern)) = Expected(pattern)
<1>1. Expected(pattern) \in Pictures
  BY ExpectedInPictures
<1>2. Draws(Rectangles(pattern), Expected(pattern))
  BY SolidDraws, GradientDraws, ColorBarsDraw, CheckerboardDraws DEF Patterns, Rectangles
<1> QED BY <1>1, <1>2, PixelsDraw

\* Exchanging the bytes of a colour gives a colour.
LEMMA SwappedInColors ==
  ASSUME NEW c \in Colors
  PROVE  Swapped(c) \in Colors
<1>1. c \in Nat /\ c <= 65535
  BY DEF Colors
<1> DEFINE low == c % 256
           high == c \div 256
<1>2. low \in Nat /\ low <= 255 /\ high \in Nat /\ high <= 255
  BY <1>1
<1>3. Swapped(c) = low * 256 + high
  BY DEF Swapped
<1> HIDE DEF low, high
<1>4. low * 256 + high \in Nat /\ low * 256 + high <= 65535
  BY <1>2
<1> QED BY <1>3, <1>4, SixteenBits

\* An orientation takes the panel to itself, and taken twice leaves every
\* place where it was: the place of an address has that address.
LEMMA CellOnScreen ==
  ASSUME NEW turned \in Orientations, NEW p \in Screen
  PROVE  Cell(turned, p) \in Screen /\ Cell(turned, Cell(turned, p)) = p
<1>1. /\ p[1] \in 0 .. Width - 1 /\ p[2] \in 0 .. Height - 1
      /\ p = <<p[1], p[2]>>
  BY DEF Screen, Columns, Rows
<1>2. Width \in Nat /\ Height \in Nat
  BY PanelAssumption
<1>3. CASE turned = "ORIENTATION_90"
  <2>1. Width = Height
    BY <1>3, PanelAssumption
  <2> QED BY <1>1, <1>3, <2>1 DEF Cell, Screen, Columns, Rows
<1>4. CASE turned = "ORIENTATION_180"
  BY <1>1, <1>2, <1>4 DEF Cell, Screen, Columns, Rows
<1>5. CASE turned = "ORIENTATION_270"
  BY <1>1, <1>2, <1>5 DEF Cell, Screen, Columns, Rows
<1>6. CASE turned \notin {"ORIENTATION_90", "ORIENTATION_180", "ORIENTATION_270"}
  BY <1>6 DEF Cell
<1> QED BY <1>3, <1>4, <1>5, <1>6

LEMMA SeenInPictures ==
  ASSUME NEW pattern \in Patterns, NEW turned \in Orientations
  PROVE  Seen(pattern, turned) \in Pictures
<1>1. ASSUME NEW x \in Columns, NEW y \in Rows
      PROVE  Swapped(At(Expected(pattern), Cell(turned, <<x, y>>))) \in Colors
  BY Place, CellOnScreen, ExpectedInColors, SwappedInColors
<1> QED BY <1>1 DEF Seen, Pictures

\* Whatever was on the panel, a test pattern replaces all of it.
LEMMA PaintDraws ==
  ASSUME NEW l, l.turned \in Orientations, NEW pattern \in Patterns
  PROVE  Paint(l, Drawing[pattern]) = Seen(pattern, l.turned)
<1> DEFINE pixels == Expected(pattern)
           sent(x, y) == At(Drawing[pattern], Cell(l.turned, <<x, y>>))
           shown(x, y) == Swapped(At(pixels, Cell(l.turned, <<x, y>>)))
<1>1. Drawing[pattern] = [x \in Columns |-> [y \in Rows |-> Swapped(pixels[x][y])]]
  BY PatternDrawn DEF Drawing
<1>2. ASSUME NEW x \in Columns, NEW y \in Rows
      PROVE  sent(x, y) = shown(x, y) /\ sent(x, y) # Untouched
  <2> DEFINE p == Cell(l.turned, <<x, y>>)
  <2>1. p \in Screen
    BY Place, CellOnScreen
  <2> HIDE DEF p, pixels
  <2>2. p[1] \in Columns /\ p[2] \in Rows
    BY <2>1 DEF Screen
  <2>3. At(Drawing[pattern], p) = Swapped(At(pixels, p))
    BY <1>1, <2>2 DEF At
  <2>4. Swapped(At(pixels, p)) \in Colors
    BY <2>1, ExpectedInColors, SwappedInColors DEF pixels
  <2>5. Untouched \notin Colors
    BY DEF Untouched, Colors
  <2> QED BY <2>3, <2>4, <2>5 DEF p
<1>3. Seen(pattern, l.turned) = [x \in Columns |-> [y \in Rows |-> shown(x, y)]]
  BY DEF Seen
<1>4. Paint(l, Drawing[pattern])
        = [x \in Columns |-> [y \in Rows |->
             IF sent(x, y) = Untouched THEN l.picture[x][y] ELSE sent(x, y)]]
  BY DEF Paint
<1> HIDE DEF sent, shown
<1> QED BY <1>2, <1>3, <1>4, Zenon

-----------------------------------------------------------------------------
(* What the drivers do to the picture                                      *)

\* Whether an lcd that is awake can be reached and shows what was drawn.
Drawn(l, drawing) ==
  /\ l \in Lcds
  /\ l.awake => l.wired /\ l.hal /\ l.picture = Seen(drawing.pattern, drawing.turned)

LEMMA LcdRecord ==
  ASSUME NEW wired \in BOOLEAN, NEW hal \in BOOLEAN, NEW awake \in BOOLEAN,
         NEW writing \in BOOLEAN, NEW turned \in Orientations, NEW inverted \in BOOLEAN,
         NEW picture \in Pictures
  PROVE  LcdOf(wired, hal, awake, writing, turned, inverted, picture) \in Lcds
  BY Zenon DEF Lcds, LcdOf

LEMMA LcdFields ==
  ASSUME NEW l \in Lcds
  PROVE  /\ l.wired \in BOOLEAN /\ l.hal \in BOOLEAN /\ l.awake \in BOOLEAN
         /\ l.writing \in BOOLEAN /\ l.turned \in Orientations
         /\ l.inverted \in BOOLEAN /\ l.picture \in Pictures
         /\ Shaped(l)
<1> DEFINE S == Pictures
<1>1. l \in [wired : BOOLEAN, hal : BOOLEAN, awake : BOOLEAN, writing : BOOLEAN,
             turned : Orientations, inverted : BOOLEAN, picture : S]
  BY DEF Lcds
<1> HIDE DEF S
<1>2. /\ l.wired \in BOOLEAN /\ l.hal \in BOOLEAN /\ l.awake \in BOOLEAN
      /\ l.writing \in BOOLEAN /\ l.turned \in Orientations /\ l.inverted \in BOOLEAN
      /\ l.picture \in S
  BY <1>1
<1>3. l = LcdOf(l.wired, l.hal, l.awake, l.writing, l.turned, l.inverted, l.picture)
  BY <1>1 DEF LcdOf
<1> QED BY <1>2, <1>3 DEF Shaped, S

\* A command changes what data means, and nothing that is shown.
LEMMA CommandPicture ==
  ASSUME NEW l \in Lcds, NEW opens \in BOOLEAN
  PROVE  LET after == Command(l, opens)
         IN  /\ after \in Lcds
             /\ after.wired = l.wired /\ after.hal = l.hal /\ after.awake = l.awake
             /\ after.turned = l.turned /\ after.picture = l.picture
             /\ Reaches(l) => after.writing = opens
<1> DEFINE after == LcdOf(l.wired, l.hal, l.awake, opens, l.turned, l.inverted, l.picture)
<1>1. [l EXCEPT !.writing = opens] = after
  BY LcdFields DEF Shaped, LcdOf
<1>2. after \in Lcds
  BY LcdFields, LcdRecord
<1>3. /\ after.wired = l.wired /\ after.hal = l.hal /\ after.awake = l.awake
      /\ after.writing = opens /\ after.turned = l.turned /\ after.picture = l.picture
  BY DEF LcdOf
<1> HIDE DEF after
<1>4. Command(l, opens) = IF Reaches(l) THEN after ELSE l
  BY <1>1 DEF Command
<1> QED BY <1>2, <1>3, <1>4

\* Data is drawn while the memory is open, and only then.
LEMMA DataPicture ==
  ASSUME NEW l \in Lcds, NEW pixels, Paint(l, pixels) \in Pictures
  PROVE  LET after == Data(l, pixels)
         IN  /\ after \in Lcds
             /\ after.wired = l.wired /\ after.hal = l.hal /\ after.awake = l.awake
             /\ Reaches(l) /\ l.writing => after.picture = Paint(l, pixels)
             /\ ~(Reaches(l) /\ l.writing) => after = l
<1> DEFINE picture == Paint(l, pixels)
           after == LcdOf(l.wired, l.hal, l.awake, l.writing, l.turned, l.inverted, picture)
<1> HIDE DEF picture
<1>1. [l EXCEPT !.picture = picture] = after
  BY LcdFields DEF Shaped, LcdOf
<1>2. after \in Lcds
  BY LcdFields, LcdRecord DEF picture
<1>3. /\ after.wired = l.wired /\ after.hal = l.hal /\ after.awake = l.awake
      /\ after.picture = picture
  BY DEF LcdOf
<1> HIDE DEF after
<1>4. Data(l, pixels) = IF Reaches(l) /\ l.writing THEN after ELSE l
  BY <1>1 DEF Data, picture
<1> QED BY <1>2, <1>3, <1>4 DEF picture

\* A pattern drawn on a panel that can be reached is what it shows; a panel
\* that cannot is not awake.
LEMMA FillDraws ==
  ASSUME NEW l \in Lcds, l.awake => l.wired /\ l.hal, NEW pattern \in Patterns
  PROVE  Drawn(Fill(l, Drawing[pattern]), [pattern |-> pattern, turned |-> l.turned])
<1> DEFINE set == SetFrame(l)
           open == Command(set, TRUE)
           pixels == Drawing[pattern]
           after == Fill(l, pixels)
<1>1. /\ set \in Lcds /\ set.turned = l.turned
      /\ set.wired = l.wired /\ set.hal = l.hal /\ set.awake = l.awake
  BY CommandPicture DEF SetFrame
<1> HIDE DEF set
<1>2. /\ open \in Lcds /\ open.turned = l.turned
      /\ open.wired = l.wired /\ open.hal = l.hal /\ open.awake = l.awake
      /\ Reaches(set) => open.writing = TRUE
  BY <1>1, CommandPicture
<1>3. after = Data(open, pixels)
  BY DEF Fill, set
<1> HIDE DEF open, pixels
<1>4. l.turned \in Orientations
  BY LcdFields
<1>5. Paint(open, pixels) = Seen(pattern, l.turned) /\ Paint(open, pixels) \in Pictures
  BY <1>2, <1>4, PaintDraws, SeenInPictures DEF pixels
<1> HIDE DEF after
<1>6. /\ after \in Lcds
      /\ after.wired = l.wired /\ after.hal = l.hal /\ after.awake = l.awake
      /\ Reaches(open) /\ open.writing => after.picture = Seen(pattern, l.turned)
  BY <1>2, <1>3, <1>5, DataPicture
<1>7. CASE l.awake
  <2>1. Reaches(set) /\ Reaches(open)
    BY <1>1, <1>2, <1>7 DEF Reaches
  <2> QED BY <1>2, <1>6, <2>1, <1>7 DEF Drawn, after, pixels
<1>8. CASE ~l.awake
  BY <1>6, <1>8 DEF Drawn, after, pixels
<1> QED BY <1>7, <1>8

\* The pixels display_clear sends come while the memory is closed: all it
\* does is set the window.
LEMMA ClearSetsTheWindow ==
  ASSUME NEW l \in Lcds
  PROVE  Clear(l) = SetFrame(l)
<1> DEFINE set == SetFrame(l)
<1>1. /\ set.wired = l.wired /\ set.hal = l.hal
      /\ Reaches(l) => set.writing = FALSE
  BY CommandPicture DEF SetFrame
<1>2. Clear(l) = Data(set, Pixels({Rect(0, 0, Width, Height, BLACK)}))
  BY DEF Clear, FillRegion
<1> HIDE DEF set
<1>3. Reaches(set) => ~set.writing
  BY <1>1 DEF Reaches
<1>4. Clear(l) = set
  BY <1>2, <1>3 DEF Data
<1> QED BY <1>4 DEF set

\* Setting the window shows nothing else.
LEMMA ClearKeepsPicture ==
  ASSUME NEW l, NEW drawing, Drawn(l, drawing)
  PROVE  /\ Drawn(Clear(l), drawing) /\ Clear(l).picture = l.picture
         /\ Drawn(WritePixels(l), drawing)
<1> DEFINE set == Command(l, FALSE)
<1>1. /\ set \in Lcds
      /\ set.wired = l.wired /\ set.hal = l.hal /\ set.awake = l.awake
      /\ set.picture = l.picture
  BY CommandPicture DEF Drawn
<1>2. WritePixels(l) = set /\ Clear(l) = set
  BY ClearSetsTheWindow DEF Drawn, WritePixels, SetFrame
<1> HIDE DEF set
<1>3. Drawn(set, drawing)
  BY <1>1 DEF Drawn
<1> QED BY <1>1, <1>2, <1>3

\* Nor does setting a register: what is on the glass stays as it was drawn.
LEMMA ConfigureKeepsPicture ==
  ASSUME NEW l, NEW drawing, Drawn(l, drawing),
         NEW turned \in Orientations, NEW inverted \in BOOLEAN
  PROVE  Drawn(Configure(l, turned, inverted), drawing)
<1> DEFINE after == LcdOf(l.wired, l.hal, l.awake, FALSE, turned, inverted, l.picture)
<1>1. Reaches(l) => Configure(l, turned, inverted) = after
  BY RegistersSet, LcdFields DEF Drawn
<1>2. after \in Lcds
  BY LcdFields, LcdRecord, Zenon DEF Drawn
<1>3. /\ after.wired = l.wired /\ after.hal = l.hal /\ after.awake = l.awake
      /\ after.picture = l.picture
  BY DEF LcdOf
<1> HIDE DEF after
<1>4. Drawn(after, drawing)
  BY <1>2, <1>3 DEF Drawn
<1>5. Configure(l, turned, inverted) = IF Reaches(l) THEN after ELSE l
  BY <1>1 DEF Configure
<1> QED BY <1>4, <1>5

LEMMA UnknownInPictures == Plain(Unknown) \in Pictures
  BY DEF Plain, Pictures

LEMMA Upright == "ORIENTATION_0" \in Orientations
  BY PanelAssumption

\* After what display_init draws, the last pattern is on a panel that is
\* awake, under the orientation it had.
LEMMA ShowDraws ==
  ASSUME NEW l \in Lcds, l.awake => l.wired /\ l.hal
  PROVE  Drawn(Show(l), [pattern |-> "CHECKERBOARD", turned |-> l.turned])
<1> DEFINE set     == Configure(l, l.turned, FALSE)
           cleared == Clear(set)
           bars    == Fill(cleared, Drawing["COLOR_BARS"])
           shaded  == Fill(bars, Drawing["GRADIENT"])
<1>1. Show(l) = Fill(shaded, Drawing["CHECKERBOARD"])
  BY DEF Show
<1>2. /\ set \in Lcds /\ set.turned = l.turned
      /\ set.wired = l.wired /\ set.hal = l.hal /\ set.awake = l.awake
  <2> DEFINE after == LcdOf(l.wired, l.hal, l.awake, FALSE, l.turned, FALSE, l.picture)
  <2>1. Reaches(l) => Configure(l, l.turned, FALSE) = after
    <3>1. FALSE \in BOOLEAN
      OBVIOUS
    <3> QED BY <3>1, RegistersSet, LcdFields
  <2>2. after \in Lcds
    BY LcdFields, LcdRecord, Zenon
  <2>3. /\ after.wired = l.wired /\ after.hal = l.hal /\ after.awake = l.awake
        /\ after.turned = l.turned
    BY DEF LcdOf
  <2> HIDE DEF after
  <2>4. set = IF Reaches(l) THEN after ELSE l
    BY <2>1 DEF Configure
  <2> QED BY <2>2, <2>3, <2>4
<1>3. Shaped(set)
  BY <1>2, LcdFields
<1> HIDE DEF set
<1>4. /\ cleared \in Lcds /\ (cleared.awake => cleared.wired /\ cleared.hal)
      /\ cleared.turned = l.turned
  BY <1>2, ClearSetsTheWindow, CommandPicture DEF SetFrame
<1> HIDE DEF cleared
<1> USE DEF Patterns
<1>5. Drawn(bars, [pattern |-> "COLOR_BARS", turned |-> cleared.turned])
  BY <1>4, FillDraws
<1>6. Kept(cleared, bars)
  BY <1>4, LcdFields, DrawingKeeps
<1> HIDE DEF bars
<1>7. Drawn(shaded, [pattern |-> "GRADIENT", turned |-> bars.turned])
  BY <1>5, FillDraws DEF Drawn
<1>8. Kept(bars, shaded)
  BY <1>6, DrawingKeeps DEF Kept
<1> HIDE DEF shaded
<1>9. shaded.turned = l.turned
  BY <1>4, <1>6, <1>8 DEF Kept
<1>10. Drawn(Show(l), [pattern |-> "CHECKERBOARD", turned |-> shaded.turned])
  BY <1>1, <1>7, FillDraws DEF Drawn
<1> QED BY <1>9, <1>10

\* Whatever state a panel was in, display_init leaves it asleep or with the
\* checkerboard on it.
LEMMA DisplayUpDraws ==
  ASSUME NEW l \in Lcds, l.awake => l.wired
  PROVE  Drawn(DisplayUp(l), LastOfInit)
<1>1. CASE l.wired
  <2> DEFINE woken == LcdOf(TRUE, TRUE, TRUE, FALSE, "ORIENTATION_0", TRUE, Plain(Unknown))
  <2>1. Woken = woken
    BY DEF Woken, LcdOf
  <2>2. woken \in Lcds
    BY LcdRecord, UnknownInPictures, Upright, Zenon
  <2>3. woken.wired = TRUE /\ woken.hal = TRUE /\ woken.turned = "ORIENTATION_0"
    BY DEF LcdOf
  <2> HIDE DEF woken
  <2>4. Drawn(Show(woken), [pattern |-> "CHECKERBOARD", turned |-> "ORIENTATION_0"])
    BY <2>2, <2>3, ShowDraws
  <2> QED BY <1>1, <2>1, <2>4 DEF DisplayUp, Ready, LastOfInit
<1>2. CASE ~l.wired
  <2> DEFINE stored == LcdOf(l.wired, TRUE, l.awake, l.writing, l.turned, l.inverted, l.picture)
  <2>1. [l EXCEPT !.hal = TRUE] = stored
    <3>1. Shaped(l)
      BY LcdFields
    <3> QED BY <3>1, StoringKeeps, Zenon
  <2>2. stored \in Lcds
    BY LcdFields, LcdRecord, Zenon
  <2>3. stored.wired = l.wired /\ stored.hal = TRUE /\ stored.awake = l.awake
    BY DEF LcdOf
  <2> HIDE DEF stored
  <2>4. Drawn(Show(stored), [pattern |-> "CHECKERBOARD", turned |-> stored.turned])
    BY <1>2, <2>2, <2>3, ShowDraws
  <2>5. Shaped(stored)
    BY <2>2, LcdFields
  <2>6. Show(stored).awake = stored.awake
    BY <2>5, ShowKeeps
  <2>7. DisplayUp(l) = Show(stored)
    BY <1>2, <2>1 DEF DisplayUp
  <2> QED BY <1>2, <2>3, <2>4, <2>6, <2>7 DEF Drawn
<1> QED BY <1>1, <1>2

\* A reset pulse puts the panel out, and without one it shows what it showed.
LEMMA WireUpDraws ==
  ASSUME NEW l, NEW drawing, Drawn(l, drawing), NEW pulse \in BOOLEAN
  PROVE  Drawn(WireUp(l, pulse), drawing)
<1>0. l \in Lcds
  BY DEF Drawn
<1>1. CASE pulse
  <2> DEFINE reset == LcdOf(TRUE, l.hal, FALSE, FALSE, "ORIENTATION_0", FALSE, Plain(Unknown))
  <2>1. WireUp(l, pulse) = reset
    BY <1>1 DEF WireUp, Dark, LcdOf
  <2>2. reset \in Lcds
    BY <1>0, LcdFields, LcdRecord, UnknownInPictures, Upright, Zenon
  <2>3. reset.awake = FALSE
    BY DEF LcdOf
  <2> HIDE DEF reset
  <2> QED BY <2>1, <2>2, <2>3 DEF Drawn
<1>2. CASE ~pulse
  <2> DEFINE wired == LcdOf(TRUE, l.hal, l.awake, l.writing, l.turned, l.inverted, l.picture)
  <2>1. WireUp(l, pulse) = wired
    <3>1. Shaped(l)
      BY <1>0, LcdFields
    <3> QED BY <1>2, <3>1, WiringKeeps, Zenon DEF WireUp
  <2>2. wired \in Lcds
    BY <1>0, LcdFields, LcdRecord, Zenon
  <2>3. /\ wired.wired = TRUE /\ wired.hal = l.hal /\ wired.awake = l.awake
        /\ wired.picture = l.picture
    BY DEF LcdOf
  <2> HIDE DEF wired
  <2> QED BY <2>1, <2>2, <2>3 DEF Drawn
<1> QED BY <1>1, <1>2

LEMMA DrivenDraws ==
  ASSUME NEW l, NEW drawing, Drawn(l, drawing), NEW pulse \in BOOLEAN,
         NEW hardware \in BOOLEAN, NEW display \in BOOLEAN
  PROVE  Drawn(Driven(l, hardware, display, pulse),
               IF display THEN LastOfInit ELSE drawing)
<1> DEFINE up == IF hardware THEN WireUp(l, pulse) ELSE l
<1>1. Drawn(up, drawing)
  BY WireUpDraws
<1>2. Driven(l, hardware, display, pulse) = IF display THEN DisplayUp(up) ELSE up
  BY DEF Driven
<1> HIDE DEF up
<1>3. CASE display
  BY <1>1, <1>2, <1>3, DisplayUpDraws DEF Drawn
<1>4. CASE ~display
  BY <1>1, <1>2, <1>4
<1> QED BY <1>3, <1>4

LEMMA DarkDraws == \A drawing : Drawn(Dark, drawing)
<1> DEFINE dark == LcdOf(FALSE, FALSE, FALSE, FALSE, "ORIENTATION_0", FALSE, Plain(Unknown))
<1>1. dark \in Lcds
  BY LcdRecord, UnknownInPictures, Upright, Zenon
<1>2. Dark = dark
  BY DEF Dark, LcdOf
<1>3. ~dark.awake
  BY DEF LcdOf
<1> HIDE DEF dark
<1> QED BY <1>1, <1>2, <1>3 DEF Drawn

-----------------------------------------------------------------------------
(* The invariant                                                           *)

\* The part of a state DeviceSpec adds to IInv holds once the machine has
\* booted.
LEMMA SettingsTyped ==
  /\ MainSettings \in Settings /\ UnsetSettings \in Settings
  /\ LastOfInit \in Drawings
  BY Upright, Zenon DEF MainSettings, UnsetSettings, Settings, LastOfInit, Drawings, Patterns

LEMMA InitPanel == DeviceInit => Init /\ PanelInv
<1> SUFFICES ASSUME DeviceInit PROVE Init /\ PanelInv
  OBVIOUS
<1>1. PICK hw \in HardwareAnswers, disp \in DisplayAnswers, pulse \in BOOLEAN :
        /\ machine = Boot({}, hw, disp)
        /\ lcd = Driven(Dark, hw, hw /\ disp, pulse)
        /\ settings = IF hw /\ disp THEN MainSettings ELSE UnsetSettings
  BY DEF DeviceInit
<1>2. hw \in BOOLEAN /\ disp \in BOOLEAN
  BY AnswersAssumption
<1>3. Init
  BY <1>1 DEF DeviceInit, Init
<1>4. Starts(PowerOn({}), machine, hw, hw /\ disp)
  BY <1>1, <1>2, BootStarts
<1>5. PowerOn({}).ready = {}
  BY DEF PowerOn
<1>6. NothingUp(machine) /\ ("hardware" \in machine.ready => hw)
                        /\ ("display" \in machine.ready => hw /\ disp)
  BY <1>4, <1>5 DEF Starts
<1>7. /\ Shaped(lcd)
      /\ hw => lcd.wired
      /\ hw /\ disp => Working(lcd)
  BY <1>1, <1>2, DarkShaped, DrivenWakes
<1>8. /\ rewired = FALSE
      /\ command \in Commands /\ command.inProgress = FALSE
  BY DEF DeviceInit, NoCommand, Commands
<1>9. settings \in Settings /\ (hw /\ disp => InStep(lcd, settings) /\ lcd.hal /\ lcd.awake)
  BY <1>1, <1>7, SettingsTyped DEF Working
<1> QED BY <1>3, <1>6, <1>7, <1>8, <1>9 DEF PanelInv

\* A transition of the machine, seen from the panel.
LEMMA DrivePreserves ==
  ASSUME IInv, PanelInv, NEW next, NEW cond \in Conditions,
         NEW hw \in BOOLEAN, NEW disp \in BOOLEAN, NEW pulse \in BOOLEAN,
         Call(next, cond, hw, disp), Drive(next, cond, hw, disp, pulse),
         command' = command
  PROVE  PanelInv'
<1> DEFINE hardware == InitializesHardware(machine, next, cond, hw)
           display  == InitializesDisplay(machine, next, cond, hw, disp)
<1>1. machine' = Transition(machine, next, cond, hw, disp)
  BY DEF Call
<1>2. /\ lcd' = Driven(lcd, hardware, display, pulse)
      /\ settings' = IF display THEN MainSettings ELSE settings
      /\ rewired' = (rewired /\ ~display)
  BY DEF Drive
<1>3. hardware \in BOOLEAN /\ display \in BOOLEAN
  BY DEF InitializesHardware, InitializesDisplay
<1>4. Starts(machine, machine', hardware, display)
  <2>1. Settled(machine, wasReset) /\ wasReset \in BOOLEAN /\ NothingUp(machine)
    BY DEF IInv, PanelInv
  <2> QED BY <1>1, <2>1, TransitionStarts
<1> HIDE DEF hardware, display
<1>5. display => hardware \/ lcd.wired
  BY <1>4 DEF Starts, PanelInv
<1>6. /\ Shaped(lcd')
      /\ hardware \/ lcd.wired => lcd'.wired
      /\ display => Working(lcd')
      /\ ~hardware /\ ~display => lcd' = lcd
  BY <1>2, <1>3, <1>5, DrivenWakes DEF PanelInv
<1>7. CASE display
  <2>1. NothingUp(machine') /\ ("hardware" \in machine'.ready => lcd'.wired)
    BY <1>4, <1>6 DEF Starts, PanelInv
  <2>2. /\ settings' = MainSettings /\ settings' \in Settings
        /\ lcd'.hal /\ lcd'.awake /\ InStep(lcd', settings')
    BY <1>2, <1>6, <1>7, SettingsTyped DEF Working
  <2>3. rewired' \in BOOLEAN
    BY <1>2
  <2> QED BY <1>6, <2>1, <2>2, <2>3 DEF PanelInv
<1>8. CASE ~display /\ ~hardware
  <2>1. NothingUp(machine') /\ machine'.ready = machine.ready
    BY <1>4, <1>8 DEF Starts
  <2>2. lcd' = lcd /\ rewired' = rewired /\ settings' = settings
    BY <1>2, <1>6, <1>8 DEF PanelInv
  <2> QED BY <2>1, <2>2 DEF PanelInv
<1>9. CASE ~display /\ hardware
  <2>1. NothingUp(machine') /\ machine'.ready = {"hardware"}
    BY <1>4, <1>9 DEF Starts
  <2>2. rewired' = rewired /\ settings' = settings
    BY <1>2, <1>9 DEF PanelInv
  <2> QED BY <1>6, <1>9, <2>1, <2>2 DEF PanelInv
<1> QED BY <1>3, <1>7, <1>8, <1>9

\* The other calls of the state machine start no driver.
LEMMA OtherCallsStartNothing ==
  ASSUME IInv, PanelInv,
         \/ ReportFailure
         \/ AttemptRefused
         \/ \E error \in Errors, hw \in HardwareAnswers, disp \in DisplayAnswers :
              HandleRecovery(error, hw, disp)
  PROVE  NothingUp(machine') /\ machine'.ready = machine.ready
<1>1. /\ Settled(machine, wasReset) /\ wasReset \in BOOLEAN
      /\ NothingUp(machine) /\ machine \in Machines
      /\ machine.current \in {"IDLE", "SYNCING", "ERROR"}
  BY DEF IInv, PanelInv, Settled
<1>2. CASE ReportFailure
  <2>1. CASE machine' = machine
    BY <1>1, <2>1
  <2>2. CASE machine.current # "ERROR" /\ machine' = Move(machine, "ERROR", "ERROR")
    <3>1. machine'.previous = machine.current /\ machine'.ready = machine.ready
      BY <1>1, <2>2, MoveFields DEF States, Conditions
    <3> QED BY <1>1, <2>2, <3>1 DEF NothingUp
  <2> QED BY <1>2, <2>1, <2>2 DEF ReportFailure, HandleError, Step
<1>3. CASE AttemptRefused
  BY <1>1, <1>3 DEF AttemptRefused
<1>4. ASSUME NEW error \in Errors, NEW hw \in HardwareAnswers, NEW disp \in DisplayAnswers,
             HandleRecovery(error, hw, disp)
      PROVE  NothingUp(machine') /\ machine'.ready = machine.ready
  <2> USE AnswersAssumption
  <2>1. CASE machine' = machine
    BY <1>1, <2>1
  <2>2. ASSUME NEW next, NEW cond \in {"RETRY", "RESET"},
               next \in {"SYNCING", "IDLE"} \/ (next = "DISPLAY_INIT" /\ cond = "RESET"),
               Call(next, cond, hw, disp)
        PROVE  NothingUp(machine') /\ machine'.ready = machine.ready
    <3>1. /\ ~InitializesHardware(machine, next, cond, hw)
          /\ ~InitializesDisplay(machine, next, cond, hw, disp)
      BY <2>2 DEF InitializesHardware, InitializesDisplay, ValidTransition, FixedTransitions
    <3>2. Starts(machine, machine', InitializesHardware(machine, next, cond, hw),
                 InitializesDisplay(machine, next, cond, hw, disp))
      BY <1>1, <2>2, TransitionStarts DEF Call, Conditions
    <3> QED BY <3>1, <3>2 DEF Starts
  <2>3. \/ Call("SYNCING", "RETRY", hw, disp)
        \/ Call("IDLE", "RESET", hw, disp)
        \/ Call("DISPLAY_INIT", "RESET", hw, disp)
        \/ machine' = machine
    BY <1>4 DEF HandleRecovery
  <2> QED BY <2>1, <2>2, <2>3
<1> QED BY <1>2, <1>3, <1>4

\* A call that only draws.
LEMMA TouchPreserves ==
  ASSUME PanelInv, NEW after, Kept(lcd, after), Touch(after), settings' = settings,
         command' \in Commands, ~command'.inProgress
  PROVE  PanelInv' /\ UNCHANGED vars
<1>1. lcd' = after /\ rewired' = rewired /\ UNCHANGED vars
  BY DEF Touch
<1>2. /\ Shaped(lcd') /\ lcd'.wired = lcd.wired /\ lcd'.hal = lcd.hal
      /\ lcd'.awake = lcd.awake
      /\ InStep(lcd', settings') <=> InStep(lcd, settings)
  BY <1>1 DEF Kept, InStep
<1>3. machine' = machine
  BY <1>1 DEF vars
<1> QED BY <1>1, <1>2, <1>3 DEF PanelInv

\* A setter stores what it sends: a display that is ready can be reached.
LEMMA ConfigurePreserves ==
  ASSUME IInv, PanelInv, NEW turned, NEW inverted,
         inverted \in BOOLEAN, Touch(Configure(lcd, turned, inverted)), command' = command,
         settings' \in Settings,
         InStep(lcd, settings) => settings'.turned = turned /\ settings'.inverted = inverted
  PROVE  PanelInv' /\ UNCHANGED vars
<1>1. lcd' = Configure(lcd, turned, inverted) /\ rewired' = rewired /\ UNCHANGED vars
  BY DEF Touch
<1>2. /\ Shaped(lcd')
      /\ lcd'.wired = lcd.wired /\ lcd'.hal = lcd.hal /\ lcd'.awake = lcd.awake
      /\ Reaches(lcd) => lcd'.turned = turned /\ lcd'.inverted = inverted
  BY <1>1, ConfigureSets DEF PanelInv
<1>3. machine' = machine
  BY <1>1 DEF vars
<1>4. "display" \in machine.ready => Reaches(lcd)
  BY DEF IInv, Settled, PanelInv, Reaches
<1>5. "display" \in machine.ready /\ InStep(lcd, settings) => InStep(lcd', settings')
  BY <1>2, <1>4 DEF InStep
<1> QED BY <1>1, <1>2, <1>3, <1>5 DEF PanelInv

\* A call that concerns the command layer alone.
LEMMA CommandPreserves ==
  ASSUME PanelInv, UNCHANGED <<vars, panelVars>>,
         command' \in Commands, ~command'.inProgress
  PROVE  PanelInv'
  BY DEF vars, panelVars, PanelInv

\* Every step of the composition is a step of StateMachine, and keeps the
\* panel's part of the invariant.
LEMMA DeviceStep ==
  ASSUME IInv, PanelInv, [DeviceNext]_deviceVars
  PROVE  [Next]_vars /\ PanelInv'
<1> USE AnswersAssumption
<1>1. command \in Commands /\ ~command.inProgress /\ Shaped(lcd)
  BY DEF PanelInv
<1>2. CASE UNCHANGED deviceVars
  <2>1. UNCHANGED <<vars, panelVars>> /\ command' = command
    BY <1>2 DEF deviceVars, panelVars
  <2> QED BY <1>1, <2>1, CommandPreserves
<1>3. CASE OtherCalls
  <2>1. /\ \/ ReportFailure
           \/ AttemptRefused
           \/ \E error \in Errors, hw \in HardwareAnswers, disp \in DisplayAnswers :
                HandleRecovery(error, hw, disp)
        /\ UNCHANGED <<panelVars, command>>
    BY <1>3 DEF OtherCalls
  <2>2. Next
    BY <2>1 DEF Next
  <2>3. NothingUp(machine') /\ machine'.ready = machine.ready
    BY <2>1, OtherCallsStartNothing
  <2>4. lcd' = lcd /\ settings' = settings /\ rewired' = rewired /\ command' = command
    BY <2>1 DEF panelVars
  <2> QED BY <2>2, <2>3, <2>4 DEF PanelInv
<1>4. ASSUME NEW hw \in HardwareAnswers, NEW disp \in DisplayAnswers, NEW pulse \in BOOLEAN,
             NEW next \in Requests, NEW cond \in Conditions,
             DriveRequest(next, cond, hw, disp, pulse)
      PROVE  [Next]_vars /\ PanelInv'
  <2>1. Request(next, cond, hw, disp)
    BY <1>4 DEF DriveRequest
  <2>2. Next
    BY <2>1 DEF Next
  <2> QED BY <1>4, <2>1, <2>2, DrivePreserves DEF DriveRequest, Request
<1>5. ASSUME NEW hw \in HardwareAnswers, NEW disp \in DisplayAnswers, NEW pulse \in BOOLEAN,
             DriveRecovery(hw, disp, pulse)
      PROVE  [Next]_vars /\ PanelInv'
  <2>1. AttemptRecovery(hw, disp) /\ command' = command
    BY <1>5 DEF DriveRecovery
  <2>2. Next
    BY <2>1 DEF Next
  <2>3. CASE CanRetry(retry)
    <3>1. /\ Call(machine.previous, "RECOVERED", hw, disp)
          /\ Drive(machine.previous, "RECOVERED", hw, disp, pulse)
      BY <1>5, <2>1, <2>3 DEF DriveRecovery, AttemptRecovery
    <3> QED BY <2>1, <2>2, <3>1, DrivePreserves DEF Conditions
  <2>4. CASE ~CanRetry(retry)
    <3>1. Call("IDLE", "RESET", hw, disp) /\ Drive("IDLE", "RESET", hw, disp, pulse)
      BY <1>5, <2>1, <2>4 DEF DriveRecovery, AttemptRecovery
    <3> QED BY <2>1, <2>2, <3>1, DrivePreserves DEF Conditions
  <2> QED BY <2>3, <2>4
<1>6. ASSUME NEW pattern \in Patterns, DrawTestPattern(pattern)
      PROVE  [Next]_vars /\ PanelInv'
  BY <1>1, <1>6, TouchPreserves, DrawingKeeps DEF DrawTestPattern, Draw
<1>7. CASE DisplayClear \/ DisplayWritePixels
  BY <1>1, <1>7, TouchPreserves, DrawingKeeps DEF DisplayClear, DisplayWritePixels
<1>12. settings \in Settings
  BY DEF PanelInv
<1>13. /\ settings = [turned |-> settings.turned, inverted |-> settings.inverted]
       /\ settings.turned \in Orientations \cup {"UNSET"} /\ settings.inverted \in BOOLEAN
  BY <1>12 DEF Settings
<1>18. lcd.inverted \in BOOLEAN
  BY DEF PanelInv, Shaped
<1>14. ASSUME NEW turned \in Orientations, SetOrientation(turned)
       PROVE  [Next]_vars /\ PanelInv'
  <2>1. /\ Touch(Configure(lcd, turned, lcd.inverted)) /\ command' = command
        /\ settings' = [settings EXCEPT !.turned = turned]
    BY <1>14 DEF SetOrientation
  <2>2. settings' = [turned |-> turned, inverted |-> settings.inverted]
    BY <1>13, <2>1
  <2>3. /\ settings' \in Settings
        /\ settings'.turned = turned /\ settings'.inverted = settings.inverted
    BY <1>13, <2>2 DEF Settings
  <2> QED BY <1>18, <2>1, <2>3, ConfigurePreserves DEF InStep
<1>15. ASSUME NEW inverted \in BOOLEAN, SetInverted(inverted)
       PROVE  [Next]_vars /\ PanelInv'
  <2>1. /\ Touch(Configure(lcd, lcd.turned, inverted)) /\ command' = command
        /\ settings' = [settings EXCEPT !.inverted = inverted]
    BY <1>15 DEF SetInverted
  <2>2. settings' = [turned |-> settings.turned, inverted |-> inverted]
    BY <1>13, <2>1
  <2>3. /\ settings' \in Settings
        /\ settings'.turned = settings.turned /\ settings'.inverted = inverted
    BY <1>13, <2>2 DEF Settings
  <2> QED BY <2>1, <2>3, ConfigurePreserves DEF InStep
<1>16. ASSUME SetBrightness
       PROVE  [Next]_vars /\ PanelInv'
  <2>1. /\ Touch(Configure(lcd, lcd.turned, lcd.inverted)) /\ command' = command
        /\ settings' = settings
    BY <1>16 DEF SetBrightness
  <2> QED BY <1>12, <1>18, <2>1, ConfigurePreserves DEF InStep
<1>17. CASE RequestRefused
  <2>1. /\ Refused # {} /\ result' = FALSE /\ Remember(0)
        /\ machine' = machine /\ retry' = retry /\ wasReset' = wasReset
        /\ UNCHANGED <<panelVars, command>>
    BY <1>17 DEF RequestRefused
  <2>2. PICK next \in Requests, cond \in Conditions : ~ValidTransition(machine, next, cond)
    BY <2>1 DEF Refused
  <2>3. PICK hw \in HardwareAnswers, disp \in DisplayAnswers : TRUE
    OBVIOUS
  <2>4. Call(next, cond, hw, disp)
    <3>1. wasReset \in BOOLEAN
      BY DEF IInv
    <3>2. ValidTransition(machine, next, cond) = FALSE
      BY <2>2 DEF ValidTransition
    <3> QED BY <2>1, <3>1, <3>2 DEF Call, Transition
  <2>5. Next
    BY <2>1, <2>4 DEF Next, Request
  <2>6. /\ lcd' = lcd /\ settings' = settings /\ rewired' = rewired
        /\ command' = command /\ machine' = machine
    BY <2>1 DEF panelVars
  <2> QED BY <2>5, <2>6 DEF PanelInv
<1>8. ASSUME NEW pulse \in BOOLEAN, HardwareReset(pulse)
      PROVE  [Next]_vars /\ PanelInv'
  <2>1. /\ lcd' = WireUp(lcd, pulse) /\ rewired' = TRUE
        /\ UNCHANGED <<vars, settings, command>>
    BY <1>8 DEF HardwareReset
  <2>2. Shaped(lcd') /\ lcd'.wired /\ lcd'.hal = lcd.hal
    BY <1>1, <2>1, WireUpShapes
  <2>3. machine' = machine
    BY <2>1 DEF vars
  <2> QED BY <2>1, <2>2, <2>3 DEF PanelInv
<1>9. ASSUME NEW type \in DOMAIN Shown, ShowPattern(type)
      PROVE  [Next]_vars /\ PanelInv'
  <2>1. command' \in Commands /\ ~command'.inProgress
    BY <1>1, <1>9 DEF ShowPattern, Commands
  <2> QED BY <1>1, <1>9, <2>1, TouchPreserves, DrawingKeeps DEF ShowPattern, Draw
<1>10. ASSUME NEW type \in CommandTypes, ProcessCommand(type)
       PROVE  [Next]_vars /\ PanelInv'
  <2>1. ~Accepting
    BY DEF IInv, Settled, Accepting
  <2>2. UNCHANGED deviceVars
    BY <1>10, <2>1 DEF ProcessCommand
  <2> QED BY <1>2, <2>2
<1>11. CASE EndCommand \/ ResetCommand
  <2>1. (command' = NoCommand \/ command' = command) /\ UNCHANGED <<vars, panelVars>>
    BY <1>11 DEF EndCommand, ResetCommand
  <2>2. NoCommand \in Commands /\ ~NoCommand.inProgress
    BY DEF NoCommand, Commands
  <2>3. command' \in Commands /\ ~command'.inProgress
    BY <1>1, <2>1, <2>2
  <2> QED BY <2>1, <2>3, CommandPreserves
<1> QED
  BY <1>2, <1>3, <1>4, <1>5, <1>6, <1>7, <1>8, <1>9, <1>10, <1>11, <1>14, <1>15, <1>16, <1>17
     DEF DeviceNext

-----------------------------------------------------------------------------
(* The picture                                                             *)

PictureInv ==
  /\ asked \in Drawings
  /\ Drawn(lcd, asked)

LEMMA InitPicture == DeviceInit => PictureInv
<1> SUFFICES ASSUME DeviceInit PROVE PictureInv
  OBVIOUS
<1>1. PICK hw \in HardwareAnswers, disp \in DisplayAnswers, pulse \in BOOLEAN :
        lcd = Driven(Dark, hw, hw /\ disp, pulse)
  BY DEF DeviceInit
<1>2. hw \in BOOLEAN /\ disp \in BOOLEAN
  BY AnswersAssumption
<1>3. asked = LastOfInit
  BY DEF DeviceInit
<1>4. Drawn(lcd, IF hw /\ disp THEN LastOfInit ELSE LastOfInit)
  BY <1>1, <1>2, DarkDraws, DrivenDraws
<1> QED BY <1>3, <1>4, SettingsTyped DEF PictureInv

LEMMA DrivePicture ==
  ASSUME PictureInv, NEW next, NEW cond, NEW hw, NEW disp, NEW pulse \in BOOLEAN,
         Drive(next, cond, hw, disp, pulse)
  PROVE  PictureInv'
<1> DEFINE hardware == InitializesHardware(machine, next, cond, hw)
           display  == InitializesDisplay(machine, next, cond, hw, disp)
<1>1. /\ lcd' = Driven(lcd, hardware, display, pulse)
      /\ asked' = IF display THEN LastOfInit ELSE asked
  BY DEF Drive
<1>2. hardware \in BOOLEAN /\ display \in BOOLEAN
  BY DEF InitializesHardware, InitializesDisplay
<1> HIDE DEF hardware, display
<1> QED BY <1>1, <1>2, DrivenDraws, SettingsTyped DEF PictureInv

LEMMA PictureStep == PictureInv /\ [DeviceNext]_deviceVars => PictureInv'
<1> SUFFICES ASSUME PictureInv, [DeviceNext]_deviceVars PROVE PictureInv'
  OBVIOUS
<1>1. /\ asked \in Drawings /\ Drawn(lcd, asked)
      /\ lcd \in Lcds /\ (lcd.awake => lcd.wired /\ lcd.hal)
      /\ lcd.turned \in Orientations /\ lcd.inverted \in BOOLEAN
  BY LcdFields DEF PictureInv, Drawn
<1>2. CASE lcd' = lcd /\ asked' = asked
  BY <1>2 DEF PictureInv
<1>3. ASSUME NEW pattern \in Patterns, Draw(pattern)
      PROVE  PictureInv'
  <2>1. /\ lcd' = Fill(lcd, Drawing[pattern])
        /\ asked' = [pattern |-> pattern, turned |-> lcd.turned]
    BY <1>3 DEF Draw, Touch
  <2>2. asked' \in Drawings
    BY <1>1, <2>1 DEF Drawings
  <2> QED BY <1>1, <2>1, <2>2, FillDraws DEF PictureInv
<1>4. \A type \in DOMAIN Shown : Shown[type] \in Patterns
  BY DEF Shown, Patterns
<1>5. CASE OtherCalls
  BY <1>2, <1>5 DEF OtherCalls, panelVars
<1>6. ASSUME NEW hw \in HardwareAnswers, NEW disp \in DisplayAnswers, NEW pulse \in BOOLEAN,
             NEW next \in Requests, NEW cond \in Conditions,
             DriveRequest(next, cond, hw, disp, pulse)
      PROVE  PictureInv'
  BY <1>6, DrivePicture DEF DriveRequest
<1>7. ASSUME NEW hw \in HardwareAnswers, NEW disp \in DisplayAnswers, NEW pulse \in BOOLEAN,
             DriveRecovery(hw, disp, pulse)
      PROVE  PictureInv'
  BY <1>7, DrivePicture DEF DriveRecovery
<1>8. ASSUME NEW pattern \in Patterns, DrawTestPattern(pattern) PROVE PictureInv'
  BY <1>3, <1>8 DEF DrawTestPattern
<1>9. CASE DisplayClear \/ DisplayWritePixels
  BY <1>1, <1>9, ClearKeepsPicture DEF DisplayClear, DisplayWritePixels, Touch, PictureInv
<1>15. ASSUME NEW turned \in Orientations, NEW inverted \in BOOLEAN,
              Touch(Configure(lcd, turned, inverted)), asked' = asked
       PROVE  PictureInv'
  BY <1>1, <1>15, ConfigureKeepsPicture DEF Touch, PictureInv
<1>16. CASE \/ \E turned \in Orientations : SetOrientation(turned)
            \/ \E inverted \in BOOLEAN : SetInverted(inverted)
            \/ SetBrightness
  BY <1>1, <1>15, <1>16 DEF SetOrientation, SetInverted, SetBrightness
<1>17. CASE RequestRefused
  BY <1>2, <1>17 DEF RequestRefused, panelVars
<1>10. ASSUME NEW pulse \in BOOLEAN, HardwareReset(pulse) PROVE PictureInv'
  BY <1>1, <1>10, WireUpDraws DEF HardwareReset, PictureInv
<1>11. ASSUME NEW type \in DOMAIN Shown, ShowPattern(type) PROVE PictureInv'
  BY <1>3, <1>4, <1>11 DEF ShowPattern
<1>12. ASSUME NEW type \in CommandTypes, ProcessCommand(type) PROVE PictureInv'
  <2>1. CASE UNCHANGED deviceVars
    BY <1>2, <2>1 DEF deviceVars
  <2>2. CASE Dispatch(type)
    <3>1. CASE type \in DOMAIN Shown
      <4>1. Draw(Shown[type])
        BY <2>2, <3>1 DEF Dispatch, Shown
      <4> QED BY <1>3, <1>4, <3>1, <4>1
    <3>2. CASE type \notin DOMAIN Shown
      BY <1>2, <2>2, <3>2 DEF Dispatch, panelVars
    <3> QED BY <3>1, <3>2
  <2> QED BY <1>12, <2>1, <2>2 DEF ProcessCommand
<1>13. CASE EndCommand \/ ResetCommand
  BY <1>2, <1>13 DEF EndCommand, ResetCommand, panelVars
<1>14. CASE UNCHANGED deviceVars
  BY <1>2, <1>14 DEF deviceVars
<1> QED
  BY <1>5, <1>6, <1>7, <1>8, <1>9, <1>10, <1>11, <1>12, <1>13, <1>14, <1>16, <1>17 DEF DeviceNext

-----------------------------------------------------------------------------
(* The theorems                                                            *)

\* The state machine with its drivers, the test patterns and the commands
\* around it behaves as StateMachine says: drawing and commands do not
\* disturb it.
THEOREM Implements == DeviceSpec => Spec
<1>1. IInv /\ PanelInv /\ [DeviceNext]_deviceVars => [Next]_vars /\ IInv' /\ PanelInv'
  BY DeviceStep, NextIInv
<1> QED BY <1>1, InitPanel, InitIInv, PTL DEF DeviceSpec, Spec

\* What is added holds with what is proved of the state machine.
THEOREM PanelInvariance == DeviceSpec => [](IInv /\ PanelInv)
<1>1. IInv /\ PanelInv /\ [DeviceNext]_deviceVars => IInv' /\ PanelInv'
  BY DeviceStep, NextIInv
<1> QED BY <1>1, InitPanel, InitIInv, PTL DEF DeviceSpec

\* A panel display_init has set up stays out of sleep, through every failure
\* and recovery, unless hardware_reset is called.
THEOREM Awake == DeviceSpec => []AwakeUnlessRewired
<1>1. PanelInv => AwakeUnlessRewired
  BY DEF PanelInv, AwakeUnlessRewired
<1> QED BY <1>1, PanelInvariance, PTL

\* command_process carries out no command, in any order of calls.
THEOREM CommandsIdle == DeviceSpec => []CommandLayerIdle
<1>1. PanelInv => CommandLayerIdle
  BY DEF PanelInv, CommandLayerIdle
<1> QED BY <1>1, PanelInvariance, PTL

\* With the drivers and drawing around it, the display is still never
\* started on hardware that is not up.
THEOREM DeviceDriverOrder == DeviceSpec => []HardwareBeforeDisplay
  BY Implements, DriverOrder, PTL

\* Nor is a call of attempt_recovery refused.
THEOREM DeviceRecoveryAccepted == DeviceSpec => RecoveryNeverRefused
  BY Implements, RecoveryAccepted, PTL

\* Every other property of the state machine that does not speak of answers
\* holds of the composition too.
THEOREM DeviceKeepsStateMachine ==
  DeviceSpec => /\ [](/\ TypeOK
                      /\ ErrorRemembersOrigin
                      /\ InitStatesAreTransient
                      /\ DisplayReadyOrReset
                      /\ RecoveryTerminates)
                /\ SyncingIsFinal
  BY Implements, TypeCorrect, OriginRemembered, Transience, DisplayBroughtUp,
     RecoveryBounded, SyncingTraps, PTL

\* An lcd that is awake can be reached, and shows what was drawn last.
THEOREM PictureInvariance == DeviceSpec => []PictureInv
  BY InitPicture, PictureStep, PTL DEF DeviceSpec

\* On a panel of any size whose width is a multiple of eight, and with
\* squares of any side, a panel that is awake shows the pattern drawn last as
\* docs/display.md describes it, pixel by pixel, under the orientation it was
\* drawn under and with the two bytes of every colour exchanged: through
\* clearing, writing of pixels, setting of registers, failures, recoveries
\* and resets of the hardware.
THEOREM ShowsDrawing == DeviceSpec => []ShowsWhatWasDrawn
<1>1. PictureInv => ShowsWhatWasDrawn
  BY DEF PictureInv, Drawn, ShowsWhatWasDrawn
<1> QED BY <1>1, PictureInvariance, PTL

\* The orientation and the inversion display.c believes in are those of the
\* controller, unless hardware_reset came between.
THEOREM Configured == DeviceSpec => []SettingsInForce
<1>1. PanelInv => SettingsInForce
  BY DEF PanelInv, InStep, SettingsInForce
<1> QED BY <1>1, PanelInvariance, PTL

\* The panel's memory holds colours of sixteen bits and the rest of the state
\* Device adds has its type.
THEOREM DeviceTypes == DeviceSpec => []DeviceTypeOK
<1>1. PanelInv /\ PictureInv => DeviceTypeOK
  BY DEF PanelInv, PictureInv, Drawn, DeviceTypeOK
<1> QED BY <1>1, PanelInvariance, PictureInvariance, PTL

\* "Clear display to black" (display.c:73) is not what the code does: no call
\* of display_clear, on any panel and in any state, changes a pixel.
THEOREM ClearDrawsNothing ==
  DeviceSpec => [][DisplayClear => lcd'.picture = lcd.picture]_deviceVars
<1>1. PictureInv /\ DisplayClear => lcd'.picture = lcd.picture
  BY ClearKeepsPicture DEF PictureInv, DisplayClear, Touch
<1> QED BY <1>1, PictureInvariance, PTL DEF DeviceSpec

\* Nor are the colours those of docs/display.md: on a panel that is awake no
\* red, green or blue bar is red, green or blue, under any orientation.
THEOREM BarsChangeColor ==
  DeviceSpec =>
    [](lcd.awake /\ asked.pattern = "COLOR_BARS" =>
         \A p \in Screen :
           At(Expected("COLOR_BARS"), p) \in {63488, 2016, 31} =>
             At(lcd.picture, Cell(asked.turned, p)) # At(Expected("COLOR_BARS"), p))
<1>1. PictureInv =>
        (lcd.awake /\ asked.pattern = "COLOR_BARS" =>
           \A p \in Screen :
             At(Expected("COLOR_BARS"), p) \in {63488, 2016, 31} =>
               At(lcd.picture, Cell(asked.turned, p)) # At(Expected("COLOR_BARS"), p))
  <2> SUFFICES ASSUME PictureInv, lcd.awake, asked.pattern = "COLOR_BARS", NEW p \in Screen,
                      At(Expected("COLOR_BARS"), p) \in {63488, 2016, 31}
               PROVE  At(lcd.picture, Cell(asked.turned, p)) # At(Expected("COLOR_BARS"), p)
    OBVIOUS
  <2> DEFINE c == Cell(asked.turned, p)
             e == Expected("COLOR_BARS")
  <2>1. asked.turned \in Orientations
    BY DEF PictureInv, Drawings
  <2>2. c \in Screen /\ Cell(asked.turned, c) = p
    BY <2>1, CellOnScreen
  <2>3. lcd.picture = Seen("COLOR_BARS", asked.turned)
    BY DEF PictureInv, Drawn
  <2> HIDE DEF c, e
  <2>4. c[1] \in Columns /\ c[2] \in Rows /\ c = <<c[1], c[2]>>
    BY <2>2 DEF Screen
  <2>5. At(lcd.picture, c) = Swapped(At(e, Cell(asked.turned, <<c[1], c[2]>>)))
    BY <2>3, <2>4 DEF Seen, At, e
  <2>6. At(lcd.picture, c) = Swapped(At(e, p))
    BY <2>2, <2>4, <2>5
  <2>7. \A k \in {63488, 2016, 31} : k \in Colors /\ Swapped(k) # k
    <3>1. \A k \in {63488, 2016, 31} : k \in Colors
      BY SixteenBits
    <3>2. \A k \in {63488, 2016, 31} : (k % 256) * 256 + k \div 256 # k
      OBVIOUS
    <3> QED BY <3>1, <3>2 DEF Swapped
  <2> QED BY <2>6, <2>7 DEF c, e
<1> QED BY <1>1, PictureInvariance, PTL
=============================================================================
