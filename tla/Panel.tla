-------------------------------- MODULE Panel --------------------------------
(***************************************************************************)
(* The panel as its drivers see it (src/src/hardware/GC9A01.c, display.c,  *)
(* deskthang_spi.c, deskthang_gpio.c): operators over a record, each of    *)
(* which is one driver call, run to its end.  Device calls them.           *)
(*                                                                         *)
(* The fields of an lcd:                                                   *)
(*   wired    the SPI port is initialized and the three control pins are   *)
(*            outputs (spi_initialized, and the directions of the pins)    *)
(*   hal      display.c has stored a configuration, so that its functions  *)
(*            drive the chip select and data/command pins                  *)
(*   awake    the controller is out of reset, configured, out of sleep     *)
(*            and switched on                                              *)
(*   writing  the last command it received lets data into its memory       *)
(*   turned   the orientation in its memory access register (MADCTL)       *)
(*   inverted whether it shows every colour inverted (INVON, INVOFF)       *)
(*   picture  the memory it shows, by the place on the glass               *)
(*                                                                         *)
(* The controller is not part of the repository.  What is assumed of it is *)
(* what GC9A01_fill_rect and GC9A01_draw_pixel rely on: it listens while   *)
(* chip select is low, data that follows MEM_WR or MEM_WR_CONT goes into   *)
(* the window, and data that follows another command is a parameter of     *)
(* that command.  An address beyond the panel makes the picture Unknown.   *)
(* Of a pixel it takes the high byte first, as display_fill_region sends   *)
(* it; MADCTL and the inversion are as its data sheet has them.            *)
(***************************************************************************)
EXTENDS Integers, Sequences

CONSTANTS
  Width, Height,   \* DISPLAY_WIDTH and DISPLAY_HEIGHT (240 and 240)
  Square,          \* side of a square of the checkerboard (20)
  Orientations     \* the members of DisplayOrientation a panel is given

\* A bar is an eighth of the width, in whole pixels, and a panel whose rows
\* and columns may be exchanged is square.
ASSUME PanelAssumption ==
  /\ Width \in Nat \ {0} /\ Width % 8 = 0
  /\ Height \in Nat \ {0}
  /\ Square \in Nat \ {0}
  /\ Orientations \subseteq {"ORIENTATION_0", "ORIENTATION_90",
                             "ORIENTATION_180", "ORIENTATION_270"}
  /\ "ORIENTATION_0" \in Orientations
  /\ "ORIENTATION_90" \in Orientations => Width = Height

Columns == 0 .. Width - 1
Rows == 0 .. Height - 1
Screen == Columns \X Rows

Colors == 0 .. 65535
Unknown == -1

Pictures == [Columns -> [Rows -> Colors \cup {Unknown}]]

At(picture, p) == picture[p[1]][p[2]]

Lcds == [wired : BOOLEAN, hal : BOOLEAN, awake : BOOLEAN, writing : BOOLEAN,
         turned : Orientations, inverted : BOOLEAN, picture : Pictures]

Plain(color) == [x \in Columns |-> [y \in Rows |-> color]]

\* Nothing initialized, the registers as a reset leaves them (the scan
\* direction is that of ORIENTATION_0), and nothing known of the memory.
Dark == [wired |-> FALSE, hal |-> FALSE, awake |-> FALSE, writing |-> FALSE,
         turned |-> "ORIENTATION_0", inverted |-> FALSE, picture |-> Plain(Unknown)]

BLACK == 0
WHITE == 65535

\* Mutant: the channels keep their eight bits.
Unshifted(r, g, b) == r * 2048 + g * 32 + b

\* Five bits of red, six of green and five of blue.
RGB565(r, g, b) == (r \div 8) * 2048 + (g \div 4) * 32 + b \div 8

-----------------------------------------------------------------------------
(* Talking to the controller                                               *)

\* hardware_init, when it succeeds.  gpio_init drives the reset line low
\* until gpio_put raises it: whether the pulse is long enough for the
\* controller to lose its configuration, pulse says.
WireUp(lcd, pulse) ==
  IF pulse THEN [Dark EXCEPT !.wired = TRUE, !.hal = lcd.hal]
           ELSE [lcd EXCEPT !.wired = TRUE]

\* A byte reaches the controller.
Reaches(lcd) == lcd.wired /\ lcd.hal

\* GC9A01_write_command; opens says whether it is MEM_WR or MEM_WR_CONT.
Command(lcd, opens) ==
  IF Reaches(lcd) THEN [lcd EXCEPT !.writing = opens] ELSE lcd

\* GC9A01_set_frame: COL_ADDR_SET, then ROW_ADDR_SET.
SetFrame(lcd) == Command(lcd, FALSE)

\* A rectangle of one colour, as the callers of GC9A01_fill_rect give it.
Rect(x, y, w, h, c) == [x |-> x, y |-> y, w |-> w, h |-> h, color |-> c]

Inside(r) == r.x >= 0 /\ r.y >= 0 /\ r.x + r.w <= Width /\ r.y + r.h <= Height

Covers(r, p) == /\ r.x <= p[1] /\ p[1] < r.x + r.w
                /\ r.y <= p[2] /\ p[2] < r.y + r.h

\* An address to which nothing is sent
Untouched == -2

\* What rectangles that do not overlap send to each address.
Pixels(rects) ==
  IF \A r \in rects : Inside(r)
  THEN [x \in Columns |-> [y \in Rows |->
          IF \E r \in rects : Covers(r, <<x, y>>)
          THEN (CHOOSE r \in rects : Covers(r, <<x, y>>)).color ELSE Untouched]]
  ELSE Plain(Unknown)

\* GC9A01_fill_rect and GC9A01_draw_pixel send a colour as it lies in memory,
\* the low byte first: what arrives has the two bytes exchanged.
Swapped(color) ==
  IF color \in Colors THEN (color % 256) * 256 + color \div 256 ELSE color

\* Where on the glass an address is, and the address of a place: the values
\* of DisplayOrientation exchange rows and columns (MV), mirror the columns
\* (MX) or mirror the rows (MY), so that each is its own inverse.
Cell(turned, p) ==
  CASE turned = "ORIENTATION_90" -> <<p[2], p[1]>>
    [] turned = "ORIENTATION_180" -> <<Width - 1 - p[1], p[2]>>
    [] turned = "ORIENTATION_270" -> <<p[1], Height - 1 - p[2]>>
    [] OTHER -> p

\* The picture after pixels went to their addresses.
Paint(lcd, pixels) ==
  [x \in Columns |-> [y \in Rows |->
     LET sent == At(pixels, Cell(lcd.turned, <<x, y>>))
     IN  IF sent = Untouched THEN lcd.picture[x][y] ELSE sent]]

\* Data: pixels while the memory is open, else parameters.
Data(lcd, pixels) ==
  IF Reaches(lcd) /\ lcd.writing
  THEN [lcd EXCEPT !.picture = Paint(lcd, pixels)] ELSE lcd

\* GC9A01_fill_rect and GC9A01_draw_pixel, for all the rectangles of a
\* pattern, whose pixels arrive as given.
Fill(lcd, pixels) == Data(Command(SetFrame(lcd), TRUE), pixels)

\* GC9A01_init, when the SPI port and the pins are set up: a reset, the
\* configuration, which is that of ORIENTATION_0 with the colours inverted,
\* sleep out and display on.  All the controller was before is gone.
Woken == [wired |-> TRUE, hal |-> TRUE, awake |-> TRUE, writing |-> FALSE,
          turned |-> "ORIENTATION_0", inverted |-> TRUE, picture |-> Plain(Unknown)]

-----------------------------------------------------------------------------
(* What display.c draws                                                    *)

\* Red, green, blue, yellow, magenta, cyan, white, black.
BarColors == <<63488, 2016, 31, 65504, 63519, 2047, WHITE, BLACK>>

\* display_draw_color_bars
ColorBars ==
  {Rect(i * (Width \div 8), 0, Width \div 8, Height, BarColors[i + 1]) : i \in 0 .. 7}

\* Red grows with x, green with y and blue with both.
Shade(x, y) == RGB565((x * 255) \div Width, (y * 255) \div Height,
                      ((x + y) * 255) \div (Width + Height))

\* display_draw_gradient
Gradient == {Rect(p[1], p[2], 1, 1, Shade(p[1], p[2])) : p \in Screen}

\* Mutant: the last squares of a row or column are not cut to fit.
ClipForgotten(from, side, size) == side

\* The part of a side that fits.
Clip(from, side, size) == IF from + side > size THEN size - from ELSE side

\* The multiples of side below size.
Stops(side, size) == {k \in 0 .. size - 1 : k % side = 0}

\* display_draw_checkerboard
Checkerboard(side) ==
  {Rect(x, y, Clip(x, side, Width), Clip(y, side, Height),
        IF (x \div side + y \div side) % 2 = 1 THEN BLACK ELSE WHITE) :
     x \in Stops(side, Width), y \in Stops(side, Height)}

\* display_fill_solid
Solid(color) == {Rect(0, 0, Width, Height, color)}

Patterns == {"COLOR_BARS", "GRADIENT", "CHECKERBOARD", "SOLID"}

\* display_draw_test_pattern, whose solid colour is white here
Rectangles(pattern) ==
  CASE pattern = "COLOR_BARS" -> ColorBars
    [] pattern = "GRADIENT" -> Gradient
    [] pattern = "CHECKERBOARD" -> Checkerboard(Square)
    [] pattern = "SOLID" -> Solid(WHITE)

\* The pixels of each pattern, as they arrive
Drawing ==
  [pattern \in Patterns |->
     LET pixels == Pixels(Rectangles(pattern))
     IN  [x \in Columns |-> [y \in Rows |-> Swapped(pixels[x][y])]]]

\* The same patterns, as docs/display.md describes them, pixel by pixel.
Expected(pattern) ==
  [x \in Columns |-> [y \in Rows |->
     CASE pattern = "COLOR_BARS" -> BarColors[(x * 8) \div Width + 1]
       [] pattern = "GRADIENT" -> Shade(x, y)
       [] pattern = "CHECKERBOARD" ->
            IF (x \div Square) % 2 = (y \div Square) % 2 THEN WHITE ELSE BLACK
       [] pattern = "SOLID" -> WHITE]]

\* What the glass shows of them under an orientation, the colours as they
\* arrive.
Seen(pattern, turned) ==
  [x \in Columns |-> [y \in Rows |->
     Swapped(At(Expected(pattern), Cell(turned, <<x, y>>)))]]

\* display_fill_region sets the window and sends the pixels, high byte first,
\* through GC9A01_write, which gives no MEM_WR.
FillRegion(lcd, rect) == Data(SetFrame(lcd), Pixels({rect}))

\* display_clear
Clear(lcd) == FillRegion(lcd, Rect(0, 0, Width, Height, BLACK))

\* display_write_pixels sends the pixels while the chip select is high.
WritePixels(lcd) == SetFrame(lcd)

\* display_set_orientation, display_set_brightness and display_set_inverted:
\* commands that set a register and close the memory.  Each is given the
\* value of the register it leaves alone; the brightness is not kept.
Configure(lcd, turned, inverted) ==
  IF Reaches(lcd)
  THEN LET aimed == [Command(lcd, FALSE) EXCEPT !.turned = turned]
       IN  [aimed EXCEPT !.inverted = inverted]
  ELSE lcd

\* Mutant: the inversion GC9A01_init leaves on stays on.
InversionLeftOn(lcd) ==
  LET cleared == Clear(Configure(lcd, lcd.turned, lcd.inverted))
      bars    == Fill(cleared, Drawing["COLOR_BARS"])
      shaded  == Fill(bars, Drawing["GRADIENT"])
  IN  Fill(shaded, Drawing["CHECKERBOARD"])

\* What display_init goes on to do: brightness, inversion, which the
\* configuration of main.c wants off, and three patterns.
Show(lcd) ==
  LET cleared == Clear(Configure(lcd, lcd.turned, FALSE))
      bars    == Fill(cleared, Drawing["COLOR_BARS"])
      shaded  == Fill(bars, Drawing["GRADIENT"])
  IN  Fill(shaded, Drawing["CHECKERBOARD"])

Ready == Show(Woken)

\* display_init, when it is given the configurations of main.c.  GC9A01_init
\* returns without a word when the SPI port or the pins are not set up, and
\* display_init does not look at what it could do.  The orientation it passes
\* to GC9A01_set_orientation before is read by nobody.
DisplayUp(lcd) == IF lcd.wired THEN Ready ELSE Show([lcd EXCEPT !.hal = TRUE])
=============================================================================
