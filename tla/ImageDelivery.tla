---------------------------- MODULE ImageDelivery ----------------------------
(***************************************************************************)
(* What a caller of the image transfer may rely on, however its calls are  *)
(* mixed: an image is opened for a size and begins empty, grows chunk by   *)
(* chunk and never beyond that size, and is put on the panel only when all *)
(* of it has come and the size is the panel's, after which it is gone.  It *)
(* may be given up at any time, and is then gone without a trace.  Nothing *)
(* is said of buffers, states, sequence numbers or errors.                 *)
(***************************************************************************)
EXTENDS Naturals

CONSTANT ImageSize    \* the size of the panel's picture

VARIABLES
  open,    \* an image is on its way
  goal,    \* the size it was opened for
  got,     \* what has come of it
  panel    \* what was last written to the panel, and out of how much

vars == <<open, goal, got, panel>>

Init ==
  /\ ~open
  /\ goal = 0 /\ got = 0
  /\ panel = [written |-> 0, filled |-> 0]

\* An image is opened, one at a time.
Open ==
  /\ ~open
  /\ open' = TRUE
  /\ goal' \in Nat
  /\ got' = 0
  /\ UNCHANGED panel

\* A chunk of it comes.  An empty chunk is none.
Grow ==
  /\ open
  /\ got' \in got + 1 .. goal
  /\ UNCHANGED <<open, goal, panel>>

Gone == ~open' /\ goal' = 0 /\ got' = 0

\* The whole image is written to the panel, or what the panel takes of it.
Show ==
  /\ open
  /\ got = goal /\ goal = ImageSize
  /\ panel' \in [written : 0 .. got, filled : {got}]
  /\ Gone

\* The image is given up.
Drop ==
  /\ open
  /\ Gone
  /\ UNCHANGED panel

Next == Open \/ Grow \/ Show \/ Drop

Spec == Init /\ [][Next]_vars
=============================================================================
