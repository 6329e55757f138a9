------------------------------ MODULE Delivery ------------------------------
(***************************************************************************)
(* What the user of the host program may rely on: the requests of an       *)
(* operation are carried out one after the other, each is taken by the     *)
(* device exactly once before the host goes on to the next, and when the   *)
(* operation fails there is at most one of which the user does not know    *)
(* whether it was taken.  The exception: an answer left from an operation  *)
(* before may be taken for that to the first request, and nothing is       *)
(* promised from then on.  Nothing is said of numbers, tries or packets.   *)
(***************************************************************************)
EXTENDS Naturals

VARIABLES
  done,    \* requests of the present operation the host holds for carried out
  taken,   \* requests of it the device has taken
  misled   \* whether the host took an answer to another for its own

Init == done = 0 /\ taken = 0 /\ misled = FALSE

\* The device takes the request in hand.
Take ==
  /\ ~misled
  /\ taken = done
  /\ taken' = taken + 1
  /\ UNCHANGED <<done, misled>>

\* The host learns of it.
Complete ==
  /\ ~misled
  /\ done < taken
  /\ done' = done + 1
  /\ UNCHANGED <<taken, misled>>

\* The host takes an old answer for that to its first request.
Mistake ==
  /\ done = 0
  /\ done' = 1
  /\ misled' = TRUE
  /\ UNCHANGED taken

\* What comes of it
Stray == misled /\ misled'

\* Another operation begins.
Renew == done' = 0 /\ taken' = 0 /\ misled' = FALSE

Next == Take \/ Complete \/ Mistake \/ Stray \/ Renew

Spec == Init /\ [][Next]_<<done, taken, misled>>
=============================================================================
