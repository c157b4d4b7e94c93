--------------------------- MODULE VendorLimit ---------------------------
(***************************************************************************)
(* What the vendor publishes and sees: requests of one account, Published  *)
(* ticks apart. The account may have an excuse, a request it sent without  *)
(* permission or a permission whose answer was lost; from then on nothing  *)
(* is promised.                                                            *)
(***************************************************************************)
EXTENDS Integers

CONSTANTS
  Published     \* the interval

VARIABLES
  since,        \* age of the last request, up to Published
  excused

vars == <<since, excused>>

Init ==
  /\ since = Published
  /\ excused = FALSE

Due == since >= Published

Request ==
  /\ Due \/ excused'
  /\ since' = 0
  /\ excused => excused'

Passes ==
  /\ since < Published
  /\ since' = since + 1
  /\ UNCHANGED excused

Excuse ==
  /\ excused' = TRUE
  /\ UNCHANGED since

Next == Request \/ Passes \/ Excuse

Spec == Init /\ [][Next]_vars
=============================================================================
