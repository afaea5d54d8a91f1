--------------------------- MODULE ReseedSchedule ---------------------------
(***************************************************************************)
(* What spec section 8 promises of the RNG seeding policy, without a       *)
(* counter of any width: the RNG is reseeded from the hardware on every    *)
(* check until a seeding succeeds, and from then on on every 32nd check.   *)
(* The state is only the position in the 32-check period.                  *)
(***************************************************************************)
EXTENDS Naturals

Period == 32

VARIABLES
  seeded,      \* a hardware seeding has succeeded in this run
  phase,       \* checks since the last reseed point, modulo the period
  requested    \* whether the last check asked for a reseed

vars == <<seeded, phase, requested>>

Init ==
  /\ seeded = FALSE
  /\ phase = 0
  /\ requested = FALSE

(* A restart forgets the seeding.                                          *)
Restart ==
  /\ seeded' = FALSE
  /\ phase' = 0
  /\ requested' = FALSE

(* One check: unseeded, always ask and stay at the start of the period;   *)
(* seeded, advance and ask at the end of each period.  The hardware read   *)
(* asked for may fail.                                                     *)
Check(hwOk) ==
  /\ phase' = IF seeded THEN (phase + 1) % Period ELSE 0
  /\ requested' = (~seeded \/ phase' = 0)
  /\ seeded' = (seeded \/ (requested' /\ hwOk))

Next == Restart \/ \E hwOk \in BOOLEAN : Check(hwOk)

Spec == Init /\ [][Next]_vars

=============================================================================
