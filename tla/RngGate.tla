------------------------------ MODULE RngGate ------------------------------
(***************************************************************************)
(* The RNG seeding policy of TrustyKeymasterContext                       *)
(* (src/trusty_keymaster_context.cpp, SeedRngIfNeeded, ShouldReseedRng,    *)
(* ReseedRng): seed from the hardware RNG on every check until a seeding   *)
(* succeeds, then on every kCallsBetweenRngReseeds-th check.               *)
(*                                                                         *)
(* calls_since_reseed_ is declared outside this file; it wraps modulo     *)
(* CounterModulus, 2^w for its width w.  A signed int that wraps (the      *)
(* outcome of its overflow in the builds used) takes the same values       *)
(* modulo 32, so the test "% 32 == 0" sees the same sequence.              *)
(***************************************************************************)
EXTENDS Naturals

CONSTANTS
  CounterModulus   \* 2^w for the width w of calls_since_reseed_

kCallsBetweenRngReseeds == 32

(* Any width of at least 5 bits: the modulus is a multiple of the period. *)
ASSUME CounterAssumption ==
  /\ CounterModulus \in Nat \ {0}
  /\ CounterModulus % kCallsBetweenRngReseeds = 0

VARIABLES
  rngInitialized,    \* rng_initialized_
  callsSinceReseed,  \* calls_since_reseed_
  requested,         \* what ShouldReseedRng returned at the last check
  since              \* history: checks since the last reseed request

vars == <<rngInitialized, callsSinceReseed, requested, since>>

(* The constructor: not seeded, counter zero.                              *)
Init ==
  /\ rngInitialized = FALSE
  /\ callsSinceReseed = 0
  /\ requested = FALSE
  /\ since = 0

(* The keymaster app restarts and a fresh context is constructed.         *)
Restart ==
  /\ rngInitialized' = FALSE
  /\ callsSinceReseed' = 0
  /\ requested' = FALSE
  /\ since' = 0

(* Mutant: the counter is post-incremented, so the test sees the value    *)
(* before the increment.                                                   *)
ShouldReseedPostIncrement ==
  ~rngInitialized \/ callsSinceReseed % kCallsBetweenRngReseeds = 0

(* Mutant: an off-by-one period, a reseed every 33rd check.             *)
ShouldReseedOffByOne ==
  ~rngInitialized
    \/ ((callsSinceReseed + 1) % CounterModulus) % (kCallsBetweenRngReseeds + 1) = 0

(* Mutant: the counter is advanced before the initialization test.        *)
CounterAlwaysAdvanced ==
  (callsSinceReseed + 1) % CounterModulus

(* Mutant: only the period is tested, an unseeded RNG is not asked for.   *)
ShouldReseedSeededOnly ==
  ((callsSinceReseed + 1) % CounterModulus) % kCallsBetweenRngReseeds = 0

(* ShouldReseedRng: always while not seeded; else advance the counter and *)
(* reseed when it reaches a multiple of kCallsBetweenRngReseeds.           *)
ShouldReseed ==
  ~rngInitialized
    \/ ((callsSinceReseed + 1) % CounterModulus) % kCallsBetweenRngReseeds = 0

(* The counter after ShouldReseedRng: it only moves once seeded.           *)
CounterAfterCheck ==
  IF rngInitialized THEN (callsSinceReseed + 1) % CounterModulus
  ELSE callsSinceReseed

(* SeedRngIfNeeded: ShouldReseedRng, then ReseedRng if it said so.  A     *)
(* failed hardware read (hwOk FALSE) leaves rng_initialized_ as it was;    *)
(* the result of ReseedRng is ignored and nothing retries before the next *)
(* reseed point.                                                           *)
SeedRngIfNeeded(hwOk) ==
  /\ callsSinceReseed' = CounterAfterCheck
  /\ requested' = ShouldReseed
  /\ rngInitialized' = (rngInitialized \/ (ShouldReseed /\ hwOk))
  /\ since' = IF ShouldReseed THEN 0 ELSE since + 1

Next ==
  \/ Restart
  \/ \E hwOk \in BOOLEAN : SeedRngIfNeeded(hwOk)

(* Checks keep coming, and the hardware RNG does not fail forever: a check *)
(* whose hardware read succeeds eventually happens.                       *)
Fairness == WF_vars(SeedRngIfNeeded(TRUE))

Spec == Init /\ [][Next]_vars /\ Fairness

-----------------------------------------------------------------------------
TypeOK ==
  /\ rngInitialized \in BOOLEAN
  /\ callsSinceReseed \in 0..(CounterModulus - 1)
  /\ requested \in BOOLEAN
  /\ since \in 0..(kCallsBetweenRngReseeds - 1)

(* Spec 8: once the RNG is seeded, the hardware RNG is asked for a reseed *)
(* on exactly every 32nd call of SeedRngIfNeeded: a check of a seeded RNG  *)
(* requests a reseed if and only if the 31 checks before it did not, also *)
(* after a failed hardware read and across the counter's wrap.            *)
ReseedOnEvery32nd ==
  [][rngInitialized /\ rngInitialized' =>
       (requested' <=> since = kCallsBetweenRngReseeds - 1)]_vars

(* The inductive form: the counter stays zero until the RNG is seeded,    *)
(* and from then on the checks since the last request are the counter     *)
(* modulo 32.                                                              *)
PhaseInv ==
  /\ ~rngInitialized => callsSinceReseed = 0
  /\ rngInitialized => since = callsSinceReseed % kCallsBetweenRngReseeds

(* Spec 8: a context whose RNG is not seeded gets it seeded, after every   *)
(* restart, however often the hardware read fails first.                   *)
SeededEventually == ~rngInitialized ~> rngInitialized

(* The policy with its counter of width w implements the schedule spec 8  *)
(* describes, the counter read modulo the period.                          *)
Schedule == INSTANCE ReseedSchedule
              WITH seeded <- rngInitialized,
                   phase <- callsSinceReseed % kCallsBetweenRngReseeds,
                   requested <- requested

ScheduleSpec == Schedule!Spec

=============================================================================
