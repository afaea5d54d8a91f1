--------------------------- MODULE RngGateProofs ---------------------------
(***************************************************************************)
(* Proofs about RngGate for every counter modulus that is a multiple of   *)
(* the reseed period, that is for every width of calls_since_reseed_ of at *)
(* least 5 bits.                                                           *)
(***************************************************************************)
EXTENDS RngGate, TLAPS

USE CounterAssumption DEF kCallsBetweenRngReseeds

(* Advancing the counter modulo CounterModulus advances it modulo 32: the  *)
(* wrap of calls_since_reseed_ does not disturb the reseed phase.          *)
LEMMA WrapKeepsPhase ==
  ASSUME NEW c \in 0..(CounterModulus - 1)
  PROVE  ((c + 1) % CounterModulus) % 32 = ((c % 32) + 1) % 32
<1>1. CASE c + 1 < CounterModulus
  BY <1>1
<1>2. CASE c + 1 = CounterModulus
  <2>1. CounterModulus = 32 * (CounterModulus \div 32) + (CounterModulus % 32)
    OBVIOUS
  <2>2. c % 32 = 31
    BY <1>2, <2>1
  <2>3. QED
    BY <1>2, <2>2
<1>3. QED
  BY <1>1, <1>2

Inv == TypeOK /\ PhaseInv

(* The constructor establishes the invariant; Restart runs it again.       *)
LEMMA InitInv == Init => Inv
<1> SUFFICES ASSUME Init PROVE Inv
  OBVIOUS
<1>1. rngInitialized \in BOOLEAN /\ requested \in BOOLEAN
  BY Zenon DEF Init
<1>2. callsSinceReseed \in 0..(CounterModulus - 1) /\ since \in 0..31
  BY DEF Init
<1>3. PhaseInv
  BY DEF Init, PhaseInv
<1>4. QED
  BY <1>1, <1>2, <1>3 DEF Inv, TypeOK

(* A check of a seeded RNG: the counter and the history move together.     *)
LEMMA SeededCheck ==
  ASSUME Inv, rngInitialized, NEW hwOk \in BOOLEAN, SeedRngIfNeeded(hwOk)
  PROVE  /\ Inv'
         /\ requested' <=> since = kCallsBetweenRngReseeds - 1
<1>1. callsSinceReseed' = (callsSinceReseed + 1) % CounterModulus
  BY DEF SeedRngIfNeeded, CounterAfterCheck
<1>2. callsSinceReseed' % 32 = (since + 1) % 32
  BY <1>1, WrapKeepsPhase DEF Inv, TypeOK, PhaseInv
<1>3. requested' <=> callsSinceReseed' % 32 = 0
  BY <1>1 DEF SeedRngIfNeeded, ShouldReseed
<1>4. since \in 0..31
  BY DEF Inv, TypeOK
<1>5. requested' <=> since = 31
  BY <1>2, <1>3, <1>4
<1>6. since' = IF requested' THEN 0 ELSE since + 1
  BY DEF SeedRngIfNeeded
<1>7. since' = callsSinceReseed' % 32 /\ since' \in 0..31
  BY <1>2, <1>4, <1>5, <1>6
<1>8. callsSinceReseed' \in 0..(CounterModulus - 1)
  BY <1>1 DEF Inv, TypeOK
<1>9. rngInitialized' = TRUE /\ requested' \in BOOLEAN
  BY Zenon DEF SeedRngIfNeeded, ShouldReseed
<1>10. TypeOK'
  <2>1. rngInitialized' \in BOOLEAN
    BY <1>9
  <2>2. since' \in 0..(kCallsBetweenRngReseeds - 1)
    BY <1>7
  <2>3. QED
    BY Zenon, <1>8, <1>9, <2>1, <2>2 DEF TypeOK
<1>11. PhaseInv'
  BY <1>7, <1>9 DEF PhaseInv
<1>12. QED
  BY <1>5, <1>10, <1>11 DEF Inv

(* A check of an unseeded RNG: a reseed is requested and the counter stays *)
(* zero whether or not the hardware read succeeds.                         *)
LEMMA UnseededCheck ==
  ASSUME Inv, ~rngInitialized, NEW hwOk \in BOOLEAN, SeedRngIfNeeded(hwOk)
  PROVE  Inv'
<1>1. callsSinceReseed' = 0 /\ since' = 0
  BY DEF SeedRngIfNeeded, CounterAfterCheck, ShouldReseed, Inv, PhaseInv
<1>2. rngInitialized' \in BOOLEAN /\ requested' \in BOOLEAN
  BY Zenon DEF SeedRngIfNeeded, ShouldReseed
<1>3. callsSinceReseed' \in 0..(CounterModulus - 1) /\ since' \in 0..31
  BY <1>1
<1>4. PhaseInv'
  BY <1>1 DEF PhaseInv
<1>5. QED
  BY <1>2, <1>3, <1>4 DEF Inv, TypeOK

LEMMA InvInductive == Inv /\ [Next]_vars => Inv'
<1> SUFFICES ASSUME Inv, [Next]_vars PROVE Inv'
  OBVIOUS
<1>1. CASE Restart
  <2>1. Init'
    BY <1>1 DEF Restart, Init
  <2>2. QED
    BY <2>1, InitInv, PTL
<1>2. ASSUME NEW hwOk \in BOOLEAN, SeedRngIfNeeded(hwOk) PROVE Inv'
  BY <1>2, SeededCheck, UnseededCheck
<1>3. CASE UNCHANGED vars
  BY <1>3 DEF vars, Inv, TypeOK, PhaseInv
<1>4. QED
  BY <1>1, <1>2, <1>3 DEF Next

(* The counter stays within its width and, once the RNG is seeded, in     *)
(* phase with the checks since the last reseed request.                    *)
THEOREM PhaseCorrect == Spec => [](TypeOK /\ PhaseInv)
BY InitInv, InvInductive, PTL DEF Spec, Inv

(* For every counter width of at least 5 bits: calls_since_reseed_ never   *)
(* leaves the range of its type (ShouldReseedRng's wrap is modular), and   *)
(* the checks since the last reseed request stay below the period 32.     *)
THEOREM RngTypeCorrect == Spec => []TypeOK
BY PhaseCorrect, PTL

(* Spec 8 for every counter width of at least 5 bits: once seeded,          *)
(* SeedRngIfNeeded asks for a reseed on exactly every 32nd call, across    *)
(* failed hardware reads and the wrap of calls_since_reseed_.              *)
THEOREM ReseedPeriodic == Spec => ReseedOnEvery32nd
<1>1. Inv /\ [Next]_vars =>
        [rngInitialized /\ rngInitialized' =>
           (requested' <=> since = kCallsBetweenRngReseeds - 1)]_vars
  <2> SUFFICES ASSUME Inv, [Next]_vars, rngInitialized, rngInitialized'
               PROVE  (requested' <=> since = kCallsBetweenRngReseeds - 1) \/ UNCHANGED vars
    OBVIOUS
  <2>1. CASE Restart
    BY <2>1 DEF Restart
  <2>2. ASSUME NEW hwOk \in BOOLEAN, SeedRngIfNeeded(hwOk)
        PROVE  requested' <=> since = kCallsBetweenRngReseeds - 1
    BY <2>2, SeededCheck
  <2>3. CASE UNCHANGED vars
    BY <2>3
  <2>4. QED
    BY <2>1, <2>2, <2>3 DEF Next
<1>2. QED
  BY <1>1, InitInv, InvInductive, PTL DEF Spec, ReseedOnEvery32nd

-----------------------------------------------------------------------------
(* The refinement: the counter modulo the period is the schedule's phase. *)
LEMMA InitRefined == Init => Schedule!Init
BY DEF Init, Schedule!Init

LEMMA SeededStepRefined ==
  ASSUME Inv, rngInitialized, NEW hwOk \in BOOLEAN, SeedRngIfNeeded(hwOk)
  PROVE  Schedule!Check(hwOk)
<1>1. callsSinceReseed' = (callsSinceReseed + 1) % CounterModulus
  BY DEF SeedRngIfNeeded, CounterAfterCheck
<1>2. callsSinceReseed' % 32 = ((callsSinceReseed % 32) + 1) % 32
  BY <1>1, WrapKeepsPhase DEF Inv, TypeOK
<1>3. requested' <=> callsSinceReseed' % 32 = 0
  BY <1>1 DEF SeedRngIfNeeded, ShouldReseed
<1>4. rngInitialized' = TRUE
  BY Zenon DEF SeedRngIfNeeded
<1>5. QED
  BY <1>2, <1>3, <1>4 DEF Schedule!Check, Schedule!Period

LEMMA UnseededStepRefined ==
  ASSUME Inv, ~rngInitialized, NEW hwOk \in BOOLEAN, SeedRngIfNeeded(hwOk)
  PROVE  Schedule!Check(hwOk)
<1>1. callsSinceReseed' = 0
  BY DEF SeedRngIfNeeded, CounterAfterCheck, Inv, PhaseInv
<1>2. requested' = TRUE
  BY Zenon DEF SeedRngIfNeeded, ShouldReseed
<1>3. rngInitialized' = hwOk
  BY Zenon DEF SeedRngIfNeeded, ShouldReseed
<1>4. callsSinceReseed' % 32 = IF rngInitialized THEN ((callsSinceReseed % 32) + 1) % 32 ELSE 0
  BY <1>1
<1>5. QED
  BY Zenon, <1>2, <1>3, <1>4 DEF Schedule!Check, Schedule!Period

LEMMA StepRefined == Inv /\ [Next]_vars => [Schedule!Next]_Schedule!vars
<1> SUFFICES ASSUME Inv, [Next]_vars PROVE [Schedule!Next]_Schedule!vars
  OBVIOUS
<1>1. CASE Restart
  BY <1>1 DEF Restart, Schedule!Next, Schedule!Restart
<1>2. ASSUME NEW hwOk \in BOOLEAN, SeedRngIfNeeded(hwOk) PROVE Schedule!Next
  BY <1>2, SeededStepRefined, UnseededStepRefined DEF Schedule!Next
<1>3. CASE UNCHANGED vars
  BY <1>3 DEF vars, Schedule!vars
<1>4. QED
  BY <1>1, <1>2, <1>3 DEF Next

(* For every counter width of at least 5 bits, SeedRngIfNeeded with its   *)
(* wrapping counter implements the reseed schedule of spec 8: the         *)
(* counter's wrap is never seen by the schedule.                           *)
THEOREM ImplementsSchedule == Spec => ScheduleSpec
BY InitRefined, StepRefined, InitInv, InvInductive, PTL DEF Spec, ScheduleSpec, Schedule!Spec

=============================================================================
