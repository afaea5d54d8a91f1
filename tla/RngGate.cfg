\* The reseed policy with a counter of 7 bits (modulus 128), so that the counter wraps after four
\* reseed periods and the checks before and after the wrap are reached.
CONSTANTS
  CounterModulus = 128
SPECIFICATION Spec
INVARIANTS
  TypeOK
  PhaseInv
PROPERTIES
  ReseedOnEvery32nd
  SeededEventually
  ScheduleSpec
