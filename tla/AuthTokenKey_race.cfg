\* Two racing first calls, as spec section 5 asks the latch to survive.
CONSTANTS
  Callers = {c1, c2}
  DeviceKey = DeviceKey
  Garbage = Garbage
  Messages = {m1}
  InitLatched = FALSE
  MaxBoots = 1
SPECIFICATION Spec
INVARIANTS
  ConfirmedUnderDeviceKey
