\* The deployed single-threaded app: one caller, restarts, failing
\* GetHmacKey and HMAC, a forged and a genuine token for one message.
CONSTANTS
  Callers = {c1}
  DeviceKey = DeviceKey
  Garbage = Garbage
  Messages = {m1, m2}
  InitLatched = FALSE
  MaxBoots = 3
SPECIFICATION Spec
INVARIANTS
  AuthKeyAuthentic
PROPERTIES
  KeyCachedForever
  LatchEventuallyHeld
