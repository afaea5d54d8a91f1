\* Two callers racing through GetAuthTokenKey and CheckConfirmationToken,
\* across one restart: the key GetAuthTokenKey hands out stays authentic.
CONSTANTS
  Callers = {c1, c2}
  DeviceKey = DeviceKey
  Garbage = Garbage
  Messages = {m1}
  InitLatched = FALSE
  MaxBoots = 2
SPECIFICATION Spec
INVARIANTS
  HandedOutKeyAuthentic
