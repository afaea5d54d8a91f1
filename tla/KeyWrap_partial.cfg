\* Spec 4.7 and 7: no partial unwrap output on an error.
CONSTANTS
  KeyLen = 1
  SecureKeys = {s1}
  WrappedDescs = {d1, d2}
  Unset = Unset
SPECIFICATION Spec
INVARIANTS
  NoPartialOutput
