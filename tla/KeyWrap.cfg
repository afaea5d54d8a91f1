\* One-byte transport keys, masking keys of one or two bytes, one secure
\* key, two descriptions: every step of UnwrapKey can fail or pass.
CONSTANTS
  KeyLen = 1
  SecureKeys = {s1}
  WrappedDescs = {d1, d2}
  Unset = Unset
SPECIFICATION Spec
INVARIANTS
  UnwrapCorrect
