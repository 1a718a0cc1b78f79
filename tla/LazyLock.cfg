\* Two goroutines unmarshal into the same zero-value list at once.
CONSTANTS
  Procs = {p1, p2}
  None = None
SPECIFICATION Spec
INVARIANT LockSound
CHECK_DEADLOCK FALSE
