\* Two goroutines, one of them calling MarshalJSON without the lock.
CONSTANTS
  Procs = {p1, p2}
  Marshallers = {p1}
  None = None
  Nil = Nil
  AddrBits = 2
  MaxOps = 4
  NetArgs <- MCNetArgs
  IPArgs <- MCIPArgs
  WireArgs <- MCWireArgsEmptyTok
SPECIFICATION Spec
INVARIANT TypeOK
INVARIANT LockExclusion
