\* One goroutine: dump the list with MarshalJSON, load the dump back, check.
CONSTANTS
  Procs = {p1}
  Marshallers = {p1}
  None = None
  Nil = Nil
  AddrBits = 2
  MaxOps = 4
  NetArgs <- MCNetArgs
  IPArgs <- MCIPArgs
  WireArgs <- MCWireArgs
SPECIFICATION Spec
INVARIANT NoPanic
