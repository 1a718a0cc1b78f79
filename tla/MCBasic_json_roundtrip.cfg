\* One goroutine (every call holds the mutex throughout), every method, all the inputs.
CONSTANTS
  Procs = {p1}
  Nil = Nil
  AddrBits = 2
  MaxOps = 3
  IPArgs <- MCIPArgs
  WireArgs <- MCWireArgs
SPECIFICATION Spec
INVARIANT JSONRoundTrip
