\* MarshalJSON in one goroutine while another shortens the list under it.
CONSTANTS
  Procs = {p1, p2}
  Marshallers = {p1}
  None = None
  Nil = Nil
  AddrBits = 2
  MaxOps = 4
  NetArgs <- MCNetArgs
  IPArgs <- MCIPArgs
  WireArgs <- MCWireArgs
SPECIFICATION Spec
INVARIANT NoPanic
