\* MarshalJSON in one goroutine while another adds and removes networks.
CONSTANTS
  Procs = {p1, p2}
  Marshallers = {p1}
  None = None
  Nil = Nil
  AddrBits = 2
  MaxOps = 5
  NetArgs <- MCNetArgs
  IPArgs <- MCIPArgs
  WireArgs <- MCWireArgs
SPECIFICATION Spec
INVARIANT MarshalIsSnapshot
