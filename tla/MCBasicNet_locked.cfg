\* Two goroutines, neither calling MarshalJSON: every other method, interleaved.
CONSTANTS
  Procs = {p1, p2}
  Marshallers = {}
  None = None
  Nil = Nil
  AddrBits = 2
  MaxOps = 4
  NetArgs <- MCNetArgs
  IPArgs <- MCIPArgs
  WireArgs <- MCWireArgsEmptyTok
SPECIFICATION Spec
PROPERTY RefinesAtomic
