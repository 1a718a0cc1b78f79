\* Two goroutines, every method, all the inputs.
CONSTANTS
  Procs = {p1, p2}
  Nil = Nil
  AddrBits = 2
  MaxOps = 4
  IPArgs <- MCIPArgs
  WireArgs <- MCWireArgsUnquoted
SPECIFICATION Spec
INVARIANT SpecMembership
