\* The example's main; does an unparsable RemoteAddr get the 500 of an extraction failure?
CONSTANTS
  Procs <- MCRequests
  Nil = Nil
  AddrBits = 2
  MaxOps = 8
  IPArgs = {}
  WireArgs = {}
  DenyRoutes = {}
SPECIFICATION ServerSpec
INVARIANT UnparsableAddressIs500
