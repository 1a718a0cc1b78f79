\* The example's main: no deny handlers; all eight requests concurrently.
CONSTANTS
  Procs <- MCRequests
  Nil = Nil
  AddrBits = 2
  MaxOps = 8
  IPArgs = {}
  WireArgs = {}
  DenyRoutes = {}
SPECIFICATION ServerSpec
PROPERTY AdminOnlyMutates
INVARIANT LocalAdminServed
INVARIANT AdminSuccessPermitted
