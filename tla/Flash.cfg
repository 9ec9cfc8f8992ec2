SPECIFICATION Spec
CONSTANTS
  Pages = 2
  Half = 3
  Erased = 65535
  Value = {0, 1, 65535}
  Requests <- MCRequests
INVARIANT NoProgError
PROPERTY StoreSpec
