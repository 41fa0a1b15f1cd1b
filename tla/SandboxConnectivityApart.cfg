CONSTANTS
  A = A
  B = B
  old = old
  c1 = c1
  c2 = c2
  NONE = NONE
  Sandbox = {A, B, old}
  Past = {old}
  Cidr = {c1, c2}
  CidrsOf <- Apart
  MaxFaults = 1
SPECIFICATION Spec
CHECK_DEADLOCK FALSE
INVARIANTS
  SubnetCallsSerialised
  PreparedComplete
