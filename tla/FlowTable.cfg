CONSTANTS
  a = a  b = b  c = c
  Address <- MCAddress
  Size <- MCSize
  MaxPackets = 5
SYMMETRY AddressSymmetry
SPECIFICATION Spec
CHECK_DEADLOCK FALSE
INVARIANTS ReverseOfRxIsTx TableIsClosedForm
