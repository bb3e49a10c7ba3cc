CONSTANTS
  a = a  b = b  c = c
  Address <- MCAddress
  Size <- MCSize
  MaxPackets = 3
SYMMETRY AddressSymmetry
SPECIFICATION Spec
CHECK_DEADLOCK FALSE
INVARIANT EveryPacketCounted
