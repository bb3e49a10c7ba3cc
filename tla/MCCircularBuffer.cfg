CONSTANTS
  a = a
  b = b
  Item <- MCItem
  Junk = Junk
  buffer_size = 3
SPECIFICATION Spec
INVARIANT RepresentationOK
PROPERTY ImplementsFifo
