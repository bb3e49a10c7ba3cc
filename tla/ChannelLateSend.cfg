CONSTANTS
  g1 = g1  g2 = g2  p1 = p1  i1 = i1  i2 = i2  c1 = c1  v1 = v1  v2 = v2
  Junk = Junk
  Default = Default
  Null = Null
  NoThread = NoThread
  buffer_size = 1
  Item <- OneItem
  Getters <- OneGetter
  Pollers <- NoPoller
  Inserters <- OneInserter
  Closers <- OneCloser
SPECIFICATION Spec
PROPERTY ClosedTakesNothing
