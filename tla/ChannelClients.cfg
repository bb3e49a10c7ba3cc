CONSTANTS
  a = a  b = b
  sender = sender  relay = relay  ranger = ranger  selector = selector
  SendCase = SendCase
  Default = Default
  Null = Null
  NumValues = 2
  buffer_size = 1
  Chan <- MCChan
  Item <- MCItem
  Sender <- MCSender
  Receiver <- MCReceiver
SPECIFICATION FairSpec
INVARIANTS TypeOK EachValueOnce BodyNeverSeesDefault SelectMissesNothing
PROPERTY NoCaseStarves
CHECK_DEADLOCK FALSE
