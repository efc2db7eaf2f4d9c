SPECIFICATION OneOfEachSpec
CONSTANTS
  c1 = c1  c2 = c2
  Clients = {c1, c2}
  BroadcastCap = 1
  SendCap = 1
  MaxMessages = 3
INVARIANTS
  TypeOK
  NoPanic
  LeftStaysOut
PROPERTIES
  ImplementsFeed
  EveryoneIsServed
  PumpsEnd
CHECK_DEADLOCK FALSE
