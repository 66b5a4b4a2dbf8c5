\* Two messages on one port, cut anywhere; every call into the library may fail.
SPECIFICATION FairSpec
CONSTANTS
  hello = hello
  sign = sign
  pair = pair
  junk = junk
  huge = huge
  Messages <- MCMessages
  Size <- MCSize
  Kind <- MCKind
  NoMessage = NoMessage
  MaxMessageBytes = 2
  MaxSent = 2
INVARIANTS TypeOK CardIsReleased ServiceIsAlive
PROPERTIES TakesWholeRequests HungUpEnds RequestAnswered
CHECK_DEADLOCK FALSE
