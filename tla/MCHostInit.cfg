\* Violated: C_Initialize fails, and the object that is thrown away calls into
\* the library it has just closed.
SPECIFICATION FairSpec
CONSTANTS
  hello = hello
  sign = sign
  pair = pair
  junk = junk
  huge = huge
  Messages <- MCMessages
  Size <- MCSize
  Kind <- MCKind
  NoMessage = NoMessage
  MaxMessageBytes = 2
  MaxSent = 2
INVARIANT HelloSurvives
CHECK_DEADLOCK FALSE
