\* Violated: a call on the open session of one reader fails, and the card in the
\* other reader is not listed either.
SPECIFICATION Spec
CONSTANTS
  own = own
  other = other
  blank = blank
  key = key
  ca = ca
  NoCard = NoCard
  NoSlot = NoSlot
  NoId = NoId
  Slots = {1, 2}
  Cards <- MCCards
  Initialized = {own, other}
  Objects <- MCObjects
  Ids = {key, ca}
  PageSize = 2
  MaxSessions = 2
INVARIANT OtherReaderDoesNotMatter
