\* Two slots, three cards, pages of two; cards move and calls fail at any point.
SPECIFICATION FairSpec
CONSTANTS
  own = own
  other = other
  blank = blank
  key = key
  ca = ca
  NoCard = NoCard
  NoSlot = NoSlot
  NoId = NoId
  Slots = {1, 2}
  Cards <- MCCards
  Initialized = {own, other}
  Objects <- MCObjects
  Ids = {key, ca}
  PageSize = 2
  MaxSessions = 2
INVARIANTS TypeOK SteadyCardsAreListed FlagIsOwnKey SessionIsClosed FailsForAReason
PROPERTIES RowsUnderOwnSerial ListingAnswered
