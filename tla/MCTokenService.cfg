\* Two processes at one reader, two cards to swap, a card locked by its second wrong
\* PIN, a module whose logout and close may fail, one request per process.
SPECIFICATION Spec
CONSTANTS
  Hosts = {h1, h2}
  Slots = {0}
  Cards = {c1, c2}
  Blank = {}
  NoCard = NoCard
  NoSlot = NoSlot
  NoPin = NoPin
  WrongPin = WrongPin
  MaxTries = 2
  CleanUpMayFail = TRUE
  OneShot = TRUE
SYMMETRY Symmetry
INVARIANTS TypeOK SignedWithOwnPin LoginScoped
PROPERTIES TrySpentIsAnswered KeepsContract
