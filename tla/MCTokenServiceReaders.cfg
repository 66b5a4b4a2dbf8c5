\* One process at two readers, a blank card, a module whose logout and close may fail and a
\* process that goes on: CKR_USER_ALREADY_LOGGED_IN is met.
SPECIFICATION FairSpec
CONSTANTS
  Hosts = {h1}
  Slots = {0, 1}
  Cards = {c1, c2}
  Blank = {c2}
  NoCard = NoCard
  NoSlot = NoSlot
  NoPin = NoPin
  WrongPin = WrongPin
  MaxTries = 2
  CleanUpMayFail = TRUE
  OneShot = FALSE
INVARIANTS SignedBySelected
PROPERTIES OwnPinUnlessFailedTwice PinTypedAnswered
