\* Versions of three components, serials of two characters, key ids of two bytes,
\* PINs of four characters and texts of five.  One step per input, then the end.
SPECIFICATION Spec
CONSTANTS
  NaN = NaN
  Base = 3
  Colon = Colon
  Bytes = {0, 10, 255}
  Backslash = Backslash
  DoubleQuote = DoubleQuote
  Blank = Blank
  Newline = Newline
  Comma = Comma
  SignReturned = SignReturned
  TextReturned = TextReturned
  Nothing = Nothing
  letter = letter
  digit = digit
INVARIANTS ComparesAsNumbers UnreadablePartNeverPasses IdSelectsItsKey PinIsTyped ShownAsWritten
CHECK_DEADLOCK FALSE
