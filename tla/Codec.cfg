SPECIFICATION Spec
CONSTANTS
  none = none
  ready = ready
  status = status
  other = other
  improper = improper
  x = x
  lf = lf
  acute = acute
  EmptyWord = none
  Words = {none, ready, status, other, improper, x}
  Upper <- MCUpper
  ProperNames <- MCProperNames
  Refused = Refused
  Base = 8
  LengthDigits = 2
  FieldNameMax = 2
  Newline = 2
  Equals = 3
  Underscore = 5
  Digits = {4}
  UpperLetters = {0}
  UpperOf <- MCUpperOf
  NameRank <- MCNameRank
  ValueError = ValueError
  Utf8 <- MCUtf8
  JournalError = JournalError
  SunPathSize = 4
  At = 64
  Nul = 0
  Slash = 47
  AddressError = AddressError
  Notifications <- MCNotifications
  Entries <- MCEntries
  Passings <- MCPassings
  AddressStrings <- MCAddressStrings
  Pending = Pending
CHECK_DEADLOCK FALSE
INVARIANTS
  PayloadFaithful
  EntryRoundTrip
  RightsArrive
  AddressReachesItsSocket
