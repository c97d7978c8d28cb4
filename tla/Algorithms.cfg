SPECIFICATION ASpec
CONSTANTS
  Operands <- MCOperands
  Places <- MCPlaces
  DivisionPrecision = 2
  MaxValue = 300
  MaxDigits = 3
  MaxExp = 1
  Bytes <- MCBytes
  MaxLength = 4
  WordBits = 16
  Coefficients <- MCCoefficients
  Points <- MCPoints
  HashByte <- MCHash
  Width = 8
  AddressLength = 2
  AddressChars = 4
  Order = 13
  FirstHardenedChild = 8
  MaxDepth = 255
  Hmac <- MCHmac
  KeyChecksum <- MCKeyChecksum
INVARIANTS Arithmetic ReadBack Trusted
CHECK_DEADLOCK FALSE
