SPECIFICATION Spec
CONSTANTS
  MaxHeight = 30
  Names <- MCNames
  Numerals <- MCNumerals
  Strings <- MCStrings
  Sources <- MCSources
  Arith1 <- MCArith1
  Arith2 <- MCArith2
  Input = 2
  Junk = Junk
  MaxConstants = 1024
  MaxCalls = 12
  StackTop = 1208
  MaxOut = 6
INVARIANT AssertionsHold
CHECK_DEADLOCK FALSE
