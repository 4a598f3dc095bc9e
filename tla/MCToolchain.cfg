SPECIFICATION Spec
CONSTANTS
  MaxHeight = 30
  Names <- MCNames
  Numerals <- MCNumerals
  Strings <- MCStrings
  Sources <- MCSources
  ReadAs <- MCReadAs
  RegisterLike <- MCRegisterLike
  Value <- MCValue
  ZeroLike = {0}
  Positive <- MCPositive
  Literal <- MCLiteral
  AddressOf <- MCLiteral
  Arith1 <- MCArith1
  Arith2 <- MCArith2
  Input = 2
  RegsCount = 8
  RamCount = 16
  StringTop = 8
  MaxCalls = 12
  MaxDepth = 12
  MaxOut = 8
INVARIANTS
  PrintsTheMeaning
  OperandsThere
CHECK_DEADLOCK FALSE
