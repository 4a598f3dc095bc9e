SPECIFICATION Spec
CONSTANTS
  Value <- MCValue
  Zero = 0
  ZeroLike <- MCZeroLike
  Positive <- MCPositive
  Arith1 <- MCArith1
  Arith2 <- MCArith2
  Literal <- MCLiteral
  AddressOf <- MCAddressOf
  Inputs <- MCInputs
  Programs <- MCPrograms
  Layout <- MCLayout
  RegsCount = 2
  RamCount = 6
  StringTop = 4
  MaxDepth = 6
  MaxOut = 3
INVARIANTS
  TypeOK
  ControlStaysOnCommands
  ReturnsFollowCalls
PROPERTIES
  ErrorsStick
CHECK_DEADLOCK FALSE
