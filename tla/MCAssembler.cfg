SPECIFICATION Spec
CONSTANTS
  Name <- MCName
  ReadAs <- MCReadAs
  RegisterLike <- MCRegisterLike
  Texts <- MCTexts
  Bytecodes <- MCBytecodes
  MaxLabels = 2
  MaxCode = 7
INVARIANTS
  TypeOK
  PassesAgree
  OverrunOnlyWhenTooLong
  LabelOperandsTarget
  AssembledIsLaidOut
PROPERTIES
  Terminates
CHECK_DEADLOCK FALSE
