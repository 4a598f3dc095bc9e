SPECIFICATION Spec
CONSTANTS
  Undef = Undef
  InitCapacities <- MCInitCapacities
  Registers <- MCRegisters
  Xmms <- MCXmms
  Frames <- MCFrames
  Displacements <- MCDisplacements
  Immediates <- MCImmediates
  Shorts <- MCShorts
  Longs <- MCLongs
  MaxCalls = 2
INVARIANTS
  TypeOK
  SizeFits
  DecodesToWhatWasAsked
PROPERTIES
  AbstractSpec
CHECK_DEADLOCK FALSE
