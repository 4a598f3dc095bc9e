SPECIFICATION Spec
CONSTANTS
  Zero = Zero
  Undef = Undef
  Elem = {Zero, e1}
  InitCapacities <- MCInitCapacities
  MaxSize = 5
INVARIANTS
  TypeOK
  SizeFitsBlock
  LiveCellsWritten
PROPERTIES
  ReallocationLeavesRoom
  AbstractSpec
CHECK_DEADLOCK FALSE
