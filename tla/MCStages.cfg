SPECIFICATION Spec
CONSTANT MaxEdits = 2
INVARIANTS
  NewerUpstream
  MakeRunDelivers
  SpuRunsWhatWasRead
