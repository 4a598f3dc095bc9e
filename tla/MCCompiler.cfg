SPECIFICATION CompileSpec
CONSTANTS
  MaxHeight = 30
  Names <- MCNames
  Numerals <- MCNumerals
  Strings <- MCStrings
  Vocabularies <- MCVocabularies
  Prologue <- MCPrologue
  Epilogues <- MCEpilogues
  MaxWords = 5
  StringTop = 256
INVARIANTS
  AcceptsWellScoped
  SlotsIdentifyVariables
  FileKeepsTree
  Links
  StringCellsApart
CHECK_DEADLOCK FALSE
