SPECIFICATION Spec
CONSTANTS
  Names <- MCNames
  Numerals <- MCNumerals
  Strings <- MCStrings
  Vocabularies <- MCVocabularies
  Prologue <- MCPrologue
  Epilogues <- MCEpilogues
  MaxWords = 5
  MaxHeight = 30
INVARIANTS
  AcceptsTheLanguage
  TreeIsTheDerivation
CHECK_DEADLOCK FALSE
