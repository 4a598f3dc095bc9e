SPECIFICATION FairSpec
CONSTANTS
  Texts <- MCTexts
  Letters <- MCLetters
  Digits <- MCDigits
  Blanks <- MCBlanks
  Keywords <- MCKeywords
  Undef = Undef
INVARIANTS
  ListHolds
  LongestLexemes
  StaysInText
  Released
PROPERTIES
  Terminates
CHECK_DEADLOCK FALSE
