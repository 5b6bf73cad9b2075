SPECIFICATION HighlightSpec
CONSTANTS
  None = None
  Languages <- AllLanguages
  Letters <- AllLetters
  Digits <- OneDigit
  LowerCase <- ToLower
  Alphabet <- AllSigns
  Inherited <- OneWord
  MaxLength = 5
INVARIANTS
  NothingIsLost
  ColoursStay
  RegionsAreTrue
