SPECIFICATION Spec
CONSTANTS
  Losers <- NoLosers
  None = None
  kernel = kernel
  ruby = ruby
  home = home
  left = left
  right = right
  InitialId <- Initial
  UnknownIds <- NoIds
  Dirs <- OneDir
  HomeDir <- Home
  TextLength <- Lengths
  Keys <- NoKeys
  CharactersPerKey = 3
  MaxPresses = 0
  Catalog <- OneSource
  ScreenNames <- TwoScreens
  MaxSummons = 1
  MaxAsked = 2
SYMMETRY ScreenSymmetry
CONSTRAINT ServiceFirst
INVARIANTS
  TypeOK
  NoUninvitedSession
PROPERTIES
  OverlayKeepsScreen
