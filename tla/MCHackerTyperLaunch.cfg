SPECIFICATION Spec
CONSTANTS
  Losers <- OneScreen
  None = None
  kernel = kernel
  ruby = ruby
  home = home
  left = left
  right = right
  InitialId <- Initial
  UnknownIds <- NoIds
  Dirs <- OneDir
  HomeDir <- Home
  TextLength <- Lengths
  Keys <- NoKeys
  CharactersPerKey = 3
  MaxPresses = 0
  Catalog <- TwoSources
  ScreenNames <- OneScreen
  MaxSummons = 1
  MaxAsked = 2
CONSTRAINT ServiceFirst
INVARIANTS
  DropdownShowsSelection
PROPERTIES
  LaunchOpensOverlay
