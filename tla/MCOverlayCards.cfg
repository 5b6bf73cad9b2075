SPECIFICATION OverlaySpec
CONSTANTS
  None = None
  kernel = kernel
  ruby = ruby
  home = home
  plugin = plugin
  left = left
  InitialId <- Initial
  HomeDir <- Home
  CharactersPerKey = 3
  MaxSummons = 1
  Catalog <- OneSource
  UnknownIds <- NoIds
  Dirs <- OneDir
  ScreenNames <- OneScreen
  TextLength <- Lengths
  Keys <- EveryKey
  MaxPresses = 4
INVARIANTS
  CardsAreEarned
  CardsEndWithSession
