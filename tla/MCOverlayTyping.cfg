SPECIFICATION OverlaySpec
CONSTANTS
  None = None
  kernel = kernel
  ruby = ruby
  home = home
  plugin = plugin
  left = left
  InitialId <- Initial
  HomeDir <- Home
  CharactersPerKey = 3
  MaxSummons = 1
  Catalog <- TwoSources
  UnknownIds <- NoIds
  Dirs <- TwoDirs
  ScreenNames <- OneScreen
  TextLength <- Lengths
  Keys <- TypingKeys
  MaxPresses = 4
INVARIANTS
  ProgressWithinText
  ProgressIsTyped
PROPERTIES
  KeysActAsTold
