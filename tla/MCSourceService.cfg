SPECIFICATION ServiceSpec
CONSTANTS
  None = None
  kernel = kernel
  engine = engine
  ruby = ruby
  unknown = unknown
  home = home
  plugin = plugin
  left = left
  Catalog <- MCCatalog
  InitialId <- MCInitialId
  UnknownIds <- MCUnknownIds
  Dirs <- MCDirs
  HomeDir <- MCHomeDir
  ScreenNames <- MCScreenNames
  MaxSummons = 2
INVARIANTS
  ViewMatchesSelection
  LoadingIsTruthful
  StaleTextIsReplaced
PROPERTIES
  SettledTextStays
  SelectionSettles
  ImplementsSourceView
