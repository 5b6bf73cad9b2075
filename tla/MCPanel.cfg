SPECIFICATION PanelSpec
CONSTANTS
  None = None
  kernel = kernel
  ruby = ruby
  home = home
  left = left
  right = right
  Catalog <- MCCatalog
  InitialId <- MCInitialId
  UnknownIds <- MCUnknownIds
  Dirs <- MCDirs
  HomeDir <- MCHomeDir
  ScreenNames <- MCScreenNames
  Losers <- MCScreenNames
  MaxSummons = 1
SYMMETRY ScreenSymmetry
INVARIANTS
  DropdownShowsSelection
