SPECIFICATION TextSpec
CONSTANTS
  MaxLength = 5
  LineCounts <- Counts
  Limits <- SmallLimits
INVARIANTS
  PreparedIsVisible
  PreviewIsHonest
