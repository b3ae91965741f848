\* Every clamp from both sides.
CONSTANTS
  Tiles <- MCTiles
  Lengths <- MCLengths
  Overlaps <- MCOverlaps
  Starts <- MCStarts
  Steps <- MCSteps
SPECIFICATION TileSpec
INVARIANT RowUnbroken
PROPERTY StaysBeforeEdge
