SPECIFICATION ResolveSpec
CONSTANTS
  FileNames <- MCFileNames
  Kd <- MCKd
  Nearby <- MCNearby
  Words <- MCWords
  Begins <- MCBegins
  EndsWith <- MCEndsWith
  WithExt <- MCWithExt
  White = White
  MaxMaterials = 2
INVARIANTS
  VehiclesEverywhere
  OneTerrain
  TerrainShown
