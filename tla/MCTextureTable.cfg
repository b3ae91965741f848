\* Four images hold white, two materials and a name, or white, one material
\* and both names; three sets are one too few for either.
CONSTANTS
  Image = {i1, i2, i3, i4}
  PoolSet = {s1, s2, s3}
  White = White
  NULL = NULL
  ground = ground
  ocean = ocean
  ship = ship
  bullet = bullet
  missing = missing
  Level <- MCLevel
  Content <- MCContent
  Key <- MCKey
  FileOf <- MCFileOf
  Resolved <- MCResolved
  Detect <- MCDetect
SPECIFICATION Spec
SYMMETRY Handles
INVARIANTS NothingLeaked RegistryRight InFlightIntact ScreenRight
CHECK_DEADLOCK FALSE
