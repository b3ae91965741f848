\* Four entities: two batches of two, or three of one mesh and a stranger.
CONSTANTS
  Entity = {e1, e2, e3, e4}
  Geometry <- MCGeometry
SPECIFICATION Spec
SYMMETRY Entities
INVARIANTS DrawnRight OneCallPerMesh
