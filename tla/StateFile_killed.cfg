CONSTANTS
  None = None
  Writers = {w1, w2}
  Inodes = {i1, i2, i3, i4, i5}
  MaxVersions = 4
SPECIFICATION Spec
INVARIANTS KilledKeepsFile
SYMMETRY WritersAlike
