SPECIFICATION Spec
CONSTANTS
  Writers = {w1, w2}
  Consumers = {c1}
  Contents = {a, b}
  Levels = {1, 2}
  None = None
SYMMETRY Symmetry
INVARIANTS NoWriteLost
