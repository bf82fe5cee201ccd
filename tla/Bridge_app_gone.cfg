CONSTANTS
  None = None
  Calls = {c1, c2}
  Listeners = {l1}
  Reconcilers = {r1}
  Buffer = 1
SPECIFICATION Spec
INVARIANTS EnsureIntercepted
SYMMETRY Interchangeable
