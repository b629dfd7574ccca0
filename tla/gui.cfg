SPECIFICATION Spec
CONSTANTS
  Calls = {c1, c2}
  Labels = {rviz2}
  Foreign = {term}
  Allowed = {}
  Spaced = {term}
  MaxStarts = 2
  MaxMoves = 1
  GracePolls = 1
  None = None
INVARIANTS GuiTypeOK LiveIsTracked ClosesItsOwn InputIsConfined WritesAreGated
SYMMETRY GuiSymmetry
