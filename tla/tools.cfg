SPECIFICATION Spec
CONSTANTS
  c1 = c1
  c2 = c2
  ws = ws
  distro = distro
  Calls = {c1, c2}
  Setups = {ws, distro}
  Opaque = {}
  Config = {distro, ws}
  Searched <- MCAuto
  Workspaces = {ws}
  Programs <- MCPrograms
  MaxMoves = 1
  None = None
INVARIANTS ToolTypeOK ChangesAreApproved
PROPERTIES SourcedIsThere LogDirIsJudged
