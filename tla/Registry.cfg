SPECIFICATION Spec
CONSTANTS
  Directories <- MCDirectories
  DataOf <- MCDataOf
  Unlisted <- MCUnlisted
  AskedFor <- MCAskedFor
  Goroutines = {g1, g2}
INVARIANTS TypeOK TablesFollowRules ReleaseOrder NearestRelease NeverRaced OwnTable
CHECK_DEADLOCK FALSE
