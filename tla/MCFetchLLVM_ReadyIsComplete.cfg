CONSTANTS
  Members <- MCMembers
  Sentinels <- MCSentinels
  Hunks <- MCHunks
  Patches <- MCPatches
  Editions <- MCEditions
  MaxFailures = 3
  MaxEdits = 0

SPECIFICATION Spec

INVARIANT ReadyIsComplete
