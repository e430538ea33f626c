SPECIFICATION FairSpec
CONSTANTS
  Call = {boot, c1, c2}
  Preflight = boot
  MaxConcurrent = 1
  MaxOutputBytes = 1
  MaxStderrBytes = 0
  PipeSize = 1
INVARIANTS TypeOK SlotsGuardChildren
PROPERTIES ImagesAreWhole ExcessIsTold RefusalsHaveACause RunsEnd
