CONSTANTS
  Ids = {1,2,3}
  Delays = {0, 3}
  Wall <- Drifting
  MaxTimers = 2
  Idle <- NotArmed
  Steps = {1, 2}
  MaxHandle = 4
  MaxNow = 4
SPECIFICATION Spec
PROPERTY Refines
