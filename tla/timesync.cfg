SPECIFICATION Spec
CONSTANTS
  References = {10, 11, 12}
  BuildTime = 5
  MaxUptime = 2
CHECK_DEADLOCK FALSE
PROPERTIES SyncedMeansRecorded
