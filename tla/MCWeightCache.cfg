SPECIFICATION CacheSpec
CONSTANTS
  Null = null
  MaxTimes = 3
  Uses <- MCUses
INVARIANTS OwnFile NoFileLeft WeightsWritten SyncedFilesComplete
