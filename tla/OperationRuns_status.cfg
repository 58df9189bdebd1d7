SPECIFICATION Spec
CONSTANTS
  MaxGrants = 3
  Contexts <- TwoRecoveries
  MaxPhases = 2
  MaxBatches = 2
  MaxRecords = 3
  MaxLapses = 1
  MaxFaults = 1
  MaxCrashes = 1
INVARIANTS
  TypeOK
PROPERTIES
  EndsAreRecorded
  SuccessIsComplete
  OutcomesAreFinal
  RecoveryReportsTheRun
CHECK_DEADLOCK FALSE
