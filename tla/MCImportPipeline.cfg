SPECIFICATION ImportSpec
CONSTANTS
  Tasks = {t1, t2}
  Rollers = {r1, r2}
  Providers = {"jobber", "stripe"}
  Remote <- MCRemote
  Typed <- MCTyped
  ImportRequests <- MCRequests
  MaxTypes = 2
  MaxFaults = 1
INVARIANTS MetricsAddUp CountsMatchLogs
PROPERTIES RolledBackIsFinal ImportsEnd
CHECK_DEADLOCK FALSE
