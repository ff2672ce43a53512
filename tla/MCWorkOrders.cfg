SPECIFICATION OfficeSpec
CONSTANTS
  Requests = {r1, r2}
  Customers = {c1, c2}
  JobStatus = {"pending", "in_progress", "completed"}
  Quotes = {q1}
  Versions = {"a", "b"}
  Columns = {"service_fee", "markup_percent"}
  Values = {"low", "high"}
SYMMETRY Alike
CONSTRAINT OneDesk
INVARIANTS RowsAgree RecomputedIsAccepted
PROPERTIES  SettingsKept
CHECK_DEADLOCK FALSE
