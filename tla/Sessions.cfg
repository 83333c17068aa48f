CONSTANTS
  Callers = {c1, c2}
  Connections = {k1, k2}
  Nobody = Nobody
  MaxFaults = 1
SPECIFICATION Spec
INVARIANTS ReadOnlyNeverWrites ReportIsTrue SettingsAreOwn
PROPERTIES LimitedSessionsEnd
