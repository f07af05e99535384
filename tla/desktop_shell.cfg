SPECIFICATION Spec
CONSTANTS
  MaxRetries = 3
  MaxLogs = 1
  Lines = {"port", "database", "other"}
INVARIANTS
    ShellContained
PROPERTIES
    StartupSettles
    Supervised
\* The shell ends: nothing happens after app.exit.
CHECK_DEADLOCK FALSE
