\* The user stops after a bounded number of edits, saves and tab changes.
SPECIFICATION Spec
CHECK_DEADLOCK FALSE
CONSTANTS
  Starts <- MCStarts
  Reopened = {"drawing", "dashboard"}
  Edited <- MCEdited
  Foreign <- MCForeign
INVARIANTS
    
    QuietCardIsCurrent
    CardsStayUsable
PROPERTIES
    OnlyTouchedKeysAreWritten
    SpinnersStop
