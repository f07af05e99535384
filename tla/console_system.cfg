\* The user stops after a bounded number of edits and saves.
SPECIFICATION Spec
CHECK_DEADLOCK FALSE
CONSTANTS
  Starts <- MCStarts
  Typed = {"b", "", "undefined"}
INVARIANTS
    SavesSpareTheRest
    PasswordLoginOffIsConfirmed
    LastTextIsStored
PROPERTIES
    WaitingEnds
