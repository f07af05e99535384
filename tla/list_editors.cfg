\* The user stops after a bounded number of edits and saves.
SPECIFICATION Spec
CHECK_DEADLOCK FALSE
CONSTANTS
  Starts <- MCStarts
  Names = {"x", "y"}
  Typed = {"", "b", "bad"}
INVARIANTS
    EditsHitOneRow
    SavedWhenCalm
PROPERTIES
    UnsavedSurviveRefresh
    SaveEnds
