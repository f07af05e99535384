SPECIFICATION Spec
CONSTANTS
  Tabs = {1, 2}
  Wizards = {1, 2}
  Users = {"ann", "bob"}
  TwoFAUsers = {"ann"}
  MaxLinks = 2
  Visits <- MCVisits
  Admins <- MCAdmins
  Modes = {"external", "self"}
  Starts <- MCStarts
  Addresses = {1, 2}
  Tours <- MCTours
INVARIANTS
    SignInPagesAreSound
    LinkWorksOnce
    
    AccountIsAsReported
    SessionAgrees
PROPERTIES
    CallbackLeaves
\* The user may stop at any point, and every visit is bounded.
CHECK_DEADLOCK FALSE
