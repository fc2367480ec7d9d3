SPECIFICATION MCSpec
CONSTANTS
  Attempts = 2
  Passwords = {p, q}
  None = None
  Certs = {a, b}
  Chains <- MCChains
  LocAccounts = {a1}
  MaxPublishing = 2
CHECK_DEADLOCK FALSE
INVARIANTS
  NothingIsLeftOver
  SavedIsRight
  SettingsAreHeeded
PROPERTIES
  PasswordIsFound
  SingleSignOnEnds
