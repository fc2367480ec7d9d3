SPECIFICATION MCSpec
CONSTANTS
  Logins = {l1, l2}
  Wellformed = {l1}
  Secrets = {s1}
  NoValue = NoValue
  MaxEdits = 2
  Accounts = {a1, a2}
  NoAccount = NoAccount
  MaxAsked = 1
CHECK_DEADLOCK FALSE
INVARIANTS
  DetailsFollowSelection
PROPERTIES
  AppliedIsStored
  EditorAnswers
  ConfirmedIsRemoved
