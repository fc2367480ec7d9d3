SPECIFICATION MCSpec
CONSTANTS
  Logins = {l1, l2}
  Wellformed = {l1, l2}
  Secrets = {s1}
  NoValue = NoValue
  MaxEdits = 1
  Accounts = {a1}
  NoAccount = NoAccount
  MaxAsked = 1
CHECK_DEADLOCK FALSE
INVARIANTS
  WidgetOutlivesCall
