SPECIFICATION MCSpec
CONSTANTS
  CDO = {c1, c2}
  Contact = {k1}
  Bundles <- MCBundles
  MaxEvents = 2
  NoApproval = NoApproval
INVARIANTS
  ApprovalsMatchEvents
  RingingAccount
PROPERTIES
  EventOutlivesAnswers
  PhoneFallsSilent
