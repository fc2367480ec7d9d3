SPECIFICATION ListenersSpec
CONSTANTS
  CDO = {c1}
  Contact = {k1}
  Bundles <- MCBundles
  MaxEvents = 2
  NoApproval = NoApproval
INVARIANTS
  ListenersFollowEvents
VIEW WithoutSignals
CHECK_DEADLOCK FALSE
