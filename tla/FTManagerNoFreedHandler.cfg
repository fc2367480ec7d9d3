SPECIFICATION ManagerSpec
CONSTANT Size = 2
INVARIANT NoFreedHandler
CHECK_DEADLOCK FALSE
