SPECIFICATION Spec
INVARIANTS ReportsAreTrue HandshakeInStep SettledAtRest
CHECK_DEADLOCK FALSE
