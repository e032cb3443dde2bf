\* One operator, and an adapter that reports synchronization.
SPECIFICATION Spec
CONSTANTS
  Threads = {"operator"}
  Owners = {"operator"}
  Kinds = {"start"}
  StartModes = {"signal_only", "constrained_paper"}
  Invocable = {"broker_reconciliation", "greeks_risk"}
  TkAvailable = FALSE
  MaxCalls = 3
INVARIANT KillSwitchHalts
