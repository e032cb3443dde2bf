\* An operator who starts the runtime while an adapter reconnects.
SPECIFICATION FairSpec
CONSTANTS
  Threads = {"operator", "adapter"}
  Owners = {"operator"}
  Kinds = {"start", "reconnect", "invoke"}
  StartModes = {"signal_only", "constrained_paper"}
  Invocable = {"greeks_risk"}
  TkAvailable = FALSE
  MaxCalls = 3
INVARIANTS
  TypeOK
  PaperRunsSynced
  RecoveryUnsynced
PROPERTIES
  OnlyRecoveryBlocks
  PreflightPasses
