SPECIFICATION Spec
CONSTANTS
  MaxSockets = 3
  FailLimit = 3
  Hazards = {"close_success", "deauthorise", "sync_connect", "slow_dns", "deactivate_fails", "gsm_drop", "slow_send"}
  MaxDns = 2
INVARIANTS TypeOK WaitsAreWatched
