SPECIFICATION Spec
CONSTANTS
  D = D
  S = S
  Pools = {D}
  Pids = {c1, c2}
  c1 = c1
  c2 = c2
  MaxD = 2
  MaxS = 0
  Spare = 1
  MaxSpare = 1
  pm <- MCpm
  pm_max_children <- MCmax
  pm_start_servers <- MCmin_spare
  pm_min_spare_servers <- MCmin_spare
  pm_max_spare_servers <- MCmax_spare
  FPM_MAX_SPAWN_RATE = 2
  emergency_restart_threshold = 1
  request_terminate_timeout = FALSE
  PipeSize = 2
  MaxSignals = 1
  MaxForkFailures = 1
SYMMETRY Symmetry
INVARIANTS TypeOK Books DeathsAreNoticed MarkedAreLeaving
PROPERTIES AbstractSpec
CHECK_DEADLOCK FALSE
