SPECIFICATION FairSpec
CONSTANTS
  D = D
  S = S
  Pools = {S}
  Pids = {c1, c2}
  c1 = c1
  c2 = c2
  MaxD = 0
  MaxS = 2
  Spare = 0
  MaxSpare = 0
  pm <- MCpm
  pm_max_children <- MCmax
  pm_start_servers <- MCmin_spare
  pm_min_spare_servers <- MCmin_spare
  pm_max_spare_servers <- MCmax_spare
  FPM_MAX_SPAWN_RATE = 2
  emergency_restart_threshold = 1
  request_terminate_timeout = FALSE
  PipeSize = 3
  MaxSignals = 1
  MaxForkFailures = 0
PROPERTIES TerminatingEnds GracefulStopEnds
CHECK_DEADLOCK FALSE
