SPECIFICATION FairSpec
CONSTANTS
  w1 = w1
  w2 = w2
  t1 = t1
  t2 = t2
  Workers = {w1, w2}
  Tasks = {t1}
  NoWorker = NoWorker
  NoSet = NoSet
  MaxLoad <- MCMaxLoad
  FullLoad = 2
  Loads = {1}
  Times = {0, 1, 2}
  AskedTimes = {1, 2}
  ScheduleReserveTime = 0
  Strategy = "last-used"
  Preferences = {"any"}
  Suits <- MCSuits
  CheckAliveCount = 1
INVARIANTS
  SameWorkers
  PromiseKept
  OneExecutor
  NoStuckReservation
PROPERTY SilentWorkerReleased
CHECK_DEADLOCK FALSE
