\* Safety of the scheduler, semaphore and alarms with the code's four levels.
CONSTANTS
  Threads = {t1, t2}
  Main = t1
  Sched = Sched
  Reaper = Reaper
  NLevels = 4
  LevelMaxQuanta <- MCLevelMaxQuanta
  LevelQuantumValue <- MCLevelQuantumValue
  SemInitCount = 1
  Delays = {100, 200}
SPECIFICATION Spec
INVARIANT TypeOK
INVARIANT ThreadPresence
INVARIANT AlarmsLive
PROPERTY SemaphoreRefinement
