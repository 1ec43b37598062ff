\* Progress of the scheduler and of sleepers, on two levels.
CONSTANTS
  Threads = {t1, t2}
  Main = t1
  Sched = Sched
  Reaper = Reaper
  NLevels = 2
  LevelMaxQuanta <- MCLevelMaxQuanta2
  LevelQuantumValue <- MCLevelQuantumValue2
  SemInitCount = 1
  Delays = {100}
SPECIFICATION Spec
PROPERTY NoStarvation
PROPERTY SleepersWake
