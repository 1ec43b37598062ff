\* sleep(0) registers an alarm for the tick already counted; it never fires.
CONSTANTS
  Threads = {t1, t2}
  Main = t1
  Sched = Sched
  Reaper = Reaper
  NLevels = 2
  LevelMaxQuanta <- MCLevelMaxQuanta2
  LevelQuantumValue <- MCLevelQuantumValue2
  SemInitCount = 1
  Delays = {0, 100}
SPECIFICATION Spec
PROPERTY SleepersWake
