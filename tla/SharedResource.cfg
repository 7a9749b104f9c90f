CONSTANTS
  Main = Main
  None = None
  Stuck = Stuck
  t1 = t1
  t2 = t2
  t3 = t3
  Borrowers <- MCBorrowers
  ForeignRelease <- MCForeignRelease
  MaxJobs = 4
  MaxMessages = 2
SPECIFICATION FairSpec
INVARIANTS
  NoConvoy
  StuckOnlyByHandOver
PROPERTIES
  HandlerRuns
  IndexersFinish
  RefinesExclusion
CHECK_DEADLOCK FALSE
