\* Three thread structures, two descriptors, two handlers per thread.
\* It also implements Scheduler.
SPECIFICATION Spec
CONSTANTS
  Threads = {t1, t2, t3}
  Fds = {f1, f2}
  NoThread = NoThread
  NoFd = NoFd
  User = User
  CleanupLimit = 2
  EventBatch = 2
SYMMETRY MCSymmetry
INVARIANTS
  TypeOK
  RunnableListExact
  OneDisposition
  EpollExact
  NoDestructLost
  ZombieInert
  BlocksOnlyWhenIdle
  Assures
PROPERTY ImplementsScheduler
