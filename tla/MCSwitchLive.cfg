\* Every destruct that has begun is carried through, if handlers return.
SPECIFICATION FairSpec
CONSTANTS
  Threads = {t1, t2, t3}
  Fds = {}
  NoThread = NoThread
  NoFd = NoFd
  User = User
  CleanupLimit = 2
  EventBatch = 1
PROPERTY DestructCompletes
