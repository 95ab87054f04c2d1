SPECIFICATION Spec
CONSTANTS
  Threads = {t1, t2}
  NoThread = NoThread
  MaxCalls = 3
  MAX_ATTEMPTS = 4
  MAX_RETRY_WALL = 48
  BACKOFF_UNIT = 2
  Jitters = {0}
  CallTimes = {0}
  LoginTimes = {0}
INVARIANT RetryUsesNewToken
CHECK_DEADLOCK FALSE
