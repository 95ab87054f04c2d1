\* One thread, clock unit 0.25 s, the code's own numbers: 4 attempts, wall 12 s,
\* backoff 0.5 s doubling, jitter 0 or 0.25 s, requests of 0, 4 and 12 s.
SPECIFICATION Spec
CONSTANTS
  Threads = {t1}
  NoThread = NoThread
  MaxCalls = 2
  MAX_ATTEMPTS = 4
  MAX_RETRY_WALL = 48
  BACKOFF_UNIT = 2
  Jitters = {0, 1}
  CallTimes = {0, 16, 48}
  LoginTimes = {0, 8}
INVARIANT TypeOK
INVARIANT BackoffWithinWall
INVARIANT RetryUsesNewToken
CHECK_DEADLOCK FALSE
