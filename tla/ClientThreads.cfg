SPECIFICATION FairSpec
CONSTANTS
  Threads = {t1, t2}
  NoThread = NoThread
  MaxCalls = 2
  MAX_ATTEMPTS = 3
  MAX_RETRY_WALL = 48
  BACKOFF_UNIT = 2
  Jitters = {0}
  CallTimes = {0}
  LoginTimes = {0}
INVARIANT LoginExclusive
INVARIANT SendsAuthenticated
INVARIANT RetryAfterRenewal
PROPERTY SingleFlightLogin
PROPERTY KeepsContract
PROPERTY CallsReturn
CHECK_DEADLOCK FALSE
