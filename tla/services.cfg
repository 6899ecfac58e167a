SPECIFICATION ServicesSpec
CONSTANTS
  Areas = {"trigger", "cron", "session", "login", "modules", "bus", "one", "access", "pool",
           "transaction", "caches", "caches of processes"}
  Thread = {t1, t2}
  MaxInstance = 3
  MaxVersion = 2
  MaxFail = 1
  t1 = t1
  NoValue = NoValue
  t2 = t2
  MaxConn = 2
  ConnRetry = 1
  Context = {c, d}
  NoContext = NoContext
  MaxDepth = 3
  Proc = {p1, p2}
  MaxAge = 5
  Timeout = 3
  Interval = 1
  MaxNow = 6
  Handler = {h1, h2}
  Cookie = {k}
  NoCookie = NoCookie
  MaxAttempt = 1
  MaxAttemptIp = 2
  Period = 0
  MaxDate = 1
  MaxLogins = 5
  Task = {1, 2}
  Every <- MCEvery
  Process = {p1, p2}
  CronRetry = 1
  Back = 3
  MaxHour = 4
  MaxRuns = 3
  MaxCrash = 1
  Rec = {r1, r2}
  Worker = {w1, w2}
  Settings <- MCSettings
  MaxTime = 2
  MaxEdits = 2
  Subscriber = {"s1", "s2"}
  Channel = {"A", "B"}
  ChannelsOf <- MCChannelsOf
  MaxMessage = 3
  MaxBreak = 1
INVARIANTS CallsOnTime LoginsGuarded NoMessageSkipped PoolComplete PoolRefreshed StackKept
PROPERTIES ModulesConsistent NothingStale
CHECK_DEADLOCK FALSE
