\* One dispatching thread, and a digest channel whose sender raises.
SPECIFICATION Spec
CONSTANTS
  a = a
  b = b
  direct = direct
  digested = digested
  hourly = hourly
  chat = chat
  mail = mail
  Dispatcher = {d1}
  Event = {a, b}
  Route = {direct, digested, hourly}
  Channel = {chat, mail}
  Fingerprint = {1}
  Routes <- TheRoutes
  Finger <- TheFinger
  ChannelOf <- TheChannels
  Throttle <- TheThrottle
  Digest <- TheDigest
  Limit <- TheLimit
  Retries <- TheRetries
  Raising = {mail}
  Minute = 1
  MaxStall = 1
  Horizon = 4
  MaxRestarts = 0
INVARIANTS WorkerLives
