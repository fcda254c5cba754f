\* Two threads dispatch events of one fingerprint while the worker delivers; senders may raise, the process restarts once.
SPECIFICATION LiveSpec
CONSTANTS
  a = a
  b = b
  direct = direct
  digested = digested
  hourly = hourly
  chat = chat
  mail = mail
  Dispatcher = {d1, d2}
  Event = {a, b}
  Route = {direct, digested, hourly}
  Channel = {chat, mail}
  Fingerprint = {1}
  Routes <- TheRoutes
  Finger <- TheFinger
  ChannelOf <- TheChannels
  Throttle <- TheThrottle
  Digest <- TheDigest
  Limit <- TheLimit
  Retries <- TheRetries
  Raising = {chat, mail}
  Minute = 1
  MaxStall = 1
  Horizon = 4
  MaxRestarts = 1
INVARIANTS TypeOK Accounted
PROPERTIES SuppressedForQueued Spaced DigestOnTime Settles
