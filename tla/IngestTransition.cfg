\* One drain at a time, two heartbeats, one failing call.
SPECIFICATION Spec
CONSTANTS
  w1 = w1
  w2 = w2
  m1 = m1
  m2 = m2
  m3 = m3
  a = a
  b = b
  up = up
  down = down
  Worker = {w1}
  Message = {m1, m2}
  Lines = {a, b}
  Content <- Heartbeats
  Reading <- TheReading
  Poison = {}
  Baselined = {a, b}
  When <- TheTimes
  Known = {1}
  WarmUp = 2
  Mutable = {}
  MaxTrouble = 1
INVARIANTS AlertTellsState
CHECK_DEADLOCK FALSE
