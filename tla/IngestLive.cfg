\* Two workers, two failing calls or restarts, a message nobody can parse.
SPECIFICATION FairSpec
CONSTANTS
  w1 = w1
  w2 = w2
  m1 = m1
  m2 = m2
  m3 = m3
  a = a
  b = b
  up = up
  down = down
  Worker = {w1, w2}
  Message = {m1, m2, m3}
  Lines = {a, b}
  Content <- TheContent
  Reading <- TheReading
  Poison = {m3}
  Baselined = {a, b}
  When <- TheTimes
  Known = {}
  WarmUp = 2
  Mutable = {}
  MaxTrouble = 2
PROPERTIES MessagesLeave
