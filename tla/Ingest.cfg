\* Overlapping deliveries of overlapping messages, two failing calls or restarts.
SPECIFICATION Spec
SYMMETRY Workers
CONSTANTS
  w1 = w1
  w2 = w2
  m1 = m1
  m2 = m2
  m3 = m3
  a = a
  b = b
  up = up
  down = down
  Worker = {w1, w2}
  Message = {m1, m2, m3}
  Lines = {a, b}
  Content <- TheContent
  Reading <- TheReading
  Poison = {m3}
  Baselined = {a, b}
  When <- TheTimes
  Known = {1}
  WarmUp = 2
  Mutable = {b}
  MaxTrouble = 2
INVARIANTS TypeOK DispatchOnce DeletedIsStored AnomalyOnce
