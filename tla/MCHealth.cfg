SPECIFICATION HealthSpec
CONSTANTS
  w1 = w1
  w2 = w2
  Websites = {w1, w2}
  Calls = {w1, w2}
  IpnsSites = {w1}
  MaxValues = 1
INVARIANTS SearchDelivers RoundAgrees
PROPERTIES SearchEnds RoundEnds
