SPECIFICATION Spec
CONSTANTS
  Requests = {r1}
  RequestKinds = {"visit"}
  Workers = {w1, w2}
  SiteStates = {"active"}
  Failures = {}
  Ttl = 2
  ShortTtl = 1
  StaleTtl = 1
  UseRedis = FALSE
  RedisFailures = {}
  MaxVersion = 2
INVARIANTS InvalidateForcesRevalidation
