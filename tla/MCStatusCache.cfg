SPECIFICATION Spec
CONSTANTS
  Requests = {r1}
  RequestKinds = {"visit", "allowed"}
  Workers = {w1, w2}
  SiteStates = {"active", "gone"}
  Failures = {"canceled", "deadline", "transport"}
  Ttl = 1
  ShortTtl = 1
  StaleTtl = 1
  UseRedis = TRUE
  RedisFailures = {"set", "del"}
  MaxVersion = 2
PROPERTIES BoundedStaleness CertificateWithinTtl Converges
