SPECIFICATION Spec
CONSTANTS
  Workers = {w1, w2}
  Callers = {d1}
  MaxConns = 2
  MaxNotices = 2
  None = None
INVARIANTS NoOrphan FlagHasOwner TokenIsCurrent
PROPERTIES Reconnects DisconnectReturns
