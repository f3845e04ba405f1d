SPECIFICATION SiteSpec
CONSTANTS
  Domains = {d1}
  NoDomain = NoDomain
  DeletedConfirmCount = 1
  MaxCallbacks = 1
  Fills = {f1}
  MaxChanges = 1
INVARIANTS ClearIsJustified ChangePending
PROPERTIES SiteRecovers
