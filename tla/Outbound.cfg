CONSTANTS
  s1 = s1
  s2 = s2
  d = d
  p = p
  pUp = pUp
  q = q
  synth = synth
  blank = blank
  Host <- MCHost
  Canon <- MCCanon
  V4 = {d}
  Nat64Of <- MCNat64Of
  Blank = blank
  Refused = {}
  MaxAttempts = 2
  TTL = 3
  Debounce = 2
  Sessions = {s1, s2}
  Targets <- TwoPorts
  Configs <- Varied
  Start = 2
  MaxTime = 6
  KvFails = TRUE
SYMMETRY Symmetric
SPECIFICATION Spec
INVARIANTS EveryRouteTried RememberedRouteCarried
PROPERTY FailedPreferenceDemoted
CHECK_DEADLOCK FALSE
