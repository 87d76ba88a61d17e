SPECIFICATION Spec
CONSTANTS
  c1 = c1
  c2 = c2
  c3 = c3
  Callers = {c1, c2}
  UrlOf <- MCUrlOf
  PathOf <- MCPathOf
  CoverCalls = {c2}
  Interval = 2
  Attempts = 3
  InitialBackoff = 1
  MaxBackoff = 2
  Slice = 1
  Ttl = 2
  AskedAfter = {2, 3}
  MaxNow = 4
INVARIANTS SlotsApart HitIsOwnKey InterruptedSendsNothing
PROPERTIES RetriesAreConservative
CHECK_DEADLOCK FALSE
