SPECIFICATION Spec
CONSTANTS
  N = 2
  Switchers = {"daemon"}
  FallBehindThreshold = 1
  MaxBlock = 3
INVARIANTS
  WatchingSurvives
