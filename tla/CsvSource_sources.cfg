SPECIFICATION FeedSpec
CONSTANTS
  eur = eur  jpy = jpy  m1 = m1  m5 = m5
  None = None
  Bad = Bad
  Instrument = {eur, jpy}
  Granularity = {m1, m5}
  PipOf <- Pips
  FileLists <- SmallLists
  Asked <- BothAsked
  From = None
  To = 6
  Interval = 2
  CandleSize = m1
  Filters <- Spreads
INVARIANTS
  GivesFirsts
  OnePerBucket
PROPERTIES
  Fed
CHECK_DEADLOCK FALSE
