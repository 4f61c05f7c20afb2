SPECIFICATION FairSpec
CONSTANTS
  Instrument = {"eur_usd", "usd_jpy"}
  Currency = {"usd", "jpy"}
  QuoteOf <- Quotes
  a = a  b = b  PadA = PadA  Spaces = Spaces
  Blank = Blank
  NoneText = NoneText
  Text = {a, b, PadA, Spaces, Blank, NoneText}
  Trim <- Stripped
  None = None
  Absent = Absent
  Cent = 1
  Batches <- SmallBatches
  Market = {2, 3}
  Initial <- Balance
  MaxCalls = 3
  MaxTrades = 2
  MaxRuns = 2
INVARIANTS
  TypeOK
  EveryRequestAnswered
  BookFollowsBroker
  BalanceFollowsBroker
  NamesAgree
PROPERTIES
  ClosesWhatWasAsked
  BatchEnds
CHECK_DEADLOCK FALSE
