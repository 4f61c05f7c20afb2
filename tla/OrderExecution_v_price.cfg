SPECIFICATION Spec
CONSTANTS
  Instrument = {"eur_usd", "usd_jpy"}
  Currency = {"usd", "jpy"}
  QuoteOf <- Quotes
  a = a  b = b  PadA = PadA  Spaces = Spaces
  Blank = Blank
  NoneText = NoneText
  Text = {a, b, PadA, Spaces, Blank, NoneText}
  Trim <- Stripped
  None = None
  Absent = Absent
  Cent = 2
  Batches <- FewBatches
  Market = {2, 3}
  Initial <- Balance
  MaxCalls = 3
  MaxTrades = 2
  MaxRuns = 2
INVARIANTS
  FillPriceRecorded
CHECK_DEADLOCK FALSE
