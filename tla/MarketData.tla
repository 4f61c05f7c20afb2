----------------------------- MODULE MarketData -----------------------------
(* Ticks, candles and the rows of CSV files they are read from                *)
(* (src/core/sources/models.py, csv_rows.py, csv_mapping.py, csv_parsing.py,  *)
(* csv_streaming.py), with the filters a source puts on a stream (filters.py  *)
(* and base.py).  A cell says a value, is None when it is blank or not there, *)
(* or is Bad when it cannot be parsed.                                        *)
EXTENDS Integers, Sequences

CONSTANTS Instrument, Granularity, PipOf, None, Bad

ASSUME MarketAssumption ==
  /\ PipOf \in [Instrument -> Nat \ {0}]
  /\ None # Bad /\ {None, Bad} \cap (Instrument \cup Int) = {}

Cell(values) == values \cup {None, Bad}

TickRow ==
  [instrument : Cell(Instrument), time : Cell(Nat), bid : Cell(Int),
   ask : Cell(Int), mid : Cell(Int)]
CandleRow ==
  [instrument : Cell(Instrument), time : Cell(Nat), granularity : Cell(Granularity),
   open : Cell(Int), high : Cell(Int), low : Cell(Int), close : Cell(Int),
   complete : Cell(BOOLEAN), volume : Cell(Int)]

\* A file that can be opened or not, with or without its header, and whether the
\* header has a column for the instrument.
File(row) == [opens : BOOLEAN, header : BOOLEAN, column : BOOLEAN, rows : Seq(row)]

-----------------------------------------------------------------------------
\* Rows into ticks and candles.

\* The cell of the instrument, which a file without the column does not have.
\* It is Bad when the line cannot be read at all: an archive that is cut off, a
\* byte that does not decode, csv.Error.
InstrumentCell(file, row) ==
  IF file.column \/ row.instrument = Bad THEN row.instrument ELSE None

\* CSVFileRowReader.rows: a row that names another instrument is not looked at.
RawSkips(file, row, wanted) == InstrumentCell(file, row) \notin {None, Bad, wanted}

\* An amount coerced to a positive price.
IsPrice(cell) == cell \notin {None, Bad} /\ cell > 0

\* Tick: the prices are positive and mid is between bid and ask.
ValidTick(row) ==
  /\ row.time \notin {None, Bad}
  /\ IsPrice(row.bid) /\ IsPrice(row.ask) /\ row.bid <= row.ask
  /\ row.mid # None => IsPrice(row.mid) /\ row.mid \in row.bid..row.ask

Tick ==
  [instrument : Instrument, time : Nat, bid : Nat, ask : Nat, mid : Nat]

\* Mid is kept twice as large: without one it is the average.
TickOf(file, row, wanted) ==
  [instrument |-> IF InstrumentCell(file, row) = None THEN wanted ELSE row.instrument,
   time |-> row.time, bid |-> row.bid, ask |-> row.ask,
   mid |-> IF row.mid = None THEN row.bid + row.ask ELSE 2 * row.mid]

\* Candle: high and low bound the other prices, and what is optional parses.
ValidCandle(row) ==
  /\ row.time \notin {None, Bad} /\ row.granularity # Bad
  /\ \A p \in {row.open, row.high, row.low, row.close} :
       IsPrice(p) /\ row.low <= p /\ p <= row.high
  /\ row.volume # Bad /\ (row.volume # None => row.volume >= 0)
  /\ row.complete # Bad

Candle ==
  [instrument : Instrument, time : Nat, granularity : Granularity, open : Nat,
   high : Nat, low : Nat, close : Nat, complete : BOOLEAN, volume : Nat \cup {None}]

CandleOf(file, row, wanted, granularity) ==
  [instrument |-> IF InstrumentCell(file, row) = None THEN wanted ELSE row.instrument,
   time |-> row.time,
   granularity |-> IF row.granularity = None THEN granularity ELSE row.granularity,
   open |-> row.open, high |-> row.high, low |-> row.low, close |-> row.close,
   complete |-> row.complete # FALSE, volume |-> row.volume]

-----------------------------------------------------------------------------
\* What a stream keeps.

\* CSVTimestampRange: both ends belong to the range, None is no end.
InRange(t, from, to) == (from # None => t >= from) /\ (to # None => t <= to)

\* SpreadFilter: the most pips between bid and ask, when it is enabled.
SpreadFilter == [enabled : BOOLEAN, max : Nat \cup {None}]
ValidFilter(f) == (f.enabled => f.max # None) /\ (f.max # None => f.max > 0)
Allows(f, tick) ==
  f.enabled => tick.ask - tick.bid <= f.max * PipOf[tick.instrument]

\* TickGranularityFilter: the bucket of a time.
Bucket(t, interval) == t \div interval
=============================================================================
