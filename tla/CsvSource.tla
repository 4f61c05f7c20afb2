------------------------------ MODULE CsvSource ------------------------------
(* CSVDataSource with the decorators of filters.py: ticks or candles of one   *)
(* instrument after another are pulled, row by row, from the files in their   *)
(* order, filtered, sampled and given to a consumer that may stop asking.     *)
EXTENDS MarketData, FiniteSets

CONSTANTS
  FileLists,   \* kind -> the lists of files the source may have
  Asked,       \* the instruments asked for, one after the other
  From, To,    \* start_at and end_at, None for no end
  Interval,    \* of the tick granularity, None for every tick
  CandleSize,  \* the candle granularity asked for
  Filters      \* the filters of the decorators, in their order

ASSUME SourceAssumption ==
  /\ FileLists["tick"] \subseteq Seq(File(TickRow))
  /\ FileLists["candle"] \subseteq Seq(File(CandleRow))
  /\ Asked \in Seq(Instrument) /\ Asked # <<>>
  /\ \A i, j \in DOMAIN Asked : Asked[i] = Asked[j] => i = j
  /\ {From, To} \subseteq Nat \cup {None}
  /\ Interval \in (Nat \ {0}) \cup {None} /\ CandleSize \in Granularity
  /\ Filters \in Seq({f \in SpreadFilter : ValidFilter(f)})

VARIABLES
  kind,    \* what is asked for: "tick" or "candle"
  files,   \* tick_paths or candle_paths
  pc,      \* "open", "read", or how the stream ended: "done", "failed", "left"
  turn,    \* the instrument, as its place in Asked
  file,    \* the file
  pos,     \* the row of the file that is read next, 1 before it is open
  bucket,  \* current_bucket
  out      \* what the consumer was given

vars == <<kind, files, pc, turn, file, pos, bucket, out>>
source == <<kind, files>>

Init ==
  /\ kind \in {"tick", "candle"} /\ files \in FileLists[kind]
  /\ pc = "open" /\ turn = 1 /\ file = 1 /\ pos = 1 /\ bucket = None /\ out = <<>>

Wanted == Asked[turn]
Here == files[file]
Row == Here.rows[pos]
Reading == pc = "read" /\ pos <= Len(Here.rows)

-----------------------------------------------------------------------------
\* Files.

\* Mutant of OpenFile: the header is not looked for.
OpenHeadless ==
  /\ pc = "open" /\ file <= Len(files)
  /\ pc' = IF Here.opens THEN "read" ELSE "failed"
  /\ pos' = 1
  /\ UNCHANGED <<source, turn, file, bucket, out>>

\* The next file: one without a header has no rows, one that cannot be opened
\* ends the stream.
OpenFile ==
  /\ pc = "open" /\ file <= Len(files)
  /\ IF ~Here.opens THEN pc' = "failed" /\ UNCHANGED file
     ELSE IF ~Here.header THEN file' = file + 1 /\ UNCHANGED pc
     ELSE pc' = "read" /\ UNCHANGED file
  /\ pos' = 1
  /\ UNCHANGED <<source, turn, bucket, out>>

CloseFile ==
  /\ pc = "read" /\ pos > Len(Here.rows)
  /\ pc' = "open" /\ file' = file + 1 /\ pos' = 1
  /\ UNCHANGED <<source, turn, bucket, out>>

\* After the last file the next instrument starts over, as prices does.
EndStream ==
  /\ pc = "open" /\ file > Len(files)
  /\ IF turn = Len(Asked) THEN pc' = "done" /\ UNCHANGED <<turn, file, bucket>>
     ELSE turn' = turn + 1 /\ file' = 1 /\ bucket' = None /\ UNCHANGED pc
  /\ UNCHANGED <<source, pos, out>>

-----------------------------------------------------------------------------
\* Rows.

Parses(f, row) ==
  /\ InstrumentCell(f, row) # Bad
  /\ IF kind = "tick" THEN ValidTick(row) ELSE ValidCandle(row)
RecordOf(f, row, wanted) ==
  IF kind = "tick" THEN TickOf(f, row, wanted)
  ELSE CandleOf(f, row, wanted, CandleSize)
Record == RecordOf(Here, Row, Wanted)

\* What _raw_ticks and candles keep of the rows they read.
InRequest(r, wanted) ==
  /\ r.instrument = wanted
  /\ kind = "candle" => r.granularity = CandleSize
  /\ InRange(r.time, From, To)

\* The decorators' filters come before the granularity; candles pass them all.
Passes(r) == kind = "tick" => \A i \in DOMAIN Filters : Allows(Filters[i], r)
Samples(r) == kind = "tick" /\ Interval # None

\* Mutant of Fresh: a bucket that an earlier tick was given of is skipped.
FreshEver(r) ==
  Samples(r) => \A i \in DOMAIN out : Bucket(out[i].time, Interval) # Bucket(r.time, Interval)

Fresh(r) == Samples(r) => Bucket(r.time, Interval) # bucket

Skip ==
  /\ Reading /\ RawSkips(Here, Row, Wanted)
  /\ pos' = pos + 1
  /\ UNCHANGED <<source, pc, turn, file, bucket, out>>

\* A row that does not parse ends the stream, also one outside the range; so does
\* a line that cannot be read.
Break ==
  /\ Reading /\ ~RawSkips(Here, Row, Wanted) /\ ~Parses(Here, Row)
  /\ pc' = "failed"
  /\ UNCHANGED <<source, turn, file, pos, bucket, out>>

Taken == Reading /\ ~RawSkips(Here, Row, Wanted) /\ Parses(Here, Row)

Drop ==
  /\ Taken /\ ~(InRequest(Record, Wanted) /\ Passes(Record) /\ Fresh(Record))
  /\ pos' = pos + 1
  /\ UNCHANGED <<source, pc, turn, file, bucket, out>>

\* Mutant of Give: the bucket is not remembered.
GiveForgetful ==
  /\ Taken /\ InRequest(Record, Wanted) /\ Passes(Record) /\ Fresh(Record)
  /\ out' = Append(out, Record) /\ pos' = pos + 1
  /\ UNCHANGED <<source, pc, turn, file, bucket>>

Give ==
  /\ Taken /\ InRequest(Record, Wanted) /\ Passes(Record) /\ Fresh(Record)
  /\ out' = Append(out, Record) /\ pos' = pos + 1
  /\ bucket' = IF Samples(Record) THEN Bucket(Record.time, Interval) ELSE bucket
  /\ UNCHANGED <<source, pc, turn, file>>

\* The consumer asks no more; the generator is closed and its file with it.
Leave ==
  /\ pc \in {"open", "read"} /\ pc' = "left"
  /\ UNCHANGED <<source, turn, file, pos, bucket, out>>

Pull == OpenFile \/ CloseFile \/ EndStream \/ Skip \/ Break \/ Drop \/ Give
Next == Pull \/ Leave
Spec == Init /\ [][Next]_vars

-----------------------------------------------------------------------------
\* Properties.

\* The variables keep their types; no row is read outside a file.
TypeOK ==
  /\ kind \in {"tick", "candle"}
  /\ files \in Seq(File(IF kind = "tick" THEN TickRow ELSE CandleRow))
  /\ pc \in {"open", "read", "done", "failed", "left"}
  /\ turn \in 1..Len(Asked) /\ file \in 1..(Len(files) + 1) /\ pos \in Nat \ {0}
  /\ pc = "read" => file <= Len(files) /\ Here.opens /\ Here.header
  /\ bucket \in Nat \cup {None} /\ out \in Seq(Tick \cup Candle)

\* The times of the rows that parse do not go back, from file to file either.
Ascending ==
  \A f, g \in DOMAIN files :
    \A i \in DOMAIN files[f].rows, j \in DOMAIN files[g].rows :
      LET x == files[f].rows[i]
          y == files[g].rows[j]
      IN f < g \/ (f = g /\ i < j) =>
           \/ ~Parses(files[f], x) \/ ~Parses(files[g], y) \/ x.time <= y.time

\* With such files every tick given is of a later bucket than those before it:
\* TickGranularityFilter remembers one bucket only and yet gives one tick per
\* bucket, across files.  Each instrument has its own stream.
OnePerBucket ==
  kind = "tick" /\ Interval # None /\ Ascending => \A i, j \in DOMAIN out :
    i < j /\ out[i].instrument = out[j].instrument
      => Bucket(out[i].time, Interval) < Bucket(out[j].time, Interval)

\* The rows there are to read, instrument after instrument, of the files with a
\* header, and those that have been read.
Before(p, q) == \/ p[1] < q[1]
                \/ p[1] = q[1] /\ (p[2] < q[2] \/ (p[2] = q[2] /\ p[3] < q[3]))
ToRead == UNION {{<<a, f, n>> : n \in DOMAIN files[f].rows} :
                   a \in DOMAIN Asked, f \in {g \in DOMAIN files : files[g].header}}
HaveRead == {p \in ToRead : Before(p, <<turn, file, pos>>)}

\* Row p, of the instrument whose turn it is, is of another instrument; its
\* record; what is asked for, before the sampling.
Skips(p) == RawSkips(files[p[2]], files[p[2]].rows[p[3]], Asked[p[1]])
RecordAtRow(p) == RecordOf(files[p[2]], files[p[2]].rows[p[3]], Asked[p[1]])
Asks(p) == ~Skips(p) /\ InRequest(RecordAtRow(p), Asked[p[1]]) /\ Passes(RecordAtRow(p))
Matching == {p \in HaveRead : Asks(p)}

\* Row p is the first of its bucket in rows S of its instrument, or the first
\* after one of another bucket.
BucketAt(p) == Bucket(RecordAtRow(p).time, Interval)
IsFirst(p, S) ==
  Samples(RecordAtRow(p)) =>
    \A q \in S : q[1] = p[1] /\ Before(q, p) /\ BucketAt(q) = BucketAt(p) =>
      \E r \in S : Before(q, r) /\ Before(r, p)
Firsts == {p \in Matching : IsFirst(p, Matching)}

\* The consumer has been given, in the order of the files, the record of every
\* row it asked for among those read, with sampling the first of each run of one
\* bucket, and nothing else: what remembers one bucket and one place gives what
\* the whole of the rows says.  The stream is done after the last row, and fails
\* at a file that does not open or a row that cannot be read or does not parse, and
\* only there.
GivesFirsts ==
  /\ Len(out) = Cardinality(Firsts)
  /\ \A p \in Firsts : out[Cardinality({q \in Firsts : Before(q, p)}) + 1] = RecordAtRow(p)
  /\ \A p \in HaveRead : Skips(p) \/ Parses(files[p[2]], files[p[2]].rows[p[3]])
  /\ pc = "done" => HaveRead = ToRead
  /\ pc = "failed" => file <= Len(files) /\ (Here.opens =>
       pos <= Len(Here.rows) /\ ~RawSkips(Here, Row, Wanted) /\ ~Parses(Here, Row))
=============================================================================
