--------------------------- MODULE CsvSource_proofs ---------------------------
(* Proofs about CsvSource, for all files, ranges, filters and instruments: the *)
(* types, and that sampling gives one tick a bucket when times do not go back. *)
EXTENDS CsvSource, FiniteSetTheorems, TLAPS

\* A quotient does not fall when what is divided grows.
LEMMA BucketMonotone ==
  ASSUME NEW n \in Nat \ {0}, NEW s \in Nat, NEW t \in Nat
  PROVE  /\ Bucket(s, n) \in Nat
         /\ s <= t => Bucket(s, n) <= Bucket(t, n)
  <1> DEFINE p == s \div n
             q == t \div n
  <1>1. p \in Int /\ n * p <= s /\ s < n * p + n
    OBVIOUS
  <1>2. q \in Int /\ n * q <= t /\ t < n * q + n
    OBVIOUS
  <1> HIDE DEF p, q
  <1>3. p >= 0
    <2> SUFFICES ASSUME p <= -1 PROVE FALSE
      BY <1>1
    <2>1. n * p <= n * (-1)
      BY <1>1
    <2> QED BY <1>1, <2>1
  <1>4. ASSUME s <= t PROVE p <= q
    <2> SUFFICES ASSUME q + 1 <= p PROVE FALSE
      BY <1>1, <1>2
    <2>1. n * (q + 1) <= n * p
      BY <1>1, <1>2
    <2>2. n * (q + 1) = n * q + n
      BY <1>2
    <2>3. n * p \in Int /\ n * q \in Int
      BY <1>1, <1>2
    <2> QED BY <1>1, <1>2, <1>4, <2>1, <2>2, <2>3
  <1> QED BY <1>1, <1>3, <1>4 DEF p, q, Bucket

-----------------------------------------------------------------------------
\* Types.

LEMMA FilesType ==
  ASSUME TypeOK, pc = "read"
  PROVE  /\ file \in DOMAIN files /\ Here \in File(IF kind = "tick" THEN TickRow ELSE CandleRow)
         /\ Here.rows \in Seq(IF kind = "tick" THEN TickRow ELSE CandleRow)
  <1>1. file \in 1..Len(files) /\ files \in Seq(File(IF kind = "tick" THEN TickRow ELSE CandleRow))
    BY DEF TypeOK
  <1>2. file \in DOMAIN files /\ Here \in File(IF kind = "tick" THEN TickRow ELSE CandleRow)
    BY <1>1 DEF Here
  <1> QED BY <1>2 DEF File

LEMMA RowType ==
  ASSUME TypeOK, Reading
  PROVE  /\ pos \in DOMAIN Here.rows
         /\ Row \in (IF kind = "tick" THEN TickRow ELSE CandleRow)
  <1>1. Here.rows \in Seq(IF kind = "tick" THEN TickRow ELSE CandleRow)
    BY FilesType DEF Reading
  <1>2. pos \in 1..Len(Here.rows)
    BY <1>1 DEF Reading, TypeOK
  <1>3. pos \in DOMAIN Here.rows
    BY <1>1, <1>2
  <1> QED BY <1>1, <1>3 DEF Row

LEMMA WantedType == TypeOK => Wanted \in Instrument
  BY SourceAssumption DEF TypeOK, Wanted

\* The instrument of a record whose row parses.
LEMMA InstrumentType ==
  ASSUME NEW f \in File(TickRow) \cup File(CandleRow), NEW row \in TickRow \cup CandleRow,
         NEW w \in Instrument, InstrumentCell(f, row) # Bad
  PROVE  (IF InstrumentCell(f, row) = None THEN w ELSE row.instrument) \in Instrument
  <1>1. row.instrument \in Cell(Instrument)
    BY DEF TickRow, CandleRow
  <1> QED BY <1>1 DEF InstrumentCell, Cell

\* A row that parses makes a tick or a candle.
LEMMA RecordType ==
  ASSUME TypeOK, Taken
  PROVE  /\ Record \in Tick \cup Candle
         /\ Record.time \in Nat /\ Record.time = Row.time
  <1>1. /\ Reading /\ InstrumentCell(Here, Row) # Bad
        /\ IF kind = "tick" THEN ValidTick(Row) ELSE ValidCandle(Row)
    BY DEF Taken, Parses
  <1>2. /\ Row \in (IF kind = "tick" THEN TickRow ELSE CandleRow) /\ Wanted \in Instrument
        /\ Here \in File(TickRow) \cup File(CandleRow)
    BY <1>1, RowType, WantedType, FilesType DEF Reading
  <1>3. (IF InstrumentCell(Here, Row) = None THEN Wanted ELSE Row.instrument) \in Instrument
    BY <1>1, <1>2, InstrumentType
  <1>4. CASE kind = "tick"
    <2>1. Row \in TickRow /\ ValidTick(Row)
      BY <1>1, <1>2, <1>4
    <2>2. Row.time \in Nat /\ Row.bid \in Nat /\ Row.ask \in Nat
      BY <2>1 DEF TickRow, ValidTick, IsPrice, Cell
    <2>3. (IF Row.mid = None THEN Row.bid + Row.ask ELSE 2 * Row.mid) \in Nat
      BY <2>1, <2>2 DEF TickRow, ValidTick, IsPrice, Cell
    <2>4. Record = TickOf(Here, Row, Wanted)
      BY <1>4 DEF Record, RecordOf
    <2> QED BY <1>3, <2>2, <2>3, <2>4 DEF TickOf, Tick
  <1>5. CASE kind # "tick"
    <2>1. Row \in CandleRow /\ ValidCandle(Row)
      BY <1>1, <1>2, <1>5
    <2>2. Row.time \in Nat
      BY <2>1 DEF CandleRow, ValidCandle, Cell
    <2>3. Row.open \in Nat /\ Row.high \in Nat /\ Row.low \in Nat /\ Row.close \in Nat
      BY <2>1 DEF CandleRow, ValidCandle, IsPrice, Cell
    <2>4. Row.volume \in Nat \cup {None}
      BY <2>1 DEF CandleRow, ValidCandle, Cell
    <2>5. (IF Row.granularity = None THEN CandleSize ELSE Row.granularity) \in Granularity
      BY <2>1, SourceAssumption DEF CandleRow, ValidCandle, Cell
    <2>6. Record = CandleOf(Here, Row, Wanted, CandleSize)
      BY <1>5 DEF Record, RecordOf
    <2> QED BY <1>3, <2>2, <2>3, <2>4, <2>5, <2>6 DEF CandleOf, Candle
  <1> QED BY <1>4, <1>5

LEMMA TickTime ==
  ASSUME TypeOK, Taken, Samples(Record)
  PROVE  Interval \in Nat \ {0} /\ Bucket(Record.time, Interval) \in Nat
  <1>1. Interval \in Nat \ {0}
    BY SourceAssumption DEF Samples
  <1> QED BY <1>1, RecordType, BucketMonotone

LEMMA TypesInit == Init => TypeOK
  <1> SUFFICES ASSUME Init PROVE TypeOK
    OBVIOUS
  <1>1. files \in Seq(File(IF kind = "tick" THEN TickRow ELSE CandleRow))
    BY SourceAssumption DEF Init
  <1>2. Len(files) \in Nat /\ Len(Asked) \in Nat \ {0}
    BY <1>1, SourceAssumption
  <1> QED BY <1>1, <1>2 DEF Init, TypeOK

LEMMA TypesStep == TypeOK /\ [Next]_vars => TypeOK'
  <1> SUFFICES ASSUME TypeOK, [Next]_vars PROVE TypeOK'
    OBVIOUS
  <1>1. Len(files) \in Nat /\ Len(Asked) \in Nat \ {0}
    BY SourceAssumption DEF TypeOK
  <1>2. CASE OpenFile
    BY <1>1, <1>2 DEF OpenFile, TypeOK, source, Here
  <1>3. CASE CloseFile
    BY <1>1, <1>3 DEF CloseFile, TypeOK, source, Here
  <1>4. CASE EndStream
    BY <1>1, <1>4 DEF EndStream, TypeOK, source, Here
  <1>5. CASE Skip \/ Drop
    BY <1>1, <1>5 DEF Skip, Drop, TypeOK, source, Here
  <1>6. CASE Break \/ Leave
    BY <1>6 DEF Break, Leave, TypeOK, source, Here
  <1>7. CASE Give
    <2>1. /\ out' = Append(out, Record) /\ pos' = pos + 1 /\ Taken
          /\ bucket' = IF Samples(Record) THEN Bucket(Record.time, Interval) ELSE bucket
          /\ UNCHANGED <<kind, files, pc, turn, file>>
      BY <1>7 DEF Give, source
    <2>2. out' \in Seq(Tick \cup Candle)
      BY <2>1, RecordType DEF TypeOK
    <2>3. bucket' \in Nat \cup {None}
      BY <2>1, TickTime DEF TypeOK
    <2> QED BY <2>1, <2>2, <2>3 DEF TypeOK, Here
  <1>8. CASE UNCHANGED vars
    BY <1>8 DEF vars, TypeOK, Here
  <1> QED BY <1>2, <1>3, <1>4, <1>5, <1>6, <1>7, <1>8 DEF Next, Pull

\* The variables keep their types, and no row is read outside an open file.
THEOREM TypesHold == Spec => []TypeOK
  BY TypesInit, TypesStep, PTL DEF Spec

-----------------------------------------------------------------------------
\* One tick a bucket.

Sampling == kind = "tick" /\ Interval # None /\ Ascending

\* Row n of file f has been read in the turn of the instrument.
Passed(f, n) ==
  /\ f \in DOMAIN files /\ n \in DOMAIN files[f].rows
  /\ f < file \/ (f = file /\ n < pos /\ pc # "open")

\* What was given belongs to an instrument whose turn it is or was.
Turns == \A i \in DOMAIN out : \E t \in 1..turn : out[i].instrument = Asked[t]

\* What was given in this turn has the time of a row that was read, and a bucket
\* up to the one that is remembered,
Read ==
  \A i \in DOMAIN out : out[i].instrument = Wanted =>
    /\ bucket # None /\ Bucket(out[i].time, Interval) <= bucket
    /\ \E f, n \in Nat : /\ Passed(f, n) /\ Parses(files[f], files[f].rows[n])
                         /\ out[i].time = files[f].rows[n].time

\* which is that of a tick that was given.
Remembered ==
  bucket # None => \E i \in DOMAIN out : /\ out[i].instrument = Wanted
                                         /\ Bucket(out[i].time, Interval) = bucket

IInv == TypeOK /\ (Sampling => OnePerBucket /\ Turns /\ Read /\ Remembered)

\* The two constants of a stream.
LEMMA SamplingKept ==
  ASSUME UNCHANGED source
  PROVE  Sampling' <=> Sampling
  BY DEF source, Sampling, Ascending, Parses

LEMMA GivenType ==
  ASSUME TypeOK
  PROVE  \A i \in DOMAIN out : out[i].time \in Nat
  <1>1. \A i \in DOMAIN out : out[i] \in Tick \cup Candle
    BY DEF TypeOK
  <1>2. \A x \in Tick \cup Candle : x.time \in Nat
    BY DEF Tick, Candle
  <1> QED BY <1>1, <1>2

\* Reading on, without giving anything, passes no row by.
LEMMA ReadOn ==
  ASSUME IInv, Sampling, UNCHANGED <<source, turn, bucket, out>>,
         \A f, n \in Nat : Passed(f, n) => Passed(f, n)'
  PROVE  OnePerBucket' /\ Turns' /\ Read' /\ Remembered'
  <1>1. OnePerBucket /\ Turns /\ Read /\ Remembered /\ Wanted' = Wanted
    BY DEF IInv, Wanted
  <1>2. \A f, n \in Nat : Passed(f, n) /\ Parses(files[f], files[f].rows[n]) =>
                            (Passed(f, n) /\ Parses(files[f], files[f].rows[n]))'
    BY DEF source, Parses
  <1>3. OnePerBucket'
    BY <1>1, SamplingKept DEF OnePerBucket, Sampling, source
  <1>4. Turns' /\ Remembered'
    BY <1>1 DEF Turns, Remembered
  <1>5. Read'
    BY <1>1, <1>2 DEF Read, source
  <1> QED BY <1>3, <1>4, <1>5

\* The next instrument's turn: what was given is not its.
LEMMA TurnStep ==
  ASSUME IInv, Sampling, EndStream
  PROVE  OnePerBucket' /\ Turns' /\ Read' /\ Remembered'
  <1>1. /\ OnePerBucket /\ Turns /\ Read /\ Remembered /\ TypeOK
        /\ pc = "open" /\ UNCHANGED source /\ UNCHANGED <<pos, out>>
    BY DEF IInv, EndStream
  <1>2. CASE turn = Len(Asked)
    <2>1. pc' = "done" /\ UNCHANGED <<turn, file, bucket>>
      BY <1>2 DEF EndStream
    <2>2. \A f, n \in Nat : Passed(f, n) => Passed(f, n)'
      BY <1>1, <2>1 DEF Passed, source
    <2> QED BY <1>1, <2>1, <2>2, ReadOn
  <1>3. CASE turn # Len(Asked)
    <2>1. turn' = turn + 1 /\ bucket' = None
      BY <1>3 DEF EndStream
    <2>2. turn \in 1..Len(Asked) /\ Len(Asked) \in Nat /\ turn' \in 1..Len(Asked)
      BY <1>1, <1>3, <2>1, SourceAssumption DEF TypeOK
    <2>3. \A t \in 1..turn : t \in DOMAIN Asked /\ turn' \in DOMAIN Asked /\ t # turn'
      BY <2>1, <2>2, SourceAssumption
    <2>4. \A i \in DOMAIN out : out[i].instrument # Wanted'
      <3>1. \A t \in 1..turn : Asked[t] # Asked[turn']
        BY <2>3, SourceAssumption
      <3> QED BY <1>1, <3>1 DEF Turns, Wanted
    <2>5. Turns'
      <3>1. \A t \in 1..turn : t \in 1..turn'
        BY <2>1, <2>2
      <3> QED BY <1>1, <3>1 DEF Turns
    <2>6. OnePerBucket'
      BY <1>1, SamplingKept DEF OnePerBucket, Sampling, source
    <2>7. Read' /\ Remembered'
      BY <1>1, <2>1, <2>4 DEF Read, Remembered
    <2> QED BY <2>5, <2>6, <2>7
  <1> QED BY <1>2, <1>3

\* A tick that is given is of a later bucket than what was given in its turn.
LEMMA GiveStep ==
  ASSUME IInv, Sampling, Give
  PROVE  OnePerBucket' /\ Turns' /\ Read' /\ Remembered'
  <1>1. /\ OnePerBucket /\ Turns /\ Read /\ Remembered /\ TypeOK
        /\ out' = Append(out, Record) /\ pos' = pos + 1 /\ Taken /\ pc = "read"
        /\ bucket' = Bucket(Record.time, Interval) /\ Bucket(Record.time, Interval) # bucket
        /\ UNCHANGED source /\ UNCHANGED <<pc, turn, file>>
        /\ Record.instrument = Wanted /\ Parses(Here, Row)
    BY DEF IInv, Give, Sampling, Samples, Fresh, InRequest, Taken, Reading
  <1>2. /\ Record.time \in Nat /\ Record.time = Row.time
        /\ Interval \in Nat \ {0} /\ \A i \in DOMAIN out : out[i].time \in Nat
    BY <1>1, RecordType, GivenType, SourceAssumption DEF Sampling
  <1>3. /\ file \in DOMAIN files /\ pos \in DOMAIN files[file].rows /\ file \in Nat /\ pos \in Nat
        /\ Row = files[file].rows[pos] /\ Here = files[file]
    BY <1>1, FilesType, RowType DEF Taken, Row, Here, TypeOK
  <1> DEFINE new == Len(out) + 1
  <1>4. /\ DOMAIN out' = 1..new /\ DOMAIN out = 1..Len(out) /\ Len(out) \in Nat
        /\ out'[new] = Record
        /\ \A i \in DOMAIN out : out'[i] = out[i]
    BY <1>1 DEF TypeOK
  <1>5. /\ new \in DOMAIN out' /\ \A i \in DOMAIN out' : i \in DOMAIN out \/ i = new
        /\ \A i, j \in DOMAIN out' : i < j => i \in DOMAIN out
    BY <1>4
  <1>6. ASSUME NEW i \in DOMAIN out, out[i].instrument = Wanted
        PROVE  out[i].time <= Record.time
    <2>1. PICK f, n \in Nat : /\ Passed(f, n) /\ Parses(files[f], files[f].rows[n])
                              /\ out[i].time = files[f].rows[n].time
      BY <1>1, <1>6 DEF Read
    <2>2. f \in DOMAIN files /\ n \in DOMAIN files[f].rows /\ (f < file \/ (f = file /\ n < pos))
      BY <2>1 DEF Passed
    <2> QED BY <1>1, <1>2, <1>3, <2>1, <2>2 DEF Sampling, Ascending
  <1>7. bucket # None => bucket < bucket'
    <2> SUFFICES ASSUME bucket # None PROVE bucket < bucket'
      OBVIOUS
    <2>1. PICK i \in DOMAIN out : out[i].instrument = Wanted
                                  /\ Bucket(out[i].time, Interval) = bucket
      BY <1>1 DEF Remembered
    <2>2. out[i].time <= Record.time
      BY <1>6, <2>1
    <2>3. bucket <= bucket' /\ bucket \in Nat /\ bucket' \in Nat
      BY <1>1, <1>2, <2>1, <2>2, BucketMonotone
    <2> QED BY <1>1, <2>3
  <1>8. bucket' \in Nat /\ (bucket # None => bucket \in Nat)
    BY <1>1, <1>2, BucketMonotone DEF TypeOK
  <1>9. ASSUME NEW i \in DOMAIN out, out[i].instrument = Wanted
        PROVE  Bucket(out[i].time, Interval) < bucket'
    <2>1. bucket # None /\ Bucket(out[i].time, Interval) <= bucket
      BY <1>1, <1>9 DEF Read
    <2>2. Bucket(out[i].time, Interval) \in Nat
      BY <1>2, BucketMonotone
    <2> QED BY <1>7, <1>8, <2>1, <2>2
  <1>10. Wanted' = Wanted
    BY <1>1 DEF Wanted
  <1>11. OnePerBucket'
    <2> SUFFICES ASSUME NEW i \in DOMAIN out', NEW j \in DOMAIN out', i < j,
                        out'[i].instrument = out'[j].instrument
                 PROVE  Bucket(out'[i].time, Interval) < Bucket(out'[j].time, Interval)
      BY DEF OnePerBucket
    <2>1. i \in DOMAIN out /\ out'[i] = out[i]
      BY <1>4, <1>5
    <2>2. CASE j \in DOMAIN out
      BY <1>1, <1>4, <2>1, <2>2 DEF OnePerBucket, Sampling
    <2>3. CASE j = new
      BY <1>1, <1>4, <1>9, <2>1, <2>3
    <2> QED BY <1>5, <2>2, <2>3
  <1>12. Turns'
    <2>1. turn \in 1..turn
      BY <1>1, SourceAssumption DEF TypeOK
    <2> SUFFICES ASSUME NEW i \in DOMAIN out' PROVE \E t \in 1..turn : out'[i].instrument = Asked[t]
      BY <1>1 DEF Turns
    <2>2. CASE i \in DOMAIN out
      BY <1>1, <1>4, <2>2 DEF Turns
    <2>3. CASE i = new
      BY <1>1, <1>4, <2>1, <2>3 DEF Wanted
    <2> QED BY <1>5, <2>2, <2>3
  <1>13. Read'
    <2>1. \A f, n \in Nat : Passed(f, n) => Passed(f, n)'
      BY <1>1, <1>3 DEF Passed, source
    <2>2. \A f, n \in Nat : f = file /\ n = pos => Passed(f, n)'
      BY <1>1, <1>3 DEF Passed, source
    <2>3. \A f : \A row : Parses(f, row)' <=> Parses(f, row)
      BY <1>1 DEF Parses, source
    <2>4. files' = files
      BY <1>1 DEF source
    <2>5. bucket' # None
      BY <1>8, MarketAssumption
    <2> SUFFICES ASSUME NEW i \in DOMAIN out', out'[i].instrument = Wanted
                 PROVE  /\ Bucket(out'[i].time, Interval) <= bucket'
                        /\ \E f, n \in Nat : /\ Passed(f, n)'
                                             /\ Parses(files[f], files[f].rows[n])
                                             /\ out'[i].time = files[f].rows[n].time
      BY <1>10, <2>3, <2>4, <2>5 DEF Read
    <2>6. CASE i \in DOMAIN out
      <3>1. out'[i] = out[i] /\ out[i].instrument = Wanted
        BY <1>4, <2>6
      <3>2. Bucket(out[i].time, Interval) < bucket' /\ Bucket(out[i].time, Interval) \in Nat
        BY <1>2, <1>9, <2>6, <3>1, BucketMonotone
      <3>3. \E f, n \in Nat : /\ Passed(f, n) /\ Parses(files[f], files[f].rows[n])
                              /\ out[i].time = files[f].rows[n].time
        BY <1>1, <2>6, <3>1 DEF Read
      <3> QED BY <1>8, <2>1, <3>1, <3>2, <3>3
    <2>7. CASE i = new
      <3>1. out'[i] = Record
        BY <1>4, <2>7
      <3>2. Parses(files[file], files[file].rows[pos]) /\ Record.time = files[file].rows[pos].time
        BY <1>1, <1>2, <1>3
      <3> HIDE DEF new
      <3> QED BY <1>1, <1>3, <1>8, <2>2, <3>1, <3>2
    <2> QED BY <1>5, <2>6, <2>7
  <1>14. Remembered'
    BY <1>1, <1>4, <1>5, <1>10 DEF Remembered
  <1> QED BY <1>11, <1>12, <1>13, <1>14

LEMMA InitInv == Init => IInv
  <1> SUFFICES ASSUME Init PROVE IInv
    OBVIOUS
  <1>1. DOMAIN out = {} /\ bucket = None
    BY DEF Init
  <1> QED BY <1>1, TypesInit DEF IInv, OnePerBucket, Turns, Read, Remembered

LEMMA NextInv == IInv /\ [Next]_vars => IInv'
  <1> SUFFICES ASSUME IInv, [Next]_vars PROVE IInv'
    OBVIOUS
  <1>1. TypeOK /\ TypeOK' /\ UNCHANGED source
    BY TypesStep DEF IInv, Next, Pull, OpenFile, CloseFile, EndStream, Skip, Break, Drop,
       Give, Leave, vars, source
  <1>2. SUFFICES ASSUME Sampling PROVE OnePerBucket' /\ Turns' /\ Read' /\ Remembered'
    BY <1>1, SamplingKept DEF IInv
  <1>3. CASE EndStream
    BY <1>2, <1>3, TurnStep
  <1>4. CASE Give
    BY <1>2, <1>4, GiveStep
  <1>5. CASE OpenFile \/ CloseFile \/ Skip \/ Break \/ Drop \/ Leave \/ UNCHANGED vars
    <2>1. UNCHANGED <<source, turn, bucket, out>>
      BY <1>1, <1>5 DEF OpenFile, CloseFile, Skip, Break, Drop, Leave, vars
    <2>2. file \in Nat /\ pos \in Nat
      BY <1>1 DEF TypeOK
    <2>3. \A f, n \in Nat : Passed(f, n) => Passed(f, n)'
      BY <1>1, <1>5, <2>2 DEF Passed, OpenFile, CloseFile, Skip, Break, Drop, Leave, vars,
         Taken, Reading, source
    <2> QED BY <1>2, <2>1, <2>3, ReadOn
  <1> QED BY <1>3, <1>4, <1>5 DEF Next, Pull

\* The invariant of the sampling holds always.
THEOREM Invariance == Spec => []IInv
  BY InitInv, NextInv, PTL DEF Spec

\* Sampling gives each instrument one tick a bucket when times do not go back.
THEOREM OnePerBucketHolds == Spec => []OnePerBucket
  <1>1. IInv => OnePerBucket
    BY DEF IInv, OnePerBucket, Sampling
  <1> QED BY <1>1, Invariance, PTL

-----------------------------------------------------------------------------
\* What is given, from the whole of the rows.

\* The row that is read next.
Place == <<turn, file, pos>>

LEMMA ToReadIs ==
  ASSUME TypeOK
  PROVE  /\ \A p : p \in ToRead <=>
              \E a \in 1..Len(Asked), f \in 1..Len(files) :
                \E n \in 1..Len(files[f].rows) : files[f].header /\ p = <<a, f, n>>
         /\ \A p \in ToRead :
              /\ p[1] \in 1..Len(Asked) /\ p[2] \in 1..Len(files)
              /\ files[p[2]].header /\ p[3] \in 1..Len(files[p[2]].rows)
              /\ p = <<p[1], p[2], p[3]>> /\ p \in Nat \X Nat \X Nat
         /\ Len(files) \in Nat /\ Len(Asked) \in Nat
         /\ \A f \in 1..Len(files) : Len(files[f].rows) \in Nat
  <1>1. /\ files \in Seq(File(IF kind = "tick" THEN TickRow ELSE CandleRow))
        /\ Asked \in Seq(Instrument)
    BY SourceAssumption DEF TypeOK
  <1>2. DOMAIN files = 1..Len(files) /\ DOMAIN Asked = 1..Len(Asked)
        /\ Len(files) \in Nat /\ Len(Asked) \in Nat
    BY <1>1
  <1>3. \A f \in 1..Len(files) : DOMAIN files[f].rows = 1..Len(files[f].rows)
                                 /\ Len(files[f].rows) \in Nat
    <2> SUFFICES ASSUME NEW f \in 1..Len(files)
                 PROVE  DOMAIN files[f].rows = 1..Len(files[f].rows) /\ Len(files[f].rows) \in Nat
      OBVIOUS
    <2>1. files[f] \in File(IF kind = "tick" THEN TickRow ELSE CandleRow)
      BY <1>1
    <2>2. files[f].rows \in Seq(IF kind = "tick" THEN TickRow ELSE CandleRow)
      BY <2>1 DEF File
    <2> QED BY <2>2
  <1>4. ASSUME NEW p
        PROVE  p \in ToRead <=>
                 \E a \in 1..Len(Asked), f \in 1..Len(files) :
                   \E n \in 1..Len(files[f].rows) : files[f].header /\ p = <<a, f, n>>
    <2> DEFINE RowsOf(a, f) == {<<a, f, n>> : n \in DOMAIN files[f].rows}
               G == {g \in DOMAIN files : files[g].header}
               All == {RowsOf(a, f) : a \in DOMAIN Asked, f \in G}
    <2>1. \A x : x \in All <=> \E a \in DOMAIN Asked, f \in G : x = RowsOf(a, f)
      OBVIOUS
    <2>2. p \in ToRead <=> \E x \in All : p \in x
      BY DEF ToRead
    <2>3. \A a, f : p \in RowsOf(a, f) <=> \E n \in DOMAIN files[f].rows : p = <<a, f, n>>
      OBVIOUS
    <2>4. p \in ToRead <=> \E a \in DOMAIN Asked, f \in G : p \in RowsOf(a, f)
      <3> HIDE DEF RowsOf, G, All
      <3> QED BY <2>1, <2>2
    <2>5. p \in ToRead <=> \E a \in DOMAIN Asked, f \in G :
                             \E n \in DOMAIN files[f].rows : p = <<a, f, n>>
      <3> HIDE DEF RowsOf, G, All
      <3> QED BY <2>3, <2>4
    <2> QED BY <1>2, <1>3, <2>5
  <1>5. ASSUME NEW p \in ToRead
        PROVE  /\ p[1] \in 1..Len(Asked) /\ p[2] \in 1..Len(files)
               /\ files[p[2]].header /\ p[3] \in 1..Len(files[p[2]].rows)
               /\ p = <<p[1], p[2], p[3]>> /\ p \in Nat \X Nat \X Nat
    <2>1. PICK a \in 1..Len(Asked), f \in 1..Len(files) :
            \E n \in 1..Len(files[f].rows) : files[f].header /\ p = <<a, f, n>>
      BY <1>4
    <2>2. PICK n \in 1..Len(files[f].rows) : files[f].header /\ p = <<a, f, n>>
      BY <2>1
    <2>3. p[1] = a /\ p[2] = f /\ p[3] = n
      BY <2>2
    <2> QED BY <1>2, <1>3, <2>2, <2>3
  <1> QED BY <1>2, <1>3, <1>4, <1>5

\* The places are in one order.
LEMMA BeforeOrders ==
  \A p, q, r \in Nat \X Nat \X Nat :
    /\ ~Before(p, p)
    /\ Before(p, q) => ~Before(q, p)
    /\ Before(p, q) /\ Before(q, r) => Before(p, r)
    /\ p = q \/ Before(p, q) \/ Before(q, p)
  <1> SUFFICES ASSUME NEW p \in Nat \X Nat \X Nat, NEW q \in Nat \X Nat \X Nat,
                      NEW r \in Nat \X Nat \X Nat
               PROVE  /\ ~Before(p, p)
                      /\ Before(p, q) => ~Before(q, p)
                      /\ Before(p, q) /\ Before(q, r) => Before(p, r)
                      /\ p = q \/ Before(p, q) \/ Before(q, p)
    OBVIOUS
  <1>1. /\ p = <<p[1], p[2], p[3]>> /\ p[1] \in Nat /\ p[2] \in Nat /\ p[3] \in Nat
        /\ q = <<q[1], q[2], q[3]>> /\ q[1] \in Nat /\ q[2] \in Nat /\ q[3] \in Nat
        /\ r[1] \in Nat /\ r[2] \in Nat /\ r[3] \in Nat
    OBVIOUS
  <1>2. p[1] = q[1] /\ p[2] = q[2] /\ p[3] = q[3] => p = q
    BY <1>1
  <1>3. ~Before(p, p) /\ (Before(p, q) => ~Before(q, p))
    BY <1>1 DEF Before
  <1>4. Before(p, q) /\ Before(q, r) => Before(p, r)
    BY <1>1 DEF Before
  <1>5. p = q \/ Before(p, q) \/ Before(q, p)
    BY <1>1, <1>2 DEF Before
  <1> QED BY <1>3, <1>4, <1>5

\* Nothing of a row changes.
LEMMA RowsKept ==
  ASSUME UNCHANGED source
  PROVE  /\ ToRead' = ToRead
         /\ \A p : /\ Skips(p)' <=> Skips(p)
                   /\ RecordAtRow(p)' = RecordAtRow(p)
                   /\ BucketAt(p)' = BucketAt(p)
                   /\ Asks(p)' <=> Asks(p)
         /\ \A p, S : IsFirst(p, S)' <=> IsFirst(p, S)
         /\ \A f, row : Parses(f, row)' <=> Parses(f, row)
  <1>1. kind' = kind /\ files' = files
    BY DEF source
  <1>2. ToRead' = ToRead
    BY <1>1 DEF ToRead
  <1>3. \A f, row : Parses(f, row)' <=> Parses(f, row)
    BY <1>1 DEF Parses
  <1>4. \A p : (Skips(p)' <=> Skips(p)) /\ RecordAtRow(p)' = RecordAtRow(p)
    BY <1>1 DEF Skips, RecordAtRow, RecordOf
  <1>5. \A p : BucketAt(p)' = BucketAt(p)
    BY <1>4 DEF BucketAt
  <1>6. \A r : /\ Passes(r)' <=> Passes(r)
               /\ Samples(r)' <=> Samples(r)
               /\ \A w : InRequest(r, w)' <=> InRequest(r, w)
    BY <1>1 DEF Passes, Samples, InRequest
  <1>7. \A p : Asks(p)' <=> Asks(p)
    BY <1>4, <1>6 DEF Asks
  <1>8. \A p, S : IsFirst(p, S)' <=> IsFirst(p, S)
    BY <1>4, <1>5, <1>6 DEF IsFirst
  <1> QED BY <1>2, <1>3, <1>4, <1>5, <1>7, <1>8

\* The firsts of some rows; a row after all of them is another, or none.
FirstsOf(S) == {p \in S : IsFirst(p, S)}

LEMMA FirstsGrow ==
  ASSUME TypeOK, NEW S \in SUBSET ToRead, NEW h \in ToRead, \A p \in S : Before(p, h)
  PROVE  /\ h \notin S
         /\ FirstsOf(S \cup {h}) =
              FirstsOf(S) \cup (IF IsFirst(h, S \cup {h}) THEN {h} ELSE {})
  <1>1. \A p \in ToRead : p \in Nat \X Nat \X Nat
    BY ToReadIs
  <1>2. \A p \in S : ~Before(h, p) /\ p # h
    BY <1>1, BeforeOrders
  <1>3. ASSUME NEW p \in S PROVE IsFirst(p, S \cup {h}) <=> IsFirst(p, S)
    BY <1>2, <1>3 DEF IsFirst
  <1> QED BY <1>2, <1>3 DEF FirstsOf

\* What is given are the records of a set of rows, in their order.
Gives(S) ==
  /\ S \in SUBSET ToRead /\ IsFiniteSet(S) /\ Len(out) = Cardinality(S)
  /\ \A p \in S : out[Cardinality({q \in S : Before(q, p)}) + 1] = RecordAtRow(p)

LEMMA GivesAnother ==
  ASSUME TypeOK, NEW S, Gives(S), NEW h \in ToRead, \A p \in S : Before(p, h),
         out' = Append(out, RecordAtRow(h))
  PROVE  /\ S \cup {h} \in SUBSET ToRead /\ IsFiniteSet(S \cup {h})
         /\ Len(out') = Cardinality(S \cup {h})
         /\ \A p \in S \cup {h} :
              out'[Cardinality({q \in S \cup {h} : Before(q, p)}) + 1] = RecordAtRow(p)
  <1>1. \A p \in ToRead : p \in Nat \X Nat \X Nat
    BY ToReadIs
  <1>2. \A p \in S : ~Before(h, p) /\ p # h
    BY <1>1, BeforeOrders DEF Gives
  <1>3. ~Before(h, h) /\ \A p \in S : ~Before(p, p)
    BY <1>1, BeforeOrders DEF Gives
  <1>4. /\ S \cup {h} \in SUBSET ToRead /\ IsFiniteSet(S \cup {h})
        /\ Cardinality(S \cup {h}) = Cardinality(S) + 1 /\ Cardinality(S) \in Nat
    BY <1>2, FS_AddElement, FS_CardinalityType DEF Gives
  <1>5. /\ Len(out) \in Nat /\ Len(out') = Len(out) + 1
        /\ out'[Len(out) + 1] = RecordAtRow(h)
        /\ \A i \in 1..Len(out) : out'[i] = out[i]
    BY DEF TypeOK
  <1>6. ASSUME NEW p \in S
        PROVE  out'[Cardinality({q \in S \cup {h} : Before(q, p)}) + 1] = RecordAtRow(p)
    <2> DEFINE T == {q \in S : Before(q, p)}
    <2>1. {q \in S \cup {h} : Before(q, p)} = T
      BY <1>2
    <2>2. T \in SUBSET S /\ T # S
      BY <1>3
    <2>3. IsFiniteSet(T) /\ Cardinality(T) <= Cardinality(S) /\ Cardinality(T) # Cardinality(S)
      BY <2>2, FS_Subset DEF Gives
    <2>4. Cardinality(T) \in Nat
      BY <2>3, FS_CardinalityType
    <2>5. out[Cardinality(T) + 1] = RecordAtRow(p)
      BY DEF Gives
    <2>6. Cardinality(T) + 1 \in 1..Len(out)
      BY <1>4, <2>3, <2>4 DEF Gives
    <2> QED BY <1>5, <2>1, <2>5, <2>6
  <1>7. out'[Cardinality({q \in S \cup {h} : Before(q, h)}) + 1] = RecordAtRow(h)
    <2>1. {q \in S \cup {h} : Before(q, h)} = S
      BY <1>2, <1>3
    <2> QED BY <1>5, <2>1 DEF Gives
  <1>8. Len(out') = Cardinality(S \cup {h})
    BY <1>4, <1>5 DEF Gives
  <1> QED BY <1>4, <1>6, <1>7, <1>8

\* Every row that was read parses, or is of another instrument.
Readable == \A p \in HaveRead : Skips(p) \/ Parses(files[p[2]], files[p[2]].rows[p[3]])

\* The bucket is that of the last row asked for of the instrument.
BucketOfLast ==
  kind = "tick" /\ Interval # None =>
    IF bucket = None THEN \A p \in Matching : p[1] # turn
    ELSE \E p \in Matching : /\ p[1] = turn /\ BucketAt(p) = bucket
                             /\ \A q \in Matching : q[1] = turn => q = p \/ Before(q, p)

\* How a stream ends.
Endings ==
  /\ pc = "done" => HaveRead = ToRead
  /\ pc = "failed" => file <= Len(files) /\ (Here.opens =>
       pos <= Len(Here.rows) /\ ~RawSkips(Here, Row, Wanted) /\ ~Parses(Here, Row))

GInv ==
  /\ TypeOK /\ (pc = "open" => pos = 1)
  /\ Readable /\ Gives(Firsts) /\ BucketOfLast /\ Endings

LEMMA GInvGives == GInv => GivesFirsts
  BY DEF GInv, Readable, Gives, Endings, GivesFirsts

LEMMA PlaceType ==
  ASSUME TypeOK
  PROVE  /\ turn \in Nat /\ file \in Nat /\ pos \in Nat
         /\ Place \in Nat \X Nat \X Nat
  BY SourceAssumption DEF TypeOK, Place

\* The row that is read is one to read, after all that were read.
LEMMA PlaceToRead ==
  ASSUME TypeOK, Reading
  PROVE  /\ Place \in ToRead /\ \A p \in HaveRead : Before(p, Place)
         /\ Skips(Place) <=> RawSkips(Here, Row, Wanted)
         /\ RecordAtRow(Place) = Record
         /\ Asks(Place) <=> /\ ~RawSkips(Here, Row, Wanted)
                            /\ InRequest(Record, Wanted) /\ Passes(Record)
         /\ Place[1] = turn /\ files[Place[2]] = Here /\ files[Place[2]].rows[Place[3]] = Row
  <1>1. /\ turn \in 1..Len(Asked) /\ file \in 1..Len(files) /\ pos \in 1..Len(files[file].rows)
        /\ files[file].header
    BY ToReadIs, SourceAssumption DEF TypeOK, Reading, Here
  <1>2. Place \in ToRead
    BY <1>1, ToReadIs DEF Place
  <1>3. Place[1] = turn /\ Place[2] = file /\ Place[3] = pos
    BY DEF Place
  <1>4. files[Place[2]] = Here /\ files[Place[2]].rows[Place[3]] = Row /\ Asked[Place[1]] = Wanted
    BY <1>3 DEF Here, Row, Wanted
  <1>5. Skips(Place) <=> RawSkips(Here, Row, Wanted)
    BY <1>4 DEF Skips
  <1>6. RecordAtRow(Place) = Record
    BY <1>4 DEF RecordAtRow, Record
  <1>7. \A p \in HaveRead : Before(p, Place)
    BY DEF HaveRead, Place
  <1> QED BY <1>2, <1>3, <1>4, <1>5, <1>6, <1>7 DEF Asks

\* The row that is read is the only one that becomes read.
LEMMA ReadOne ==
  ASSUME TypeOK, Reading, UNCHANGED source, turn' = turn, file' = file, pos' = pos + 1
  PROVE  HaveRead' = HaveRead \cup {Place}
  <1>1. ToRead' = ToRead
    BY RowsKept
  <1>2. Place \in ToRead
    BY PlaceToRead
  <1>3. turn \in Nat /\ file \in Nat /\ pos \in Nat
    BY PlaceType
  <1>4. ASSUME NEW p \in ToRead
        PROVE  Before(p, <<turn, file, pos + 1>>) <=> Before(p, Place) \/ p = Place
    <2>1. p[1] \in Nat /\ p[2] \in Nat /\ p[3] \in Nat /\ p = <<p[1], p[2], p[3]>>
      BY ToReadIs
    <2> QED BY <1>3, <2>1 DEF Before, Place
  <1>5. HaveRead' = {p \in ToRead : Before(p, <<turn, file, pos + 1>>)}
    BY <1>1 DEF HaveRead, Before
  <1> QED BY <1>2, <1>4, <1>5 DEF HaveRead, Place

\* What only depends on the rows that were read is kept with them.
LEMMA ReadSame ==
  ASSUME UNCHANGED source, HaveRead' = HaveRead
  PROVE  /\ Matching' = Matching /\ Firsts' = Firsts /\ (Readable => Readable')
  <1>1. Matching' = Matching
    BY RowsKept DEF Matching
  <1>2. Firsts' = Firsts
    BY <1>1, RowsKept DEF Firsts
  <1>3. Readable => Readable'
    <2>1. files' = files
      BY DEF source
    <2> QED BY <2>1, RowsKept DEF Readable
  <1> QED BY <1>1, <1>2, <1>3

LEMMA GivesSame ==
  ASSUME GInv, UNCHANGED <<source, out>>, HaveRead' = HaveRead
  PROVE  Readable' /\ Gives(Firsts)'
  <1>1. Readable' /\ Firsts' = Firsts
    BY ReadSame DEF GInv
  <1>2. ToRead' = ToRead /\ \A p : RecordAtRow(p)' = RecordAtRow(p)
    BY RowsKept
  <1> QED BY <1>1, <1>2 DEF GInv, Gives

LEMMA BucketSame ==
  ASSUME GInv, UNCHANGED <<source, turn, bucket>>, HaveRead' = HaveRead
  PROVE  BucketOfLast'
  <1>1. Matching' = Matching /\ kind' = kind
    BY ReadSame DEF source
  <1>2. \A p : BucketAt(p)' = BucketAt(p)
    BY RowsKept
  <1>3. BucketOfLast
    BY DEF GInv
  <1>4. \A p, q : Before(p, q)' <=> Before(p, q)
    BY DEF Before
  <1> QED BY <1>1, <1>2, <1>3, <1>4 DEF BucketOfLast

\* A file that is opened: nothing of one without a header is to be read.
LEMMA OpenStep ==
  ASSUME GInv, OpenFile PROVE GInv'
  <1>1. /\ TypeOK /\ pc = "open" /\ pos = 1 /\ file <= Len(files) /\ pos' = 1
        /\ UNCHANGED <<source, turn, bucket, out>> /\ UNCHANGED source
    BY DEF GInv, OpenFile
  <1>2. TypeOK' /\ files' = files
    BY <1>1, TypesStep DEF OpenFile, Next, Pull, source
  <1>3. HaveRead' = {p \in ToRead : Before(p, <<turn, file', 1>>)}
    BY <1>1, RowsKept DEF HaveRead, Before
  <1>4. HaveRead' = HaveRead
    <2>1. CASE file' = file
      BY <1>1, <1>3, <2>1 DEF HaveRead
    <2>2. CASE file' = file + 1 /\ ~Here.header
      <3>1. ASSUME NEW p \in ToRead
            PROVE  Before(p, <<turn, file + 1, 1>>) <=> Before(p, <<turn, file, 1>>)
        <4>1. p[1] \in Nat /\ p[2] \in Nat /\ p[3] \in Nat /\ p[3] >= 1
          BY <1>1, ToReadIs
        <4>2. files[p[2]].header
          BY <1>1, ToReadIs
        <4>3. p[2] # file
          BY <2>2, <4>2 DEF Here
        <4>4. turn \in Nat /\ file \in Nat
          BY <1>1, PlaceType
        <4> QED BY <4>1, <4>3, <4>4 DEF Before
      <3> QED BY <1>1, <1>3, <2>2, <3>1 DEF HaveRead
    <2> QED BY <1>1, <2>1, <2>2 DEF OpenFile
  <1>5. Readable' /\ Gives(Firsts)' /\ BucketOfLast'
    BY <1>1, <1>4, GivesSame, BucketSame
  <1>6. pc' # "done" /\ (pc' = "failed" => file' = file /\ ~Here.opens)
    BY <1>1 DEF OpenFile
  <1>7. Endings'
    BY <1>1, <1>2, <1>6 DEF Endings, Here
  <1> QED BY <1>1, <1>2, <1>5, <1>7 DEF GInv

\* A file that is read to its end.
LEMMA CloseStep ==
  ASSUME GInv, CloseFile PROVE GInv'
  <1>1. /\ TypeOK /\ pc = "read" /\ pos > Len(Here.rows) /\ pc' = "open" /\ pos' = 1
        /\ file' = file + 1
        /\ UNCHANGED <<source, turn, bucket, out>> /\ UNCHANGED source
    BY DEF GInv, CloseFile
  <1>2. TypeOK'
    BY <1>1, TypesStep DEF CloseFile, Next, Pull
  <1>3. HaveRead' = {p \in ToRead : Before(p, <<turn, file + 1, 1>>)}
    BY <1>1, RowsKept DEF HaveRead, Before
  <1>4. ASSUME NEW p \in ToRead
        PROVE  Before(p, <<turn, file + 1, 1>>) <=> Before(p, <<turn, file, pos>>)
    <2>1. p[1] \in Nat /\ p[2] \in 1..Len(files) /\ p[3] \in 1..Len(files[p[2]].rows)
          /\ \A f \in 1..Len(files) : Len(files[f].rows) \in Nat
      BY <1>1, ToReadIs
    <2>2. turn \in Nat /\ file \in Nat /\ pos \in Nat /\ Len(files) \in Nat
      BY <1>1, PlaceType, ToReadIs
    <2>3. p[2] = file => p[3] < pos
      BY <1>1, <2>1, <2>2 DEF Here
    <2>4. p[2] \in Nat /\ p[3] \in Nat /\ p[3] >= 1
      BY <2>1, <2>2
    <2> QED BY <2>1, <2>2, <2>3, <2>4 DEF Before
  <1>5. HaveRead' = HaveRead
    BY <1>3, <1>4 DEF HaveRead
  <1>6. Readable' /\ Gives(Firsts)' /\ BucketOfLast'
    BY <1>1, <1>5, GivesSame, BucketSame
  <1> QED BY <1>1, <1>2, <1>6 DEF GInv, Endings

\* The turn of the next instrument, or the end, after the last file.
LEMMA EndStep ==
  ASSUME GInv, EndStream PROVE GInv'
  <1>1. /\ TypeOK /\ pc = "open" /\ pos = 1 /\ file > Len(files) /\ pos' = 1
        /\ UNCHANGED <<source, out>> /\ UNCHANGED source
    BY DEF GInv, EndStream
  <1>2. TypeOK'
    BY <1>1, TypesStep DEF EndStream, Next, Pull
  <1>3. HaveRead' = {p \in ToRead : Before(p, <<turn', file', 1>>)}
    BY <1>1, RowsKept DEF HaveRead, Before
  <1>4. /\ turn \in 1..Len(Asked) /\ file \in Nat /\ Len(files) \in Nat /\ Len(Asked) \in Nat
        /\ \A p \in ToRead : /\ p[1] \in 1..Len(Asked) /\ p[2] \in 1..Len(files)
                             /\ p[3] \in Nat /\ p[3] >= 1
    <2>1. turn \in 1..Len(Asked) /\ file \in Nat
      BY <1>1, PlaceType DEF TypeOK
    <2>2. /\ \A f \in 1..Len(files) : Len(files[f].rows) \in Nat
          /\ \A p \in ToRead : p[2] \in 1..Len(files) /\ p[3] \in 1..Len(files[p[2]].rows)
      BY <1>1, ToReadIs
    <2>3. \A p \in ToRead : p[3] \in Nat /\ p[3] >= 1
      BY <2>2
    <2> QED BY <1>1, <2>1, <2>3, ToReadIs
  <1>5. \A p \in ToRead : Before(p, <<turn, file, 1>>) <=> p[1] <= turn
    BY <1>1, <1>4 DEF Before
  <1>6. CASE turn = Len(Asked)
    <2>1. pc' = "done" /\ UNCHANGED <<turn, file, bucket>>
      BY <1>6 DEF EndStream
    <2>2. HaveRead' = HaveRead
      BY <1>1, <1>3, <2>1 DEF HaveRead
    <2>3. HaveRead' = ToRead'
      BY <1>1, <1>3, <1>4, <1>5, <1>6, <2>1, RowsKept
    <2>4. Readable' /\ Gives(Firsts)' /\ BucketOfLast'
      BY <1>1, <2>1, <2>2, GivesSame, BucketSame
    <2>5. Endings'
      BY <2>1, <2>3 DEF Endings
    <2> QED BY <1>2, <2>1, <2>4, <2>5 DEF GInv
  <1>7. CASE turn # Len(Asked)
    <2>1. turn' = turn + 1 /\ file' = 1 /\ bucket' = None /\ pc' = "open"
      BY <1>1, <1>7 DEF EndStream
    <2>2. \A p \in ToRead : Before(p, <<turn + 1, 1, 1>>) <=> p[1] <= turn
      BY <1>4 DEF Before
    <2>3. HaveRead' = HaveRead
      BY <1>1, <1>3, <1>5, <2>1, <2>2 DEF HaveRead
    <2>4. Readable' /\ Gives(Firsts)' /\ Matching' = Matching
      BY <1>1, <2>3, GivesSame, ReadSame
    <2>5. \A p \in Matching : p[1] # turn + 1
      BY <1>1, <1>4, <1>5 DEF Matching, HaveRead
    <2>6. BucketOfLast'
      BY <2>1, <2>4, <2>5 DEF BucketOfLast
    <2> QED BY <1>1, <1>2, <2>1, <2>4, <2>6 DEF GInv, Endings
  <1> QED BY <1>6, <1>7

\* The stream breaks at a row or is left.
LEMMA StopStep ==
  ASSUME GInv, Break \/ Leave \/ UNCHANGED vars PROVE GInv'
  <1>1. TypeOK /\ UNCHANGED <<source, turn, file, pos, bucket, out>> /\ UNCHANGED source
    BY DEF GInv, Break, Leave, vars, source
  <1>2. TypeOK' /\ kind' = kind /\ files' = files
    BY <1>1, TypesStep DEF Next, Pull, source
  <1>3. HaveRead' = HaveRead /\ ToRead' = ToRead
    BY <1>1, RowsKept DEF HaveRead
  <1>4. Readable' /\ Gives(Firsts)' /\ BucketOfLast'
    BY <1>1, <1>3, GivesSame, BucketSame
  <1>5. /\ Here' = Here /\ Row' = Row /\ Wanted' = Wanted
        /\ \A f, row : Parses(f, row)' <=> Parses(f, row)
    BY <1>1, <1>2, RowsKept DEF Here, Row, Wanted
  <1>6. Endings'
    <2>1. CASE Break
      <3>1. /\ pc' = "failed" /\ pos <= Len(Here.rows) /\ pc = "read"
            /\ ~RawSkips(Here, Row, Wanted) /\ ~Parses(Here, Row)
        BY <2>1 DEF Break, Reading
      <3>2. file <= Len(files)
        BY <1>1, <3>1 DEF TypeOK
      <3> QED BY <1>1, <1>2, <1>5, <3>1, <3>2 DEF Endings
    <2>2. CASE Leave
      BY <2>2 DEF Leave, Endings
    <2>3. CASE UNCHANGED vars
      <3>1. pc' = pc /\ pos' = pos /\ file' = file
        BY <2>3 DEF vars
      <3> QED BY <1>2, <1>3, <1>5, <3>1 DEF GInv, Endings
    <2> QED BY <2>1, <2>2, <2>3
  <1>7. pc' = "open" => pos' = 1
    BY <1>1 DEF Break, Leave, vars, GInv
  <1> QED BY <1>2, <1>4, <1>6, <1>7 DEF GInv

\* The bucket of a row that is asked for with sampling.
LEMMA RowBucket ==
  ASSUME TypeOK, Taken, Samples(Record)
  PROVE  Bucket(Record.time, Interval) # None
  BY TickTime, MarketAssumption

\* A row that is asked for is the first of its bucket when its bucket is not the
\* one that is remembered.
LEMMA FirstIsFresh ==
  ASSUME GInv, Taken
  PROVE  IsFirst(Place, Matching \cup {Place}) <=> Fresh(Record)
  <1>1. /\ TypeOK /\ BucketOfLast /\ Place \in ToRead /\ Place[1] = turn
        /\ \A p \in HaveRead : Before(p, Place)
        /\ RecordAtRow(Place) = Record /\ BucketAt(Place) = Bucket(Record.time, Interval)
    BY PlaceToRead DEF GInv, BucketAt, Taken
  <1>2. \A p \in Matching : p \in ToRead /\ Before(p, Place)
    BY <1>1 DEF Matching, HaveRead
  <1>3. \A p \in ToRead : p \in Nat \X Nat \X Nat
    BY <1>1, ToReadIs
  <1>4. ~Before(Place, Place)
    BY <1>1, <1>3, BeforeOrders
  <1>5. CASE ~Samples(Record)
    BY <1>1, <1>5 DEF IsFirst, Fresh
  <1>6. CASE Samples(Record) /\ bucket = None
    <2>1. \A p \in Matching : p[1] # turn
      BY <1>1, <1>6 DEF BucketOfLast, Samples
    <2>2. IsFirst(Place, Matching \cup {Place})
      BY <1>1, <1>4, <2>1 DEF IsFirst
    <2>3. Bucket(Record.time, Interval) # None
      BY <1>1, <1>6, MarketAssumption, RowBucket
    <2> QED BY <1>6, <2>2, <2>3 DEF Fresh
  <1>7. CASE Samples(Record) /\ bucket # None
    <2>1. PICK p \in Matching : /\ p[1] = turn /\ BucketAt(p) = bucket
                                /\ \A q \in Matching : q[1] = turn => q = p \/ Before(q, p)
      BY <1>1, <1>7 DEF BucketOfLast, Samples
    <2>2. ASSUME ~Fresh(Record) PROVE ~IsFirst(Place, Matching \cup {Place})
      <3>1. BucketAt(p) = BucketAt(Place) /\ Before(p, Place) /\ p[1] = Place[1]
        BY <1>1, <1>2, <2>1, <2>2 DEF Fresh
      <3>2. ASSUME NEW r \in Matching, Before(p, r) PROVE FALSE
        <4>1. r \in Nat \X Nat \X Nat /\ p \in Nat \X Nat \X Nat
          BY <1>2, <1>3
        <4>2. Before(r, Place)
          BY <1>2
        <4>3. r[1] = turn
          BY <1>1, <2>1, <3>2, <4>1, <4>2, PlaceType DEF Before
        <4>4. ~Before(p, p) /\ (Before(p, r) => ~Before(r, p))
          BY <4>1, BeforeOrders
        <4> QED BY <2>1, <3>2, <4>3, <4>4
      <3> QED BY <1>1, <1>4, <1>7, <3>1, <3>2 DEF IsFirst
    <2>3. ASSUME Fresh(Record) PROVE IsFirst(Place, Matching \cup {Place})
      <3>1. BucketAt(p) # BucketAt(Place)
        BY <1>1, <1>7, <2>1, <2>3 DEF Fresh
      <3>2. \A q \in Matching : q[1] = turn /\ BucketAt(q) = BucketAt(Place) => Before(q, p)
        BY <2>1, <3>1
      <3> QED BY <1>1, <1>2, <1>4, <3>2 DEF IsFirst
    <2> QED BY <2>2, <2>3
  <1> QED BY <1>5, <1>6, <1>7

\* What a row that was read changes.
LEMMA RowRead ==
  ASSUME GInv, Reading, UNCHANGED <<source, pc, turn, file>>, pos' = pos + 1,
         RawSkips(Here, Row, Wanted) \/ Parses(Here, Row)
  PROVE  /\ Matching' = Matching \cup (IF Asks(Place) THEN {Place} ELSE {})
         /\ Firsts' = Firsts \cup (IF Asks(Place) /\ Fresh(Record) THEN {Place} ELSE {})
         /\ Readable' /\ Endings'
         /\ Place \in ToRead /\ \A p \in Matching \cup Firsts : Before(p, Place)
  <1>1. /\ TypeOK /\ HaveRead' = HaveRead \cup {Place} /\ UNCHANGED source
        /\ Place \in ToRead /\ \A p \in HaveRead : Before(p, Place)
    BY ReadOne, PlaceToRead DEF GInv
  <1>2. Matching' = Matching \cup (IF Asks(Place) THEN {Place} ELSE {})
    BY <1>1, RowsKept DEF Matching
  <1>3. Matching \in SUBSET ToRead /\ \A p \in Matching : Before(p, Place)
    BY <1>1 DEF Matching, HaveRead
  <1>4. Firsts = FirstsOf(Matching) /\ Firsts' = FirstsOf(Matching')
    BY <1>1, RowsKept DEF Firsts, FirstsOf
  <1>5. ASSUME Asks(Place)
        PROVE  Firsts' = Firsts \cup (IF Fresh(Record) THEN {Place} ELSE {})
    <2>1. FirstsOf(Matching \cup {Place}) =
            FirstsOf(Matching) \cup (IF IsFirst(Place, Matching \cup {Place}) THEN {Place} ELSE {})
      BY <1>1, <1>3, FirstsGrow
    <2>2. Taken
      BY <1>1, <1>5, PlaceToRead DEF Taken
    <2> QED BY <1>2, <1>4, <1>5, <2>1, <2>2, FirstIsFresh
  <1>6. Firsts' = Firsts \cup (IF Asks(Place) /\ Fresh(Record) THEN {Place} ELSE {})
    BY <1>2, <1>4, <1>5
  <1>7. Readable'
    <2>1. Skips(Place) \/ Parses(files[Place[2]], files[Place[2]].rows[Place[3]])
      BY <1>1, PlaceToRead
    <2>2. files' = files
      BY DEF source
    <2> QED BY <1>1, <2>1, <2>2, RowsKept DEF GInv, Readable
  <1>8. Endings'
    BY DEF Endings, Reading
  <1>9. \A p \in Firsts : Before(p, Place)
    BY <1>3 DEF Firsts
  <1> QED BY <1>1, <1>2, <1>3, <1>6, <1>7, <1>8, <1>9

\* A row that is not given: of another instrument, not asked for, or of the
\* bucket that is remembered.
LEMMA PassStep ==
  ASSUME GInv, Skip \/ Drop PROVE GInv'
  <1>1. /\ TypeOK /\ Reading /\ UNCHANGED <<source, pc, turn, file, bucket, out>>
        /\ pos' = pos + 1 /\ UNCHANGED source
        /\ RawSkips(Here, Row, Wanted) \/ Parses(Here, Row)
        /\ BucketOfLast
    BY DEF GInv, Skip, Drop, Taken
  <1>2. TypeOK' /\ kind' = kind
    BY <1>1, TypesStep DEF Next, Pull, source
  <1>3. /\ Matching' = Matching \cup (IF Asks(Place) THEN {Place} ELSE {})
        /\ Firsts' = Firsts \cup (IF Asks(Place) /\ Fresh(Record) THEN {Place} ELSE {})
        /\ Readable' /\ Endings'
        /\ \A p \in Matching : Before(p, Place)
    BY <1>1, RowRead
  <1>4. ~(Asks(Place) /\ Fresh(Record)) /\ RecordAtRow(Place) = Record /\ Place[1] = turn
    BY <1>1, PlaceToRead DEF Skip, Drop
  <1>5. Firsts' = Firsts
    BY <1>3, <1>4
  <1>6. Gives(Firsts)'
    <2>1. ToRead' = ToRead /\ \A p : RecordAtRow(p)' = RecordAtRow(p)
      BY <1>1, RowsKept
    <2> QED BY <1>1, <1>5, <2>1 DEF GInv, Gives
  <1>7. \A p : BucketAt(p)' = BucketAt(p)
    BY <1>1, RowsKept
  <1>8. \A p, q : Before(p, q)' <=> Before(p, q)
    BY DEF Before
  <1>9. BucketOfLast'
    <2>1. CASE ~Asks(Place)
      BY <1>1, <1>2, <1>3, <1>7, <1>8, <2>1 DEF BucketOfLast
    <2>2. CASE Asks(Place)
      <3>1. BucketAt(Place) = bucket /\ Samples(Record)
        BY <1>4, <2>2 DEF Fresh, BucketAt
      <3>2. bucket # None
        <4>1. Taken
          BY <1>1, <2>2, PlaceToRead DEF Taken, Asks
        <4>2. BucketAt(Place) = Bucket(Record.time, Interval)
          BY <1>4 DEF BucketAt
        <4> QED BY <1>1, <3>1, <4>1, <4>2, RowBucket
      <3> QED BY <1>1, <1>2, <1>3, <1>4, <1>7, <1>8, <2>2, <3>1, <3>2 DEF BucketOfLast
    <2> QED BY <2>1, <2>2
  <1>10. pc' = "open" => pos' = 1
    BY <1>1 DEF Reading
  <1> QED BY <1>2, <1>3, <1>6, <1>9, <1>10 DEF GInv

\* A row that is given.
LEMMA GivenStep ==
  ASSUME GInv, Give PROVE GInv'
  <1>1. /\ TypeOK /\ Reading /\ UNCHANGED <<source, pc, turn, file>>
        /\ pos' = pos + 1 /\ UNCHANGED source /\ Parses(Here, Row) /\ Taken
        /\ out' = Append(out, Record) /\ Fresh(Record)
        /\ bucket' = IF Samples(Record) THEN Bucket(Record.time, Interval) ELSE bucket
    BY DEF GInv, Give, Taken
  <1>2. TypeOK' /\ kind' = kind
    BY <1>1, TypesStep DEF Next, Pull, source
  <1>3. Asks(Place) /\ RecordAtRow(Place) = Record /\ Place[1] = turn
    BY <1>1, PlaceToRead DEF Give, Taken
  <1>4. /\ Matching' = Matching \cup {Place} /\ Firsts' = Firsts \cup {Place}
        /\ Readable' /\ Endings' /\ Place \in ToRead
        /\ \A p \in Matching \cup Firsts : Before(p, Place)
    BY <1>1, <1>3, RowRead
  <1>5. Gives(Firsts)'
    <2>1. ToRead' = ToRead /\ \A p : RecordAtRow(p)' = RecordAtRow(p)
      BY <1>1, RowsKept
    <2>2. Gives(Firsts) /\ out' = Append(out, RecordAtRow(Place))
      BY <1>1, <1>3 DEF GInv
    <2>3. /\ Firsts \cup {Place} \in SUBSET ToRead /\ IsFiniteSet(Firsts \cup {Place})
          /\ Len(out') = Cardinality(Firsts \cup {Place})
          /\ \A p \in Firsts \cup {Place} :
               out'[Cardinality({q \in Firsts \cup {Place} : Before(q, p)}) + 1] = RecordAtRow(p)
      BY <1>1, <1>4, <2>2, GivesAnother
    <2> QED BY <1>4, <2>1, <2>3 DEF Gives
  <1>6. BucketOfLast'
    <2> SUFFICES ASSUME kind = "tick", Interval # None
                 PROVE  IF bucket' = None THEN \A p \in Matching' : p[1] # turn'
                        ELSE \E p \in Matching' :
                          /\ p[1] = turn' /\ BucketAt(p)' = bucket'
                          /\ \A q \in Matching' : q[1] = turn' => q = p \/ Before(q, p)
      BY <1>2 DEF BucketOfLast, Before
    <2>1. bucket' = BucketAt(Place) /\ bucket' # None
      <3>1. Samples(Record) /\ BucketAt(Place) = Bucket(Record.time, Interval)
        BY <1>3 DEF Samples, BucketAt
      <3> QED BY <1>1, <3>1, RowBucket
    <2>2. \A p : BucketAt(p)' = BucketAt(p)
      BY <1>1, RowsKept
    <2> QED BY <1>1, <1>3, <1>4, <2>1, <2>2
  <1>7. pc' = "open" => pos' = 1
    BY <1>1 DEF Reading
  <1> QED BY <1>2, <1>4, <1>5, <1>6, <1>7 DEF GInv

LEMMA GivesInit == Init => GInv
  <1> SUFFICES ASSUME Init PROVE GInv
    OBVIOUS
  <1>1. TypeOK /\ pc = "open" /\ turn = 1 /\ file = 1 /\ pos = 1 /\ bucket = None /\ out = <<>>
    BY TypesInit DEF Init
  <1>2. HaveRead = {}
    <2>1. \A p \in ToRead : /\ p[1] \in 1..Len(Asked) /\ p[2] \in 1..Len(files)
                            /\ p[3] \in 1..Len(files[p[2]].rows)
                            /\ Len(files[p[2]].rows) \in Nat
      BY <1>1, ToReadIs
    <2>2. \A p \in ToRead : p[1] >= 1 /\ p[2] >= 1 /\ p[3] >= 1
                            /\ p[1] \in Nat /\ p[2] \in Nat /\ p[3] \in Nat
      BY <1>1, <2>1, ToReadIs
    <2> QED BY <1>1, <2>2 DEF HaveRead, Before
  <1>3. Matching = {} /\ Firsts = {}
    BY <1>2 DEF Matching, Firsts
  <1>4. Gives(Firsts)
    BY <1>1, <1>3, FS_EmptySet DEF Gives
  <1> QED BY <1>1, <1>2, <1>3, <1>4 DEF GInv, Readable, BucketOfLast, Endings

LEMMA GivesNext == GInv /\ [Next]_vars => GInv'
  BY OpenStep, CloseStep, EndStep, StopStep, PassStep, GivenStep DEF Next, Pull

\* The consumer is given the records of the rows it asked for among those read,
\* each once and in their order, with sampling the first of each run of a bucket.
THEOREM GivesFirstsHolds == Spec => []GivesFirsts
  BY GivesInit, GivesNext, GInvGives, PTL DEF Spec
=============================================================================
